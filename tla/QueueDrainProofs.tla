-------------------------- MODULE QueueDrainProofs --------------------------
(***************************************************************************)
(* Proofs about QueueDrain, for any set of items, agents, rules, cycles    *)
(* and API requests.                                                       *)
(***************************************************************************)
EXTENDS QueueDrain, FiniteSetTheorems, TLAPS

LEMMA Bump ==
  ASSUME NEW S, NEW f \in [S -> Nat], NEW x \in S
  PROVE  f[x] + 1 \in Nat /\ [f EXCEPT ![x] = f[x] + 1] \in [S -> Nat]
<1>1. f[x] \in Nat
  OBVIOUS
<1>2. f[x] + 1 \in Nat
  BY <1>1
<1> QED
  BY <1>2

-----------------------------------------------------------------------------
(* What a cycle fetches *)

(* A cron tick fetches at most one snapshot of a row, of pending rows only, *)
(* and the snapshot holds the row's attempts.                               *)
LEMMA GroupedFacts ==
  ASSUME TypeOK, QueueAssumption
  PROVE  /\ Grouped \in SUBSET Snapshot
         /\ \A s \in Grouped : /\ s.item \in Item
                               /\ status[s.item] = "pending"
                               /\ s.attempts = attempts[s.item]
         /\ \A s, t \in Grouped : s.item = t.item => s = t
<1>1. Grouped \subseteq Fetched
  BY DEF Grouped, First
<1>2. Ready \subseteq Item /\ \A i \in Ready : status[i] = "pending"
  BY DEF Ready
<1>3. \A i \in Item : Aged[i] \in Int
  BY DEF Aged, TypeOK, QueueAssumption
<1>4. Fetched \subseteq Snapshot
  <2>1. ASSUME NEW i \in Ready
        PROVE  [item |-> i, attempts |-> attempts[i], message |-> message[i],
                enabled |-> rule[RuleOf[i]] = "enabled", due |-> Aged[i]] \in Snapshot
    <3>1. i \in Item /\ attempts[i] \in Nat /\ message[i] \in Nat /\ Aged[i] \in Int
      BY <1>2, <1>3 DEF TypeOK
    <3>2. (rule[RuleOf[i]] = "enabled") \in BOOLEAN
      OBVIOUS
    <3> QED
      BY <3>1, <3>2 DEF Snapshot
  <2> QED
    BY <2>1 DEF Fetched
<1>5. \A s \in Fetched : /\ s.item \in Ready /\ s.attempts = attempts[s.item]
                         /\ s = [item |-> s.item, attempts |-> attempts[s.item],
                                 message |-> message[s.item],
                                 enabled |-> rule[RuleOf[s.item]] = "enabled",
                                 due |-> Aged[s.item]]
  BY DEF Fetched
<1> QED
  BY <1>1, <1>2, <1>4, <1>5

(* The loop of a group is at one item. *)
LEMMA CurrentUnique ==
  ASSUME TypeOK, QueueAssumption, NEW d \in Drain, NEW a \in Agent,
         NEW s \in Current(d, a), NEW t \in Current(d, a)
  PROVE  s = t
<1>1. s \in Snapshot /\ t \in Snapshot
  BY DEF Current, Group, TypeOK
<1>2. SUFFICES ASSUME s # t PROVE FALSE
  OBVIOUS
<1>3. Precedes(s, t) /\ Precedes(t, s)
  BY <1>2 DEF Current
<1>4. s.due \in Int /\ t.due \in Int /\ s.item \in Nat /\ t.item \in Nat
  BY <1>1 DEF Snapshot, QueueAssumption
<1> QED
  BY <1>3, <1>4 DEF Precedes

LEMMA CurrentFacts ==
  ASSUME TypeOK, NEW d \in Drain, NEW a \in Agent, NEW s \in Current(d, a)
  PROVE  /\ s \in batch[d] /\ s \in Snapshot /\ s \in Group(d, a)
         /\ s.item \in Item /\ s.attempts \in Nat /\ s.message \in Nat
         /\ AgentOf[s.item] = a
BY DEF Current, Group, TypeOK, Snapshot

-----------------------------------------------------------------------------
(* Type correctness *)

(* The part of TypeOK that the loops of a cycle disturb. *)
LoopsOK ==
  /\ batch \in [Drain -> SUBSET Snapshot]
  /\ pc \in [Drain -> [Agent -> {"check", "pause", "execute", "complete", "catch"}]]
  /\ \A d \in Drain, a \in Agent : Group(d, a) = {} => pc[d][a] = "check"

(* A jump within the item the loop is at. *)
LEMMA GotoLoops ==
  ASSUME TypeOK, NEW d \in Drain, NEW a \in Agent, NEW s \in Current(d, a),
         NEW label \in {"execute", "complete", "catch"},
         Goto(d, a, label), UNCHANGED batch
  PROVE  LoopsOK'
<1>1. s \in Group(d, a)
  BY DEF Current
<1> QED
  BY <1>1 DEF TypeOK, LoopsOK, Goto, Group

(* The step to the next item. *)
LEMMA NextItemLoops ==
  ASSUME TypeOK, NEW d \in Drain, NEW a \in Agent, NEW s \in Current(d, a),
         NEW label \in {"check", "pause"},
         label = "check" \/ Group(d, a) # {s}, NextItem(d, a, s, label)
  PROVE  LoopsOK'
<1>1. s \in Group(d, a)
  BY DEF Current
<1>2. /\ batch' \in [Drain -> SUBSET Snapshot]
      /\ pc' \in [Drain -> [Agent -> {"check", "pause", "execute", "complete", "catch"}]]
  BY DEF TypeOK, NextItem, Goto
<1>3. ASSUME NEW e \in Drain, NEW b \in Agent, Group(e, b)' = {}
      PROVE  pc'[e][b] = "check"
  <2>1. CASE e = d /\ b = a
    <3>1. Group(d, a)' = Group(d, a) \ {s}
      BY DEF Group, NextItem, TypeOK
    <3> QED
      BY <1>1, <1>3, <2>1, <3>1 DEF NextItem, Goto, TypeOK
  <2>2. CASE ~(e = d /\ b = a)
    <3>1. Group(e, b)' = Group(e, b)
      BY <1>1, <2>2 DEF Group, NextItem, TypeOK
    <3> QED
      BY <1>3, <2>2, <3>1 DEF NextItem, Goto, TypeOK
  <2> QED
    BY <2>1, <2>2
<1> QED
  BY <1>2, <1>3 DEF LoopsOK

(* An exception that leaves the loop. *)
LEMMA AbandonLoops ==
  ASSUME TypeOK, NEW d \in Drain, NEW a \in Agent, AbandonGroup(d, a)
  PROVE  LoopsOK'
<1>1. /\ batch' \in [Drain -> SUBSET Snapshot]
      /\ pc' \in [Drain -> [Agent -> {"check", "pause", "execute", "complete", "catch"}]]
  BY DEF TypeOK, AbandonGroup, Goto
<1>2. ASSUME NEW e \in Drain, NEW b \in Agent, Group(e, b)' = {}
      PROVE  pc'[e][b] = "check"
  <2>1. CASE e = d /\ b = a
    BY <2>1 DEF AbandonGroup, Goto, TypeOK
  <2>2. CASE ~(e = d /\ b = a)
    <3>1. Group(e, b)' = Group(e, b)
      BY <2>2 DEF Group, AbandonGroup, TypeOK
    <3> QED
      BY <1>2, <2>2, <3>1 DEF AbandonGroup, Goto, TypeOK
  <2> QED
    BY <2>1, <2>2
<1> QED
  BY <1>1, <1>2 DEF LoopsOK

(* One step of one loop keeps the types. *)
LEMMA StepTypeOK ==
  ASSUME TypeOK, QueueAssumption, NEW d \in Drain, NEW a \in Agent, Step(d, a)
  PROVE  TypeOK'
<1>1. PICK s \in Current(d, a) :
        \/ CancelDisabled(d, a, s) \/ Reschedule(d, a, s)
        \/ Start(d, a, s) \/ StartFails(d, a, s) \/ Execute(d, a, s)
        \/ Complete(d, a, s) \/ CompleteFails(d, a, s)
        \/ Catch(d, a, s) \/ CatchFails(d, a, s)
  BY DEF Step
<1>2. s.item \in Item /\ s.attempts \in Nat /\ s.message \in Nat /\ s \in Group(d, a)
  BY CurrentFacts
<1>3. AfterPause(d, a, s) \in {"check", "pause"}
      /\ (AfterPause(d, a, s) = "check" \/ Group(d, a) # {s})
  BY DEF AfterPause
<1>4. SUFFICES ASSUME LoopsOK' PROVE TypeOK'
  <2>1. CASE CancelDisabled(d, a, s)
    BY <2>1, NextItemLoops, AbandonLoops DEF CancelDisabled
  <2>2. CASE Reschedule(d, a, s)
    BY <2>2, NextItemLoops, AbandonLoops DEF Reschedule
  <2>3. CASE Start(d, a, s)
    BY <2>3, GotoLoops DEF Start
  <2>4. CASE StartFails(d, a, s)
    BY <2>4, GotoLoops DEF StartFails
  <2>5. CASE Execute(d, a, s)
    BY <2>5, GotoLoops DEF Execute
  <2>6. CASE Complete(d, a, s)
    BY <2>6, <1>3, NextItemLoops, GotoLoops DEF Complete
  <2>7. CASE CompleteFails(d, a, s)
    BY <2>7, GotoLoops DEF CompleteFails
  <2>8. CASE Catch(d, a, s)
    BY <2>8, <1>3, NextItemLoops, AbandonLoops DEF Catch
  <2>9. CASE CatchFails(d, a, s)
    BY <2>9, AbandonLoops DEF CatchFails
  <2> QED
    BY <1>1, <2>1, <2>2, <2>3, <2>4, <2>5, <2>6, <2>7, <2>8, <2>9
<1>5. CASE CancelDisabled(d, a, s)
  BY <1>2, <1>4, <1>5 DEF CancelDisabled, TypeOK, LoopsOK, Status, ledger
<1>6. CASE Reschedule(d, a, s)
  BY <1>2, <1>4, <1>6, QueueAssumption DEF Reschedule, TypeOK, LoopsOK, ledger
<1>7. CASE Start(d, a, s)
  <2>1. status' \in [Item -> Status]
    BY <1>2, <1>7 DEF Start, TypeOK, Status
  <2>2. attempts' \in [Item -> Nat]
    <3> attempts \in [Item -> Nat]
      BY DEF TypeOK
    <3> s.item \in Item
      BY <1>2
    <3>1. attempts[s.item] + 1 \in Nat
      BY Bump
    <3>2. attempts' = [attempts EXCEPT ![s.item] = attempts[s.item] + 1]
          \/ attempts' = attempts
      BY <1>7 DEF Start, Incremented
    <3> QED
      BY <3>1, <3>2
  <2>3. UNCHANGED <<due, message, rule, open, call, ledger, faults>>
    BY <1>7 DEF Start
  <2> QED
    BY <1>4, <2>1, <2>2, <2>3 DEF TypeOK, LoopsOK, ledger
<1>8. CASE StartFails(d, a, s)
  BY <1>4, <1>8 DEF StartFails, Fault, TypeOK, LoopsOK, rows, ledger
<1>9. CASE Execute(d, a, s)
  <2>1. ran' \in [Item -> Nat] /\ said' \in [Item -> Nat]
    <3> ran \in [Item -> Nat] /\ said \in [Item -> Nat]
      BY DEF TypeOK
    <3> s.item \in Item /\ s.message \in Nat
      BY <1>2
    <3>1. ran[s.item] + 1 \in Nat
      BY Bump
    <3>2. /\ ran' = [ran EXCEPT ![s.item] = ran[s.item] + 1] \/ ran' = ran
          /\ said' = [said EXCEPT ![s.item] = s.message] \/ said' = said
      BY <1>9 DEF Execute
    <3> QED
      BY <3>1, <3>2
  <2>2. UNCHANGED <<rows, rule, open, call, retries, doubled, faults>>
    BY <1>9 DEF Execute
  <2> QED
    BY <1>4, <2>1, <2>2 DEF TypeOK, LoopsOK, rows
<1>10. CASE Complete(d, a, s)
  <2>1. status' \in [Item -> Status]
    BY <1>2, <1>10 DEF Complete, TypeOK, Status
  <2> QED
    BY <1>4, <1>10, <2>1 DEF Complete, TypeOK, LoopsOK, ledger
<1>11. CASE CompleteFails(d, a, s)
  BY <1>4, <1>11 DEF CompleteFails, Fault, TypeOK, LoopsOK, rows, ledger
<1>12. CASE Catch(d, a, s)
  BY <1>2, <1>4, <1>12 DEF Catch, Outcome, TypeOK, LoopsOK, Status, ledger
<1>13. CASE CatchFails(d, a, s)
  BY <1>4, <1>13 DEF CatchFails, Fault, TypeOK, LoopsOK, rows, ledger
<1> QED
  BY <1>1, <1>5, <1>6, <1>7, <1>8, <1>9, <1>10, <1>11, <1>12, <1>13

(* The API's handlers, the rules and the clock: no loop moves. *)
Outside ==
  \/ \E i \in Item : Enqueue(i)
  \/ \E c \in Call :
       \/ \E i \in Item : CancelCheck(c, i) \/ RetryCheck(c, i) \/ EditCheck(c, i)
       \/ CancelWrite(c) \/ RetryWrite(c) \/ EditWrite(c)
  \/ CancelAll
  \/ \E r \in Rule : ToggleRule(r) \/ DeleteRule(r) \/ HoursChange(r)

LEMMA OutsideFrame == Outside => UNCHANGED <<batch, pc>>
BY DEF Outside, Enqueue, CancelCheck, RetryCheck, EditCheck, Check, CancelWrite,
       RetryWrite, EditWrite, CancelAll, ToggleRule, DeleteRule, HoursChange

LEMMA OutsideTypeOK ==
  ASSUME TypeOK, QueueAssumption, Outside
  PROVE  TypeOK'
<1> UNCHANGED <<batch, pc>>
  BY OutsideFrame
<1>1. LoopsOK'
  BY DEF TypeOK, LoopsOK, Group
<1> USE <1>1 DEF TypeOK, LoopsOK, rows, ledger
<1>2. ASSUME NEW i \in Item, Enqueue(i) PROVE TypeOK'
  BY <1>2, QueueAssumption DEF Enqueue, Status
<1>3. ASSUME NEW c \in Call, NEW i \in Item,
             CancelCheck(c, i) \/ RetryCheck(c, i) \/ EditCheck(c, i)
      PROVE  TypeOK'
  BY <1>3 DEF CancelCheck, RetryCheck, EditCheck, Check, Request
<1>4. ASSUME NEW c \in Call, call[c] # NoCall PROVE call[c].item \in Item
  BY <1>4 DEF Request
<1>5. ASSUME NEW c \in Call, CancelWrite(c) PROVE TypeOK'
  BY <1>4, <1>5 DEF CancelWrite, Return, Status
<1>6. ASSUME NEW c \in Call, RetryWrite(c) PROVE TypeOK'
  BY <1>4, <1>6 DEF RetryWrite, Return, Status
<1>7. ASSUME NEW c \in Call, EditWrite(c) PROVE TypeOK'
  <2>1. message' \in [Item -> Nat]
    <3> call[c].item \in Item
      BY <1>4, <1>7 DEF EditWrite
    <3>1. \A x \in Item : message[x] + 1 \in Nat
      BY Bump
    <3>2. message' = [message EXCEPT ![call[c].item] = message[call[c].item] + 1]
          \/ message' = message
      BY <1>7 DEF EditWrite
    <3> QED
      BY <3>1, <3>2
  <2>2. call' \in [Call -> Request \cup {NoCall}]
    BY <1>7 DEF EditWrite, Return
  <2>3. UNCHANGED <<status, attempts, due, rule, open, ledger, faults>>
    BY <1>7 DEF EditWrite
  <2> QED
    BY <2>1, <2>2, <2>3
<1>8. ASSUME CancelAll PROVE TypeOK'
  BY <1>8 DEF CancelAll, Status
<1>9. ASSUME NEW r \in Rule, ToggleRule(r) \/ DeleteRule(r) \/ HoursChange(r)
      PROVE  TypeOK'
  <2>1. CASE ToggleRule(r)
    BY <2>1 DEF ToggleRule
  <2>2. CASE DeleteRule(r)
    BY <2>2 DEF DeleteRule, Status
  <2>3. CASE HoursChange(r)
    <3>1. open' \in SUBSET Rule
      BY <2>3 DEF HoursChange
    <3>2. UNCHANGED <<rows, rule, call, ledger, faults>>
      BY <2>3 DEF HoursChange
    <3> QED
      BY <3>1, <3>2
  <2> QED
    BY <1>9, <2>1, <2>2, <2>3
<1> QED
  BY <1>2, <1>3, <1>5, <1>6, <1>7, <1>8, <1>9 DEF Outside

LEMMA NextTypeOK ==
  ASSUME TypeOK, QueueAssumption, [Next]_vars
  PROVE  TypeOK'
<1>1. ASSUME NEW d \in Drain, DrainQueue(d) PROVE TypeOK'
  <2>1. LoopsOK'
    <3>1. Grouped \in SUBSET Snapshot
      BY GroupedFacts
    <3>2. \A b \in Agent : Group(d, b) = {}
      BY <1>1 DEF DrainQueue, Group
    <3>3. batch' = [batch EXCEPT ![d] = Grouped] /\ pc' = pc
      BY <1>1 DEF DrainQueue
    <3>4. ASSUME NEW e \in Drain, NEW b \in Agent, Group(e, b)' = {}
          PROVE  pc[e][b] = "check"
      <4>1. CASE e = d
        BY <3>2, <4>1 DEF TypeOK
      <4>2. CASE e # d
        <5>1. Group(e, b)' = Group(e, b)
          BY <3>3, <4>2 DEF Group, TypeOK
        <5> QED
          BY <3>4, <5>1 DEF TypeOK
      <4> QED
        BY <4>1, <4>2
    <3> QED
      BY <3>1, <3>3, <3>4 DEF LoopsOK, TypeOK
  <2>2. Aged \in [Item -> Int]
    BY DEF Aged, TypeOK, QueueAssumption
  <2>3. doubled' \in [Item -> Nat]
    <3>1. \A i \in Item : doubled[i] \in Nat /\ doubled[i] + 1 \in Nat
      BY DEF TypeOK
    <3> QED
      BY <1>1, <3>1 DEF DrainQueue
  <2> QED
    BY <1>1, <2>1, <2>2, <2>3 DEF DrainQueue, TypeOK, LoopsOK, ledger
<1>2. ASSUME NEW d \in Drain, NEW a \in Agent, Step(d, a) PROVE TypeOK'
  BY <1>2, StepTypeOK
<1>3. ASSUME Crash PROVE TypeOK'
  BY <1>3 DEF Crash, Fault, TypeOK, rows, ledger, Group
<1>4. ASSUME Outside PROVE TypeOK'
  BY <1>4, OutsideTypeOK
<1>5. ASSUME UNCHANGED vars PROVE TypeOK'
  BY <1>5 DEF TypeOK, vars, rows, ledger, Group
<1> QED
  BY <1>1, <1>2, <1>3, <1>4, <1>5 DEF Next, Outside

(* Every state has its shape, and a loop with no item left is at its start. *)
THEOREM QueueTypeCorrect == QueueAssumption => (Spec => []TypeOK)
<1> SUFFICES ASSUME QueueAssumption PROVE Spec => []TypeOK
  OBVIOUS
<1>1. Init => TypeOK
  BY DEF Init, TypeOK, Status, Request, Group
<1>2. TypeOK /\ [Next]_vars => TypeOK'
  BY NextTypeOK
<1> QED
  BY <1>1, <1>2, PTL DEF Spec

-----------------------------------------------------------------------------
(* The attempt budget *)

(* BudgetInv, one item and one fetched row at a time. *)
ItemSafe(i) ==
  /\ Cardinality(Holders(i)) <= doubled[i] + 1
  /\ Claimed(i) <= RetryLimit + 1 + Granted(i)
  /\ status[i] = "none" => attempts[i] = 0
  /\ status[i] = "pending" => attempts[i] <= RetryLimit + Granted(i)
  /\ ran[i] + Cardinality(Executing(i)) <= attempts[i]

HeldSafe(s) == Claimed(s.item) <= s.attempts + 1 + doubled[s.item]

LEMMA BudgetInvParts ==
  BudgetInv <=> /\ OneSnapshotPerItem
                /\ \A i \in Item : ItemSafe(i)
                /\ \A d \in Drain : \A s \in batch[d] : HeldSafe(s)
BY DEF BudgetInv, ItemSafe, HeldSafe

(* Sets of cycles are finite, and grow and shrink by one. *)
LEMMA DrainSets ==
  ASSUME QueueAssumption, NEW S \in SUBSET Drain
  PROVE  IsFiniteSet(S) /\ Cardinality(S) \in Nat
BY FS_Subset, FS_CardinalityType DEF QueueAssumption

LEMMA DrainSubset ==
  ASSUME QueueAssumption, NEW S \in SUBSET Drain, NEW T \in SUBSET S
  PROVE  Cardinality(T) <= Cardinality(S)
BY DrainSets, FS_Subset

LEMMA DrainAdd ==
  ASSUME QueueAssumption, NEW S \in SUBSET Drain, NEW T \in SUBSET Drain,
         NEW d \in Drain, T \subseteq S \cup {d}
  PROVE  Cardinality(T) <= Cardinality(S) + 1
<1>1. Cardinality(T) <= Cardinality(S \cup {d})
  BY DrainSubset
<1>2. Cardinality(S \cup {d}) = IF d \in S THEN Cardinality(S) ELSE Cardinality(S) + 1
  BY DrainSets, FS_AddElement
<1>3. Cardinality(S) \in Nat /\ Cardinality(T) \in Nat
  BY DrainSets
<1> QED
  BY <1>1, <1>2, <1>3

LEMMA DrainDrop ==
  ASSUME QueueAssumption, NEW S \in SUBSET Drain, NEW T \in SUBSET S,
         NEW d \in S, d \notin T
  PROVE  Cardinality(T) + 1 <= Cardinality(S)
<1>1. T \in SUBSET (S \ {d}) /\ S \ {d} \in SUBSET Drain
  OBVIOUS
<1>2. Cardinality(T) <= Cardinality(S \ {d})
  BY <1>1, DrainSubset
<1>3. Cardinality(S \ {d}) = Cardinality(S) - 1
  BY DrainSets, FS_RemoveElement
<1>4. Cardinality(S) \in Nat /\ Cardinality(T) \in Nat
  BY DrainSets
<1> QED
  BY <1>2, <1>3, <1>4

LEMMA CycleSets ==
  ASSUME QueueAssumption, NEW i \in Item
  PROVE  /\ Holders(i) \in SUBSET Drain /\ Cardinality(Holders(i)) \in Nat
         /\ Fresh(i) \in SUBSET Holders(i) /\ Cardinality(Fresh(i)) \in Nat
         /\ Executing(i) \in SUBSET Drain /\ Cardinality(Executing(i)) \in Nat
         /\ Fresh(i) \in SUBSET Drain
<1>1. /\ Holders(i) \in SUBSET Drain /\ Fresh(i) \in SUBSET Holders(i)
      /\ Executing(i) \in SUBSET Drain /\ Fresh(i) \in SUBSET Drain
  BY DEF Holders, Fresh, Executing
<1> QED
  BY <1>1, DrainSets

LEMMA HeldFacts ==
  ASSUME TypeOK, QueueAssumption, NEW d \in Drain, NEW s \in batch[d]
  PROVE  s.item \in Item /\ s.attempts \in Nat /\ AgentOf[s.item] \in Agent
<1>1. s \in Snapshot
  BY DEF TypeOK
<1>2. s.item \in Item /\ s.attempts \in Nat
  BY <1>1 DEF Snapshot
<1> QED
  BY <1>2 DEF QueueAssumption

(* The three ways a step of a loop ends. *)
Stays(d, a) == \E label \in {"execute", "complete", "catch"} : Goto(d, a, label) /\ UNCHANGED batch
Moves(d, a, s) == \E label \in {"check", "pause"} : NextItem(d, a, s, label)

(* A step of one loop leaves every other fetched row as begun as it was. *)
LEMMA StepFrame ==
  ASSUME TypeOK, QueueAssumption, OneSnapshotPerItem,
         NEW d \in Drain, NEW a \in Agent, NEW s \in Current(d, a),
         Stays(d, a) \/ Moves(d, a, s) \/ AbandonGroup(d, a)
  PROVE  /\ \A e \in Drain : batch'[e] \subseteq batch[e]
         /\ \A t \in batch'[d] : t # s =>
              /\ t.item # s.item
              /\ Begun(d, t)' <=> Begun(d, t)
              /\ Begun(d, t) => pc'[d][AgentOf[t.item]] = pc[d][AgentOf[t.item]]
         /\ s \in batch'[d] => Stays(d, a) /\ Begun(d, s)'
<1>1. /\ s \in batch[d] /\ s \in Group(d, a) /\ AgentOf[s.item] = a
      /\ s.item \in Item
  BY CurrentFacts
<1>2. \A e \in Drain : batch'[e] \subseteq batch[e]
  BY DEF Stays, Moves, NextItem, AbandonGroup, TypeOK
<1>3. \A b \in Agent : b # a => pc'[d][b] = pc[d][b] /\ Group(d, b)' = Group(d, b)
  BY <1>1 DEF Stays, Moves, NextItem, AbandonGroup, Goto, Group, TypeOK
<1>4. ASSUME NEW t \in batch'[d], t # s
      PROVE  /\ t.item # s.item
             /\ Begun(d, t)' <=> Begun(d, t)
             /\ Begun(d, t) => pc'[d][AgentOf[t.item]] = pc[d][AgentOf[t.item]]
  <2>1. t \in batch[d] /\ t.item # s.item
    BY <1>1, <1>2, <1>4 DEF OneSnapshotPerItem
  <2>2. t.item \in Item /\ AgentOf[t.item] \in Agent
    BY <2>1, HeldFacts
  <2>3. CASE AgentOf[t.item] = a
    <3>1. t \notin Current(d, a)
      BY <1>4, CurrentUnique
    <3>2. CASE Stays(d, a)
      <4>1. Current(d, a)' = Current(d, a)
        BY <3>2 DEF Stays, Current, Group
      <4> QED
        BY <2>1, <2>3, <3>1, <4>1 DEF Begun
    <3>3. CASE Moves(d, a, s) \/ AbandonGroup(d, a)
      <4>1. pc'[d][a] \in {"check", "pause"}
        BY <3>3 DEF Moves, NextItem, AbandonGroup, Goto, TypeOK
      <4> QED
        BY <2>1, <2>3, <3>1, <4>1 DEF Begun
    <3> QED
      BY <3>2, <3>3
  <2>4. CASE AgentOf[t.item] # a
    <3>1. Current(d, AgentOf[t.item])' = Current(d, AgentOf[t.item])
      BY <1>3, <2>2, <2>4 DEF Current
    <3> QED
      BY <1>3, <2>1, <2>2, <2>4, <3>1 DEF Begun
  <2> QED
    BY <2>3, <2>4, <2>1
<1>5. ASSUME s \in batch'[d] PROVE Stays(d, a) /\ Begun(d, s)'
  <2>1. Stays(d, a)
    BY <1>1, <1>5 DEF Moves, NextItem, AbandonGroup, TypeOK
  <2>2. s \in Current(d, a)'
    BY <2>1 DEF Stays, Current, Group
  <2>3. pc'[d][a] \in {"execute", "complete", "catch"}
    BY <2>1 DEF Stays, Goto, TypeOK
  <2> QED
    BY <1>1, <2>1, <2>2, <2>3 DEF Begun
<1> QED
  BY <1>2, <1>4, <1>5

(* A step of one loop is fresh in no new item, nor in the one it is at. *)
LEMMA StepSets ==
  ASSUME TypeOK, QueueAssumption, OneSnapshotPerItem,
         NEW d \in Drain, NEW a \in Agent, NEW s \in Current(d, a),
         Stays(d, a) \/ Moves(d, a, s) \/ AbandonGroup(d, a)
  PROVE  /\ \A i \in Item : /\ Holders(i)' \subseteq Holders(i)
                            /\ Fresh(i)' \subseteq Fresh(i)
                            /\ i # s.item => Executing(i)' \subseteq Executing(i)
         /\ d \notin Fresh(s.item)'
         /\ Executing(s.item)' \subseteq Executing(s.item) \cup {d}
         /\ pc'[d][a] # "execute" => d \notin Executing(s.item)'
<1>1. /\ \A e \in Drain : batch'[e] \subseteq batch[e]
      /\ \A t \in batch'[d] : t # s =>
           /\ t.item # s.item
           /\ Begun(d, t)' <=> Begun(d, t)
           /\ Begun(d, t) => pc'[d][AgentOf[t.item]] = pc[d][AgentOf[t.item]]
      /\ s \in batch'[d] => Stays(d, a) /\ Begun(d, s)'
  BY StepFrame
<1>2. \A e \in Drain : e # d => batch'[e] = batch[e] /\ pc'[e] = pc[e]
  BY DEF Stays, Moves, NextItem, AbandonGroup, Goto, TypeOK
<1>3. AgentOf[s.item] = a /\ s.item \in Item
  BY CurrentFacts
<1>4. ASSUME NEW e \in Drain, NEW t \in batch'[e], e = d => t # s
      PROVE  /\ t \in batch[e]
             /\ Begun(e, t)' <=> Begun(e, t)
             /\ Begun(e, t) => pc'[e][AgentOf[t.item]] = pc[e][AgentOf[t.item]]
  <2>1. t \in batch[e]
    BY <1>1
  <2>2. CASE e = d
    BY <1>1, <1>4, <2>1, <2>2
  <2>3. CASE e # d
    BY <1>2, <2>1, <2>3 DEF Begun, Current, Group
  <2> QED
    BY <2>2, <2>3
<1>5. ASSUME NEW i \in Item PROVE Holders(i)' \subseteq Holders(i)
  BY <1>1 DEF Holders
<1>6. ASSUME NEW i \in Item PROVE Fresh(i)' \subseteq Fresh(i)
  <2>1. ASSUME NEW e \in Drain, NEW t \in batch'[e], t.item = i, ~Begun(e, t)'
        PROVE  e \in Fresh(i)
    <3>1. e = d => t # s
      BY <1>1, <2>1
    <3>2. t \in batch[e] /\ ~Begun(e, t)
      BY <1>4, <2>1, <3>1
    <3> QED
      BY <2>1, <3>2 DEF Fresh
  <2> QED
    BY <2>1 DEF Fresh
<1>7. ASSUME NEW i \in Item, NEW e \in Executing(i)', e # d \/ i # s.item
      PROVE  e \in Executing(i)
  <2>1. PICK t \in batch'[e] : t.item = i /\ Begun(e, t)' /\ pc'[e][AgentOf[i]] = "execute"
    BY <1>7 DEF Executing
  <2>2. e \in Drain /\ (e = d => t # s)
    BY <1>7, <2>1 DEF Executing
  <2>3. t \in batch[e] /\ Begun(e, t) /\ pc[e][AgentOf[i]] = "execute"
    BY <1>4, <2>1, <2>2
  <2> QED
    BY <2>1, <2>2, <2>3 DEF Executing
<1>8. d \notin Fresh(s.item)'
  <2>1. ASSUME NEW t \in batch'[d], t.item = s.item PROVE Begun(d, t)'
    <3>1. t = s
      BY <1>1, <2>1
    <3> QED
      BY <1>1, <2>1, <3>1
  <2> QED
    BY <2>1 DEF Fresh
<1>9. pc'[d][a] # "execute" => d \notin Executing(s.item)'
  BY <1>3 DEF Executing
<1> QED
  BY <1>3, <1>5, <1>6, <1>7, <1>8, <1>9

(* An item that no step of a loop writes, and whose cycles only get fewer. *)
LEMMA ItemKept ==
  ASSUME TypeOK, QueueAssumption, NEW i \in Item, ItemSafe(i),
         attempts'[i] = attempts[i], ran'[i] = ran[i], status'[i] = status[i],
         retries'[i] = retries[i], doubled'[i] = doubled[i],
         Holders(i)' \subseteq Holders(i), Fresh(i)' \subseteq Fresh(i),
         Executing(i)' \subseteq Executing(i)
  PROVE  ItemSafe(i)' /\ Claimed(i)' <= Claimed(i)
<1>1. /\ Cardinality(Holders(i)') <= Cardinality(Holders(i))
      /\ Cardinality(Fresh(i)') <= Cardinality(Fresh(i))
      /\ Cardinality(Executing(i)') <= Cardinality(Executing(i))
  BY CycleSets, DrainSubset
<1>2. /\ Holders(i)' \in SUBSET Drain /\ Fresh(i)' \in SUBSET Drain
      /\ Executing(i)' \in SUBSET Drain
  BY CycleSets
<1>3. /\ Cardinality(Holders(i)') \in Nat /\ Cardinality(Fresh(i)') \in Nat
      /\ Cardinality(Executing(i)') \in Nat
  BY <1>2, DrainSets
<1>4. PICK h \in Nat, f \in Nat, x \in Nat :
        h = Cardinality(Holders(i)) /\ f = Cardinality(Fresh(i)) /\ x = Cardinality(Executing(i))
  BY CycleSets
<1>5. PICK m \in Nat, n \in Nat, r \in Nat, k \in Nat :
        m = attempts[i] /\ n = ran[i] /\ r = retries[i] /\ k = doubled[i]
  BY DEF TypeOK
<1>6. PICK hh \in Nat, ff \in Nat, xx \in Nat :
        hh = Cardinality(Holders(i)') /\ ff = Cardinality(Fresh(i)')
        /\ xx = Cardinality(Executing(i)')
  BY <1>3
<1> QED
  BY <1>1, <1>4, <1>5, <1>6 DEF ItemSafe, Claimed, Granted, RetryLimit

LEMMA StepBudget ==
  ASSUME TypeOK, TypeOK', QueueAssumption, BudgetInv,
         NEW d \in Drain, NEW a \in Agent, Step(d, a)
  PROVE  BudgetInv'
<1>1. PICK s \in Current(d, a) :
        \/ CancelDisabled(d, a, s) \/ Reschedule(d, a, s)
        \/ Start(d, a, s) \/ StartFails(d, a, s) \/ Execute(d, a, s)
        \/ Complete(d, a, s) \/ CompleteFails(d, a, s)
        \/ Catch(d, a, s) \/ CatchFails(d, a, s)
  BY DEF Step
<1> DEFINE i == s.item
<1>2. /\ s \in batch[d] /\ s \in Group(d, a) /\ i \in Item /\ AgentOf[i] = a
      /\ s.attempts \in Nat
  BY CurrentFacts
<1>3. OneSnapshotPerItem /\ (\A j \in Item : ItemSafe(j))
      /\ \A e \in Drain : \A t \in batch[e] : HeldSafe(t)
  BY BudgetInvParts
<1>4. UNCHANGED <<retries, doubled>>
  BY <1>1 DEF CancelDisabled, Reschedule, Start, StartFails, Execute, Complete,
              CompleteFails, Catch, CatchFails, ledger
<1>5. Stays(d, a) \/ Moves(d, a, s) \/ AbandonGroup(d, a)
  BY <1>1 DEF CancelDisabled, Reschedule, Start, StartFails, Execute, Complete,
              CompleteFails, Catch, CatchFails, Stays, Moves, AfterPause
<1>6. \A j \in Item : j # i => /\ attempts'[j] = attempts[j]
                               /\ ran'[j] = ran[j]
                               /\ status'[j] = status[j]
  BY <1>1, <1>2 DEF CancelDisabled, Reschedule, Start, StartFails, Execute, Complete,
              CompleteFails, Catch, CatchFails, ledger, rows, TypeOK
<1>7. /\ \A j \in Item : /\ Holders(j)' \subseteq Holders(j)
                         /\ Fresh(j)' \subseteq Fresh(j)
                         /\ j # i => Executing(j)' \subseteq Executing(j)
      /\ d \notin Fresh(i)'
      /\ Executing(i)' \subseteq Executing(i) \cup {d}
      /\ pc'[d][a] # "execute" => d \notin Executing(i)'
      /\ \A e \in Drain : batch'[e] \subseteq batch[e]
  BY <1>3, <1>5, StepSets, StepFrame
<1>8. SUFFICES ItemSafe(i)' /\ Claimed(i)' <= Claimed(i)
  <2>1. ASSUME ItemSafe(i)' /\ Claimed(i)' <= Claimed(i)
        PROVE  BudgetInv'
    <3>1. \A j \in Item : ItemSafe(j)' /\ Claimed(j)' <= Claimed(j)
      BY <1>3, <1>4, <1>6, <1>7, <2>1, ItemKept
    <3>2. ASSUME NEW e \in Drain, NEW t \in batch'[e] PROVE HeldSafe(t)'
      <4>1. t \in batch[e] /\ t.item \in Item /\ t.attempts \in Nat
        BY <1>7, HeldFacts
      <4>2. HeldSafe(t) /\ Claimed(t.item)' <= Claimed(t.item)
        BY <1>3, <3>1, <4>1
      <4>3. /\ Claimed(t.item) \in Nat /\ Claimed(t.item)' \in Nat
            /\ doubled[t.item] \in Nat /\ doubled'[t.item] = doubled[t.item]
        <5>1. /\ Cardinality(Fresh(t.item)) \in Nat /\ attempts[t.item] \in Nat
              /\ doubled[t.item] \in Nat
          BY <4>1, CycleSets DEF TypeOK
        <5>2. Cardinality(Fresh(t.item)') \in Nat /\ attempts'[t.item] \in Nat
          BY <1>7, <4>1, CycleSets, DrainSets DEF TypeOK
        <5> QED
          BY <1>4, <5>1, <5>2 DEF Claimed
      <4> HIDE DEF i
      <4>4. PICK x \in Nat, y \in Nat, k \in Nat :
              x = Claimed(t.item) /\ y = Claimed(t.item)' /\ k = doubled[t.item]
        BY <4>3
      <4>5. x <= t.attempts + 1 + k /\ y <= x
        BY <4>2, <4>4 DEF HeldSafe
      <4>6. y <= t.attempts + 1 + k
        BY <4>1, <4>5
      <4> QED
        BY <4>3, <4>4, <4>6 DEF HeldSafe
    <3>3. OneSnapshotPerItem'
      BY <1>3, <1>7 DEF OneSnapshotPerItem
    <3> QED
      BY <3>1, <3>2, <3>3 DEF BudgetInv, ItemSafe, HeldSafe
  <2> QED
    BY <2>1
<1>9. PICK h \in Nat, f \in Nat, x \in Nat :
        h = Cardinality(Holders(i)) /\ f = Cardinality(Fresh(i)) /\ x = Cardinality(Executing(i))
  BY <1>2, CycleSets
<1>10. /\ Holders(i)' \in SUBSET Drain /\ Fresh(i)' \in SUBSET Drain
       /\ Executing(i)' \in SUBSET Drain
  <2>1. /\ Holders(i) \in SUBSET Drain /\ Fresh(i) \in SUBSET Drain
        /\ Executing(i) \in SUBSET Drain
    BY <1>2, CycleSets
  <2>2. Holders(i)' \subseteq Holders(i) /\ Fresh(i)' \subseteq Fresh(i)
    BY <1>2, <1>7
  <2>3. Executing(i)' \subseteq Executing(i) \cup {d}
    BY <1>7
  <2> HIDE DEF i
  <2> QED
    BY <2>1, <2>2, <2>3
<1>11. PICK hh \in Nat, ff \in Nat, xx \in Nat :
         hh = Cardinality(Holders(i)') /\ ff = Cardinality(Fresh(i)')
         /\ xx = Cardinality(Executing(i)')
  BY <1>10, DrainSets
<1>12. hh <= h /\ ff <= f
  <2>1. /\ Holders(i) \in SUBSET Drain /\ Fresh(i) \in SUBSET Drain
    BY <1>2, CycleSets
  <2> QED
    BY <1>2, <1>7, <1>9, <1>11, <2>1, DrainSubset
<1>13. d \in Fresh(i) => ff + 1 <= f
  <2>1. Fresh(i) \in SUBSET Drain
    BY <1>2, CycleSets
  <2> QED
    BY <1>2, <1>7, <1>9, <1>11, <2>1, DrainDrop
<1>14. xx <= x + 1 /\ (pc'[d][a] # "execute" => xx <= x)
       /\ (pc'[d][a] # "execute" /\ d \in Executing(i) => xx + 1 <= x)
  <2>1. Executing(i) \in SUBSET Drain
    BY <1>2, CycleSets
  <2>2. xx <= x + 1
    BY <1>7, <1>9, <1>10, <1>11, <2>1, DrainAdd
  <2>3. pc'[d][a] # "execute" => Executing(i)' \in SUBSET Executing(i)
    BY <1>7
  <2> QED
    BY <1>7, <1>9, <1>11, <2>1, <2>2, <2>3, DrainSubset, DrainDrop
<1>15. PICK m \in Nat, n \in Nat, r \in Nat, k \in Nat :
         m = attempts[i] /\ n = ran[i] /\ r = retries[i] /\ k = doubled[i]
  BY <1>2 DEF TypeOK
<1>16. /\ h <= k + 1 /\ m + f <= RetryLimit + 1 + (r + k)
       /\ status[i] = "none" => m = 0
       /\ status[i] = "pending" => m <= RetryLimit + (r + k)
       /\ n + x <= m
       /\ m + f <= s.attempts + 1 + k
  <2>1. ItemSafe(i) /\ HeldSafe(s)
    BY <1>2, <1>3
  <2> QED
    BY <1>9, <1>15, <2>1 DEF ItemSafe, HeldSafe, Claimed, Granted
<1>17. Begun(d, s) <=> ~AtTop(d, a)
  BY <1>2 DEF Begun, AtTop, TypeOK
<1>18. /\ ~Begun(d, s) => d \in Fresh(i)
       /\ Begun(d, s) /\ pc[d][a] = "execute" => d \in Executing(i)
  BY <1>2 DEF Fresh, Executing
<1>19. SUFFICES ASSUME NEW mm \in Nat, NEW nn \in Nat,
                       mm = attempts'[i], nn = ran'[i]
                PROVE  /\ hh <= k + 1 /\ mm + ff <= m + f
                       /\ status'[i] = "none" => mm = 0
                       /\ status'[i] = "pending" => mm <= RetryLimit + (r + k)
                       /\ nn + xx <= mm
  <2>1. PICK mm \in Nat, nn \in Nat : mm = attempts'[i] /\ nn = ran'[i]
    BY <1>2 DEF TypeOK
  <2>2. retries'[i] = r /\ doubled'[i] = k
    BY <1>4, <1>15
  <2>3. /\ hh <= k + 1 /\ mm + ff <= m + f
        /\ status'[i] = "none" => mm = 0
        /\ status'[i] = "pending" => mm <= RetryLimit + (r + k)
        /\ nn + xx <= mm
    BY <1>19, <2>1
  <2>4. mm + ff <= RetryLimit + 1 + (r + k)
    BY <1>16, <2>3 DEF RetryLimit
  <2>5. Claimed(i)' = mm + ff /\ Claimed(i) = m + f
    BY <1>9, <1>11, <1>15, <2>1 DEF Claimed
  <2>6. Granted(i)' = r + k
    BY <2>2 DEF Granted
  <2> QED
    BY <1>11, <2>1, <2>2, <2>3, <2>4, <2>5, <2>6 DEF ItemSafe
<1>20. hh <= k + 1
  BY <1>12, <1>16
<1>21. CASE CancelDisabled(d, a, s) \/ Reschedule(d, a, s)
  <2>1. /\ mm = m /\ nn = n
        /\ status'[i] = status[i] \/ status'[i] = "cancelled"
        /\ pc'[d][a] # "execute"
    BY <1>2, <1>15, <1>19, <1>21 DEF CancelDisabled, Reschedule, NextItem, AbandonGroup,
                                     Goto, ledger, TypeOK
  <2> QED
    BY <1>12, <1>14, <1>16, <1>20, <2>1
<1>22. CASE Start(d, a, s)
  <2>1. ~Begun(d, s)
    BY <1>17, <1>22 DEF Start
  <2>2. ff + 1 <= f
    BY <1>13, <1>18, <2>1
  <2>3. \/ mm = m + 1 /\ status'[i] = "processing"
        \/ mm = m /\ status' = status /\ pc'[d][a] = "catch"
    BY <1>2, <1>15, <1>19, <1>22 DEF Start, Incremented, Goto, TypeOK
  <2>4. nn = n
    BY <1>15, <1>19, <1>22 DEF Start, ledger
  <2> QED
    BY <1>14, <1>16, <1>20, <2>2, <2>3, <2>4
<1>23. CASE StartFails(d, a, s)
  <2>1. /\ mm = m /\ nn = n /\ status' = status /\ pc'[d][a] = "catch"
    BY <1>2, <1>15, <1>19, <1>23 DEF StartFails, rows, ledger, Goto, TypeOK
  <2> QED
    BY <1>12, <1>14, <1>16, <1>20, <2>1
<1>24. CASE Execute(d, a, s)
  <2>1. Begun(d, s) /\ pc[d][a] = "execute"
    BY <1>17, <1>24 DEF Execute, AtTop
  <2>2. /\ mm = m /\ status' = status
        /\ pc'[d][a] # "execute"
        /\ nn = n \/ nn = n + 1
    BY <1>2, <1>15, <1>19, <1>24 DEF Execute, rows, Goto, TypeOK
  <2>3. xx + 1 <= x
    BY <1>14, <1>18, <2>1, <2>2
  <2> QED
    BY <1>12, <1>16, <1>20, <2>2, <2>3
<1>25. CASE Complete(d, a, s) \/ CompleteFails(d, a, s)
  <2>1. /\ mm = m /\ nn = n
        /\ status'[i] = status[i] \/ status'[i] = "completed"
    BY <1>2, <1>15, <1>19, <1>25 DEF Complete, CompleteFails, rows, ledger, TypeOK
  <2>2. pc'[d][a] # "execute"
    BY <1>2, <1>25 DEF Complete, CompleteFails, NextItem, AfterPause, Goto, TypeOK
  <2> QED
    BY <1>12, <1>14, <1>16, <1>20, <2>1, <2>2
<1>26. CASE Catch(d, a, s) \/ CatchFails(d, a, s)
  <2>1. /\ mm = m /\ nn = n
        /\ \/ status'[i] = status[i]
           \/ status'[i] = "failed"
           \/ status'[i] = "pending" /\ ~(s.attempts >= RetryLimit)
    BY <1>2, <1>15, <1>19, <1>26 DEF Catch, CatchFails, Outcome, Exhausted, rows, ledger, TypeOK
  <2>2. pc'[d][a] # "execute"
    BY <1>2, <1>26 DEF Catch, CatchFails, NextItem, AbandonGroup, AfterPause, Goto, TypeOK
  <2> QED
    BY <1>2, <1>12, <1>14, <1>16, <1>20, <2>1, <2>2 DEF RetryLimit
<1> QED
  BY <1>1, <1>21, <1>22, <1>23, <1>24, <1>25, <1>26

(* Requests, rules and the clock touch attempts never, and retries upwards. *)
LEMMA OutsideBudget ==
  ASSUME TypeOK, TypeOK', QueueAssumption, BudgetInv, Outside
  PROVE  BudgetInv'
<1>1. /\ OneSnapshotPerItem /\ \A i \in Item : ItemSafe(i)
      /\ \A d \in Drain : \A s \in batch[d] : HeldSafe(s)
  BY BudgetInvParts
<1>2. UNCHANGED <<batch, pc>>
  BY OutsideFrame
<1>3. UNCHANGED <<attempts, ran, doubled>>
  BY DEF Outside, Enqueue, CancelCheck, RetryCheck, EditCheck, Check, CancelWrite,
         RetryWrite, EditWrite, CancelAll, ToggleRule, DeleteRule, HoursChange, rows, ledger
<1>4. \A i \in Item : /\ attempts[i] \in Nat /\ ran[i] \in Nat /\ retries[i] \in Nat
                      /\ doubled[i] \in Nat
  BY DEF TypeOK
<1>5. ASSUME NEW i \in Item
      PROVE  /\ Holders(i)' = Holders(i) /\ Fresh(i)' = Fresh(i)
             /\ Executing(i)' = Executing(i)
  BY <1>2 DEF Holders, Fresh, Executing, Begun, Current, Group
<1> DEFINE Harmless ==
      \A i \in Item :
        /\ retries'[i] \in Nat /\ retries'[i] >= retries[i]
        /\ \/ status'[i] = status[i]
           \/ status'[i] = "pending" /\ attempts[i] = 0
           \/ status'[i] = "pending" /\ retries'[i] = retries[i] + 1
           \/ status'[i] \in {"cancelled", "gone"}
<1>6. ASSUME Harmless PROVE BudgetInv'
  <2>1. ASSUME NEW i \in Item PROVE ItemSafe(i)' /\ Claimed(i)' = Claimed(i)
    <3>1. PICK m \in Nat, n \in Nat, r \in Nat, k \in Nat, rr \in Nat :
            /\ m = attempts[i] /\ n = ran[i] /\ r = retries[i] /\ k = doubled[i]
            /\ rr = retries'[i] /\ rr >= r
      BY <1>4, <1>6
    <3>2. PICK h \in Nat, f \in Nat, x \in Nat :
            h = Cardinality(Holders(i)) /\ f = Cardinality(Fresh(i))
            /\ x = Cardinality(Executing(i))
      BY CycleSets
    <3>3. /\ attempts'[i] = m /\ ran'[i] = n /\ doubled'[i] = k
          /\ Cardinality(Holders(i)') = h /\ Cardinality(Fresh(i)') = f
          /\ Cardinality(Executing(i)') = x
      BY <1>3, <1>5, <3>1, <3>2
    <3>4. ItemSafe(i)
      BY <1>1
    <3>5. \/ status'[i] = status[i]
          \/ status'[i] = "pending" /\ m = 0
          \/ status'[i] = "pending" /\ rr = r + 1
          \/ status'[i] \in {"cancelled", "gone"}
      BY <1>6, <3>1
    <3>6. /\ h <= k + 1 /\ m + f <= RetryLimit + 1 + (r + k)
          /\ status[i] = "none" => m = 0
          /\ status[i] = "pending" => m <= RetryLimit + (r + k)
          /\ n + x <= m
      BY <3>1, <3>2, <3>4 DEF ItemSafe, Claimed, Granted
    <3>7. /\ m + f <= RetryLimit + 1 + (rr + k)
          /\ status'[i] = "none" => m = 0
          /\ status'[i] = "pending" => m <= RetryLimit + (rr + k)
      BY <3>1, <3>5, <3>6 DEF RetryLimit
    <3> QED
      BY <3>1, <3>2, <3>3, <3>6, <3>7 DEF ItemSafe, Claimed, Granted
  <2>2. ASSUME NEW d \in Drain, NEW s \in batch'[d] PROVE HeldSafe(s)'
    <3>1. s \in batch[d] /\ s.item \in Item /\ HeldSafe(s)
      BY <1>1, <1>2, HeldFacts
    <3> QED
      BY <1>3, <2>1, <3>1 DEF HeldSafe
  <2>3. OneSnapshotPerItem'
    BY <1>1, <1>2 DEF OneSnapshotPerItem
  <2> QED
    BY <2>1, <2>2, <2>3 DEF BudgetInv, ItemSafe, HeldSafe
<1>7. ASSUME NEW i \in Item, Enqueue(i) PROVE Harmless
  <2>1. attempts[i] = 0
    BY <1>1, <1>7 DEF Enqueue, ItemSafe
  <2> QED
    BY <1>4, <1>7, <2>1 DEF Enqueue, ledger, TypeOK
<1>8. ASSUME NEW c \in Call, RetryWrite(c) PROVE Harmless
  BY <1>4, <1>8 DEF RetryWrite, TypeOK
<1>9. ASSUME \/ \E c \in Call : \/ \E i \in Item : CancelCheck(c, i) \/ RetryCheck(c, i) \/ EditCheck(c, i)
                               \/ EditWrite(c)
             \/ \E r \in Rule : ToggleRule(r) \/ HoursChange(r)
      PROVE  Harmless
  BY <1>4, <1>9 DEF CancelCheck, RetryCheck, EditCheck, Check, EditWrite, ToggleRule,
                    HoursChange, rows, ledger
<1>10. ASSUME \/ \E c \in Call : CancelWrite(c)
              \/ CancelAll
              \/ \E r \in Rule : DeleteRule(r)
       PROVE  Harmless
  BY <1>4, <1>10 DEF CancelWrite, CancelAll, DeleteRule, ledger, TypeOK
<1>11. Harmless
  BY <1>7, <1>8, <1>9, <1>10 DEF Outside
<1> QED
  BY <1>6, <1>11

(* A cron tick: what it fetches has room for one more attempt, or was had   *)
(* by another cycle and is granted one.                                     *)
LEMMA DrainBudget ==
  ASSUME TypeOK, TypeOK', QueueAssumption, BudgetInv, NEW d \in Drain, DrainQueue(d)
  PROVE  BudgetInv'
<1>1. /\ OneSnapshotPerItem /\ \A i \in Item : ItemSafe(i)
      /\ \A e \in Drain : \A s \in batch[e] : HeldSafe(s)
  BY BudgetInvParts
<1>2. /\ UNCHANGED <<status, attempts, ran, retries, pc>>
      /\ batch[d] = {}
      /\ batch'[d] = Grouped
      /\ \A e \in Drain : e # d => batch'[e] = batch[e]
      /\ doubled' = [i \in Item |-> IF i \in Twice THEN doubled[i] + 1 ELSE doubled[i]]
  BY DEF DrainQueue, ledger, TypeOK
<1>3. \A b \in Agent : pc[d][b] = "check"
  BY <1>2 DEF Group, TypeOK
<1>4. /\ \A s \in Grouped : /\ s.item \in Item
                             /\ status[s.item] = "pending"
                             /\ s.attempts = attempts[s.item]
      /\ \A s, t \in Grouped : s.item = t.item => s = t
  BY GroupedFacts
<1> DEFINE Got(i) == \E s \in Grouped : s.item = i
<1>5. OneSnapshotPerItem'
  BY <1>1, <1>2, <1>4 DEF OneSnapshotPerItem
<1>6. ASSUME NEW e \in Drain, e # d, NEW t \in batch[e]
      PROVE  (Begun(e, t)' <=> Begun(e, t)) /\ pc'[e] = pc[e]
  BY <1>2, <1>6 DEF Begun, Current, Group
<1>7. ASSUME NEW i \in Item
      PROVE  /\ Holders(i)' \subseteq Holders(i) \cup {d}
             /\ Fresh(i)' \subseteq Fresh(i) \cup {d}
             /\ Executing(i)' \subseteq Executing(i)
             /\ ~Got(i) => Holders(i)' \subseteq Holders(i) /\ Fresh(i)' \subseteq Fresh(i)
             /\ d \notin Holders(i)
  <2>1. /\ Holders(i)' \subseteq Holders(i) \cup {d}
        /\ ~Got(i) => d \notin Holders(i)'
        /\ d \notin Holders(i)
    BY <1>2 DEF Holders
  <2>2. Fresh(i)' \subseteq Fresh(i) \cup {d} /\ (~Got(i) => d \notin Fresh(i)')
    <3>1. ASSUME NEW e \in Fresh(i)', e # d PROVE e \in Fresh(i)
      <4>1. PICK t \in batch'[e] : t.item = i /\ ~Begun(e, t)'
        BY DEF Fresh
      <4>2. e \in Drain /\ t \in batch[e]
        BY <1>2, <3>1 DEF Fresh
      <4> QED
        BY <1>6, <3>1, <4>1, <4>2 DEF Fresh
    <3>2. ~Got(i) => d \notin Fresh(i)'
      BY <1>2 DEF Fresh
    <3> QED
      BY <3>1, <3>2
  <2>3. Executing(i)' \subseteq Executing(i)
    <3>1. ASSUME NEW e \in Executing(i)' PROVE e \in Executing(i)
      <4>1. PICK t \in batch'[e] : t.item = i /\ Begun(e, t)' /\ pc'[e][AgentOf[i]] = "execute"
        BY DEF Executing
      <4>2. e \in Drain /\ AgentOf[i] \in Agent
        BY <3>1 DEF Executing, QueueAssumption
      <4>3. e # d
        BY <1>2, <1>3, <4>1, <4>2
      <4>4. t \in batch[e] /\ Begun(e, t) /\ pc[e][AgentOf[i]] = "execute"
        BY <1>2, <1>6, <4>1, <4>2, <4>3
      <4> QED
        BY <4>1, <4>2, <4>4 DEF Executing
    <3> QED
      BY <3>1
  <2> QED
    BY <2>1, <2>2, <2>3
<1>8. ASSUME NEW i \in Item
      PROVE  /\ ItemSafe(i)'
             /\ Got(i) => Cardinality(Fresh(i)') <= doubled'[i] + 1
             /\ Held(i) => Claimed(i)' + doubled[i] <= Claimed(i) + doubled'[i]
             /\ Claimed(i)' = attempts[i] + Cardinality(Fresh(i)')
             /\ Cardinality(Fresh(i)') \in Nat
  <2>1. PICK m \in Nat, n \in Nat, r \in Nat, k \in Nat :
          m = attempts[i] /\ n = ran[i] /\ r = retries[i] /\ k = doubled[i]
    BY DEF TypeOK
  <2>2. /\ Holders(i) \in SUBSET Drain /\ Fresh(i) \in SUBSET Drain
        /\ Executing(i) \in SUBSET Drain /\ Fresh(i) \in SUBSET Holders(i)
    BY CycleSets
  <2>3. PICK h \in Nat, f \in Nat, x \in Nat :
          h = Cardinality(Holders(i)) /\ f = Cardinality(Fresh(i))
          /\ x = Cardinality(Executing(i))
    BY CycleSets
  <2>4. /\ Holders(i)' \in SUBSET Drain /\ Fresh(i)' \in SUBSET Drain
        /\ Executing(i)' \in SUBSET Drain
    BY <1>7, <2>2
  <2>5. PICK hh \in Nat, ff \in Nat, xx \in Nat :
          hh = Cardinality(Holders(i)') /\ ff = Cardinality(Fresh(i)')
          /\ xx = Cardinality(Executing(i)')
    BY <2>4, DrainSets
  <2>6. hh <= h + 1 /\ ff <= f + 1 /\ (~Got(i) => hh <= h /\ ff <= f)
    <3>1. hh <= h + 1 /\ ff <= f + 1
      BY <1>7, <2>2, <2>3, <2>4, <2>5, DrainAdd
    <3>2. ASSUME ~Got(i) PROVE hh <= h /\ ff <= f
      <4>1. Holders(i)' \in SUBSET Holders(i) /\ Fresh(i)' \in SUBSET Fresh(i)
        BY <1>7, <3>2
      <4> QED
        BY <2>2, <2>3, <2>5, <4>1, DrainSubset
    <3> QED
      BY <3>1, <3>2
  <2>7. xx <= x
    BY <1>7, <2>2, <2>3, <2>5, DrainSubset
  <2>8. f <= h /\ (~Held(i) => h = 0)
    BY <2>2, <2>3, DrainSubset, FS_EmptySet DEF Held, Holders
  <2>9. /\ h <= k + 1 /\ m + f <= RetryLimit + 1 + (r + k)
        /\ status[i] = "none" => m = 0
        /\ status[i] = "pending" => m <= RetryLimit + (r + k)
        /\ n + x <= m
    BY <1>1, <2>1, <2>3 DEF ItemSafe, Claimed, Granted
  <2>10. PICK kk \in Nat : /\ kk = doubled'[i]
                           /\ kk = IF Held(i) /\ Got(i) THEN k + 1 ELSE k
    BY <1>2, <2>1 DEF Twice
  <2>11. Got(i) => status[i] = "pending"
    BY <1>4
  <2>12. /\ status'[i] = status[i] /\ attempts'[i] = m /\ ran'[i] = n
         /\ retries'[i] = r
    BY <1>2, <2>1
  <2> HIDE DEF Got
  <2>13. /\ hh <= kk + 1 /\ m + ff <= RetryLimit + 1 + (r + kk)
         /\ status'[i] = "none" => m = 0
         /\ status'[i] = "pending" => m <= RetryLimit + (r + kk)
         /\ n + xx <= m
         /\ Held(i) => m + ff + k <= m + f + kk
    <3>1. CASE Got(i) /\ Held(i)
      BY <2>6, <2>7, <2>9, <2>10, <2>12, <3>1 DEF RetryLimit
    <3>2. CASE Got(i) /\ ~Held(i)
      BY <2>6, <2>7, <2>8, <2>9, <2>10, <2>11, <2>12, <3>2 DEF RetryLimit
    <3>3. CASE ~Got(i)
      BY <2>6, <2>7, <2>9, <2>10, <2>12, <3>3 DEF RetryLimit
    <3> QED
      BY <3>1, <3>2, <3>3
  <2>14. ff <= hh
    <3>1. Fresh(i)' \in SUBSET (Holders(i)')
      BY DEF Fresh, Holders
    <3> QED
      BY <2>4, <2>5, <3>1, DrainSubset
  <2>15. Claimed(i)' = m + ff /\ Claimed(i) = m + f /\ Granted(i)' = r + kk
    BY <2>1, <2>3, <2>5, <2>10, <2>12 DEF Claimed, Granted
  <2>16. ItemSafe(i)'
    BY <2>5, <2>10, <2>12, <2>13, <2>15 DEF ItemSafe
  <2>17. Held(i) => Claimed(i)' + doubled[i] <= Claimed(i) + doubled'[i]
    BY <2>1, <2>10, <2>13, <2>15
  <2>18. Cardinality(Fresh(i)') <= doubled'[i] + 1
    BY <2>5, <2>10, <2>13, <2>14
  <2> QED
    BY <2>1, <2>5, <2>15, <2>16, <2>17, <2>18
<1>9. ASSUME NEW e \in Drain, NEW t \in batch'[e] PROVE HeldSafe(t)'
  <2>1. CASE e = d
    <3>1. t \in Grouped
      BY <1>2, <2>1
    <3>2. t.item \in Item /\ t.attempts = attempts[t.item] /\ Got(t.item)
      BY <1>4, <3>1
    <3>3. PICK m \in Nat, kk \in Nat : m = attempts[t.item] /\ kk = doubled'[t.item]
      BY <3>2 DEF TypeOK
    <3>4. PICK ff \in Nat : ff = Cardinality(Fresh(t.item)') /\ ff <= kk + 1
      BY <1>8, <3>2, <3>3
    <3>5. Claimed(t.item)' = m + ff
      BY <1>8, <3>2, <3>3, <3>4
    <3> QED
      BY <3>2, <3>3, <3>4, <3>5 DEF HeldSafe
  <2>2. CASE e # d
    <3>1. t \in batch[e] /\ t.item \in Item /\ t.attempts \in Nat /\ HeldSafe(t)
      BY <1>1, <1>2, <2>2, HeldFacts
    <3>2. Held(t.item)
      BY <3>1 DEF Held, Holders
    <3>3. Claimed(t.item)' + doubled[t.item] <= Claimed(t.item) + doubled'[t.item]
      BY <1>8, <3>1, <3>2
    <3>4. PICK c \in Nat, cc \in Nat, k \in Nat, kk \in Nat :
            /\ c = Claimed(t.item) /\ cc = Claimed(t.item)'
            /\ k = doubled[t.item] /\ kk = doubled'[t.item]
      <4>1. Cardinality(Fresh(t.item)) \in Nat /\ Cardinality(Fresh(t.item)') \in Nat
            /\ Claimed(t.item)' = attempts[t.item] + Cardinality(Fresh(t.item)')
        BY <1>8, <3>1, CycleSets
      <4>2. attempts[t.item] \in Nat /\ doubled[t.item] \in Nat /\ doubled'[t.item] \in Nat
        BY <3>1 DEF TypeOK
      <4> QED
        BY <4>1, <4>2 DEF Claimed
    <3>5. cc + k <= c + kk /\ c <= t.attempts + 1 + k
      BY <3>1, <3>3, <3>4 DEF HeldSafe
    <3>6. cc <= t.attempts + 1 + kk
      BY <3>1, <3>5
    <3> QED
      BY <3>4, <3>6 DEF HeldSafe
  <2> QED
    BY <2>1, <2>2
<1> QED
  BY <1>5, <1>8, <1>9 DEF BudgetInv, ItemSafe, HeldSafe

LEMMA NextBudget ==
  ASSUME TypeOK, QueueAssumption, BudgetInv, [Next]_vars
  PROVE  BudgetInv'
<1>1. TypeOK'
  BY NextTypeOK
<1>2. ASSUME NEW d \in Drain, DrainQueue(d) PROVE BudgetInv'
  BY <1>1, <1>2, DrainBudget
<1>3. ASSUME NEW d \in Drain, NEW a \in Agent, Step(d, a) PROVE BudgetInv'
  BY <1>1, <1>3, StepBudget
<1>4. ASSUME Crash PROVE BudgetInv'
  <2>1. /\ UNCHANGED <<status, attempts, ran, retries, doubled>>
        /\ \A d \in Drain : batch'[d] = {}
    BY <1>4 DEF Crash, rows, ledger
  <2>2. ASSUME NEW i \in Item PROVE ItemSafe(i)'
    <3>1. Holders(i)' = {} /\ Fresh(i)' = {} /\ Executing(i)' = {}
      BY <2>1 DEF Holders, Fresh, Executing
    <3>2. ItemSafe(i)
      BY BudgetInvParts
    <3>3. /\ Holders(i)' \subseteq Holders(i) /\ Fresh(i)' \subseteq Fresh(i)
          /\ Executing(i)' \subseteq Executing(i)
      BY <3>1
    <3> QED
      BY <2>1, <3>2, <3>3, ItemKept
  <2>3. OneSnapshotPerItem' /\ \A d \in Drain : \A s \in batch'[d] : HeldSafe(s)'
    BY <2>1 DEF OneSnapshotPerItem
  <2> QED
    BY <2>2, <2>3 DEF BudgetInv, ItemSafe, HeldSafe
<1>5. ASSUME Outside PROVE BudgetInv'
  BY <1>1, <1>5, OutsideBudget
<1>6. ASSUME UNCHANGED vars PROVE BudgetInv'
  BY <1>6 DEF vars, rows, ledger, BudgetInv, OneSnapshotPerItem, Holders, Claimed, Fresh,
              Granted, Executing, Begun, Current, Group
<1> QED
  BY <1>2, <1>3, <1>4, <1>5, <1>6 DEF Next, Outside

(* However cycles overlap, the reason why the budget holds is an           *)
(* invariant.                                                              *)
THEOREM BudgetInvariant == QueueAssumption => (Spec => []BudgetInv)
<1> SUFFICES ASSUME QueueAssumption PROVE Spec => []BudgetInv
  OBVIOUS
<1>1. Init => BudgetInv
  <2> SUFFICES ASSUME Init PROVE BudgetInv
    OBVIOUS
  <2>1. \A i \in Item : Holders(i) = {} /\ Fresh(i) = {} /\ Executing(i) = {}
    BY DEF Init, Holders, Fresh, Executing
  <2>2. Cardinality({}) = 0
    BY FS_EmptySet
  <2>3. ASSUME NEW i \in Item PROVE ItemSafe(i)
    <3>1. attempts[i] = 0 /\ ran[i] = 0 /\ retries[i] = 0 /\ doubled[i] = 0
          /\ status[i] = "none"
      BY DEF Init
    <3> QED
      BY <2>1, <2>2, <3>1 DEF ItemSafe, Claimed, Granted, RetryLimit
  <2>4. \A d \in Drain : batch[d] = {}
    BY DEF Init
  <2> QED
    BY <2>3, <2>4, BudgetInvParts DEF OneSnapshotPerItem
<1>2. TypeOK /\ BudgetInv /\ [Next]_vars => BudgetInv'
  BY NextBudget
<1> QED
  BY <1>1, <1>2, QueueTypeCorrect, PTL DEF Spec

(* An item is attempted at most three times, plus once for each accepted   *)
(* retry and each time it was fetched while a cycle had it, for any number *)
(* of items, agents, overlapping cycles, requests, faults and crashes.     *)
THEOREM AttemptsWithinBudget == QueueAssumption => (Spec => []WithinBudget)
<1> SUFFICES ASSUME QueueAssumption PROVE Spec => []WithinBudget
  OBVIOUS
<1>1. TypeOK /\ BudgetInv => WithinBudget
  <2> SUFFICES ASSUME TypeOK, BudgetInv, NEW i \in Item
               PROVE  attempts[i] <= RetryLimit + 1 + retries[i] + doubled[i]
    BY DEF WithinBudget
  <2>1. PICK m \in Nat, r \in Nat, k \in Nat, f \in Nat :
          /\ m = attempts[i] /\ r = retries[i] /\ k = doubled[i]
          /\ f = Cardinality(Fresh(i))
    BY CycleSets DEF TypeOK
  <2>2. m + f <= RetryLimit + 1 + (r + k)
    BY <2>1 DEF BudgetInv, Claimed, Granted
  <2> QED
    BY <2>1, <2>2 DEF RetryLimit
<1> QED
  BY <1>1, BudgetInvariant, QueueTypeCorrect, PTL

-----------------------------------------------------------------------------
(* Refinement: the queue implements the ledger of attempts *)

Unmoved == UNCHANGED <<attempts, retries, doubled, ran>>

LEMMA StepImplements ==
  ASSUME TypeOK, QueueAssumption, BudgetInv,
         NEW d \in Drain, NEW a \in Agent, Step(d, a)
  PROVE  Ledger!LedgerNext \/ Unmoved
<1>1. PICK s \in Current(d, a) :
        \/ CancelDisabled(d, a, s) \/ Reschedule(d, a, s)
        \/ Start(d, a, s) \/ StartFails(d, a, s) \/ Execute(d, a, s)
        \/ Complete(d, a, s) \/ CompleteFails(d, a, s)
        \/ Catch(d, a, s) \/ CatchFails(d, a, s)
  BY DEF Step
<1> DEFINE i == s.item
<1>2. s \in batch[d] /\ i \in Item /\ AgentOf[i] = a
  BY CurrentFacts
<1>3. PICK m \in Nat, n \in Nat, r \in Nat, k \in Nat :
        m = attempts[i] /\ n = ran[i] /\ r = retries[i] /\ k = doubled[i]
  BY <1>2 DEF TypeOK
<1>4. PICK f \in Nat, x \in Nat :
        f = Cardinality(Fresh(i)) /\ x = Cardinality(Executing(i))
  BY <1>2, CycleSets
<1>5. m + f <= RetryLimit + 1 + (r + k) /\ n + x <= m
  BY <1>2, <1>3, <1>4 DEF BudgetInv, Claimed, Granted
<1>6. \A S \in SUBSET Drain : IsFiniteSet(S) /\ (S # {} => Cardinality(S) # 0)
  BY DrainSets, FS_EmptySet
<1>7. Fresh(i) \in SUBSET Drain /\ Executing(i) \in SUBSET Drain
  BY <1>2, CycleSets
<1>8. CASE Start(d, a, s)
  <2>1. ~Begun(d, s)
    BY <1>2, <1>8 DEF Start, Begun, AtTop
  <2>2. d \in Fresh(i)
    BY <1>2, <2>1 DEF Fresh
  <2>3. f # 0
    BY <1>4, <1>6, <1>7, <2>2
  <2>4. attempts[i] < RetryLimit + 1 + (retries[i] + doubled[i])
    BY <1>3, <1>5, <2>3 DEF RetryLimit
  <2>5. /\ UNCHANGED <<retries, doubled, ran>>
        /\ \/ attempts' = [attempts EXCEPT ![i] = attempts[i] + 1]
           \/ attempts' = attempts
    BY <1>8 DEF Start, Incremented, ledger
  <2>6. CASE attempts' = attempts
    BY <2>5, <2>6 DEF Unmoved
  <2>7. CASE attempts' = [attempts EXCEPT ![i] = attempts[i] + 1]
    <3>1. Ledger!Spend(i)
      BY <1>2, <2>4, <2>5, <2>7 DEF Ledger!Spend
    <3> QED
      BY <1>2, <3>1 DEF Ledger!LedgerNext
  <2> QED
    BY <2>5, <2>6, <2>7
<1>9. CASE Execute(d, a, s)
  <2>1. d \in Executing(i)
    BY <1>2, <1>9 DEF Execute, Executing, Begun
  <2>2. x # 0
    BY <1>4, <1>6, <1>7, <2>1
  <2>3. ran[i] < attempts[i]
    BY <1>3, <1>5, <2>2
  <2>4. /\ UNCHANGED <<retries, doubled, attempts>>
        /\ \/ ran' = [ran EXCEPT ![i] = ran[i] + 1]
           \/ ran' = ran
    BY <1>9 DEF Execute, rows
  <2>5. CASE ran' = ran
    BY <2>4, <2>5 DEF Unmoved
  <2>6. CASE ran' = [ran EXCEPT ![i] = ran[i] + 1]
    <3>1. Ledger!Run(i)
      BY <2>3, <2>4, <2>6 DEF Ledger!Run
    <3> QED
      BY <1>2, <3>1 DEF Ledger!LedgerNext
  <2> QED
    BY <2>4, <2>5, <2>6
<1>10. CASE ~Start(d, a, s) /\ ~Execute(d, a, s)
  BY <1>1, <1>10 DEF CancelDisabled, Reschedule, StartFails, Complete, CompleteFails,
                     Catch, CatchFails, rows, ledger, Unmoved
<1> QED
  BY <1>8, <1>9, <1>10

(* One more for each item of a set. *)
LEMMA OneMore ==
  ASSUME TypeOK, NEW S \in SUBSET Item,
         \A i \in Item : retries'[i] + doubled'[i]
                         = (retries[i] + doubled[i]) + (IF i \in S THEN 1 ELSE 0),
         UNCHANGED <<attempts, ran>>
  PROVE  Ledger!LedgerNext
<1>1. [i \in Item |-> retries'[i] + doubled'[i]]
      = [i \in Item |-> [j \in Item |-> retries[j] + doubled[j]][i]
                        + (IF i \in S THEN 1 ELSE 0)]
  OBVIOUS
<1>2. Ledger!Grant(S)
  BY <1>1 DEF Ledger!Grant
<1> QED
  BY <1>2 DEF Ledger!LedgerNext

LEMMA OutsideImplements ==
  ASSUME TypeOK, Outside
  PROVE  Ledger!LedgerNext \/ Unmoved
<1>1. ASSUME NEW c \in Call, RetryWrite(c)
      PROVE  Ledger!LedgerNext \/ Unmoved
  <2>1. call[c].item \in Item
    BY <1>1 DEF RetryWrite, TypeOK, Request
  <2>2. CASE Exists(call[c].item)
    <3>1. /\ retries' = [retries EXCEPT ![call[c].item] = @ + 1]
          /\ UNCHANGED <<attempts, doubled, ran>>
      BY <1>1, <2>2 DEF RetryWrite
    <3>2. \A i \in Item : retries[i] \in Nat /\ doubled[i] \in Nat
      BY DEF TypeOK
    <3>3. ASSUME NEW i \in Item
          PROVE  retries'[i] + doubled'[i]
                 = (retries[i] + doubled[i]) + (IF i \in {call[c].item} THEN 1 ELSE 0)
      <4>1. PICK r \in Nat, k \in Nat : r = retries[i] /\ k = doubled[i]
        BY <3>2
      <4>2. doubled'[i] = k /\ retries'[i] = IF i = call[c].item THEN r + 1 ELSE r
        BY <3>1, <4>1 DEF TypeOK
      <4> QED
        BY <4>1, <4>2
    <3> QED
      BY <2>1, <3>1, <3>3, OneMore
  <2>3. CASE ~Exists(call[c].item)
    BY <1>1, <2>3 DEF RetryWrite, Unmoved
  <2> QED
    BY <2>2, <2>3
<1>2. ASSUME \A c \in Call : ~RetryWrite(c) PROVE Unmoved
  BY <1>2 DEF Outside, Enqueue, CancelCheck, RetryCheck, EditCheck, Check, CancelWrite,
              EditWrite, CancelAll, ToggleRule, DeleteRule, HoursChange, rows, ledger, Unmoved
<1> QED
  BY <1>1, <1>2

LEMMA DrainImplements ==
  ASSUME TypeOK, NEW d \in Drain, DrainQueue(d)
  PROVE  Ledger!LedgerNext
<1>1. /\ UNCHANGED <<attempts, retries, ran>>
      /\ doubled' = [i \in Item |-> IF i \in Twice THEN doubled[i] + 1 ELSE doubled[i]]
  BY DEF DrainQueue
<1>2. Twice \in SUBSET Item
  BY DEF Twice
<1>3. ASSUME NEW i \in Item
      PROVE  retries'[i] + doubled'[i]
             = (retries[i] + doubled[i]) + (IF i \in Twice THEN 1 ELSE 0)
  <2>1. PICK r \in Nat, k \in Nat : r = retries[i] /\ k = doubled[i]
    BY DEF TypeOK
  <2>2. retries'[i] = r /\ doubled'[i] = IF i \in Twice THEN k + 1 ELSE k
    BY <1>1, <2>1
  <2> QED
    BY <2>1, <2>2
<1> QED
  BY <1>1, <1>2, <1>3, OneMore

(* However cycles overlap, every behaviour of the queue is one of the      *)
(* ledger: an attempt is taken within what the item is entitled to and was *)
(* granted, and executes at most once.                                     *)
THEOREM QueueImplementsLedger == QueueAssumption => (Spec => ImplementsLedger)
<1> SUFFICES ASSUME QueueAssumption PROVE Spec => ImplementsLedger
  OBVIOUS
<1>1. Init => Ledger!LedgerInit
  BY DEF Init, Ledger!LedgerInit
<1>2. TypeOK /\ BudgetInv /\ [Next]_vars => [Ledger!LedgerNext]_(Ledger!ledgerVars)
  <2> SUFFICES ASSUME TypeOK, BudgetInv, [Next]_vars
               PROVE  Ledger!LedgerNext \/ Unmoved
    BY DEF Ledger!ledgerVars, Unmoved
  <2>1. ASSUME NEW d \in Drain, DrainQueue(d) PROVE Ledger!LedgerNext
    BY <2>1, DrainImplements
  <2>2. ASSUME NEW d \in Drain, NEW a \in Agent, Step(d, a)
        PROVE  Ledger!LedgerNext \/ Unmoved
    BY <2>2, StepImplements
  <2>3. ASSUME Crash PROVE Unmoved
    BY <2>3 DEF Crash, rows, ledger, Unmoved
  <2>4. ASSUME UNCHANGED vars PROVE Unmoved
    BY <2>4 DEF vars, rows, ledger, Unmoved
  <2> QED
    BY <2>1, <2>2, <2>3, <2>4, OutsideImplements DEF Next, Outside
<1> QED
  BY <1>1, <1>2, QueueTypeCorrect, BudgetInvariant, PTL
     DEF Spec, ImplementsLedger, Ledger!LedgerSpec

-----------------------------------------------------------------------------
(* What a row says is true, and stays said *)

(* An item's outcome is earned, and its rule outlives it. *)
OutcomeItem(i) ==
  /\ status[i] = "failed" =>
       attempts[i] >= IF "start" \in FaultPoints THEN RetryLimit ELSE RetryLimit + 1
  /\ status[i] = "completed" => ran[i] > 0
  /\ rule[RuleOf[i]] = "deleted" => ~Exists(i)

(* A fetched row existed, its attempts have only grown since, and a loop    *)
(* that goes on to write an outcome has done what the outcome says.         *)
OutcomeHeld(d, s) ==
  /\ status[s.item] # "none"
  /\ s.attempts <= attempts[s.item]
  /\ Begun(d, s) /\ Exists(s.item) /\ "start" \notin FaultPoints
       => s.attempts < attempts[s.item]
  /\ Begun(d, s) /\ Exists(s.item) /\ pc[d][AgentOf[s.item]] = "complete"
       => ran[s.item] > 0

OutcomesInv == /\ OneSnapshotPerItem
               /\ \A i \in Item : OutcomeItem(i)
               /\ \A d \in Drain : \A s \in batch[d] : OutcomeHeld(d, s)

(* No step takes an attempt, a run or the end of a row back. *)
OnlyForward ==
  \A i \in Item : /\ attempts[i] <= attempts'[i] /\ ran[i] <= ran'[i]
                  /\ status[i] # "none" => status'[i] # "none"
                  /\ status[i] # "none" /\ Exists(i)' => Exists(i)

LEMMA StepForward ==
  ASSUME TypeOK, QueueAssumption, NEW d \in Drain, NEW a \in Agent, Step(d, a)
  PROVE  OnlyForward
<1>1. PICK s \in Current(d, a) :
        \/ CancelDisabled(d, a, s) \/ Reschedule(d, a, s)
        \/ Start(d, a, s) \/ StartFails(d, a, s) \/ Execute(d, a, s)
        \/ Complete(d, a, s) \/ CompleteFails(d, a, s)
        \/ Catch(d, a, s) \/ CatchFails(d, a, s)
  BY DEF Step
<1>2. s.item \in Item
  BY CurrentFacts
<1>3. \A i \in Item : attempts[i] <= attempts'[i]
  <2>1. \/ attempts' = attempts
        \/ attempts' = [attempts EXCEPT ![s.item] = attempts[s.item] + 1]
    BY <1>1 DEF CancelDisabled, Reschedule, Start, Incremented, StartFails, Execute,
                Complete, CompleteFails, Catch, CatchFails, rows
  <2>2. attempts \in [Item -> Nat]
    BY DEF TypeOK
  <2> QED
    BY <1>2, <2>1, <2>2
<1>4. \A i \in Item : ran[i] <= ran'[i]
  <2>1. ran' = ran \/ ran' = [ran EXCEPT ![s.item] = ran[s.item] + 1]
    BY <1>1 DEF CancelDisabled, Reschedule, Start, StartFails, Execute, Complete,
                CompleteFails, Catch, CatchFails, ledger
  <2>2. ran \in [Item -> Nat]
    BY DEF TypeOK
  <2> QED
    BY <1>2, <2>1, <2>2
<1>5. status' = status \/ /\ Exists(s.item)
                          /\ \E v \in Status \ {"none", "gone"} :
                               status' = [status EXCEPT ![s.item] = v]
  BY <1>1 DEF CancelDisabled, Reschedule, Start, StartFails, Execute, Complete,
              CompleteFails, Catch, CatchFails, Outcome, rows, Status
<1> QED
  BY <1>2, <1>3, <1>4, <1>5 DEF OnlyForward, Exists, TypeOK

LEMMA OutsideForward ==
  ASSUME TypeOK, QueueAssumption, Outside
  PROVE  OnlyForward
<1>1. UNCHANGED <<attempts, ran>>
  BY DEF Outside, Enqueue, CancelCheck, RetryCheck, EditCheck, Check, CancelWrite,
         RetryWrite, EditWrite, CancelAll, ToggleRule, DeleteRule, HoursChange, rows, ledger
<1>2. \A i \in Item : attempts[i] \in Nat /\ ran[i] \in Nat
  BY DEF TypeOK
<1>3. \A i \in Item : \/ status'[i] = status[i]
                      \/ status[i] = "none"
                      \/ Exists(i) /\ status'[i] # "none"
  <2>1. ASSUME NEW i \in Item, Enqueue(i)
        PROVE  \A j \in Item : status'[j] = status[j] \/ status[j] = "none"
    BY <2>1 DEF Enqueue, TypeOK
  <2>2. ASSUME NEW c \in Call, CancelWrite(c) \/ RetryWrite(c)
        PROVE  \A j \in Item : status'[j] = status[j] \/ (Exists(j) /\ status'[j] # "none")
    BY <2>2 DEF CancelWrite, RetryWrite, TypeOK
  <2>3. ASSUME CancelAll
        PROVE  \A j \in Item : status'[j] = status[j] \/ (Exists(j) /\ status'[j] # "none")
    BY <2>3 DEF CancelAll, Exists
  <2>4. ASSUME NEW r \in Rule, DeleteRule(r)
        PROVE  \A j \in Item : status'[j] = status[j] \/ (Exists(j) /\ status'[j] # "none")
    BY <2>4 DEF DeleteRule
  <2>5. ASSUME \/ \E c \in Call : \/ \E i \in Item : CancelCheck(c, i) \/ RetryCheck(c, i) \/ EditCheck(c, i)
                                 \/ EditWrite(c)
               \/ \E r \in Rule : ToggleRule(r) \/ HoursChange(r)
        PROVE  status' = status
    BY <2>5 DEF CancelCheck, RetryCheck, EditCheck, Check, EditWrite, ToggleRule,
                HoursChange, rows
  <2> QED
    BY <2>1, <2>2, <2>3, <2>4, <2>5 DEF Outside
<1> QED
  BY <1>1, <1>2, <1>3 DEF OnlyForward, Exists

(* What holds of a fetched row goes on holding while its loop stands still. *)
LEMMA HeldForward ==
  ASSUME TypeOK, TypeOK', QueueAssumption, OnlyForward,
         NEW d \in Drain, NEW s \in batch[d], OutcomeHeld(d, s),
         Begun(d, s)' => /\ Begun(d, s)
                         /\ pc'[d][AgentOf[s.item]] = pc[d][AgentOf[s.item]]
  PROVE  OutcomeHeld(d, s)'
<1>1. s.item \in Item /\ s.attempts \in Nat
  BY HeldFacts
<1>2. /\ attempts[s.item] <= attempts'[s.item] /\ ran[s.item] <= ran'[s.item]
      /\ status[s.item] # "none" => status'[s.item] # "none"
      /\ status[s.item] # "none" /\ Exists(s.item)' => Exists(s.item)
  BY <1>1 DEF OnlyForward
<1>3. PICK m \in Nat, n \in Nat, k \in Nat, l \in Nat :
        m = attempts[s.item] /\ n = attempts'[s.item] /\ k = ran[s.item] /\ l = ran'[s.item]
  BY <1>1 DEF TypeOK
<1> QED
  BY <1>1, <1>2, <1>3 DEF OutcomeHeld

(* One step of one loop. *)
LEMMA StepOutcomes ==
  ASSUME TypeOK, TypeOK', QueueAssumption, OutcomesInv,
         NEW d \in Drain, NEW a \in Agent, Step(d, a)
  PROVE  OutcomesInv'
<1>1. PICK s \in Current(d, a) :
        \/ CancelDisabled(d, a, s) \/ Reschedule(d, a, s)
        \/ Start(d, a, s) \/ StartFails(d, a, s) \/ Execute(d, a, s)
        \/ Complete(d, a, s) \/ CompleteFails(d, a, s)
        \/ Catch(d, a, s) \/ CatchFails(d, a, s)
  BY DEF Step
<1> DEFINE i == s.item
<1>2. /\ s \in batch[d] /\ s \in Group(d, a) /\ i \in Item /\ AgentOf[i] = a
      /\ s.attempts \in Nat
  BY CurrentFacts
<1>3. OutcomeItem(i) /\ OutcomeHeld(d, s) /\ OneSnapshotPerItem
  BY <1>2 DEF OutcomesInv
<1>4. OnlyForward
  BY StepForward
<1>5. UNCHANGED rule
  BY <1>1 DEF CancelDisabled, Reschedule, Start, StartFails, Execute, Complete,
              CompleteFails, Catch, CatchFails
<1>6. Stays(d, a) \/ Moves(d, a, s) \/ AbandonGroup(d, a)
  BY <1>1 DEF CancelDisabled, Reschedule, Start, StartFails, Execute, Complete,
              CompleteFails, Catch, CatchFails, Stays, Moves, AfterPause
<1>7. \A j \in Item : j # i => /\ attempts'[j] = attempts[j]
                               /\ ran'[j] = ran[j]
                               /\ status'[j] = status[j]
  BY <1>1, <1>2 DEF CancelDisabled, Reschedule, Start, StartFails, Execute, Complete,
              CompleteFails, Catch, CatchFails, ledger, rows, TypeOK
<1>8. Begun(d, s) <=> ~AtTop(d, a)
  BY <1>2 DEF Begun, AtTop, TypeOK
<1>9. /\ \A e \in Drain : batch'[e] \subseteq batch[e]
      /\ \A t \in batch'[d] : t # s =>
           /\ t.item # i
           /\ Begun(d, t)' <=> Begun(d, t)
           /\ Begun(d, t) => pc'[d][AgentOf[t.item]] = pc[d][AgentOf[t.item]]
      /\ s \in batch'[d] => Stays(d, a) /\ Begun(d, s)'
  BY <1>3, <1>6, StepFrame
<1>10. \A e \in Drain : e # d => batch'[e] = batch[e] /\ pc'[e] = pc[e]
  BY <1>6 DEF Stays, Moves, NextItem, AbandonGroup, Goto, TypeOK
<1>11. SUFFICES OutcomeItem(i)' /\ (s \in batch'[d] => OutcomeHeld(d, s)')
  <2>1. ASSUME NEW e \in Drain, NEW t \in batch'[e], ~(e = d /\ t = s)
        PROVE  OutcomeHeld(e, t)'
    <3>1. t \in batch[e] /\ OutcomeHeld(e, t)
      BY <1>9 DEF OutcomesInv
    <3>2. Begun(e, t)' => /\ Begun(e, t)
                          /\ pc'[e][AgentOf[t.item]] = pc[e][AgentOf[t.item]]
      <4>1. CASE e = d
        BY <1>9, <2>1, <4>1
      <4>2. CASE e # d
        BY <1>10, <4>2 DEF Begun, Current, Group
      <4> QED
        BY <4>1, <4>2
    <3> QED
      BY <1>4, <3>1, <3>2, HeldForward
  <2>2. \A j \in Item : j # i => OutcomeItem(j)'
    BY <1>5, <1>7 DEF OutcomesInv, OutcomeItem, Exists
  <2>3. OneSnapshotPerItem'
    BY <1>3, <1>9 DEF OneSnapshotPerItem
  <2>4. ASSUME OutcomeItem(i)', s \in batch'[d] => OutcomeHeld(d, s)'
        PROVE  OutcomesInv'
    BY <2>1, <2>2, <2>3, <2>4 DEF OutcomesInv
  <2> QED
    BY <2>4
<1>12. /\ status[i] # "none" /\ s.attempts <= attempts[i]
       /\ status'[i] # "none" /\ (Exists(i)' => Exists(i))
       /\ attempts[i] <= attempts'[i] /\ ran[i] <= ran'[i]
  BY <1>2, <1>3, <1>4 DEF OutcomeHeld, OnlyForward
<1>13. PICK m \in Nat, n \in Nat, k \in Nat, l \in Nat :
         m = attempts[i] /\ n = attempts'[i] /\ k = ran[i] /\ l = ran'[i]
  BY <1>2 DEF TypeOK
<1>14. CASE CancelDisabled(d, a, s) \/ Reschedule(d, a, s)
  <2>1. status'[i] = status[i] \/ (Exists(i) /\ status'[i] = "cancelled")
    BY <1>2, <1>14 DEF CancelDisabled, Reschedule, TypeOK
  <2>2. s \notin batch'[d]
    BY <1>2, <1>14 DEF CancelDisabled, Reschedule, NextItem, AbandonGroup, TypeOK
  <2> QED
    BY <1>3, <1>5, <1>12, <1>13, <2>1, <2>2 DEF OutcomeItem, Exists, RetryLimit
<1>15. CASE Start(d, a, s) \/ StartFails(d, a, s)
  <2>1. \/ /\ attempts'[i] = attempts[i] + 1
           /\ status'[i] = "processing" /\ Exists(i) /\ pc'[d][a] = "execute"
        \/ /\ status' = status /\ pc'[d][a] = "catch"
           /\ Exists(i) => "start" \in FaultPoints
    BY <1>2, <1>15 DEF Start, StartFails, Fault, Incremented, Goto, rows, TypeOK
  <2> QED
    BY <1>2, <1>3, <1>5, <1>12, <1>13, <2>1
       DEF OutcomeItem, OutcomeHeld, Exists, RetryLimit
<1>16. CASE Execute(d, a, s)
  <2>1. /\ attempts' = attempts /\ status' = status /\ Begun(d, s)
    BY <1>8, <1>16 DEF Execute, rows, AtTop
  <2>2. \/ ran'[i] = ran[i] + 1
        \/ ~Exists(i)
    BY <1>2, <1>3, <1>16 DEF Execute, RuleFound, OutcomeItem, TypeOK
  <2> QED
    BY <1>2, <1>3, <1>5, <1>12, <1>13, <2>1, <2>2
       DEF OutcomeItem, OutcomeHeld, Exists, RetryLimit
<1>17. CASE Complete(d, a, s) \/ CompleteFails(d, a, s)
  <2>1. /\ attempts' = attempts /\ ran' = ran /\ Begun(d, s)
        /\ pc[d][a] = "complete"
        /\ \/ status' = status
           \/ status'[i] = "completed" /\ Exists(i)
        /\ s \in batch'[d] => pc'[d][a] = "catch"
    BY <1>2, <1>8, <1>17 DEF Complete, CompleteFails, rows, ledger, Goto, NextItem,
                             AtTop, TypeOK
  <2> QED
    BY <1>2, <1>3, <1>5, <1>12, <1>13, <2>1
       DEF OutcomeItem, OutcomeHeld, Exists, RetryLimit
<1>18. CASE Catch(d, a, s) \/ CatchFails(d, a, s)
  <2>1. s \notin batch'[d] /\ Begun(d, s)
    BY <1>2, <1>8, <1>18 DEF Catch, CatchFails, NextItem, AbandonGroup, AtTop, TypeOK
  <2>2. /\ attempts' = attempts /\ ran' = ran
        /\ \/ status'[i] = status[i]
           \/ status'[i] = "failed" /\ s.attempts >= RetryLimit /\ Exists(i)
           \/ status'[i] = "pending" /\ Exists(i)
    BY <1>2, <1>18 DEF Catch, CatchFails, Outcome, Exhausted, rows, ledger, TypeOK
  <2>3. s.attempts < attempts[i] \/ "start" \in FaultPoints \/ ~Exists(i)
    BY <1>3, <2>1 DEF OutcomeHeld
  <2> QED
    BY <1>2, <1>3, <1>5, <1>12, <1>13, <2>1, <2>2, <2>3
       DEF OutcomeItem, Exists, RetryLimit
<1> QED
  BY <1>1, <1>14, <1>15, <1>16, <1>17, <1>18

(* Requests, rules and the clock write no outcome and move no loop. *)
LEMMA OutsideOutcomes ==
  ASSUME TypeOK, TypeOK', QueueAssumption, OutcomesInv, Outside
  PROVE  OutcomesInv'
<1>1. OneSnapshotPerItem /\ \A i \in Item : OutcomeItem(i)
  BY DEF OutcomesInv
<1>2. UNCHANGED <<batch, pc>>
  BY OutsideFrame
<1>3. UNCHANGED <<attempts, ran>>
  BY DEF Outside, Enqueue, CancelCheck, RetryCheck, EditCheck, Check, CancelWrite,
         RetryWrite, EditWrite, CancelAll, ToggleRule, DeleteRule, HoursChange, rows, ledger
<1>4. OneSnapshotPerItem'
  BY <1>1, <1>2 DEF OneSnapshotPerItem
<1>5. ASSUME NEW d \in Drain, NEW s \in batch'[d] PROVE OutcomeHeld(d, s)'
  <2>1. s \in batch[d] /\ OutcomeHeld(d, s)
    BY <1>2, <1>5 DEF OutcomesInv
  <2>2. Begun(d, s)' <=> Begun(d, s)
    BY <1>2 DEF Begun, Current, Group
  <2>3. OnlyForward
    BY OutsideForward
  <2> QED
    BY <1>2, <2>1, <2>2, <2>3, HeldForward
<1> DEFINE Quiet ==
      \A i \in Item :
        /\ \/ status'[i] = status[i]
           \/ status'[i] \in {"cancelled", "gone"} /\ Exists(i)
           \/ status'[i] = "pending" /\ rule[RuleOf[i]] # "deleted"
        /\ rule'[RuleOf[i]] = "deleted" =>
             rule[RuleOf[i]] = "deleted" \/ status'[i] \in {"none", "gone"}
<1>6. ASSUME Quiet PROVE \A i \in Item : OutcomeItem(i)'
  <2> SUFFICES ASSUME NEW i \in Item PROVE OutcomeItem(i)'
    OBVIOUS
  <2>1. OutcomeItem(i)
    BY <1>1
  <2> QED
    BY <1>3, <1>6, <2>1 DEF OutcomeItem, Exists
<1>7. \A i \in Item : RuleOf[i] \in Rule
  BY DEF QueueAssumption
<1>8. ASSUME NEW i \in Item, Enqueue(i) PROVE Quiet
  BY <1>8 DEF Enqueue, TypeOK
<1>9. ASSUME NEW c \in Call, RetryWrite(c) PROVE Quiet
  <2>1. call[c].item \in Item
    BY <1>9 DEF RetryWrite, TypeOK, Request
  <2>2. Exists(call[c].item) => rule[RuleOf[call[c].item]] # "deleted"
    BY <1>1, <2>1 DEF OutcomeItem
  <2> QED
    BY <1>9, <2>1, <2>2 DEF RetryWrite, TypeOK
<1>10. ASSUME \/ \E c \in Call : \/ \E i \in Item : CancelCheck(c, i) \/ RetryCheck(c, i) \/ EditCheck(c, i)
                                \/ EditWrite(c)
              \/ \E r \in Rule : HoursChange(r)
       PROVE  Quiet
  BY <1>10 DEF CancelCheck, RetryCheck, EditCheck, Check, EditWrite, HoursChange, rows
<1>11. ASSUME (\E c \in Call : CancelWrite(c)) \/ CancelAll PROVE Quiet
  BY <1>11 DEF CancelWrite, CancelAll, Exists, TypeOK
<1>12. ASSUME NEW r \in Rule, ToggleRule(r) PROVE Quiet
  BY <1>7, <1>12 DEF ToggleRule, rows, TypeOK
<1>13. ASSUME NEW r \in Rule, DeleteRule(r) PROVE Quiet
  BY <1>7, <1>13 DEF DeleteRule, Exists, TypeOK
<1>14. Quiet
  BY <1>8, <1>9, <1>10, <1>11, <1>12, <1>13 DEF Outside
<1> QED
  BY <1>4, <1>5, <1>6, <1>14 DEF OutcomesInv

LEMMA NextOutcomes ==
  ASSUME TypeOK, QueueAssumption, OutcomesInv, [Next]_vars
  PROVE  OutcomesInv'
<1>1. TypeOK'
  BY NextTypeOK
<1>2. ASSUME NEW d \in Drain, DrainQueue(d) PROVE OutcomesInv'
  <2>1. /\ UNCHANGED <<status, attempts, ran, rule, pc>>
        /\ batch' = [batch EXCEPT ![d] = Grouped]
    BY <1>2 DEF DrainQueue, ledger
  <2>2. \A b \in Agent : pc[d][b] = "check"
    BY <1>2 DEF DrainQueue, Group, TypeOK
  <2>3. /\ \A s \in Grouped : /\ s.item \in Item
                               /\ status[s.item] = "pending"
                               /\ s.attempts = attempts[s.item]
        /\ \A s, t \in Grouped : s.item = t.item => s = t
    BY GroupedFacts
  <2>4. batch'[d] = Grouped /\ \A e \in Drain : e # d => batch'[e] = batch[e]
    BY <2>1 DEF TypeOK
  <2>5. ASSUME NEW e \in Drain, NEW s \in batch'[e] PROVE OutcomeHeld(e, s)'
    <3>1. CASE e = d
      <4>1. s.item \in Item /\ status[s.item] = "pending" /\ s.attempts = attempts[s.item]
            /\ attempts[s.item] \in Nat /\ AgentOf[s.item] \in Agent
        <5>1. s \in Grouped
          BY <2>4, <3>1
        <5>2. s.item \in Item /\ status[s.item] = "pending" /\ s.attempts = attempts[s.item]
          BY <2>3, <5>1
        <5>3. \A i \in Item : attempts[i] \in Nat
          BY DEF TypeOK
        <5>4. \A i \in Item : AgentOf[i] \in Agent
          BY DEF QueueAssumption
        <5> QED
          BY <5>2, <5>3, <5>4
      <4>2. ~Begun(e, s)'
        BY <2>1, <2>2, <3>1, <4>1 DEF Begun
      <4>3. status' = status /\ attempts' = attempts
        BY <2>1
      <4> QED
        BY <4>1, <4>2, <4>3 DEF OutcomeHeld
    <3>2. CASE e # d
      <4>1. s \in batch[e] /\ OutcomeHeld(e, s)
        BY <2>4, <3>2 DEF OutcomesInv
      <4>2. Begun(e, s)' <=> Begun(e, s)
        BY <2>1, <2>4, <3>2 DEF Begun, Current, Group
      <4>3. status' = status /\ attempts' = attempts /\ ran' = ran /\ pc' = pc
        BY <2>1
      <4> QED
        BY <4>1, <4>2, <4>3 DEF OutcomeHeld, Exists
    <3> QED
      BY <3>1, <3>2
  <2>6. OneSnapshotPerItem'
    BY <2>3, <2>4 DEF OutcomesInv, OneSnapshotPerItem
  <2>7. \A i \in Item : OutcomeItem(i)'
    BY <2>1 DEF OutcomesInv, OutcomeItem, Exists
  <2> QED
    BY <2>5, <2>6, <2>7 DEF OutcomesInv
<1>3. ASSUME NEW d \in Drain, NEW a \in Agent, Step(d, a) PROVE OutcomesInv'
  BY <1>1, <1>3, StepOutcomes
<1>4. ASSUME Crash PROVE OutcomesInv'
  <2>1. UNCHANGED <<status, attempts, ran, rule>> /\ \A d \in Drain : batch'[d] = {}
    BY <1>4 DEF Crash, rows, ledger
  <2> QED
    BY <2>1 DEF OutcomesInv, OneSnapshotPerItem, OutcomeItem, Exists
<1>5. ASSUME Outside PROVE OutcomesInv'
  BY <1>1, <1>5, OutsideOutcomes
<1>6. ASSUME UNCHANGED vars PROVE OutcomesInv'
  BY <1>6 DEF vars, rows, ledger, OutcomesInv, OneSnapshotPerItem, OutcomeItem,
              OutcomeHeld, Exists, Begun, Current, Group
<1> QED
  BY <1>2, <1>3, <1>4, <1>5, <1>6 DEF Next, Outside

(* However cycles, requests, faults and crashes interleave, no item is     *)
(* given up on before its attempts were used, and none is called completed *)
(* that did not run.                                                       *)
THEOREM OutcomesAreEarned ==
  QueueAssumption => (Spec => [](FailedOnlyWhenSpent /\ CompletedHasRun))
<1> SUFFICES ASSUME QueueAssumption
             PROVE  Spec => [](FailedOnlyWhenSpent /\ CompletedHasRun)
  OBVIOUS
<1>1. Init => OutcomesInv
  BY DEF Init, OutcomesInv, OneSnapshotPerItem, OutcomeItem, Exists, QueueAssumption
<1>2. TypeOK /\ OutcomesInv /\ [Next]_vars => OutcomesInv'
  BY NextOutcomes
<1>3. OutcomesInv => FailedOnlyWhenSpent /\ CompletedHasRun
  BY DEF OutcomesInv, OutcomeItem, FailedOnlyWhenSpent, CompletedHasRun
<1> QED
  BY <1>1, <1>2, <1>3, QueueTypeCorrect, PTL DEF Spec

-----------------------------------------------------------------------------
(* Cancellation *)

(* A loop writes and keeps only rows it holds. *)
LEMMA StepCancelled ==
  ASSUME TypeOK, QueueAssumption, NEW d \in Drain, NEW a \in Agent, Step(d, a),
         NEW i \in Item, status[i] = "cancelled", ~Held(i)
  PROVE  status'[i] = "cancelled" /\ ~Held(i)'
<1>1. PICK s \in Current(d, a) :
        \/ CancelDisabled(d, a, s) \/ Reschedule(d, a, s)
        \/ Start(d, a, s) \/ StartFails(d, a, s) \/ Execute(d, a, s)
        \/ Complete(d, a, s) \/ CompleteFails(d, a, s)
        \/ Catch(d, a, s) \/ CatchFails(d, a, s)
  BY DEF Step
<1>2. s \in batch[d] /\ s.item \in Item /\ s.item # i
  BY CurrentFacts DEF Held, Holders
<1>3. status'[i] = status[i]
  BY <1>1, <1>2 DEF CancelDisabled, Reschedule, Start, StartFails, Execute, Complete,
              CompleteFails, Catch, CatchFails, rows, TypeOK
<1>4. Stays(d, a) \/ Moves(d, a, s) \/ AbandonGroup(d, a)
  BY <1>1 DEF CancelDisabled, Reschedule, Start, StartFails, Execute, Complete,
              CompleteFails, Catch, CatchFails, Stays, Moves, AfterPause
<1>5. \A e \in Drain : batch'[e] \subseteq batch[e]
  BY <1>4 DEF Stays, Moves, NextItem, AbandonGroup, TypeOK
<1> QED
  BY <1>3, <1>5 DEF Held, Holders

LEMMA CancelledStays ==
  ASSUME TypeOK, QueueAssumption, [Next]_vars,
         NEW i \in Item, status[i] = "cancelled", ~Held(i),
         \A c \in Call : call[c] # [op |-> "retry", item |-> i]
  PROVE  status'[i] \in {"cancelled", "gone"} /\ ~Held(i)'
<1>1. ASSUME NEW d \in Drain, DrainQueue(d)
      PROVE  status'[i] = "cancelled" /\ ~Held(i)'
  <2>1. status' = status /\ batch' = [batch EXCEPT ![d] = Grouped]
    BY <1>1 DEF DrainQueue
  <2>2. \A s \in Grouped : s.item # i
    BY GroupedFacts
  <2> QED
    BY <2>1, <2>2 DEF Held, Holders, TypeOK
<1>2. ASSUME NEW d \in Drain, NEW a \in Agent, Step(d, a)
      PROVE  status'[i] = "cancelled" /\ ~Held(i)'
  BY <1>2, StepCancelled
<1>3. ASSUME Crash PROVE status'[i] = "cancelled" /\ ~Held(i)'
  BY <1>3 DEF Crash, rows, Held, Holders
<1>4. ASSUME Outside PROVE status'[i] \in {"cancelled", "gone"} /\ ~Held(i)'
  <2>1. ~Held(i)'
    BY <1>4, OutsideFrame DEF Held, Holders
  <2>2. ASSUME NEW c \in Call, RetryWrite(c) PROVE status'[i] = "cancelled"
    <3>1. call[c] \in Request /\ call[c].op = "retry"
      BY <2>2 DEF RetryWrite, TypeOK
    <3>2. call[c] = [op |-> call[c].op, item |-> call[c].item]
      BY <3>1 DEF Request
    <3>3. call[c].item # i
      BY <3>1, <3>2
    <3> QED
      BY <2>2, <3>3 DEF RetryWrite, TypeOK
  <2>3. ASSUME NEW j \in Item, Enqueue(j) PROVE status'[i] = "cancelled"
    BY <2>3 DEF Enqueue, TypeOK
  <2>4. ASSUME \/ \E c \in Call : \/ \E j \in Item : CancelCheck(c, j) \/ RetryCheck(c, j) \/ EditCheck(c, j)
                                 \/ EditWrite(c)
               \/ \E r \in Rule : ToggleRule(r) \/ HoursChange(r)
        PROVE  status'[i] = "cancelled"
    BY <2>4 DEF CancelCheck, RetryCheck, EditCheck, Check, EditWrite, ToggleRule,
                HoursChange, rows
  <2>5. ASSUME \/ \E c \in Call : CancelWrite(c)
               \/ CancelAll
               \/ \E r \in Rule : DeleteRule(r)
        PROVE  status'[i] \in {"cancelled", "gone"}
    BY <2>5 DEF CancelWrite, CancelAll, DeleteRule, TypeOK
  <2> QED
    BY <1>4, <2>1, <2>2, <2>3, <2>4, <2>5 DEF Outside
<1>5. ASSUME UNCHANGED vars PROVE status'[i] = "cancelled" /\ ~Held(i)'
  BY <1>5 DEF vars, rows, Held, Holders
<1> QED
  BY <1>1, <1>2, <1>3, <1>4, <1>5 DEF Next, Outside

(* A cancellation stands: only a cycle that held the item when it was      *)
(* cancelled, or a retry under way, can undo it.                           *)
THEOREM CancellationsStand == QueueAssumption => (Spec => CancelledIsFinal)
<1> SUFFICES ASSUME QueueAssumption PROVE Spec => CancelledIsFinal
  OBVIOUS
<1>1. TypeOK /\ [Next]_vars =>
        [\A i \in Item :
           /\ status[i] = "cancelled" /\ ~Held(i)
           /\ \A c \in Call : call[c] # [op |-> "retry", item |-> i]
           => status'[i] \in {"cancelled", "gone"} /\ ~Held(i)']_vars
  BY CancelledStays
<1> QED
  BY <1>1, QueueTypeCorrect, PTL DEF Spec, CancelledIsFinal

-----------------------------------------------------------------------------
(* Edits *)

(* The text a cycle holds of an item that was never fetched by two at once  *)
(* is between the last one sent and the row's.                              *)
EditsItem(i) == said[i] <= message[i] \/ doubled[i] > 0
EditsHeld(s) == \/ said[s.item] <= s.message /\ s.message <= message[s.item]
                \/ doubled[s.item] > 0

EditsInv == /\ \A i \in Item : EditsItem(i)
            /\ \A d \in Drain : \A s \in batch[d] : EditsHeld(s)

Forward == \A i \in Item : said'[i] >= said[i] \/ doubled[i] > 0

(* Of an item never fetched by two at once, one cycle has the one row. *)
LEMMA SoleHolder ==
  ASSUME TypeOK, QueueAssumption, BudgetInv,
         NEW d \in Drain, NEW s \in batch[d], NEW e \in Drain, NEW t \in batch[e],
         s.item = t.item, ~(doubled[s.item] > 0)
  PROVE  s = t
<1>1. s.item \in Item
  BY HeldFacts
<1>2. Cardinality(Holders(s.item)) <= 1
  <2>1. doubled[s.item] \in Nat
    BY <1>1 DEF TypeOK
  <2>2. doubled[s.item] = 0
    BY <2>1
  <2>3. Cardinality(Holders(s.item)) <= doubled[s.item] + 1
    BY <1>1 DEF BudgetInv
  <2> QED
    BY <2>2, <2>3
<1>3. d \in Holders(s.item) /\ e \in Holders(s.item)
  BY DEF Holders
<1>4. d = e
  <2> SUFFICES ASSUME d # e PROVE FALSE
    OBVIOUS
  <2>1. Holders(s.item) \in SUBSET Drain /\ {d} \in SUBSET Holders(s.item) /\ e \notin {d}
    BY <1>1, <1>3, CycleSets
  <2>2. Cardinality({d}) + 1 <= Cardinality(Holders(s.item))
    BY <1>3, <2>1, DrainDrop
  <2>3. Cardinality({d}) = 1 /\ Cardinality(Holders(s.item)) \in Nat
    BY <1>1, FS_Singleton, CycleSets
  <2> QED
    BY <1>2, <2>2, <2>3
<1> QED
  BY <1>4 DEF BudgetInv, OneSnapshotPerItem

(* What a step leaves that sends nothing, fetches nothing, and edits at most. *)
LEMMA EditsKept ==
  ASSUME TypeOK, TypeOK', QueueAssumption, EditsInv,
         \A d \in Drain : batch'[d] \subseteq batch[d],
         said' = said, doubled' = doubled,
         \A i \in Item : message[i] <= message'[i]
  PROVE  EditsInv' /\ Forward
<1>1. ASSUME NEW i \in Item PROVE EditsItem(i)' /\ said'[i] >= said[i]
  <2>1. PICK m \in Nat, n \in Nat, k \in Nat :
          m = said[i] /\ n = message[i] /\ k = message'[i] /\ n <= k
    BY DEF TypeOK
  <2>2. EditsItem(i) /\ said'[i] = m /\ doubled'[i] = doubled[i]
    BY <2>1 DEF EditsInv
  <2> QED
    BY <2>1, <2>2 DEF EditsItem
<1>2. ASSUME NEW d \in Drain, NEW s \in batch'[d] PROVE EditsHeld(s)'
  <2>1. s \in batch[d] /\ s.item \in Item /\ s.message \in Nat
    BY DEF TypeOK, Snapshot
  <2>2. PICK m \in Nat, n \in Nat, k \in Nat :
          m = said[s.item] /\ n = message[s.item] /\ k = message'[s.item] /\ n <= k
    BY <2>1 DEF TypeOK
  <2>3. EditsHeld(s) /\ said'[s.item] = m /\ doubled'[s.item] = doubled[s.item]
    BY <2>1, <2>2 DEF EditsInv
  <2> QED
    BY <2>1, <2>2, <2>3 DEF EditsHeld
<1> QED
  BY <1>1, <1>2 DEF EditsInv, Forward

(* An execution sends what its cycle fetched. *)
LEMMA ExecuteEdits ==
  ASSUME TypeOK, TypeOK', QueueAssumption, BudgetInv, EditsInv,
         NEW d \in Drain, NEW a \in Agent, NEW s \in Current(d, a), Execute(d, a, s)
  PROVE  EditsInv' /\ Forward
<1>1. s \in batch[d] /\ s.item \in Item /\ s.message \in Nat
  BY CurrentFacts
<1>2. UNCHANGED <<batch, message, doubled>>
  BY DEF Execute, rows
<1>3. EditsHeld(s)
  BY <1>1 DEF EditsInv
<1>4. said \in [Item -> Nat] /\ message \in [Item -> Nat] /\ doubled \in [Item -> Nat]
  BY DEF TypeOK
<1>5. CASE said' = said
  <2>1. \A i \in Item : message[i] <= message'[i]
    BY <1>2, <1>4
  <2>2. \A e \in Drain : batch'[e] \subseteq batch[e]
    BY <1>2
  <2> QED
    BY <1>2, <1>5, <2>1, <2>2, EditsKept
<1>6. CASE said' = [said EXCEPT ![s.item] = s.message]
  <2>1. /\ said'[s.item] = s.message
        /\ \A i \in Item : i # s.item => said'[i] = said[i]
    BY <1>1, <1>4, <1>6
  <2>2. ASSUME NEW e \in Drain, NEW t \in batch'[e] PROVE EditsHeld(t)'
    <3>1. t \in batch[e] /\ t.item \in Item /\ EditsHeld(t)
      BY <1>2, HeldFacts DEF EditsInv
    <3>2. CASE t.item # s.item
      <4>1. said'[t.item] = said[t.item]
        BY <2>1, <3>1, <3>2
      <4> QED
        BY <1>2, <3>1, <4>1 DEF EditsHeld
    <3>3. CASE t.item = s.item /\ doubled[s.item] > 0
      BY <1>2, <3>3 DEF EditsHeld
    <3>4. CASE t.item = s.item /\ ~(doubled[s.item] > 0)
      <4>1. t = s
        BY <1>1, <3>1, <3>4, SoleHolder
      <4>2. s.message <= message[s.item] /\ s.message <= s.message
        BY <1>1, <1>3, <3>4 DEF EditsHeld
      <4> QED
        BY <1>2, <2>1, <4>1, <4>2 DEF EditsHeld
    <3> QED
      BY <3>2, <3>3, <3>4
  <2>3. ASSUME NEW i \in Item PROVE EditsItem(i)' /\ (said'[i] >= said[i] \/ doubled[i] > 0)
    <3>1. CASE i # s.item
      <4>1. said'[i] = said[i] /\ EditsItem(i) /\ said[i] \in Nat
        BY <1>4, <2>1, <3>1 DEF EditsInv
      <4> QED
        BY <1>2, <4>1 DEF EditsItem
    <3>2. CASE i = s.item
      BY <1>1, <1>2, <1>3, <1>4, <2>1, <3>2 DEF EditsItem, EditsHeld
    <3> QED
      BY <3>1, <3>2
  <2> QED
    BY <2>2, <2>3 DEF EditsInv, Forward
<1> QED
  BY <1>5, <1>6 DEF Execute

(* A cron tick fetches the rows' texts, the last sent or newer ones. *)
LEMMA DrainEdits ==
  ASSUME TypeOK, TypeOK', QueueAssumption, EditsInv, NEW d \in Drain, DrainQueue(d)
  PROVE  EditsInv' /\ Forward
<1>1. /\ said' = said /\ message' = message /\ batch'[d] = Grouped
      /\ \A e \in Drain : e # d => batch'[e] = batch[e]
      /\ doubled' = [i \in Item |-> IF i \in Twice THEN doubled[i] + 1 ELSE doubled[i]]
  BY DEF DrainQueue, ledger, TypeOK
<1>2. ASSUME NEW i \in Item
      PROVE  /\ said'[i] \in Nat /\ message'[i] \in Nat
             /\ said'[i] = said[i] /\ message'[i] = message[i] /\ said'[i] >= said[i]
             /\ doubled[i] > 0 => doubled'[i] > 0
  <2>1. said[i] \in Nat /\ message[i] \in Nat /\ doubled[i] \in Nat
    BY DEF TypeOK
  <2>2. doubled'[i] = doubled[i] + 1 \/ doubled'[i] = doubled[i]
    BY <1>1
  <2> QED
    BY <1>1, <2>1, <2>2
<1>3. ASSUME NEW i \in Item PROVE EditsItem(i)'
  <2>1. EditsItem(i)
    BY DEF EditsInv
  <2> QED
    BY <1>2, <2>1 DEF EditsItem
<1>4. ASSUME NEW s \in Grouped PROVE s.item \in Item /\ s.message = message[s.item]
  <2>1. Grouped \subseteq Fetched
    BY DEF Grouped, First
  <2> QED
    BY <1>4, <2>1 DEF Fetched, Ready
<1>5. ASSUME NEW e \in Drain, NEW s \in batch'[e] PROVE EditsHeld(s)'
  <2>1. CASE e = d
    <3>1. s.item \in Item /\ s.message = message'[s.item]
      BY <1>1, <1>4, <2>1
    <3>2. EditsItem(s.item)' /\ message'[s.item] \in Nat
      BY <1>2, <1>3, <3>1
    <3> QED
      BY <3>1, <3>2 DEF EditsItem, EditsHeld
  <2>2. CASE e # d
    <3>1. s \in batch[e] /\ s.item \in Item /\ EditsHeld(s)
      BY <1>1, <2>2, HeldFacts DEF EditsInv
    <3> QED
      BY <1>2, <3>1 DEF EditsHeld
  <2> QED
    BY <2>1, <2>2
<1> QED
  BY <1>2, <1>3, <1>5 DEF EditsInv, Forward

LEMMA NextEdits ==
  ASSUME TypeOK, QueueAssumption, BudgetInv, EditsInv, [Next]_vars
  PROVE  EditsInv' /\ Forward
<1>1. TypeOK'
  BY NextTypeOK
<1>2. \A i \in Item : said[i] \in Nat /\ message[i] \in Nat
  BY DEF TypeOK
<1>3. message' = message => \A i \in Item : message[i] <= message'[i]
  BY <1>2
<1>4. ASSUME NEW d \in Drain, DrainQueue(d) PROVE EditsInv' /\ Forward
  BY <1>1, <1>4, DrainEdits
<1>5. ASSUME NEW d \in Drain, NEW a \in Agent, Step(d, a) PROVE EditsInv' /\ Forward
  <2>1. PICK s \in Current(d, a) :
          \/ CancelDisabled(d, a, s) \/ Reschedule(d, a, s)
          \/ Start(d, a, s) \/ StartFails(d, a, s) \/ Execute(d, a, s)
          \/ Complete(d, a, s) \/ CompleteFails(d, a, s)
          \/ Catch(d, a, s) \/ CatchFails(d, a, s)
    BY <1>5 DEF Step
  <2>2. CASE Execute(d, a, s)
    BY <1>1, <2>2, ExecuteEdits
  <2>3. CASE ~Execute(d, a, s)
    <3>1. said' = said /\ message' = message /\ doubled' = doubled
      BY <2>1, <2>3 DEF CancelDisabled, Reschedule, Start, StartFails, Complete,
                        CompleteFails, Catch, CatchFails, rows, ledger
    <3>2. Stays(d, a) \/ Moves(d, a, s) \/ AbandonGroup(d, a)
      BY <2>1 DEF CancelDisabled, Reschedule, Start, StartFails, Execute, Complete,
                  CompleteFails, Catch, CatchFails, Stays, Moves, AfterPause
    <3>3. \A e \in Drain : batch'[e] \subseteq batch[e]
      BY <3>2 DEF Stays, Moves, NextItem, AbandonGroup, TypeOK
    <3> QED
      BY <1>1, <1>3, <3>1, <3>3, EditsKept
  <2> QED
    BY <2>2, <2>3
<1>6. ASSUME Crash PROVE EditsInv' /\ Forward
  <2>1. /\ said' = said /\ message' = message /\ doubled' = doubled
        /\ \A d \in Drain : batch'[d] \subseteq batch[d]
    BY <1>6 DEF Crash, rows, ledger
  <2> QED
    BY <1>1, <1>3, <2>1, EditsKept
<1>7. ASSUME Outside PROVE EditsInv' /\ Forward
  <2>1. \A d \in Drain : batch'[d] \subseteq batch[d]
    BY <1>7, OutsideFrame
  <2>2. said' = said /\ doubled' = doubled
    BY <1>7 DEF Outside, Enqueue, CancelCheck, RetryCheck, EditCheck, Check, CancelWrite,
         RetryWrite, EditWrite, CancelAll, ToggleRule, DeleteRule, HoursChange, ledger
  <2>3. \/ message' = message
        \/ \E i \in Item : message' = [message EXCEPT ![i] = message[i] + 1]
    <3>1. ASSUME NEW c \in Call, EditWrite(c)
          PROVE  \/ message' = message
                 \/ \E i \in Item : message' = [message EXCEPT ![i] = message[i] + 1]
      <4>1. call[c].item \in Item
        BY <3>1 DEF EditWrite, TypeOK, Request
      <4> QED
        BY <3>1, <4>1 DEF EditWrite
    <3> QED
      BY <1>7, <3>1 DEF Outside, Enqueue, CancelCheck, RetryCheck, EditCheck, Check, CancelWrite,
         RetryWrite, CancelAll, ToggleRule, DeleteRule, HoursChange, rows
  <2>4. \A i \in Item : message[i] <= message'[i]
    <3>1. message \in [Item -> Nat]
      BY DEF TypeOK
    <3> QED
      BY <2>3, <3>1
  <2> QED
    BY <1>1, <2>1, <2>2, <2>4, EditsKept
<1>8. ASSUME UNCHANGED vars PROVE EditsInv' /\ Forward
  <2>1. /\ said' = said /\ message' = message /\ doubled' = doubled
        /\ \A d \in Drain : batch'[d] \subseteq batch[d]
    BY <1>8 DEF vars, rows, ledger
  <2> QED
    BY <1>1, <1>3, <2>1, EditsKept
<1> QED
  BY <1>4, <1>5, <1>6, <1>7, <1>8 DEF Next, Outside

(* An execution never sends an older text than the execution of that item  *)
(* before it, unless two cycles had the item at once, whatever cycles do   *)
(* to the other items.                                                     *)
THEOREM EditsAreKept == QueueAssumption => (Spec => SaidNeverGoesBack)
<1> SUFFICES ASSUME QueueAssumption PROVE Spec => SaidNeverGoesBack
  OBVIOUS
<1>1. Init => EditsInv
  BY DEF Init, EditsInv, EditsItem
<1>2. TypeOK /\ BudgetInv /\ EditsInv /\ [Next]_vars => EditsInv'
  BY NextEdits
<1>3. TypeOK /\ BudgetInv /\ EditsInv /\ [Next]_vars
        => [\A i \in Item : said'[i] >= said[i] \/ doubled[i] > 0]_vars
  BY NextEdits DEF Forward
<1> QED
  BY <1>1, <1>2, <1>3, QueueTypeCorrect, BudgetInvariant, PTL DEF Spec, SaidNeverGoesBack

(* What the rows of the queue say is true and stays said: the outcomes,    *)
(* the cancellations and the edits, together.                              *)
THEOREM QueueRowsTellTheTruth == QueueAssumption => (Spec => RowsTellTheTruth)
BY OutcomesAreEarned, CancellationsStand, EditsAreKept DEF RowsTellTheTruth
=============================================================================
