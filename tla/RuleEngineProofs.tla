-------------------------- MODULE RuleEngineProofs --------------------------
(***************************************************************************)
(* Proofs about RuleEngine, for any leads, agents, rules, events and       *)
(* number of failures: what a rule does is done once per delivery, no rule *)
(* that matched is lost, no text is repeated, and round robin stays        *)
(* balanced.                                                               *)
(***************************************************************************)
EXTENDS RuleEngine, FiniteSetTheorems, WellFoundedInduction, TLAPS

-----------------------------------------------------------------------------
(* Constants *)

Acts(r) == Rules[r].acts

LEMMA RuleFacts ==
  ASSUME NEW r \in Index
  PROVE  /\ Acts(r) \in Seq(Actions) /\ Len(Acts(r)) \in Nat \ {0} /\ r \in Nat \ {0}
         /\ Rules[r].trigger \in STRING
<1> DEFINE Row == [trigger : STRING, owner : Agent \cup {None}, when : {"any", "unassigned"},
                    hours : BOOLEAN, acts : Seq(Actions) \ {<<>>}]
<1>1. Rules[r] \in Row
  <2>1. Rules \in Seq(Row)
    BY RuleAssumption
  <2> HIDE DEF Row
  <2> QED
    BY <2>1 DEF Index
<1>2. Acts(r) \in Seq(Actions) /\ Acts(r) # <<>>
  BY <1>1 DEF Acts
<1>3. Len(Acts(r)) \in Nat \ {0}
  BY <1>2
<1> QED
  BY <1>1, <1>2, <1>3 DEF Index

LEMMA Smallest ==
  ASSUME NEW S \in SUBSET Nat, S # {}
  PROVE  \E x \in S : \A y \in S : x <= y
<1>1. PICK x \in S : \A y \in S : <<y, x>> \notin OpToRel(<, Nat)
  BY NatLessThanWellFounded, WFMin
<1>2. \A y \in S : ~(y < x)
  BY <1>1 DEF OpToRel
<1> QED
  BY <1>2

LEMMA NextOfIsIn ==
  ASSUME NEW S \in SUBSET Index, S # {}
  PROVE  NextOf(S) \in S
<1>1. S \in SUBSET Nat
  BY DEF Index
<1>2. \E r \in S : \A s \in S : r <= s
  BY <1>1, Smallest
<1> QED
  BY <1>2 DEF NextOf

-----------------------------------------------------------------------------
(* Shapes *)

Kinds == {"event", "execute", "continue", "scan"}
JobFields == {"id", "kind", "trigger", "lead", "rule", "acts", "left", "stalled"}
JobRow(j) ==
  /\ DOMAIN j = JobFields /\ j.id \in Id /\ j.kind \in Kinds /\ j.lead \in Lead
  /\ j.rule \in Index \cup {0} /\ j.acts \in Seq(Actions) /\ j.left \in 1..3 /\ j.stalled \in BOOLEAN
JobWhole(j) ==
  /\ JobRow(j)
  /\ j.kind \in {"execute", "continue"} => j.rule \in Index
  /\ j.kind = "continue" => Len(j.acts) \in 1..Len(Acts(j.rule))

Fields == {"pc", "job", "todo", "set", "rule", "acts", "pick"}
Pcs == {"rule", "log", "act", "write", "announce", "create", "end", "done"}
Working == {"act", "write", "announce", "create"}
Formed(t) ==
  /\ DOMAIN t = Fields
  /\ t.pc \in Pcs /\ JobWhole(t.job) /\ t.todo \in SUBSET Index /\ t.set \in SUBSET Index
  /\ t.job.kind = "execute" => t.todo = {}
TaskWhole(t) ==
  /\ Formed(t) /\ t.pc # "done"
  /\ t.pc \in Working => /\ t.rule \in Index /\ t.rule \notin t.todo
                         /\ t.acts \in Seq(Actions) /\ Len(t.acts) \in 1..Len(Acts(t.rule))
  /\ t.pc = "rule" => t.todo # {}
  /\ t.pc = "end" => t.todo = {}
  /\ t.pc = "write" => t.pick \in Agent

Shape ==
  /\ assignee \in [Lead -> Agent \cup {None}]
  /\ IsFiniteSet(jobs) /\ \A j \in jobs : JobWhole(j)
  /\ task = [w \in Runner |-> task[w]]
  /\ \A w \in Runner : task[w] = Idle \/ TaskWhole(task[w])
  /\ ran \in [Key -> Nat] /\ again \in [Id -> Nat] /\ handled = [i \in Id |-> handled[i]]
  /\ fired \subseteq Event /\ raced \in BOOLEAN /\ moved \in BOOLEAN /\ failures \in 0..MaxFailures

(* What a task, or a job that waits, may yet attempt of a rule: from this   *)
(* action on; at 0, its deferral.                                           *)
Reach(t, r, p) ==
  \/ r \in t.todo
  \/ t.rule = r /\ t.pc = "act" /\ p >= Pos(t)
  \/ t.rule = r /\ t.pc \in {"write", "announce", "create"} /\ p > Pos(t)
ReachJob(j, r, p) ==
  CASE j.kind = "execute" -> j.rule = r /\ p >= 1
    [] j.kind = "continue" -> j.rule = r /\ p >= Pos(j)
    [] OTHER -> Rules[r].trigger = j.trigger

LEMMA KeyFacts ==
  /\ \A i \in Id, r \in Index : \A p : p \in 0..Len(Acts(r)) <=> <<i, r, p>> \in Key
  /\ \A k \in Key : k = <<k[1], k[2], k[3]>> /\ k[1] \in Id /\ k[2] \in Index
                    /\ k[3] \in 0..Len(Acts(k[2]))
<1> DEFINE Box(i, r) == {i} \X {r} \X (0..Len(Acts(r)))
<1>1. \A i, r, j, s, p : <<i, r, p>> \in Box(j, s) <=> i = j /\ r = s /\ p \in 0..Len(Acts(s))
  OBVIOUS
<1>2. \A k, j, s : k \in Box(j, s) =>
        k = <<k[1], k[2], k[3]>> /\ k[1] = j /\ k[2] = s /\ k[3] \in 0..Len(Acts(s))
  OBVIOUS
<1>3. Key = UNION {Box(i, r) : i \in Id, r \in Index}
  BY DEF Key, Acts
<1> HIDE DEF Box
<1>4. \A k : k \in Key <=> \E i \in Id, r \in Index : k \in Box(i, r)
  BY <1>3
<1>5. ASSUME NEW i \in Id, NEW r \in Index, NEW p PROVE p \in 0..Len(Acts(r)) <=> <<i, r, p>> \in Key
  BY <1>1, <1>4
<1> QED
  BY <1>2, <1>4, <1>5

-----------------------------------------------------------------------------
(* From one rule to the next *)

(* u is t but for its place.                                                *)
Follows(u, t) == DOMAIN u = Fields /\ u.job = t.job /\ u.set = t.set

LEMMA EnterCases ==
  ASSUME NEW t, DOMAIN t = Fields
  PROVE  LET u == Enter(t)
             n == NextOf(t.todo)
         IN  /\ Follows(u, t) /\ u.pick = t.pick /\ u.pc = "act"
             /\ u.todo = t.todo \ {n} /\ u.rule = n /\ u.acts = Acts(n)
<1>1. PICK n : n = NextOf(t.todo)
  OBVIOUS
<1>2. Enter(t) = [t EXCEPT !.pc = "act", !.todo = t.todo \ {n}, !.rule = n, !.acts = Acts(n)]
  BY <1>1 DEF Enter, Acts
<1> QED
  BY <1>1, <1>2 DEF Fields, Follows

LEMMA EndRuleCases ==
  ASSUME NEW t, DOMAIN t = Fields
  PROVE  LET u == EndRule(t)
             n == NextOf(t.todo)
         IN  /\ Follows(u, t) /\ u.pick = t.pick
             /\ \/ u.pc = "end" /\ u.todo = t.todo /\ t.job.kind = "execute"
                \/ u.pc = "done" /\ u.todo = t.todo /\ t.todo = {}
                \/ u.pc = "rule" /\ u.todo = t.todo /\ t.todo # {}
                \/ /\ u.pc = "act" /\ t.todo # {}
                   /\ u.todo = t.todo \ {n} /\ u.rule = n /\ u.acts = Acts(n)
<1>1. CASE t.job.kind = "execute"
  <2>1. EndRule(t) = [t EXCEPT !.pc = "end", !.acts = <<>>]
    BY <1>1 DEF EndRule
  <2> QED
    BY <1>1, <2>1 DEF Fields, Follows
<1>2. CASE t.job.kind # "execute" /\ t.todo = {}
  <2>1. EndRule(t) = [t EXCEPT !.pc = "done"]
    BY <1>2 DEF EndRule
  <2> QED
    BY <1>2, <2>1 DEF Fields, Follows
<1>3. CASE t.job.kind # "execute" /\ t.todo # {} /\ Rules[NextOf(t.todo)].hours
  <2>1. EndRule(t) = [t EXCEPT !.pc = "rule", !.rule = 0, !.acts = <<>>]
    BY <1>3 DEF EndRule
  <2> QED
    BY <1>3, <2>1 DEF Fields, Follows
<1>4. CASE t.job.kind # "execute" /\ t.todo # {} /\ ~Rules[NextOf(t.todo)].hours
  <2>1. EndRule(t) = Enter(t)
    BY <1>4 DEF EndRule
  <2> QED
    BY <1>4, <2>1, EnterCases
<1> QED
  BY <1>1, <1>2, <1>3, <1>4

(* A rule has been entered.                                                 *)
LEMMA EnterFacts ==
  ASSUME NEW t, Formed(t), t.todo # {}, NEW u, Follows(u, t), u.pc = "act",
         u.todo = t.todo \ {NextOf(t.todo)}, u.rule = NextOf(t.todo), u.acts = Acts(NextOf(t.todo))
  PROVE  /\ TaskWhole(u)
         /\ \A r \in Index : \A p \in Nat : Reach(u, r, p) => r \in t.todo
         /\ \A r \in t.todo : Reach(u, r, 1)
<1>1. PICK n \in Index : n = NextOf(t.todo) /\ n \in t.todo
  BY NextOfIsIn DEF Formed
<1>2. Acts(n) \in Seq(Actions) /\ Len(Acts(n)) \in Nat \ {0}
  BY RuleFacts
<1>3. u.todo = t.todo \ {n} /\ u.rule = n /\ u.acts = Acts(n)
  BY <1>1
<1>4. Pos(u) = 1
  BY <1>2, <1>3 DEF Pos, Acts
<1>5. TaskWhole(u)
  BY <1>2, <1>3 DEF TaskWhole, Formed, Follows, Working, Pcs
<1>6. \A r \in Index : \A p \in Nat : Reach(u, r, p) => r \in t.todo
  BY <1>1, <1>3 DEF Reach
<1>7. \A r \in t.todo : Reach(u, r, 1)
  BY <1>3, <1>4 DEF Reach
<1> QED
  BY <1>5, <1>6, <1>7

LEMMA EndRuleFacts ==
  ASSUME NEW t, Formed(t)
  PROVE  LET u == EndRule(t)
         IN  /\ Follows(u, t) /\ u.pick = t.pick
             /\ u.pc \in {"end", "done", "rule", "act"}
             /\ u.pc = "done" => t.todo = {} /\ u.todo = {}
             /\ u.pc = "done" \/ TaskWhole(u)
             /\ \A r \in Index : \A p \in Nat : Reach(u, r, p) => r \in t.todo
             /\ \A r \in t.todo : Reach(u, r, 1)
<1>1. PICK u : u = EndRule(t)
  OBVIOUS
<1>2. DOMAIN t = Fields
  BY DEF Formed
<1>3. Follows(u, t) /\ u.pick = t.pick
  BY <1>1, <1>2, EndRuleCases
<1>4. CASE /\ u.pc \in {"end", "done", "rule"} /\ u.todo = t.todo
           /\ u.pc = "done" => t.todo = {}
           /\ u.pc = "rule" => t.todo # {}
           /\ u.pc = "end" => t.job.kind = "execute"
  <2>1. \A r, p : Reach(u, r, p) <=> r \in t.todo
    BY <1>4 DEF Reach
  <2>2. u.pc = "done" \/ TaskWhole(u)
    BY <1>3, <1>4 DEF TaskWhole, Formed, Follows, Working, Pcs
  <2> QED
    BY <1>1, <1>3, <1>4, <2>1, <2>2
<1>5. CASE /\ u.pc = "act" /\ t.todo # {} /\ u.todo = t.todo \ {NextOf(t.todo)}
           /\ u.rule = NextOf(t.todo) /\ u.acts = Acts(NextOf(t.todo))
  BY <1>1, <1>3, <1>5, EnterFacts
<1> QED
  BY <1>1, <1>2, <1>4, <1>5, EndRuleCases

LEMMA NextActionFacts ==
  ASSUME NEW t, TaskWhole(t), t.pc \in Working
  PROVE  LET u == NextAction(t)
         IN  /\ Follows(u, t) /\ u.pick = t.pick
             /\ u.pc \in {"end", "done", "rule", "act"}
             /\ u.pc = "done" => u.todo = {}
             /\ u.pc = "done" \/ TaskWhole(u)
             /\ \A r \in Index : \A p \in Nat : Reach(u, r, p) => r \in t.todo \/ (r = t.rule /\ p > Pos(t))
             /\ \A r \in t.todo : Reach(u, r, 1)
<1>1. /\ Formed(t) /\ t.rule \in Index /\ t.rule \notin t.todo
      /\ t.acts \in Seq(Actions) /\ Len(t.acts) \in 1..Len(Acts(t.rule))
  BY DEF TaskWhole
<1>2. CASE Len(t.acts) = 1
  <2>1. NextAction(t) = EndRule(t)
    BY <1>2 DEF NextAction
  <2> QED
    BY <1>1, <2>1, EndRuleFacts
<1>3. CASE Len(t.acts) # 1
  <2>1. PICK u : u = NextAction(t)
    OBVIOUS
  <2>2. PICK rest : rest = Tail(t.acts)
    OBVIOUS
  <2>3. Len(Acts(t.rule)) \in Nat
    BY <1>1, RuleFacts
  <2>4. rest \in Seq(Actions) /\ Len(rest) = Len(t.acts) - 1
    BY <1>1, <2>2, <2>3
  <2>5. u = [t EXCEPT !.pc = "act", !.acts = rest]
    BY <1>3, <2>1, <2>2 DEF NextAction
  <2>6. /\ Follows(u, t) /\ u.pc = "act" /\ u.todo = t.todo /\ u.rule = t.rule
        /\ u.acts = rest /\ u.pick = t.pick
    BY <1>1, <2>5 DEF Formed, Fields, Follows
  <2>7. Pos(u) = Pos(t) + 1 /\ Pos(t) \in Nat \ {0} /\ Pos(u) \in Nat /\ Len(rest) \in 1..Len(Acts(t.rule))
    <3>1. PICK n \in Nat : n = Len(Acts(t.rule))
      BY <2>3
    <3>2. PICK m \in 1..n : m = Len(t.acts)
      BY <1>1, <3>1
    <3>3. m # 1 /\ Len(rest) = m - 1
      BY <1>3, <2>4, <3>2
    <3>4. Pos(t) = n - m + 1
      BY <3>1, <3>2 DEF Pos, Acts
    <3>5. Pos(u) = n - (m - 1) + 1
      BY <2>6, <3>1, <3>3 DEF Pos, Acts
    <3>6. m \in 1..n /\ n \in Nat /\ m # 1
      BY <3>1, <3>2, <3>3
    <3>7. n - (m - 1) + 1 = (n - m + 1) + 1 /\ n - m + 1 \in Nat \ {0} /\ m - 1 \in 1..n
      BY <3>6
    <3>8. (n - m + 1) + 1 \in Nat
      BY <3>7
    <3>9. Len(rest) \in 1..Len(Acts(t.rule))
      BY <3>1, <3>3, <3>7
    <3> QED
      BY <3>4, <3>5, <3>7, <3>8, <3>9
  <2>8. TaskWhole(u)
    BY <1>1, <2>4, <2>6, <2>7 DEF TaskWhole, Formed, Follows, Working, Pcs
  <2>9. \A r \in Index : \A p \in Nat : Reach(u, r, p) => r \in t.todo \/ (r = t.rule /\ p > Pos(t))
    <3> TAKE r \in Index
    <3> TAKE p \in Nat
    <3>1. p >= Pos(t) + 1 => p > Pos(t)
      BY <2>7
    <3> QED
      BY <2>6, <2>7, <3>1 DEF Reach
  <2> QED
    BY <2>1, <2>6, <2>8, <2>9 DEF Reach
<1> QED
  BY <1>2, <1>3

-----------------------------------------------------------------------------
(* What a step of a runner does *)

(* The task u follows t, and reaches nothing that t did not.                *)
Onward(t, u) ==
  /\ Follows(u, t)
  /\ u.pc = "done" => u.todo = {}
  /\ u.pc = "done" \/ TaskWhole(u)
  /\ \A r \in Index : \A p \in Nat : Reach(u, r, p) => Reach(t, r, p)

LEMMA PosFacts ==
  ASSUME NEW t, TaskWhole(t), t.pc \in Working
  PROVE  Pos(t) \in Nat \ {0} /\ Pos(t) \in 0..Len(Acts(t.rule))
<1>1. t.rule \in Index /\ Len(t.acts) \in 1..Len(Acts(t.rule))
  BY DEF TaskWhole
<1>2. PICK n \in Nat : n = Len(Acts(t.rule))
  BY <1>1, RuleFacts
<1>3. PICK m \in 1..n : m = Len(t.acts)
  BY <1>1, <1>2
<1>4. Pos(t) = n - m + 1
  BY <1>2, <1>3 DEF Pos, Acts
<1>5. n - m + 1 \in Nat \ {0} /\ n - m + 1 \in 0..n
  BY <1>2, <1>3
<1> QED
  BY <1>2, <1>4, <1>5

(* After an action, tried or failed.                                        *)
LEMMA NextOnward ==
  ASSUME NEW t, TaskWhole(t), t.pc \in Working,
         NEW u, u = NextAction(t) \/ u = [NextAction(t) EXCEPT !.pick = None]
  PROVE  /\ Onward(t, u) /\ u.pc \notin {"write", "create"}
         /\ ~Reach(u, t.rule, Pos(t))
         /\ \A r \in Index : Reach(t, r, 1) =>
              Reach(u, r, 1) \/ (t.pc = "act" /\ r = t.rule /\ Pos(t) = 1)
<1>1. PICK v : v = NextAction(t)
  OBVIOUS
<1>2. /\ Follows(v, t) /\ v.pc \in {"end", "done", "rule", "act"}
      /\ v.pc = "done" => v.todo = {}
      /\ v.pc = "done" \/ TaskWhole(v)
      /\ \A r \in Index : \A p \in Nat : Reach(v, r, p) => r \in t.todo \/ (r = t.rule /\ p > Pos(t))
      /\ \A r \in t.todo : Reach(v, r, 1)
  BY <1>1, NextActionFacts
<1>3. /\ DOMAIN u = Fields /\ u.pc = v.pc /\ u.job = v.job /\ u.todo = v.todo /\ u.set = v.set
      /\ u.rule = v.rule /\ u.acts = v.acts
  BY <1>1, <1>2 DEF Follows, Fields
<1>4. Pos(u) = Pos(v)
  BY <1>3 DEF Pos
<1>5. \A r, p : Reach(u, r, p) <=> Reach(v, r, p)
  BY <1>3, <1>4 DEF Reach
<1>6. Follows(u, t)
  BY <1>2, <1>3 DEF Follows
<1>7. u.pc = "done" \/ TaskWhole(u)
  BY <1>2, <1>3 DEF TaskWhole, Formed, Working
<1>8. /\ Pos(t) \in Nat \ {0} /\ t.rule \notin t.todo /\ t.rule \in Index
  BY PosFacts DEF TaskWhole
<1>9. ASSUME NEW r \in Index, NEW p \in Nat, Reach(u, r, p)
      PROVE  Reach(t, r, p)
  <2>1. r \in t.todo \/ (r = t.rule /\ p > Pos(t))
    BY <1>2, <1>5, <1>9
  <2>2. p > Pos(t) => p >= Pos(t)
    BY <1>8
  <2> QED
    BY <2>1, <2>2 DEF Reach, Working
<1>10. ~Reach(u, t.rule, Pos(t))
  <2>1. ~(Pos(t) > Pos(t))
    BY <1>8
  <2> QED
    BY <1>2, <1>5, <1>8, <2>1
<1>11. ASSUME NEW r \in Index, Reach(t, r, 1)
       PROVE  Reach(u, r, 1) \/ (t.pc = "act" /\ r = t.rule /\ Pos(t) = 1)
  <2>1. CASE r \in t.todo
    BY <1>2, <1>5, <2>1
  <2>2. CASE r \notin t.todo
    <3>1. ~(1 > Pos(t)) /\ (1 >= Pos(t) => Pos(t) = 1)
      BY <1>8
    <3> QED
      BY <1>11, <2>2, <3>1 DEF Reach
  <2> QED
    BY <2>1, <2>2
<1> QED
  BY <1>2, <1>3, <1>6, <1>7, <1>9, <1>10, <1>11 DEF Onward

(* The runner has tried the action in hand, and holds on to its task.       *)
LEMMA StayOnward ==
  ASSUME NEW t, TaskWhole(t), t.pc \in Working, NEW u, DOMAIN u = Fields,
         u.job = t.job, u.set = t.set, u.todo = t.todo, u.rule = t.rule, u.acts = t.acts,
         u.pc \in {"write", "announce", "create"},
         u.pc = "write" => u.pick \in Agent
  PROVE  /\ Onward(t, u)
         /\ ~Reach(u, t.rule, Pos(t))
         /\ \A r \in Index : Reach(t, r, 1) =>
              Reach(u, r, 1) \/ (t.pc = "act" /\ r = t.rule /\ Pos(t) = 1)
<1>1. /\ Pos(t) \in Nat \ {0} /\ t.rule \notin t.todo /\ t.rule \in Index
  BY PosFacts DEF TaskWhole
<1>2. Pos(u) = Pos(t)
  BY DEF Pos
<1>3. TaskWhole(u)
  BY DEF TaskWhole, Formed, Working, Pcs
<1>4. ASSUME NEW r \in Index, NEW p \in Nat, Reach(u, r, p)
      PROVE  Reach(t, r, p)
  <2>1. p > Pos(t) => p >= Pos(t)
    BY <1>1
  <2> QED
    BY <1>2, <1>4, <2>1 DEF Reach, Working
<1>5. ~Reach(u, t.rule, Pos(t))
  <2>1. ~(Pos(t) > Pos(t))
    BY <1>1
  <2> QED
    BY <1>1, <1>2, <2>1 DEF Reach
<1>6. ASSUME NEW r \in Index, Reach(t, r, 1)
      PROVE  Reach(u, r, 1) \/ (t.pc = "act" /\ r = t.rule /\ Pos(t) = 1)
  <2>1. ~(1 > Pos(t)) /\ (1 >= Pos(t) => Pos(t) = 1)
    BY <1>1
  <2> QED
    BY <1>6, <2>1 DEF Reach
<1> QED
  BY <1>3, <1>4, <1>5, <1>6 DEF Onward, Follows

(* The runner w goes from its task t to u ...                               *)
Moves(w, t, u) ==
  /\ t = task[w] /\ TaskWhole(t) /\ Onward(t, u)
  /\ task' = [task EXCEPT ![w] = IF u.pc = "done" THEN Idle ELSE u]
  /\ handled' = IF u.pc = "done"
                THEN [handled EXCEPT ![t.job.id] = handled[t.job.id] \cup t.set] ELSE handled
  /\ again' = again /\ fired' = fired /\ failures' \in 0..MaxFailures
(* ... trying one action of a rule, or none, which it does not reach again; *)
(* no other rule that it had to begin is out of its reach ...               *)
Tries(t, u) ==
  \/ ran' = ran /\ \A s \in Index : Reach(t, s, 1) => Reach(u, s, 1)
  \/ \E r \in Index : \E p \in 0..Len(Acts(r)) :
       /\ Reach(t, r, p) /\ ~Reach(u, r, p)
       /\ ran' = [ran EXCEPT ![<<t.job.id, r, p>>] = ran[<<t.job.id, r, p>>] + 1]
       /\ \A s \in Index : Reach(t, s, 1) => Reach(u, s, 1) \/ (s = r /\ p \in {0, 1})
(* ... adding no job, or one for what it leaves ...                         *)
Queues(t, u) ==
  \/ jobs' = jobs
  \/ \E j : /\ jobs' = jobs \cup {j} /\ JobWhole(j) /\ j.id = t.job.id
            /\ \A r \in Index : \A p \in Nat :
                 Rules[r].trigger # "lead.assigned" /\ ReachJob(j, r, p) =>
                   /\ Reach(t, r, p) /\ ~Reach(u, r, p)
                   /\ ran'[<<t.job.id, r, p>>] = ran[<<t.job.id, r, p>>]
(* ... sending no text, or the one it had checked ...                       *)
Texts(w, t, u) ==
  \/ /\ messages' = messages /\ repeated' = repeated
     /\ u.pc = "create" => u.pick.by = w /\ u.pick \notin messages
  \/ /\ t.pc = "create" /\ messages' = messages \cup {t.pick} /\ u.pc # "create"
     /\ repeated' = IF t.pick \in messages THEN repeated \cup {t.pick} ELSE repeated
(* ... and giving the lead to nobody, or to the agent it had chosen.        *)
Assigns(w, t, u) ==
  \/ assignee' = assignee /\ raced' = raced /\ moved' = moved /\ u.pc # "write"
  \/ /\ t.pc # "write" /\ u.pc = "write" /\ u.pick = LeastLoaded
     /\ raced' = (raced \/ \E v \in Runner \ {w} : task[v].pc = "write")
     /\ assignee' = assignee /\ moved' = moved
  \/ /\ t.pc = "write" /\ u.pc # "write" /\ raced' = raced
     /\ assignee' = [assignee EXCEPT ![t.job.lead] = t.pick]
     /\ moved' = (moved \/ assignee[t.job.lead] \notin {None, t.pick})

Advances(w, t, u) ==
  Moves(w, t, u) /\ Tries(t, u) /\ Queues(t, u) /\ Texts(w, t, u) /\ Assigns(w, t, u)

LEMMA TaskOf ==
  ASSUME Shape, NEW w \in Runner, task[w].pc \in Pcs
  PROVE  TaskWhole(task[w])
<1>1. task[w] = Idle \/ TaskWhole(task[w])
  BY DEF Shape
<1>2. Idle.pc \notin Pcs
  BY DEF Idle, Pcs
<1> QED
  BY <1>1, <1>2

LEMMA GoOnMoves ==
  ASSUME Shape, NEW w \in Runner, NEW t, NEW u, t = task[w], TaskWhole(t), Onward(t, u),
         GoOn(w, u), UNCHANGED <<again, fired>>, failures' \in 0..MaxFailures
  PROVE  Moves(w, t, u)
<1>1. u.job = t.job /\ u.set = t.set
  BY DEF Onward, Follows
<1> QED
  BY <1>1 DEF Moves, GoOn

LEMMA StaysMoves ==
  ASSUME Shape, NEW w \in Runner, NEW t, NEW u, t = task[w], TaskWhole(t), Onward(t, u),
         u.pc # "done", task' = [task EXCEPT ![w] = u], UNCHANGED <<again, fired, handled, failures>>
  PROVE  Moves(w, t, u)
BY DEF Moves, Shape

(* LogDeferral, Finish, RunRule: the next rule, or the end.                 *)
LEMMA RunRuleAdvances ==
  ASSUME Shape, NEW w \in Runner, RunRule(w)
  PROVE  \E t, u : Advances(w, t, u)
<1>1. PICK t : t = task[w]
  OBVIOUS
<1>2. t.pc = "rule" /\ t.todo # {} /\ TaskWhole(t)
  BY <1>1, TaskOf DEF RunRule, Pcs
<1>3. PICK u : u = Enter(t)
  OBVIOUS
<1>4. Formed(t) /\ DOMAIN t = Fields
  BY <1>2 DEF TaskWhole, Formed
<1>5. /\ Follows(u, t) /\ u.pc = "act" /\ u.todo = t.todo \ {NextOf(t.todo)}
      /\ u.rule = NextOf(t.todo) /\ u.acts = Acts(NextOf(t.todo))
  BY <1>3, <1>4, EnterCases
<1>6. /\ TaskWhole(u)
      /\ \A r \in Index : \A p \in Nat : Reach(u, r, p) => r \in t.todo
      /\ \A r \in t.todo : Reach(u, r, 1)
  BY <1>2, <1>4, <1>5, EnterFacts
<1>7. Onward(t, u)
  BY <1>5, <1>6 DEF Onward, Reach
<1>8. Moves(w, t, u)
  <2>1. task' = [task EXCEPT ![w] = u]
    BY <1>1, <1>3 DEF RunRule
  <2>2. UNCHANGED <<again, fired, handled, failures>>
    BY DEF RunRule, history
  <2> QED
    BY <1>1, <1>2, <1>5, <1>7, <2>1, <2>2, StaysMoves
<1>9. Tries(t, u)
  BY <1>2, <1>6 DEF Tries, Reach, RunRule
<1>10. Queues(t, u) /\ Texts(w, t, u) /\ Assigns(w, t, u)
  BY <1>5 DEF Queues, Texts, Assigns, RunRule, data
<1> QED
  BY <1>8, <1>9, <1>10 DEF Advances

LEMMA LogDeferralAdvances ==
  ASSUME Shape, NEW w \in Runner, LogDeferral(w)
  PROVE  \E t, u : Advances(w, t, u)
<1>1. PICK t : t = task[w]
  OBVIOUS
<1>2. t.pc = "log" /\ TaskWhole(t)
  BY <1>1, TaskOf DEF LogDeferral, Pcs
<1>3. PICK u : u = EndRule(t)
  OBVIOUS
<1>4. Formed(t)
  BY <1>2 DEF TaskWhole
<1>5. /\ Follows(u, t) /\ u.pc \in {"end", "done", "rule", "act"}
      /\ u.pc = "done" => t.todo = {} /\ u.todo = {}
      /\ u.pc = "done" \/ TaskWhole(u)
      /\ \A r \in Index : \A p \in Nat : Reach(u, r, p) => r \in t.todo
      /\ \A r \in t.todo : Reach(u, r, 1)
  BY <1>3, <1>4, EndRuleFacts
<1>7. Onward(t, u)
  BY <1>5 DEF Onward, Reach
<1>8. Moves(w, t, u)
  <2>1. GoOn(w, u)
    BY <1>1, <1>3 DEF LogDeferral
  <2>2. UNCHANGED <<again, fired>> /\ failures' \in 0..MaxFailures
    BY DEF LogDeferral, Shape
  <2> QED
    BY <1>1, <1>2, <1>7, <2>1, <2>2, GoOnMoves
<1>9. Tries(t, u)
  BY <1>2, <1>5 DEF Tries, Reach, LogDeferral
<1>10. Queues(t, u) /\ Texts(w, t, u) /\ Assigns(w, t, u)
  BY <1>5 DEF Queues, Texts, Assigns, LogDeferral, data
<1> QED
  BY <1>8, <1>9, <1>10 DEF Advances

LEMMA FinishAdvances ==
  ASSUME Shape, NEW w \in Runner, Finish(w)
  PROVE  \E t, u : Advances(w, t, u)
<1>1. PICK t : t = task[w]
  OBVIOUS
<1>2. t.pc = "end" /\ TaskWhole(t)
  BY <1>1, TaskOf DEF Finish, Pcs
<1>3. PICK u : u = [t EXCEPT !.pc = "done"]
  OBVIOUS
<1>4. DOMAIN t = Fields /\ t.todo = {}
  BY <1>2 DEF TaskWhole, Formed
<1>5. Follows(u, t) /\ u.pc = "done" /\ u.todo = {}
  BY <1>3, <1>4 DEF Follows, Fields
<1>6. \A r, p : ~Reach(u, r, p) /\ ~Reach(t, r, p)
  BY <1>2, <1>4, <1>5 DEF Reach
<1>7. Onward(t, u)
  BY <1>5, <1>6 DEF Onward
<1>8. Moves(w, t, u)
  <2>1. GoOn(w, u)
    BY <1>1, <1>3 DEF Finish
  <2>2. UNCHANGED <<again, fired>> /\ failures' \in 0..MaxFailures
    BY DEF Finish, Shape
  <2> QED
    BY <1>1, <1>2, <1>7, <2>1, <2>2, GoOnMoves
<1>9. Tries(t, u)
  BY <1>6 DEF Tries, Finish
<1>10. Queues(t, u) /\ Texts(w, t, u) /\ Assigns(w, t, u)
  BY <1>5 DEF Queues, Texts, Assigns, Finish, data
<1> QED
  BY <1>8, <1>9, <1>10 DEF Advances

LEMMA DeferAdvances ==
  ASSUME Shape, NEW w \in Runner, Defer(w)
  PROVE  \E t, u : Advances(w, t, u)
<1>1. PICK t : t = task[w]
  OBVIOUS
<1>2. t.pc = "rule" /\ t.todo # {} /\ TaskWhole(t)
  BY <1>1, TaskOf DEF Defer, Pcs
<1>3. Formed(t) /\ DOMAIN t = Fields
  BY <1>2 DEF TaskWhole, Formed
<1>4. PICK n \in Index : n = NextOf(t.todo) /\ n \in t.todo
  BY <1>2, <1>3, NextOfIsIn DEF Formed
<1>5. PICK u : u = [t EXCEPT !.pc = "log", !.todo = t.todo \ {n}]
  OBVIOUS
<1>6. u = Deferred(t)
  BY <1>4, <1>5 DEF Deferred
<1>7. Follows(u, t) /\ u.pc = "log" /\ u.todo = t.todo \ {n}
  BY <1>3, <1>5 DEF Follows, Fields
<1>8. \A r, p : /\ Reach(u, r, p) <=> r \in t.todo \ {n}
                /\ Reach(t, r, p) <=> r \in t.todo
  BY <1>2, <1>7 DEF Reach
<1>9. TaskWhole(u)
  BY <1>3, <1>7 DEF TaskWhole, Formed, Follows, Working, Pcs
<1>10. Onward(t, u)
  BY <1>7, <1>8, <1>9 DEF Onward
<1>11. Moves(w, t, u)
  <2>1. task' = [task EXCEPT ![w] = u]
    BY <1>1, <1>6 DEF Defer
  <2>2. UNCHANGED <<again, fired, handled, failures>>
    BY DEF Defer, history
  <2> QED
    BY <1>1, <1>2, <1>7, <1>10, <2>1, <2>2, StaysMoves
<1>12. Tries(t, u)
  <2>1. ran' = [ran EXCEPT ![<<t.job.id, n, 0>>] = ran[<<t.job.id, n, 0>>] + 1]
    BY <1>1, <1>4 DEF Defer, Counted
  <2>2. 0 \in 0..Len(Acts(n))
    BY RuleFacts
  <2> QED
    <3>1. Reach(t, n, 0) /\ ~Reach(u, n, 0)
      BY <1>4, <1>8
    <3>2. \A s \in Index : Reach(t, s, 1) => Reach(u, s, 1) \/ (s = n /\ 0 \in {0, 1})
      BY <1>8
    <3> QED
      BY <2>1, <2>2, <3>1, <3>2 DEF Tries
<1>13. Queues(t, u) /\ Texts(w, t, u) /\ Assigns(w, t, u)
  BY <1>7 DEF Queues, Texts, Assigns, Defer, data
<1> QED
  BY <1>11, <1>12, <1>13 DEF Advances

LEMMA AttemptedTries ==
  ASSUME NEW t, TaskWhole(t), t.pc = "act", Attempted(t), NEW u, ~Reach(u, t.rule, Pos(t)),
         \A r \in Index : Reach(t, r, 1) => Reach(u, r, 1) \/ (r = t.rule /\ Pos(t) = 1)
  PROVE  Tries(t, u)
<1>1. Pos(t) \in Nat \ {0} /\ Pos(t) \in 0..Len(Acts(t.rule))
  BY PosFacts DEF Working
<1>2. t.rule \in Index
  BY DEF TaskWhole, Working
<1>3. Reach(t, t.rule, Pos(t))
  BY <1>1 DEF Reach
<1>4. PICK p \in 0..Len(Acts(t.rule)) : p = Pos(t)
  BY <1>1
<1>5. ran' = [ran EXCEPT ![<<t.job.id, t.rule, p>>] = ran[<<t.job.id, t.rule, p>>] + 1]
  BY <1>4 DEF Attempted, Counted
<1> QED
  BY <1>2, <1>3, <1>4, <1>5 DEF Tries

LEMMA PickAdvances ==
  ASSUME Shape, NEW w \in Runner, Pick(w), LeastLoaded \in Agent
  PROVE  \E t, u : Advances(w, t, u)
<1>1. PICK t : t = task[w]
  OBVIOUS
<1>2. t.pc = "act" /\ TaskWhole(t) /\ Attempted(t)
  BY <1>1, TaskOf DEF Pick, Pcs
<1>3. DOMAIN t = Fields
  BY <1>2 DEF TaskWhole, Formed
<1>4. PICK a \in Agent : a = LeastLoaded
  OBVIOUS
<1>5. PICK u : u = [t EXCEPT !.pc = "write", !.pick = a]
  OBVIOUS
<1>6. /\ DOMAIN u = Fields /\ u.job = t.job /\ u.set = t.set /\ u.todo = t.todo /\ u.rule = t.rule
      /\ u.acts = t.acts /\ u.pc = "write" /\ u.pick = a
  BY <1>3, <1>5 DEF Fields
<1>7. /\ Onward(t, u) /\ ~Reach(u, t.rule, Pos(t))
      /\ \A r \in Index : Reach(t, r, 1) => Reach(u, r, 1) \/ (r = t.rule /\ Pos(t) = 1)
  BY <1>2, <1>6, StayOnward DEF Working
<1>8. Moves(w, t, u)
  <2>1. task' = [task EXCEPT ![w] = u]
    BY <1>1, <1>4, <1>5 DEF Pick
  <2>2. UNCHANGED <<again, fired, handled, failures>>
    BY DEF Pick, history
  <2> QED
    BY <1>1, <1>2, <1>6, <1>7, <2>1, <2>2, StaysMoves
<1>9. Tries(t, u)
  BY <1>2, <1>7, AttemptedTries
<1>10. Queues(t, u) /\ Texts(w, t, u)
  BY <1>6 DEF Queues, Texts, Pick
<1>11. Assigns(w, t, u)
  BY <1>2, <1>4, <1>6 DEF Assigns, Pick
<1> QED
  BY <1>8, <1>9, <1>10, <1>11 DEF Advances

LEMMA AssignAdvances ==
  ASSUME Shape, NEW w \in Runner, Assign(w)
  PROVE  \E t, u : Advances(w, t, u)
<1>1. PICK t : t = task[w]
  OBVIOUS
<1>2. t.pc = "write" /\ TaskWhole(t)
  BY <1>1, TaskOf DEF Assign, Pcs
<1>3. DOMAIN t = Fields
  BY <1>2 DEF TaskWhole, Formed
<1>4. PICK u : u = [t EXCEPT !.pc = "announce", !.pick = None]
  OBVIOUS
<1>5. /\ DOMAIN u = Fields /\ u.job = t.job /\ u.set = t.set /\ u.todo = t.todo /\ u.rule = t.rule
      /\ u.acts = t.acts /\ u.pc = "announce"
  BY <1>3, <1>4 DEF Fields
<1>6. /\ Onward(t, u)
      /\ \A r \in Index : Reach(t, r, 1) => Reach(u, r, 1)
  BY <1>2, <1>5, StayOnward DEF Working
<1>7. Moves(w, t, u)
  <2>1. task' = [task EXCEPT ![w] = u]
    BY <1>1, <1>4 DEF Assign
  <2>2. UNCHANGED <<again, fired, handled, failures>>
    BY DEF Assign, history
  <2> QED
    BY <1>1, <1>2, <1>5, <1>6, <2>1, <2>2, StaysMoves
<1>8. Tries(t, u)
  BY <1>6 DEF Tries, Assign
<1>9. Queues(t, u) /\ Texts(w, t, u)
  BY <1>5 DEF Queues, Texts, Assign
<1>10. Assigns(w, t, u)
  BY <1>1, <1>2, <1>5 DEF Assigns, Assign
<1> QED
  BY <1>7, <1>8, <1>9, <1>10 DEF Advances

LEMMA AssignedIsWhole ==
  ASSUME NEW id \in Id, NEW lead \in Lead, NEW j, j = AssignedJob(id, lead)
  PROVE  JobWhole(j) /\ j.id = id /\ j.kind = "event" /\ j.trigger = "lead.assigned"
<1>1. j = [id |-> id, kind |-> "event", trigger |-> "lead.assigned", lead |-> lead, rule |-> 0,
           acts |-> <<>>, left |-> 3, stalled |-> FALSE]
  BY DEF AssignedJob, Job
<1>2. DOMAIN j = JobFields
  BY <1>1 DEF JobFields
<1>3. j.id = id /\ j.kind = "event" /\ j.trigger = "lead.assigned"
  BY <1>1
<1>4. j.lead = lead /\ j.rule = 0 /\ j.acts = <<>> /\ j.left = 3 /\ j.stalled = FALSE
  BY <1>1
<1>5. j.acts \in Seq(Actions)
  BY <1>4
<1>6. JobRow(j)
  <2>1. j.stalled \in BOOLEAN
    BY <1>4
  <2>2. j.left \in 1..3 /\ j.rule \in Index \cup {0}
    BY <1>4
  <2>3. j.kind \in Kinds /\ j.id \in Id /\ j.lead \in Lead
    BY <1>3, <1>4 DEF Kinds
  <2> QED
    BY <1>2, <1>5, <2>1, <2>2, <2>3 DEF JobRow
<1> QED
  BY <1>3, <1>6 DEF JobWhole

LEMMA ContinueIsWhole ==
  ASSUME NEW id \in Id, NEW lead \in Lead, NEW rule \in Index, NEW acts \in Seq(Actions),
         Len(acts) \in 1..Len(Acts(rule)), NEW j, j = ContinueJob(id, lead, rule, acts)
  PROVE  JobWhole(j) /\ j.id = id /\ j.kind = "continue" /\ j.rule = rule /\ j.acts = acts
<1>1. j = [id |-> id, kind |-> "continue", trigger |-> "none", lead |-> lead, rule |-> rule,
           acts |-> acts, left |-> 1, stalled |-> FALSE]
  BY DEF ContinueJob, Job
<1>2. DOMAIN j = JobFields
  BY <1>1 DEF JobFields
<1>3. j.id = id /\ j.kind = "continue" /\ j.rule = rule /\ j.acts = acts
  BY <1>1
<1>4. j.lead = lead /\ j.left = 1 /\ j.stalled = FALSE
  BY <1>1
<1>5. JobRow(j)
  <2>1. j.stalled \in BOOLEAN
    BY <1>4
  <2>2. j.left \in 1..3 /\ j.rule \in Index \cup {0}
    BY <1>3, <1>4
  <2>3. j.kind \in Kinds /\ j.id \in Id /\ j.lead \in Lead /\ j.acts \in Seq(Actions)
    BY <1>3, <1>4 DEF Kinds
  <2> QED
    BY <1>2, <2>1, <2>2, <2>3 DEF JobRow
<1> QED
  BY <1>3, <1>5 DEF JobWhole

LEMMA AnnounceAdvances ==
  ASSUME Shape, NEW w \in Runner, Announce(w)
  PROVE  \E t, u : Advances(w, t, u)
<1>1. PICK t : t = task[w]
  OBVIOUS
<1>2. t.pc = "announce" /\ TaskWhole(t)
  BY <1>1, TaskOf DEF Announce, Pcs
<1>3. PICK u : u = NextAction(t)
  OBVIOUS
<1>4. /\ Onward(t, u) /\ u.pc \notin {"write", "create"}
      /\ \A r \in Index : Reach(t, r, 1) => Reach(u, r, 1)
  BY <1>2, <1>3, NextOnward DEF Working
<1>5. Moves(w, t, u)
  <2>1. GoOn(w, u)
    BY <1>1, <1>3 DEF Announce
  <2>2. UNCHANGED <<again, fired>> /\ failures' \in 0..MaxFailures
    BY DEF Announce, Shape
  <2> QED
    BY <1>1, <1>2, <1>4, <2>1, <2>2, GoOnMoves
<1>6. Tries(t, u)
  BY <1>4 DEF Tries, Announce
<1>7. Queues(t, u)
  <2>1. PICK j : j = AssignedJob(t.job.id, t.job.lead)
    OBVIOUS
  <2>2. jobs' = jobs \cup {j}
    BY <1>1, <2>1 DEF Announce
  <2>3. JobRow(t.job)
    BY <1>2 DEF TaskWhole, Formed, JobWhole
  <2>4. PICK i \in Id, l \in Lead : i = t.job.id /\ l = t.job.lead
    BY <2>3 DEF JobRow
  <2>5. /\ JobWhole(j) /\ j.id = t.job.id /\ j.kind = "event" /\ j.trigger = "lead.assigned"
    <3>1. j = AssignedJob(i, l)
      BY <2>1, <2>4
    <3>2. JobWhole(j) /\ j.id = i /\ j.kind = "event" /\ j.trigger = "lead.assigned"
      BY <3>1, AssignedIsWhole
    <3> QED
      BY <2>4, <3>2
  <2>6. \A r, p : ReachJob(j, r, p) => Rules[r].trigger = "lead.assigned"
    BY <2>5 DEF ReachJob
  <2> QED
    BY <2>2, <2>5, <2>6 DEF Queues
<1>8. Texts(w, t, u) /\ Assigns(w, t, u)
  BY <1>4 DEF Texts, Assigns, Announce, data
<1> QED
  BY <1>5, <1>6, <1>7, <1>8 DEF Advances

LEMMA WaitAdvances ==
  ASSUME Shape, NEW w \in Runner, Wait(w)
  PROVE  \E t, u : Advances(w, t, u)
<1>1. PICK t : t = task[w]
  OBVIOUS
<1>2. t.pc = "act" /\ TaskWhole(t) /\ Attempted(t)
  BY <1>1, TaskOf DEF Wait, Pcs
<1>3. PICK u : u = EndRule(t)
  OBVIOUS
<1>4. /\ Formed(t) /\ JobRow(t.job) /\ t.rule \in Index /\ t.rule \notin t.todo
      /\ t.acts \in Seq(Actions) /\ Len(t.acts) \in 1..Len(Acts(t.rule))
  BY <1>2 DEF TaskWhole, Formed, JobWhole, Working
<1>5. /\ Follows(u, t) /\ u.pc \in {"end", "done", "rule", "act"}
      /\ u.pc = "done" => t.todo = {} /\ u.todo = {}
      /\ u.pc = "done" \/ TaskWhole(u)
      /\ \A r \in Index : \A p \in Nat : Reach(u, r, p) => r \in t.todo
      /\ \A r \in t.todo : Reach(u, r, 1)
  BY <1>3, <1>4, EndRuleFacts
<1>6. Pos(t) \in Nat \ {0}
  BY <1>2, PosFacts DEF Working
<1>7. /\ Onward(t, u) /\ ~Reach(u, t.rule, Pos(t))
      /\ \A r \in Index : Reach(t, r, 1) => Reach(u, r, 1) \/ (r = t.rule /\ Pos(t) = 1)
  <2>1. Onward(t, u)
    BY <1>5 DEF Onward, Reach
  <2>2. ~Reach(u, t.rule, Pos(t))
    BY <1>4, <1>5, <1>6
  <2>3. ASSUME NEW r \in Index, Reach(t, r, 1)
        PROVE  Reach(u, r, 1) \/ (r = t.rule /\ Pos(t) = 1)
    <3>1. CASE r \in t.todo
      BY <1>5, <3>1
    <3>2. CASE r \notin t.todo
      <4>1. 1 >= Pos(t) => Pos(t) = 1
        BY <1>6
      <4> QED
        BY <1>2, <2>3, <3>2, <4>1 DEF Reach
    <3> QED
      BY <3>1, <3>2
  <2> QED
    BY <2>1, <2>2, <2>3
<1>8. Moves(w, t, u)
  <2>1. GoOn(w, u)
    BY <1>1, <1>3 DEF Wait, Waited
  <2>2. UNCHANGED <<again, fired>> /\ failures' \in 0..MaxFailures
    BY DEF Wait, Shape
  <2> QED
    BY <1>1, <1>2, <1>7, <2>1, <2>2, GoOnMoves
<1>9. Tries(t, u)
  BY <1>2, <1>7, AttemptedTries
<1>10. CASE Len(t.acts) = 1
  <2>1. jobs' = jobs
    BY <1>1, <1>10 DEF Wait
  <2>2. Queues(t, u) /\ Texts(w, t, u) /\ Assigns(w, t, u)
    BY <1>5, <2>1 DEF Queues, Texts, Assigns, Wait, data
  <2> QED
    BY <1>8, <1>9, <2>2 DEF Advances
<1>11. CASE Len(t.acts) # 1
  <2>1. PICK rest : rest = Tail(t.acts)
    OBVIOUS
  <2>2. PICK n \in Nat : n = Len(Acts(t.rule))
    BY <1>4, RuleFacts
  <2>3. PICK m \in 1..n : m = Len(t.acts) /\ m # 1
    BY <1>4, <1>11, <2>2
  <2>4. rest \in Seq(Actions) /\ Len(rest) = m - 1
    BY <1>4, <2>1, <2>2, <2>3
  <2>5. m - 1 \in 1..n
    <3>1. n \in Nat /\ m \in 1..n /\ m # 1
      BY <2>2, <2>3
    <3> QED
      BY <3>1
  <2>6. PICK j : j = ContinueJob(t.job.id, t.job.lead, t.rule, rest)
    OBVIOUS
  <2>7. jobs' = jobs \cup {j}
    BY <1>1, <1>11, <2>1, <2>6 DEF Wait
  <2>8. JobWhole(j) /\ j.id = t.job.id /\ j.kind = "continue" /\ j.rule = t.rule /\ j.acts = rest
    <3>1. PICK i \in Id, l \in Lead : i = t.job.id /\ l = t.job.lead
      BY <1>4 DEF JobRow
    <3>2. PICK r \in Index : r = t.rule
      BY <1>4
    <3>3. Len(rest) \in 1..Len(Acts(r))
      BY <2>2, <2>4, <2>5, <3>2
    <3>4. j = ContinueJob(i, l, r, rest)
      BY <2>6, <3>1, <3>2
    <3>5. JobWhole(j) /\ j.id = i /\ j.kind = "continue" /\ j.rule = r /\ j.acts = rest
      BY <2>4, <3>3, <3>4, ContinueIsWhole
    <3> QED
      BY <3>1, <3>2, <3>5
  <2>9. Pos(j) = Pos(t) + 1
    <3>1. Pos(t) = n - m + 1
      BY <2>2, <2>3 DEF Pos, Acts
    <3>2. Pos(j) = n - (m - 1) + 1
      BY <2>2, <2>4, <2>8 DEF Pos, Acts
    <3>3. n - (m - 1) + 1 = (n - m + 1) + 1
      BY <2>2, <2>3
    <3> QED
      BY <3>1, <3>2, <3>3
  <2>10. ASSUME NEW r \in Index, NEW p \in Nat, ReachJob(j, r, p)
         PROVE  /\ Reach(t, r, p) /\ ~Reach(u, r, p)
                /\ ran'[<<t.job.id, r, p>>] = ran[<<t.job.id, r, p>>]
    <3>1. r = t.rule /\ p >= Pos(t) + 1
      BY <2>8, <2>9, <2>10 DEF ReachJob
    <3>2. p >= Pos(t) /\ p # Pos(t)
      BY <1>6, <3>1
    <3>3. PICK q : q = Pos(t)
      OBVIOUS
    <3>4. ran' = [ran EXCEPT ![<<t.job.id, t.rule, q>>] = ran[<<t.job.id, t.rule, q>>] + 1]
      BY <1>2, <3>3 DEF Attempted, Counted
    <3>5. <<t.job.id, r, p>> # <<t.job.id, t.rule, q>>
      BY <3>2, <3>3
    <3>6. ran \in [Key -> Nat]
      BY DEF Shape
    <3>7. ran'[<<t.job.id, r, p>>] = ran[<<t.job.id, r, p>>]
      <4>1. CASE <<t.job.id, r, p>> \in Key
        BY <3>4, <3>5, <3>6, <4>1
      <4>2. CASE <<t.job.id, r, p>> \notin Key
        BY <3>4, <3>5, <3>6, <4>2
      <4> QED
        BY <4>1, <4>2
    <3> QED
      BY <1>2, <1>4, <1>5, <3>1, <3>2, <3>7 DEF Reach
  <2>11. Queues(t, u)
    BY <2>7, <2>8, <2>10 DEF Queues
  <2>12. Texts(w, t, u) /\ Assigns(w, t, u)
    BY <1>5 DEF Texts, Assigns, Wait, data
  <2> QED
    BY <1>8, <1>9, <2>11, <2>12 DEF Advances
<1> QED
  BY <1>10, <1>11

LEMMA CheckTextAdvances ==
  ASSUME Shape, NEW w \in Runner, CheckText(w)
  PROVE  \E t, u : Advances(w, t, u)
<1>1. PICK t : t = task[w]
  OBVIOUS
<1>2. t.pc = "act" /\ TaskWhole(t) /\ Attempted(t)
  BY <1>1, TaskOf DEF CheckText, Pcs
<1>3. DOMAIN t = Fields
  BY <1>2 DEF TaskWhole, Formed
<1>4. PICK m : m = Text(w, t)
  OBVIOUS
<1>5. UNCHANGED <<again, fired>> /\ failures' \in 0..MaxFailures
  BY DEF CheckText, Shape
<1>6. CASE Recent(m)
  <2>1. PICK u : u = NextAction(t)
    OBVIOUS
  <2>2. GoOn(w, u)
    BY <1>1, <1>4, <1>6, <2>1 DEF CheckText
  <2>3. /\ Onward(t, u) /\ u.pc \notin {"write", "create"} /\ ~Reach(u, t.rule, Pos(t))
        /\ \A r \in Index : Reach(t, r, 1) => Reach(u, r, 1) \/ (r = t.rule /\ Pos(t) = 1)
    BY <1>2, <2>1, NextOnward DEF Working
  <2>4. Moves(w, t, u)
    BY <1>1, <1>2, <1>5, <2>2, <2>3, GoOnMoves
  <2>5. Tries(t, u)
    BY <1>2, <2>3, AttemptedTries
  <2>6. Queues(t, u) /\ Texts(w, t, u) /\ Assigns(w, t, u)
    BY <2>3 DEF Queues, Texts, Assigns, CheckText, data
  <2> QED
    BY <2>4, <2>5, <2>6 DEF Advances
<1>7. CASE ~Recent(m)
  <2>1. PICK u : u = [t EXCEPT !.pc = "create", !.pick = m]
    OBVIOUS
  <2>2. GoOn(w, u)
    BY <1>1, <1>4, <1>7, <2>1 DEF CheckText
  <2>3. /\ DOMAIN u = Fields /\ u.job = t.job /\ u.set = t.set /\ u.todo = t.todo
        /\ u.rule = t.rule /\ u.acts = t.acts /\ u.pc = "create" /\ u.pick = m
    BY <1>3, <2>1 DEF Fields
  <2>4. /\ Onward(t, u) /\ ~Reach(u, t.rule, Pos(t))
        /\ \A r \in Index : Reach(t, r, 1) => Reach(u, r, 1) \/ (r = t.rule /\ Pos(t) = 1)
    BY <1>2, <2>3, StayOnward DEF Working
  <2>5. Moves(w, t, u)
    BY <1>1, <1>2, <1>5, <2>2, <2>4, GoOnMoves
  <2>6. Tries(t, u)
    BY <1>2, <2>4, AttemptedTries
  <2>7. m.by = w /\ SameText(m, m)
    BY <1>4 DEF Text, SameText
  <2>8. m \notin messages
    BY <1>7, <2>7 DEF Recent
  <2>9. Queues(t, u) /\ Texts(w, t, u) /\ Assigns(w, t, u)
    BY <2>3, <2>7, <2>8 DEF Queues, Texts, Assigns, CheckText, data
  <2> QED
    BY <2>5, <2>6, <2>9 DEF Advances
<1> QED
  BY <1>6, <1>7

LEMMA CreateTextAdvances ==
  ASSUME Shape, NEW w \in Runner, CreateText(w)
  PROVE  \E t, u : Advances(w, t, u)
<1>1. PICK t : t = task[w]
  OBVIOUS
<1>2. t.pc = "create" /\ TaskWhole(t)
  BY <1>1, TaskOf DEF CreateText, Pcs
<1>3. PICK u : u = [NextAction(t) EXCEPT !.pick = None]
  OBVIOUS
<1>4. /\ Onward(t, u) /\ u.pc \notin {"write", "create"}
      /\ \A r \in Index : Reach(t, r, 1) => Reach(u, r, 1)
  BY <1>2, <1>3, NextOnward DEF Working
<1>5. Moves(w, t, u)
  <2>1. GoOn(w, u)
    BY <1>1, <1>3 DEF CreateText
  <2>2. UNCHANGED <<again, fired>> /\ failures' \in 0..MaxFailures
    BY DEF CreateText, Shape
  <2> QED
    BY <1>1, <1>2, <1>4, <2>1, <2>2, GoOnMoves
<1>6. Tries(t, u)
  BY <1>4 DEF Tries, CreateText
<1>7. Queues(t, u) /\ Assigns(w, t, u)
  BY <1>4 DEF Queues, Assigns, CreateText
<1>8. Texts(w, t, u)
  BY <1>1, <1>2, <1>4 DEF Texts, CreateText
<1> QED
  BY <1>5, <1>6, <1>7, <1>8 DEF Advances

LEMMA ActionFailsAdvances ==
  ASSUME Shape, NEW w \in Runner, ActionFails(w)
  PROVE  \E t, u : Advances(w, t, u)
<1>1. PICK t : t = task[w]
  OBVIOUS
<1>2. t.pc \in Working /\ TaskWhole(t)
  BY <1>1, TaskOf DEF ActionFails, Pcs, Working
<1>3. PICK u : u = [NextAction(t) EXCEPT !.pick = None]
  OBVIOUS
<1>4. /\ Onward(t, u) /\ u.pc \notin {"write", "create"} /\ ~Reach(u, t.rule, Pos(t))
      /\ \A r \in Index : Reach(t, r, 1) =>
           Reach(u, r, 1) \/ (t.pc = "act" /\ r = t.rule /\ Pos(t) = 1)
  BY <1>2, <1>3, NextOnward
<1>5. Moves(w, t, u)
  <2>1. GoOn(w, u)
    BY <1>1, <1>3 DEF ActionFails
  <2>2. UNCHANGED <<again, fired>> /\ failures' \in 0..MaxFailures
    BY RuleAssumption DEF ActionFails, Shape, Fail
  <2> QED
    BY <1>1, <1>2, <1>4, <2>1, <2>2, GoOnMoves
<1>6. Tries(t, u)
  <2>1. CASE t.pc = "act"
    <3>1. Attempted(t)
      BY <1>1, <2>1 DEF ActionFails
    <3> QED
      BY <1>2, <1>4, <2>1, <3>1, AttemptedTries
  <2>2. CASE t.pc # "act"
    BY <1>1, <1>4, <2>2 DEF Tries, ActionFails
  <2> QED
    BY <2>1, <2>2
<1>7. Queues(t, u) /\ Texts(w, t, u) /\ Assigns(w, t, u)
  BY <1>4 DEF Queues, Texts, Assigns, ActionFails, data
<1> QED
  BY <1>5, <1>6, <1>7 DEF Advances

-----------------------------------------------------------------------------
(* The agent with the fewest leads *)

LEMMA LoadIsNat ==
  ASSUME NEW a
  PROVE  Load(a) \in Nat
<1>1. IsFiniteSet({l \in Lead : assignee[l] = a})
  <2>1. {l \in Lead : assignee[l] = a} \subseteq Lead
    OBVIOUS
  <2> QED
    BY <2>1, RuleAssumption, FS_Subset
<1> QED
  BY <1>1, FS_CardinalityType DEF Load

LEMMA LeastLoadedFacts ==
  LeastLoaded \in Agent /\ \A a \in Agent : Load(LeastLoaded) <= Load(a)
<1> DEFINE places == 1..Len(Agents)
           of == [n \in places |-> Load(Agents[n])]
           loads == {of[n] : n \in places}
           least == {n \in places : \A m \in places : Load(Agents[n]) <= Load(Agents[m])}
<1>1. DOMAIN Agents = places /\ places # {} /\ places \in SUBSET Nat
  <2>1. Agents \in Seq(Agent) /\ Agents # <<>>
    BY RuleAssumption
  <2>2. Len(Agents) \in Nat /\ DOMAIN Agents = 1..Len(Agents)
    BY <2>1
  <2>3. Len(Agents) # 0
    BY <2>1
  <2> QED
    BY <2>2, <2>3
<1>2. \A n \in places : of[n] \in Nat /\ of[n] = Load(Agents[n])
  BY LoadIsNat
<1>3. PICK x \in loads : \A y \in loads : x <= y
  <2>1. loads \in SUBSET Nat /\ loads # {}
    BY <1>1, <1>2
  <2> HIDE DEF loads
  <2> QED
    BY <2>1, Smallest
<1>4. PICK n \in places : \A m \in places : Load(Agents[n]) <= Load(Agents[m])
  BY <1>2, <1>3
<1>5. least # {} /\ least \in SUBSET Nat
  BY <1>1, <1>4
<1>6. PICK i \in least : \A m \in least : i <= m
  <2> HIDE DEF least
  <2> QED
    BY <1>5, Smallest
<1>7. PICK k \in least : k = CHOOSE i2 \in least : \A m \in least : i2 <= m
  BY <1>6
<1>8. LeastLoaded = Agents[k]
  <2>1. LeastLoaded = Agents[CHOOSE i2 \in least : \A m \in least : i2 <= m]
    BY <1>1, Zenon DEF LeastLoaded
  <2> QED
    BY <1>7, <2>1
<1>9. Agent = {Agents[m] : m \in places}
  BY <1>1 DEF Agent, Range
<1>10. k \in places /\ \A m \in places : Load(Agents[k]) <= Load(Agents[m])
  BY <1>7
<1> QED
  BY <1>8, <1>9, <1>10

-----------------------------------------------------------------------------
(* A job is taken in hand *)

Begins(w, j, u) ==
  /\ task[w] = Idle /\ j \in jobs /\ jobs' = jobs \ {j} /\ JobWhole(j)
  /\ DOMAIN u = Fields /\ u.job = j /\ u.pc \notin {"write", "create"}
  /\ u.pc = "done" => u.todo = {}
  /\ u.pc = "done" \/ TaskWhole(u)
  /\ u.set \in SUBSET Index
  /\ \A r \in Index : \A p \in Nat : Reach(u, r, p) => ReachJob(j, r, p)
  /\ \A r \in u.set : Reach(u, r, 1)
  /\ task' = [task EXCEPT ![w] = IF u.pc = "done" THEN Idle ELSE u]
  /\ handled' = IF u.pc = "done"
                THEN [handled EXCEPT ![j.id] = handled[j.id] \cup u.set] ELSE handled
  /\ UNCHANGED <<data, ran, again, fired, failures>>

LEMMA StartBegins ==
  ASSUME Shape, NEW w \in Runner, Start(w)
  PROVE  \E j, u : Begins(w, j, u)
<1>1. PICK j \in jobs :
        /\ jobs' = jobs \ {j}
        /\ CASE j.kind = "continue" -> Begin(w, j, {}, j.rule, j.acts)
             [] j.kind = "execute"  -> Begin(w, j, {}, j.rule, Rules[j.rule].acts)
             [] OTHER -> Begin(w, j, Matching(j.trigger, assignee[j.lead]), 0, <<>>)
  BY DEF Start
<1>2. task[w] = Idle /\ UNCHANGED <<data, ran, again, fired, failures>>
  BY DEF Start
<1>3. JobWhole(j) /\ JobRow(j)
  BY DEF Shape, JobWhole
<1>4. ASSUME NEW u, GoOn(w, u), u.job = j
      PROVE  /\ task' = [task EXCEPT ![w] = IF u.pc = "done" THEN Idle ELSE u]
             /\ handled' = IF u.pc = "done"
                           THEN [handled EXCEPT ![j.id] = handled[j.id] \cup u.set] ELSE handled
  BY <1>4 DEF GoOn
<1>5. ASSUME j.kind \in {"continue", "execute"}
      PROVE  \E u : Begins(w, j, u)
  <2>1. PICK acts : acts = IF j.kind = "continue" THEN j.acts ELSE Acts(j.rule)
    OBVIOUS
  <2>2. j.rule \in Index /\ j.rule # 0
    BY <1>3, <1>5 DEF JobWhole, Index
  <2>3. acts \in Seq(Actions) /\ Len(acts) \in 1..Len(Acts(j.rule)) /\ Len(Acts(j.rule)) \in Nat \ {0}
    <3>1. Acts(j.rule) \in Seq(Actions) /\ Len(Acts(j.rule)) \in Nat \ {0}
      BY <2>2, RuleFacts
    <3>2. CASE j.kind = "continue"
      BY <1>3, <2>1, <3>1, <3>2 DEF JobWhole, JobRow
    <3>3. CASE j.kind # "continue"
      BY <2>1, <3>1, <3>3
    <3> QED
      BY <3>2, <3>3
  <2>4. PICK u : u = [pc |-> "act", job |-> j, todo |-> {}, set |-> {}, rule |-> j.rule,
                      acts |-> acts, pick |-> None]
    OBVIOUS
  <2>5. GoOn(w, u)
    <3>1. Begin(w, j, {}, j.rule, acts)
      BY <1>1, <1>5, <2>1 DEF Acts
    <3> QED
      BY <2>2, <2>4, <3>1 DEF Begin
  <2>6. DOMAIN u = Fields
    BY <2>4 DEF Fields
  <2>7. /\ u.pc = "act" /\ u.job = j /\ u.todo = {} /\ u.set = {} /\ u.rule = j.rule
        /\ u.acts = acts
    BY <2>4
  <2>8. TaskWhole(u)
    BY <1>3, <2>2, <2>3, <2>6, <2>7 DEF TaskWhole, Formed, Pcs, Working
  <2>9. ASSUME NEW r \in Index, NEW p \in Nat, Reach(u, r, p)
        PROVE  ReachJob(j, r, p)
    <3>1. r = j.rule /\ p >= Pos(u)
      BY <2>7, <2>9 DEF Reach
    <3>2. Pos(u) \in Nat \ {0}
      BY <2>7, <2>8, PosFacts DEF Working
    <3>3. CASE j.kind = "continue"
      <4>1. Pos(u) = Pos(j)
        BY <2>1, <2>7, <3>3 DEF Pos
      <4> QED
        BY <3>1, <3>3, <4>1 DEF ReachJob
    <3>4. CASE j.kind = "execute"
      <4>1. p >= 1
        BY <3>1, <3>2
      <4> QED
        BY <3>1, <3>4, <4>1 DEF ReachJob
    <3> QED
      BY <1>5, <3>3, <3>4
  <2> QED
    BY <1>1, <1>2, <1>3, <1>4, <2>5, <2>6, <2>7, <2>8, <2>9 DEF Begins
<1>6. ASSUME j.kind \notin {"continue", "execute"}
      PROVE  \E u : Begins(w, j, u)
  <2>1. PICK M : M = Matching(j.trigger, assignee[j.lead])
    OBVIOUS
  <2>2. M \in SUBSET Index /\ \A r \in M : Rules[r].trigger = j.trigger
    BY <2>1 DEF Matching
  <2>3. PICK t : t = [pc |-> "act", job |-> j, todo |-> M, set |-> M, rule |-> 0,
                      acts |-> <<>>, pick |-> None]
    OBVIOUS
  <2>4. PICK u : u = EndRule(t)
    OBVIOUS
  <2>5. GoOn(w, u)
    <3>1. Begin(w, j, M, 0, <<>>)
      BY <1>1, <1>6, <2>1
    <3> QED
      BY <2>3, <2>4, <3>1 DEF Begin
  <2>6. Formed(t)
    <3>1. DOMAIN t = Fields
      BY <2>3 DEF Fields
    <3>2. t.pc = "act" /\ t.job = j /\ t.todo = M /\ t.set = M
      BY <2>3
    <3> QED
      BY <1>3, <1>6, <2>2, <3>1, <3>2 DEF Formed, Pcs
  <2>7. t.job = j /\ t.todo = M /\ t.set = M
    BY <2>3
  <2>8. /\ Follows(u, t) /\ u.pc \in {"end", "done", "rule", "act"}
        /\ u.pc = "done" => t.todo = {} /\ u.todo = {}
        /\ u.pc = "done" \/ TaskWhole(u)
        /\ \A r \in Index : \A p \in Nat : Reach(u, r, p) => r \in t.todo
        /\ \A r \in t.todo : Reach(u, r, 1)
    BY <2>4, <2>6, EndRuleFacts
  <2>9. \A r \in Index : \A p \in Nat : Reach(u, r, p) => ReachJob(j, r, p)
    BY <1>6, <2>2, <2>7, <2>8 DEF ReachJob
  <2>10. u.job = j /\ DOMAIN u = Fields /\ u.set = M
    BY <2>7, <2>8 DEF Follows
  <2> QED
    BY <1>1, <1>2, <1>3, <1>4, <2>2, <2>5, <2>7, <2>8, <2>9, <2>10 DEF Begins
<1> QED
  BY <1>5, <1>6

-----------------------------------------------------------------------------
(* Jobs that are added, and delivered again *)

LEMMA JobOfIsWhole ==
  ASSUME NEW e \in Event, NEW j, j = JobOf(e)
  PROVE  JobWhole(j) /\ j.id = e.id
<1>1. e.id \in Id /\ e.lead \in Lead /\ e.rule \in Index \cup {0}
      /\ (e.trigger = "workflow.execute" => e.rule \in Index)
  <2>1. e \in [id : Id, trigger : STRING, lead : Lead, rule : Index \cup {0}]
    BY RuleAssumption
  <2>2. e.trigger = "workflow.execute" => e.rule # 0
    BY RuleAssumption
  <2> QED
    BY <2>1, <2>2
<1>2. <<>> \in Seq(Actions)
  OBVIOUS
<1>3. CASE e.trigger = "workflow.execute"
  <2>1. j = [id |-> e.id, kind |-> "execute", trigger |-> e.trigger, lead |-> e.lead, rule |-> e.rule,
             acts |-> <<>>, left |-> 2, stalled |-> FALSE]
    BY <1>3 DEF JobOf, Job
  <2>2. DOMAIN j = JobFields
    BY <2>1 DEF JobFields
  <2>3. /\ j.id = e.id /\ j.kind = "execute" /\ j.lead = e.lead /\ j.rule = e.rule /\ j.acts = <<>>
        /\ j.left = 2 /\ j.stalled = FALSE
    BY <2>1
  <2>4. j.stalled \in BOOLEAN
    BY <2>3
  <2>5. j.left \in 1..3 /\ j.kind \in Kinds /\ j.rule \in Index
    BY <1>1, <1>3, <2>3 DEF Kinds
  <2>6. JobRow(j)
    BY <1>1, <1>2, <2>2, <2>3, <2>4, <2>5 DEF JobRow
  <2> QED
    BY <2>3, <2>5, <2>6 DEF JobWhole
<1>4. CASE e.trigger = "no_response"
  <2>1. j = [id |-> e.id, kind |-> "scan", trigger |-> e.trigger, lead |-> e.lead, rule |-> 0,
             acts |-> <<>>, left |-> 1, stalled |-> FALSE]
    BY <1>4 DEF JobOf, Job
  <2>2. DOMAIN j = JobFields
    BY <2>1 DEF JobFields
  <2>3. /\ j.id = e.id /\ j.kind = "scan" /\ j.lead = e.lead /\ j.rule = 0 /\ j.acts = <<>>
        /\ j.left = 1 /\ j.stalled = FALSE
    BY <2>1
  <2>4. j.stalled \in BOOLEAN
    BY <2>3
  <2>5. j.left \in 1..3 /\ j.kind \in Kinds
    BY <2>3 DEF Kinds
  <2>6. JobRow(j)
    BY <1>1, <1>2, <2>2, <2>3, <2>4, <2>5 DEF JobRow
  <2> QED
    BY <2>3, <2>6 DEF JobWhole
<1>5. CASE e.trigger # "workflow.execute" /\ e.trigger # "no_response"
  <2>1. j = [id |-> e.id, kind |-> "event", trigger |-> e.trigger, lead |-> e.lead, rule |-> 0,
             acts |-> <<>>, left |-> 3, stalled |-> FALSE]
    BY <1>5 DEF JobOf, Job
  <2>2. DOMAIN j = JobFields
    BY <2>1 DEF JobFields
  <2>3. /\ j.id = e.id /\ j.kind = "event" /\ j.lead = e.lead /\ j.rule = 0 /\ j.acts = <<>>
        /\ j.left = 3 /\ j.stalled = FALSE
    BY <2>1
  <2>4. j.stalled \in BOOLEAN
    BY <2>3
  <2>5. j.left \in 1..3 /\ j.kind \in Kinds
    BY <2>3 DEF Kinds
  <2>6. JobRow(j)
    BY <1>1, <1>2, <2>2, <2>3, <2>4, <2>5 DEF JobRow
  <2> QED
    BY <2>3, <2>6 DEF JobWhole
<1> QED
  BY <1>3, <1>4, <1>5

(* The job of t goes back for another attempt, or has none left.            *)
Throws(w, t) ==
  /\ t = task[w] /\ TaskWhole(t) /\ task' = [task EXCEPT ![w] = Idle]
  /\ \/ /\ \E j : jobs' = jobs \cup {j} /\ JobWhole(j) /\ j.id = t.job.id
        /\ again' = [again EXCEPT ![t.job.id] = again[t.job.id] + 1]
     \/ jobs' = jobs /\ again' = again
  /\ UNCHANGED <<data, ran, handled, fired>> /\ failures' \in 0..MaxFailures

LEMMA ThrowThrows ==
  ASSUME Shape, NEW w \in Runner, Throw(w)
  PROVE  \E t : Throws(w, t)
<1>1. PICK t : t = task[w]
  OBVIOUS
<1>2. t.pc \in Pcs /\ TaskWhole(t)
  <2>1. t.pc \in {"rule", "log", "end"}
    BY <1>1 DEF Throw, CanThrow
  <2> QED
    BY <1>1, <2>1, TaskOf DEF Pcs
<1>3. task' = [task EXCEPT ![w] = Idle] /\ UNCHANGED <<data, ran, handled, fired>>
  BY DEF Throw, history
<1>4. failures' \in 0..MaxFailures
  BY RuleAssumption DEF Throw, Fail, Shape
<1>5. JobWhole(t.job) /\ JobRow(t.job)
  BY <1>2 DEF TaskWhole, Formed, JobWhole
<1>6. CASE AttemptsLeft(t.job)
  <2>1. PICK n : n = t.job.left - 1
    OBVIOUS
  <2>2. PICK j : j = [t.job EXCEPT !.left = n]
    OBVIOUS
  <2>3. jobs' = jobs \cup {j} /\ again' = [again EXCEPT ![t.job.id] = again[t.job.id] + 1]
    BY <1>1, <1>6, <2>1, <2>2 DEF Throw, Redelivered
  <2>4. n \in 1..3
    BY <1>5, <1>6, <2>1 DEF JobRow, AttemptsLeft
  <2>5. DOMAIN j = JobFields
    BY <1>5, <2>2 DEF JobRow
  <2>6. /\ j.id = t.job.id /\ j.kind = t.job.kind /\ j.lead = t.job.lead /\ j.rule = t.job.rule
        /\ j.acts = t.job.acts /\ j.left = n /\ j.stalled = t.job.stalled
    BY <1>5, <2>2 DEF JobRow, JobFields
  <2>7. JobWhole(j)
    BY <1>5, <2>4, <2>5, <2>6 DEF JobRow, JobWhole
  <2>8. \E j2 : jobs' = jobs \cup {j2} /\ JobWhole(j2) /\ j2.id = t.job.id
    BY <2>3, <2>6, <2>7
  <2> QED
    BY <1>1, <1>2, <1>3, <1>4, <2>3, <2>8 DEF Throws
<1>7. CASE ~AttemptsLeft(t.job)
  <2>1. jobs' = jobs /\ again' = again
    BY <1>1, <1>7 DEF Throw
  <2> QED
    BY <1>1, <1>2, <1>3, <1>4, <2>1 DEF Throws
<1> QED
  BY <1>6, <1>7

(* Of the jobs in hand some come back, as new deliveries.                   *)
Stall(back) ==
  /\ back \subseteq Lost /\ IsFiniteSet(back) /\ \A j \in back : JobWhole(j)
  /\ task' = [w \in Runner |-> Idle]
  /\ jobs' = jobs \cup {[j EXCEPT !.stalled = TRUE] : j \in back}
  /\ again' = [i \in Id |-> again[i] + Cardinality({j \in back : j.id = i})]
  /\ UNCHANGED <<data, ran, handled, fired>> /\ failures' \in 0..MaxFailures

LEMMA RunnerIsFinite == IsFiniteSet(Runner)
<1>1. IsFiniteSet({"lead"}) /\ IsFiniteSet({"workflow"}) /\ IsFiniteSet({"cron"})
  BY FS_Singleton
<1>2. IsFiniteSet({"lead"} \cup {"workflow"})
  BY <1>1, FS_Union
<1>3. IsFiniteSet(({"lead"} \cup {"workflow"}) \cup {"cron"})
  BY <1>1, <1>2, FS_Union
<1>4. Runner = ({"lead"} \cup {"workflow"}) \cup {"cron"}
  BY DEF Runner
<1> QED
  BY <1>3, <1>4

LEMMA CrashStalls ==
  ASSUME Shape, Crash
  PROVE  \E back : Stall(back)
<1>1. PICK back : back = {j \in Lost : j.kind # "scan" /\ ~j.stalled}
  OBVIOUS
<1>2. Lost = {task[w].job : w \in {v \in Runner : task[v] # Idle}}
  BY DEF Lost
<1>3. \A j \in back : JobWhole(j)
  BY <1>1, <1>2 DEF Shape, TaskWhole, Formed
<1>4. IsFiniteSet(back)
  <2>1. IsFiniteSet(Runner)
    BY RunnerIsFinite
  <2> DEFINE busy == {v \in Runner : task[v] # Idle}
             f == [v \in busy |-> task[v].job]
  <2>2. IsFiniteSet(busy)
    BY <2>1, FS_Subset
  <2>3. Lost = {f[v] : v \in busy}
    BY <1>2
  <2>4. IsFiniteSet({f[v] : v \in busy})
    <3>1. f \in Surjection(busy, {f[v] : v \in busy})
      BY DEF Surjection
    <3> HIDE DEF f, busy
    <3> QED
      BY <2>2, <3>1, FS_Surjection
  <2>5. back \subseteq Lost
    BY <1>1
  <2> HIDE DEF f, busy
  <2> QED
    BY <2>3, <2>4, <2>5, FS_Subset
<1>5. /\ task' = [w \in Runner |-> Idle]
      /\ jobs' = jobs \cup {[j EXCEPT !.stalled = TRUE] : j \in back}
      /\ again' = [i \in Id |-> again[i] + Cardinality({j \in back : j.id = i})]
  BY <1>1 DEF Crash
<1>6. UNCHANGED <<data, ran, handled, fired>> /\ failures' \in 0..MaxFailures
  BY RuleAssumption DEF Crash, Fail, Shape, history
<1> QED
  BY <1>1, <1>3, <1>4, <1>5, <1>6 DEF Stall

LEMMA StalledIsWhole ==
  ASSUME NEW j, JobWhole(j), NEW k, k = [j EXCEPT !.stalled = TRUE]
  PROVE  JobWhole(k) /\ k.id = j.id /\ k.kind = j.kind /\ k.rule = j.rule
         /\ k.acts = j.acts /\ k.trigger = j.trigger
<1>1. JobRow(j)
  BY DEF JobWhole
<1>2. DOMAIN k = JobFields
  BY <1>1 DEF JobRow
<1>3. /\ k.id = j.id /\ k.kind = j.kind /\ k.lead = j.lead /\ k.rule = j.rule
      /\ k.acts = j.acts /\ k.left = j.left /\ k.stalled = TRUE /\ k.trigger = j.trigger
  BY <1>1 DEF JobRow, JobFields
<1>4. k.stalled \in BOOLEAN
  BY <1>3
<1>5. JobRow(k)
  BY <1>1, <1>2, <1>3, <1>4 DEF JobRow
<1> QED
  BY <1>3, <1>5 DEF JobWhole

-----------------------------------------------------------------------------
(* The state keeps its shape *)

LEMMA InitShape ==
  ASSUME Init
  PROVE  Shape
<1>1. IsFiniteSet(jobs) /\ jobs = {}
  BY FS_EmptySet DEF Init
<1>2. assignee \in [Lead -> Agent \cup {None}] /\ task = [w \in Runner |-> task[w]]
      /\ \A w \in Runner : task[w] = Idle
  BY DEF Init
<1>3. ran \in [Key -> Nat] /\ again \in [Id -> Nat] /\ handled = [i \in Id |-> handled[i]]
      /\ fired \subseteq Event
  BY DEF Init
<1>4. raced \in BOOLEAN /\ moved \in BOOLEAN
  BY DEF Init
<1>5. failures \in 0..MaxFailures
  BY RuleAssumption DEF Init
<1> QED
  BY <1>1, <1>2, <1>3, <1>4, <1>5 DEF Shape

LEMMA StepCases ==
  ASSUME Shape, NEW w \in Runner, Step(w)
  PROVE  (\E j, u : Begins(w, j, u)) \/ (\E t, u : Advances(w, t, u)) \/ (\E t : Throws(w, t))
<1>1. CASE Start(w)
  BY <1>1, StartBegins
<1>2. CASE RunRule(w)
  BY <1>2, RunRuleAdvances
<1>3. CASE Defer(w)
  BY <1>3, DeferAdvances
<1>4. CASE LogDeferral(w)
  BY <1>4, LogDeferralAdvances
<1>5. CASE Wait(w)
  BY <1>5, WaitAdvances
<1>6. CASE Pick(w)
  BY <1>6, PickAdvances, LeastLoadedFacts
<1>7. CASE Assign(w)
  BY <1>7, AssignAdvances
<1>8. CASE Announce(w)
  BY <1>8, AnnounceAdvances
<1>9. CASE CheckText(w)
  BY <1>9, CheckTextAdvances
<1>10. CASE CreateText(w)
  BY <1>10, CreateTextAdvances
<1>11. CASE Finish(w)
  BY <1>11, FinishAdvances
<1>12. CASE ActionFails(w)
  BY <1>12, ActionFailsAdvances
<1>13. CASE Throw(w)
  BY <1>13, ThrowThrows
<1> QED
  BY <1>1, <1>2, <1>3, <1>4, <1>5, <1>6, <1>7, <1>8, <1>9, <1>10, <1>11, <1>12, <1>13 DEF Step

LEMMA TaskShape ==
  ASSUME Shape, NEW w \in Runner, NEW u, u = Idle \/ TaskWhole(u),
         task' = [task EXCEPT ![w] = u]
  PROVE  task' = [v \in Runner |-> task'[v]] /\ \A v \in Runner : task'[v] = Idle \/ TaskWhole(task'[v])
<1>1. task = [v \in Runner |-> task[v]]
  BY DEF Shape
<1>2. task'[w] = u /\ \A v \in Runner \ {w} : task'[v] = task[v]
  BY <1>1
<1>3. \A v \in Runner : task[v] = Idle \/ TaskWhole(task[v])
  BY DEF Shape
<1>4. task' = [v \in Runner |-> task'[v]]
  BY <1>1
<1> QED
  BY <1>2, <1>3, <1>4

LEMMA AdvancesShape ==
  ASSUME Shape, NEW w \in Runner, NEW t, NEW u, Advances(w, t, u)
  PROVE  Shape'
<1>1. Moves(w, t, u) /\ Tries(t, u) /\ Queues(t, u) /\ Assigns(w, t, u)
  BY DEF Advances
<1>2. TaskWhole(t) /\ JobRow(t.job) /\ Onward(t, u)
  BY <1>1 DEF Moves, TaskWhole, Formed, JobWhole
<1>3. task' = [v \in Runner |-> task'[v]] /\ \A v \in Runner : task'[v] = Idle \/ TaskWhole(task'[v])
  <2>1. PICK x : x = IF u.pc = "done" THEN Idle ELSE u
    OBVIOUS
  <2>2. x = Idle \/ TaskWhole(x)
    BY <1>2, <2>1 DEF Onward
  <2>3. task' = [task EXCEPT ![w] = x]
    BY <1>1, <2>1 DEF Moves
  <2> QED
    BY <2>2, <2>3, TaskShape
<1>4. IsFiniteSet(jobs)' /\ \A j \in jobs' : JobWhole(j)
  <2>1. CASE jobs' = jobs
    BY <2>1 DEF Shape
  <2>2. ASSUME NEW j, jobs' = jobs \cup {j}, JobWhole(j)
        PROVE  IsFiniteSet(jobs)' /\ \A k \in jobs' : JobWhole(k)
    <3>1. IsFiniteSet(jobs \cup {j})
      BY FS_AddElement DEF Shape
    <3> QED
      BY <2>2, <3>1 DEF Shape
  <2> QED
    BY <1>1, <2>1, <2>2 DEF Queues
<1>5. ran' \in [Key -> Nat]
  <2>1. ASSUME NEW r \in Index, NEW p \in 0..Len(Acts(r)),
               ran' = [ran EXCEPT ![<<t.job.id, r, p>>] = ran[<<t.job.id, r, p>>] + 1]
        PROVE  ran' \in [Key -> Nat]
    <3>1. PICK k \in Key : k = <<t.job.id, r, p>>
      BY <1>2, KeyFacts DEF JobRow
    <3>2. ran' = [ran EXCEPT ![k] = ran[k] + 1] /\ ran[k] \in Nat
      BY <2>1, <3>1 DEF Shape
    <3>3. PICK n \in Nat : n = ran[k] + 1
      BY <3>2
    <3>4. ran' = [ran EXCEPT ![k] = n]
      BY <3>2, <3>3
    <3> QED
      BY <3>4 DEF Shape
  <2> QED
    BY <1>1, <2>1 DEF Tries, Shape
<1>6. assignee' \in [Lead -> Agent \cup {None}]
  <2>1. t.pc = "write" => t.pick \in Agent
    BY <1>2 DEF TaskWhole
  <2> QED
    BY <1>1, <2>1 DEF Assigns, Shape
<1>7. raced' \in BOOLEAN /\ moved' \in BOOLEAN
  BY <1>1, Zenon DEF Assigns, Shape
<1>8. handled' = [i \in Id |-> handled'[i]]
  BY <1>1 DEF Moves, Shape
<1>9. again' \in [Id -> Nat] /\ fired' \subseteq Event /\ failures' \in 0..MaxFailures
  BY <1>1 DEF Moves, Shape
<1> QED
  BY <1>3, <1>4, <1>5, <1>6, <1>7, <1>8, <1>9 DEF Shape

LEMMA ShapeIsKept ==
  ASSUME Shape, [Next]_vars
  PROVE  Shape'
<1>1. ASSUME NEW e \in Event, Fire(e)
      PROVE  Shape'
  <2>1. PICK j : j = JobOf(e)
    OBVIOUS
  <2>2. JobWhole(j) /\ jobs' = jobs \cup {j} /\ fired' = fired \cup {e}
    BY <1>1, <2>1, JobOfIsWhole DEF Fire
  <2>3. IsFiniteSet(jobs \cup {j})
    BY FS_AddElement DEF Shape
  <2>4. UNCHANGED <<data, task, ran, again, handled, failures>>
    BY <1>1 DEF Fire
  <2> QED
    BY <2>2, <2>3, <2>4 DEF Shape, data
<1>2. ASSUME NEW w \in Runner, NEW j, NEW u, Begins(w, j, u)
      PROVE  Shape'
  <2>1. PICK x : x = IF u.pc = "done" THEN Idle ELSE u
    OBVIOUS
  <2>2. x = Idle \/ TaskWhole(x)
    BY <1>2, <2>1 DEF Begins
  <2>3. task' = [task EXCEPT ![w] = x]
    BY <1>2, <2>1 DEF Begins
  <2>4. task' = [v \in Runner |-> task'[v]] /\ \A v \in Runner : task'[v] = Idle \/ TaskWhole(task'[v])
    BY <2>2, <2>3, TaskShape
  <2>5. IsFiniteSet(jobs \ {j}) /\ jobs' = jobs \ {j}
    BY <1>2, FS_RemoveElement DEF Shape, Begins
  <2>6. handled' = [i \in Id |-> handled'[i]]
    BY <1>2 DEF Begins, Shape
  <2>7. UNCHANGED <<data, ran, again, fired, failures>>
    BY <1>2 DEF Begins
  <2> QED
    BY <2>4, <2>5, <2>6, <2>7 DEF Shape, data
<1>3. ASSUME NEW w \in Runner, NEW t, Throws(w, t)
      PROVE  Shape'
  <2>1. task' = [v \in Runner |-> task'[v]] /\ \A v \in Runner : task'[v] = Idle \/ TaskWhole(task'[v])
    BY <1>3, TaskShape DEF Throws
  <2>2. UNCHANGED <<data, ran, handled, fired>> /\ failures' \in 0..MaxFailures
    BY <1>3 DEF Throws
  <2>3. CASE jobs' = jobs /\ again' = again
    BY <2>1, <2>2, <2>3 DEF Shape, data
  <2>4. ASSUME NEW j, jobs' = jobs \cup {j}, JobWhole(j),
               again' = [again EXCEPT ![t.job.id] = again[t.job.id] + 1]
        PROVE  Shape'
    <3>1. IsFiniteSet(jobs \cup {j})
      BY FS_AddElement DEF Shape
    <3>2. t.job.id \in Id
      BY <1>3 DEF Throws, TaskWhole, Formed, JobWhole, JobRow
    <3>3. PICK n \in Nat : n = again[t.job.id] + 1
      BY <3>2 DEF Shape
    <3>4. again' \in [Id -> Nat]
      BY <2>4, <3>3 DEF Shape
    <3> QED
      BY <2>1, <2>2, <2>4, <3>1, <3>4 DEF Shape, data
  <2> QED
    BY <1>3, <2>3, <2>4 DEF Throws
<1>4. ASSUME NEW back, Stall(back)
      PROVE  Shape'
  <2> DEFINE f == [j \in back |-> [j EXCEPT !.stalled = TRUE]]
             new == {f[j] : j \in back}
  <2>1. IsFiniteSet(back) /\ \A j \in back : JobWhole(j)
    BY <1>4 DEF Stall
  <2>2. jobs' = jobs \cup new
    BY <1>4 DEF Stall
  <2>3. IsFiniteSet(new)
    <3>1. f \in Surjection(back, new)
      BY DEF Surjection
    <3> HIDE DEF f, new
    <3> QED
      BY <2>1, <3>1, FS_Surjection
  <2>4. \A k \in new : JobWhole(k)
    <3> TAKE k \in new
    <3>1. PICK j \in back : k = [j EXCEPT !.stalled = TRUE]
      OBVIOUS
    <3> QED
      BY <2>1, <3>1, StalledIsWhole
  <2>5. IsFiniteSet(jobs \cup new)
    <3> HIDE DEF new
    <3> QED
      BY <2>3, FS_Union DEF Shape
  <2>6. again' \in [Id -> Nat]
    <3>1. \A i \in Id : Cardinality({j \in back : j.id = i}) \in Nat
      <4> TAKE i \in Id
      <4>1. IsFiniteSet({j \in back : j.id = i})
        BY <2>1, FS_Subset
      <4> QED
        BY <4>1, FS_CardinalityType
    <3>2. PICK c : c = [i \in Id |-> Cardinality({j \in back : j.id = i})]
      OBVIOUS
    <3>3. again' = [i \in Id |-> again[i] + c[i]] /\ \A i \in Id : c[i] \in Nat /\ again[i] \in Nat
      BY <1>4, <3>1, <3>2 DEF Stall, Shape
    <3> QED
      BY <3>3
  <2>7. task' = [w \in Runner |-> task'[w]] /\ \A w \in Runner : task'[w] = Idle
    BY <1>4 DEF Stall
  <2>8. UNCHANGED <<data, ran, handled, fired>> /\ failures' \in 0..MaxFailures
    BY <1>4 DEF Stall
  <2> HIDE DEF new
  <2> QED
    BY <2>2, <2>4, <2>5, <2>6, <2>7, <2>8 DEF Shape, data
<1>5. CASE FiveMinutes
  BY <1>5 DEF FiveMinutes, Shape, history
<1>6. CASE UNCHANGED vars
  BY <1>6 DEF vars, Shape
<1>7. CASE \E w \in Runner : Step(w)
  BY <1>2, <1>3, <1>7, StepCases, AdvancesShape
<1>8. CASE Crash
  BY <1>4, <1>8, CrashStalls
<1> QED
  BY <1>1, <1>5, <1>6, <1>7, <1>8 DEF Next

\* Whatever fails and is delivered again, the jobs, the tasks in hand and what is
\* counted keep their types: the job processors and RuleEngineService.
THEOREM RuleEngineTypeCorrect == Spec => []TypeOK
<1>1. Init => Shape
  BY InitShape
<1>2. Shape /\ [Next]_vars => Shape'
  BY ShapeIsKept
<1>3. Shape => TypeOK
  <2> SUFFICES ASSUME Shape PROVE TypeOK
    OBVIOUS
  <2>1. \A j \in jobs : j.id \in Id /\ j.lead \in Lead /\ j.left \in 1..3 /\ j.rule \in Index \cup {0}
    BY DEF Shape, JobWhole, JobRow
  <2>2. \A w \in Runner : /\ task[w].pc \in {"idle", "rule", "log", "act", "write", "announce", "create", "end"}
                          /\ task[w].pc = "write" => task[w].pick \in Agent
    <3> TAKE w \in Runner
    <3>1. CASE task[w] = Idle
      BY <3>1 DEF Idle
    <3>2. CASE TaskWhole(task[w])
      BY <3>2 DEF TaskWhole, Formed, Pcs
    <3> QED
      BY <3>1, <3>2 DEF Shape
  <2> QED
    BY <2>1, <2>2 DEF TypeOK, Shape
<1> QED
  BY <1>1, <1>2, <1>3, PTL DEF Spec

-----------------------------------------------------------------------------
(* Once per delivery *)

(* An action of a rule is attempted, or some job or task may yet attempt it. *)
JobsFor(k) == {j \in jobs : j.id = k[1] /\ ReachJob(j, k[2], k[3])}
TasksFor(k) == {w \in Runner : task[w] # Idle /\ task[w].job.id = k[1] /\ Reach(task[w], k[2], k[3])}
Plain(k) == Rules[k[2]].trigger # "lead.assigned"
OnceFor(k) == ran[k] + Cardinality(JobsFor(k)) + Cardinality(TasksFor(k)) <= 1 + again[k[1]]
OnceAtMost == \A k \in Key : Plain(k) => OnceFor(k)

(* Only events that were fired have jobs, tasks and attempts.               *)
OnlyFired ==
  /\ \A j \in jobs : \E e \in fired : e.id = j.id
  /\ \A w \in Runner : task[w] # Idle => \E e \in fired : e.id = task[w].job.id
  /\ \A k \in Key : ran[k] > 0 => \E e \in fired : e.id = k[1]

LEMMA SetsAreFinite ==
  ASSUME Shape, NEW k
  PROVE  /\ IsFiniteSet(JobsFor(k)) /\ Cardinality(JobsFor(k)) \in Nat
         /\ IsFiniteSet(TasksFor(k)) /\ Cardinality(TasksFor(k)) \in Nat
<1>1. JobsFor(k) \subseteq jobs /\ TasksFor(k) \subseteq Runner
  BY DEF JobsFor, TasksFor
<1>2. IsFiniteSet(JobsFor(k)) /\ IsFiniteSet(TasksFor(k))
  BY <1>1, FS_Subset, RunnerIsFinite DEF Shape
<1> QED
  BY <1>2, FS_CardinalityType

(* What is left is passed on, or turned into an attempt.                    *)
Passes(n, m, J, K, T, U) ==
  \E w, j :
    \/ m = n + 1 /\ K \subseteq J /\ w \in T /\ U = T \ {w}
    \/ m = n /\ K \subseteq J \cup {j} /\ w \in T /\ U = T \ {w}
    \/ m = n /\ j \in J /\ K = J \ {j} /\ U \subseteq T \cup {w}
    \/ m = n /\ K \subseteq J /\ U \subseteq T

LEMMA PassedOn ==
  ASSUME NEW n \in Nat, NEW m \in Nat, NEW a \in Nat,
         NEW J, NEW K, NEW T, NEW U, IsFiniteSet(J), IsFiniteSet(T),
         n + Cardinality(J) + Cardinality(T) <= 1 + a, Passes(n, m, J, K, T, U)
  PROVE  m + Cardinality(K) + Cardinality(U) <= 1 + a
<1>0. PICK w, j :
        \/ m = n + 1 /\ K \subseteq J /\ w \in T /\ U = T \ {w}
        \/ m = n /\ K \subseteq J \cup {j} /\ w \in T /\ U = T \ {w}
        \/ m = n /\ j \in J /\ K = J \ {j} /\ U \subseteq T \cup {w}
        \/ m = n /\ K \subseteq J /\ U \subseteq T
  BY DEF Passes
<1>1. PICK x \in Nat : x = Cardinality(J)
  BY FS_CardinalityType
<1>2. PICK y \in Nat : y = Cardinality(T)
  BY FS_CardinalityType
<1>3. IsFiniteSet(J \cup {j}) /\ IsFiniteSet(T \cup {w})
  BY FS_AddElement
<1>4. PICK p \in Nat : p = Cardinality(J \cup {j}) /\ p <= x + 1
  <2>1. Cardinality(J \cup {j}) \in Nat
    BY <1>3, FS_CardinalityType
  <2>2. Cardinality(J \cup {j}) = x \/ Cardinality(J \cup {j}) = x + 1
    BY <1>1, FS_AddElement
  <2> QED
    BY <1>1, <2>1, <2>2
<1>5. PICK q \in Nat : q = Cardinality(T \cup {w}) /\ q <= y + 1
  <2>1. Cardinality(T \cup {w}) \in Nat
    BY <1>3, FS_CardinalityType
  <2>2. Cardinality(T \cup {w}) = y \/ Cardinality(T \cup {w}) = y + 1
    BY <1>2, FS_AddElement
  <2> QED
    BY <1>2, <2>1, <2>2
<1>6. w \in T => y >= 1 /\ Cardinality(T \ {w}) = y - 1
  <2>1. w \in T => Cardinality(T \ {w}) = y - 1 /\ Cardinality(T \ {w}) \in Nat
    BY <1>2, FS_RemoveElement, FS_CardinalityType
  <2> QED
    BY <1>2, <2>1
<1>7. j \in J => x >= 1 /\ Cardinality(J \ {j}) = x - 1
  <2>1. j \in J => Cardinality(J \ {j}) = x - 1 /\ Cardinality(J \ {j}) \in Nat
    BY <1>1, FS_RemoveElement, FS_CardinalityType
  <2> QED
    BY <1>1, <2>1
<1>8. /\ K \subseteq J => Cardinality(K) \in Nat /\ Cardinality(K) <= x
      /\ K \subseteq J \cup {j} => Cardinality(K) \in Nat /\ Cardinality(K) <= p
      /\ U \subseteq T => Cardinality(U) \in Nat /\ Cardinality(U) <= y
      /\ U \subseteq T \cup {w} => Cardinality(U) \in Nat /\ Cardinality(U) <= q
  <2>1. K \subseteq J => Cardinality(K) \in Nat /\ Cardinality(K) <= x
    BY <1>1, FS_Subset, FS_CardinalityType
  <2>2. K \subseteq J \cup {j} => Cardinality(K) \in Nat /\ Cardinality(K) <= p
    BY <1>3, <1>4, FS_Subset, FS_CardinalityType
  <2>3. U \subseteq T => Cardinality(U) \in Nat /\ Cardinality(U) <= y
    BY <1>2, FS_Subset, FS_CardinalityType
  <2>4. U \subseteq T \cup {w} => Cardinality(U) \in Nat /\ Cardinality(U) <= q
    BY <1>3, <1>5, FS_Subset, FS_CardinalityType
  <2> QED
    BY <2>1, <2>2, <2>3, <2>4
<1>9. n + x + y <= 1 + a
  BY <1>1, <1>2
<1>10. PICK c : c = Cardinality(K)
  OBVIOUS
<1>11. PICK d : d = Cardinality(U)
  OBVIOUS
<1>12. CASE m = n + 1 /\ K \subseteq J /\ w \in T /\ U = T \ {w}
  <2>1. c \in Nat /\ c <= x /\ d = y - 1 /\ m = n + 1
    BY <1>6, <1>8, <1>10, <1>11, <1>12
  <2>2. m + c + d <= 1 + a
    BY <1>9, <2>1
  <2> QED
    BY <1>10, <1>11, <2>2
<1>13. CASE m = n /\ K \subseteq J \cup {j} /\ w \in T /\ U = T \ {w}
  <2>1. c \in Nat /\ c <= p /\ d = y - 1 /\ m = n
    BY <1>6, <1>8, <1>10, <1>11, <1>13
  <2>2. m + c + d <= 1 + a
    BY <1>4, <1>9, <2>1
  <2> QED
    BY <1>10, <1>11, <2>2
<1>14. CASE m = n /\ j \in J /\ K = J \ {j} /\ U \subseteq T \cup {w}
  <2>1. c = x - 1 /\ d \in Nat /\ d <= q /\ m = n
    BY <1>7, <1>8, <1>10, <1>11, <1>14
  <2>2. m + c + d <= 1 + a
    BY <1>5, <1>9, <2>1
  <2> QED
    BY <1>10, <1>11, <2>2
<1>15. CASE m = n /\ K \subseteq J /\ U \subseteq T
  <2>1. c \in Nat /\ c <= x /\ d \in Nat /\ d <= y /\ m = n
    BY <1>8, <1>10, <1>11, <1>15
  <2>2. m + c + d <= 1 + a
    BY <1>9, <2>1
  <2> QED
    BY <1>10, <1>11, <2>2
<1> QED
  BY <1>0, <1>12, <1>13, <1>14, <1>15

LEMMA AdvancesOnce ==
  ASSUME Shape, NEW w \in Runner, NEW t, NEW u, Advances(w, t, u), NEW k \in Key, Plain(k), OnceFor(k)
  PROVE  OnceFor(k)'
<1>1. Moves(w, t, u) /\ Tries(t, u) /\ Queues(t, u)
  BY DEF Advances
<1>2. TaskWhole(t) /\ t = task[w] /\ t # Idle /\ u.job = t.job /\ t.job.id \in Id
  <2>1. Idle.pc = "idle"
    BY DEF Idle
  <2> QED
    BY <1>1, <2>1 DEF Moves, Onward, Follows, TaskWhole, Formed, Pcs, JobWhole, JobRow
<1>3. PICK i \in Id, r \in Index, p \in Nat : k = <<i, r, p>> /\ p \in 0..Len(Acts(r))
  BY KeyFacts, RuleFacts
<1>4. p \in Nat
  BY <1>3, RuleFacts
<1>5. k[1] = i /\ k[2] = r /\ k[3] = p
  BY <1>3
<1>6. TasksFor(k)' = TasksFor(k) \/ (w \in TasksFor(k) /\ TasksFor(k)' = TasksFor(k) \ {w})
  <2>1. \A v \in Runner \ {w} : task'[v] = task[v]
    BY <1>1 DEF Moves, Shape
  <2>2. task'[w] = IF u.pc = "done" THEN Idle ELSE u
    BY <1>1 DEF Moves, Shape
  <2>3. task'[w] # Idle => u.pc # "done" /\ task'[w] = u
    BY <2>2
  <2>4. task'[w] # Idle /\ Reach(u, r, p) => Reach(t, r, p)
    BY <1>1, <1>4 DEF Moves, Onward
  <2>5. TasksFor(k)' = {v \in Runner : task'[v] # Idle /\ task'[v].job.id = i /\ Reach(task'[v], r, p)}
    BY <1>5 DEF TasksFor
  <2>6. TasksFor(k) = {v \in Runner : task[v] # Idle /\ task[v].job.id = i /\ Reach(task[v], r, p)}
    BY <1>5 DEF TasksFor
  <2>7. \A v \in Runner \ {w} : v \in TasksFor(k)' <=> v \in TasksFor(k)
    BY <2>1, <2>5, <2>6
  <2>8. w \in TasksFor(k)' => w \in TasksFor(k)
    BY <1>2, <2>3, <2>4, <2>5, <2>6
  <2>9. TasksFor(k)' \subseteq Runner /\ TasksFor(k) \subseteq Runner
    BY <2>5, <2>6
  <2> QED
    BY <2>7, <2>8, <2>9
<1>7. i = t.job.id /\ Reach(t, r, p) /\ ~Reach(u, r, p)
        => w \in TasksFor(k) /\ TasksFor(k)' = TasksFor(k) \ {w}
  <2> SUFFICES ASSUME i = t.job.id, Reach(t, r, p), ~Reach(u, r, p)
               PROVE  w \in TasksFor(k) /\ TasksFor(k)' = TasksFor(k) \ {w}
    OBVIOUS
  <2>1. w \in TasksFor(k)
    BY <1>2, <1>5 DEF TasksFor
  <2>2. task'[w] = IF u.pc = "done" THEN Idle ELSE u
    BY <1>1 DEF Moves, Shape
  <2>3. w \notin TasksFor(k)'
    BY <1>5, <2>2 DEF TasksFor
  <2> QED
    BY <1>6, <2>1, <2>3
<1>8. again' = again /\ again[i] \in Nat /\ ran[k] \in Nat
  BY <1>1, <1>3 DEF Moves, Shape
<1>9. IsFiniteSet(JobsFor(k)) /\ IsFiniteSet(TasksFor(k))
  BY SetsAreFinite
<1>10. ran[k] + Cardinality(JobsFor(k)) + Cardinality(TasksFor(k)) <= 1 + again[i]
  BY <1>5 DEF OnceFor
<1>11. JobsFor(k)' = {j \in jobs' : j.id = i /\ ReachJob(j, r, p)}
  BY <1>5 DEF JobsFor
<1>12. JobsFor(k) = {j \in jobs : j.id = i /\ ReachJob(j, r, p)}
  BY <1>5 DEF JobsFor
<1>13. (ran'[k] = ran[k] + 1 /\ i = t.job.id /\ Reach(t, r, p) /\ ~Reach(u, r, p)) \/ ran'[k] = ran[k]
  <2>1. CASE ran' = ran
    BY <2>1
  <2>2. ASSUME NEW s \in Index, NEW q \in 0..Len(Acts(s)), Reach(t, s, q), ~Reach(u, s, q),
               ran' = [ran EXCEPT ![<<t.job.id, s, q>>] = ran[<<t.job.id, s, q>>] + 1]
        PROVE  (ran'[k] = ran[k] + 1 /\ i = t.job.id /\ Reach(t, r, p) /\ ~Reach(u, r, p)) \/ ran'[k] = ran[k]
    <3>1. CASE k = <<t.job.id, s, q>>
      <4>1. i = t.job.id /\ r = s /\ p = q
        BY <1>3, <3>1
      <4>2. ran'[k] = ran[k] + 1
        BY <2>2, <3>1 DEF Shape
      <4> QED
        BY <2>2, <4>1, <4>2
    <3>2. CASE k # <<t.job.id, s, q>>
      BY <2>2, <3>2 DEF Shape
    <3> QED
      BY <3>1, <3>2
  <2> QED
    BY <1>1, <2>1, <2>2 DEF Tries
<1>14. \/ JobsFor(k)' \subseteq JobsFor(k)
       \/ /\ \E j : JobsFor(k)' \subseteq JobsFor(k) \cup {j}
          /\ ran'[k] = ran[k] /\ i = t.job.id /\ Reach(t, r, p) /\ ~Reach(u, r, p)
  <2>1. CASE jobs' = jobs
    BY <1>11, <1>12, <2>1
  <2>2. ASSUME NEW j, jobs' = jobs \cup {j}, j.id = t.job.id,
               ReachJob(j, r, p) => /\ Reach(t, r, p) /\ ~Reach(u, r, p)
                                    /\ ran'[<<t.job.id, r, p>>] = ran[<<t.job.id, r, p>>]
        PROVE  \/ JobsFor(k)' \subseteq JobsFor(k)
               \/ /\ \E j2 : JobsFor(k)' \subseteq JobsFor(k) \cup {j2}
                  /\ ran'[k] = ran[k] /\ i = t.job.id /\ Reach(t, r, p) /\ ~Reach(u, r, p)
    <3>1. CASE i = t.job.id /\ ReachJob(j, r, p)
      <4>1. JobsFor(k)' \subseteq JobsFor(k) \cup {j}
        BY <1>11, <1>12, <2>2
      <4>2. ran'[k] = ran[k]
        BY <1>3, <2>2, <3>1
      <4> QED
        BY <2>2, <3>1, <4>1, <4>2
    <3>2. CASE ~(i = t.job.id /\ ReachJob(j, r, p))
      <4>1. JobsFor(k)' \subseteq JobsFor(k)
        BY <1>11, <1>12, <2>2, <3>2
      <4> QED
        BY <4>1
    <3> QED
      BY <3>1, <3>2
  <2>3. Rules[r].trigger # "lead.assigned"
    BY <1>5 DEF Plain
  <2>4. ASSUME NEW j, jobs' = jobs \cup {j}, j.id = t.job.id,
               \A s \in Index : \A q \in Nat :
                 Rules[s].trigger # "lead.assigned" /\ ReachJob(j, s, q) =>
                   /\ Reach(t, s, q) /\ ~Reach(u, s, q)
                   /\ ran'[<<t.job.id, s, q>>] = ran[<<t.job.id, s, q>>]
        PROVE  ReachJob(j, r, p) => /\ Reach(t, r, p) /\ ~Reach(u, r, p)
                                    /\ ran'[<<t.job.id, r, p>>] = ran[<<t.job.id, r, p>>]
    BY <1>4, <2>3, <2>4
  <2>5. CASE \E j : /\ jobs' = jobs \cup {j} /\ JobWhole(j) /\ j.id = t.job.id
                    /\ \A s \in Index : \A q \in Nat :
                         Rules[s].trigger # "lead.assigned" /\ ReachJob(j, s, q) =>
                           /\ Reach(t, s, q) /\ ~Reach(u, s, q)
                           /\ ran'[<<t.job.id, s, q>>] = ran[<<t.job.id, s, q>>]
    <3>1. PICK j : /\ jobs' = jobs \cup {j} /\ j.id = t.job.id
                    /\ \A s \in Index : \A q \in Nat :
                         Rules[s].trigger # "lead.assigned" /\ ReachJob(j, s, q) =>
                           /\ Reach(t, s, q) /\ ~Reach(u, s, q)
                           /\ ran'[<<t.job.id, s, q>>] = ran[<<t.job.id, s, q>>]
      BY <2>5
    <3>2. ReachJob(j, r, p) => /\ Reach(t, r, p) /\ ~Reach(u, r, p)
                               /\ ran'[<<t.job.id, r, p>>] = ran[<<t.job.id, r, p>>]
      BY <1>4, <2>3, <3>1
    <3> QED
      BY <2>2, <3>1, <3>2
  <2> QED
    BY <1>1, <2>1, <2>5 DEF Queues
<1>15. PICK m \in Nat : m = ran'[k]
  BY <1>8, <1>13
<1>16. PICK K, U : K = JobsFor(k)' /\ U = TasksFor(k)'
  OBVIOUS
<1>17. m + Cardinality(K) + Cardinality(U) <= 1 + again[i]
  <2>1. PICK J, T : J = JobsFor(k) /\ T = TasksFor(k)
    OBVIOUS
  <2>2. U = T \/ (w \in T /\ U = T \ {w})
    BY <1>6, <1>16, <2>1
  <2>3. \/ m = ran[k] + 1 /\ K \subseteq J /\ w \in T /\ U = T \ {w}
        \/ (\E j : m = ran[k] /\ K \subseteq J \cup {j} /\ w \in T /\ U = T \ {w})
        \/ m = ran[k] /\ K \subseteq J /\ U \subseteq T
    <3>1. CASE ran'[k] = ran[k] + 1 /\ ran'[k] # ran[k]
      BY <1>7, <1>13, <1>14, <1>15, <1>16, <2>1, <3>1
    <3>2. CASE ran'[k] = ran[k]
      BY <1>7, <1>14, <1>15, <1>16, <2>1, <2>2, <3>2
    <3>3. ran'[k] = ran[k] + 1 => ran'[k] # ran[k]
      BY <1>8
    <3> QED
      BY <1>13, <3>1, <3>2, <3>3
  <2>4. IsFiniteSet(J) /\ IsFiniteSet(T) /\ ran[k] + Cardinality(J) + Cardinality(T) <= 1 + again[i]
    BY <1>9, <1>10, <2>1
  <2>5. PICK n \in Nat, a \in Nat : n = ran[k] /\ a = again[i]
    BY <1>8
  <2>6. n + Cardinality(J) + Cardinality(T) <= 1 + a
    BY <2>4, <2>5
  <2>7. Passes(n, m, J, K, T, U)
    BY <2>3, <2>5 DEF Passes
  <2>8. m + Cardinality(K) + Cardinality(U) <= 1 + a
    BY <1>15, <2>4, <2>6, <2>7, PassedOn
  <2> QED
    BY <2>5, <2>8
<1> QED
  BY <1>5, <1>8, <1>15, <1>16, <1>17 DEF OnceFor

LEMMA BeginsOnce ==
  ASSUME Shape, NEW w \in Runner, NEW j, NEW u, Begins(w, j, u), NEW k \in Key, OnceFor(k)
  PROVE  OnceFor(k)'
<1>1. PICK i \in Id, r \in Index, p \in Nat : k = <<i, r, p>> /\ p \in 0..Len(Acts(r))
  BY KeyFacts, RuleFacts
<1>2. p \in Nat
  BY <1>1, RuleFacts
<1>3. k[1] = i /\ k[2] = r /\ k[3] = p
  BY <1>1
<1>4. /\ JobsFor(k)' = {x \in jobs' : x.id = i /\ ReachJob(x, r, p)}
      /\ JobsFor(k) = {x \in jobs : x.id = i /\ ReachJob(x, r, p)}
  BY <1>3 DEF JobsFor
<1>5. /\ TasksFor(k)' = {v \in Runner : task'[v] # Idle /\ task'[v].job.id = i /\ Reach(task'[v], r, p)}
      /\ TasksFor(k) = {v \in Runner : task[v] # Idle /\ task[v].job.id = i /\ Reach(task[v], r, p)}
  BY <1>3 DEF TasksFor
<1>6. /\ j \in jobs /\ jobs' = jobs \ {j} /\ u.job = j /\ ran' = ran /\ again' = again
      /\ Reach(u, r, p) => ReachJob(j, r, p)
  BY <1>2 DEF Begins
<1>7. /\ \A v \in Runner \ {w} : task'[v] = task[v]
      /\ task'[w] # Idle => task'[w] = u
  BY DEF Begins, Shape
<1>8. TasksFor(k)' \subseteq TasksFor(k) \cup {w}
  BY <1>5, <1>7
<1>9. CASE j \in JobsFor(k)
  <2>1. JobsFor(k)' = JobsFor(k) \ {j}
    BY <1>4, <1>6
  <2> QED
    <3>1. PICK n \in Nat, a \in Nat : n = ran[k] /\ a = again[i]
      BY <1>1 DEF Shape
    <3>2. PICK J, T, K, U : J = JobsFor(k) /\ T = TasksFor(k) /\ K = JobsFor(k)' /\ U = TasksFor(k)'
      OBVIOUS
    <3>3. IsFiniteSet(J) /\ IsFiniteSet(T)
      BY <3>2, SetsAreFinite
    <3>4. n + Cardinality(J) + Cardinality(T) <= 1 + a
      BY <1>3, <3>1, <3>2 DEF OnceFor
    <3>5. Passes(n, n, J, K, T, U)
      BY <1>8, <1>9, <2>1, <3>2 DEF Passes
    <3>6. n + Cardinality(K) + Cardinality(U) <= 1 + a
      BY <3>3, <3>4, <3>5, PassedOn
    <3> QED
      BY <1>3, <1>6, <3>1, <3>2, <3>6 DEF OnceFor
<1>10. CASE j \notin JobsFor(k)
  <2>1. JobsFor(k)' \subseteq JobsFor(k)
    BY <1>4, <1>6
  <2>2. w \notin TasksFor(k)'
    BY <1>4, <1>5, <1>6, <1>7, <1>10
  <2>3. TasksFor(k)' \subseteq TasksFor(k)
    BY <1>8, <2>2
  <2> QED
    <3>1. PICK n \in Nat, a \in Nat : n = ran[k] /\ a = again[i]
      BY <1>1 DEF Shape
    <3>2. PICK J, T, K, U : J = JobsFor(k) /\ T = TasksFor(k) /\ K = JobsFor(k)' /\ U = TasksFor(k)'
      OBVIOUS
    <3>3. IsFiniteSet(J) /\ IsFiniteSet(T)
      BY <3>2, SetsAreFinite
    <3>4. n + Cardinality(J) + Cardinality(T) <= 1 + a
      BY <1>3, <3>1, <3>2 DEF OnceFor
    <3>5. Passes(n, n, J, K, T, U)
      BY <2>1, <2>3, <3>2 DEF Passes
    <3>6. n + Cardinality(K) + Cardinality(U) <= 1 + a
      BY <3>3, <3>4, <3>5, PassedOn
    <3> QED
      BY <1>3, <1>6, <3>1, <3>2, <3>6 DEF OnceFor
<1> QED
  BY <1>9, <1>10

(* No more jobs are added than deliveries.                                  *)
LEMMA MoreDeliveries ==
  ASSUME NEW n \in Nat, NEW a \in Nat, NEW b \in Nat, NEW c \in Nat,
         NEW J, NEW K, NEW N, NEW T, NEW U, IsFiniteSet(J), IsFiniteSet(T), IsFiniteSet(N),
         Cardinality(N) <= c, b = a + c, K \subseteq J \cup N, U \subseteq T,
         n + Cardinality(J) + Cardinality(T) <= 1 + a
  PROVE  n + Cardinality(K) + Cardinality(U) <= 1 + b
<1>1. PICK x \in Nat : x = Cardinality(J)
  BY FS_CardinalityType
<1>2. PICK y \in Nat : y = Cardinality(T)
  BY FS_CardinalityType
<1>3. PICK z \in Nat : z = Cardinality(N)
  BY FS_CardinalityType
<1>4. IsFiniteSet(J \cup N) /\ Cardinality(J \cup N) \in Nat /\ Cardinality(J \cup N) <= x + z
  <2>1. IsFiniteSet(J \cup N) /\ IsFiniteSet(J \cap N)
    BY FS_Union, FS_Intersection
  <2>2. Cardinality(J \cup N) = x + z - Cardinality(J \cap N)
    BY <1>1, <1>3, FS_Union
  <2>3. Cardinality(J \cup N) \in Nat /\ Cardinality(J \cap N) \in Nat
    BY <2>1, FS_CardinalityType
  <2> QED
    BY <2>1, <2>2, <2>3
<1>5. PICK m \in Nat : m = Cardinality(J \cup N) /\ m <= x + z
  BY <1>4
<1>6. PICK d \in Nat : d = Cardinality(K) /\ d <= m
  BY <1>4, <1>5, FS_Subset, FS_CardinalityType
<1>7. PICK e \in Nat : e = Cardinality(U) /\ e <= y
  BY <1>2, FS_Subset, FS_CardinalityType
<1>8. n + x + y <= 1 + a /\ z <= c
  BY <1>1, <1>2, <1>3
<1>9. n + d + e <= 1 + b
  BY <1>5, <1>6, <1>7, <1>8
<1> QED
  BY <1>6, <1>7, <1>9

LEMMA ThrowsOnce ==
  ASSUME Shape, NEW w \in Runner, NEW t, Throws(w, t), NEW k \in Key, OnceFor(k)
  PROVE  OnceFor(k)'
<1>1. PICK i \in Id, r \in Index, p \in Nat : k = <<i, r, p>> /\ p \in 0..Len(Acts(r))
  BY KeyFacts, RuleFacts
<1>3. k[1] = i /\ k[2] = r /\ k[3] = p
  BY <1>1
<1>4. /\ JobsFor(k)' = {x \in jobs' : x.id = i /\ ReachJob(x, r, p)}
      /\ JobsFor(k) = {x \in jobs : x.id = i /\ ReachJob(x, r, p)}
  BY <1>3 DEF JobsFor
<1>5. /\ TasksFor(k)' = {v \in Runner : task'[v] # Idle /\ task'[v].job.id = i /\ Reach(task'[v], r, p)}
      /\ TasksFor(k) = {v \in Runner : task[v] # Idle /\ task[v].job.id = i /\ Reach(task[v], r, p)}
  BY <1>3 DEF TasksFor
<1>6. TasksFor(k)' \subseteq TasksFor(k)
  <2>1. task'[w] = Idle /\ \A v \in Runner \ {w} : task'[v] = task[v]
    BY DEF Throws, Shape
  <2> QED
    BY <1>5, <2>1
<1>7. ran' = ran
  BY DEF Throws
<1>8. \E c \in Nat : \E N : /\ IsFiniteSet(N) /\ Cardinality(N) <= c /\ again'[i] = again[i] + c
                        /\ JobsFor(k)' \subseteq JobsFor(k) \cup N
  <2>1. again[i] \in Nat
    BY <1>1 DEF Shape
  <2>2. IsFiniteSet({}) /\ Cardinality({}) = 0
    BY FS_EmptySet
  <2>3. CASE JobsFor(k)' \subseteq JobsFor(k) /\ again'[i] = again[i]
    <3>1. Cardinality({}) <= 0 /\ again'[i] = again[i] + 0 /\ 0 \in Nat
      BY <2>1, <2>2, <2>3
    <3>2. JobsFor(k)' \subseteq JobsFor(k) \cup {}
      BY <2>3
    <3> QED
      BY <2>2, <3>1, <3>2
  <2>4. CASE jobs' = jobs /\ again' = again
    BY <1>4, <2>3, <2>4
  <2>5. ASSUME NEW j, jobs' = jobs \cup {j}, j.id = t.job.id,
               again' = [again EXCEPT ![t.job.id] = again[t.job.id] + 1]
        PROVE  \E c \in Nat : \E N : /\ IsFiniteSet(N) /\ Cardinality(N) <= c /\ again'[i] = again[i] + c
                                 /\ JobsFor(k)' \subseteq JobsFor(k) \cup N
    <3>1. CASE i = t.job.id
      <4>1. IsFiniteSet({j}) /\ Cardinality({j}) = 1
        BY FS_Singleton
      <4>2. Cardinality({j}) <= 1 /\ 1 \in Nat
        BY <4>1
      <4>3. again'[i] = again[i] + 1
        BY <1>1, <2>5, <3>1 DEF Shape
      <4>4. JobsFor(k)' \subseteq JobsFor(k) \cup {j}
        BY <1>4, <2>5
      <4> QED
        BY <4>1, <4>2, <4>3, <4>4
    <3>2. CASE i # t.job.id
      <4>1. again'[i] = again[i]
        BY <1>1, <2>5, <3>2 DEF Shape
      <4>2. JobsFor(k)' \subseteq JobsFor(k)
        BY <1>4, <2>5, <3>2
      <4> QED
        BY <2>3, <4>1, <4>2
    <3> QED
      BY <3>1, <3>2
  <2> QED
    BY <2>4, <2>5 DEF Throws
<1>9a. PICK c \in Nat :
          \E N : /\ IsFiniteSet(N) /\ Cardinality(N) <= c /\ again'[i] = again[i] + c
                 /\ JobsFor(k)' \subseteq JobsFor(k) \cup N
  BY <1>8
<1>9. PICK N : /\ IsFiniteSet(N) /\ Cardinality(N) <= c /\ again'[i] = again[i] + c
               /\ JobsFor(k)' \subseteq JobsFor(k) \cup N
  BY <1>9a
<1>10. PICK n \in Nat, a \in Nat : n = ran[k] /\ a = again[i]
  BY <1>1 DEF Shape
<1>11. PICK b \in Nat : b = again'[i] /\ b = a + c
  BY <1>9, <1>10
<1>12. PICK J, T, K, U : J = JobsFor(k) /\ T = TasksFor(k) /\ K = JobsFor(k)' /\ U = TasksFor(k)'
  OBVIOUS
<1>13. IsFiniteSet(J) /\ IsFiniteSet(T)
  BY <1>12, SetsAreFinite
<1>14. n + Cardinality(J) + Cardinality(T) <= 1 + a
  BY <1>3, <1>10, <1>12 DEF OnceFor
<1>15. n + Cardinality(K) + Cardinality(U) <= 1 + b
  BY <1>6, <1>9, <1>11, <1>12, <1>13, <1>14, MoreDeliveries
<1> QED
  BY <1>3, <1>7, <1>10, <1>11, <1>12, <1>15 DEF OnceFor

LEMMA StallOnce ==
  ASSUME Shape, NEW back, Stall(back), NEW k \in Key, OnceFor(k)
  PROVE  OnceFor(k)'
<1>1. PICK i \in Id, r \in Index, p \in Nat : k = <<i, r, p>> /\ p \in 0..Len(Acts(r))
  BY KeyFacts, RuleFacts
<1>3. k[1] = i /\ k[2] = r /\ k[3] = p
  BY <1>1
<1>4. /\ JobsFor(k)' = {x \in jobs' : x.id = i /\ ReachJob(x, r, p)}
      /\ JobsFor(k) = {x \in jobs : x.id = i /\ ReachJob(x, r, p)}
  BY <1>3 DEF JobsFor
<1>5. TasksFor(k)' \subseteq TasksFor(k)
  <2>1. \A v \in Runner : task'[v] = Idle
    BY DEF Stall
  <2>2. TasksFor(k)' = {v \in Runner : task'[v] # Idle /\ task'[v].job.id = i /\ Reach(task'[v], r, p)}
    BY <1>3 DEF TasksFor
  <2> QED
    BY <2>1, <2>2
<1>6. ran' = ran
  BY DEF Stall
<1> DEFINE mine == {j \in back : j.id = i}
           f == [j \in mine |-> [j EXCEPT !.stalled = TRUE]]
           new == {f[j] : j \in mine}
<1>7. IsFiniteSet(mine) /\ Cardinality(mine) \in Nat
  <2>1. IsFiniteSet(mine)
    BY FS_Subset DEF Stall
  <2> HIDE DEF mine
  <2> QED
    BY <2>1, FS_CardinalityType
<1>8. IsFiniteSet(new) /\ Cardinality(new) <= Cardinality(mine)
  <2>1. f \in Surjection(mine, new)
    BY DEF Surjection
  <2> HIDE DEF f, new, mine
  <2> QED
    BY <1>7, <2>1, FS_Surjection
<1>9. JobsFor(k)' \subseteq JobsFor(k) \cup new
  <2> SUFFICES ASSUME NEW x \in jobs', x.id = i, ReachJob(x, r, p), x \notin jobs
               PROVE  x \in new
    BY <1>4
  <2>1. PICK j \in back : x = [j EXCEPT !.stalled = TRUE]
    BY DEF Stall
  <2>2. x.id = j.id
    <3>1. JobWhole(j)
      BY <2>1 DEF Stall
    <3> QED
      BY <2>1, <3>1, StalledIsWhole
  <2> QED
    BY <2>1, <2>2
<1>10. again'[i] = again[i] + Cardinality(mine)
  BY DEF Stall
<1>11. PICK N : N = new
  OBVIOUS
<1>12. PICK c \in Nat : c = Cardinality(mine)
  BY <1>7
<1> HIDE DEF mine, f, new
<1>13. PICK n \in Nat, a \in Nat : n = ran[k] /\ a = again[i]
  BY <1>1 DEF Shape
<1>14. PICK b \in Nat : b = again'[i] /\ b = a + c
  BY <1>10, <1>12, <1>13
<1>15. PICK J, T, K, U : J = JobsFor(k) /\ T = TasksFor(k) /\ K = JobsFor(k)' /\ U = TasksFor(k)'
  OBVIOUS
<1>16. IsFiniteSet(J) /\ IsFiniteSet(T)
  BY <1>15, SetsAreFinite
<1>17. n + Cardinality(J) + Cardinality(T) <= 1 + a
  BY <1>3, <1>13, <1>15 DEF OnceFor
<1>18. IsFiniteSet(N) /\ Cardinality(N) <= c /\ K \subseteq J \cup N /\ U \subseteq T
  BY <1>5, <1>8, <1>9, <1>11, <1>12, <1>15
<1>19. n + Cardinality(K) + Cardinality(U) <= 1 + b
  BY <1>14, <1>16, <1>17, <1>18, MoreDeliveries
<1> QED
  BY <1>3, <1>6, <1>13, <1>14, <1>15, <1>19 DEF OnceFor

LEMMA FireOnce ==
  ASSUME Shape, OnlyFired, NEW e \in Event, Fire(e), NEW k \in Key, OnceFor(k)
  PROVE  OnceFor(k)'
<1>1. PICK i \in Id, r \in Index, p \in Nat : k = <<i, r, p>> /\ p \in 0..Len(Acts(r))
  BY KeyFacts, RuleFacts
<1>2. k[1] = i /\ k[2] = r /\ k[3] = p
  BY <1>1
<1>3. /\ JobsFor(k)' = {x \in jobs' : x.id = i /\ ReachJob(x, r, p)}
      /\ JobsFor(k) = {x \in jobs : x.id = i /\ ReachJob(x, r, p)}
  BY <1>2 DEF JobsFor
<1>4. TasksFor(k)' = TasksFor(k) /\ ran' = ran /\ again' = again
  BY DEF TasksFor, Fire
<1>5. PICK j : j = JobOf(e)
  OBVIOUS
<1>6. jobs' = jobs \cup {j} /\ j.id = e.id
  BY <1>5, JobOfIsWhole DEF Fire
<1>7. CASE i # e.id
  <2>1. JobsFor(k)' = JobsFor(k)
    BY <1>3, <1>6, <1>7
  <2> QED
    BY <1>4, <2>1 DEF OnceFor
<1>8. CASE i = e.id
  <2>1. ~\E g \in fired : g.id = i
    <3>1. e \notin fired /\ fired \subseteq Event
      BY DEF Fire, Shape
    <3>2. \A g \in Event : g.id = e.id => g = e
      BY RuleAssumption
    <3> QED
      BY <1>8, <3>1, <3>2
  <2>2. JobsFor(k) = {} /\ TasksFor(k) = {}
    BY <1>2, <2>1 DEF JobsFor, TasksFor, OnlyFired
  <2>3. ran[k] = 0
    <3>1. ~(ran[k] > 0) /\ ran[k] \in Nat
      BY <1>2, <2>1 DEF OnlyFired, Shape
    <3> QED
      BY <3>1
  <2>4. PICK K : K = JobsFor(k)'
    OBVIOUS
  <2>5. K \subseteq {j}
    BY <1>3, <1>6, <2>2, <2>4
  <2>6. Cardinality(K) \in Nat /\ Cardinality(K) <= 1
    <3>1. IsFiniteSet({j}) /\ Cardinality({j}) = 1
      BY FS_Singleton
    <3> QED
      BY <2>5, <3>1, FS_Subset, FS_CardinalityType
  <2>7. Cardinality({}) = 0
    BY FS_EmptySet
  <2>8. again[i] \in Nat
    BY <1>1 DEF Shape
  <2>9. 0 + Cardinality(K) + 0 <= 1 + again[i]
    BY <2>6, <2>8
  <2> QED
    BY <1>2, <1>4, <2>2, <2>3, <2>4, <2>7, <2>9 DEF OnceFor
<1> QED
  BY <1>7, <1>8

LEMMA OnlyFiredIsKept ==
  ASSUME Shape, OnlyFired, [Next]_vars
  PROVE  OnlyFired'
<1>1. ASSUME NEW e \in Event, Fire(e)
      PROVE  OnlyFired'
  <2>1. PICK j : j = JobOf(e)
    OBVIOUS
  <2>2. j.id = e.id /\ jobs' = jobs \cup {j} /\ fired' = fired \cup {e}
    BY <1>1, <2>1, JobOfIsWhole DEF Fire
  <2>3. task' = task /\ ran' = ran
    BY <1>1 DEF Fire
  <2> QED
    BY <2>2, <2>3 DEF OnlyFired
<1>2. ASSUME NEW w \in Runner, NEW j, NEW u, Begins(w, j, u)
      PROVE  OnlyFired'
  <2>1. /\ jobs' = jobs \ {j} /\ j \in jobs /\ u.job = j /\ fired' = fired /\ ran' = ran
        /\ \A v \in Runner \ {w} : task'[v] = task[v]
        /\ task'[w] # Idle => task'[w] = u
    BY <1>2 DEF Begins, Shape
  <2> QED
    BY <2>1 DEF OnlyFired
<1>3. ASSUME NEW w \in Runner, NEW t, NEW u, Advances(w, t, u)
      PROVE  OnlyFired'
  <2>1. /\ t = task[w] /\ TaskWhole(t) /\ u.job = t.job /\ fired' = fired
        /\ \A v \in Runner \ {w} : task'[v] = task[v]
        /\ task'[w] # Idle => task'[w] = u
    BY <1>3 DEF Advances, Moves, Onward, Follows, Shape
  <2>2. t # Idle
    BY <2>1 DEF TaskWhole, Formed, Pcs, Idle
  <2>3. PICK e \in fired : e.id = t.job.id
    BY <2>1, <2>2 DEF OnlyFired
  <2>4. \A j \in jobs' : \E g \in fired' : g.id = j.id
    BY <1>3, <2>1, <2>3 DEF Advances, Queues, OnlyFired
  <2>5. ASSUME NEW v \in Runner, task'[v] # Idle
        PROVE  \E g \in fired' : g.id = task'[v].job.id
    BY <2>1, <2>3, <2>5 DEF OnlyFired
  <2>6. ASSUME NEW k \in Key, ran'[k] > 0
        PROVE  \E g \in fired' : g.id = k[1]
    <3>1. CASE ran' = ran
      BY <2>1, <2>6, <3>1 DEF OnlyFired
    <3>2. ASSUME NEW r \in Index, NEW p \in 0..Len(Acts(r)),
                 ran' = [ran EXCEPT ![<<t.job.id, r, p>>] = ran[<<t.job.id, r, p>>] + 1]
          PROVE  \E g \in fired' : g.id = k[1]
      <4>1. CASE k = <<t.job.id, r, p>>
        BY <2>1, <2>3, <4>1
      <4>2. CASE k # <<t.job.id, r, p>>
        <5>1. ran'[k] = ran[k]
          BY <3>2, <4>2 DEF Shape
        <5> QED
          BY <2>1, <2>6, <5>1 DEF OnlyFired
      <4> QED
        BY <4>1, <4>2
    <3> QED
      BY <1>3, <3>1, <3>2 DEF Advances, Tries
  <2> QED
    BY <2>4, <2>5, <2>6 DEF OnlyFired
<1>4. ASSUME NEW w \in Runner, NEW t, Throws(w, t)
      PROVE  OnlyFired'
  <2>1. /\ t = task[w] /\ TaskWhole(t) /\ fired' = fired /\ ran' = ran
        /\ \A v \in Runner \ {w} : task'[v] = task[v]
        /\ task'[w] = Idle
    BY <1>4 DEF Throws, Shape
  <2>2. t # Idle
    BY <2>1 DEF TaskWhole, Formed, Pcs, Idle
  <2>3. PICK e \in fired : e.id = t.job.id
    BY <2>1, <2>2 DEF OnlyFired
  <2>4. \A j \in jobs' : \E g \in fired' : g.id = j.id
    BY <1>4, <2>1, <2>3 DEF Throws, OnlyFired
  <2> QED
    BY <2>1, <2>4 DEF OnlyFired
<1>5. ASSUME NEW back, Stall(back)
      PROVE  OnlyFired'
  <2>1. fired' = fired /\ ran' = ran /\ \A w \in Runner : task'[w] = Idle
    BY <1>5 DEF Stall
  <2>2. ASSUME NEW j \in back
        PROVE  \E g \in fired : g.id = j.id
    <3>1. PICK w \in Runner : task[w] # Idle /\ j = task[w].job
      BY <1>5, <2>2 DEF Stall, Lost
    <3> QED
      BY <3>1 DEF OnlyFired
  <2>3. ASSUME NEW x \in jobs', x \notin jobs
        PROVE  \E g \in fired : g.id = x.id
    <3>1. PICK j \in back : x = [j EXCEPT !.stalled = TRUE]
      BY <1>5, <2>3 DEF Stall
    <3>2. x.id = j.id
      <4>1. JobWhole(j)
        BY <1>5 DEF Stall
      <4> QED
        BY <3>1, <4>1, StalledIsWhole
    <3> QED
      BY <2>2, <3>2
  <2> QED
    BY <2>1, <2>3 DEF OnlyFired
<1>6. CASE FiveMinutes
  BY <1>6 DEF FiveMinutes, OnlyFired, history
<1>7. CASE UNCHANGED vars
  BY <1>7 DEF vars, OnlyFired
<1>8. CASE \E w \in Runner : Step(w)
  BY <1>2, <1>3, <1>4, <1>8, StepCases
<1>9. CASE Crash
  BY <1>5, <1>9, CrashStalls
<1> QED
  BY <1>1, <1>6, <1>7, <1>8, <1>9 DEF Next

LEMMA OnceIsKept ==
  ASSUME Shape, OnlyFired, OnceAtMost, [Next]_vars
  PROVE  OnceAtMost'
<1> SUFFICES ASSUME NEW k \in Key, Plain(k) PROVE OnceFor(k)'
  BY DEF OnceAtMost, Plain
<1>1. OnceFor(k)
  BY DEF OnceAtMost
<1>2. ASSUME NEW e \in Event, Fire(e)
      PROVE  OnceFor(k)'
  BY <1>1, <1>2, FireOnce
<1>3. CASE \E w \in Runner : Step(w)
  <2>1. PICK w \in Runner : Step(w)
    BY <1>3
  <2>2. ASSUME NEW j, NEW u, Begins(w, j, u)
        PROVE  OnceFor(k)'
    BY <1>1, <2>2, BeginsOnce
  <2>3. ASSUME NEW t, NEW u, Advances(w, t, u)
        PROVE  OnceFor(k)'
    BY <1>1, <2>3, AdvancesOnce
  <2>4. ASSUME NEW t, Throws(w, t)
        PROVE  OnceFor(k)'
    BY <1>1, <2>4, ThrowsOnce
  <2> QED
    BY <2>1, <2>2, <2>3, <2>4, StepCases
<1>4. CASE Crash
  BY <1>1, <1>4, CrashStalls, StallOnce
<1>5. CASE FiveMinutes
  <2>1. UNCHANGED <<jobs, task, ran, again>>
    BY <1>5 DEF FiveMinutes
  <2> QED
    BY <1>1, <2>1 DEF OnceFor, JobsFor, TasksFor
<1>6. CASE UNCHANGED vars
  BY <1>1, <1>6 DEF vars, OnceFor, JobsFor, TasksFor
<1> QED
  BY <1>2, <1>3, <1>4, <1>5, <1>6 DEF Next

LEMMA InitOnce ==
  ASSUME Init
  PROVE  OnlyFired /\ OnceAtMost
<1>1. jobs = {} /\ (\A w \in Runner : task[w] = Idle) /\ (\A k \in Key : ran[k] = 0)
      /\ \A i \in Id : again[i] = 0
  BY DEF Init
<1>2. OnlyFired
  BY <1>1 DEF OnlyFired
<1>3. ASSUME NEW k \in Key
      PROVE  OnceFor(k)
  <2>1. JobsFor(k) = {} /\ TasksFor(k) = {}
    BY <1>1 DEF JobsFor, TasksFor
  <2>2. Cardinality({}) = 0
    BY FS_EmptySet
  <2>3. again[k[1]] = 0 /\ ran[k] = 0
    BY <1>1, KeyFacts
  <2>4. 0 + 0 + 0 <= 1 + 0
    OBVIOUS
  <2> QED
    BY <2>1, <2>2, <2>3, <2>4 DEF OnceFor
<1> QED
  BY <1>2, <1>3 DEF OnceAtMost

-----------------------------------------------------------------------------
(* No text twice within five minutes *)

\* The text a runner is about to create is its own, and has not been sent.
TextsAreNew ==
  /\ repeated = {}
  /\ \A w \in Runner : task[w].pc = "create" => task[w].pick.by = w /\ task[w].pick \notin messages

LEMMA TextsStayNew ==
  ASSUME Shape, TextsAreNew, [Next]_vars
  PROVE  TextsAreNew'
<1>0. Idle.pc = "idle"
  BY DEF Idle
<1>1. ASSUME NEW e \in Event, Fire(e)
      PROVE  TextsAreNew'
  BY <1>1 DEF Fire, data, TextsAreNew
<1>2. ASSUME NEW w \in Runner, NEW j, NEW u, Begins(w, j, u)
      PROVE  TextsAreNew'
  <2>1. /\ \A v \in Runner \ {w} : task'[v] = task[v]
        /\ task'[w] = Idle \/ task'[w] = u
        /\ u.pc # "create" /\ messages' = messages /\ repeated' = repeated
    BY <1>2 DEF Begins, Shape, data
  <2> QED
    BY <1>0, <2>1 DEF TextsAreNew
<1>3. ASSUME NEW w \in Runner, NEW t, NEW u, Advances(w, t, u)
      PROVE  TextsAreNew'
  <2>1. /\ t = task[w]
        /\ \A v \in Runner \ {w} : task'[v] = task[v]
        /\ task'[w] = Idle \/ task'[w] = u
    BY <1>3 DEF Advances, Moves, Shape
  <2>2. CASE /\ messages' = messages /\ repeated' = repeated
             /\ u.pc = "create" => u.pick.by = w /\ u.pick \notin messages
    BY <1>0, <2>1, <2>2 DEF TextsAreNew
  <2>3. CASE /\ t.pc = "create" /\ messages' = messages \cup {t.pick} /\ u.pc # "create"
             /\ repeated' = IF t.pick \in messages THEN repeated \cup {t.pick} ELSE repeated
    <3>1. t.pick.by = w /\ t.pick \notin messages
      BY <2>1, <2>3 DEF TextsAreNew
    <3>2. ASSUME NEW v \in Runner, task'[v].pc = "create"
          PROVE  task'[v].pick.by = v /\ task'[v].pick \notin messages'
      <4>1. v # w
        BY <1>0, <2>1, <2>3, <3>2
      <4>2. task'[v] = task[v]
        BY <2>1, <4>1
      <4>3. task[v].pick.by = v /\ task[v].pick \notin messages
        BY <3>2, <4>2 DEF TextsAreNew
      <4> QED
        BY <2>3, <3>1, <4>1, <4>2, <4>3
    <3> QED
      BY <2>3, <3>1, <3>2 DEF TextsAreNew
  <2> QED
    BY <1>3, <2>2, <2>3 DEF Advances, Texts
<1>4. ASSUME NEW w \in Runner, NEW t, Throws(w, t)
      PROVE  TextsAreNew'
  <2>1. /\ \A v \in Runner \ {w} : task'[v] = task[v]
        /\ task'[w] = Idle /\ messages' = messages /\ repeated' = repeated
    BY <1>4 DEF Throws, Shape, data
  <2> QED
    BY <1>0, <2>1 DEF TextsAreNew
<1>5. ASSUME NEW back, Stall(back)
      PROVE  TextsAreNew'
  BY <1>0, <1>5 DEF Stall, data, TextsAreNew
<1>6. CASE FiveMinutes
  BY <1>0, <1>6 DEF FiveMinutes, TextsAreNew
<1>7. CASE UNCHANGED vars
  BY <1>7 DEF vars, TextsAreNew
<1>8. CASE \E w \in Runner : Step(w)
  BY <1>2, <1>3, <1>4, <1>8, StepCases
<1>9. CASE Crash
  BY <1>5, <1>9, CrashStalls
<1> QED
  BY <1>1, <1>6, <1>7, <1>8, <1>9 DEF Next

\* However jobs are retried, stall and are split by waits, what a rule does for an
\* event is attempted at most once and once more for each redelivery, and no queue
\* sends a text twice within five minutes: executeActionSequence and actionSendTemplate.
THEOREM ActionsOnce == Spec => []ActionsRunOnce
<1> DEFINE Inv == Shape /\ OnlyFired /\ OnceAtMost /\ TextsAreNew
<1>1. Init => Inv
  <2>1. Init => TextsAreNew
    BY DEF Init, TextsAreNew, Idle
  <2> QED
    BY <2>1, InitShape, InitOnce
<1>2. Inv /\ [Next]_vars => Inv'
  BY ShapeIsKept, OnlyFiredIsKept, OnceIsKept, TextsStayNew
<1>3. Inv => ActionsRunOnce
  <2> SUFFICES ASSUME Inv PROVE ActionsRunOnce
    OBVIOUS
  <2>1. ASSUME NEW k \in Key, Rules[k[2]].trigger # "lead.assigned"
        PROVE  ran[k] <= 1 + again[k[1]]
    <3>1. OnceFor(k)
      BY <2>1 DEF OnceAtMost, Plain
    <3>2. PICK n \in Nat, a \in Nat : n = ran[k] /\ a = again[k[1]]
      BY KeyFacts DEF Shape
    <3>3. PICK x \in Nat, y \in Nat : x = Cardinality(JobsFor(k)) /\ y = Cardinality(TasksFor(k))
      BY SetsAreFinite
    <3>4. n + x + y <= 1 + a
      BY <3>1, <3>2, <3>3 DEF OnceFor
    <3>5. n <= 1 + a
      BY <3>4
    <3> QED
      BY <3>2, <3>5
  <2> QED
    BY <2>1 DEF ActionsRunOnce, OncePerDelivery, TextSentOnce, TextsAreNew
<1> QED
  BY <1>1, <1>2, <1>3, PTL DEF Spec

-----------------------------------------------------------------------------
(* No rule is lost *)

BegunIn(f, i, r) == f[<<i, r, 0>>] > 0 \/ f[<<i, r, 1>>] > 0
Begun(i, r) == BegunIn(ran, i, r)
\* A rule that matched can still be reached, or has been begun.
RulesAreReached ==
  /\ \A w \in Runner : task[w] # Idle =>
       \A r \in task[w].set : Reach(task[w], r, 1) \/ Begun(task[w].job.id, r)
  /\ \A i \in Id : handled[i] \in SUBSET Index /\ \A r \in handled[i] : Begun(i, r)

LEMMA BegunStays ==
  ASSUME Shape, NEW w \in Runner, NEW t, NEW u, Advances(w, t, u)
  PROVE  /\ \A i \in Id, r \in Index : Begun(i, r) => BegunIn(ran', i, r)
         /\ \A r \in Index : Reach(t, r, 1) => Reach(u, r, 1) \/ BegunIn(ran', t.job.id, r)
<1>0. t.job.id \in Id
  BY DEF Advances, Moves, TaskWhole, Formed, JobWhole, JobRow
<1>1. CASE ran' = ran /\ \A s \in Index : Reach(t, s, 1) => Reach(u, s, 1)
  BY <1>1 DEF Begun, BegunIn
<1>2. ASSUME NEW r \in Index, NEW p \in 0..Len(Acts(r)),
             ran' = [ran EXCEPT ![<<t.job.id, r, p>>] = ran[<<t.job.id, r, p>>] + 1],
             \A s \in Index : Reach(t, s, 1) => Reach(u, s, 1) \/ (s = r /\ p \in {0, 1})
      PROVE  /\ \A i \in Id, s \in Index : Begun(i, s) => BegunIn(ran', i, s)
             /\ \A s \in Index : Reach(t, s, 1) => Reach(u, s, 1) \/ BegunIn(ran', t.job.id, s)
  <2>1. PICK k \in Key : k = <<t.job.id, r, p>>
    BY <1>0, KeyFacts
  <2>2. ran' = [ran EXCEPT ![k] = ran[k] + 1]
    BY <1>2, <2>1
  <2>3. ran[k] \in Nat /\ ran'[k] = ran[k] + 1
    BY <2>2 DEF Shape
  <2>4. ran'[k] > 0
    BY <2>3
  <2>5. \A l \in Key : ran[l] > 0 => ran'[l] > 0
    BY <2>2, <2>4 DEF Shape
  <2>6. \A i \in Id, s \in Index : <<i, s, 0>> \in Key /\ <<i, s, 1>> \in Key
    <3> TAKE i \in Id, s \in Index
    <3>1. 0 \in 0..Len(Acts(s)) /\ 1 \in 0..Len(Acts(s))
      BY RuleFacts
    <3> QED
      BY <3>1, KeyFacts
  <2>7. \A i \in Id, s \in Index : Begun(i, s) => BegunIn(ran', i, s)
    BY <2>5, <2>6 DEF Begun, BegunIn
  <2>8. ASSUME NEW s \in Index, Reach(t, s, 1), ~Reach(u, s, 1)
        PROVE  BegunIn(ran', t.job.id, s)
    <3>1. s = r /\ p \in {0, 1}
      BY <1>2, <2>8
    <3> QED
      BY <2>1, <2>4, <3>1 DEF Begun, BegunIn
  <2> QED
    BY <2>7, <2>8
<1> QED
  BY <1>1, <1>2 DEF Advances, Tries

LEMMA RulesStayReached ==
  ASSUME Shape, RulesAreReached, [Next]_vars
  PROVE  RulesAreReached'
<1>1. ASSUME NEW e \in Event, Fire(e)
      PROVE  RulesAreReached'
  BY <1>1 DEF Fire, RulesAreReached, Begun, BegunIn
<1>2. ASSUME NEW w \in Runner, NEW j, NEW u, Begins(w, j, u)
      PROVE  RulesAreReached'
  <2>1. /\ \A v \in Runner \ {w} : task'[v] = task[v]
        /\ task'[w] = IF u.pc = "done" THEN Idle ELSE u
        /\ ran' = ran /\ u.job = j /\ u.set \in SUBSET Index /\ \A r \in u.set : Reach(u, r, 1)
        /\ j.id \in Id
    BY <1>2 DEF Begins, Shape, JobWhole, JobRow
  <2>2. CASE u.pc = "done"
    <3>1. u.set = {}
      <4>1. \A r \in u.set : ~Reach(u, r, 1)
        BY <1>2, <2>2 DEF Begins, Reach
      <4> QED
        BY <2>1, <4>1
    <3>2. \A i \in Id : handled'[i] = handled[i]
      BY <1>2, <2>2, <3>1 DEF Begins, Shape
    <3> QED
      BY <2>1, <2>2, <3>2 DEF RulesAreReached, Begun, BegunIn
  <2>3. CASE u.pc # "done"
    <3>1. handled' = handled
      BY <1>2, <2>3 DEF Begins
    <3> QED
      BY <2>1, <2>3, <3>1 DEF RulesAreReached, Begun, BegunIn
  <2> QED
    BY <2>2, <2>3
<1>3. ASSUME NEW w \in Runner, NEW t, NEW u, Advances(w, t, u)
      PROVE  RulesAreReached'
  <2>1. /\ t = task[w] /\ TaskWhole(t) /\ u.job = t.job /\ u.set = t.set /\ (u.pc = "done" => u.todo = {})
        /\ \A v \in Runner \ {w} : task'[v] = task[v]
        /\ task'[w] = IF u.pc = "done" THEN Idle ELSE u
    BY <1>3 DEF Advances, Moves, Onward, Follows, Shape
  <2>2. t # Idle /\ t.job.id \in Id /\ t.set \in SUBSET Index
    BY <2>1 DEF TaskWhole, Formed, Pcs, Idle, JobWhole, JobRow
  <2>3. /\ \A i \in Id, r \in Index : Begun(i, r) => BegunIn(ran', i, r)
        /\ \A r \in Index : Reach(t, r, 1) => Reach(u, r, 1) \/ BegunIn(ran', t.job.id, r)
    BY <1>3, BegunStays
  <2>4. \A r \in t.set : Reach(u, r, 1) \/ BegunIn(ran', t.job.id, r)
    <3> TAKE r \in t.set
    <3>1. r \in Index
      BY <2>2
    <3>2. Reach(t, r, 1) \/ Begun(t.job.id, r)
      BY <2>1, <2>2 DEF RulesAreReached
    <3> QED
      BY <2>2, <2>3, <3>1, <3>2
  <2>5. ASSUME NEW v \in Runner, task'[v] # Idle, NEW r \in task'[v].set
        PROVE  Reach(task'[v], r, 1) \/ BegunIn(ran', task'[v].job.id, r)
    <3>1. CASE v = w
      BY <2>1, <2>4, <2>5, <3>1
    <3>2. CASE v # w
      <4>1. PICK x : x = task[v] /\ x = task'[v]
        BY <2>1, <3>2
      <4>2. TaskWhole(x) /\ r \in x.set
        BY <2>5, <4>1 DEF Shape
      <4>3. x.job.id \in Id /\ r \in Index
        BY <4>2 DEF TaskWhole, Formed, JobWhole, JobRow
      <4>4. Reach(x, r, 1) \/ Begun(x.job.id, r)
        BY <2>5, <4>1, <4>2 DEF RulesAreReached
      <4>5. Reach(x, r, 1) \/ BegunIn(ran', x.job.id, r)
        BY <2>3, <4>3, <4>4
      <4> QED
        BY <4>1, <4>5
    <3> QED
      BY <3>1, <3>2
  <2>6. ASSUME NEW i \in Id
        PROVE  handled'[i] \in SUBSET Index /\ \A r \in handled'[i] : BegunIn(ran', i, r)
    <3>1. handled[i] \in SUBSET Index /\ \A r \in handled[i] : Begun(i, r)
      BY DEF RulesAreReached
    <3>2. \A r \in handled[i] : BegunIn(ran', i, r)
      BY <2>3, <3>1
    <3>3. CASE u.pc = "done"
      <4>1. \A r \in t.set : BegunIn(ran', t.job.id, r)
        <5>1. \A r : ~Reach(u, r, 1)
          BY <2>1, <3>3 DEF Reach
        <5> QED
          BY <2>4, <5>1
      <4>2. handled' = [handled EXCEPT ![t.job.id] = handled[t.job.id] \cup t.set]
        BY <1>3, <3>3 DEF Advances, Moves
      <4>3. handled'[i] = IF i = t.job.id THEN handled[i] \cup t.set ELSE handled[i]
        BY <4>2 DEF Shape
      <4> QED
        BY <2>2, <3>1, <3>2, <4>1, <4>3
    <3>4. CASE u.pc # "done"
      <4>1. handled' = handled
        BY <1>3, <3>4 DEF Advances, Moves
      <4> QED
        BY <3>1, <3>2, <4>1
    <3> QED
      BY <3>3, <3>4
  <2>7. \A v \in Runner : task'[v] # Idle =>
          \A r \in task'[v].set : Reach(task'[v], r, 1) \/ BegunIn(ran', task'[v].job.id, r)
    BY <2>5
  <2> QED
    BY <2>6, <2>7 DEF RulesAreReached, Begun, BegunIn
<1>4. ASSUME NEW w \in Runner, NEW t, Throws(w, t)
      PROVE  RulesAreReached'
  <2>1. /\ \A v \in Runner \ {w} : task'[v] = task[v]
        /\ task'[w] = Idle /\ ran' = ran /\ handled' = handled
    BY <1>4 DEF Throws, Shape
  <2> QED
    BY <2>1 DEF RulesAreReached, Begun, BegunIn
<1>5. ASSUME NEW back, Stall(back)
      PROVE  RulesAreReached'
  BY <1>5 DEF Stall, RulesAreReached, Begun, BegunIn
<1>6. CASE FiveMinutes
  BY <1>6 DEF FiveMinutes, RulesAreReached, Begun, history
<1>7. CASE UNCHANGED vars
  BY <1>7 DEF vars, RulesAreReached, Begun, BegunIn
<1>8. CASE \E w \in Runner : Step(w)
  BY <1>2, <1>3, <1>4, <1>8, StepCases
<1>9. CASE Crash
  BY <1>5, <1>9, CrashStalls
<1> QED
  BY <1>1, <1>6, <1>7, <1>8, <1>9 DEF Next

\* When the evaluation of an event completes, every rule it had matched has been
\* deferred or has had its first action attempted: RuleEngineService.evaluate.
THEOREM NoRuleIsLost == Spec => []MatchedRulesAreHandled
<1> DEFINE Inv == Shape /\ RulesAreReached
<1>1. Init => Inv
  <2>1. Init => RulesAreReached
    BY DEF Init, RulesAreReached
  <2> QED
    BY <2>1, InitShape
<1>2. Inv /\ [Next]_vars => Inv'
  BY ShapeIsKept, RulesStayReached
<1>3. Inv => MatchedRulesAreHandled
  BY DEF RulesAreReached, MatchedRulesAreHandled, Begun, BegunIn
<1> QED
  BY <1>1, <1>2, <1>3, PTL DEF Spec

-----------------------------------------------------------------------------
(* Round robin *)

(* The loads f differ by one at most; or by two, when a single agent has    *)
(* the fewest leads: the one that lost the lead assigned again.             *)
Even(f) == \A a, b \in Agent : f[a] <= f[b] + 1
NearlyEven(f) ==
  \A a, b \in Agent : /\ f[a] <= f[b] + 2
                      /\ f[a] = f[b] + 2 => \A c \in Agent \ {b} : f[c] >= f[b] + 1
(* One lead goes from o to p.                                               *)
Shifted(f, g, o, p) ==
  /\ o = p => g = f
  /\ o # p => g[p] = f[p] + 1 /\ (o \in Agent => g[o] + 1 = f[o])
  /\ \A a \in Agent \ {o, p} : g[a] = f[a]

LEMMA EvenIsKept ==
  ASSUME NEW f \in [Agent -> Nat], NEW g \in [Agent -> Nat], NEW p \in Agent,
         NEW o \in {None, p}, Shifted(f, g, o, p), \A a \in Agent : f[p] <= f[a], Even(f)
  PROVE  Even(g)
<1> SUFFICES ASSUME NEW a \in Agent, NEW b \in Agent PROVE g[a] <= g[b] + 1
  BY DEF Even
<1>1. CASE o = p
  BY <1>1 DEF Shifted, Even
<1>2. CASE o # p
  <2>1. o \notin Agent
    BY <1>2, RuleAssumption
  <2>2. f[a] \in Nat /\ f[b] \in Nat /\ f[p] \in Nat /\ g[a] \in Nat /\ g[b] \in Nat
    OBVIOUS
  <2>3. f[p] <= f[a] /\ f[p] <= f[b] /\ f[a] <= f[b] + 1 /\ f[a] <= f[p] + 1
    BY DEF Even
  <2>4. (a = p => g[a] = f[p] + 1 /\ f[a] = f[p]) /\ (a # p => g[a] = f[a])
    BY <1>2, <2>1 DEF Shifted
  <2>5. (b = p => g[b] = f[p] + 1 /\ f[b] = f[p]) /\ (b # p => g[b] = f[b])
    BY <1>2, <2>1 DEF Shifted
  <2>6. CASE a = p
    BY <2>2, <2>3, <2>4, <2>5, <2>6
  <2>7. CASE a # p
    BY <2>2, <2>3, <2>4, <2>5, <2>7
  <2> QED
    BY <2>6, <2>7
<1> QED
  BY <1>1, <1>2

LEMMA NearlyEvenIsKept ==
  ASSUME NEW f \in [Agent -> Nat], NEW g \in [Agent -> Nat], NEW p \in Agent,
         NEW o \in Agent \cup {None}, Shifted(f, g, o, p), \A a \in Agent : f[p] <= f[a], NearlyEven(f)
  PROVE  NearlyEven(g)
<1>1. CASE o = p
  BY <1>1 DEF Shifted
<1>2. CASE o # p
  <2>1. \A a \in Agent : f[a] \in Nat /\ g[a] \in Nat
    OBVIOUS
  <2>2. PICK m \in Nat : m = f[p]
    OBVIOUS
  <2>3. ASSUME NEW a \in Agent
        PROVE  /\ m <= f[a] /\ f[a] <= m + 2
               /\ a = p => f[a] = m /\ g[a] = m + 1
               /\ a = o => g[a] + 1 = f[a]
               /\ a # p /\ a # o => g[a] = f[a]
    <3>1. f[a] <= f[p] + 2 /\ f[p] <= f[a]
      BY DEF NearlyEven
    <3>2. a = p => f[a] = m /\ g[a] = m + 1
      BY <1>2, <2>2 DEF Shifted
    <3>3. (a = o => g[a] + 1 = f[a]) /\ (a # p /\ a # o => g[a] = f[a])
      BY <1>2 DEF Shifted
    <3> QED
      BY <2>2, <3>1, <3>2, <3>3
  <2>4. (\E a \in Agent : f[a] = m + 2) => \A c \in Agent \ {p} : f[c] >= m + 1
    BY <2>2 DEF NearlyEven
  \* what is left below the others is what o has now
  <2>5. CASE \E a \in Agent : f[a] = m + 2
    <3>1. ASSUME NEW a \in Agent
          PROVE  g[a] <= m + 2 /\ (a # o => g[a] >= m + 1) /\ g[a] >= m
      <4>1. f[a] \in Nat /\ g[a] \in Nat /\ (a # p => f[a] >= m + 1)
        BY <2>1, <2>4, <2>5
      <4>2. CASE a = p
        BY <1>2, <2>2, <2>3, <4>2
      <4>3. CASE a = o
        BY <1>2, <2>2, <2>3, <4>1, <4>3
      <4>4. CASE a # p /\ a # o
        <5>1. g[a] = f[a] /\ f[a] <= m + 2 /\ f[a] >= m + 1
          BY <2>3, <4>1, <4>4
        <5> QED
          BY <2>2, <4>1, <4>4, <5>1
      <4> QED
        BY <4>2, <4>3, <4>4
    <3> SUFFICES ASSUME NEW a \in Agent, NEW b \in Agent
                 PROVE  /\ g[a] <= g[b] + 2
                        /\ g[a] = g[b] + 2 => \A c \in Agent \ {b} : g[c] >= g[b] + 1
      BY DEF NearlyEven
    <3>2. g[a] <= m + 2 /\ g[b] >= m /\ g[a] \in Nat /\ g[b] \in Nat
      BY <2>1, <3>1
    <3>3. g[a] <= g[b] + 2
      BY <2>2, <3>2
    <3>4. ASSUME g[a] = g[b] + 2, NEW c \in Agent \ {b}
          PROVE  g[c] >= g[b] + 1
      <4>1. g[b] = m
        BY <2>2, <3>2, <3>4
      <4>2. b = o
        <5>1. b # o => g[b] >= m + 1
          BY <3>1
        <5> QED
          BY <2>2, <4>1, <5>1
      <4>3. g[c] >= m + 1
        BY <3>1, <4>2
      <4> QED
        BY <4>1, <4>3
    <3> QED
      BY <3>3, <3>4
  <2>6. CASE ~\E a \in Agent : f[a] = m + 2
    <3>1. ASSUME NEW a \in Agent
          PROVE  /\ g[a] <= m + 1 /\ g[a] + 1 >= m
                 /\ a # o => g[a] >= m
                 /\ a = p => g[a] = m + 1
      <4>1. f[a] \in Nat /\ g[a] \in Nat /\ m <= f[a] /\ f[a] <= m + 1
        <5>1. f[a] \in Nat /\ g[a] \in Nat /\ m <= f[a] /\ f[a] <= m + 2 /\ f[a] # m + 2
          BY <2>1, <2>3, <2>6
        <5> QED
          BY <2>2, <5>1
      <4>2. CASE a = p
        BY <1>2, <2>2, <2>3, <4>1, <4>2
      <4>3. CASE a = o
        BY <1>2, <2>2, <2>3, <4>1, <4>3
      <4>4. CASE a # p /\ a # o
        <5>1. g[a] = f[a]
          BY <2>3, <4>4
        <5> QED
          BY <2>2, <4>1, <4>4, <5>1
      <4> QED
        BY <4>2, <4>3, <4>4
    <3> SUFFICES ASSUME NEW a \in Agent, NEW b \in Agent
                 PROVE  /\ g[a] <= g[b] + 2
                        /\ g[a] = g[b] + 2 => \A c \in Agent \ {b} : g[c] >= g[b] + 1
      BY DEF NearlyEven
    <3>2. g[a] <= m + 1 /\ g[b] + 1 >= m /\ g[a] \in Nat /\ g[b] \in Nat
      BY <2>1, <3>1
    <3>3. g[a] <= g[b] + 2
      BY <2>2, <3>2
    <3>4. ASSUME g[a] = g[b] + 2, NEW c \in Agent \ {b}
          PROVE  g[c] >= g[b] + 1
      <4>1. g[b] + 1 = m
        BY <2>2, <3>2, <3>4
      <4>2. b = o
        <5>1. b # o => g[b] >= m
          BY <3>1
        <5> QED
          BY <2>2, <3>2, <4>1, <5>1
      <4>3. g[c] >= m
        BY <3>1, <4>2
      <4> QED
        BY <4>1, <4>3
    <3> QED
      BY <3>3, <3>4
  <2> QED
    BY <2>5, <2>6
<1> QED
  BY <1>1, <1>2

Loads == [a \in Agent |-> Load(a)]

LEMMA LoadsAreNat == Loads \in [Agent -> Nat]
BY LoadIsNat DEF Loads

LEMMA AssignShifts ==
  ASSUME Shape, Shape', NEW l \in Lead, NEW p \in Agent, assignee' = [assignee EXCEPT ![l] = p]
  PROVE  Shifted(Loads, Loads', assignee[l], p) /\ Loads' \in [Agent -> Nat]
<1> DEFINE Of(a) == {x \in Lead : assignee[x] = a}
           Now(a) == {x \in Lead : assignee'[x] = a}
<1>1. \A a \in Agent : Loads[a] = Cardinality(Of(a)) /\ Loads'[a] = Cardinality(Now(a))
  BY DEF Loads, Load
<1>2. \A a : IsFiniteSet(Of(a)) /\ Cardinality(Of(a)) \in Nat /\ IsFiniteSet(Now(a)) /\ Cardinality(Now(a)) \in Nat
  <2> TAKE a
  <2>1. Of(a) \subseteq Lead /\ Now(a) \subseteq Lead
    OBVIOUS
  <2> HIDE DEF Of, Now
  <2> QED
    BY <2>1, RuleAssumption, FS_Subset, FS_CardinalityType
<1>3. assignee'[l] = p /\ \A x \in Lead \ {l} : assignee'[x] = assignee[x]
  BY DEF Shape
<1>4. PICK o : o = assignee[l]
  OBVIOUS
<1>5. o # p => Now(p) = Of(p) \cup {l} /\ l \notin Of(p)
  BY <1>3, <1>4
<1>6. o # p => Now(o) = Of(o) \ {l} /\ l \in Of(o)
  BY <1>3, <1>4
<1>7. \A a : a # o /\ a # p => Now(a) = Of(a)
  BY <1>3, <1>4
<1>8. o = p => \A a : Now(a) = Of(a)
  BY <1>3, <1>4
<1>9. Loads = [a \in Agent |-> Loads[a]] /\ Loads' = [a \in Agent |-> Loads'[a]]
  BY DEF Loads
<1> HIDE DEF Of, Now
<1>10. o = p => Loads' = Loads
  BY <1>1, <1>8, <1>9
<1>11. o # p => Loads'[p] = Loads[p] + 1
  <2>1. o # p => Cardinality(Now(p)) = Cardinality(Of(p)) + 1
    BY <1>2, <1>5, FS_AddElement
  <2> QED
    BY <1>1, <2>1
<1>12. o # p => (o \in Agent => Loads'[o] + 1 = Loads[o])
  <2> SUFFICES ASSUME o # p, o \in Agent PROVE Loads'[o] + 1 = Loads[o]
    OBVIOUS
  <2>1. Cardinality(Now(o)) = Cardinality(Of(o)) - 1
    BY <1>2, <1>6, FS_RemoveElement
  <2>2. PICK n \in Nat, m \in Nat : n = Cardinality(Now(o)) /\ m = Cardinality(Of(o))
    BY <1>2
  <2>3. n + 1 = m
    BY <2>1, <2>2
  <2> QED
    BY <1>1, <2>2, <2>3
<1>13. \A a \in Agent \ {o, p} : Loads'[a] = Loads[a]
  BY <1>1, <1>7
<1>14. \A a \in Agent : Loads'[a] \in Nat
  BY <1>1, <1>2
<1>15. Shifted(Loads, Loads', o, p)
  <2>1. PICK f, g : f = Loads /\ g = Loads'
    OBVIOUS
  <2>2. Shifted(f, g, o, p)
    BY <1>10, <1>11, <1>12, <1>13, <2>1 DEF Shifted
  <2> QED
    BY <2>1, <2>2
<1>16. Loads' \in [Agent -> Nat]
  BY <1>9, <1>14
<1> QED
  BY <1>4, <1>15, <1>16

\* As long as no two assignments overlapped, one runner at most is between the count
\* and the write, what it has counted still holds, and the loads are even; nearly so
\* once a lead was assigned again.
AgentsInTurn ==
  raced \/
    /\ \A v, w \in Runner : task[v].pc = "write" /\ task[w].pc = "write" => v = w
    /\ \A w \in Runner : task[w].pc = "write" => \A a \in Agent : Loads[task[w].pick] <= Loads[a]
    /\ ~moved => Even(Loads)
    /\ NearlyEven(Loads)

LEMMA AgentsUntouched ==
  ASSUME Shape, AgentsInTurn, UNCHANGED <<assignee, raced, moved>>,
         \A w \in Runner : task'[w].pc = "write" => task'[w] = task[w]
  PROVE  AgentsInTurn'
<1>1. Loads' = Loads
  BY DEF Loads, Load
<1>2. CASE raced
  BY <1>2 DEF AgentsInTurn
<1>3. CASE ~raced
  BY <1>1, <1>3 DEF AgentsInTurn
<1> QED
  BY <1>2, <1>3

LEMMA AgentsStayInTurn ==
  ASSUME Shape, Shape', AgentsInTurn, [Next]_vars
  PROVE  AgentsInTurn'
<1>0. Idle.pc = "idle"
  BY DEF Idle
<1>1. ASSUME NEW e \in Event, Fire(e)
      PROVE  AgentsInTurn'
  BY <1>1, AgentsUntouched DEF Fire, data
<1>2. ASSUME NEW w \in Runner, NEW j, NEW u, Begins(w, j, u)
      PROVE  AgentsInTurn'
  <2>1. /\ \A v \in Runner \ {w} : task'[v] = task[v]
        /\ task'[w] = Idle \/ task'[w] = u
        /\ u.pc # "write" /\ UNCHANGED <<assignee, raced, moved>>
    BY <1>2 DEF Begins, Shape, data
  <2> QED
    BY <1>0, <2>1, AgentsUntouched
<1>3. ASSUME NEW w \in Runner, NEW t, NEW u, Advances(w, t, u)
      PROVE  AgentsInTurn'
  <2>1. /\ t = task[w] /\ TaskWhole(t)
        /\ \A v \in Runner \ {w} : task'[v] = task[v]
        /\ task'[w] = Idle \/ task'[w] = u
        /\ u.pc # "done" => task'[w] = u
    BY <1>3 DEF Advances, Moves, Shape
  <2>2. CASE assignee' = assignee /\ raced' = raced /\ moved' = moved /\ u.pc # "write"
    BY <1>0, <2>1, <2>2, AgentsUntouched
  <2>3. CASE /\ t.pc # "write" /\ u.pc = "write" /\ u.pick = LeastLoaded
             /\ raced' = (raced \/ \E v \in Runner \ {w} : task[v].pc = "write")
             /\ assignee' = assignee /\ moved' = moved
    <3>1. CASE raced'
      BY <3>1 DEF AgentsInTurn
    <3>2. CASE ~raced'
      <4>1. ~raced /\ \A v \in Runner \ {w} : task[v].pc # "write"
        BY <2>3, <3>2
      <4>2. Loads' = Loads
        BY <2>3 DEF Loads, Load
      <4>3. task'[w] = u /\ \A v \in Runner : task'[v].pc = "write" => v = w
        BY <2>1, <2>3, <4>1
      <4>4. \A a \in Agent : Loads[u.pick] <= Loads[a]
        BY <2>3, LeastLoadedFacts DEF Loads
      <4> QED
        BY <2>3, <4>1, <4>2, <4>3, <4>4 DEF AgentsInTurn
    <3> QED
      BY <3>1, <3>2
  <2>4. CASE /\ t.pc = "write" /\ u.pc # "write" /\ raced' = raced
             /\ assignee' = [assignee EXCEPT ![t.job.lead] = t.pick]
             /\ moved' = (moved \/ assignee[t.job.lead] \notin {None, t.pick})
    <3>1. CASE raced
      BY <2>4, <3>1 DEF AgentsInTurn
    <3>2. CASE ~raced
      <4>1. PICK l \in Lead : l = t.job.lead
        BY <2>1 DEF TaskWhole, Formed, JobWhole, JobRow
      <4>2. PICK p \in Agent : p = t.pick
        BY <2>1, <2>4 DEF TaskWhole
      <4>3. PICK o \in Agent \cup {None} : o = assignee[l]
        BY DEF Shape
      <4>4. assignee' = [assignee EXCEPT ![l] = p]
        BY <2>4, <4>1, <4>2
      <4>5. PICK f, g : f = Loads /\ g = Loads'
        OBVIOUS
      <4>6. /\ Shifted(f, g, o, p) /\ f \in [Agent -> Nat] /\ g \in [Agent -> Nat]
        BY <4>3, <4>4, <4>5, AssignShifts, LoadsAreNat
      <4>7. /\ \A a \in Agent : f[p] <= f[a]
            /\ ~moved => Even(f)
            /\ NearlyEven(f)
        BY <2>1, <2>4, <3>2, <4>2, <4>5 DEF AgentsInTurn
      <4>8. NearlyEven(g)
        BY <4>6, <4>7, NearlyEvenIsKept
      <4>9. ~moved' => Even(g)
        <5> SUFFICES ASSUME ~moved' PROVE Even(g)
          OBVIOUS
        <5>1. ~moved /\ o \in {None, p}
          BY <2>4, <4>1, <4>2, <4>3
        <5> QED
          BY <4>6, <4>7, <5>1, EvenIsKept
      <4>10. \A v \in Runner : task'[v].pc # "write"
        <5> TAKE v \in Runner
        <5>1. CASE v = w
          BY <1>0, <2>1, <2>4, <5>1
        <5>2. CASE v # w
          BY <2>1, <2>4, <3>2, <5>2 DEF AgentsInTurn
        <5> QED
          BY <5>1, <5>2
      <4> QED
        BY <4>5, <4>8, <4>9, <4>10 DEF AgentsInTurn
    <3> QED
      BY <3>1, <3>2
  <2> QED
    BY <1>3, <2>2, <2>3, <2>4 DEF Advances, Assigns
<1>4. ASSUME NEW w \in Runner, NEW t, Throws(w, t)
      PROVE  AgentsInTurn'
  <2>1. /\ \A v \in Runner \ {w} : task'[v] = task[v]
        /\ task'[w] = Idle /\ UNCHANGED <<assignee, raced, moved>>
    BY <1>4 DEF Throws, Shape, data
  <2> QED
    BY <1>0, <2>1, AgentsUntouched
<1>5. ASSUME NEW back, Stall(back)
      PROVE  AgentsInTurn'
  BY <1>0, <1>5, AgentsUntouched DEF Stall, data
<1>6. CASE FiveMinutes
  BY <1>6, AgentsUntouched DEF FiveMinutes
<1>7. CASE UNCHANGED vars
  BY <1>7, AgentsUntouched DEF vars
<1>8. CASE \E w \in Runner : Step(w)
  BY <1>2, <1>3, <1>4, <1>8, StepCases
<1>9. CASE Crash
  BY <1>5, <1>9, CrashStalls
<1> QED
  BY <1>1, <1>6, <1>7, <1>8, <1>9 DEF Next

\* Round robin keeps the agents within one lead of each other as long as no two
\* assignments overlapped, and within two once a lead was assigned again, however
\* many agents and leads there are: actionAssign.
THEOREM RoundRobinBalanced == Spec => []RoundRobinIsBalanced
<1> DEFINE Inv == Shape /\ AgentsInTurn
<1>1. Init => Inv
  <2> SUFFICES ASSUME Init PROVE Inv
    OBVIOUS
  <2>1. Shape
    BY InitShape
  <2>2. \A a \in Agent : Loads[a] = 0
    <3> TAKE a \in Agent
    <3>1. {l \in Lead : assignee[l] = a} = {}
      BY RuleAssumption DEF Init
    <3> QED
      BY <3>1, FS_EmptySet DEF Loads, Load
  <2>3. PICK f : f = Loads
    OBVIOUS
  <2>4. \A a \in Agent : f[a] = 0
    BY <2>2, <2>3
  <2>5. Even(f) /\ NearlyEven(f)
    BY <2>4 DEF Even, NearlyEven
  <2>6. \A w \in Runner : task[w].pc # "write"
    BY DEF Init, Idle
  <2> QED
    BY <2>1, <2>3, <2>5, <2>6 DEF AgentsInTurn
<1>2. Inv /\ [Next]_vars => Inv'
  BY ShapeIsKept, AgentsStayInTurn
<1>3. Inv => RoundRobinIsBalanced
  <2> SUFFICES ASSUME Inv, ~raced, NEW a \in Agent, NEW b \in Agent
               PROVE  Load(a) <= Load(b) + (IF moved THEN 2 ELSE 1)
    BY DEF RoundRobinIsBalanced
  <2>1. Loads[a] = Load(a) /\ Loads[b] = Load(b)
    BY DEF Loads
  <2>2. CASE moved
    BY <2>1, <2>2 DEF AgentsInTurn, NearlyEven
  <2>3. CASE ~moved
    BY <2>1, <2>3 DEF AgentsInTurn, Even
  <2> QED
    BY <2>2, <2>3
<1> QED
  BY <1>1, <1>2, <1>3, PTL DEF Spec
=============================================================================
