-------------------------- MODULE FollowUpsProofs --------------------------
(***************************************************************************)
(* Proofs about FollowUps: type correctness and the order of the steps for *)
(* any runs, sequences, leads, ticks, batches, failures and crashes.       *)
(***************************************************************************)
EXTENDS FollowUps, FiniteSetTheorems, TLAPS

-----------------------------------------------------------------------------
(* Shapes *)

EditRow == [seq : Sequence, id : Nat, list : StepList]

(* TypeOK, and that the rows of the ticks, updates and counts are functions *)
(* over their slots.                                                        *)
Shape ==
  /\ TypeOK
  /\ task \in [Tick -> Task \cup {Idle}]
  /\ edit \in [Editor -> EditRow \cup {NoEdit}]
  /\ sent = [r \in Run |-> sent[r]]

-----------------------------------------------------------------------------
(* The inductive invariant *)

(* Of a run a tick holds or that has a date, all the steps before are sent. *)
SentBefore(r, k) == \A j \in 0..k : j < k => TimesSent(r, j) > 0
Sending(t) == task[t].at \in {"send", "advance"}
TicksSendInOrder ==
  \A t \in Tick :
    /\ \A s \in todo[t] : SentBefore(s.run, s.step)
    /\ task[t] # Idle => SentBefore(task[t].run, task[t].step)
    /\ Sending(t) => TimesSent(task[t].run, task[t].step) > 0

(* What a tick holds is a run that was enrolled, as its row stands.         *)
HeldAreEnrolled ==
  \A t \in Tick :
    /\ \A s \in todo[t] : run[s.run].status # "none"
    /\ task[t] # Idle => run[task[t].run].status # "none"

(* A tick has a run once.                                                   *)
HeldOnce ==
  \A t \in Tick :
    /\ \A s, v \in todo[t] : s.run = v.run => s = v
    /\ task[t] # Idle => \A s \in todo[t] : s.run # task[t].run

(* Step k of a run goes out once more for each tick that has the run at k,  *)
(* and has not sent it, or at an earlier step; and once for the row, where  *)
(* it stands at k or before and no tick has the run where its row stands.   *)
Holds(t, r, k) == \/ \E s \in todo[t] : s.run = r /\ s.step = k
                  \/ task[t] # Idle /\ task[t].run = r /\ task[t].step = k
MaySend(t, r, k) ==
  \/ \E s \in todo[t] : s.run = r /\ s.step <= k
  \/ /\ task[t] # Idle /\ task[t].run = r
     /\ task[t].step < k \/ (task[t].step = k /\ ~Sending(t))
Pending(r, k) == {t \in Tick : MaySend(t, r, k)}
RowMaySend(r, k) == /\ run[r].status # "gone" /\ run[r].step <= k
                    /\ \A t \in Tick : ~Holds(t, r, run[r].step)
SendsAreCounted ==
  \A r \in Run : \A k \in Nat :
    TimesSent(r, k) + Cardinality(Pending(r, k)) + (IF RowMaySend(r, k) THEN 1 ELSE 0)
      <= 1 + faults + doubled[r]

(* Without edits a tick works on the steps its sequence has.                *)
AllSent(r) == \A k \in 0..Cardinality(steps[SeqOf[r]]) - 1 : TimesSent(r, k) > 0
Open(r) == LeadOf[r] \notin closed /\ run[r].status # "gone"
StepsStand ==
  /\ \A l \in Lead : lead[l] = "closed" => l \in closed
  /\ \A q \in Sequence : enabled[q] = "deleted" => \A r \in Run :
       SeqOf[r] = q => run[r].status \in {"none", "gone"}
  /\ edits = 0 =>
       /\ \A q \in Sequence : /\ IsFiniteSet(steps[q])
                              /\ \A s, t \in steps[q] : s.order = t.order => s = t
       /\ \A e \in Editor : edit[e] = NoEdit
       /\ \A t \in Tick : task[t] # Idle /\ Open(task[t].run) =>
            /\ task[t].steps = steps[SeqOf[task[t].run]]
            /\ task[t].at = "close" /\ task[t].to = "COMPLETED" => AllSent(task[t].run)
       /\ \A r \in Run : run[r].status = "COMPLETED" /\ Open(r) => AllSent(r)

(* Where one update is in progress at a time, it has left its sequence      *)
(* without steps.                                                           *)
EditsAreWhole ==
  \A q \in Sequence \ mixed :
    /\ \A s, t \in steps[q] : s.edit = t.edit
    /\ \A e \in Editor : edit[e] # NoEdit /\ edit[e].seq = q =>
         /\ steps[q] = {}
         /\ \A f \in Editor : edit[f] # NoEdit /\ edit[f].seq = q => f = e

-----------------------------------------------------------------------------
(* The steps of a list *)

(* A list without a step number k has at most k steps.                      *)
LEMMA NoStepLeft ==
  ASSUME NEW S, IsFiniteSet(S), \A s \in S : s.order \in Nat /\ s.edit \in Nat,
         \A s, t \in S : s.order = t.order => s = t,
         NEW k \in Nat, StepAt(S, k) = {}
  PROVE  Cardinality(S) \in Nat /\ Cardinality(S) <= k
<1> DEFINE Below(s) == {t \in S : Before(t, s)}
           n == Cardinality(S)
           rank == [s \in S |-> Cardinality(Below(s))]
<1>1. n \in Nat
  BY FS_CardinalityType
<1>2. \A s \in S : IsFiniteSet(Below(s)) /\ Cardinality(Below(s)) \in Nat /\ Cardinality(Below(s)) < n
  <2> TAKE s \in S
  <2>1. s \notin Below(s) /\ Below(s) \subseteq S
    BY DEF Before
  <2>2. IsFiniteSet(Below(s)) /\ Cardinality(Below(s)) <= n /\ (n = Cardinality(Below(s)) => S = Below(s))
    <3>1. Below(s) \in SUBSET S
      BY <2>1
    <3> HIDE DEF Below
    <3> QED
      BY <3>1, FS_Subset
  <2>3. Cardinality(Below(s)) \in Nat
    BY <2>2, FS_CardinalityType
  <2> HIDE DEF Below
  <2> QED
    BY <1>1, <2>1, <2>2, <2>3
<1>3. ASSUME NEW s \in S, NEW t \in S, s.order < t.order
      PROVE  Cardinality(Below(s)) # Cardinality(Below(t))
  <2>1. Below(s) \subseteq Below(t)
    BY <1>3 DEF Before
  <2>2. s \in Below(t) /\ s \notin Below(s)
    BY <1>3 DEF Before
  <2>3. Cardinality(Below(s)) = Cardinality(Below(t)) => Below(s) = Below(t)
    <3>1. Below(s) \in SUBSET Below(t) /\ IsFiniteSet(Below(t))
      BY <1>2, <2>1
    <3> HIDE DEF Below
    <3> QED
      BY <3>1, FS_Subset
  <2> QED
    BY <2>2, <2>3
<1>4. \A s \in S : Cardinality(Below(s)) # k
  BY DEF StepAt
<1>5. ASSUME k < n PROVE FALSE
  <2> DEFINE T == (0..(n - 1)) \ {k}
  <2>1. IsFiniteSet(0..(n - 1)) /\ Cardinality(0..(n - 1)) = n /\ k \in 0..(n - 1)
    <3> HIDE DEF n, T
    <3>1. 0 \in Int /\ n - 1 \in Int /\ ~(0 > n - 1) /\ (n - 1) - 0 + 1 = n
      BY <1>1, <1>5
    <3>2. /\ IsFiniteSet(0..(n - 1))
          /\ Cardinality(0..(n - 1)) = IF 0 > n - 1 THEN 0 ELSE (n - 1) - 0 + 1
      BY <3>1, FS_Interval
    <3> QED
      BY <1>1, <1>5, <3>1, <3>2
  <2>2. IsFiniteSet(T) /\ Cardinality(T) = n - 1
    <3> DEFINE I == 0..(n - 1)
    <3>1. IsFiniteSet(I) /\ Cardinality(I) = n /\ k \in I
      BY <2>1
    <3> HIDE DEF I, n
    <3>2. IsFiniteSet(I \ {k}) /\ Cardinality(I \ {k}) = n - 1
      BY <3>1, FS_RemoveElement
    <3> QED
      BY <3>2 DEF I
  <2>3. rank \in [S -> T]
    <3>1. \A s \in S : Cardinality(Below(s)) \in T
      <4> HIDE DEF Below, n
      <4> QED
        BY <1>1, <1>2, <1>4
    <3> QED
      BY <3>1
  <2>4. PICK s \in S, t \in S : s # t /\ rank[s] = rank[t]
    <3> HIDE DEF T, rank
    <3>1. Cardinality(T) < Cardinality(S)
      BY <1>1, <2>2
    <3> QED
      BY <2>2, <2>3, <3>1, FS_PigeonHole
  <2>5. s.order < t.order \/ t.order < s.order
    BY <2>4
  <2> QED
    BY <1>3, <2>4, <2>5
<1> QED
  BY <1>1, <1>5

LEMMA BeforeIsStep ==
  ASSUME NEW S \in SUBSET StepRow, NEW k
  PROVE  StepAt(S, k) \subseteq S /\ \A s \in S : s.order \in Nat /\ s.edit \in Nat
BY DEF StepAt, StepRow

-----------------------------------------------------------------------------
(* Shapes of the rows *)

K(label, r, k, S, to) == [at |-> label, run |-> r, step |-> k, steps |-> S, to |-> to]
Snap(r, k) == [run |-> r, step |-> k]
Ends == {"COMPLETED", "CANCELLED"}
Labels == {"lead", "close", "create", "send", "advance"}

LEMMA KFacts ==
  ASSUME NEW a, NEW r, NEW k, NEW S, NEW c
  PROVE  /\ K(a, r, k, S, c).at = a /\ K(a, r, k, S, c).run = r /\ K(a, r, k, S, c).step = k
         /\ K(a, r, k, S, c).steps = S /\ K(a, r, k, S, c).to = c
         /\ a \in Labels => K(a, r, k, S, c) # Idle
         /\ a \in Labels /\ r \in Run /\ k \in Nat /\ S \in SUBSET StepRow /\ c \in Ends
              => K(a, r, k, S, c) \in Task
         /\ Idle.at = "idle"
BY DEF K, Idle, Task, Labels, Ends

LEMMA TaskFacts ==
  ASSUME Shape, NEW t \in Tick, task[t] # Idle
  PROVE  /\ task[t] = K(task[t].at, task[t].run, task[t].step, task[t].steps, task[t].to)
         /\ task[t].at \in Labels /\ task[t].run \in Run /\ task[t].step \in Nat
         /\ task[t].steps \in SUBSET StepRow /\ task[t].to \in Ends
         /\ task[t].at # "idle"
<1>1. task[t] \in Task
  BY DEF Shape
<1> QED
  BY <1>1 DEF Task, K, Labels, Ends

LEMMA SnapFacts ==
  ASSUME Shape, NEW t \in Tick, NEW s \in todo[t]
  PROVE  s = Snap(s.run, s.step) /\ s.run \in Run /\ s.step \in Nat
<1>1. s \in Snapshot
  BY DEF Shape, TypeOK
<1> QED
  BY <1>1 DEF Snapshot, Snap

LEMMA TimesSentIsNat ==
  ASSUME Shape
  PROVE  \A r \in Run : \A k : TimesSent(r, k) \in Nat
BY DEF Shape, TypeOK, TimesSent

-----------------------------------------------------------------------------
(* What the steps do *)

(* The rows that runs and ticks do not read.                                *)
Still == UNCHANGED <<steps, enabled, lead, edit, mixed, closed, edits>>
Fetches(t) ==
  /\ task[t] = Idle /\ todo[t] = {}
  /\ \E S \in SUBSET Run :
       /\ \A r \in S : run[r].status = "ACTIVE"
       /\ todo' = [todo EXCEPT ![t] = {Snap(r, run[r].step) : r \in S}]
       /\ doubled' = [r \in Run |-> IF r \in S /\ Held(r) THEN doubled[r] + 1 ELSE doubled[r]]
  /\ Still /\ UNCHANGED <<run, task, sent, faults>>
Loads(t, s) ==
  /\ task[t] = Idle /\ s \in todo[t] /\ todo' = [todo EXCEPT ![t] = @ \ {s}]
  /\ \E a \in {"lead", "close"} :
       task' = [task EXCEPT ![t] = K(a, s.run, s.step, steps[SeqOf[s.run]], "CANCELLED")]
  /\ Still /\ UNCHANGED <<run, sent, faults, doubled>>
Decides(t) ==
  /\ task[t].at = "lead"
  /\ \E a \in {"close", "create"}, c \in Ends :
       /\ task' = [task EXCEPT ![t] = K(a, task[t].run, task[t].step, task[t].steps, c)]
       /\ c = "COMPLETED" /\ a = "close"
            => \/ lead[LeadOf[task[t].run]] = "closed"
               \/ StepAt(task[t].steps, task[t].step) = {}
  /\ Still /\ UNCHANGED <<run, todo, sent, faults, doubled>>
Counted(c, k) ==
  [j \in DOMAIN c \cup {k} |-> (IF j \in DOMAIN c THEN c[j] ELSE 0) + IF j = k THEN 1 ELSE 0]
Creates(t) ==
  /\ task[t].at = "create"
  /\ sent' = [sent EXCEPT ![task[t].run] = Counted(sent[task[t].run], task[t].step)]
  /\ task' = [task EXCEPT ![t] = K("send", task[t].run, task[t].step, task[t].steps, task[t].to)]
  /\ Still /\ UNCHANGED <<run, todo, faults, doubled>>
Sends(t) ==
  /\ task[t].at = "send"
  /\ task' = [task EXCEPT ![t] = K("advance", task[t].run, task[t].step, task[t].steps, task[t].to)]
  /\ Still /\ UNCHANGED <<run, todo, sent, faults, doubled>>
Closes(t) ==
  /\ task[t].at = "close" /\ task' = [task EXCEPT ![t] = Idle]
  /\ SetStatus(task[t].run, task[t].to)
  /\ Still /\ UNCHANGED <<todo, sent, faults, doubled>>
Advances(t) ==
  /\ task[t].at = "advance" /\ task' = [task EXCEPT ![t] = Idle]
  /\ LET r == task[t].run
     IN  \/ ~Exists(r) /\ UNCHANGED run
         \/ /\ Exists(r)
            /\ \E w \in When :
                 run' = [run EXCEPT ![r] = [@ EXCEPT !.step = task[t].step + 1, !.next = w]]
         \/ /\ Exists(r) /\ StepAt(task[t].steps, task[t].step + 1) = {}
            /\ run' = [run EXCEPT ![r] = [status |-> "COMPLETED", step |-> task[t].step + 1,
                                          next |-> "never"]]
  /\ Still /\ UNCHANGED <<todo, sent, faults, doubled>>

(* A tick lets go of its run, refused a message or after a fault; or the    *)
(* worker ends.                                                             *)
LetsGo ==
  /\ \A t \in Tick : (task'[t] = task[t] \/ task'[t] = Idle) /\ todo'[t] \subseteq todo[t]
  /\ task' = [t \in Tick |-> task'[t]] /\ todo' = [t \in Tick |-> todo'[t]]
  /\ \/ faults' = faults + 1
     \/ /\ UNCHANGED <<todo, faults>>
        /\ \E t \in Tick : task[t].at = "create" /\ task' = [task EXCEPT ![t] = Idle]
  /\ Still /\ UNCHANGED <<run, sent, doubled>>

(* Users, leads and the clock.                                              *)
Flows(r) ==
  /\ run'[r].step = run[r].step
  /\ \/ run'[r].status = run[r].status /\ (run[r].status = "none" => run'[r].next = run[r].next)
     \/ run[r].status = "none" /\ run'[r].status = "ACTIVE" /\ enabled[SeqOf[r]] # "deleted"
     \/ Exists(r) /\ run'[r].status \in {"CANCELLED", "gone"}
Outside ==
  /\ UNCHANGED <<todo, task, sent, doubled>>
  /\ faults' = faults \/ faults' = faults + 1
  /\ run' \in [Run -> RunRow] /\ \A r \in Run : Flows(r)
  /\ \/ Still
     \/ \E e \in Editor, q \in Sequence, list \in StepList :
          /\ steps' = [steps EXCEPT ![q] = {}]
          /\ edit' = [edit EXCEPT ![e] = [seq |-> q, id |-> edits + 1, list |-> list]]
          /\ edits' = edits + 1 /\ edit[e] = NoEdit
          /\ mixed' = IF \E f \in Editor : edit[f] # NoEdit /\ edit[f].seq = q
                      THEN mixed \cup {q} ELSE mixed
          /\ UNCHANGED <<run, enabled, lead, closed>>
     \/ \E e \in Editor :
          /\ edit[e] # NoEdit /\ edit' = [edit EXCEPT ![e] = NoEdit]
          /\ \/ UNCHANGED steps
             \/ steps' = [steps EXCEPT ![edit[e].seq] = @ \cup
                  {[order |-> s.order, channel |-> s.channel, edit |-> edit[e].id]
                   : s \in edit[e].list}]
          /\ UNCHANGED <<run, enabled, lead, mixed, closed, edits>>
     \/ \E q \in Sequence, b \in {"yes", "no"} :
          /\ enabled[q] # "deleted" /\ enabled' = [enabled EXCEPT ![q] = b]
          /\ UNCHANGED <<run, steps, lead, edit, mixed, closed, edits>>
     \/ \E q \in Sequence :
          /\ enabled' = [enabled EXCEPT ![q] = "deleted"] /\ steps' = [steps EXCEPT ![q] = {}]
          /\ \A r \in Run : SeqOf[r] = q => run'[r].status \in {"none", "gone"}
          /\ UNCHANGED <<lead, edit, mixed, closed, edits>>
     \/ \E l \in Lead, v \in {"open", "closed", "gone"} :
          /\ lead' = [lead EXCEPT ![l] = v]
          /\ closed' = IF v = "closed" THEN closed \cup {l} ELSE closed
          /\ UNCHANGED <<steps, enabled, edit, mixed, edits>>

LEMMA RowFacts ==
  ASSUME Shape, NEW r \in Run
  PROVE  /\ run[r].status \in {"none", "ACTIVE", "COMPLETED", "CANCELLED", "gone"}
         /\ run[r].step \in Nat /\ run[r].next \in When
         /\ \A s \in {"CANCELLED", "gone", "ACTIVE", "COMPLETED"} : [run[r] EXCEPT !.status = s] \in RunRow
         /\ \A w \in When : [run[r] EXCEPT !.next = w] \in RunRow
         /\ Exists(r) <=> run[r].status \in {"ACTIVE", "COMPLETED", "CANCELLED"}
<1>1. run[r] \in RunRow
  BY DEF Shape, TypeOK
<1> QED
  BY <1>1 DEF RunRow, Exists, When

LEMMA GoesTo ==
  ASSUME Shape, NEW t \in Tick, task[t] # Idle, NEW a, Goto(t, a)
  PROVE  task' = [task EXCEPT ![t] = K(a, task[t].run, task[t].step, task[t].steps, task[t].to)]
<1>1. task[t] = K(task[t].at, task[t].run, task[t].step, task[t].steps, task[t].to)
  BY TaskFacts
<1>2. [task[t] EXCEPT !.at = a] = K(a, task[t].run, task[t].step, task[t].steps, task[t].to)
  BY <1>1 DEF K
<1>3. task' = [task EXCEPT ![t] = [task[t] EXCEPT !.at = a]]
  BY DEF Shape, Goto
<1> QED
  BY <1>2, <1>3

LEMMA TickSteps ==
  ASSUME Shape, NEW t \in Tick, HandleFollowUpTick(t) \/ Step(t) \/ IterationFails(t)
  PROVE  \/ Fetches(t) \/ (\E s \in todo[t] : Loads(t, s)) \/ Decides(t) \/ Creates(t) \/ Sends(t)
         \/ Closes(t) \/ Advances(t) \/ LetsGo
<1>1. /\ task \in [Tick -> Task \cup {Idle}]
      /\ todo = [u \in Tick |-> todo[u]]
  BY DEF Shape, TypeOK
<1>2. task[t] # Idle =>
        /\ task[t] = K(task[t].at, task[t].run, task[t].step, task[t].steps, task[t].to)
        /\ task[t].run \in Run
  BY TaskFacts
<1>3. CASE HandleFollowUpTick(t)
  <2>1. PICK S \in Batches :
          /\ todo' = [todo EXCEPT ![t] = {[run |-> r, step |-> run[r].step] : r \in S}]
          /\ doubled' = [r \in Run |-> IF r \in S /\ Held(r) THEN doubled[r] + 1 ELSE doubled[r]]
    BY <1>3 DEF HandleFollowUpTick
  <2>2. S \in SUBSET Run /\ \A r \in S : run[r].status = "ACTIVE"
    BY DEF Batches, Due
  <2> QED
    BY <1>3, <2>1, <2>2 DEF HandleFollowUpTick, Fetches, Snap, Still, rows, history, budgets
<1>4. ASSUME NEW s \in todo[t], LoadSequence(t, s) PROVE Loads(t, s)
  BY <1>4 DEF LoadSequence, Loads, K, Still, rows, history, budgets
<1>5. ASSUME task[t] # Idle, LoadLead(t) PROVE Decides(t)
  <2>1. \A c : Close(t, c) =>
          task' = [task EXCEPT ![t] = K("close", task[t].run, task[t].step, task[t].steps, c)]
    BY <1>1, <1>2, <1>5 DEF Close, K
  <2>2. Goto(t, "create") =>
          task' = [task EXCEPT ![t] = K("create", task[t].run, task[t].step, task[t].steps, task[t].to)]
    BY <1>5, GoesTo
  <2>3. lead[LeadOf[task[t].run]] \in {"gone", "closed", "open"} /\ task[t].to \in Ends
    BY <1>2, <1>5, FollowUpsAssumption, TaskFacts DEF Shape, TypeOK
  <2>4. Still /\ UNCHANGED <<run, todo, sent, faults, doubled>> /\ task[t].at = "lead"
    BY <1>5 DEF LoadLead, Still, rows, history, budgets
  <2>5. CASE Close(t, "CANCELLED")
    BY <2>1, <2>4, <2>5 DEF Decides, Ends
  <2>6. CASE Close(t, "COMPLETED") /\ (lead[LeadOf[task[t].run]] = "closed" \/ Last(t))
    BY <2>1, <2>4, <2>6 DEF Decides, Ends, Last
  <2>7. CASE Goto(t, "create")
    BY <2>2, <2>3, <2>4, <2>7 DEF Decides
  <2> QED
    BY <1>5, <2>3, <2>5, <2>6, <2>7 DEF LoadLead
<1>6. ASSUME task[t] # Idle, CloseRun(t) PROVE Closes(t)
  BY <1>6 DEF CloseRun, Closes, NextRun, Still, history, budgets
<1>7. ASSUME task[t] # Idle, CreateMessage(t) PROVE Creates(t) \/ LetsGo
  <2>1. CASE AfterRefusal(t) /\ UNCHANGED sent
    <3>1. task' = [task EXCEPT ![t] = Idle] /\ Still /\ UNCHANGED <<run, todo, sent, faults, doubled>>
      BY <1>7, <2>1 DEF CreateMessage, AfterRefusal, NextRun, Still, rows, budgets
    <3>2. \A u \in Tick : task'[u] = task[u] \/ task'[u] = Idle
      BY <1>1, <3>1
    <3>3. task' = [u \in Tick |-> task'[u]] /\ todo' = [u \in Tick |-> todo'[u]]
      BY <1>1, <3>1
    <3>4. task[t].at = "create"
      BY <1>7 DEF CreateMessage
    <3> QED
      BY <3>1, <3>2, <3>3, <3>4 DEF LetsGo
  <2>2. ASSUME Goto(t, "send")
        PROVE  task' = [task EXCEPT ![t] = K("send", task[t].run, task[t].step, task[t].steps, task[t].to)]
    BY <1>7, <2>2, GoesTo
  <2>3. \/ AfterRefusal(t) /\ UNCHANGED sent
        \/ /\ Goto(t, "send")
           /\ sent' = [sent EXCEPT ![task[t].run] = Counted(sent[task[t].run], task[t].step)]
    BY <1>7 DEF CreateMessage, Counted
  <2>4. task[t].at = "create" /\ Still /\ UNCHANGED <<run, todo, faults, doubled>>
    BY <1>7 DEF CreateMessage, Still, rows, budgets
  <2> QED
    BY <2>1, <2>2, <2>3, <2>4 DEF Creates
<1>8. ASSUME task[t] # Idle, SendMessage(t) PROVE Sends(t)
  <2>1. task' = [task EXCEPT ![t] = K("advance", task[t].run, task[t].step, task[t].steps, task[t].to)]
    BY <1>8, GoesTo DEF SendMessage
  <2> QED
    BY <1>8, <2>1 DEF SendMessage, Sends, Still, rows, history, budgets
<1>9. ASSUME task[t] # Idle, Advance(t) PROVE Advances(t)
  BY <1>9 DEF Advance, Advances, Advanced, NextRun, When, Still, history, budgets
<1>10. CASE IterationFails(t)
  <2>1. task' = [task EXCEPT ![t] = Idle] /\ faults' = faults + 1
        /\ Still /\ UNCHANGED <<run, todo, sent, doubled>>
    BY <1>10 DEF IterationFails, Fault, NextRun, Still, rows, history
  <2>2. (\A u \in Tick : task'[u] = task[u] \/ task'[u] = Idle) /\ task' = [u \in Tick |-> task'[u]]
    BY <1>1, <2>1
  <2>3. todo' = [u \in Tick |-> todo'[u]]
    BY <1>1, <2>1
  <2> QED
    BY <2>1, <2>2, <2>3 DEF LetsGo
<1> QED
  BY <1>3, <1>4, <1>5, <1>6, <1>7, <1>8, <1>9, <1>10 DEF Step

LEMMA OutsideSteps ==
  ASSUME Shape,
         \/ \E r \in Run : EnrollLead(r) \/ CancelRun(r) \/ Elapse(r)
         \/ \E e \in Editor :
              \/ \E q \in Sequence, list \in StepList : DeleteSteps(e, q, list)
              \/ CreateSteps(e) \/ EditFails(e)
         \/ \E q \in Sequence : ToggleSequence(q) \/ Remove(q)
         \/ \E l \in Lead : CloseLead(l) \/ ReopenLead(l) \/ DeleteLead(l)
         \/ UNCHANGED vars,
         \A r \in Run : run[r].status = "none" => run[r].step = 0 /\ run[r].next = "never"
  PROVE  Outside
<1>1. run \in [Run -> RunRow] /\ enabled \in [Sequence -> {"yes", "no", "deleted"}]
  BY DEF Shape, TypeOK
<1>2. UNCHANGED run => run' \in [Run -> RunRow] /\ \A r \in Run : Flows(r)
  BY <1>1 DEF Flows
<1>3. ASSUME NEW r \in Run, EnrollLead(r) \/ CancelRun(r) \/ Elapse(r) PROVE Outside
  <2>1. Still /\ UNCHANGED <<todo, task, sent, faults, doubled>>
    BY <1>3 DEF EnrollLead, CancelRun, Elapse, Still, history, budgets
  <2>2. \E row \in RunRow :
          /\ run' = [run EXCEPT ![r] = row] /\ row.step = run[r].step
          /\ \/ row.status = run[r].status /\ run[r].status # "none"
             \/ run[r].status = "none" /\ row.status = "ACTIVE" /\ enabled[SeqOf[r]] # "deleted"
             \/ Exists(r) /\ row.status = "CANCELLED"
    <3>1. CASE EnrollLead(r)
      <4>1. PICK w \in {"never", "later", "due"} :
              run' = [run EXCEPT ![r] = [status |-> "ACTIVE", step |-> 0, next |-> w]]
        BY <3>1 DEF EnrollLead
      <4>2. [status |-> "ACTIVE", step |-> 0, next |-> w] \in RunRow
        BY DEF RunRow, When
      <4> QED
        BY <3>1, <4>1, <4>2 DEF EnrollLead
    <3>2. CASE CancelRun(r)
      <4>1. run' = [run EXCEPT ![r] = [run[r] EXCEPT !.status = "CANCELLED"]]
        BY <1>1, <3>2 DEF CancelRun
      <4>2. [run[r] EXCEPT !.status = "CANCELLED"] \in RunRow
            /\ [run[r] EXCEPT !.status = "CANCELLED"].step = run[r].step
            /\ [run[r] EXCEPT !.status = "CANCELLED"].status = "CANCELLED"
        BY <1>1 DEF RunRow
      <4> QED
        BY <3>2, <4>1, <4>2 DEF CancelRun
    <3>3. CASE Elapse(r)
      <4>1. run' = [run EXCEPT ![r] = [run[r] EXCEPT !.next = "due"]]
        BY <1>1, <3>3 DEF Elapse
      <4>2. [run[r] EXCEPT !.next = "due"] \in RunRow
            /\ [run[r] EXCEPT !.next = "due"].step = run[r].step
            /\ [run[r] EXCEPT !.next = "due"].status = run[r].status
        BY <1>1 DEF RunRow, When
      <4>3. run[r].status # "none"
        BY <3>3 DEF Elapse
      <4> QED
        BY <4>1, <4>2, <4>3
    <3> QED
      BY <1>3, <3>1, <3>2, <3>3
  <2>3. run' \in [Run -> RunRow] /\ \A k \in Run : Flows(k)
    BY <1>1, <2>2 DEF Flows
  <2> QED
    BY <2>1, <2>3 DEF Outside
<1>4. ASSUME NEW e \in Editor, NEW q \in Sequence, NEW list \in StepList, DeleteSteps(e, q, list)
      PROVE  Outside
  BY <1>2, <1>4 DEF DeleteSteps, Kept, Outside, history
<1>5. ASSUME NEW e \in Editor, CreateSteps(e) \/ EditFails(e) PROVE Outside
  <2>1. /\ UNCHANGED <<run, enabled, lead, todo, task, sent, doubled, mixed, closed, edits>>
        /\ edit[e] # NoEdit /\ edit' = [edit EXCEPT ![e] = NoEdit]
        /\ faults' = faults \/ faults' = faults + 1
    BY <1>5 DEF CreateSteps, EditFails, Fault, rows, history, budgets
  <2>2. \/ UNCHANGED steps
        \/ steps' = [steps EXCEPT ![edit[e].seq] = @ \cup
             {[order |-> s.order, channel |-> s.channel, edit |-> edit[e].id]
              : s \in edit[e].list}]
    BY <1>5 DEF CreateSteps, EditFails, rows
  <2> QED
    BY <1>2, <2>1, <2>2 DEF Outside
<1>6. ASSUME NEW q \in Sequence, ToggleSequence(q) PROVE Outside
  <2>1. \E b \in {"yes", "no"} : enabled' = [enabled EXCEPT ![q] = b]
    BY <1>6 DEF ToggleSequence
  <2> QED
    BY <1>2, <1>6, <2>1 DEF ToggleSequence, Outside, history, budgets
<1>7. ASSUME NEW q \in Sequence, Remove(q) PROVE Outside
  <2>1. \A r \in Run : run'[r] = IF SeqOf[r] = q /\ Exists(r)
                                 THEN [run[r] EXCEPT !.status = "gone"] ELSE run[r]
    BY <1>7 DEF Remove
  <2>2. \A r \in Run : /\ run'[r] \in RunRow /\ Flows(r)
                       /\ SeqOf[r] = q => run'[r].status \in {"none", "gone"}
    BY <1>1, <2>1 DEF RunRow, Flows, Exists
  <2>3. run' = [r \in Run |-> run'[r]]
    BY <1>7 DEF Remove
  <2>4. run' \in [Run -> RunRow]
    BY <2>2, <2>3
  <2> QED
    BY <1>7, <2>2, <2>4 DEF Remove, Outside, history, budgets
<1>8. ASSUME NEW l \in Lead, CloseLead(l) \/ ReopenLead(l) PROVE Outside
  BY <1>2, <1>8 DEF CloseLead, ReopenLead, Outside, history, budgets
<1>9. ASSUME NEW l \in Lead, DeleteLead(l) PROVE Outside
  <2>1. \A r \in Run : run'[r] = IF LeadOf[r] = l /\ Exists(r)
                                 THEN [run[r] EXCEPT !.status = "gone"] ELSE run[r]
    BY <1>9 DEF DeleteLead
  <2>2. ASSUME NEW r \in Run PROVE run'[r] \in RunRow /\ Flows(r)
    <3>1. CASE LeadOf[r] = l /\ Exists(r)
      <4>1. run'[r] = [run[r] EXCEPT !.status = "gone"] /\ run[r] \in RunRow
        BY <1>1, <2>1, <3>1
      <4>2. run'[r] \in RunRow /\ run'[r].status = "gone" /\ run'[r].step = run[r].step
        BY <4>1 DEF RunRow
      <4> QED
        BY <3>1, <4>2 DEF Flows
    <3>2. CASE ~(LeadOf[r] = l /\ Exists(r))
      BY <1>1, <2>1, <3>2 DEF Flows
    <3> QED
      BY <3>1, <3>2
  <2>3. run' = [r \in Run |-> run'[r]]
    BY <1>9 DEF DeleteLead
  <2>4. run' \in [Run -> RunRow]
    BY <2>2, <2>3
  <2> QED
    BY <1>9, <2>2, <2>4 DEF DeleteLead, Outside, history, budgets
<1>10. CASE UNCHANGED vars
  BY <1>2, <1>10 DEF vars, rows, history, budgets, Outside, Still
<1> QED
  BY <1>3, <1>4, <1>5, <1>6, <1>7, <1>8, <1>9, <1>10

(* A run that nobody enrolled is a blank row.                               *)
Blank == \A r \in Run : run[r].status = "none" => run[r].step = 0 /\ run[r].next = "never"

LEMMA NextCases ==
  ASSUME Shape, Blank, [Next]_vars
  PROVE  \/ \E t \in Tick : \/ Fetches(t) \/ (\E s \in todo[t] : Loads(t, s)) \/ Decides(t)
                            \/ Creates(t) \/ Sends(t) \/ Closes(t) \/ Advances(t)
         \/ LetsGo \/ Outside
<1>1. CASE Crash
  BY <1>1 DEF Crash, Fault, LetsGo, Still, rows, history
<1> QED
  BY <1>1, TickSteps, OutsideSteps DEF Next, Blank

-----------------------------------------------------------------------------
(* Types *)

LEMMA CountedFacts ==
  ASSUME NEW c, \A j \in DOMAIN c : j \in Nat /\ c[j] \in Nat, NEW k \in Nat
  PROVE  /\ DOMAIN Counted(c, k) = DOMAIN c \cup {k}
         /\ \A j \in DOMAIN Counted(c, k) : j \in Nat /\ Counted(c, k)[j] \in Nat
         /\ \A j \in DOMAIN c : Counted(c, k)[j] = c[j] + (IF j = k THEN 1 ELSE 0)
         /\ k \notin DOMAIN c => Counted(c, k)[k] = 1
<1>1. \A j \in DOMAIN c \cup {k} :
        Counted(c, k)[j] = (IF j \in DOMAIN c THEN c[j] ELSE 0) + IF j = k THEN 1 ELSE 0
  BY DEF Counted
<1>2. DOMAIN Counted(c, k) = DOMAIN c \cup {k}
  BY DEF Counted
<1> QED
  BY <1>1, <1>2

(* What a message adds to the counts.                                       *)
LEMMA CreatedCounts ==
  ASSUME Shape, NEW t \in Tick, Creates(t)
  PROVE  LET r == task[t].run
             k == task[t].step
         IN  /\ r \in Run /\ k \in Nat /\ sent' = [q \in Run |-> sent'[q]]
             /\ \A q \in Run : \A j \in DOMAIN sent'[q] : j \in Nat /\ sent'[q][j] \in Nat
             /\ \A q \in Run \ {r} : sent'[q] = sent[q]
             /\ DOMAIN sent'[r] = DOMAIN sent[r] \cup {k}
             /\ \A j \in DOMAIN sent[r] : sent'[r][j] = sent[r][j] + (IF j = k THEN 1 ELSE 0)
             /\ k \notin DOMAIN sent[r] => sent'[r][k] = 1
<1>1. task[t] # Idle
  BY KFacts DEF Creates
<1>2. PICK r \in Run : r = task[t].run
  BY <1>1, TaskFacts
<1>3. PICK k \in Nat : k = task[t].step
  BY <1>1, TaskFacts
<1>4. sent' = [sent EXCEPT ![r] = Counted(sent[r], k)] /\ sent = [q \in Run |-> sent[q]]
  BY <1>2, <1>3 DEF Creates, Shape
<1>5. sent' = [q \in Run |-> sent'[q]] /\ (\A q \in Run \ {r} : sent'[q] = sent[q])
      /\ sent'[r] = Counted(sent[r], k)
  BY <1>4
<1>6. \A q \in Run : \A j \in DOMAIN sent[q] : j \in Nat /\ sent[q][j] \in Nat
  BY DEF Shape, TypeOK
<1>7. /\ DOMAIN sent'[r] = DOMAIN sent[r] \cup {k}
      /\ \A j \in DOMAIN sent'[r] : j \in Nat /\ sent'[r][j] \in Nat
      /\ \A j \in DOMAIN sent[r] : sent'[r][j] = sent[r][j] + (IF j = k THEN 1 ELSE 0)
      /\ k \notin DOMAIN sent[r] => sent'[r][k] = 1
  <2> DEFINE c == sent[r]
  <2>1. \A j \in DOMAIN c : j \in Nat /\ c[j] \in Nat
    BY <1>6
  <2> HIDE DEF c
  <2>2. /\ DOMAIN Counted(c, k) = DOMAIN c \cup {k}
        /\ \A j \in DOMAIN Counted(c, k) : j \in Nat /\ Counted(c, k)[j] \in Nat
        /\ \A j \in DOMAIN c : Counted(c, k)[j] = c[j] + (IF j = k THEN 1 ELSE 0)
        /\ k \notin DOMAIN c => Counted(c, k)[k] = 1
    BY <2>1, CountedFacts
  <2>3. sent'[r] = Counted(c, k)
    BY <1>5 DEF c
  <2> QED
    BY <2>2, <2>3 DEF c
<1>8. \A q \in Run : \A j \in DOMAIN sent'[q] : j \in Nat /\ sent'[q][j] \in Nat
  BY <1>5, <1>6, <1>7
<1> QED
  BY <1>2, <1>3, <1>5, <1>7, <1>8

(* How the rows of runs change.                                             *)
LEMMA ClosedRow ==
  ASSUME Shape, NEW t \in Tick, Closes(t)
  PROVE  LET r == task[t].run
         IN  /\ r \in Run /\ run' \in [Run -> RunRow] /\ \A q \in Run \ {r} : run'[q] = run[q]
             /\ run'[r].step = run[r].step
             /\ Exists(r) => run'[r].status = task[t].to /\ task[t].to \in Ends
             /\ ~Exists(r) => run'[r] = run[r]
<1>1. PICK r \in Run : r = task[t].run /\ task[t].to \in Ends
  BY TaskFacts, KFacts DEF Closes
<1>2. run' = IF Exists(r) THEN [run EXCEPT ![r].status = task[t].to] ELSE run
  BY <1>1 DEF Closes, SetStatus
<1>3. run \in [Run -> RunRow]
  BY DEF Shape, TypeOK
<1>4. CASE Exists(r)
  <2>1. run' = [run EXCEPT ![r].status = task[t].to] /\ run[r] \in RunRow
    BY <1>2, <1>3, <1>4
  <2>2. /\ [run[r] EXCEPT !.status = task[t].to] \in RunRow
        /\ [run[r] EXCEPT !.status = task[t].to].step = run[r].step
        /\ [run[r] EXCEPT !.status = task[t].to].status = task[t].to
    BY <1>1, <2>1 DEF RunRow, Ends
  <2>3. run' = [run EXCEPT ![r] = [run[r] EXCEPT !.status = task[t].to]]
    BY <1>3, <2>1
  <2> QED
    BY <1>1, <1>3, <1>4, <2>2, <2>3
<1>5. CASE ~Exists(r)
  BY <1>1, <1>2, <1>3, <1>5
<1> QED
  BY <1>4, <1>5

Moved(row, k, w) == [row EXCEPT !.step = k, !.next = w]

LEMMA MovedRow ==
  ASSUME NEW row \in RunRow, NEW k \in Nat, NEW w \in When
  PROVE  Moved(row, k, w) \in RunRow /\ Moved(row, k, w).step = k /\ Moved(row, k, w).status = row.status
BY DEF RunRow, Moved

LEMMA AdvancedRow ==
  ASSUME Shape, NEW t \in Tick, Advances(t)
  PROVE  LET r == task[t].run
             k == task[t].step
         IN  /\ r \in Run /\ k \in Nat
             /\ run' \in [Run -> RunRow] /\ \A q \in Run \ {r} : run'[q] = run[q]
             /\ ~Exists(r) => run'[r] = run[r]
             /\ Exists(r) =>
                  /\ run'[r].step = k + 1
                  /\ \/ run'[r].status = run[r].status
                     \/ run'[r].status = "COMPLETED" /\ StepAt(task[t].steps, k + 1) = {}
<1>1. PICK r \in Run : r = task[t].run
  BY TaskFacts, KFacts DEF Advances
<1>2. PICK k \in Nat : k = task[t].step
  BY TaskFacts, KFacts DEF Advances
<1>3. run \in [Run -> RunRow] /\ run[r] \in RunRow
  BY DEF Shape, TypeOK
<1>4. CASE ~Exists(r)
  <2>1. UNCHANGED run
    BY <1>1, <1>4 DEF Advances
  <2> QED
    BY <1>1, <1>2, <1>3, <1>4, <2>1
<1>5. ASSUME Exists(r), NEW w \in When,
             run' = [run EXCEPT ![r] = [@ EXCEPT !.step = k + 1, !.next = w]]
      PROVE  /\ run' \in [Run -> RunRow] /\ (\A q \in Run \ {r} : run'[q] = run[q])
             /\ run'[r].step = k + 1 /\ run'[r].status = run[r].status
  <2>1. run' = [run EXCEPT ![r] = Moved(run[r], k + 1, w)]
    BY <1>3, <1>5 DEF Moved
  <2>2. PICK m \in Nat : m = k + 1
    BY <1>2
  <2>3. /\ Moved(run[r], m, w) \in RunRow /\ Moved(run[r], m, w).step = m
        /\ Moved(run[r], m, w).status = run[r].status
    BY <1>3, <1>5, MovedRow
  <2> QED
    BY <1>3, <2>1, <2>2, <2>3
<1>6. ASSUME run' = [run EXCEPT ![r] = [status |-> "COMPLETED", step |-> k + 1, next |-> "never"]]
      PROVE  /\ run' \in [Run -> RunRow] /\ (\A q \in Run \ {r} : run'[q] = run[q])
             /\ run'[r].step = k + 1 /\ run'[r].status = "COMPLETED"
  <2>1. [status |-> "COMPLETED", step |-> k + 1, next |-> "never"] \in RunRow
    BY DEF RunRow, When
  <2> QED
    BY <1>3, <1>6, <2>1
<1>7. CASE Exists(r)
  <2>1. \/ \E w \in When : run' = [run EXCEPT ![r] = [@ EXCEPT !.step = k + 1, !.next = w]]
        \/ /\ StepAt(task[t].steps, k + 1) = {}
           /\ run' = [run EXCEPT ![r] = [status |-> "COMPLETED", step |-> k + 1, next |-> "never"]]
    BY <1>1, <1>2, <1>7 DEF Advances
  <2> QED
    BY <1>1, <1>2, <1>5, <1>6, <1>7, <2>1
<1> QED
  BY <1>4, <1>7

(* How the tick's hand changes.                                             *)
LEMMA NextHand ==
  ASSUME Shape, Blank, [Next]_vars
  PROVE  task' \in [Tick -> Task \cup {Idle}] /\ todo' \in [Tick -> SUBSET Snapshot]
<1>1. /\ task \in [Tick -> Task \cup {Idle}] /\ todo \in [Tick -> SUBSET Snapshot]
      /\ steps \in [Sequence -> SUBSET StepRow] /\ SeqOf \in [Run -> Sequence]
      /\ run \in [Run -> RunRow]
  BY FollowUpsAssumption DEF Shape, TypeOK
<1>2. ASSUME NEW t \in Tick, Fetches(t) PROVE UNCHANGED task /\ todo' \in [Tick -> SUBSET Snapshot]
  <2>1. PICK S \in SUBSET Run : todo' = [todo EXCEPT ![t] = {Snap(r, run[r].step) : r \in S}]
    BY <1>2 DEF Fetches
  <2>2. \A r \in Run : Snap(r, run[r].step) \in Snapshot
    BY <1>1 DEF Snap, Snapshot, RunRow
  <2>3. {Snap(r, run[r].step) : r \in S} \in SUBSET Snapshot
    BY <2>2
  <2> DEFINE new == {Snap(r, run[r].step) : r \in S}
  <2> HIDE DEF new
  <2>4. new \in SUBSET Snapshot /\ todo' = [todo EXCEPT ![t] = new]
    BY <2>1, <2>3 DEF new
  <2> QED
    BY <1>1, <1>2, <2>4 DEF Fetches
<1>3. ASSUME NEW t \in Tick, NEW s \in todo[t], Loads(t, s)
      PROVE  task' \in [Tick -> Task \cup {Idle}] /\ todo' \in [Tick -> SUBSET Snapshot]
  <2>1. s.run \in Run /\ s.step \in Nat /\ steps[SeqOf[s.run]] \in SUBSET StepRow
    BY <1>1, SnapFacts
  <2>2. PICK a \in {"lead", "close"} :
          task' = [task EXCEPT ![t] = K(a, s.run, s.step, steps[SeqOf[s.run]], "CANCELLED")]
    BY <1>3 DEF Loads
  <2>3. a \in Labels /\ "CANCELLED" \in Ends
    BY DEF Labels, Ends
  <2>4. K(a, s.run, s.step, steps[SeqOf[s.run]], "CANCELLED") \in Task
    BY <2>1, <2>3, KFacts
  <2> QED
    BY <1>1, <1>3, <2>2, <2>4 DEF Loads
<1>4. ASSUME NEW t \in Tick, NEW a \in Labels, NEW c \in Ends, task[t] # Idle,
             task' = [task EXCEPT ![t] = K(a, task[t].run, task[t].step, task[t].steps, c)]
      PROVE  task' \in [Tick -> Task \cup {Idle}]
  <2>1. K(a, task[t].run, task[t].step, task[t].steps, c) \in Task
    BY <1>4, TaskFacts, KFacts
  <2> QED
    BY <1>1, <1>4, <2>1
<1>5. ASSUME NEW t \in Tick, Decides(t) \/ Creates(t) \/ Sends(t)
      PROVE  task' \in [Tick -> Task \cup {Idle}] /\ UNCHANGED todo
  <2>1. task[t] # Idle /\ UNCHANGED todo
    BY <1>5, KFacts DEF Decides, Creates, Sends
  <2>2. task[t].to \in Ends
    BY <2>1, TaskFacts
  <2>3. \E a \in Labels, c \in Ends :
          task' = [task EXCEPT ![t] = K(a, task[t].run, task[t].step, task[t].steps, c)]
    BY <1>5, <2>2 DEF Decides, Creates, Sends, Labels
  <2> QED
    BY <1>4, <2>1, <2>3
<1>6. ASSUME NEW t \in Tick, Closes(t) \/ Advances(t)
      PROVE  task' \in [Tick -> Task \cup {Idle}] /\ UNCHANGED todo
  <2>1. task' = [task EXCEPT ![t] = Idle] /\ UNCHANGED todo
    BY <1>6 DEF Closes, Advances
  <2> QED
    BY <1>1, <2>1
<1>7. CASE LetsGo
  <2>1. \A t \in Tick : task'[t] \in Task \cup {Idle} /\ todo'[t] \in SUBSET Snapshot
    BY <1>1, <1>7 DEF LetsGo
  <2>2. task' = [t \in Tick |-> task'[t]] /\ todo' = [t \in Tick |-> todo'[t]]
    BY <1>7 DEF LetsGo
  <2> QED
    BY <2>1, <2>2
<1>8. CASE Outside
  BY <1>1, <1>8 DEF Outside
<1> QED
  BY <1>1, <1>2, <1>3, <1>5, <1>6, <1>7, <1>8, NextCases

LEMMA NewSteps ==
  ASSUME Shape, NEW e \in Editor, edit[e] # NoEdit
  PROVE  /\ edit[e].seq \in Sequence /\ edit[e].id \in Nat /\ edit[e].list \in StepList
         /\ {[order |-> s.order, channel |-> s.channel, edit |-> edit[e].id] : s \in edit[e].list}
              \in SUBSET StepRow
<1>1. edit[e].seq \in Sequence /\ edit[e].id \in Nat /\ edit[e].list \in StepList
  BY DEF Shape, EditRow
<1>2. \A s \in edit[e].list : s.order \in Nat /\ s.channel \in Channel
  BY <1>1, FollowUpsAssumption
<1> QED
  BY <1>1, <1>2 DEF StepRow

LEMMA NextShape ==
  ASSUME Shape, Blank, [Next]_vars
  PROVE  Shape'
<1>1. task' \in [Tick -> Task \cup {Idle}] /\ todo' \in [Tick -> SUBSET Snapshot]
  BY NextHand
<1>2. /\ run \in [Run -> RunRow] /\ steps \in [Sequence -> SUBSET StepRow]
      /\ enabled \in [Sequence -> {"yes", "no", "deleted"}]
      /\ lead \in [Lead -> {"open", "closed", "gone"}]
      /\ edit \in [Editor -> EditRow \cup {NoEdit}] /\ closed \subseteq Lead
      /\ edits \in Nat /\ faults \in Nat /\ mixed \subseteq Sequence /\ doubled \in [Run -> Nat]
      /\ sent = [r \in Run |-> sent[r]]
      /\ \A r \in Run : \A k \in DOMAIN sent[r] : k \in Nat /\ sent[r][k] \in Nat
  BY DEF Shape, TypeOK
<1> DEFINE Rows == /\ steps' \in [Sequence -> SUBSET StepRow]
                   /\ enabled' \in [Sequence -> {"yes", "no", "deleted"}]
                   /\ lead' \in [Lead -> {"open", "closed", "gone"}]
                   /\ edit' \in [Editor -> EditRow \cup {NoEdit}] /\ closed' \subseteq Lead
                   /\ edits' \in Nat /\ mixed' \subseteq Sequence
           Counts == /\ sent' = [r \in Run |-> sent'[r]]
                     /\ \A r \in Run : \A k \in DOMAIN sent'[r] : k \in Nat /\ sent'[r][k] \in Nat
           Faulty == faults' \in Nat /\ doubled' \in [Run -> Nat]
<1>3. Still => Rows
  BY <1>2 DEF Still
<1>4. UNCHANGED sent => Counts
  BY <1>2
<1>5. UNCHANGED <<faults, doubled>> => Faulty
  BY <1>2
<1> HIDE DEF Rows, Counts, Faulty
<1>6. CASE \E t \in Tick : \/ Fetches(t) \/ (\E s \in todo[t] : Loads(t, s)) \/ Decides(t) \/ Sends(t)
  <2>1. Still /\ UNCHANGED <<run, sent, faults>>
    BY <1>6 DEF Fetches, Loads, Decides, Sends
  <2>2. doubled' \in [Run -> Nat]
    <3>1. ASSUME NEW S, doubled' = [r \in Run |-> IF r \in S /\ Held(r) THEN doubled[r] + 1 ELSE doubled[r]]
          PROVE  doubled' \in [Run -> Nat]
      BY <1>2, <3>1
    <3>2. \/ UNCHANGED doubled
          \/ \E S : doubled' =
               [r \in Run |-> IF r \in S /\ Held(r) THEN doubled[r] + 1 ELSE doubled[r]]
      BY <1>6 DEF Fetches, Loads, Decides, Sends
    <3> QED
      BY <1>2, <3>1, <3>2
  <2>3. Rows /\ Counts /\ Faulty /\ run' \in [Run -> RunRow]
    BY <1>2, <1>3, <1>4, <2>1, <2>2 DEF Faulty
  <2> QED
    BY <1>1, <2>3 DEF Rows, Counts, Faulty, Shape, TypeOK, EditRow
<1>7. ASSUME NEW t \in Tick, Creates(t) PROVE Shape'
  <2>1. Counts
    BY <1>7, CreatedCounts DEF Counts
  <2>2. Rows /\ Faulty /\ run' \in [Run -> RunRow]
    BY <1>2, <1>3, <1>5, <1>7 DEF Creates
  <2> QED
    BY <1>1, <2>1, <2>2 DEF Rows, Counts, Faulty, Shape, TypeOK, EditRow
<1>8. ASSUME NEW t \in Tick, Closes(t) \/ Advances(t) PROVE Shape'
  <2>1. Rows /\ Faulty /\ Counts
    BY <1>3, <1>4, <1>5, <1>8 DEF Closes, Advances
  <2>2. run' \in [Run -> RunRow]
    BY <1>8, ClosedRow, AdvancedRow
  <2> QED
    BY <1>1, <2>1, <2>2 DEF Rows, Counts, Faulty, Shape, TypeOK, EditRow
<1>9. CASE LetsGo
  <2>1. Rows /\ Faulty /\ Counts /\ run' \in [Run -> RunRow]
    BY <1>2, <1>3, <1>4, <1>5, <1>9 DEF LetsGo, Faulty
  <2> QED
    BY <1>1, <2>1 DEF Rows, Counts, Faulty, Shape, TypeOK, EditRow
<1>10. CASE Outside
  <2>1. Faulty /\ Counts /\ run' \in [Run -> RunRow]
    BY <1>2, <1>4, <1>10 DEF Outside, Faulty
  <2>2. Rows
    <3>1. ASSUME NEW e \in Editor, NEW q \in Sequence, NEW list \in StepList,
                 steps' = [steps EXCEPT ![q] = {}], edits' = edits + 1,
                 edit' = [edit EXCEPT ![e] = [seq |-> q, id |-> edits + 1, list |-> list]],
                 mixed' = IF \E f \in Editor : edit[f] # NoEdit /\ edit[f].seq = q
                          THEN mixed \cup {q} ELSE mixed,
                 UNCHANGED <<enabled, lead, closed>>
          PROVE  Rows
      <4>1. [seq |-> q, id |-> edits + 1, list |-> list] \in EditRow
        BY <1>2 DEF EditRow
      <4>2. edit' \in [Editor -> EditRow \cup {NoEdit}]
        BY <1>2, <3>1, <4>1
      <4> QED
        BY <1>2, <3>1, <4>2 DEF Rows
    <3>2. ASSUME NEW e \in Editor, edit[e] # NoEdit, edit' = [edit EXCEPT ![e] = NoEdit],
                 UNCHANGED <<enabled, lead, mixed, closed, edits>>,
                 \/ UNCHANGED steps
                 \/ steps' = [steps EXCEPT ![edit[e].seq] = @ \cup
                      {[order |-> s.order, channel |-> s.channel, edit |-> edit[e].id]
                       : s \in edit[e].list}]
          PROVE  Rows
      <4> DEFINE new == {[order |-> s.order, channel |-> s.channel, edit |-> edit[e].id]
                         : s \in edit[e].list}
      <4>1. new \in SUBSET StepRow /\ edit[e].seq \in Sequence
        BY <3>2, NewSteps
      <4>2. UNCHANGED steps \/ steps' = [steps EXCEPT ![edit[e].seq] = @ \cup new]
        BY <3>2
      <4> HIDE DEF new
      <4>3. steps' \in [Sequence -> SUBSET StepRow]
        BY <1>2, <4>1, <4>2
      <4>4. edit' \in [Editor -> EditRow \cup {NoEdit}]
        BY <1>2, <3>2
      <4> QED
        BY <1>2, <3>2, <4>3, <4>4 DEF Rows
    <3>3. ASSUME NEW q \in Sequence, NEW b \in {"yes", "no"}, enabled' = [enabled EXCEPT ![q] = b],
                 UNCHANGED <<steps, lead, edit, mixed, closed, edits>>
          PROVE  Rows
      BY <1>2, <3>3 DEF Rows
    <3>4. ASSUME NEW q \in Sequence, enabled' = [enabled EXCEPT ![q] = "deleted"],
                 steps' = [steps EXCEPT ![q] = {}], UNCHANGED <<lead, edit, mixed, closed, edits>>
          PROVE  Rows
      BY <1>2, <3>4 DEF Rows
    <3>5. ASSUME NEW l \in Lead, NEW v \in {"open", "closed", "gone"}, lead' = [lead EXCEPT ![l] = v],
                 closed' = IF v = "closed" THEN closed \cup {l} ELSE closed,
                 UNCHANGED <<steps, enabled, edit, mixed, edits>>
          PROVE  Rows
      BY <1>2, <3>5 DEF Rows
    <3> QED
      BY <1>3, <1>10, <3>1, <3>2, <3>3, <3>4, <3>5 DEF Outside
  <2> QED
    BY <1>1, <2>1, <2>2 DEF Rows, Counts, Faulty, Shape, TypeOK, EditRow
<1> QED
  BY <1>6, <1>7, <1>8, <1>9, <1>10, NextCases

-----------------------------------------------------------------------------
(* What ticks hold, and how rows move on *)

LEMMA NextHeld ==
  ASSUME Shape, Blank, [Next]_vars, NEW u \in Tick
  PROVE  /\ \A s \in todo'[u] :
              \/ s \in todo[u]
              \/ /\ task[u] = Idle /\ todo[u] = {} /\ task'[u] = Idle /\ UNCHANGED <<run, sent>>
                 /\ s = Snap(s.run, run[s.run].step) /\ s.run \in Run
                 /\ run[s.run].status = "ACTIVE"
         /\ task'[u] # Idle =>
              \/ /\ task[u] # Idle /\ task'[u].run = task[u].run /\ task'[u].step = task[u].step
                 /\ task'[u].steps = task[u].steps /\ todo'[u] \subseteq todo[u]
              \/ \E s \in todo[u] :
                   /\ task[u] = Idle /\ todo'[u] = todo[u] \ {s} /\ UNCHANGED <<run, sent>>
                   /\ task'[u].run = s.run /\ task'[u].step = s.step
                   /\ task'[u].steps = steps[SeqOf[s.run]]
                   /\ task'[u].at \in {"lead", "close"} /\ task'[u].to = "CANCELLED"
         /\ Sending(u)' => task[u].at \in {"create", "send", "advance"} /\ (Sending(u) \/ Creates(u))
<1>1. task \in [Tick -> Task \cup {Idle}] /\ todo \in [Tick -> SUBSET Snapshot]
  BY DEF Shape, TypeOK
<1> DEFINE Goal1 == \A s \in todo'[u] :
              \/ s \in todo[u]
              \/ /\ task[u] = Idle /\ todo[u] = {} /\ task'[u] = Idle /\ UNCHANGED <<run, sent>>
                 /\ s = Snap(s.run, run[s.run].step) /\ s.run \in Run
                 /\ run[s.run].status = "ACTIVE"
           Goal2 == task'[u] # Idle =>
              \/ /\ task[u] # Idle /\ task'[u].run = task[u].run /\ task'[u].step = task[u].step
                 /\ task'[u].steps = task[u].steps /\ todo'[u] \subseteq todo[u]
              \/ \E s \in todo[u] :
                   /\ task[u] = Idle /\ todo'[u] = todo[u] \ {s} /\ UNCHANGED <<run, sent>>
                   /\ task'[u].run = s.run /\ task'[u].step = s.step
                   /\ task'[u].steps = steps[SeqOf[s.run]]
                   /\ task'[u].at \in {"lead", "close"} /\ task'[u].to = "CANCELLED"
           Goal3 == Sending(u)' => task[u].at \in {"create", "send", "advance"} /\ (Sending(u) \/ Creates(u))
<1>2. ASSUME task'[u] = task[u] \/ task'[u] = Idle, todo'[u] \subseteq todo[u]
      PROVE  Goal1 /\ Goal2 /\ Goal3
  <2>1. Idle.at = "idle"
    BY DEF Idle
  <2> QED
    BY <1>2, <2>1 DEF Sending
<1>3. ASSUME NEW t \in Tick, NEW a \in Labels, NEW c \in Ends, task[t] # Idle, UNCHANGED todo,
             task' = [task EXCEPT ![t] = K(a, task[t].run, task[t].step, task[t].steps, c)],
             a \in {"send", "advance"} => task[t].at \in {"create", "send", "advance"}
                                            /\ (Sending(t) \/ Creates(t))
      PROVE  Goal1 /\ Goal2 /\ Goal3
  <2>1. CASE t = u
    <3>1. task'[u] = K(a, task[u].run, task[u].step, task[u].steps, c)
      BY <1>1, <1>3, <2>1
    <3>2. /\ task'[u].run = task[u].run /\ task'[u].step = task[u].step
          /\ task'[u].steps = task[u].steps /\ task'[u].at = a
      BY <3>1, KFacts
    <3> QED
      BY <1>3, <2>1, <3>2 DEF Sending
  <2>2. CASE t # u
    BY <1>1, <1>2, <1>3, <2>2
  <2> QED
    BY <2>1, <2>2
<1>4. ASSUME NEW t \in Tick, Fetches(t) PROVE Goal1 /\ Goal2 /\ Goal3
  <2>1. PICK S \in SUBSET Run : /\ \A r \in S : run[r].status = "ACTIVE"
                                /\ todo' = [todo EXCEPT ![t] = {Snap(r, run[r].step) : r \in S}]
    BY <1>4 DEF Fetches
  <2>2. CASE t = u
    <3>1. todo'[u] = {Snap(r, run[r].step) : r \in S}
      BY <1>1, <2>1, <2>2
    <3>2. \A r \in S : Snap(r, run[r].step).run = r
      BY DEF Snap
    <3>3. \A s \in todo'[u] : s = Snap(s.run, run[s.run].step) /\ s.run \in Run
                              /\ run[s.run].status = "ACTIVE"
      BY <2>1, <3>1, <3>2
    <3>4. task[u] = Idle /\ todo[u] = {} /\ task'[u] = Idle /\ UNCHANGED <<run, sent>>
      BY <1>4, <2>2 DEF Fetches
    <3>5. ~Sending(u)'
      BY <3>4 DEF Sending, Idle
    <3> QED
      BY <3>3, <3>4, <3>5
  <2>3. CASE t # u
    <3>1. task'[u] = task[u] /\ todo'[u] = todo[u]
      BY <1>1, <1>4, <2>1, <2>3 DEF Fetches
    <3> QED
      BY <1>2, <3>1
  <2> QED
    BY <2>2, <2>3
<1>5. ASSUME NEW t \in Tick, NEW s \in todo[t], Loads(t, s) PROVE Goal1 /\ Goal2 /\ Goal3
  <2>1. PICK a \in {"lead", "close"} :
          task' = [task EXCEPT ![t] = K(a, s.run, s.step, steps[SeqOf[s.run]], "CANCELLED")]
    BY <1>5 DEF Loads
  <2>2. CASE t = u
    <3>1. /\ task'[u] = K(a, s.run, s.step, steps[SeqOf[s.run]], "CANCELLED")
          /\ todo'[u] = todo[u] \ {s} /\ task[u] = Idle /\ UNCHANGED <<run, sent>>
      BY <1>1, <1>5, <2>1, <2>2 DEF Loads
    <3>2. /\ task'[u].run = s.run /\ task'[u].step = s.step /\ task'[u].at = a
          /\ task'[u].steps = steps[SeqOf[s.run]] /\ task'[u].to = "CANCELLED"
      BY <3>1, KFacts
    <3> QED
      BY <1>5, <2>2, <3>1, <3>2 DEF Sending
  <2>3. CASE t # u
    <3>1. task'[u] = task[u] /\ todo'[u] = todo[u]
      BY <1>1, <1>5, <2>1, <2>3 DEF Loads
    <3> QED
      BY <1>2, <3>1
  <2> QED
    BY <2>2, <2>3
<1>6. ASSUME NEW t \in Tick, Decides(t) \/ Creates(t) \/ Sends(t) PROVE Goal1 /\ Goal2 /\ Goal3
  <2>1. task[t] # Idle /\ UNCHANGED todo
    BY <1>6, KFacts DEF Decides, Creates, Sends
  <2>2. task[t].to \in Ends
    BY <2>1, TaskFacts
  <2>3. \E a \in Labels, c \in Ends :
          /\ task' = [task EXCEPT ![t] = K(a, task[t].run, task[t].step, task[t].steps, c)]
          /\ a \in {"send", "advance"} => task[t].at \in {"create", "send", "advance"}
                                            /\ (Sending(t) \/ Creates(t))
    BY <1>6, <2>2 DEF Decides, Creates, Sends, Labels, Sending
  <2> QED
    BY <1>3, <2>1, <2>3
<1>7. ASSUME NEW t \in Tick, Closes(t) \/ Advances(t) PROVE Goal1 /\ Goal2 /\ Goal3
  <2>1. task' = [task EXCEPT ![t] = Idle] /\ UNCHANGED todo
    BY <1>7 DEF Closes, Advances
  <2> QED
    BY <1>1, <1>2, <2>1
<1>8. ASSUME LetsGo PROVE Goal1 /\ Goal2 /\ Goal3
  BY <1>2, <1>8 DEF LetsGo
<1>9. ASSUME Outside PROVE Goal1 /\ Goal2 /\ Goal3
  BY <1>2, <1>9 DEF Outside
<1> HIDE DEF Goal1, Goal2, Goal3
<1>10. ASSUME \E t \in Tick : Fetches(t) \/ \E s \in todo[t] : Loads(t, s)
       PROVE  Goal1 /\ Goal2 /\ Goal3
  BY <1>4, <1>5, <1>10
<1>11. ASSUME \E t \in Tick : Decides(t) \/ Creates(t) \/ Sends(t) \/ Closes(t) \/ Advances(t)
       PROVE  Goal1 /\ Goal2 /\ Goal3
  BY <1>6, <1>7, <1>11
<1>12. Goal1 /\ Goal2 /\ Goal3
  BY <1>8, <1>9, <1>10, <1>11, NextCases
<1> QED
  BY <1>12 DEF Goal1, Goal2, Goal3

LEMMA SentGrows ==
  ASSUME Shape, Blank, [Next]_vars
  PROVE  \A r \in Run : \A k : TimesSent(r, k)' >= TimesSent(r, k)
<1>1. CASE UNCHANGED sent
  BY <1>1, TimesSentIsNat DEF TimesSent
<1>2. ASSUME NEW t \in Tick, Creates(t)
      PROVE  \A r \in Run : \A k : TimesSent(r, k)' >= TimesSent(r, k)
  <2> TAKE r \in Run
  <2> TAKE k
  <2>1. /\ DOMAIN sent[r] \subseteq DOMAIN sent'[r]
        /\ \A j \in DOMAIN sent[r] : sent'[r][j] = sent[r][j] \/ sent'[r][j] = sent[r][j] + 1
    <3>1. CASE r = task[t].run
      <4>1. /\ DOMAIN sent'[r] = DOMAIN sent[r] \cup {task[t].step}
            /\ \A j \in DOMAIN sent[r] :
                 sent'[r][j] = sent[r][j] + (IF j = task[t].step THEN 1 ELSE 0)
        BY <1>2, <3>1, CreatedCounts
      <4>2. \A j \in DOMAIN sent[r] : sent[r][j] \in Nat
        BY DEF Shape, TypeOK
      <4> QED
        BY <4>1, <4>2
    <3>2. CASE r # task[t].run
      <4>1. sent'[r] = sent[r]
        BY <1>2, <3>2, CreatedCounts
      <4> QED
        BY <4>1
    <3> QED
      BY <3>1, <3>2
  <2>2. /\ \A j \in DOMAIN sent[r] : sent[r][j] \in Nat
        /\ \A j \in DOMAIN sent'[r] : sent'[r][j] \in Nat
    BY <1>2, CreatedCounts DEF Shape, TypeOK
  <2> QED
    BY <2>1, <2>2 DEF TimesSent
<1>3. UNCHANGED sent \/ \E t \in Tick : Creates(t)
  BY NextCases DEF Fetches, Loads, Decides, Sends, Closes, Advances, LetsGo, Outside
<1> QED
  BY <1>1, <1>2, <1>3

(* Rows of runs.                                                            *)
LEMMA NextRows ==
  ASSUME Shape, Blank, [Next]_vars, NEW r \in Run
  PROVE  /\ \/ run'[r].step = run[r].step
            \/ \E t \in Tick : /\ Advances(t) /\ task[t].run = r /\ run'[r].step = task[t].step + 1
                               /\ Exists(r)
         /\ run[r].status # "none" => run'[r].status # "none"
         /\ run[r].status = "gone" => run'[r].status = "gone"
         /\ run'[r].status = "none" => run[r].status = "none" /\ run'[r].step = run[r].step
                                       /\ run'[r].next = run[r].next
<1>1. ASSUME NEW t \in Tick, Closes(t)
      PROVE  /\ run'[r].step = run[r].step
             /\ ~Exists(r) => run'[r] = run[r]
             /\ Exists(r) => run'[r].status \in Ends \/ run'[r] = run[r]
  BY <1>1, ClosedRow
<1>2. ASSUME NEW t \in Tick, Advances(t)
      PROVE  /\ \/ run'[r].step = run[r].step
                \/ task[t].run = r /\ run'[r].step = task[t].step + 1 /\ Exists(r)
             /\ ~Exists(r) => run'[r] = run[r]
             /\ Exists(r) => run'[r].status \in {run[r].status, "COMPLETED"} \/ run'[r] = run[r]
  BY <1>2, AdvancedRow
<1>3. CASE UNCHANGED run
  BY <1>3
<1>4. CASE Outside
  <2>1. Flows(r)
    BY <1>4 DEF Outside
  <2> QED
    BY <2>1 DEF Flows, Exists
<1>5. Exists(r) <=> run[r].status \notin {"none", "gone"}
  BY DEF Exists
<1>6. CASE \E t \in Tick : Closes(t)
  BY <1>1, <1>5, <1>6 DEF Ends
<1>7. CASE \E t \in Tick : Advances(t)
  BY <1>2, <1>5, <1>7
<1> QED
  BY <1>3, <1>4, <1>6, <1>7, NextCases DEF Fetches, Loads, Decides, Creates, Sends, LetsGo

LEMMA NextBlank ==
  ASSUME Shape, Blank, [Next]_vars
  PROVE  Blank'
<1> SUFFICES ASSUME NEW r \in Run, run'[r].status = "none"
             PROVE  run'[r].step = 0 /\ run'[r].next = "never"
  BY DEF Blank
<1> QED
  BY NextRows DEF Blank

LEMMA InitShape ==
  ASSUME Init
  PROVE  Shape /\ Blank
<1>1. run \in [Run -> RunRow] /\ Blank
  BY DEF Init, RunRow, When, Blank
<1>2. steps \in [Sequence -> SUBSET StepRow]
  <2>1. ASSUME NEW list \in StepList
        PROVE  {[order |-> s.order, channel |-> s.channel, edit |-> 0] : s \in list} \in SUBSET StepRow
    <3>1. \A s \in list : s.order \in Nat /\ s.channel \in Channel
      BY <2>1, FollowUpsAssumption
    <3> QED
      BY <3>1 DEF StepRow
  <2>2. steps \in [Sequence -> {{[order |-> s.order, channel |-> s.channel, edit |-> 0]
                                : s \in list} : list \in StepList}]
    BY DEF Init
  <2> QED
    BY <2>1, <2>2
<1>3. /\ task \in [Tick -> Task \cup {Idle}] /\ edit \in [Editor -> EditRow \cup {NoEdit}]
      /\ todo \in [Tick -> SUBSET Snapshot]
  BY DEF Init
<1>4. /\ sent = [r \in Run |-> sent[r]]
      /\ \A r \in Run : \A k \in DOMAIN sent[r] : k \in Nat /\ sent[r][k] \in Nat
  BY DEF Init
<1> QED
  BY <1>1, <1>2, <1>3, <1>4 DEF Init, Shape, TypeOK, EditRow

(* Runs, steps, the ticks' hands, updates in progress and counts keep their *)
(* shape, with any number of ticks and updates at once.                     *)
THEOREM FollowUpsTypeCorrect == Spec => []TypeOK
<1>1. Shape /\ Blank /\ [Next]_vars => Shape' /\ Blank'
  BY NextShape, NextBlank
<1>2. Shape => TypeOK
  BY DEF Shape
<1> QED
  BY <1>1, <1>2, InitShape, PTL DEF Spec

-----------------------------------------------------------------------------
(* Nothing is skipped *)

LEMMA SentBeforeStays ==
  ASSUME Shape, Blank, [Next]_vars
  PROVE  /\ \A r \in Run : \A k : TimesSent(r, k) > 0 => TimesSent(r, k)' > 0
         /\ \A r \in Run : \A k \in Nat : SentBefore(r, k) => SentBefore(r, k)'
<1>1. \A r \in Run : \A k : TimesSent(r, k)' >= TimesSent(r, k)
  BY SentGrows
<1>2. \A r \in Run : \A k : TimesSent(r, k) \in Nat
  BY TimesSentIsNat
<1>3. \A r \in Run : \A k : TimesSent(r, k)' \in Nat
  <2>1. Shape'
    BY NextShape
  <2> QED
    BY <2>1 DEF Shape, TypeOK, TimesSent
<1>4. \A r \in Run : \A k : TimesSent(r, k) > 0 => TimesSent(r, k)' > 0
  BY <1>1, <1>2, <1>3
<1> QED
  BY <1>4 DEF SentBefore

LEMMA NextInOrder ==
  ASSUME Shape, Blank, TicksSendInOrder, NothingSkipped, [Next]_vars
  PROVE  TicksSendInOrder' /\ NothingSkipped'
<1>1. Shape' /\ run \in [Run -> RunRow]
  BY NextShape DEF Shape, TypeOK
<1>2. \A r \in Run : run[r].step \in Nat /\ SentBefore(r, run[r].step)
  BY <1>1, RowFacts DEF NothingSkipped, SentBefore
<1>3. ASSUME NEW u \in Tick, NEW s \in todo'[u] PROVE SentBefore(s.run, s.step)'
  <2>1. s.run \in Run /\ s.step \in Nat /\ SentBefore(s.run, s.step)
    <3>1. CASE s \in todo[u]
      BY <3>1, SnapFacts DEF TicksSendInOrder
    <3>2. CASE s = Snap(s.run, run[s.run].step) /\ s.run \in Run
      <4>1. s.step = run[s.run].step
        BY <3>2 DEF Snap
      <4> QED
        BY <1>2, <3>2, <4>1
    <3> QED
      BY <1>3, <3>1, <3>2, NextHeld
  <2> QED
    BY <2>1, SentBeforeStays
<1>4. ASSUME NEW u \in Tick, task'[u] # Idle
      PROVE  /\ task'[u].run \in Run /\ task'[u].step \in Nat
             /\ SentBefore(task'[u].run, task'[u].step)
  <2>1. CASE task[u] # Idle /\ task'[u].run = task[u].run /\ task'[u].step = task[u].step
    BY <2>1, TaskFacts DEF TicksSendInOrder
  <2>2. ASSUME NEW s \in todo[u], task'[u].run = s.run, task'[u].step = s.step
        PROVE  /\ task'[u].run \in Run /\ task'[u].step \in Nat
               /\ SentBefore(task'[u].run, task'[u].step)
    BY <2>2, SnapFacts DEF TicksSendInOrder
  <2> QED
    BY <1>4, <2>1, <2>2, NextHeld
<1>5. ASSUME NEW u \in Tick, Sending(u)'
      PROVE  TimesSent(task[u].run, task[u].step)' > 0
  <2>1. task[u] # Idle /\ task'[u] # Idle
    BY <1>5, NextHeld DEF Sending, Idle
  <2>2. task'[u].run = task[u].run /\ task'[u].step = task[u].step
    BY <2>1, NextHeld
  <2>3. PICK r \in Run : r = task[u].run
    BY <2>1, TaskFacts
  <2>4. PICK k \in Nat : k = task[u].step
    BY <2>1, TaskFacts
  <2>5. TimesSent(r, k)' > 0
    <3>1. CASE Sending(u)
      BY <2>3, <2>4, <3>1, SentBeforeStays DEF TicksSendInOrder
    <3>2. CASE Creates(u)
      <4>1. /\ DOMAIN sent'[r] = DOMAIN sent[r] \cup {k}
            /\ \A j \in DOMAIN sent[r] : sent'[r][j] = sent[r][j] + (IF j = k THEN 1 ELSE 0)
            /\ k \notin DOMAIN sent[r] => sent'[r][k] = 1
        BY <2>3, <2>4, <3>2, CreatedCounts
      <4>2. \A j \in DOMAIN sent[r] : sent[r][j] \in Nat
        BY DEF Shape, TypeOK
      <4> QED
        BY <4>1, <4>2 DEF TimesSent
    <3> QED
      BY <1>5, <3>1, <3>2, NextHeld
  <2> QED
    BY <2>2, <2>3, <2>4, <2>5
<1>6. ASSUME NEW r \in Run PROVE SentBefore(r, run[r].step)'
  <2>1. CASE run'[r].step = run[r].step
    <3>1. PICK k \in Nat : k = run[r].step
      BY <1>2
    <3>2. SentBefore(r, k)'
      BY <1>2, <3>1, SentBeforeStays
    <3> QED
      BY <2>1, <3>1, <3>2
  <2>2. ASSUME NEW t \in Tick, Advances(t), task[t].run = r, run'[r].step = task[t].step + 1
        PROVE  SentBefore(r, run[r].step)'
    <3>1. task[t] # Idle /\ Sending(t)
      <4>1. task[t].at = "advance"
        BY <2>2 DEF Advances
      <4> QED
        BY <4>1 DEF Sending, Idle
    <3>2. PICK k \in Nat : k = task[t].step
      BY <3>1, TaskFacts
    <3>3. SentBefore(r, k) /\ TimesSent(r, k) > 0
      BY <2>2, <3>1, <3>2 DEF TicksSendInOrder
    <3>4. SentBefore(r, k)' /\ TimesSent(r, k)' > 0
      BY <3>3, SentBeforeStays
    <3>5. run'[r].step = k + 1
      BY <2>2, <3>2
    <3>6. \A j \in 0..(k + 1) : j < k + 1 => TimesSent(r, j)' > 0
      BY <3>4 DEF SentBefore
    <3> QED
      BY <3>5, <3>6 DEF SentBefore
  <2> QED
    BY <2>1, <2>2, NextRows
<1>7. NothingSkipped'
  BY <1>6 DEF NothingSkipped, SentBefore
<1>8. ASSUME NEW u \in Tick, task'[u] # Idle PROVE SentBefore(task[u].run, task[u].step)'
  <2>1. PICK r \in Run, k \in Nat : r = task'[u].run /\ k = task'[u].step
    BY <1>4, <1>8
  <2>2. SentBefore(r, k)'
    BY <1>4, <1>8, <2>1, SentBeforeStays
  <2> QED
    BY <2>1, <2>2
<1> QED
  BY <1>3, <1>5, <1>7, <1>8 DEF TicksSendInOrder

(* A run that stands at a step has sent every step before it: with any      *)
(* number of ticks at once, whatever fails, crashes or is edited meanwhile. *)
THEOREM StepsAreNotSkipped == Spec => []NothingSkipped
<1>1. Init => TicksSendInOrder /\ NothingSkipped
  BY DEF Init, TicksSendInOrder, NothingSkipped, Sending, Idle
<1>2. Shape /\ Blank /\ TicksSendInOrder /\ NothingSkipped /\ [Next]_vars
        => Shape' /\ Blank' /\ TicksSendInOrder' /\ NothingSkipped'
  BY NextShape, NextBlank, NextInOrder
<1> QED
  BY <1>1, <1>2, InitShape, PTL DEF Spec

-----------------------------------------------------------------------------
(* What a tick holds *)

LEMMA NextEnrolled ==
  ASSUME Shape, Blank, HeldAreEnrolled, [Next]_vars
  PROVE  HeldAreEnrolled'
<1>1. \A r \in Run : run[r].status # "none" => run'[r].status # "none"
  BY NextRows
<1>2. ASSUME NEW u \in Tick, NEW s \in todo'[u] PROVE run'[s.run].status # "none"
  <2>1. s.run \in Run /\ run[s.run].status # "none"
    <3>1. CASE s \in todo[u]
      BY <3>1, SnapFacts DEF HeldAreEnrolled
    <3>2. CASE s.run \in Run /\ run[s.run].status = "ACTIVE"
      BY <3>2
    <3> QED
      BY <1>2, <3>1, <3>2, NextHeld
  <2> QED
    BY <1>1, <2>1
<1>3. ASSUME NEW u \in Tick, task'[u] # Idle PROVE run'[task'[u].run].status # "none"
  <2>1. CASE task[u] # Idle /\ task'[u].run = task[u].run
    BY <1>1, <2>1, TaskFacts DEF HeldAreEnrolled
  <2>2. CASE \E s \in todo[u] : task'[u].run = s.run
    BY <1>1, <2>2, SnapFacts DEF HeldAreEnrolled
  <2> QED
    BY <1>3, <2>1, <2>2, NextHeld
<1> QED
  BY <1>2, <1>3 DEF HeldAreEnrolled

LEMMA NextOnce ==
  ASSUME Shape, Blank, HeldOnce, [Next]_vars
  PROVE  HeldOnce'
<1>1. ASSUME NEW u \in Tick, NEW s \in todo'[u], NEW v \in todo'[u], s.run = v.run PROVE s = v
  <2>1. CASE s \in todo[u] /\ v \in todo[u]
    BY <1>1, <2>1 DEF HeldOnce
  <2>2. CASE s = Snap(s.run, run[s.run].step) /\ v = Snap(v.run, run[v.run].step)
    BY <1>1, <2>2
  <2>3. \/ s \in todo[u]
        \/ todo[u] = {} /\ s = Snap(s.run, run[s.run].step)
    BY <1>1, NextHeld
  <2>4. \/ v \in todo[u]
        \/ todo[u] = {} /\ v = Snap(v.run, run[v.run].step)
    BY <1>1, NextHeld
  <2> QED
    BY <2>1, <2>2, <2>3, <2>4
<1>2. ASSUME NEW u \in Tick, task'[u] # Idle, NEW s \in todo'[u] PROVE s.run # task'[u].run
  <2>1. CASE task[u] # Idle /\ task'[u].run = task[u].run /\ todo'[u] \subseteq todo[u]
    BY <1>2, <2>1 DEF HeldOnce
  <2>2. ASSUME NEW v \in todo[u], todo'[u] = todo[u] \ {v}, task'[u].run = v.run
        PROVE  s.run # task'[u].run
    BY <1>2, <2>2 DEF HeldOnce
  <2> QED
    BY <1>2, <2>1, <2>2, NextHeld
<1> QED
  BY <1>1, <1>2 DEF HeldOnce

-----------------------------------------------------------------------------
(* A step goes out once *)

LEMMA TickSets ==
  ASSUME NEW S \in SUBSET Tick, NEW T \in SUBSET Tick, NEW t \in Tick
  PROVE  /\ Cardinality(S) \in Nat /\ Cardinality(T) \in Nat
         /\ S \subseteq T => Cardinality(S) <= Cardinality(T)
         /\ S \subseteq T \cup {t} => Cardinality(S) <= Cardinality(T) + 1
         /\ t \in T /\ S \subseteq T \ {t} => Cardinality(S) + 1 <= Cardinality(T)
<1>1. ASSUME NEW A \in SUBSET Tick PROVE IsFiniteSet(A) /\ Cardinality(A) \in Nat
  BY FollowUpsAssumption, FS_Subset, FS_CardinalityType
<1>2. ASSUME NEW A \in SUBSET Tick, NEW B \in SUBSET Tick, A \subseteq B
      PROVE  Cardinality(A) <= Cardinality(B)
  BY <1>1, <1>2, FS_Subset
<1>3. Cardinality(T \cup {t}) <= Cardinality(T) + 1 /\ T \cup {t} \in SUBSET Tick
  <2>1. IsFiniteSet(T) /\ Cardinality(T) \in Nat
    BY <1>1
  <2>2. Cardinality(T \cup {t}) = IF t \in T THEN Cardinality(T) ELSE Cardinality(T) + 1
    BY <2>1, FS_AddElement
  <2> QED
    BY <2>1, <2>2
<1>4. t \in T => Cardinality(T \ {t}) + 1 = Cardinality(T) /\ T \ {t} \in SUBSET Tick
  <2>1. IsFiniteSet(T) /\ Cardinality(T) \in Nat
    BY <1>1
  <2>2. t \in T => Cardinality(T \ {t}) = Cardinality(T) - 1
    BY <2>1, FS_RemoveElement
  <2> QED
    BY <2>1, <2>2
<1>5. Cardinality(S) \in Nat /\ Cardinality(T) \in Nat
  BY <1>1
<1>6. S \subseteq T \cup {t} => Cardinality(S) <= Cardinality(T) + 1
  <2>1. Cardinality(T \cup {t}) \in Nat
    BY <1>1, <1>3
  <2>2. S \subseteq T \cup {t} => Cardinality(S) <= Cardinality(T \cup {t})
    BY <1>2, <1>3
  <2> QED
    BY <1>3, <1>5, <2>1, <2>2
<1>7. t \in T /\ S \subseteq T \ {t} => Cardinality(S) + 1 <= Cardinality(T)
  <2>1. t \in T => Cardinality(T \ {t}) \in Nat
    BY <1>1, <1>4
  <2>2. t \in T /\ S \subseteq T \ {t} => Cardinality(S) <= Cardinality(T \ {t})
    BY <1>2, <1>4
  <2> QED
    BY <1>4, <1>5, <2>1, <2>2
<1> QED
  BY <1>2, <1>5, <1>6, <1>7

(* How a step moves the right to send step k of run r: it is dropped,       *)
(* regained by a fault, passed on to the row, used, taken from the row, or  *)
(* doubled.                                                                 *)
Dropped(r, k) == /\ TimesSent(r, k)' = TimesSent(r, k)
                 /\ Pending(r, k)' \subseteq Pending(r, k) /\ (RowMaySend(r, k)' => RowMaySend(r, k))
Regained(r, k) == /\ TimesSent(r, k)' = TimesSent(r, k) /\ faults' = faults + 1
                  /\ Pending(r, k)' \subseteq Pending(r, k)
PassedOn(r, k) == /\ TimesSent(r, k)' = TimesSent(r, k)
                  /\ \E t \in Pending(r, k) : Pending(r, k)' \subseteq Pending(r, k) \ {t}
Used(r, k) == /\ TimesSent(r, k)' = TimesSent(r, k) + 1 /\ (RowMaySend(r, k)' => RowMaySend(r, k))
              /\ \E t \in Pending(r, k) : Pending(r, k)' \subseteq Pending(r, k) \ {t}
Taken(r, k) == /\ TimesSent(r, k)' = TimesSent(r, k) /\ RowMaySend(r, k) /\ ~RowMaySend(r, k)'
               /\ \E t \in Tick : Pending(r, k)' \subseteq Pending(r, k) \cup {t}
Doubled(r, k) == /\ TimesSent(r, k)' = TimesSent(r, k) /\ doubled'[r] = doubled[r] + 1
                 /\ RowMaySend(r, k)' => RowMaySend(r, k)
                 /\ \E t \in Tick : Pending(r, k)' \subseteq Pending(r, k) \cup {t}
Passes(r, k) == \/ Dropped(r, k) \/ Regained(r, k) \/ PassedOn(r, k)
                \/ Used(r, k) \/ Taken(r, k) \/ Doubled(r, k)

(* Only tick t's hand changes.                                              *)
OnlyHand(t) == \A u \in Tick \ {t} : task'[u] = task[u] /\ todo'[u] = todo[u]

LEMMA SameHand ==
  ASSUME NEW u \in Tick, task'[u] = task[u], todo'[u] = todo[u], NEW r, NEW k
  PROVE  (MaySend(u, r, k)' <=> MaySend(u, r, k)) /\ (Holds(u, r, k)' <=> Holds(u, r, k))
BY DEF MaySend, Holds, Sending

LEMMA OtherHands ==
  ASSUME NEW t \in Tick, OnlyHand(t), NEW r \in Run, NEW k \in Nat
  PROVE  /\ Pending(r, k)' \subseteq Pending(r, k) \cup {t}
         /\ (MaySend(t, r, k)' => MaySend(t, r, k)) => Pending(r, k)' \subseteq Pending(r, k)
         /\ ~MaySend(t, r, k)' => Pending(r, k)' \subseteq Pending(r, k) \ {t}
         /\ MaySend(t, r, k) => t \in Pending(r, k)
<1>1. \A u \in Tick \ {t} : MaySend(u, r, k)' <=> MaySend(u, r, k)
  BY SameHand DEF OnlyHand
<1> QED
  BY <1>1 DEF Pending

LEMMA RowStands ==
  ASSUME Shape, NEW r \in Run, NEW k \in Nat,
         run'[r].step = run[r].step, run[r].status = "gone" => run'[r].status = "gone",
         \A u \in Tick : \A j \in 0..k : Holds(u, r, j) => Holds(u, r, j)'
  PROVE  RowMaySend(r, k)' => RowMaySend(r, k)
<1>1. PICK s \in Nat : s = run[r].step
  BY RowFacts
<1>2. RowMaySend(r, k)' => run'[r].status # "gone" /\ s <= k /\ \A u \in Tick : ~Holds(u, r, s)'
  BY <1>1 DEF RowMaySend, Holds
<1>3. run[r].status # "gone" /\ s <= k /\ (\A u \in Tick : ~Holds(u, r, s)) => RowMaySend(r, k)
  BY <1>1 DEF RowMaySend
<1>4. s <= k => s \in 0..k
  BY <1>1
<1> QED
  BY <1>2, <1>3, <1>4

(* The hands stay as they are.                                              *)
LEMMA HandsStand ==
  ASSUME Shape, UNCHANGED <<task, todo, sent>>, NEW r \in Run, NEW k \in Nat,
         run'[r].step = run[r].step, run[r].status = "gone" => run'[r].status = "gone"
  PROVE  Dropped(r, k)
<1>1. \A u \in Tick : \A j : /\ MaySend(u, r, j)' <=> MaySend(u, r, j)
                             /\ Holds(u, r, j)' <=> Holds(u, r, j)
  BY SameHand
<1>2. TimesSent(r, k)' = TimesSent(r, k)
  BY DEF TimesSent
<1>3. RowMaySend(r, k)' => RowMaySend(r, k)
  BY <1>1, RowStands
<1> QED
  BY <1>1, <1>2, <1>3 DEF Dropped, Pending

(* A tick goes on with its run, without having sent or having sent before.  *)
LEMMA HandGoesOn ==
  ASSUME Shape, NEW t \in Tick, OnlyHand(t), UNCHANGED <<run, sent>>, NEW r \in Run, NEW k \in Nat,
         MaySend(t, r, k)' => MaySend(t, r, k), \A j \in Nat : Holds(t, r, j) => Holds(t, r, j)'
  PROVE  Dropped(r, k)
<1>1. \A u \in Tick \ {t} : \A j : Holds(u, r, j)' <=> Holds(u, r, j)
  BY SameHand DEF OnlyHand
<1>2. \A u \in Tick : \A j \in 0..k : Holds(u, r, j) => Holds(u, r, j)'
  BY <1>1
<1>3. RowMaySend(r, k)' => RowMaySend(r, k)
  BY <1>2, RowStands
<1>4. TimesSent(r, k)' = TimesSent(r, k)
  BY DEF TimesSent
<1>5. Pending(r, k)' \subseteq Pending(r, k)
  BY OtherHands
<1> QED
  BY <1>3, <1>4, <1>5 DEF Dropped

LEMMA FetchPasses ==
  ASSUME Shape, NEW t \in Tick, Fetches(t), NEW r \in Run, NEW k \in Nat
  PROVE  Passes(r, k)
<1>1. PICK S \in SUBSET Run :
        /\ \A q \in S : run[q].status = "ACTIVE"
        /\ todo' = [todo EXCEPT ![t] = {Snap(q, run[q].step) : q \in S}]
        /\ doubled' = [q \in Run |-> IF q \in S /\ Held(q) THEN doubled[q] + 1 ELSE doubled[q]]
  BY DEF Fetches
<1>2. task[t] = Idle /\ todo[t] = {} /\ UNCHANGED <<run, task, sent>>
  BY DEF Fetches
<1>3. todo'[t] = {Snap(q, run[q].step) : q \in S} /\ OnlyHand(t)
  BY <1>1, <1>2 DEF Shape, TypeOK, OnlyHand
<1>4. \A q : \A j : ~MaySend(t, q, j) /\ ~Holds(t, q, j)
  BY <1>2 DEF MaySend, Holds
<1>5. PICK s \in Nat : s = run[r].step
  BY RowFacts
<1>6. /\ \A j \in Nat : Holds(t, r, j)' <=> r \in S /\ j = s
      /\ MaySend(t, r, k)' <=> r \in S /\ s <= k
  <2>1. task'[t] = Idle
    BY <1>2
  <2>2. \A v \in todo'[t] : v.run \in S /\ v.step = run[v.run].step
    BY <1>3 DEF Snap
  <2>3. r \in S => \E v \in todo'[t] : v.run = r /\ v.step = s
    <3>1. Snap(r, s).run = r /\ Snap(r, s).step = s
      BY DEF Snap
    <3> QED
      BY <1>3, <1>5, <3>1
  <2> QED
    BY <1>5, <2>1, <2>2, <2>3 DEF Holds, MaySend
<1>7. TimesSent(r, k)' = TimesSent(r, k)
  BY <1>2 DEF TimesSent
<1>8. CASE ~(r \in S /\ s <= k)
  <2>1. Pending(r, k)' \subseteq Pending(r, k)
    BY <1>3, <1>6, <1>8, OtherHands
  <2>2. RowMaySend(r, k)' => RowMaySend(r, k)
    <3>1. \A u \in Tick : \A j \in 0..k : Holds(u, r, j) => Holds(u, r, j)'
      BY <1>3, <1>4, SameHand DEF OnlyHand
    <3> QED
      BY <1>2, <3>1, RowStands
  <2> QED
    BY <1>7, <2>1, <2>2 DEF Passes, Dropped
<1>9. CASE r \in S /\ s <= k
  <2>1. ~RowMaySend(r, k)'
    <3>1. Holds(t, r, s)'
      BY <1>6, <1>9
    <3>2. run'[r].step = s
      BY <1>2, <1>5
    <3> QED
      BY <3>1, <3>2 DEF RowMaySend, Holds
  <2>2. Pending(r, k)' \subseteq Pending(r, k) \cup {t}
    BY <1>3, OtherHands
  <2>3. CASE Held(r)
    <3>1. doubled'[r] = doubled[r] + 1
      BY <1>1, <1>9, <2>3
    <3> QED
      BY <1>7, <2>1, <2>2, <3>1 DEF Passes, Doubled
  <2>4. CASE ~Held(r)
    <3>1. \A u \in Tick : ~Holds(u, r, s)
      BY <2>4 DEF Held, Holders, Holds
    <3>2. RowMaySend(r, k)
      BY <1>1, <1>5, <1>9, <3>1 DEF RowMaySend
    <3> QED
      BY <1>7, <2>1, <2>2, <3>2 DEF Passes, Taken
  <2> QED
    BY <2>3, <2>4
<1> QED
  BY <1>8, <1>9

LEMMA LoadPasses ==
  ASSUME Shape, NEW t \in Tick, NEW s \in todo[t], Loads(t, s), NEW r \in Run, NEW k \in Nat
  PROVE  Passes(r, k)
<1>1. PICK a \in {"lead", "close"} :
        task' = [task EXCEPT ![t] = K(a, s.run, s.step, steps[SeqOf[s.run]], "CANCELLED")]
  BY DEF Loads
<1>2. /\ task'[t] = K(a, s.run, s.step, steps[SeqOf[s.run]], "CANCELLED")
      /\ todo'[t] = todo[t] \ {s} /\ task[t] = Idle /\ OnlyHand(t) /\ UNCHANGED <<run, sent>>
  BY <1>1 DEF Loads, Shape, TypeOK, OnlyHand
<1>3. /\ task'[t].run = s.run /\ task'[t].step = s.step /\ task'[t] # Idle
      /\ task'[t].at = a /\ s.step \in Nat
  BY <1>2, KFacts, SnapFacts DEF Labels
<1>4. \A j \in Nat : Holds(t, r, j) => Holds(t, r, j)'
  BY <1>2, <1>3 DEF Holds
<1>5. MaySend(t, r, k)' => MaySend(t, r, k)
  <2>1. task'[t].step < k \/ task'[t].step = k => s.step <= k
    BY <1>3
  <2> QED
    BY <1>2, <1>3, <2>1 DEF MaySend
<1> QED
  BY <1>2, <1>4, <1>5, HandGoesOn DEF Passes

LEMMA GoingPasses ==
  ASSUME Shape, NEW t \in Tick, Decides(t) \/ Sends(t), NEW r \in Run, NEW k \in Nat
  PROVE  Passes(r, k)
<1>1. task[t] # Idle /\ UNCHANGED <<todo, run, sent>>
  BY KFacts DEF Decides, Sends
<1>2. PICK a \in Labels, c \in Ends :
        /\ task' = [task EXCEPT ![t] = K(a, task[t].run, task[t].step, task[t].steps, c)]
        /\ Sending(t) <=> a \in {"send", "advance"}
  <2>1. task[t].to \in Ends
    BY <1>1, TaskFacts
  <2> QED
    BY <2>1 DEF Decides, Sends, Sending, Labels
<1>3. /\ task'[t] = K(a, task[t].run, task[t].step, task[t].steps, c) /\ OnlyHand(t)
      /\ todo'[t] = todo[t]
  BY <1>1, <1>2 DEF Shape, OnlyHand
<1>4. /\ task'[t].run = task[t].run /\ task'[t].step = task[t].step /\ task'[t] # Idle
      /\ task'[t].at = a
  BY <1>3, KFacts
<1>5. Sending(t)' <=> Sending(t)
  BY <1>2, <1>4 DEF Sending
<1>6. \A j \in Nat : Holds(t, r, j) => Holds(t, r, j)'
  BY <1>1, <1>3, <1>4 DEF Holds
<1>7. MaySend(t, r, k)' => MaySend(t, r, k)
  BY <1>1, <1>3, <1>4, <1>5 DEF MaySend
<1> QED
  BY <1>1, <1>3, <1>6, <1>7, HandGoesOn DEF Passes

LEMMA CreatePasses ==
  ASSUME Shape, HeldOnce, NEW t \in Tick, Creates(t), NEW r \in Run, NEW k \in Nat
  PROVE  Passes(r, k)
<1>1. task[t] # Idle /\ task[t].at = "create" /\ UNCHANGED <<todo, run>>
  BY KFacts DEF Creates
<1>2. /\ task'[t] = K("send", task[t].run, task[t].step, task[t].steps, task[t].to) /\ OnlyHand(t)
      /\ todo'[t] = todo[t]
  BY <1>1 DEF Creates, Shape, OnlyHand
<1>3. /\ task'[t].run = task[t].run /\ task'[t].step = task[t].step /\ task'[t] # Idle
      /\ Sending(t)' /\ ~Sending(t) /\ task[t].step \in Nat
  BY <1>1, <1>2, KFacts, TaskFacts DEF Sending, Labels
<1>4. \A j \in Nat : Holds(t, r, j) => Holds(t, r, j)'
  BY <1>1, <1>2, <1>3 DEF Holds
<1>5. MaySend(t, r, k)' => MaySend(t, r, k)
  BY <1>1, <1>2, <1>3 DEF MaySend
<1>6. RowMaySend(r, k)' => RowMaySend(r, k)
  <2>1. \A u \in Tick : \A j \in 0..k : Holds(u, r, j) => Holds(u, r, j)'
    BY <1>2, <1>4, SameHand DEF OnlyHand
  <2> QED
    BY <1>1, <2>1, RowStands
<1>7. CASE task[t].run = r /\ task[t].step = k
  <2>1. TimesSent(r, k)' = TimesSent(r, k) + 1
    <3>1. /\ DOMAIN sent'[r] = DOMAIN sent[r] \cup {k}
          /\ \A j \in DOMAIN sent[r] : sent'[r][j] = sent[r][j] + (IF j = k THEN 1 ELSE 0)
          /\ k \notin DOMAIN sent[r] => sent'[r][k] = 1
      BY <1>7, CreatedCounts
    <3> QED
      BY <3>1 DEF TimesSent
  <2>2. t \in Pending(r, k)
    BY <1>1, <1>3, <1>7 DEF Pending, MaySend
  <2>3. ~MaySend(t, r, k)'
    <3>1. \A v \in todo'[t] : v.run # r
      BY <1>1, <1>2, <1>7 DEF HeldOnce
    <3> QED
      BY <1>3, <1>7, <3>1 DEF MaySend
  <2> QED
    BY <1>2, <1>6, <2>1, <2>2, <2>3, OtherHands DEF Passes, Used
<1>8. CASE ~(task[t].run = r /\ task[t].step = k)
  <2>1. TimesSent(r, k)' = TimesSent(r, k)
    <3>1. CASE task[t].run # r
      <4>1. sent'[r] = sent[r]
        BY <3>1, CreatedCounts
      <4> QED
        BY <4>1 DEF TimesSent
    <3>2. CASE task[t].run = r /\ task[t].step # k
      <4>1. /\ DOMAIN sent'[r] = DOMAIN sent[r] \cup {task[t].step}
            /\ \A j \in DOMAIN sent[r] :
                 sent'[r][j] = sent[r][j] + (IF j = task[t].step THEN 1 ELSE 0)
        BY <3>2, CreatedCounts
      <4>2. k \in DOMAIN sent[r] => sent[r][k] \in Nat /\ sent'[r][k] = sent[r][k]
        BY <3>2, <4>1 DEF Shape, TypeOK
      <4> QED
        BY <3>2, <4>1, <4>2 DEF TimesSent
    <3> QED
      BY <1>8, <3>1, <3>2
  <2> QED
    BY <1>2, <1>5, <1>6, <2>1, OtherHands DEF Passes, Dropped
<1> QED
  BY <1>7, <1>8

(* A tick lets go of its run: the right to send a later step, or the one    *)
(* refused, is the row's again.                                             *)
LEMMA ReleasePasses ==
  ASSUME Shape, HeldOnce, NEW t \in Tick, task[t] # Idle, task' = [task EXCEPT ![t] = Idle],
         UNCHANGED <<todo, sent>>, NEW r \in Run, NEW k \in Nat,
         \/ /\ run'[r].step = run[r].step /\ ~Sending(t)
            /\ run[r].status = "gone" => run'[r].status = "gone"
         \/ task[t].run = r /\ run'[r].step = task[t].step + 1
         \/ task[t].run = r /\ run'[r].status = "gone"
         \/ task[t].run # r /\ run'[r] = run[r]
  PROVE  Passes(r, k)
<1>1. task'[t] = Idle /\ todo'[t] = todo[t] /\ OnlyHand(t) /\ task[t].step \in Nat
  BY TaskFacts DEF Shape, OnlyHand
<1>2. TimesSent(r, k)' = TimesSent(r, k)
  BY DEF TimesSent
<1>3. MaySend(t, r, k)' => MaySend(t, r, k)
  BY <1>1 DEF MaySend
<1>4. Pending(r, k)' \subseteq Pending(r, k)
  BY <1>1, <1>3, OtherHands
<1>5. CASE task[t].run # r
  <2>1. \A j : Holds(t, r, j) => Holds(t, r, j)'
    BY <1>1, <1>5 DEF Holds
  <2>2. \A u \in Tick : \A j \in 0..k : Holds(u, r, j) => Holds(u, r, j)'
    BY <1>1, <2>1, SameHand DEF OnlyHand
  <2>3. RowMaySend(r, k)' => RowMaySend(r, k)
    BY <1>5, <2>2, RowStands
  <2> QED
    BY <1>2, <1>4, <2>3 DEF Passes, Dropped
<1>6. ASSUME task[t].run = r PROVE ~MaySend(t, r, k)' /\ \A v \in todo[t] : v.run # r
  <2>1. \A v \in todo[t] : v.run # r
    BY <1>6 DEF HeldOnce
  <2> QED
    BY <1>1, <2>1 DEF MaySend
<1>7. CASE task[t].run = r /\ MaySend(t, r, k)
  BY <1>1, <1>2, <1>6, <1>7, OtherHands DEF Passes, PassedOn
<1>8. CASE task[t].run = r /\ ~MaySend(t, r, k)
  <2>1. ~(task[t].step < k) /\ (task[t].step = k => Sending(t))
    BY <1>8 DEF MaySend
  <2>2. RowMaySend(r, k)' => RowMaySend(r, k)
    <3>1. CASE run'[r].status = "gone"
      BY <3>1 DEF RowMaySend
    <3>2. CASE run'[r].step = task[t].step + 1
      BY <1>1, <2>1, <3>2 DEF RowMaySend
    <3>3. CASE /\ run'[r].step = run[r].step /\ ~Sending(t)
               /\ run[r].status = "gone" => run'[r].status = "gone"
      <4>1. \A j \in 0..k : ~Holds(t, r, j)
        BY <1>1, <1>6, <1>8, <2>1, <3>3 DEF Holds
      <4>2. \A u \in Tick : \A j \in 0..k : Holds(u, r, j) => Holds(u, r, j)'
        BY <1>1, <4>1, SameHand DEF OnlyHand
      <4> QED
        BY <3>3, <4>2, RowStands
    <3> QED
      BY <1>8, <3>1, <3>2, <3>3
  <2> QED
    BY <1>2, <1>4, <2>2 DEF Passes, Dropped
<1> QED
  BY <1>5, <1>7, <1>8

LEMMA EndPasses ==
  ASSUME Shape, HeldOnce, HeldAreEnrolled, NEW t \in Tick, Closes(t) \/ Advances(t),
         NEW r \in Run, NEW k \in Nat
  PROVE  Passes(r, k)
<1>1. /\ task[t] # Idle /\ task' = [task EXCEPT ![t] = Idle] /\ UNCHANGED <<todo, sent>>
      /\ Closes(t) => ~Sending(t)
  BY KFacts DEF Closes, Advances, Sending
<1>2. CASE Closes(t)
  <2>1. run'[r].step = run[r].step /\ (run[r].status = "gone" => run'[r].status = "gone")
    BY <1>2, ClosedRow DEF Exists
  <2> QED
    BY <1>1, <1>2, <2>1, ReleasePasses
<1>3. CASE Advances(t)
  <2>1. CASE task[t].run # r
    <3>1. run'[r] = run[r]
      BY <1>3, <2>1, AdvancedRow
    <3> QED
      BY <1>1, <2>1, <3>1, ReleasePasses
  <2>2. CASE task[t].run = r /\ Exists(r)
    <3>1. run'[r].step = task[t].step + 1
      BY <1>3, <2>2, AdvancedRow
    <3> QED
      BY <1>1, <2>2, <3>1, ReleasePasses
  <2>3. CASE task[t].run = r /\ ~Exists(r)
    <3>1. run[r].status # "none"
      BY <1>1, <2>3 DEF HeldAreEnrolled
    <3>2. run'[r] = run[r] /\ run[r].status = "gone"
      BY <1>3, <2>3, <3>1, AdvancedRow DEF Exists
    <3> QED
      BY <1>1, <2>3, <3>2, ReleasePasses
  <2> QED
    BY <2>1, <2>2, <2>3
<1> QED
  BY <1>2, <1>3

LEMMA LettingGoPasses ==
  ASSUME Shape, HeldOnce, LetsGo, NEW r \in Run, NEW k \in Nat
  PROVE  Passes(r, k)
<1>1. UNCHANGED <<run, sent>>
  BY DEF LetsGo
<1>2. CASE faults' = faults + 1
  <2>1. \A u \in Tick : /\ task'[u] = task[u] \/ task'[u] = Idle
                        /\ todo'[u] \subseteq todo[u]
    BY DEF LetsGo
  <2>2. \A u \in Tick : MaySend(u, r, k)' => MaySend(u, r, k)
    BY <2>1 DEF MaySend, Sending
  <2>3. Pending(r, k)' \subseteq Pending(r, k)
    BY <2>2 DEF Pending
  <2>4. TimesSent(r, k)' = TimesSent(r, k)
    BY <1>1 DEF TimesSent
  <2> QED
    BY <1>2, <2>3, <2>4 DEF Passes, Regained
<1>3. ASSUME NEW t \in Tick, task[t].at = "create", task' = [task EXCEPT ![t] = Idle], UNCHANGED todo
      PROVE  Passes(r, k)
  <2>1. task[t] # Idle /\ ~Sending(t)
    BY <1>3, KFacts DEF Sending
  <2> QED
    BY <1>1, <1>3, <2>1, ReleasePasses
<1> QED
  BY <1>2, <1>3 DEF LetsGo

LEMMA EveryStepPasses ==
  ASSUME Shape, Blank, HeldOnce, HeldAreEnrolled, [Next]_vars, NEW r \in Run, NEW k \in Nat
  PROVE  Passes(r, k)
<1>1. CASE Outside
  <2>1. UNCHANGED <<task, todo, sent>> /\ Flows(r)
    BY <1>1 DEF Outside
  <2>2. run'[r].step = run[r].step /\ (run[r].status = "gone" => run'[r].status = "gone")
    BY <2>1 DEF Flows, Exists
  <2> QED
    BY <2>1, <2>2, HandsStand DEF Passes
<1> QED
  BY <1>1, NextCases, FetchPasses, LoadPasses, GoingPasses, CreatePasses, EndPasses, LettingGoPasses

(* Faults and overlaps are never taken back.                                *)
LEMMA NextFaults ==
  ASSUME Shape, Blank, [Next]_vars, NEW r \in Run
  PROVE  /\ faults \in Nat /\ faults' \in Nat /\ doubled[r] \in Nat /\ doubled'[r] \in Nat
         /\ faults' >= faults /\ doubled'[r] >= doubled[r]
<1>1. faults \in Nat /\ doubled \in [Run -> Nat] /\ faults' \in Nat /\ doubled' \in [Run -> Nat]
  <2>1. Shape'
    BY NextShape
  <2> QED
    BY <2>1 DEF Shape, TypeOK
<1>2. doubled[r] \in Nat /\ doubled'[r] \in Nat
  BY <1>1
<1>3. faults' = faults \/ faults' = faults + 1
  BY NextCases DEF Fetches, Loads, Decides, Creates, Sends, Closes, Advances, LetsGo, Outside
<1>4. doubled'[r] = doubled[r] \/ doubled'[r] = doubled[r] + 1
  <2>1. ASSUME NEW t \in Tick, Fetches(t)
        PROVE  doubled'[r] = doubled[r] \/ doubled'[r] = doubled[r] + 1
    BY <2>1 DEF Fetches
  <2>2. UNCHANGED doubled \/ \E t \in Tick : Fetches(t)
    BY NextCases DEF Loads, Decides, Creates, Sends, Closes, Advances, LetsGo, Outside
  <2> QED
    BY <2>1, <2>2
<1> QED
  BY <1>1, <1>2, <1>3, <1>4

LEMMA NextCounted ==
  ASSUME Shape, Blank, HeldOnce, HeldAreEnrolled, SendsAreCounted, [Next]_vars
  PROVE  SendsAreCounted'
<1> SUFFICES ASSUME NEW r \in Run, NEW k \in Nat
             PROVE  TimesSent(r, k)' + Cardinality(Pending(r, k)')
                      + (IF RowMaySend(r, k)' THEN 1 ELSE 0) <= 1 + faults' + doubled'[r]
  BY DEF SendsAreCounted
<1>1. PICK n \in Nat, m \in Nat : n = TimesSent(r, k) /\ m = TimesSent(r, k)'
  <2>1. Shape'
    BY NextShape
  <2>2. TimesSent(r, k)' \in Nat
    BY <2>1 DEF Shape, TypeOK, TimesSent
  <2> QED
    BY <2>2, TimesSentIsNat
<1>2. PICK f \in Nat, g \in Nat, d \in Nat, e \in Nat :
        f = faults /\ g = faults' /\ d = doubled[r] /\ e = doubled'[r] /\ g >= f /\ e >= d
  BY NextFaults
<1>3. PICK P \in SUBSET Tick, Q \in SUBSET Tick : P = Pending(r, k) /\ Q = Pending(r, k)'
  BY DEF Pending
<1>4. PICK p \in Nat, q \in Nat :
        /\ p = Cardinality(P) /\ q = Cardinality(Q)
        /\ Q \subseteq P => q <= p
        /\ \A t \in Tick : /\ Q \subseteq P \cup {t} => q <= p + 1
                           /\ t \in P /\ Q \subseteq P \ {t} => q + 1 <= p
  <2>1. CASE Tick = {}
    <3>1. P = Q /\ P \in SUBSET Tick
      BY <2>1
    <3>2. Cardinality(P) \in Nat
      BY FollowUpsAssumption, FS_Subset, FS_CardinalityType
    <3> QED
      BY <2>1, <3>1, <3>2
  <2>2. ASSUME NEW u \in Tick PROVE Cardinality(P) \in Nat /\ Cardinality(Q) \in Nat
    BY TickSets
  <2>3. ASSUME NEW u \in Tick
        PROVE  /\ Q \subseteq P => Cardinality(Q) <= Cardinality(P)
               /\ Q \subseteq P \cup {u} => Cardinality(Q) <= Cardinality(P) + 1
               /\ u \in P /\ Q \subseteq P \ {u} => Cardinality(Q) + 1 <= Cardinality(P)
    BY TickSets
  <2> QED
    BY <2>1, <2>2, <2>3
<1>5. PICK b \in {0, 1}, c \in {0, 1} :
        /\ b = (IF RowMaySend(r, k) THEN 1 ELSE 0) /\ c = (IF RowMaySend(r, k)' THEN 1 ELSE 0)
  OBVIOUS
<1>6. n + p + b <= 1 + f + d
  BY <1>1, <1>2, <1>3, <1>4, <1>5 DEF SendsAreCounted
<1>7. /\ Dropped(r, k) => m = n /\ q <= p /\ c <= b
      /\ Regained(r, k) => m = n /\ q <= p /\ g = f + 1
      /\ PassedOn(r, k) => m = n /\ q + 1 <= p
      /\ Used(r, k) => m = n + 1 /\ q + 1 <= p /\ c <= b
      /\ Taken(r, k) => m = n /\ q <= p + 1 /\ b = 1 /\ c = 0
      /\ Doubled(r, k) => m = n /\ q <= p + 1 /\ c <= b /\ e = d + 1
  <2>1. Pending(r, k) \subseteq Tick
    BY DEF Pending
  <2>2. Dropped(r, k) => m = n /\ q <= p /\ c <= b
    BY <1>1, <1>3, <1>4, <1>5 DEF Dropped
  <2>3. Regained(r, k) => m = n /\ q <= p /\ g = f + 1
    BY <1>1, <1>2, <1>3, <1>4 DEF Regained
  <2>4. PassedOn(r, k) => m = n /\ q + 1 <= p
    BY <1>1, <1>3, <1>4, <2>1 DEF PassedOn
  <2>5. Used(r, k) => m = n + 1 /\ q + 1 <= p /\ c <= b
    BY <1>1, <1>3, <1>4, <1>5, <2>1 DEF Used
  <2>6. Taken(r, k) => m = n /\ q <= p + 1 /\ b = 1 /\ c = 0
    BY <1>1, <1>3, <1>4, <1>5 DEF Taken
  <2>7. Doubled(r, k) => m = n /\ q <= p + 1 /\ c <= b /\ e = d + 1
    BY <1>1, <1>2, <1>3, <1>4, <1>5 DEF Doubled
  <2> QED
    BY <2>2, <2>3, <2>4, <2>5, <2>6, <2>7
<1>8. m + q + c <= 1 + g + e
  <2>1. Passes(r, k)
    BY EveryStepPasses
  <2>2. \/ m = n /\ q <= p /\ c <= b
        \/ m = n /\ q <= p /\ g = f + 1
        \/ m = n /\ q + 1 <= p
        \/ m = n + 1 /\ q + 1 <= p /\ c <= b
        \/ m = n /\ q <= p + 1 /\ b = 1 /\ c = 0
        \/ m = n /\ q <= p + 1 /\ c <= b /\ e = d + 1
    BY <1>7, <2>1 DEF Passes
  <2> QED
    BY <1>2, <1>5, <1>6, <2>2
<1> QED
  BY <1>1, <1>2, <1>3, <1>4, <1>5, <1>8

LEMMA InitCounted ==
  ASSUME Init
  PROVE  SendsAreCounted
<1> SUFFICES ASSUME NEW r \in Run, NEW k \in Nat
             PROVE  TimesSent(r, k) + Cardinality(Pending(r, k))
                      + (IF RowMaySend(r, k) THEN 1 ELSE 0) <= 1 + faults + doubled[r]
  BY DEF SendsAreCounted
<1>1. Pending(r, k) = {} /\ TimesSent(r, k) = 0 /\ faults = 0 /\ doubled[r] = 0
  BY DEF Init, Pending, MaySend, TimesSent
<1>2. Cardinality(Pending(r, k)) = 0
  BY <1>1, FS_EmptySet
<1> QED
  BY <1>1, <1>2

LEMMA OnceFromCounts ==
  ASSUME Shape, SendsAreCounted
  PROVE  StepSentOnce
<1> SUFFICES ASSUME NEW r \in Run, NEW k \in DOMAIN sent[r]
             PROVE  sent[r][k] <= 1 + faults + doubled[r]
  BY DEF StepSentOnce
<1>1. k \in Nat /\ sent[r][k] \in Nat /\ faults \in Nat /\ doubled[r] \in Nat
  BY DEF Shape, TypeOK
<1>2. PICK p \in Nat : p = Cardinality(Pending(r, k))
  <2>1. Pending(r, k) \in SUBSET Tick
    BY DEF Pending
  <2> QED
    BY <2>1, FollowUpsAssumption, FS_Subset, FS_CardinalityType
<1>3. PICK b \in {0, 1} : b = (IF RowMaySend(r, k) THEN 1 ELSE 0)
  OBVIOUS
<1>4. sent[r][k] + p + b <= 1 + faults + doubled[r]
  BY <1>1, <1>2, <1>3 DEF SendsAreCounted, TimesSent
<1> QED
  BY <1>1, <1>2, <1>3, <1>4

-----------------------------------------------------------------------------
(* The steps of a sequence are those of one update *)

LEMMA NextWhole ==
  ASSUME Shape, Blank, EditsAreWhole, [Next]_vars
  PROVE  EditsAreWhole'
<1> DEFINE Whole(p) == /\ \A s, t \in steps[p] : s.edit = t.edit
                       /\ \A e \in Editor : edit[e] # NoEdit /\ edit[e].seq = p =>
                            /\ steps[p] = {}
                            /\ \A f \in Editor : edit[f] # NoEdit /\ edit[f].seq = p => f = e
           Whole2(p) == /\ \A s, t \in steps'[p] : s.edit = t.edit
                        /\ \A e \in Editor : edit'[e] # NoEdit /\ edit'[e].seq = p =>
                             /\ steps'[p] = {}
                             /\ \A f \in Editor : edit'[f] # NoEdit /\ edit'[f].seq = p => f = e
<1>1. steps \in [Sequence -> SUBSET StepRow] /\ edit \in [Editor -> EditRow \cup {NoEdit}]
  BY DEF Shape, TypeOK
<1> SUFFICES ASSUME NEW p \in Sequence, p \notin mixed' PROVE Whole2(p)
  BY DEF EditsAreWhole
<1>2. ASSUME p \notin mixed PROVE Whole(p)
  BY <1>2 DEF EditsAreWhole
<1>3. CASE UNCHANGED <<steps, edit, mixed>>
  BY <1>2, <1>3
<1>4. ASSUME NEW e \in Editor, NEW q \in Sequence, NEW list \in StepList, edit[e] = NoEdit,
             steps' = [steps EXCEPT ![q] = {}],
             edit' = [edit EXCEPT ![e] = [seq |-> q, id |-> edits + 1, list |-> list]],
             mixed' = IF \E f \in Editor : edit[f] # NoEdit /\ edit[f].seq = q
                      THEN mixed \cup {q} ELSE mixed
      PROVE  Whole2(p)
  <2>1. Whole(p)
    BY <1>2, <1>4
  <2>2. /\ edit'[e].seq = q /\ \A f \in Editor \ {e} : edit'[f] = edit[f]
        /\ steps'[q] = {} /\ \A s \in Sequence \ {q} : steps'[s] = steps[s]
    BY <1>1, <1>4
  <2>3. CASE p = q
    <3>1. \A f \in Editor : edit[f] # NoEdit => edit[f].seq # p
      BY <1>4, <2>3
    <3> QED
      BY <2>2, <2>3, <3>1
  <2>4. CASE p # q
    BY <2>1, <2>2, <2>4
  <2> QED
    BY <2>3, <2>4
<1>5. ASSUME NEW e \in Editor, edit[e] # NoEdit, edit' = [edit EXCEPT ![e] = NoEdit],
             UNCHANGED mixed,
             \/ UNCHANGED steps
             \/ steps' = [steps EXCEPT ![edit[e].seq] = @ \cup
                  {[order |-> s.order, channel |-> s.channel, edit |-> edit[e].id]
                   : s \in edit[e].list}]
      PROVE  Whole2(p)
  <2>1. Whole(p)
    BY <1>2, <1>5
  <2>2. PICK q \in Sequence : q = edit[e].seq
    BY <1>5, NewSteps
  <2>3. edit'[e] = NoEdit /\ \A f \in Editor \ {e} : edit'[f] = edit[f]
    BY <1>1, <1>5
  <2> DEFINE new == {[order |-> s.order, channel |-> s.channel, edit |-> edit[e].id]
                     : s \in edit[e].list}
  <2>4. \A s, t \in new : s.edit = t.edit
    OBVIOUS
  <2>5. UNCHANGED steps \/ steps' = [steps EXCEPT ![q] = @ \cup new]
    BY <1>5, <2>2
  <2> HIDE DEF new
  <2>6. CASE p = q
    <3>1. steps[p] = {} /\ \A f \in Editor : edit[f] # NoEdit /\ edit[f].seq = p => f = e
      BY <1>5, <2>1, <2>2, <2>6
    <3>2. steps'[p] = {} \/ steps'[p] = new
      BY <1>1, <2>5, <2>6, <3>1
    <3>3. \A f \in Editor : ~(edit'[f] # NoEdit /\ edit'[f].seq = p)
      BY <2>3, <3>1
    <3> QED
      BY <2>4, <3>2, <3>3
  <2>7. CASE p # q
    <3>1. steps'[p] = steps[p]
      BY <1>1, <2>5, <2>7
    <3> QED
      BY <2>1, <2>3, <3>1
  <2> QED
    BY <2>6, <2>7
<1>6. ASSUME NEW q \in Sequence, steps' = [steps EXCEPT ![q] = {}], UNCHANGED <<edit, mixed>>
      PROVE  Whole2(p)
  <2>1. steps'[q] = {} /\ \A s \in Sequence \ {q} : steps'[s] = steps[s]
    BY <1>1, <1>6
  <2> QED
    BY <1>2, <1>6, <2>1
<1> HIDE DEF Whole2
<1>7. CASE Outside
  BY <1>3, <1>4, <1>5, <1>6, <1>7 DEF Outside, Still
<1>8. UNCHANGED <<steps, edit, mixed>> \/ Outside
  BY NextCases DEF Fetches, Loads, Decides, Creates, Sends, Closes, Advances, LetsGo, Still
<1> QED
  BY <1>3, <1>7, <1>8

-----------------------------------------------------------------------------
(* A completed run is done *)

(* A run that has sent the steps before k, where its sequence has no k, has *)
(* sent them all.                                                           *)
LEMMA SentToTheEnd ==
  ASSUME Shape, NEW r \in Run, NEW k \in Nat, SentBefore(r, k), StepAt(steps[SeqOf[r]], k) = {},
         IsFiniteSet(steps[SeqOf[r]]), \A s, t \in steps[SeqOf[r]] : s.order = t.order => s = t
  PROVE  AllSent(r)
<1> DEFINE S == steps[SeqOf[r]]
<1>1. S \in SUBSET StepRow
  BY FollowUpsAssumption DEF Shape, TypeOK
<1>2. \A s \in S : s.order \in Nat /\ s.edit \in Nat
  BY <1>1, BeforeIsStep
<1>3. IsFiniteSet(S) /\ StepAt(S, k) = {} /\ \A s, t \in S : s.order = t.order => s = t
  OBVIOUS
<1>4. Cardinality(S) \in Nat /\ Cardinality(S) <= k
  <2> HIDE DEF S
  <2> QED
    BY <1>2, <1>3, NoStepLeft
<1>5. PICK n \in Nat : n = Cardinality(steps[SeqOf[r]]) /\ n <= k
  BY <1>4
<1>6. \A j \in 0..n - 1 : j \in 0..k /\ j < k
  BY <1>5
<1> QED
  BY <1>5, <1>6 DEF AllSent, SentBefore

LEMMA ClosedLeads ==
  ASSUME Shape, Blank, StepsStand, [Next]_vars
  PROVE  /\ \A l \in Lead : lead'[l] = "closed" => l \in closed'
         /\ closed \subseteq closed'
<1>1. lead \in [Lead -> {"open", "closed", "gone"}] /\ \A l \in Lead : lead[l] = "closed" => l \in closed
  BY DEF Shape, TypeOK, StepsStand
<1>2. CASE UNCHANGED <<lead, closed>>
  BY <1>1, <1>2
<1>3. ASSUME NEW l \in Lead, NEW v \in {"open", "closed", "gone"}, lead' = [lead EXCEPT ![l] = v],
             closed' = IF v = "closed" THEN closed \cup {l} ELSE closed
      PROVE  (\A m \in Lead : lead'[m] = "closed" => m \in closed') /\ closed \subseteq closed'
  BY <1>1, <1>3
<1>4. CASE Outside
  BY <1>2, <1>3, <1>4 DEF Outside, Still
<1>5. UNCHANGED <<lead, closed>> \/ Outside
  BY NextCases DEF Fetches, Loads, Decides, Creates, Sends, Closes, Advances, LetsGo, Still
<1> QED
  BY <1>2, <1>4, <1>5

LEMMA DeletedSequences ==
  ASSUME Shape, Blank, StepsStand, [Next]_vars,
         NEW q \in Sequence, enabled'[q] = "deleted", NEW r \in Run, SeqOf[r] = q
  PROVE  run'[r].status \in {"none", "gone"}
<1>1. enabled \in [Sequence -> {"yes", "no", "deleted"}]
  BY DEF Shape, TypeOK
<1>2. ASSUME enabled[q] = "deleted" PROVE run'[r].status \in {"none", "gone"}
  <2>1. run[r].status \in {"none", "gone"}
    BY <1>2 DEF StepsStand
  <2>2. ~Exists(r)
    BY <2>1 DEF Exists
  <2>3. CASE Outside
    <3>1. Flows(r)
      BY <2>3 DEF Outside
    <3> QED
      BY <1>2, <2>1, <2>2, <3>1 DEF Flows
  <2>4. ASSUME NEW t \in Tick, Closes(t) \/ Advances(t) PROVE run'[r] = run[r]
    BY <2>2, <2>4, ClosedRow, AdvancedRow
  <2>5. UNCHANGED run \/ Outside \/ \E t \in Tick : Closes(t) \/ Advances(t)
    BY NextCases DEF Fetches, Loads, Decides, Creates, Sends, LetsGo
  <2> QED
    BY <2>1, <2>3, <2>4, <2>5
<1>3. CASE UNCHANGED enabled
  BY <1>2, <1>3
<1>4. ASSUME NEW p \in Sequence, NEW b \in {"yes", "no"}, enabled' = [enabled EXCEPT ![p] = b]
      PROVE  enabled[q] = "deleted"
  BY <1>1, <1>4
<1>5. ASSUME NEW p \in Sequence, enabled' = [enabled EXCEPT ![p] = "deleted"], enabled[q] # "deleted"
      PROVE  p = q
  BY <1>1, <1>5
<1>6. CASE Outside
  BY <1>2, <1>3, <1>4, <1>5, <1>6 DEF Outside, Still
<1>7. UNCHANGED enabled \/ Outside
  BY NextCases DEF Fetches, Loads, Decides, Creates, Sends, Closes, Advances, LetsGo, Still
<1> QED
  BY <1>3, <1>6, <1>7

(* Before the first update the steps of a sequence change when it is        *)
(* removed, and its runs with it.                                           *)
LEMMA StepsUnchanged ==
  ASSUME Shape, Blank, StepsStand, [Next]_vars, edits' = 0
  PROVE  /\ edits = 0 /\ \A e \in Editor : edit'[e] = NoEdit
         /\ \A q \in Sequence : steps'[q] = steps[q] \/ steps'[q] = {}
         /\ \A r \in Run : run'[r].status \notin {"none", "gone"} =>
              steps'[SeqOf[r]] = steps[SeqOf[r]]
<1>1. steps \in [Sequence -> SUBSET StepRow] /\ edits \in Nat /\ SeqOf \in [Run -> Sequence]
  BY FollowUpsAssumption DEF Shape, TypeOK
<1>2. edits = 0 /\ (UNCHANGED <<steps, edit>> \/ Outside)
  <2>1. UNCHANGED <<steps, edit, edits>> \/ Outside
    BY NextCases DEF Fetches, Loads, Decides, Creates, Sends, Closes, Advances, LetsGo, Still
  <2>2. Outside => edits' = edits \/ edits' = edits + 1
    BY DEF Outside, Still
  <2> QED
    BY <1>1, <2>1, <2>2
<1>3. \A e \in Editor : edit[e] = NoEdit
  BY <1>2 DEF StepsStand
<1>4. CASE UNCHANGED <<steps, edit>>
  BY <1>2, <1>3, <1>4
<1>5. ASSUME NEW p \in Sequence, steps' = [steps EXCEPT ![p] = {}], UNCHANGED edit,
             \A r \in Run : SeqOf[r] = p => run'[r].status \in {"none", "gone"}
      PROVE  /\ edits = 0 /\ \A e \in Editor : edit'[e] = NoEdit
             /\ \A q \in Sequence : steps'[q] = steps[q] \/ steps'[q] = {}
             /\ \A r \in Run : run'[r].status \notin {"none", "gone"} =>
                  steps'[SeqOf[r]] = steps[SeqOf[r]]
  BY <1>1, <1>2, <1>3, <1>5
<1>6. CASE Outside
  <2>1. edits' # edits + 1
    BY <1>1
  <2> QED
    BY <1>3, <1>4, <1>5, <1>6, <2>1 DEF Outside, Still
<1> QED
  BY <1>2, <1>4, <1>6

LEMMA SentStays ==
  ASSUME Shape, Blank, [Next]_vars, NEW r \in Run, AllSent(r),
         steps'[SeqOf[r]] = steps[SeqOf[r]]
  PROVE  AllSent(r)'
BY SentBeforeStays DEF AllSent

(* A tick that is to complete its run has just decided so.                  *)
LEMMA ToComplete ==
  ASSUME Shape, Blank, [Next]_vars, NEW u \in Tick, task'[u] # Idle,
         task'[u].at = "close", task'[u].to = "COMPLETED"
  PROVE  task'[u] = task[u] \/ Decides(u)
<1>1. task \in [Tick -> Task \cup {Idle}]
  BY DEF Shape
<1>2. ASSUME NEW t \in Tick, Creates(t) \/ Sends(t) PROVE task'[u] = task[u]
  <2>1. PICK a \in {"send", "advance"} :
          task' = [task EXCEPT ![t] = K(a, task[t].run, task[t].step, task[t].steps, task[t].to)]
    BY <1>2 DEF Creates, Sends
  <2>2. task'[t].at = a
    BY <1>1, <2>1, KFacts
  <2> QED
    BY <1>1, <2>1, <2>2
<1>3. ASSUME NEW t \in Tick, NEW s \in todo[t], Loads(t, s) PROVE task'[u] = task[u]
  <2>1. PICK a : task' = [task EXCEPT ![t] = K(a, s.run, s.step, steps[SeqOf[s.run]], "CANCELLED")]
    BY <1>3 DEF Loads
  <2>2. task'[t].to = "CANCELLED"
    BY <1>1, <2>1, KFacts
  <2> QED
    BY <1>1, <2>1, <2>2
<1>4. ASSUME NEW t \in Tick, Closes(t) \/ Advances(t) PROVE task'[u] = task[u]
  BY <1>1, <1>4 DEF Closes, Advances
<1>5. LetsGo => task'[u] = task[u]
  BY DEF LetsGo
<1>6. ASSUME NEW t \in Tick, Decides(t) PROVE task'[u] = task[u] \/ Decides(u)
  BY <1>1, <1>6 DEF Decides
<1>7. \A t \in Tick : Fetches(t) \/ Outside => UNCHANGED task
  BY DEF Fetches, Outside
<1> QED
  BY <1>2, <1>3, <1>4, <1>5, <1>6, <1>7, NextCases

(* Who completes a run.                                                     *)
LEMMA CompletedBy ==
  ASSUME Shape, Blank, [Next]_vars, NEW r \in Run, run'[r].status = "COMPLETED"
  PROVE  \/ run[r].status = "COMPLETED"
         \/ \E t \in Tick : /\ Closes(t) /\ task[t].run = r /\ task[t].to = "COMPLETED"
         \/ \E t \in Tick : /\ Advances(t) /\ task[t].run = r
                            /\ StepAt(task[t].steps, task[t].step + 1) = {}
<1>1. ASSUME NEW t \in Tick, Closes(t)
      PROVE  run'[r] = run[r] \/ (task[t].run = r /\ task[t].to = run'[r].status)
  BY <1>1, ClosedRow
<1>2. ASSUME NEW t \in Tick, Advances(t)
      PROVE  \/ run'[r].status = run[r].status
             \/ task[t].run = r /\ StepAt(task[t].steps, task[t].step + 1) = {}
  BY <1>2, AdvancedRow
<1>3. CASE Outside
  <2>1. Flows(r)
    BY <1>3 DEF Outside
  <2> QED
    BY <2>1 DEF Flows
<1>4. UNCHANGED run \/ Outside \/ \E t \in Tick : Closes(t) \/ Advances(t)
  BY NextCases DEF Fetches, Loads, Decides, Creates, Sends, LetsGo
<1> QED
  BY <1>1, <1>2, <1>3, <1>4

LEMMA NextStand ==
  ASSUME Shape, Blank, TicksSendInOrder, HeldAreEnrolled, StepsStand, [Next]_vars
  PROVE  StepsStand'
<1>1. HeldAreEnrolled' /\ Shape' /\ SeqOf \in [Run -> Sequence] /\ LeadOf \in [Run -> Lead]
  BY NextEnrolled, NextShape, FollowUpsAssumption
<1>2. SUFFICES ASSUME edits' = 0
      PROVE /\ \A q \in Sequence : /\ IsFiniteSet(steps'[q])
                                   /\ \A s, t \in steps'[q] : s.order = t.order => s = t
            /\ \A e \in Editor : edit'[e] = NoEdit
            /\ \A t \in Tick : task'[t] # Idle /\ Open(task[t].run)' =>
                 /\ task'[t].steps = steps'[SeqOf[task'[t].run]]
                 /\ task'[t].at = "close" /\ task'[t].to = "COMPLETED" => AllSent(task[t].run)'
            /\ \A r \in Run : run'[r].status = "COMPLETED" /\ Open(r)' => AllSent(r)'
  <2>1. \A l \in Lead : lead'[l] = "closed" => l \in closed'
    BY ClosedLeads
  <2>2. \A q \in Sequence : enabled'[q] = "deleted" => \A r \in Run :
          SeqOf[r] = q => run'[r].status \in {"none", "gone"}
    BY DeletedSequences
  <2> QED
    BY <2>1, <2>2 DEF StepsStand
<1>3. /\ edits = 0 /\ \A e \in Editor : edit'[e] = NoEdit
      /\ \A q \in Sequence : steps'[q] = steps[q] \/ steps'[q] = {}
      /\ \A r \in Run : run'[r].status \notin {"none", "gone"} => steps'[SeqOf[r]] = steps[SeqOf[r]]
  BY <1>2, StepsUnchanged
<1>4. \A q \in Sequence : IsFiniteSet(steps[q]) /\ \A s, t \in steps[q] : s.order = t.order => s = t
  BY <1>3 DEF StepsStand
<1>5. ASSUME NEW q \in Sequence
      PROVE  IsFiniteSet(steps'[q]) /\ \A s, t \in steps'[q] : s.order = t.order => s = t
  BY <1>3, <1>4, FS_EmptySet
<1>6. \A r \in Run : Open(r)' => Open(r)
  <2>1. \A r \in Run : run[r].status = "gone" => run'[r].status = "gone"
    BY NextRows
  <2>2. closed \subseteq closed'
    BY ClosedLeads
  <2> QED
    BY <2>1, <2>2 DEF Open
<1>7. ASSUME NEW t \in Tick, task[t] # Idle, Open(task[t].run)
      PROVE  /\ task[t].run \in Run /\ task[t].step \in Nat
             /\ SentBefore(task[t].run, task[t].step)
             /\ task[t].steps = steps[SeqOf[task[t].run]]
             /\ task[t].at = "close" /\ task[t].to = "COMPLETED" => AllSent(task[t].run)
  BY <1>3, <1>7, TaskFacts DEF StepsStand, TicksSendInOrder
<1>8. ASSUME NEW u \in Tick, task'[u] # Idle, NEW r \in Run, task'[u].run = r, Open(r)'
      PROVE  /\ task'[u].steps = steps'[SeqOf[r]]
             /\ task'[u].at = "close" /\ task'[u].to = "COMPLETED" => AllSent(r)'
  <2>1. steps'[SeqOf[r]] = steps[SeqOf[r]]
    <3>1. run'[r].status # "none"
      BY <1>1, <1>8 DEF HeldAreEnrolled
    <3> QED
      BY <1>3, <1>8, <3>1 DEF Open
  <2>2. Open(r)
    BY <1>6, <1>8
  <2>3. task'[u].steps = steps[SeqOf[r]]
    <3>1. CASE task[u] # Idle /\ task'[u].run = task[u].run /\ task'[u].steps = task[u].steps
      BY <1>7, <1>8, <2>2, <3>1
    <3>2. CASE \E s \in todo[u] : task'[u].run = s.run /\ task'[u].steps = steps[SeqOf[s.run]]
      BY <1>8, <3>2
    <3> QED
      BY <1>8, <3>1, <3>2, NextHeld
  <2>4. ASSUME task'[u].at = "close", task'[u].to = "COMPLETED" PROVE AllSent(r)
    <3>1. CASE task'[u] = task[u]
      BY <1>7, <1>8, <2>2, <2>4, <3>1
    <3>2. CASE Decides(u)
      <4>1. PICK a \in {"close", "create"}, c \in Ends :
              /\ task' = [task EXCEPT ![u] = K(a, task[u].run, task[u].step, task[u].steps, c)]
              /\ c = "COMPLETED" /\ a = "close"
                   => \/ lead[LeadOf[task[u].run]] = "closed"
                      \/ StepAt(task[u].steps, task[u].step) = {}
        BY <3>2 DEF Decides
      <4>2. task'[u] = K(a, task[u].run, task[u].step, task[u].steps, c)
        BY <4>1 DEF Shape
      <4>3. a = "close" /\ c = "COMPLETED" /\ task[u].run = r
        BY <1>8, <2>4, <4>2, KFacts
      <4>4. task[u].at = "lead"
        BY <3>2 DEF Decides
      <4>5. task[u] # Idle
        BY <4>4 DEF Idle
      <4>6. lead[LeadOf[r]] # "closed"
        BY <1>1, <2>2 DEF Open, StepsStand
      <4>7. PICK k \in Nat : k = task[u].step
        BY <1>7, <2>2, <4>3, <4>5
      <4>8. SentBefore(r, k) /\ StepAt(steps[SeqOf[r]], k) = {}
        BY <1>7, <2>2, <4>1, <4>3, <4>5, <4>6, <4>7
      <4>9. SeqOf[r] \in Sequence
        BY <1>1
      <4> QED
        BY <1>4, <4>8, <4>9, SentToTheEnd
    <3> QED
      BY <1>8, <2>4, <3>1, <3>2, ToComplete
  <2> QED
    BY <2>1, <2>3, <2>4, SentStays
<1>9. ASSUME NEW r \in Run, run'[r].status = "COMPLETED", Open(r)' PROVE AllSent(r)'
  <2>1. steps'[SeqOf[r]] = steps[SeqOf[r]] /\ Open(r)
    BY <1>3, <1>6, <1>9
  <2>2. AllSent(r)
    <3>1. CASE run[r].status = "COMPLETED"
      BY <1>3, <2>1, <3>1 DEF StepsStand
    <3>2. ASSUME NEW t \in Tick, Closes(t), task[t].run = r, task[t].to = "COMPLETED"
          PROVE  AllSent(r)
      <4>1. task[t].at = "close"
        BY <3>2 DEF Closes
      <4>2. task[t] # Idle
        BY <4>1 DEF Idle
      <4> QED
        BY <1>7, <2>1, <3>2, <4>1, <4>2
    <3>3. ASSUME NEW t \in Tick, Advances(t), task[t].run = r,
                 StepAt(task[t].steps, task[t].step + 1) = {}
          PROVE  AllSent(r)
      <4>1. task[t].at = "advance"
        BY <3>3 DEF Advances
      <4>2. task[t] # Idle /\ Sending(t)
        BY <4>1 DEF Idle, Sending
      <4>3. PICK k \in Nat : k = task[t].step
        BY <4>2, TaskFacts
      <4>4. SentBefore(r, k) /\ TimesSent(r, k) > 0 /\ task[t].steps = steps[SeqOf[r]]
        BY <1>7, <2>1, <3>3, <4>2, <4>3 DEF TicksSendInOrder
      <4>5. SentBefore(r, k + 1)
        BY <4>4 DEF SentBefore
      <4>6. StepAt(steps[SeqOf[r]], k + 1) = {} /\ SeqOf[r] \in Sequence
        BY <1>1, <3>3, <4>3, <4>4
      <4>7. PICK m \in Nat : m = k + 1
        OBVIOUS
      <4> QED
        BY <1>4, <4>5, <4>6, <4>7, SentToTheEnd
    <3> QED
      BY <1>9, <3>1, <3>2, <3>3, CompletedBy
  <2> QED
    BY <2>1, <2>2, SentStays
<1>10. \A t \in Tick : task'[t] # Idle => task'[t].run \in Run
  <2>1. task' \in [Tick -> Task \cup {Idle}]
    BY <1>1 DEF Shape
  <2> QED
    BY <2>1 DEF Task
<1>11. ASSUME NEW t \in Tick, task'[t] # Idle, Open(task[t].run)'
       PROVE  /\ task'[t].steps = steps'[SeqOf[task'[t].run]]
              /\ task'[t].at = "close" /\ task'[t].to = "COMPLETED" => AllSent(task[t].run)'
  <2>1. PICK r \in Run : r = task'[t].run
    BY <1>10, <1>11
  <2>2. Open(r)'
    BY <1>11, <2>1
  <2>3. /\ task'[t].steps = steps'[SeqOf[r]]
        /\ task'[t].at = "close" /\ task'[t].to = "COMPLETED" => AllSent(r)'
    BY <1>8, <1>11, <2>1, <2>2
  <2> QED
    BY <2>1, <2>3
<1> QED
  BY <1>3, <1>5, <1>9, <1>11

LEMMA InitStands ==
  ASSUME Init
  PROVE  StepsStand /\ HeldAreEnrolled /\ HeldOnce /\ EditsAreWhole
<1>1. ASSUME NEW q \in Sequence
      PROVE  /\ IsFiniteSet(steps[q]) /\ \A s, t \in steps[q] : s.order = t.order => s = t
             /\ \A s, t \in steps[q] : s.edit = t.edit
  <2>1. PICK list \in StepList :
          steps[q] = {[order |-> s.order, channel |-> s.channel, edit |-> 0] : s \in list}
    BY DEF Init
  <2>2. IsFiniteSet(list) /\ \A s, t \in list : s.order = t.order => s = t
    BY FollowUpsAssumption
  <2> DEFINE f == [s \in list |-> [order |-> s.order, channel |-> s.channel, edit |-> 0]]
  <2>3. steps[q] = {f[s] : s \in list}
    BY <2>1
  <2>4. f \in Surjection(list, steps[q])
    BY <2>3 DEF Surjection
  <2>5. IsFiniteSet(steps[q])
    <3> HIDE DEF f
    <3> QED
      BY <2>2, <2>4, FS_Surjection
  <2> QED
    BY <2>1, <2>2, <2>5
<1> QED
  BY <1>1 DEF Init, StepsStand, HeldAreEnrolled, HeldOnce, EditsAreWhole

LEMMA DoneFromStand ==
  ASSUME Shape, StepsStand
  PROVE  CompletedIsDone
BY DEF StepsStand, CompletedIsDone, Open, AllSent

(* The steps of a sequence go out one after the other, to the last, each    *)
(* again only for a failure, a crash or a fetch of a run that a tick had;   *)
(* for any runs, leads, lists of steps, edits, batches, and any number of   *)
(* ticks and updates of steps at once.                                      *)
THEOREM StepsGoOutInOrder == Spec => []StepsInOrder
<1> DEFINE IInv == /\ Shape /\ Blank /\ TicksSendInOrder /\ NothingSkipped
                   /\ HeldAreEnrolled /\ HeldOnce /\ SendsAreCounted
                   /\ StepsStand /\ EditsAreWhole
<1>1. Init => IInv
  <2>1. Init => TicksSendInOrder /\ NothingSkipped
    BY DEF Init, TicksSendInOrder, NothingSkipped, Sending, Idle
  <2> QED
    BY <2>1, InitShape, InitStands, InitCounted
<1>2. IInv /\ [Next]_vars => IInv'
  BY NextShape, NextBlank, NextInOrder, NextEnrolled, NextOnce, NextCounted, NextStand,
     NextWhole
<1>3. IInv => StepsInOrder
  BY OnceFromCounts, DoneFromStand DEF StepsInOrder, EditsAreWhole, StepsOfOneUpdate
<1> HIDE DEF IInv
<1> QED
  BY <1>1, <1>2, <1>3, PTL DEF Spec

-----------------------------------------------------------------------------
(* A run that was cancelled *)

LEMMA CancelledStays ==
  ASSUME Shape, Blank, [Next]_vars, NEW r \in Run, run[r].status = "CANCELLED", ~Held(r)
  PROVE  run'[r].status \in {"CANCELLED", "gone"} /\ ~Held(r)'
<1>1. run'[r].status \in {"CANCELLED", "gone"}
  <2>1. ASSUME NEW t \in Tick, Closes(t) \/ Advances(t) PROVE run'[r] = run[r]
    <3>1. task[t].at \in {"close", "advance"}
      BY <2>1 DEF Closes, Advances
    <3>2. task[t] # Idle
      BY <3>1 DEF Idle
    <3>3. task[t].run # r
      BY <3>2 DEF Held, Holders
    <3> QED
      BY <2>1, <3>3, ClosedRow, AdvancedRow
  <2>2. CASE Outside
    <3>1. Flows(r)
      BY <2>2 DEF Outside
    <3> QED
      BY <3>1 DEF Flows
  <2>3. UNCHANGED run \/ Outside \/ \E t \in Tick : Closes(t) \/ Advances(t)
    BY NextCases DEF Fetches, Loads, Decides, Creates, Sends, LetsGo
  <2> QED
    BY <2>1, <2>2, <2>3
<1>2. ASSUME NEW u \in Tick, NEW s \in todo'[u] PROVE s.run # r
  <2>1. s \in todo[u] \/ run[s.run].status = "ACTIVE"
    BY <1>2, NextHeld
  <2> QED
    BY <1>2, <2>1 DEF Held, Holders
<1>3. ASSUME NEW u \in Tick, task'[u] # Idle PROVE task'[u].run # r
  <2>1. \/ task[u] # Idle /\ task'[u].run = task[u].run
        \/ \E s \in todo[u] : task'[u].run = s.run
    BY <1>3, NextHeld
  <2> QED
    BY <2>1 DEF Held, Holders
<1> QED
  BY <1>1, <1>2, <1>3 DEF Held, Holders

(* A cancelled run that no tick holds stays cancelled and no tick takes it: *)
(* with any number of ticks at once, whatever is edited meanwhile.          *)
THEOREM CancelledRunsStay == Spec => CancelledIsFinal
<1>1. Shape /\ Blank /\ [Next]_vars => Shape' /\ Blank'
  BY NextShape, NextBlank
<1>2. Shape /\ Blank /\ [Next]_vars =>
        [\A r \in Run : run[r].status = "CANCELLED" /\ ~Held(r) =>
           run'[r].status \in {"CANCELLED", "gone"} /\ ~Held(r)']_vars
  BY CancelledStays
<1> QED
  BY <1>1, <1>2, InitShape, PTL DEF Spec, CancelledIsFinal
=============================================================================
