------------------------ MODULE MessageDeliveryProofs ------------------------
(***************************************************************************)
(* Proofs about MessageDelivery, for any messages, agents, callers, points *)
(* of failure and numbers of crashes and retries.                          *)
(***************************************************************************)
EXTENDS MessageDelivery, FiniteSetTheorems, TLAPS

Label == {"remind", "read", "channel", "post", "record", "fail", "ack"}

(* A sender at a statement has a task of the right shape. *)
LEMMA TaskFacts ==
  ASSUME TypeOK, NEW p \in Sender, task[p] # Idle
  PROVE  /\ task[p] \in Task
         /\ task[p].at \in Label
         /\ task[p].msg \in Message /\ task[p].job \in Job
         /\ task[p].owner \in Owner /\ task[p].cause \in Cause
BY DEF TypeOK, Task, Label

LEMMA IdleFacts == Idle \notin Task
BY DEF Idle, Task

LEMMA DomainsInhabited == Nobody \in Owner /\ "error" \in Cause /\ "ack" \in Label
BY DEF Owner, Cause, Label

LEMMA JobFacts ==
  /\ Fresh \in Job
  /\ \A j \in Job : MayRetry(j) => [attempt |-> j.attempt + 1, stalled |-> FALSE] \in Job
BY DEF Fresh, Job, MayRetry, MaxChannelRetries

(* The counters of jobs, after one is added. *)
LEMMA AddFacts ==
  ASSUME TypeOK, NEW m \in Message, NEW j \in Job, Add(m, j)
  PROVE  /\ jobs' \in [Message -> [Job -> Nat]]
         /\ jobs'[m][j] = jobs[m][j] + 1
         /\ \A n \in Message, k \in Job : n # m \/ k # j => jobs'[n][k] = jobs[n][k]
BY DEF Add, TypeOK

(* Where a step leaves the task of its sender. *)
LEMMA GoFacts ==
  ASSUME TypeOK, NEW p \in Sender, task[p] # Idle
  PROVE  /\ End(p) => task' \in [Sender -> Task \cup {Idle}]
         /\ \A l \in Label : Goto(p, l) => task' \in [Sender -> Task \cup {Idle}]
         /\ \A w \in Cause : FailWith(p, w) => task' \in [Sender -> Task \cup {Idle}]
<1>1. task[p] \in Task /\ "ack" \in Label
  BY TaskFacts DEF Label
<1>2. task \in [Sender -> Task \cup {Idle}]
  BY DEF TypeOK
<1>3. End(p) => task' \in [Sender -> Task \cup {Idle}]
  <2>1. [task[p] EXCEPT !.at = "ack"] \in Task
    BY <1>1 DEF Task
  <2> QED
    BY <1>2, <2>1 DEF End
<1>4. ASSUME NEW l \in Label, Goto(p, l) PROVE task' \in [Sender -> Task \cup {Idle}]
  <2>1. [task[p] EXCEPT !.at = l] \in Task
    BY <1>1 DEF Task, Label
  <2> QED
    BY <1>2, <1>4, <2>1 DEF Goto
<1>5. ASSUME NEW w \in Cause, FailWith(p, w) PROVE task' \in [Sender -> Task \cup {Idle}]
  <2>1. [task[p] EXCEPT !.at = "fail", !.cause = w] \in Task
    BY <1>1 DEF Task, Label
  <2> QED
    BY <1>2, <1>5, <2>1 DEF FailWith
<1> QED
  BY <1>3, <1>4, <1>5

(* The message's status, when it has one. *)
LEMMA SetStatusFacts ==
  ASSUME TypeOK, NEW m \in Message, NEW s \in Status, SetStatus(m, s)
  PROVE  /\ status' \in [Message -> Status]
         /\ status'[m] = IF Exists(m) THEN s ELSE status[m]
         /\ \A n \in Message : n # m => status'[n] = status[n]
BY DEF SetStatus, TypeOK

LEMMA CandidateFacts ==
  ASSUME TypeOK, NEW o, NEW a \in Candidates(o)
  PROVE  a \in Agent
BY DEF Candidates, TypeOK

-----------------------------------------------------------------------------
(* Types *)

LEMMA SendTypeOK ==
  ASSUME TypeOK, NEW p \in Sender, Send(p)
  PROVE  TypeOK'
<1> USE DEF At
<1>1. ASSUME task[p] # Idle
      PROVE  /\ task[p] \in Task /\ task[p].msg \in Message /\ task[p].job \in Job
             /\ task[p].owner \in Owner /\ task[p].cause \in Cause
  BY <1>1, TaskFacts
<1>2. CASE Read(p)
  <2>1. task' \in [Sender -> Task \cup {Idle}]
    <3>1. task[p] # Idle
      BY <1>2 DEF Read
    <3>2. [task[p] EXCEPT !.at = "channel", !.owner = owner[task[p].msg]] \in Task
      BY <1>1, <3>1 DEF TypeOK, Task, Owner
    <3>3. "address" \in Cause
      BY DEF Cause
    <3> QED
      BY <1>2, <3>1, <3>2, <3>3, GoFacts DEF Read, TypeOK
  <2> QED
    BY <1>2, <2>1 DEF Read, TypeOK, history, budgets
<1>3. CASE FindChannel(p)
  <2>1. task' \in [Sender -> Task \cup {Idle}]
    <3>1. task[p] # Idle
      BY <1>3 DEF FindChannel
    <3>2. \A a \in Candidates(task[p].owner) : [task[p] EXCEPT !.at = "post", !.owner = a] \in Task
      <4>1. ASSUME NEW a \in Candidates(task[p].owner) PROVE a \in Owner
        BY CandidateFacts DEF Owner
      <4> QED
        BY <1>1, <3>1, <4>1 DEF Task
    <3>3. "address" \in Cause
      BY DEF Cause
    <3> QED
      BY <1>3, <3>1, <3>2, <3>3, GoFacts DEF FindChannel, TypeOK
  <2> QED
    BY <1>3, <2>1 DEF FindChannel, TypeOK, history, budgets
<1>4. CASE RetryLater(p)
  <2>1. task' \in [Sender -> Task \cup {Idle}]
    BY <1>4, GoFacts DEF RetryLater
  <2>2. jobs' \in [Message -> [Job -> Nat]]
    BY <1>1, <1>4, JobFacts, AddFacts DEF RetryLater, AddDelayed
  <2>3. misses' \in [Message -> Nat]
    BY <1>1, <1>4 DEF RetryLater, TypeOK
  <2> QED
    BY <1>4, <2>1, <2>2, <2>3 DEF RetryLater, TypeOK, budgets
<1>5. CASE RetryLaterFails(p) \/ RecordFails(p) \/ MarkFails(p)
  <2>1. task' \in [Sender -> Task \cup {Idle}]
    BY <1>5, GoFacts DEF RetryLaterFails, RecordFails, MarkFails, Cause
  <2> QED
    BY <1>5, <2>1 DEF RetryLaterFails, RecordFails, MarkFails, Fault, TypeOK, history
<1>6. CASE NoChannel(p)
  <2>1. task' \in [Sender -> Task \cup {Idle}]
    BY <1>6, GoFacts DEF NoChannel, Cause
  <2>2. misses' \in [Message -> Nat]
    BY <1>1, <1>6 DEF NoChannel, TypeOK
  <2> QED
    BY <1>6, <2>1, <2>2 DEF NoChannel, TypeOK, budgets
<1>7. CASE Post(p)
  <2>1. task' \in [Sender -> Task \cup {Idle}]
    BY <1>7, GoFacts DEF Post, Answered, Cause, Label
  <2>2. delivered' \in [Message -> Nat]
    BY <1>1, <1>7 DEF Post, TypeOK
  <2> QED
    BY <1>7, <2>1, <2>2 DEF Post, TypeOK, budgets
<1>8. CASE Record(p)
  <2>1. task' \in [Sender -> Task \cup {Idle}]
    BY <1>8, GoFacts DEF Record, Cause
  <2>2. status' \in [Message -> Status]
    BY <1>1, <1>8, SetStatusFacts DEF Record, Status
  <2> QED
    BY <1>8, <2>1, <2>2 DEF Record, TypeOK, history, budgets
<1>9. CASE MarkFailed(p)
  <2>1. task' \in [Sender -> Task \cup {Idle}]
    BY <1>9, GoFacts DEF MarkFailed
  <2>2. status' \in [Message -> Status]
    BY <1>1, <1>9, SetStatusFacts DEF MarkFailed, Status
  <2>3. cause' \in [Message -> Cause]
    BY <1>1, <1>9 DEF MarkFailed, TypeOK
  <2> QED
    BY <1>9, <2>1, <2>2, <2>3 DEF MarkFailed, TypeOK, budgets
<1> QED
  BY <1>2, <1>3, <1>4, <1>5, <1>6, <1>7, <1>8, <1>9 DEF Send

LEMMA CallerTypeOK ==
  ASSUME TypeOK, NEW p \in Sender, NEW m \in Message, NEW j \in Job,
         \/ CreateAndSend(p, m) \/ CreateReminder(p, m) \/ TakeJob(p, m, j)
         \/ AddReminder(p) \/ AddReminderFails(p) \/ Acknowledge(p)
  PROVE  TypeOK'
<1>1. ASSUME NEW l \in Label, NEW k \in Job, Begin(p, m, l, k)
      PROVE  task' \in [Sender -> Task \cup {Idle}]
  <2>1. [at |-> l, msg |-> m, job |-> k, owner |-> Nobody, cause |-> "none"] \in Task
    BY DEF Task, Label, Owner, Cause
  <2> QED
    BY <1>1, <2>1 DEF Begin, TypeOK
<1>2. CASE CreateAndSend(p, m) \/ CreateReminder(p, m)
  <2>1. task' \in [Sender -> Task \cup {Idle}]
    BY <1>1, <1>2, JobFacts DEF CreateAndSend, CreateReminder, Label
  <2>2. status' \in [Message -> Status]
    BY <1>2 DEF CreateAndSend, CreateReminder, TypeOK, Status
  <2> QED
    BY <1>2, <2>1, <2>2 DEF CreateAndSend, CreateReminder, TypeOK, history, budgets
<1>3. CASE TakeJob(p, m, j)
  <2>1. task' \in [Sender -> Task \cup {Idle}]
    BY <1>1, <1>3 DEF TakeJob, Label
  <2>2. jobs' \in [Message -> [Job -> Nat]]
    BY <1>3 DEF TakeJob, Waiting, TypeOK
  <2> QED
    BY <1>3, <2>1, <2>2 DEF TakeJob, TypeOK, history, budgets
<1>4. CASE AddReminder(p)
  <2>1. task' \in [Sender -> Task \cup {Idle}]
    BY <1>4, GoFacts DEF AddReminder, At
  <2>2. jobs' \in [Message -> [Job -> Nat]]
    BY <1>4, TaskFacts, JobFacts, AddFacts DEF AddReminder, At
  <2> QED
    BY <1>4, <2>1, <2>2 DEF AddReminder, TypeOK, history, budgets
<1>5. CASE AddReminderFails(p)
  <2>1. task' \in [Sender -> Task \cup {Idle}]
    BY <1>5, GoFacts DEF AddReminderFails, At
  <2> QED
    BY <1>5, <2>1 DEF AddReminderFails, Fault, TypeOK, history
<1>6. CASE Acknowledge(p)
  BY <1>6 DEF Acknowledge, TypeOK, history, budgets
<1> QED
  BY <1>2, <1>3, <1>4, <1>5, <1>6

LEMMA RetryTypeOK ==
  ASSUME TypeOK, NEW c \in Call, NEW m \in Message, Retry(c) \/ RetryCheck(c, m)
  PROVE  TypeOK'
<1>1. /\ NoCall \notin Request
      /\ \A l \in {"update", "enqueue"}, n \in Message : [at |-> l, msg |-> n] \in Request
      /\ call[c] # NoCall => call[c] \in Request /\ call[c].msg \in Message
                             /\ [call[c] EXCEPT !.at = "enqueue"] \in Request
  BY DEF NoCall, Request, TypeOK
<1>2. CASE RetryUpdate(c)
  <2>1. call' \in [Call -> Request \cup {NoCall}]
    BY <1>1, <1>2 DEF RetryUpdate, TypeOK
  <2>2. status' \in [Message -> Status] /\ retries' \in [Message -> Nat] /\ misses' \in [Message -> Nat]
    <3>1. call[c].msg \in Message /\ "queued" \in Status
      BY <1>1, <1>2 DEF RetryUpdate, Status
    <3>2. CASE Exists(call[c].msg)
      <4>1. /\ status' = [status EXCEPT ![call[c].msg] = "queued"]
            /\ retries' = [retries EXCEPT ![call[c].msg] = @ + 1]
            /\ misses' = [misses EXCEPT ![call[c].msg] = 0]
        BY <1>2, <3>2 DEF RetryUpdate
      <4> QED
        BY <3>1, <4>1 DEF TypeOK
    <3>3. CASE ~Exists(call[c].msg)
      BY <1>2, <3>3 DEF RetryUpdate, TypeOK
    <3> QED
      BY <3>2, <3>3
  <2> QED
    BY <1>2, <2>1, <2>2 DEF RetryUpdate, TypeOK, budgets
<1>3. CASE RetryEnqueue(c)
  <2>1. jobs' \in [Message -> [Job -> Nat]]
    BY <1>1, <1>3, JobFacts, AddFacts DEF RetryEnqueue
  <2> QED
    BY <1>3, <2>1 DEF RetryEnqueue, TypeOK, history, budgets
<1>4. CASE RetryFails(c)
  BY <1>4 DEF RetryFails, Fault, TypeOK, history
<1>5. CASE RetryCheck(c, m)
  BY <1>1, <1>5 DEF RetryCheck, TypeOK, history, budgets
<1> QED
  BY <1>2, <1>3, <1>4, <1>5 DEF Retry

Environment ==
  \/ \E m \in Message : DeleteLead(m) \/ \E o \in Owner : Reassign(m, o)
  \/ \E a \in Agent : ChannelChange(a)

LEMMA EnvironmentTypeOK ==
  ASSUME TypeOK, Environment \/ CrashWorker \/ CrashApi \/ UNCHANGED vars
  PROVE  TypeOK'
<1>1. ASSUME NEW m \in Message, DeleteLead(m) PROVE TypeOK'
  BY <1>1 DEF DeleteLead, TypeOK, Status, history, budgets
<1>2. ASSUME NEW m \in Message, NEW o \in Owner, Reassign(m, o) PROVE TypeOK'
  BY <1>2 DEF Reassign, TypeOK, history, budgets
<1>3. ASSUME NEW a \in Agent, ChannelChange(a) PROVE TypeOK'
  BY <1>3 DEF ChannelChange, TypeOK, history, budgets
<1>4. CASE CrashWorker
  <2>1. jobs' \in [Message -> [Job -> Nat]]
    BY <1>4 DEF CrashWorker, TypeOK
  <2> QED
    BY <1>4, <2>1 DEF CrashWorker, TypeOK, history
<1>5. CASE CrashApi
  BY <1>5 DEF CrashApi, TypeOK, history
<1>6. CASE UNCHANGED vars
  BY <1>6 DEF TypeOK, vars, history, budgets
<1> QED
  BY <1>1, <1>2, <1>3, <1>4, <1>5, <1>6 DEF Environment

(* Next, without the choices that its parts do not depend on. *)
LEMMA NextCases ==
  ASSUME Next
  PROVE  \/ \E p \in Sender : Send(p) \/ AddReminder(p) \/ AddReminderFails(p) \/ Acknowledge(p)
         \/ \E p \in Sender, m \in Message : CreateAndSend(p, m) \/ CreateReminder(p, m)
         \/ \E p \in Sender, m \in Message, j \in Job : TakeJob(p, m, j)
         \/ \E c \in Call : RetryUpdate(c) \/ RetryEnqueue(c) \/ RetryFails(c)
         \/ \E c \in Call, m \in Message : RetryCheck(c, m)
         \/ Environment \/ CrashWorker \/ CrashApi
BY DEF Next, Environment, Retry

LEMMA NextTypeOK ==
  ASSUME TypeOK, [Next]_vars
  PROVE  TypeOK'
<1>1. ASSUME NEW p \in Sender, AddReminder(p) \/ AddReminderFails(p) \/ Acknowledge(p)
      PROVE  TypeOK'
  <2>1. task[p] # Idle
    BY <1>1 DEF AddReminder, AddReminderFails, Acknowledge, At
  <2> QED
    BY <1>1, <2>1, TaskFacts, JobFacts, CallerTypeOK
<1>2. ASSUME NEW c \in Call, RetryUpdate(c) \/ RetryEnqueue(c) \/ RetryFails(c)
      PROVE  TypeOK'
  <2>1. call[c] \in Request
    BY <1>2 DEF RetryUpdate, RetryEnqueue, RetryFails, TypeOK
  <2>2. call[c].msg \in Message
    BY <2>1 DEF Request
  <2> QED
    BY <1>2, <2>2, RetryTypeOK DEF Retry
<1> QED
  BY <1>1, <1>2, NextCases, SendTypeOK, CallerTypeOK, RetryTypeOK, EnvironmentTypeOK, JobFacts

(* Every state of the senders, of their jobs and of the requests has its    *)
(* shape.                                                                   *)
THEOREM DeliveryTypeCorrect == Spec => []TypeOK
<1>1. Init => TypeOK
  BY DEF Init, TypeOK, Status, Cause, Job
<1>2. TypeOK /\ [Next]_vars => TypeOK'
  BY NextTypeOK
<1> QED
  BY <1>1, <1>2, PTL DEF Spec

-----------------------------------------------------------------------------
(* What the steps of a send do                                             *)

Busy(p, m) == task[p] # Idle /\ task[p].msg = m
Active(p, m) == Busy(p, m) /\ task[p].at # "ack"
Unsent(p, m) == Busy(p, m) /\ task[p].at \in {"remind", "read", "channel", "post"}
Sending(p, m) == Busy(p, m) /\ task[p].at \in {"channel", "post", "record", "fail"}

(* Where a task stands after a step of its send, and what else changed.    *)
Moved(p, label) == /\ task'[p] # Idle /\ task'[p].at = label
                   /\ task'[p].msg = task[p].msg /\ task'[p].job = task[p].job
Finished(p) == IF p \in Processor THEN Moved(p, "ack") ELSE task'[p] = Idle
OthersStay(p) == \A q \in Sender : q # p => task'[q] = task[q]
RestStays == UNCHANGED <<owner, connected, call, retries, crashes>>

(* One disjunct for each way a step can go. *)
SendEffect(p) ==
  LET m == task[p].msg IN
  /\ task[p] # Idle /\ OthersStay(p) /\ RestStays /\ faults' >= faults
  /\ \/ /\ task[p].at = "read" /\ UNCHANGED <<status, jobs, history>>
        /\ \/ Finished(p) /\ (status[m] # "queued" \/ m \notin Sendable)
           \/ status[m] = "queued" /\ Moved(p, "fail") /\ task'[p].cause = "address"
           \/ status[m] = "queued" /\ Moved(p, "channel")
     \/ /\ task[p].at = "channel" /\ UNCHANGED <<status, jobs, history>>
        /\ \/ Moved(p, "post")
           \/ Moved(p, "fail") /\ task'[p].cause \in {"address", "error"}
     \/ /\ task[p].at = "channel" /\ UNCHANGED <<status, delivered, cause>>
        /\ misses' = [misses EXCEPT ![m] = @ + 1]
        /\ \/ MayRetry(task[p].job) /\ AddDelayed(m, task[p].job) /\ Finished(p)
           \/ ~MayRetry(task[p].job) /\ UNCHANGED jobs /\ Moved(p, "fail") /\ task'[p].cause = "channel"
     \/ /\ task[p].at = "post" /\ UNCHANGED <<status, jobs, misses, cause>>
        /\ delivered' \in {delivered, [delivered EXCEPT ![m] = @ + 1]}
        /\ \/ Moved(p, "record") /\ delivered' # delivered
           \/ Moved(p, "fail") /\ task'[p].cause = "provider"
     \/ /\ task[p].at = "record" /\ UNCHANGED <<jobs, history>>
        /\ \/ Finished(p) /\ Exists(m) /\ status' = [status EXCEPT ![m] = "sent"]
           \/ Moved(p, "fail") /\ task'[p].cause = "error" /\ UNCHANGED status
     \/ /\ task[p].at = "fail" /\ UNCHANGED <<jobs, delivered, misses>>
        /\ \/ /\ SetStatus(m, "failed") /\ cause' = [cause EXCEPT ![m] = task[p].cause] /\ Finished(p)
           \/ /\ UNCHANGED <<status, cause>> /\ faults' > faults
              /\ Finished(p) \/ (Moved(p, "fail") /\ task'[p].cause = "error")

LEMMA SendHasEffect ==
  ASSUME TypeOK, NEW p \in Sender, Send(p)
  PROVE  SendEffect(p)
<1> DEFINE m == task[p].msg
<1> USE DEF At
<1>1. task[p] # Idle
  BY DEF Send, Read, FindChannel, RetryLater, RetryLaterFails, NoChannel, Post, Record,
         RecordFails, MarkFailed, MarkFails
<1>2. m \in Message /\ task[p].job \in Job
  BY <1>1, TaskFacts
<1>3. task[p] \in Task /\ (\A t \in Task : t # Idle) /\ task \in [Sender -> Task \cup {Idle}]
  BY <1>1, TaskFacts, IdleFacts DEF TypeOK
<1>4. ASSUME End(p) PROVE Finished(p) /\ OthersStay(p)
  <2>1. CASE p \in Processor
    <3> DEFINE u == [task[p] EXCEPT !.at = "ack"]
    <3>1. u \in Task /\ u.at = "ack" /\ u.msg = task[p].msg /\ u.job = task[p].job
      BY <1>3 DEF Task
    <3>2. u # Idle
      BY <1>3, <3>1
    <3>3. task'[p] = u /\ OthersStay(p)
      BY <1>3, <1>4, <2>1 DEF End, OthersStay
    <3> QED
      BY <2>1, <3>1, <3>2, <3>3 DEF Finished, Moved
  <2>2. CASE p \notin Processor
    BY <1>3, <1>4, <2>2 DEF End, Finished, OthersStay
  <2> QED
    BY <2>1, <2>2
<1>5. ASSUME NEW w \in Cause, FailWith(p, w)
      PROVE  Moved(p, "fail") /\ task'[p].cause = w /\ OthersStay(p)
  <2> DEFINE u == [task[p] EXCEPT !.at = "fail", !.cause = w]
  <2>1. u \in Task /\ u.at = "fail" /\ u.msg = task[p].msg /\ u.job = task[p].job /\ u.cause = w
    BY <1>3 DEF Task
  <2>2. u # Idle
    BY <1>3, <2>1
  <2>3. task'[p] = u /\ OthersStay(p)
    BY <1>3, <1>5 DEF FailWith, OthersStay
  <2> QED
    BY <2>1, <2>2, <2>3 DEF Moved
<1>6. ASSUME NEW l \in Label, NEW o \in Owner, NEW u,
             u \in {[task[p] EXCEPT !.at = l], [task[p] EXCEPT !.at = l, !.owner = o]},
             task' = [task EXCEPT ![p] = u]
      PROVE  Moved(p, l) /\ OthersStay(p)
  <2>1. u \in Task /\ u.at = l /\ u.msg = task[p].msg /\ u.job = task[p].job
    BY <1>3, <1>6 DEF Task, Label
  <2>2. u # Idle
    BY <1>3, <2>1
  <2>3. task'[p] = u /\ OthersStay(p)
    BY <1>3, <1>6 DEF OthersStay
  <2> QED
    BY <2>1, <2>2, <2>3 DEF Moved
<1>7. {"address", "channel", "provider", "error"} \subseteq Cause
  BY DEF Cause
<1>8. faults \in Nat
  BY DEF TypeOK
<1>9. CASE Read(p)
  <2>1. CASE Skips(m) \/ m \notin Sendable
    BY <1>1, <1>4, <1>8, <1>9, <2>1 DEF Read, SendEffect, Skips, RestStays, budgets
  <2>2. CASE ~(Skips(m) \/ m \notin Sendable) /\ m \notin Addressed
    BY <1>1, <1>5, <1>7, <1>8, <1>9, <2>2 DEF Read, SendEffect, Skips, RestStays, budgets
  <2>3. CASE ~(Skips(m) \/ m \notin Sendable) /\ m \in Addressed
    <3>1. task' = [task EXCEPT ![p] = [@ EXCEPT !.at = "channel", !.owner = owner[m]]]
      BY <1>9, <2>3 DEF Read
    <3>2. Moved(p, "channel") /\ OthersStay(p)
      BY <1>2, <1>6, <3>1 DEF Label, TypeOK
    <3> QED
      BY <1>1, <1>8, <1>9, <2>3, <3>2 DEF Read, SendEffect, Skips, RestStays, budgets
  <2> QED
    BY <2>1, <2>2, <2>3
<1>10. CASE FindChannel(p)
  <2>1. PICK a \in Candidates(task[p].owner) :
          IF a \in Provisioned
          THEN task' = [task EXCEPT ![p] = [@ EXCEPT !.at = "post", !.owner = a]]
          ELSE FailWith(p, "address")
    BY <1>10 DEF FindChannel
  <2>2. CASE a \in Provisioned
    <3>1. a \in Owner
      BY CandidateFacts DEF Owner
    <3>2. Moved(p, "post") /\ OthersStay(p)
      BY <1>6, <2>1, <2>2, <3>1 DEF Label
    <3> QED
      BY <1>1, <1>8, <1>10, <3>2 DEF FindChannel, SendEffect, RestStays, budgets
  <2>3. CASE a \notin Provisioned
    BY <1>1, <1>5, <1>7, <1>8, <1>10, <2>1, <2>3 DEF FindChannel, SendEffect, RestStays, budgets
  <2> QED
    BY <2>2, <2>3
<1>11. CASE RetryLater(p)
  BY <1>1, <1>4, <1>8, <1>11 DEF RetryLater, SendEffect, RestStays, budgets
<1>12. CASE RetryLaterFails(p)
  BY <1>1, <1>5, <1>7, <1>8, <1>12 DEF RetryLaterFails, Fault, SendEffect, RestStays, history
<1>13. CASE NoChannel(p)
  <2>1. CASE task[p].owner = Nobody /\ FailWith(p, "address") /\ UNCHANGED misses
    BY <1>1, <1>5, <1>7, <1>8, <1>13, <2>1 DEF NoChannel, SendEffect, RestStays, budgets, history
  <2>2. CASE task[p].owner # Nobody /\ ~MayRetry(task[p].job) /\ FailWith(p, "channel")
             /\ misses' = [misses EXCEPT ![m] = @ + 1]
    BY <1>1, <1>5, <1>7, <1>8, <1>13, <2>2 DEF NoChannel, SendEffect, RestStays, budgets
  <2> QED
    BY <1>13, <2>1, <2>2 DEF NoChannel
<1>14. CASE Post(p)
  <2>1. PICK accepted, answered \in BOOLEAN :
          /\ delivered' = IF accepted THEN [delivered EXCEPT ![m] = @ + 1] ELSE delivered
          /\ Answered(p, accepted /\ answered)
    BY <1>14 DEF Post
  <2>2. CASE accepted /\ answered
    <3>1. Moved(p, "record") /\ OthersStay(p)
      <4>1. task' = [task EXCEPT ![p] = [task[p] EXCEPT !.at = "record"]]
        BY <1>3, <2>1, <2>2 DEF Answered, Goto
      <4> QED
        BY <1>6, <4>1, DomainsInhabited DEF Label
    <3>2. delivered' # delivered
      <4>1. delivered'[m] = delivered[m] + 1 /\ delivered[m] \in Nat
        BY <1>2, <2>1, <2>2 DEF TypeOK
      <4> QED
        BY <4>1
    <3> QED
      BY <1>1, <1>8, <1>14, <2>1, <2>2, <3>1, <3>2 DEF Post, SendEffect, RestStays, budgets
  <2>3. CASE ~(accepted /\ answered)
    <3>1. Moved(p, "fail") /\ task'[p].cause = "provider" /\ OthersStay(p)
      BY <1>5, <1>7, <2>1, <2>3 DEF Answered
    <3>2. delivered' \in {delivered, [delivered EXCEPT ![m] = @ + 1]}
      BY <2>1
    <3> QED
      BY <1>1, <1>8, <1>14, <3>1, <3>2 DEF Post, SendEffect, RestStays, budgets
  <2> QED
    BY <2>2, <2>3
<1>15. CASE Record(p)
  <2>1. CASE Exists(m)
    BY <1>1, <1>4, <1>8, <1>15, <2>1 DEF Record, SetStatus, SendEffect, RestStays, budgets
  <2>2. CASE ~Exists(m)
    BY <1>1, <1>5, <1>7, <1>8, <1>15, <2>2 DEF Record, SetStatus, SendEffect, RestStays, budgets
  <2> QED
    BY <2>1, <2>2
<1>16. CASE RecordFails(p)
  BY <1>1, <1>5, <1>7, <1>8, <1>16 DEF RecordFails, Fault, SendEffect, RestStays
<1>17. CASE MarkFailed(p)
  BY <1>1, <1>4, <1>8, <1>17 DEF MarkFailed, SendEffect, RestStays, budgets
<1>18. CASE MarkFails(p)
  <2>1. CASE task[p].cause \in {"address", "channel"}
    BY <1>1, <1>5, <1>7, <1>8, <1>18, <2>1 DEF MarkFails, Fault, SendEffect, RestStays, history
  <2>2. CASE task[p].cause \notin {"address", "channel"}
    BY <1>1, <1>4, <1>8, <1>18, <2>2 DEF MarkFails, Fault, SendEffect, RestStays, history
  <2> QED
    BY <2>1, <2>2
<1> QED
  BY <1>9, <1>10, <1>11, <1>12, <1>13, <1>14, <1>15, <1>16, <1>17, <1>18 DEF Send

(* Only the message of the task is touched, and that one never unborn. *)
LEMMA SendFrame ==
  ASSUME TypeOK, NEW p \in Sender, SendEffect(p)
  PROVE  /\ task[p] # Idle /\ task[p].msg \in Message
         /\ \A n \in Message : n # task[p].msg =>
              /\ status'[n] = status[n] /\ jobs'[n] = jobs[n]
              /\ delivered'[n] = delivered[n] /\ misses'[n] = misses[n]
              /\ cause'[n] = cause[n]
         /\ task'[p] # Idle => task'[p].msg = task[p].msg /\ task'[p].job = task[p].job
         /\ \A q \in Sender : q # p => task'[q] = task[q]
         /\ call' = call /\ crashes' = crashes /\ retries' = retries /\ faults' >= faults
<1>1. task[p] # Idle /\ task[p].msg \in Message /\ task[p].job \in Job
  BY TaskFacts DEF SendEffect
<1>2. (\E l \in Label : Moved(p, l)) \/ task'[p] = Idle
  BY DEF SendEffect, Finished, Label
<1>3. task'[p] # Idle => task'[p].msg = task[p].msg /\ task'[p].job = task[p].job
  BY <1>2 DEF Moved
<1>4. \A n \in Message : n # task[p].msg => status'[n] = status[n]
  <2>1. SetStatus(task[p].msg, "failed") => \A n \in Message : n # task[p].msg => status'[n] = status[n]
    BY <1>1, SetStatusFacts DEF Status
  <2> QED
    BY <1>1, <2>1 DEF SendEffect, TypeOK
<1>5. \A n \in Message : n # task[p].msg => jobs'[n] = jobs[n]
  <2>1. ASSUME MayRetry(task[p].job), AddDelayed(task[p].msg, task[p].job)
        PROVE  \A n \in Message : n # task[p].msg => jobs'[n] = jobs[n]
    BY <1>1, <2>1 DEF AddDelayed, Add, TypeOK
  <2> QED
    BY <2>1 DEF SendEffect
<1>6. \A n \in Message : n # task[p].msg =>
        delivered'[n] = delivered[n] /\ misses'[n] = misses[n] /\ cause'[n] = cause[n]
  BY <1>1 DEF SendEffect, TypeOK, history
<1> QED
  BY <1>1, <1>3, <1>4, <1>5, <1>6 DEF SendEffect, OthersStay, RestStays

-----------------------------------------------------------------------------
(* Nobody left behind *)

(* A carrier that a step leaves alone carries the message after it. *)
LEMMA CarrierStays ==
  ASSUME NEW m \in Message, NEW p \in Sender, Carried(m),
         ~Active(p, m), \A q \in Sender : q # p => task'[q] = task[q],
         \A j \in Job : jobs[m][j] > 0 => jobs'[m][j] > 0, UNCHANGED call
  PROVE  Carried(m)'
BY DEF Carried, Active, Busy

LEMMA SendCarries ==
  ASSUME TypeOK, NEW p \in Sender, SendEffect(p), QueuedIsCarried
  PROVE  QueuedIsCarried'
<1> SUFFICES ASSUME NothingFailed', NEW m \in Message, m \in Sendable, status'[m] = "queued"
             PROVE  Carried(m)'
  BY DeliveryAssumption DEF QueuedIsCarried
<1>1. NothingFailed
  BY SendFrame DEF NothingFailed, TypeOK
<1>2. CASE m # task[p].msg
  <2>1. status[m] = "queued" /\ jobs'[m] = jobs[m]
    BY <1>2, SendFrame
  <2>2. Carried(m)
    BY <1>1, <2>1 DEF QueuedIsCarried
  <2> QED
    BY <1>2, <2>1, <2>2, SendFrame, CarrierStays DEF Active, Busy
<1>3. CASE m = task[p].msg
  <2>1. ASSUME NEW l \in Label \ {"ack"}, Moved(p, l) PROVE Carried(m)'
    BY <1>3, <2>1 DEF Moved, Carried
  <2>2. ASSUME MayRetry(task[p].job), AddDelayed(m, task[p].job) PROVE Carried(m)'
    <3> DEFINE k == [attempt |-> task[p].job.attempt + 1, stalled |-> FALSE]
    <3>1. task[p] # Idle /\ task[p].job \in Job
      BY SendFrame, TaskFacts
    <3>2. k \in Job
      BY <2>2, <3>1, JobFacts
    <3>3. jobs'[m][k] = jobs[m][k] + 1 /\ jobs[m][k] \in Nat
      BY <2>2, <3>2, AddFacts DEF AddDelayed, TypeOK
    <3> QED
      BY <3>2, <3>3 DEF Carried
  <2>3. ~(UNCHANGED status /\ (status[m] # "queued" \/ m \notin Sendable))
    OBVIOUS
  <2>4. ~(status' = [status EXCEPT ![m] = "sent"]) /\ ~SetStatus(m, "failed")
    <3>1. status \in [Message -> Status]
      BY DEF TypeOK
    <3> QED
      BY <3>1 DEF SetStatus, Exists
  <2>5. ~(faults' > faults)
    BY <1>1 DEF NothingFailed
  <2> QED
    BY <1>3, <2>1, <2>2, <2>3, <2>4, <2>5 DEF SendEffect, Label
<1> QED
  BY <1>2, <1>3

LEMMA OthersCarry ==
  ASSUME TypeOK, QueuedIsCarried, [Next]_vars, ~\E p \in Sender : Send(p)
  PROVE  QueuedIsCarried'
<1> SUFFICES ASSUME NothingFailed', NEW m \in Message, m \in Sendable, status'[m] = "queued"
             PROVE  Carried(m)'
  BY DeliveryAssumption DEF QueuedIsCarried
<1>1. NothingFailed => (status[m] = "queued" => Carried(m))
  BY DEF QueuedIsCarried
<1>2. ASSUME NEW p \in Sender, NEW n \in Message, CreateAndSend(p, n) \/ CreateReminder(p, n)
      PROVE  Carried(m)'
  <2>1. task[p] = Idle /\ UNCHANGED <<jobs, call, faults, crashes>>
        /\ status' = [status EXCEPT ![n] = "queued"]
    BY <1>2 DEF CreateAndSend, CreateReminder, budgets
  <2>2. \E l \in {"read", "remind"} :
          task' = [task EXCEPT ![p] = [at |-> l, msg |-> n, job |-> Fresh,
                                       owner |-> Nobody, cause |-> "none"]]
    BY <1>2 DEF CreateAndSend, CreateReminder, Begin
  <2>3. CASE m = n
    <3>1. task'[p] # Idle /\ task'[p].msg = n /\ task'[p].at # "ack"
      BY <2>2 DEF TypeOK, Idle
    <3> QED
      BY <2>3, <3>1 DEF Carried
  <2>4. CASE m # n
    <3>1. Carried(m)
      BY <1>1, <2>1, <2>4 DEF TypeOK, NothingFailed
    <3>2. \A q \in Sender : q # p => task'[q] = task[q]
      BY <2>2 DEF TypeOK
    <3> QED
      BY <2>1, <3>1, <3>2, CarrierStays DEF Active, Busy
  <2> QED
    BY <2>3, <2>4
<1>3. ASSUME NEW p \in Sender, AddReminder(p) PROVE Carried(m)'
  <2>1. task[p] # Idle /\ Add(task[p].msg, Fresh) /\ End(p) /\ UNCHANGED <<status, call, faults, crashes>>
    BY <1>3 DEF AddReminder, At, budgets
  <2>2. task[p].msg \in Message /\ Fresh \in Job
    BY <2>1, TaskFacts, JobFacts
  <2>3. CASE task[p].msg = m
    <3>1. jobs'[m][Fresh] = jobs[m][Fresh] + 1 /\ jobs[m][Fresh] \in Nat
      BY <2>1, <2>2, <2>3, AddFacts DEF TypeOK
    <3> QED
      BY <2>2, <3>1 DEF Carried
  <2>4. CASE task[p].msg # m
    <3>1. Carried(m)
      BY <1>1, <2>1 DEF NothingFailed
    <3>2. \A q \in Sender : q # p => task'[q] = task[q]
      BY <2>1 DEF TypeOK, End
    <3>3. \A j \in Job : jobs'[m][j] = jobs[m][j]
      BY <2>1, <2>2, <2>4, AddFacts
    <3> QED
      BY <2>1, <2>4, <3>1, <3>2, <3>3, CarrierStays DEF Active, Busy
  <2> QED
    BY <2>3, <2>4
<1>4. ASSUME NEW p \in Sender, AddReminderFails(p) PROVE Carried(m)'
  BY <1>4 DEF AddReminderFails, Fault, NothingFailed, TypeOK
<1>5. ASSUME NEW p \in Sender, Acknowledge(p) PROVE Carried(m)'
  <2>1. Carried(m) /\ UNCHANGED <<jobs, call>> /\ task[p].at = "ack"
    BY <1>1, <1>5 DEF Acknowledge, At, NothingFailed, budgets
  <2>2. \A q \in Sender : q # p => task'[q] = task[q]
    BY <1>5 DEF TypeOK, Acknowledge
  <2> QED
    BY <2>1, <2>2, CarrierStays DEF Active
<1>6. ASSUME NEW p \in Sender, NEW n \in Message, NEW k \in Job, TakeJob(p, n, k)
      PROVE  Carried(m)'
  <2>1. task[p] = Idle /\ UNCHANGED <<status, call, faults, crashes>>
        /\ jobs' = [jobs EXCEPT ![n][k] = @ - 1]
        /\ task' = [task EXCEPT ![p] = [at |-> "read", msg |-> n, job |-> k,
                                        owner |-> Nobody, cause |-> "none"]]
    BY <1>6 DEF TakeJob, Begin, budgets
  <2>2. CASE m = n
    <3>1. task'[p] # Idle /\ task'[p].msg = n /\ task'[p].at # "ack"
      BY <2>1 DEF TypeOK, Idle
    <3> QED
      BY <2>2, <3>1 DEF Carried
  <2>3. CASE m # n
    <3>1. Carried(m) /\ jobs'[m] = jobs[m]
      BY <1>1, <2>1, <2>3 DEF TypeOK, NothingFailed
    <3>2. \A q \in Sender : q # p => task'[q] = task[q]
      BY <2>1 DEF TypeOK
    <3> QED
      BY <2>1, <3>1, <3>2, CarrierStays DEF Active, Busy
  <2> QED
    BY <2>2, <2>3
<1>7. ASSUME NEW c \in Call, RetryUpdate(c) PROVE Carried(m)'
  <2>1. UNCHANGED <<jobs, task, faults, crashes>> /\ call[c] # NoCall /\ call[c] \in Request
        /\ call[c].at = "update"
    BY <1>7 DEF RetryUpdate, budgets, TypeOK
  <2>2. CASE Exists(call[c].msg) /\ call[c].msg = m
    <3>1. call'[c] = [call[c] EXCEPT !.at = "enqueue"]
      BY <1>7, <2>2 DEF RetryUpdate, TypeOK
    <3>2. call'[c] = [at |-> "enqueue", msg |-> m]
      BY <2>1, <2>2, <3>1 DEF Request
    <3> QED
      BY <3>2 DEF Carried
  <2>3. CASE ~(Exists(call[c].msg) /\ call[c].msg = m)
    <3>1. status'[m] = status[m]
      BY <1>7, <2>1, <2>3 DEF RetryUpdate, TypeOK, Request
    <3>2. Carried(m)
      BY <1>1, <2>1, <3>1 DEF NothingFailed
    <3>3. \A d \in Call : d # c => call'[d] = call[d]
      BY <1>7 DEF RetryUpdate, TypeOK
    <3>4. call[c] # [at |-> "enqueue", msg |-> m]
      BY <2>1
    <3> QED
      BY <2>1, <3>2, <3>3, <3>4 DEF Carried
  <2> QED
    BY <2>2, <2>3
<1>8. ASSUME NEW c \in Call, RetryEnqueue(c) PROVE Carried(m)'
  <2>1. UNCHANGED <<status, task, faults, crashes>> /\ call[c] # NoCall /\ call[c] \in Request
        /\ Add(call[c].msg, Fresh)
    BY <1>8 DEF RetryEnqueue, budgets, TypeOK
  <2>2. call[c].msg \in Message /\ Fresh \in Job /\ Carried(m)
    BY <1>1, <2>1, JobFacts DEF Request, NothingFailed
  <2>3. \A d \in Call : d # c => call'[d] = call[d]
    BY <1>8 DEF RetryEnqueue, TypeOK
  <2>4. /\ jobs'[call[c].msg][Fresh] > 0
        /\ \A j \in Job : jobs[m][j] > 0 => jobs'[m][j] > 0
    <3>1. jobs[call[c].msg] \in [Job -> Nat] /\ jobs[m] \in [Job -> Nat]
      BY <2>2 DEF TypeOK
    <3>2. jobs'[call[c].msg][Fresh] = jobs[call[c].msg][Fresh] + 1
      BY <2>1, <2>2, AddFacts
    <3>3. \A j \in Job : jobs'[m][j] = jobs[m][j] \/ jobs'[m][j] = jobs[m][j] + 1
      BY <2>1, <2>2, AddFacts
    <3> QED
      BY <2>2, <3>1, <3>2, <3>3
  <2>5. call[c] = [at |-> "enqueue", msg |-> m] => call[c].msg = m
    OBVIOUS
  <2> QED
    BY <2>1, <2>2, <2>3, <2>4, <2>5 DEF Carried
<1>9. ASSUME NEW c \in Call, RetryFails(c) PROVE Carried(m)'
  BY <1>9 DEF RetryFails, Fault, NothingFailed, TypeOK
<1>10. ASSUME NEW c \in Call, NEW n \in Message, RetryCheck(c, n) PROVE Carried(m)'
  <2>1. UNCHANGED <<status, task, jobs, faults, crashes>> /\ call[c] = NoCall
    BY <1>10 DEF RetryCheck, budgets
  <2>2. \A d \in Call : d # c => call'[d] = call[d]
    BY <1>10 DEF RetryCheck, TypeOK
  <2>3. Carried(m) /\ NoCall # [at |-> "enqueue", msg |-> m]
    BY <1>1, <2>1 DEF NothingFailed, NoCall
  <2> QED
    BY <2>1, <2>2, <2>3 DEF Carried
<1>11. CASE Environment \/ UNCHANGED vars
  <2>1. UNCHANGED <<task, jobs, call, faults, crashes>>
    BY <1>11 DEF Environment, DeleteLead, Reassign, ChannelChange, budgets, vars
  <2>2. status[m] = "queued"
    BY <1>11 DEF Environment, DeleteLead, Reassign, ChannelChange, vars, TypeOK
  <2> QED
    BY <1>1, <2>1, <2>2 DEF Carried, NothingFailed
<1>12. CASE CrashWorker \/ CrashApi
  BY <1>12 DEF CrashWorker, CrashApi, NothingFailed, TypeOK
<1> QED
  BY <1>2, <1>3, <1>4, <1>5, <1>6, <1>7, <1>8, <1>9, <1>10, <1>11, <1>12, NextCases

(* While nothing crashed and no statement failed, a queued message has a    *)
(* send, a job or a request that will look at it: for any number of         *)
(* workers, callers and concurrent retries.                                 *)
THEOREM NothingQueuedIsLost == Spec => []QueuedIsCarried
<1>1. Init => QueuedIsCarried
  BY DeliveryAssumption DEF Init, QueuedIsCarried
<1>2. TypeOK /\ QueuedIsCarried /\ [Next]_vars => QueuedIsCarried'
  BY SendHasEffect, SendCarries, OthersCarry
<1> QED
  BY <1>1, <1>2, DeliveryTypeCorrect, PTL DEF Spec

-----------------------------------------------------------------------------
(* Senders take turns: no two work on one message                          *)

(* One processor of the queue (one worker process, BullMQ's default         *)
(* concurrency of 1), as it is deployed.                                    *)
OneWorker == \A p, q \in Processor : p = q

Asking(c, m) == call[c] # NoCall /\ call[c].msg = m
Queueing(c, m) == call[c] = [at |-> "enqueue", msg |-> m]

(* Before its creation a message is nobody's business. *)
Unborn == \A m \in Message : status[m] = "none" =>
  /\ \A j \in Job : jobs[m][j] = 0
  /\ \A p \in Sender : ~Busy(p, m)
  /\ \A c \in Call : ~Asking(c, m)
  /\ delivered[m] = 0 /\ misses[m] = 0

(* Its creator has it to itself until it has sent it or left it to a job. *)
CreatorAlone == \A p \in Inline, m \in Message : Busy(p, m) =>
  /\ status[m] \in {"queued", "gone"}
  /\ task[p].job = Fresh /\ task[p].at # "ack"
  /\ \A j \in Job : jobs[m][j] = 0
  /\ \A q \in Sender : Busy(q, m) => q = p
  /\ \A c \in Call : ~Asking(c, m)

RemindersAreInline == \A p \in Processor : task[p] # Idle => task[p].at # "remind"

SendersSeeQueued ==
  \A p \in Sender, m \in Message : Sending(p, m) => status[m] \in {"queued", "gone"}

HandedIsRecorded ==
  \A p \in Sender, m \in Message : Busy(p, m) /\ task[p].at = "record" => delivered[m] > 0

Turns == /\ Unborn /\ CreatorAlone /\ RemindersAreInline
         /\ SendersSeeQueued /\ HandedIsRecorded


LEMMA OneIsBusy ==
  ASSUME OneWorker, CreatorAlone, NEW m \in Message, NEW p \in Sender, NEW q \in Sender,
         Busy(p, m), Busy(q, m)
  PROVE  p = q
BY DEF OneWorker, CreatorAlone, Sender

LEMMA SendTurns ==
  ASSUME TypeOK, OneWorker, Turns, NEW p \in Sender, SendEffect(p)
  PROVE  Turns'
<1> DEFINE m == task[p].msg
<1> USE DEF Busy, Asking
<1>1. /\ task[p] # Idle /\ m \in Message /\ task[p].job \in Job
      /\ status \in [Message -> Status]
  BY SendFrame, TaskFacts DEF TypeOK
<1>2. status[m] # "none" /\ \A q \in Sender : Busy(q, m) => q = p
  BY <1>1, OneIsBusy DEF Turns, Unborn
<1>3. status'[m] # "none"
  BY <1>1, <1>2 DEF SendEffect, SetStatus
<1>4. Unborn'
  BY <1>3, SendFrame DEF Turns, Unborn
<1>5. CreatorAlone'
  <2> SUFFICES ASSUME NEW q \in Inline, NEW n \in Message, Busy(q, n)'
               PROVE  /\ status'[n] \in {"queued", "gone"}
                      /\ task'[q].job = Fresh /\ task'[q].at # "ack"
                      /\ \A j \in Job : jobs'[n][j] = 0
                      /\ \A r \in Sender : Busy(r, n)' => r = q
                      /\ \A c \in Call : ~Asking(c, n)'
    BY DEF CreatorAlone
  <2>1. q \in Sender /\ q \notin Processor
    BY DeliveryAssumption DEF Sender
  <2>2. CASE q # p
    <3>1. Busy(q, n) /\ n # m
      BY <1>1, <2>1, <2>2, SendFrame DEF Turns, CreatorAlone
    <3> QED
      BY <1>1, <2>1, <2>2, <3>1, SendFrame DEF Turns, CreatorAlone
  <2>3. CASE q = p
    <3>1. n = m /\ task'[p] # Idle /\ Busy(p, n)
      BY <1>1, <2>3, SendFrame
    <3>2. UNCHANGED <<status, jobs>> /\ task'[p].at # "ack"
      BY <2>1, <2>3, <3>1 DEF SendEffect, Finished, Moved
    <3> QED
      BY <1>1, <2>1, <2>3, <3>1, <3>2, SendFrame DEF Turns, CreatorAlone
  <2> QED
    BY <2>2, <2>3
<1>6. RemindersAreInline'
  <2> SUFFICES ASSUME NEW q \in Processor, task'[q] # Idle PROVE task'[q].at # "remind"
    BY DEF RemindersAreInline
  <2>1. CASE q = p
    BY <2>1 DEF SendEffect, Finished, Moved
  <2>2. CASE q # p
    BY <2>2, SendFrame DEF Turns, RemindersAreInline, Sender
  <2> QED
    BY <2>1, <2>2
<1>7. SendersSeeQueued'
  <2> SUFFICES ASSUME NEW q \in Sender, NEW n \in Message, Sending(q, n)'
               PROVE  status'[n] \in {"queued", "gone"}
    BY DEF SendersSeeQueued
  <2>1. CASE q # p
    <3>1. Sending(q, n) /\ n # m
      BY <1>2, <2>1, SendFrame DEF Sending
    <3> QED
      BY <3>1, SendFrame DEF Turns, SendersSeeQueued
  <2>2. CASE q = p
    <3>1. n = m /\ task'[p] # Idle
      BY <2>2, SendFrame DEF Sending
    <3>2. Sending(p, m) => status[m] \in {"queued", "gone"}
      BY <1>1 DEF Turns, SendersSeeQueued
    <3>3. UNCHANGED status /\ (status[m] = "queued" \/ Sending(p, m))
      BY <1>1, <2>2, <3>1 DEF SendEffect, Finished, Moved, Sending
    <3> QED
      BY <3>1, <3>2, <3>3
  <2> QED
    BY <2>1, <2>2
<1>8. HandedIsRecorded'
  <2> SUFFICES ASSUME NEW q \in Sender, NEW n \in Message, Busy(q, n)', task'[q].at = "record"
               PROVE  delivered'[n] > 0
    BY DEF HandedIsRecorded
  <2>1. CASE q # p
    <3>1. Busy(q, n) /\ n # m /\ task[q].at = "record"
      BY <1>2, <2>1, SendFrame
    <3> QED
      BY <3>1, SendFrame DEF Turns, HandedIsRecorded
  <2>2. CASE q = p
    <3>1. n = m /\ task'[p] # Idle
      BY <2>2, SendFrame
    <3>2. delivered' = [delivered EXCEPT ![m] = @ + 1]
      BY <1>1, <2>2, <3>1 DEF SendEffect, Finished, Moved
    <3> QED
      BY <1>1, <3>1, <3>2 DEF TypeOK
  <2> QED
    BY <2>1, <2>2
<1> QED
  BY <1>4, <1>5, <1>6, <1>7, <1>8 DEF Turns

LEMMA CreateTurns ==
  ASSUME TypeOK, Turns, NEW p \in Sender, NEW m \in Message,
         CreateAndSend(p, m) \/ CreateReminder(p, m)
  PROVE  Turns'
<1> USE DEF Busy, Asking
<1>1. /\ p \in Inline /\ p \notin Processor /\ task[p] = Idle /\ status[m] = "none"
      /\ status' = [status EXCEPT ![m] = "queued"]
      /\ UNCHANGED <<jobs, call, delivered, misses>>
  BY DeliveryAssumption DEF CreateAndSend, CreateReminder, history
<1>2. PICK l \in {"read", "remind"} :
        task' = [task EXCEPT ![p] = [at |-> l, msg |-> m, job |-> Fresh,
                                     owner |-> Nobody, cause |-> "none"]]
  BY DEF CreateAndSend, CreateReminder, Begin
<1>3. /\ task'[p] # Idle /\ task'[p].msg = m /\ task'[p].at = l /\ task'[p].job = Fresh
      /\ \A q \in Sender : q # p => task'[q] = task[q]
  BY <1>2 DEF TypeOK, Idle
<1>4. status'[m] = "queued" /\ \A n \in Message : n # m => status'[n] = status[n]
  BY <1>1 DEF TypeOK
<1>5. /\ \A j \in Job : jobs[m][j] = 0
      /\ \A q \in Sender : ~Busy(q, m)
      /\ \A c \in Call : ~Asking(c, m)
  BY <1>1 DEF Turns, Unborn
<1>6. Unborn'
  BY <1>1, <1>3, <1>4 DEF Turns, Unborn
<1>7. CreatorAlone'
  <2> SUFFICES ASSUME NEW q \in Inline, NEW n \in Message, Busy(q, n)'
               PROVE  /\ status'[n] \in {"queued", "gone"}
                      /\ task'[q].job = Fresh /\ task'[q].at # "ack"
                      /\ \A j \in Job : jobs'[n][j] = 0
                      /\ \A r \in Sender : Busy(r, n)' => r = q
                      /\ \A c \in Call : ~Asking(c, n)'
    BY DEF CreatorAlone
  <2>1. CASE q = p
    BY <1>1, <1>3, <1>4, <1>5, <2>1
  <2>2. CASE q # p
    <3>1. Busy(q, n) /\ n # m
      BY <1>3, <1>5, <2>2 DEF Sender
    <3> QED
      BY <1>1, <1>3, <1>4, <2>2, <3>1 DEF Turns, CreatorAlone, Sender
  <2> QED
    BY <2>1, <2>2
<1>8. RemindersAreInline'
  BY <1>1, <1>3 DEF Turns, RemindersAreInline, Sender
<1>9. SendersSeeQueued'
  BY <1>3, <1>4, <1>5 DEF Turns, SendersSeeQueued, Sending
<1>10. HandedIsRecorded'
  BY <1>1, <1>3 DEF Turns, HandedIsRecorded
<1> QED
  BY <1>6, <1>7, <1>8, <1>9, <1>10 DEF Turns

LEMMA TakeTurns ==
  ASSUME TypeOK, Turns, NEW p \in Sender, NEW m \in Message, NEW k \in Job, TakeJob(p, m, k)
  PROVE  Turns'
<1> USE DEF Busy, Asking
<1>1. /\ p \in Processor /\ p \notin Inline /\ task[p] = Idle
      /\ UNCHANGED <<status, call, delivered, misses>>
      /\ jobs[m][k] > 0 /\ jobs' = [jobs EXCEPT ![m][k] = @ - 1]
  BY DeliveryAssumption DEF TakeJob, Waiting, history
<1>2. task' = [task EXCEPT ![p] = [at |-> "read", msg |-> m, job |-> k,
                                   owner |-> Nobody, cause |-> "none"]]
  BY DEF TakeJob, Begin
<1>3. /\ task'[p] # Idle /\ task'[p].msg = m /\ task'[p].at = "read"
      /\ \A q \in Sender : q # p => task'[q] = task[q]
  BY <1>2 DEF TypeOK, Idle
<1>4. status[m] # "none" /\ \A q \in Inline : ~Busy(q, m)
  BY <1>1 DEF Turns, Unborn, CreatorAlone, TypeOK
<1>5. \A n \in Message : n # m => jobs'[n] = jobs[n]
  BY <1>1 DEF TypeOK
<1>6. Unborn'
  BY <1>1, <1>3, <1>4, <1>5 DEF Turns, Unborn
<1>7. CreatorAlone'
  BY <1>1, <1>3, <1>4, <1>5 DEF Turns, CreatorAlone, Sender
<1>8. RemindersAreInline'
  BY <1>1, <1>3 DEF Turns, RemindersAreInline, Sender
<1>9. SendersSeeQueued'
  BY <1>1, <1>3 DEF Turns, SendersSeeQueued, Sending
<1>10. HandedIsRecorded'
  BY <1>1, <1>3 DEF Turns, HandedIsRecorded
<1> QED
  BY <1>6, <1>7, <1>8, <1>9, <1>10 DEF Turns

LEMMA CallerTurns ==
  ASSUME TypeOK, Turns, NEW p \in Sender,
         AddReminder(p) \/ AddReminderFails(p) \/ Acknowledge(p)
  PROVE  Turns'
<1> DEFINE m == task[p].msg
<1> USE DEF Busy, Asking
<1>1. /\ task[p] # Idle /\ m \in Message
      /\ UNCHANGED <<status, call, delivered, misses>>
      /\ task \in [Sender -> Task \cup {Idle}]
  BY TaskFacts DEF AddReminder, AddReminderFails, Acknowledge, At, history, TypeOK
<1>2. /\ task'[p] = Idle
      /\ \A q \in Sender : q # p => task'[q] = task[q]
  <2>1. CASE Acknowledge(p)
    BY <1>1, <2>1 DEF Acknowledge
  <2>2. CASE AddReminder(p) \/ AddReminderFails(p)
    BY <1>1, <2>2 DEF AddReminder, AddReminderFails, At, End, Turns, RemindersAreInline
  <2> QED
    BY <2>1, <2>2
<1>3. \A n \in Message : n # m => jobs'[n] = jobs[n]
  <2>1. CASE AddReminder(p)
    BY <1>1, <2>1, JobFacts DEF AddReminder, Add, TypeOK
  <2> QED
    BY <2>1 DEF AddReminderFails, Acknowledge
<1>4. status[m] # "none"
  BY <1>1 DEF Turns, Unborn
<1>5. \A q \in Inline : q # p /\ Busy(q, m) => FALSE
  BY <1>1 DEF Turns, CreatorAlone
<1>6. Unborn'
  BY <1>1, <1>2, <1>3, <1>4 DEF Turns, Unborn
<1>7. CreatorAlone'
  <2> SUFFICES ASSUME NEW q \in Inline, NEW n \in Message, Busy(q, n)'
               PROVE  /\ status'[n] \in {"queued", "gone"}
                      /\ task'[q].job = Fresh /\ task'[q].at # "ack"
                      /\ \A j \in Job : jobs'[n][j] = 0
                      /\ \A r \in Sender : Busy(r, n)' => r = q
                      /\ \A c \in Call : ~Asking(c, n)'
    BY DEF CreatorAlone
  <2>1. q # p /\ Busy(q, n) /\ n # m
    BY <1>2, <1>5 DEF Sender
  <2> QED
    BY <1>1, <1>2, <1>3, <2>1 DEF Turns, CreatorAlone, Sender
<1>8. RemindersAreInline'
  BY <1>2 DEF Turns, RemindersAreInline, Sender
<1>9. SendersSeeQueued'
  BY <1>1, <1>2 DEF Turns, SendersSeeQueued, Sending
<1>10. HandedIsRecorded'
  BY <1>1, <1>2 DEF Turns, HandedIsRecorded
<1> QED
  BY <1>6, <1>7, <1>8, <1>9, <1>10 DEF Turns

(* What a request does to its message. *)
LEMMA RequestFacts ==
  ASSUME TypeOK, NEW c \in Call, call[c] # NoCall
  PROVE  /\ call[c] \in Request /\ call[c].msg \in Message
         /\ call[c] = [at |-> call[c].at, msg |-> call[c].msg]
BY DEF TypeOK, Request

LEMMA RetryTurns ==
  ASSUME TypeOK, Turns, NEW c \in Call, RetryUpdate(c) \/ RetryEnqueue(c) \/ RetryFails(c)
  PROVE  Turns'
<1> DEFINE m == call[c].msg
<1> USE DEF Busy, Asking
<1>1. /\ call[c] # NoCall /\ m \in Message /\ task' = task /\ delivered' = delivered
      /\ call \in [Call -> Request \cup {NoCall}]
  BY RequestFacts DEF RetryUpdate, RetryEnqueue, RetryFails, history, TypeOK
<1>2. status[m] # "none" /\ \A q \in Inline : ~Busy(q, m)
  BY <1>1 DEF Turns, Unborn, CreatorAlone
<1>3. /\ \A n \in Message : n # m =>
           status'[n] = status[n] /\ jobs'[n] = jobs[n] /\ misses'[n] = misses[n]
      /\ status'[m] \in {status[m], "queued"}
  <2>1. CASE RetryEnqueue(c)
    BY <1>1, <2>1, JobFacts DEF RetryEnqueue, Add, TypeOK, history
  <2>2. CASE RetryUpdate(c)
    BY <1>1, <2>2 DEF RetryUpdate, TypeOK, history
  <2>3. CASE RetryFails(c)
    BY <1>1, <2>3 DEF RetryFails, TypeOK, history
  <2> QED
    BY <2>1, <2>2, <2>3
<1>4. \A d \in Call, n \in Message : Asking(d, n)' => Asking(d, n)
  <2>1. \A d \in Call : call'[d] = call[d] \/ (d = c /\ call'[d] = NoCall)
                        \/ (d = c /\ call'[d] = [call[c] EXCEPT !.at = "enqueue"])
    BY <1>1 DEF RetryUpdate, RetryEnqueue, RetryFails
  <2>2. [call[c] EXCEPT !.at = "enqueue"].msg = call[c].msg
    BY <1>1 DEF Request
  <2> QED
    BY <1>1, <2>1, <2>2
<1>5. Unborn'
  BY <1>1, <1>2, <1>3, <1>4 DEF Turns, Unborn
<1>6. CreatorAlone'
  BY <1>1, <1>2, <1>3, <1>4 DEF Turns, CreatorAlone
<1>7. RemindersAreInline' /\ HandedIsRecorded'
  BY <1>1 DEF Turns, RemindersAreInline, HandedIsRecorded
<1>8. SendersSeeQueued'
  BY <1>1, <1>3 DEF Turns, SendersSeeQueued, Sending
<1> QED
  BY <1>5, <1>6, <1>7, <1>8 DEF Turns

LEMMA RestTurns ==
  ASSUME TypeOK, Turns,
         \/ \E c \in Call, m \in Message : RetryCheck(c, m)
         \/ Environment \/ CrashWorker \/ CrashApi \/ UNCHANGED vars
  PROVE  Turns'
<1> USE DEF Busy, Asking
<1>1. ASSUME NEW c \in Call, NEW m \in Message, RetryCheck(c, m) PROVE Turns'
  <2>1. /\ UNCHANGED <<status, jobs, task, delivered, misses>> /\ status[m] = "failed"
        /\ \A d \in Call, n \in Message : Asking(d, n)' => Asking(d, n) \/ n = m
    BY <1>1 DEF RetryCheck, history, TypeOK
  <2> QED
    BY <2>1 DEF Turns, Unborn, CreatorAlone, RemindersAreInline, HandedIsRecorded,
                SendersSeeQueued, Sending
<1>2. CASE Environment \/ UNCHANGED vars
  <2>1. /\ UNCHANGED <<jobs, task, call, delivered, misses>>
        /\ \A n \in Message : status'[n] = status[n] \/ (status[n] # "none" /\ status'[n] = "gone")
    BY <1>2 DEF Environment, DeleteLead, Reassign, ChannelChange, vars, history, TypeOK, Exists
  <2> QED
    BY <2>1 DEF Turns, Unborn, CreatorAlone, RemindersAreInline, HandedIsRecorded,
                SendersSeeQueued, Sending
<1>3. CASE CrashApi
  <2>1. UNCHANGED <<status, jobs, task, delivered, misses>> /\ \A d \in Call : call'[d] = NoCall
    BY <1>3 DEF CrashApi, history
  <2> QED
    BY <2>1 DEF Turns, Unborn, CreatorAlone, RemindersAreInline, HandedIsRecorded,
                SendersSeeQueued, Sending
<1>4. CASE CrashWorker
  <2>1. UNCHANGED <<status, call, delivered, misses>> /\ \A p \in Sender : task'[p] = Idle
    BY <1>4 DEF CrashWorker, history
  <2>2. \A n \in Message : status[n] = "none" => \A j \in Job : jobs'[n][j] = 0
    <3> SUFFICES ASSUME NEW n \in Message, status[n] = "none", NEW j \in Job PROVE jobs'[n][j] = 0
      OBVIOUS
    <3>1. Stalled(n, j) = {}
      BY DEF Turns, Unborn, Stalled, Sender
    <3> QED
      BY <1>4, <3>1 DEF CrashWorker, Turns, Unborn
  <2> QED
    BY <2>1, <2>2 DEF Turns, Unborn, CreatorAlone, RemindersAreInline, HandedIsRecorded,
                SendersSeeQueued, Sending, Sender
<1> QED
  BY <1>1, <1>2, <1>3, <1>4

LEMMA NextTurns ==
  ASSUME TypeOK, OneWorker, Turns, [Next]_vars
  PROVE  Turns'
BY NextCases, SendHasEffect, SendTurns, CreateTurns, TakeTurns, CallerTurns, RetryTurns, RestTurns

(* With one worker, a message has one sender at a time, who found it queued *)
(* and hands it over while it still is: sendQueuedMessage and its callers.  *)
THEOREM SendersTakeTurns ==
  ASSUME OneWorker
  PROVE  Spec => []Turns
<1>1. Init => Turns
  BY DEF Init, Turns, Unborn, CreatorAlone, RemindersAreInline, SendersSeeQueued,
         HandedIsRecorded, Busy, Sending, Asking, Sender
<1>2. TypeOK /\ Turns /\ [Next]_vars => Turns'
  BY NextTurns
<1> QED
  BY <1>1, <1>2, DeliveryTypeCorrect, PTL DEF Spec

(* The provider is asked to send a message only while its row is queued, or *)
(* the lead was deleted since it was.                                       *)
THEOREM PostedIsQueued ==
  ASSUME OneWorker
  PROVE  Spec => []OnlyQueuedIsPosted
<1>1. TypeOK /\ Turns => OnlyQueuedIsPosted
  BY TaskFacts DEF Turns, SendersSeeQueued, OnlyQueuedIsPosted, Sending, Busy, At
<1> QED
  BY <1>1, DeliveryTypeCorrect, SendersTakeTurns, PTL

-----------------------------------------------------------------------------
(* Every delivery was granted *)

(* What is still to be sent, or may start a send: jobs, the one sender      *)
(* before its request to the provider, the requests about to add a job.     *)
First == [attempt |-> 0, stalled |-> FALSE]
FirstAgain == [attempt |-> 0, stalled |-> TRUE]
Second == [attempt |-> 1, stalled |-> FALSE]
SecondAgain == [attempt |-> 1, stalled |-> TRUE]

JobCount(m) ==
  jobs[m][First] + jobs[m][FirstAgain] + jobs[m][Second] + jobs[m][SecondAgain]
UnsentCount(m) == IF \E p \in Sender : Unsent(p, m) THEN 1 ELSE 0
Queueings(m) == {c \in Call : Queueing(c, m)}

Claims(m) == delivered[m] + JobCount(m) + UnsentCount(m) + Cardinality(Queueings(m))
Granted == \A m \in Message : Claims(m) <= 1 + retries[m] + crashes

LEMMA JobKinds ==
  /\ Job = {First, FirstAgain, Second, SecondAgain}
  /\ First # FirstAgain /\ First # Second /\ First # SecondAgain
  /\ FirstAgain # Second /\ FirstAgain # SecondAgain /\ Second # SecondAgain
<1>1. /\ First # FirstAgain /\ First # Second /\ First # SecondAgain
      /\ FirstAgain # Second /\ FirstAgain # SecondAgain /\ Second # SecondAgain
  BY DEF First, FirstAgain, Second, SecondAgain
<1>2. {First, FirstAgain, Second, SecondAgain} \subseteq Job
  BY DEF First, FirstAgain, Second, SecondAgain, Job, MaxChannelRetries
<1>3. \A j \in Job : j \in {First, FirstAgain, Second, SecondAgain}
  BY DEF First, FirstAgain, Second, SecondAgain, Job, MaxChannelRetries
<1> QED
  BY <1>1, <1>2, <1>3

LEMMA ClaimTypes ==
  ASSUME TypeOK, IsFiniteSet(Call), NEW m \in Message
  PROVE  /\ delivered[m] \in Nat /\ JobCount(m) \in Nat /\ UnsentCount(m) \in {0, 1}
         /\ Cardinality(Queueings(m)) \in Nat /\ retries[m] \in Nat /\ crashes \in Nat
<1>1. IsFiniteSet(Queueings(m))
  BY FS_Subset DEF Queueings
<1>2. Cardinality(Queueings(m)) \in Nat
  BY <1>1, FS_CardinalityType
<1>3. \A j \in Job : jobs[m][j] \in Nat
  BY DEF TypeOK
<1>4. JobCount(m) \in Nat
  BY <1>3, JobKinds DEF JobCount
<1> QED
  BY <1>2, <1>4 DEF TypeOK, UnsentCount

(* A job more, or less, counts. *)
LEMMA JobCounts ==
  ASSUME TypeOK, NEW m \in Message, NEW k \in Job, NEW d \in {-1, 1},
         jobs' = [jobs EXCEPT ![m][k] = @ + d]
  PROVE  /\ JobCount(m)' = JobCount(m) + d
         /\ \A n \in Message : n # m => JobCount(n)' = JobCount(n)
<1>1. \A j \in Job : jobs'[m][j] = IF j = k THEN jobs[m][j] + d ELSE jobs[m][j]
  BY DEF TypeOK
<1>2. \A n \in Message : n # m => jobs'[n] = jobs[n]
  BY DEF TypeOK
<1>3. \A j \in Job : jobs[m][j] \in Nat
  BY DEF TypeOK
<1>4. JobCount(m)' = JobCount(m) + d
  BY <1>1, <1>3, JobKinds DEF JobCount
<1> QED
  BY <1>2, <1>4 DEF JobCount

(* The claims on a message that a step does not touch. *)
LEMMA ClaimsStay ==
  ASSUME NEW m \in Message, jobs'[m] = jobs[m], delivered'[m] = delivered[m],
         \A c \in Call : Queueing(c, m)' => Queueing(c, m),
         \A q \in Sender : Unsent(q, m)' => Unsent(q, m),
         TypeOK, IsFiniteSet(Call)
  PROVE  Claims(m)' <= Claims(m)
<1>1. Queueings(m)' \subseteq Queueings(m) /\ JobCount(m)' = JobCount(m)
  BY DEF Queueings, JobCount
<1>2. UnsentCount(m)' \in {0, 1} /\ UnsentCount(m)' <= UnsentCount(m)
  BY DEF UnsentCount
<1>3. IsFiniteSet(Queueings(m))
  BY FS_Subset DEF Queueings
<1>4. Cardinality(Queueings(m)') \in Nat /\ Cardinality(Queueings(m)') <= Cardinality(Queueings(m))
  BY <1>1, <1>3, FS_Subset, FS_CardinalityType
<1> QED
  BY <1>1, <1>2, <1>4, ClaimTypes DEF Claims

LEMMA SendGranted ==
  ASSUME TypeOK, OneWorker, Turns, IsFiniteSet(Call), NEW p \in Sender, SendEffect(p),
         NEW m \in Message, m = task[p].msg, NEW n \in Message
  PROVE  Claims(n)' <= Claims(n)
<1> USE DEF Busy
<1>1. task[p] # Idle /\ m \in Message /\ task[p].job \in Job /\ call' = call
  BY SendFrame, TaskFacts
<1>2. \A q \in Sender : Busy(q, m) => q = p
  BY <1>1, OneIsBusy DEF Turns
<1>3. CASE n # m
  BY <1>1, <1>3, SendFrame, ClaimsStay DEF Unsent, Queueing
<1>4. CASE n = m
  <2>1. /\ delivered[m] \in Nat /\ JobCount(m) \in Nat /\ UnsentCount(m) \in {0, 1}
        /\ Cardinality(Queueings(m)) \in Nat /\ Queueings(m)' = Queueings(m)
    BY <1>1, ClaimTypes DEF Queueings, Queueing
  <2>2. CASE jobs' = jobs /\ delivered' = delivered
    <3>1. \A q \in Sender : Unsent(q, m)' => Unsent(q, m)
      BY <1>1, <1>2, <2>2, SendFrame DEF SendEffect, Finished, Moved, Unsent
    <3> QED
      BY <1>1, <1>4, <2>2, <3>1, ClaimsStay DEF Queueing
  <2>3. CASE ~(jobs' = jobs /\ delivered' = delivered)
    <3>1. Unsent(p, m) /\ ~Unsent(p, m)'
      BY <1>1, <2>3 DEF SendEffect, Finished, Moved, Unsent, history
    <3>2. UnsentCount(m) = 1 /\ UnsentCount(m)' = 0
      BY <1>1, <1>2, <3>1, SendFrame DEF UnsentCount, Unsent
    <3>3. CASE task[p].at = "channel"
      <4>1. delivered' = delivered /\ MayRetry(task[p].job) /\ AddDelayed(m, task[p].job)
        BY <2>3, <3>3 DEF SendEffect, history
      <4>2. PICK k \in Job : jobs' = [jobs EXCEPT ![m][k] = @ + 1]
        BY <1>1, <4>1, JobFacts DEF AddDelayed, Add
      <4>3. JobCount(m)' = JobCount(m) + 1
        BY <1>1, <4>2, JobCounts
      <4> QED
        BY <1>4, <2>1, <3>2, <4>1, <4>3 DEF Claims
    <3>4. CASE task[p].at # "channel"
      <4>1. jobs' = jobs /\ delivered' \in {delivered, [delivered EXCEPT ![m] = @ + 1]}
        BY <2>3, <3>4 DEF SendEffect, history
      <4>2. JobCount(m)' = JobCount(m) /\ delivered'[m] \in {delivered[m], delivered[m] + 1}
        BY <1>1, <4>1 DEF JobCount, TypeOK
      <4> QED
        BY <1>4, <2>1, <3>2, <4>2 DEF Claims
    <3> QED
      BY <3>3, <3>4
  <2> QED
    BY <2>2, <2>3
<1> QED
  BY <1>3, <1>4

(* A message is created with the one claim of its creator. *)
LEMMA CreateGranted ==
  ASSUME TypeOK, Turns, IsFiniteSet(Call), NEW p \in Sender, NEW m \in Message,
         CreateAndSend(p, m) \/ CreateReminder(p, m), NEW n \in Message
  PROVE  IF n = m THEN Claims(n)' <= 1 ELSE Claims(n)' <= Claims(n)
<1> USE DEF Busy
<1>1. /\ task[p] = Idle /\ status[m] = "none" /\ UNCHANGED <<jobs, call, delivered>>
      /\ \A q \in Sender : q # p => task'[q] = task[q]
      /\ task'[p].msg = m
  BY DEF CreateAndSend, CreateReminder, Begin, history, TypeOK
<1>2. CASE n = m
  <2>1. jobs[m] \in [Job -> Nat] /\ \A j \in Job : jobs[m][j] = 0
    BY <1>1 DEF Turns, Unborn, TypeOK
  <2>2. JobCount(m)' = 0 /\ delivered'[m] = 0
    BY <1>1, <2>1, JobKinds DEF Turns, Unborn, JobCount
  <2>3. Queueings(m)' = {}
    BY <1>1 DEF Turns, Unborn, Queueings, Queueing, Asking, NoCall
  <2> QED
    BY <1>2, <2>2, <2>3, FS_EmptySet DEF Claims, UnsentCount
<1>3. CASE n # m
  BY <1>1, <1>3, ClaimsStay DEF Unsent, Queueing
<1> QED
  BY <1>2, <1>3

LEMMA TakeGranted ==
  ASSUME TypeOK, IsFiniteSet(Call), NEW p \in Sender, NEW m \in Message, NEW k \in Job,
         TakeJob(p, m, k), NEW n \in Message
  PROVE  Claims(n)' <= Claims(n)
<1> USE DEF Busy
<1>1. /\ task[p] = Idle /\ UNCHANGED <<call, delivered>>
      /\ jobs' = [jobs EXCEPT ![m][k] = @ + (-1)]
      /\ \A q \in Sender : q # p => task'[q] = task[q]
      /\ task'[p].msg = m
  BY DEF TakeJob, Begin, history, TypeOK
<1>2. CASE n = m
  <2>1. JobCount(m)' = JobCount(m) + (-1) 
    BY <1>1, JobCounts
  <2>2. Queueings(m)' = Queueings(m)
    BY <1>1 DEF Queueings, Queueing
  <2>3. UnsentCount(m)' \in {0, 1} 
    BY DEF UnsentCount
  <2>4. UnsentCount(m)' <= UnsentCount(m) + 1
    BY DEF UnsentCount
  <2> QED
    BY <1>1, <1>2, <2>1, <2>2, <2>3, <2>4, ClaimTypes DEF Claims
<1>3. CASE n # m
  <2>1. jobs'[n] = jobs[n]
    BY <1>1, <1>3 DEF TypeOK
  <2> QED
    BY <1>1, <1>3, <2>1, ClaimsStay DEF Unsent, Queueing
<1> QED
  BY <1>2, <1>3

LEMMA CallerGranted ==
  ASSUME TypeOK, OneWorker, Turns, IsFiniteSet(Call), NEW p \in Sender,
         AddReminder(p) \/ AddReminderFails(p) \/ Acknowledge(p),
         NEW m \in Message, m = task[p].msg, NEW n \in Message
  PROVE  Claims(n)' <= Claims(n)
<1> USE DEF Busy
<1>1. /\ task[p] # Idle /\ UNCHANGED <<call, delivered>>
      /\ \A q \in Sender : q # p => task'[q] = task[q]
      /\ task'[p] = Idle
  <2>1. CASE Acknowledge(p)
    BY <2>1 DEF Acknowledge, At, history, TypeOK
  <2>2. CASE AddReminder(p) \/ AddReminderFails(p)
    BY <2>2 DEF AddReminder, AddReminderFails, At, End, history, TypeOK, Turns, RemindersAreInline
  <2> QED
    BY <2>1, <2>2
<1>2. \A q \in Sender : Unsent(q, n)' => Unsent(q, n)
  BY <1>1 DEF Unsent
<1>3. CASE jobs'[n] = jobs[n]
  BY <1>1, <1>2, <1>3, ClaimsStay DEF Queueing
<1>4. CASE jobs'[n] # jobs[n]
  <2>1. AddReminder(p) /\ n = m /\ Unsent(p, m)
    BY <1>1, <1>4, JobFacts DEF AddReminder, AddReminderFails, Acknowledge, Add, At, Unsent, TypeOK
  <2>2. jobs' = [jobs EXCEPT ![m][Fresh] = @ + 1]
    BY <2>1 DEF AddReminder, Add
  <2>3. JobCount(m)' = JobCount(m) + 1
    BY <2>2, JobFacts, JobCounts
  <2>4. UnsentCount(m) = 1 /\ UnsentCount(m)' = 0
    BY <1>1, <2>1, OneIsBusy DEF UnsentCount, Unsent, Turns
  <2>5. Queueings(m)' = Queueings(m)
    BY <1>1 DEF Queueings, Queueing
  <2> QED
    BY <1>1, <2>1, <2>3, <2>4, <2>5, ClaimTypes DEF Claims
<1> QED
  BY <1>3, <1>4

LEMMA RetryGranted ==
  ASSUME TypeOK, IsFiniteSet(Call), NEW c \in Call,
         RetryUpdate(c) \/ RetryEnqueue(c) \/ RetryFails(c),
         NEW m \in Message, m = call[c].msg, NEW n \in Message,
         Claims(n)' \in Nat
  PROVE  Claims(n)' <= Claims(n) + (retries'[n] - retries[n])
<1>1. /\ call[c] # NoCall /\ UNCHANGED <<task, delivered>>
      /\ call[c] = [at |-> call[c].at, msg |-> m]
      /\ \A d \in Call : d # c => call'[d] = call[d]
  BY RequestFacts DEF RetryUpdate, RetryEnqueue, RetryFails, history, TypeOK
<1>2. NoCall # [at |-> "enqueue", msg |-> m] /\ NoCall # [at |-> "enqueue", msg |-> n]
  BY DEF NoCall
<1>3. /\ UnsentCount(n)' = UnsentCount(n) /\ \A q \in Sender : Unsent(q, n)' => Unsent(q, n)
      /\ IsFiniteSet(Queueings(n))
  BY <1>1, FS_Subset DEF UnsentCount, Unsent, Busy, Queueings
<1>4. /\ delivered[n] \in Nat /\ JobCount(n) \in Nat /\ UnsentCount(n) \in {0, 1}
      /\ Cardinality(Queueings(n)) \in Nat /\ retries[n] \in Nat
  BY ClaimTypes
<1>5. CASE call'[c] = NoCall /\ UNCHANGED <<jobs, retries>>
  <2>1. \A d \in Call : Queueing(d, n)' => Queueing(d, n)
    BY <1>1, <1>2, <1>5 DEF Queueing
  <2>2. Claims(n)' <= Claims(n)
    BY <1>1, <1>3, <1>5, <2>1, ClaimsStay
  <2> QED
    BY <1>4, <1>5, <2>2 DEF Claims
<1>5a. CASE RetryFails(c)
  BY <1>5, <1>5a, <1>1 DEF RetryFails, TypeOK
<1>6. CASE RetryUpdate(c)
  <2>1. CASE ~Exists(m)
    BY <1>1, <1>5, <1>6, <2>1 DEF RetryUpdate, TypeOK
  <2>2. CASE Exists(m)
    <3>1. /\ jobs' = jobs /\ call[c].at = "update" /\ retries' = [retries EXCEPT ![m] = @ + 1]
          /\ call'[c] = [call[c] EXCEPT !.at = "enqueue"]
      BY <1>6, <2>2 DEF RetryUpdate, TypeOK
    <3>2. call'[c] = [at |-> "enqueue", msg |-> m]
      BY <1>1, <3>1
    <3>3. CASE n # m
      <4>1. \A d \in Call : Queueing(d, n)' => Queueing(d, n)
        BY <1>1, <3>2, <3>3 DEF Queueing
      <4> QED
        <5>1. retries'[n] = retries[n] /\ Claims(n) \in Nat
          BY <1>4, <3>1, <3>3 DEF TypeOK, Claims
        <5>2. Claims(n)' <= Claims(n)
          BY <1>1, <1>3, <3>1, <4>1, ClaimsStay
        <5> QED
          BY <1>4, <5>1, <5>2
    <3>4. CASE n = m
      <4>1. Queueings(n)' = Queueings(n) \cup {c}
        BY <1>1, <3>2, <3>4 DEF Queueings, Queueing
      <4>2. Cardinality(Queueings(n)') <= Cardinality(Queueings(n)) + 1
        <5>1. Cardinality(Queueings(n) \cup {c}) \in {Cardinality(Queueings(n)), Cardinality(Queueings(n)) + 1}
          BY <1>3, FS_AddElement
        <5> QED
          BY <1>4, <4>1, <5>1
      <4>3. retries'[n] = retries[n] + 1 /\ JobCount(n)' = JobCount(n)
        BY <3>1, <3>4 DEF TypeOK, JobCount
      <4> QED
        <5>1. delivered'[n] = delivered[n]
          BY <1>1
        <5>2. Cardinality(Queueings(n)') \in Nat
          BY <1>3, <4>1, FS_AddElement, FS_CardinalityType
        <5> QED
          BY <1>3, <1>4, <4>2, <4>3, <5>1, <5>2 DEF Claims
    <3> QED
      BY <3>3, <3>4
  <2> QED
    BY <2>1, <2>2
<1>7. CASE RetryEnqueue(c)
  <2>1. /\ call[c] = [at |-> "enqueue", msg |-> m] /\ call'[c] = NoCall /\ retries' = retries
        /\ jobs' = [jobs EXCEPT ![m][Fresh] = @ + 1]
    BY <1>1, <1>7 DEF RetryEnqueue, Add, TypeOK
  <2>2. CASE n # m
    <3>1. jobs'[n] = jobs[n] /\ \A d \in Call : Queueing(d, n)' => Queueing(d, n)
      BY <1>1, <1>2, <2>1, <2>2 DEF Queueing, TypeOK
    <3> QED
      BY <1>1, <1>3, <1>4, <2>1, <3>1, ClaimsStay DEF Claims
  <2>3. CASE n = m
    <3>1. Queueings(n)' = Queueings(n) \ {c} /\ c \in Queueings(n)
      BY <1>1, <1>2, <2>1, <2>3 DEF Queueings, Queueing
    <3>2. Cardinality(Queueings(n)') = Cardinality(Queueings(n)) - 1
      BY <1>3, <3>1, FS_RemoveElement
    <3>3. JobCount(n)' = JobCount(n) + 1
      BY <2>1, <2>3, JobFacts, JobCounts
    <3> QED
      BY <1>1, <1>3, <1>4, <2>1, <3>2, <3>3 DEF Claims
  <2> QED
    BY <2>2, <2>3
<1> QED
  BY <1>5a, <1>6, <1>7

(* The environment claims nothing; a crash of the worker hands one job out  *)
(* again, for there is one worker.                                          *)
LEMMA RestGranted ==
  ASSUME TypeOK, OneWorker, IsFiniteSet(Call), NEW n \in Message, Claims(n)' \in Nat,
         \/ \E c \in Call, m \in Message : RetryCheck(c, m)
         \/ Environment \/ CrashWorker \/ CrashApi \/ UNCHANGED vars
  PROVE  Claims(n)' <= Claims(n) + (crashes' - crashes)
<1>1. /\ delivered[n] \in Nat /\ JobCount(n) \in Nat /\ UnsentCount(n) \in {0, 1}
      /\ Cardinality(Queueings(n)) \in Nat /\ crashes \in Nat
  BY ClaimTypes
<1>2. CASE UNCHANGED <<jobs, delivered, task>> /\ crashes' \in {crashes, crashes + 1}
           /\ \A d \in Call : Queueing(d, n)' => Queueing(d, n)
  BY <1>1, <1>2, ClaimsStay DEF Unsent, Busy, Claims
<1>3. ASSUME NEW c \in Call, NEW m \in Message, RetryCheck(c, m)
      PROVE  Claims(n)' <= Claims(n) + (crashes' - crashes)
  <2>1. call' = [call EXCEPT ![c] = [at |-> "update", msg |-> m]]
    BY <1>3 DEF RetryCheck
  <2>2. \A d \in Call : Queueing(d, n)' => Queueing(d, n)
    BY <2>1 DEF Queueing, TypeOK
  <2> QED
    BY <1>2, <1>3, <2>2 DEF RetryCheck, history, budgets
<1>4. CASE Environment \/ UNCHANGED vars
  BY <1>2, <1>4 DEF Environment, DeleteLead, Reassign, ChannelChange, vars, history, budgets, Queueing
<1>5. CASE CrashApi
  <2>1. \A d \in Call : call'[d] # [at |-> "enqueue", msg |-> n]
    BY <1>5 DEF CrashApi, NoCall
  <2> QED
    BY <1>2, <1>5, <2>1 DEF CrashApi, history, Queueing
<1>6. CASE CrashWorker
  <2>1. /\ call' = call /\ delivered' = delivered /\ crashes' = crashes + 1
        /\ \A p \in Sender : task'[p] = Idle
        /\ \A j \in Job : jobs'[n][j] = IF Stalled(n, j) = {} THEN jobs[n][j] ELSE jobs[n][j] + 1
    BY <1>6 DEF CrashWorker, history
  <2>2. \A j, k \in Job : Stalled(n, j) # {} /\ Stalled(n, k) # {} => j = k
    BY DEF Stalled, OneWorker
  <2>3. \A j \in Job : jobs[n][j] \in Nat
    BY DEF TypeOK
  <2>4. JobCount(n)' <= JobCount(n) + 1 /\ JobCount(n)' \in Nat
    BY <2>1, <2>2, <2>3, JobKinds DEF JobCount
  <2>5. UnsentCount(n)' = 0 /\ Queueings(n)' = Queueings(n)
    BY <2>1 DEF UnsentCount, Unsent, Busy, Queueings, Queueing
  <2> QED
    BY <1>1, <2>1, <2>4, <2>5 DEF Claims
<1> QED
  BY <1>3, <1>4, <1>5, <1>6

ClaimsTypeOK == \A m \in Message : Claims(m) \in Nat

LEMMA ClaimsAreNumbers ==
  ASSUME IsFiniteSet(Call), TypeOK
  PROVE  ClaimsTypeOK
<1> SUFFICES ASSUME NEW m \in Message PROVE Claims(m) \in Nat
  BY DEF ClaimsTypeOK
<1>1. /\ delivered[m] \in Nat /\ JobCount(m) \in Nat /\ UnsentCount(m) \in {0, 1}
      /\ Cardinality(Queueings(m)) \in Nat
  BY ClaimTypes
<1> QED
  BY <1>1 DEF Claims

LEMMA NextGranted ==
  ASSUME TypeOK, TypeOK', OneWorker, IsFiniteSet(Call), Turns, ClaimsTypeOK, ClaimsTypeOK',
         Granted, [Next]_vars
  PROVE  Granted'
<1>1. \A n \in Message : Claims(n) \in Nat /\ Claims(n)' \in Nat
  BY DEF ClaimsTypeOK
<1>2. retries \in [Message -> Nat] /\ retries' \in [Message -> Nat] /\ crashes \in Nat /\ crashes' \in Nat
  BY DEF TypeOK
<1> SUFFICES ASSUME NEW n \in Message PROVE Claims(n)' <= 1 + retries'[n] + crashes'
  BY DEF Granted
<1>3. Claims(n) <= 1 + retries[n] + crashes
  BY DEF Granted
<1>4. ASSUME NEW p \in Sender, Send(p) PROVE Claims(n)' <= 1 + retries'[n] + crashes'
  <2>1. SendEffect(p) /\ task[p].msg \in Message /\ retries' = retries /\ crashes' = crashes
    BY <1>4, SendHasEffect, SendFrame
  <2> QED
    BY <1>1, <1>2, <1>3, <2>1, SendGranted
<1>5. ASSUME NEW p \in Sender, AddReminder(p) \/ AddReminderFails(p) \/ Acknowledge(p)
      PROVE  Claims(n)' <= 1 + retries'[n] + crashes'
  <2>1. task[p].msg \in Message /\ retries' = retries /\ crashes' = crashes
    BY <1>5, TaskFacts DEF AddReminder, AddReminderFails, Acknowledge, At, budgets
  <2> QED
    BY <1>1, <1>2, <1>3, <1>5, <2>1, CallerGranted
<1>6. ASSUME NEW p \in Sender, NEW m \in Message, CreateAndSend(p, m) \/ CreateReminder(p, m)
      PROVE  Claims(n)' <= 1 + retries'[n] + crashes'
  <2>1. retries' = retries /\ crashes' = crashes
    BY <1>6 DEF CreateAndSend, CreateReminder, budgets
  <2> QED
    BY <1>1, <1>2, <1>3, <1>6, <2>1, CreateGranted
<1>7. ASSUME NEW p \in Sender, NEW m \in Message, NEW j \in Job, TakeJob(p, m, j)
      PROVE  Claims(n)' <= 1 + retries'[n] + crashes'
  <2>1. retries' = retries /\ crashes' = crashes
    BY <1>7 DEF TakeJob, budgets
  <2> QED
    BY <1>1, <1>2, <1>3, <1>7, <2>1, TakeGranted
<1>8. ASSUME NEW c \in Call, RetryUpdate(c) \/ RetryEnqueue(c) \/ RetryFails(c)
      PROVE  Claims(n)' <= 1 + retries'[n] + crashes'
  <2>1. call[c].msg \in Message /\ crashes' = crashes
    BY <1>8, RequestFacts DEF RetryUpdate, RetryEnqueue, RetryFails, budgets
  <2> QED
    BY <1>1, <1>2, <1>3, <1>8, <2>1, RetryGranted
<1>9. CASE \/ \E c \in Call, m \in Message : RetryCheck(c, m)
           \/ Environment \/ CrashWorker \/ CrashApi \/ UNCHANGED vars
  <2>1. retries' = retries
    BY <1>9 DEF RetryCheck, Environment, DeleteLead, Reassign, ChannelChange, CrashWorker,
                CrashApi, vars
  <2> QED
    BY <1>1, <1>2, <1>3, <1>9, <2>1, RestGranted
<1> QED
  BY <1>4, <1>5, <1>6, <1>7, <1>8, <1>9, NextCases

(* The provider accepts a message at most once for its creation, once for   *)
(* each accepted retry and once for each crash: however many requests ask   *)
(* for retries at once, and whatever channels and assignees do.             *)
THEOREM DeliveriesAreBounded ==
  ASSUME OneWorker, IsFiniteSet(Call)
  PROVE  Spec => []DeliveriesAreGranted
<1>1. Init => Granted
  <2> SUFFICES ASSUME Init, NEW m \in Message PROVE Claims(m) <= 1 + retries[m] + crashes
    BY DEF Granted
  <2>1. /\ delivered[m] = 0 /\ retries[m] = 0 /\ crashes = 0 /\ \A j \in Job : jobs[m][j] = 0
        /\ \A p \in Sender : task[p] = Idle
        /\ \A c \in Call : call[c] # [at |-> "enqueue", msg |-> m]
    BY DEF Init, NoCall
  <2>2. JobCount(m) = 0 /\ UnsentCount(m) = 0 /\ Queueings(m) = {}
    BY <2>1, JobKinds DEF JobCount, UnsentCount, Unsent, Busy, Queueings, Queueing
  <2> QED
    BY <2>1, <2>2, FS_EmptySet DEF Claims
<1>2. TypeOK => ClaimsTypeOK
  BY ClaimsAreNumbers
<1>3. TypeOK /\ TypeOK' /\ ClaimsTypeOK /\ ClaimsTypeOK' /\ Turns /\ Granted /\ [Next]_vars
        => Granted'
  BY NextGranted
<1>4. TypeOK /\ Granted => DeliveriesAreGranted
  <2> SUFFICES ASSUME TypeOK, Granted, NEW m \in Message
               PROVE  delivered[m] <= 1 + retries[m] + crashes
    BY DEF DeliveriesAreGranted
  <2>1. /\ delivered[m] \in Nat /\ JobCount(m) \in Nat /\ UnsentCount(m) \in {0, 1}
        /\ Cardinality(Queueings(m)) \in Nat /\ retries[m] \in Nat /\ crashes \in Nat
    BY ClaimTypes
  <2>2. Claims(m) <= 1 + retries[m] + crashes
    BY DEF Granted
  <2> QED
    BY <2>1, <2>2 DEF Claims
<1> QED
  BY <1>1, <1>2, <1>3, <1>4, DeliveryTypeCorrect, SendersTakeTurns, PTL DEF Spec

-----------------------------------------------------------------------------
(* One carrier for a message, one look again for its channel *)

(* A message is retried by one request at a time: the messages page offers  *)
(* no second retry of it while one is in progress.  With two, a message can *)
(* get two jobs, each with a look for the channel of its own.               *)
RetriesAlone == \A m \in Message : \A c, d \in Call : Asking(c, m) /\ Asking(d, m) => c = d

(* A request that goes on to the update read a failed message. *)
AskedOfFailed == \A c \in Call, m \in Message :
  Asking(c, m) /\ call[c].at = "update" => status[m] \in {"failed", "gone"}

(* A send, a job or a request carries the message, one of them at most, and *)
(* none once the row says how it went.                                      *)
LoneCarrier(m) ==
  /\ \A j, k \in Job : jobs[m][j] > 0 /\ jobs[m][k] > 0 => j = k /\ jobs[m][j] = 1
  /\ \A p \in Sender : Active(p, m) => \A j \in Job : jobs[m][j] = 0
  /\ \A p \in Sender, c \in Call : Active(p, m) => ~Queueing(c, m)
  /\ \A c \in Call : Queueing(c, m) => \A j \in Job : jobs[m][j] = 0
  /\ status[m] \in {"failed", "sent"} => ~Carried(m)

(* The attempt of the carrier is the number of looks that found the channel *)
(* down.                                                                    *)
MissesFollow(m) ==
  /\ misses[m] <= MaxChannelRetries + 1
  /\ status[m] = "failed" /\ cause[m] = "channel" => misses[m] = MaxChannelRetries + 1
  /\ \A j \in Job : jobs[m][j] > 0 => misses[m] = j.attempt
  /\ \A c \in Call : Queueing(c, m) => misses[m] = 0
  /\ \A p \in Sender : Active(p, m) /\ task[p].at # "fail" => misses[m] = task[p].job.attempt
  /\ \A p \in Sender : Active(p, m) /\ task[p].at = "fail" /\ task[p].cause = "channel"
                          => misses[m] = MaxChannelRetries + 1

OnceAt(m) == LoneCarrier(m) /\ MissesFollow(m)
Once == crashes = 0 => \A m \in Message : OnceAt(m)

LEMMA SendAsked ==
  ASSUME TypeOK, Turns, AskedOfFailed, NEW p \in Sender, SendEffect(p)
  PROVE  AskedOfFailed'
<1> SUFFICES ASSUME NEW c \in Call, NEW n \in Message, Asking(c, n)', call'[c].at = "update"
             PROVE  status'[n] \in {"failed", "gone"}
  BY DEF AskedOfFailed
<1>1. Asking(c, n) /\ call[c].at = "update" /\ status[n] \in {"failed", "gone"}
  BY SendFrame DEF AskedOfFailed, Asking
<1>2. CASE n # task[p].msg
  BY <1>1, <1>2, SendFrame
<1>3. CASE n = task[p].msg
  <2>1. status[n] = "failed" => ~Sending(p, n)
    BY DEF Turns, SendersSeeQueued
  <2>2. status'[n] = status[n] \/ Sending(p, n)
    BY <1>3 DEF SendEffect, Sending, Busy
  <2>3. status[n] = "gone" => status'[n] = "gone"
    BY <1>3 DEF SendEffect, SetStatus, Exists
  <2> QED
    BY <1>1, <2>1, <2>2, <2>3
<1> QED
  BY <1>2, <1>3

LEMMA RestAsked ==
  ASSUME TypeOK, Turns, RetriesAlone, AskedOfFailed, [Next]_vars, ~\E p \in Sender : Send(p)
  PROVE  AskedOfFailed'
<1> USE DEF Asking
<1>1. ASSUME \A c \in Call : call'[c] \in {call[c], NoCall},
             \A m \in Message : status'[m] = status[m] \/ status'[m] = "gone" \/ status[m] = "none"
      PROVE  AskedOfFailed'
  BY <1>1 DEF AskedOfFailed, Turns, Unborn
<1>2. ASSUME NEW p \in Sender, AddReminder(p) \/ AddReminderFails(p) \/ Acknowledge(p)
      PROVE  AskedOfFailed'
  BY <1>1, <1>2 DEF AddReminder, AddReminderFails, Acknowledge
<1>3. ASSUME NEW p \in Sender, NEW m \in Message, CreateAndSend(p, m) \/ CreateReminder(p, m)
      PROVE  AskedOfFailed'
  BY <1>1, <1>3 DEF CreateAndSend, CreateReminder, TypeOK
<1>4. ASSUME NEW p \in Sender, NEW m \in Message, NEW j \in Job, TakeJob(p, m, j)
      PROVE  AskedOfFailed'
  BY <1>1, <1>4 DEF TakeJob
<1>5. ASSUME NEW c \in Call, RetryUpdate(c) PROVE AskedOfFailed'
  <2>1. CASE ~Exists(call[c].msg)
    BY <1>1, <1>5, <2>1 DEF RetryUpdate, TypeOK
  <2>2. CASE Exists(call[c].msg)
    <3>1. /\ call[c] # NoCall /\ call[c].msg \in Message
          /\ status' = [status EXCEPT ![call[c].msg] = "queued"]
          /\ call' = [call EXCEPT ![c].at = "enqueue"]
      BY <1>5, <2>2, RequestFacts DEF RetryUpdate
    <3>2. call'[c].at = "enqueue" /\ \A d \in Call : d # c => call'[d] = call[d]
      BY <3>1, RequestFacts DEF TypeOK
    <3>3. \A d \in Call : d # c => ~Asking(d, call[c].msg)
      BY <3>1 DEF RetriesAlone
    <3> QED
      BY <3>1, <3>2, <3>3 DEF AskedOfFailed, TypeOK
  <2> QED
    BY <2>1, <2>2
<1>6. ASSUME NEW c \in Call, RetryEnqueue(c) \/ RetryFails(c) PROVE AskedOfFailed'
  BY <1>1, <1>6 DEF RetryEnqueue, RetryFails, TypeOK
<1>7. ASSUME NEW c \in Call, NEW m \in Message, RetryCheck(c, m) PROVE AskedOfFailed'
  BY <1>7 DEF RetryCheck, AskedOfFailed, TypeOK
<1>8. CASE Environment \/ CrashWorker \/ CrashApi \/ UNCHANGED vars
  BY <1>1, <1>8 DEF Environment, DeleteLead, Reassign, ChannelChange, CrashWorker, CrashApi,
                    vars, TypeOK
<1> QED
  BY <1>2, <1>3, <1>4, <1>5, <1>6, <1>7, <1>8, NextCases

(* A message that a step leaves to fewer carriers. *)
LEMMA OnceUntouched ==
  ASSUME NEW n \in Message, OnceAt(n), status'[n] = status[n] \/ status'[n] = "gone",
         jobs'[n] = jobs[n], misses'[n] = misses[n], cause'[n] = cause[n],
         \A q \in Sender : Active(q, n)' => Active(q, n) /\ task'[q] = task[q],
         \A c \in Call : Queueing(c, n)' => Queueing(c, n)
  PROVE  OnceAt(n)'
<1>1. LoneCarrier(n)'
  BY DEF OnceAt, LoneCarrier, Carried, Active, Busy, Queueing
<1>2. MissesFollow(n)'
  BY DEF OnceAt, MissesFollow
<1> QED
  BY <1>1, <1>2 DEF OnceAt

LEMMA SendOnce ==
  ASSUME TypeOK, OneWorker, Turns, NEW p \in Sender, SendEffect(p),
         NEW m \in Message, m = task[p].msg, NEW n \in Message, OnceAt(n)
  PROVE  OnceAt(n)'
<1> USE DEF Active, Busy, MaxChannelRetries
<1>1. /\ task[p] # Idle /\ task[p].job \in Job /\ call' = call /\ task[p].at # "ack"
      /\ \A q \in Sender : q # p => task'[q] = task[q]
  BY SendFrame, TaskFacts DEF SendEffect
<1>2. \A q \in Sender : Busy(q, m) => q = p
  BY <1>1, OneIsBusy DEF Turns
<1>3. CASE n # m
  BY <1>1, <1>3, SendFrame, OnceUntouched DEF Queueing
<1>4. CASE n = m
  <2>1. /\ Active(p, m) /\ \A j \in Job : jobs[m][j] = 0
        /\ \A c \in Call : ~Queueing(c, m) /\ ~Queueing(c, m)'
        /\ status[m] \notin {"failed", "sent"}
    BY <1>1, <1>4 DEF OnceAt, LoneCarrier, Carried, Queueing
  <2>2. /\ misses[m] \in Nat /\ misses[m] <= 2
        /\ task[p].at # "fail" => misses[m] = task[p].job.attempt
        /\ task[p].at = "fail" /\ task[p].cause = "channel" => misses[m] = 2
    BY <1>1, <1>4 DEF OnceAt, MissesFollow, TypeOK
  <2>3. \A q \in Sender : Active(q, m)' => q = p
    BY <1>1, <1>2
  <2>4. task[p].job.attempt \in {0, 1} /\ (MayRetry(task[p].job) <=> task[p].job.attempt = 0)
    BY <1>1 DEF Job, MayRetry
  <2>5. CASE jobs' = jobs /\ status' = status
    <3>1. LoneCarrier(m)'
      BY <2>1, <2>5 DEF LoneCarrier, Carried, Queueing
    <3>2. misses'[m] <= 2 
      BY <2>2, <2>4, <2>5, <1>1 DEF SendEffect, TypeOK, history, AddDelayed, Add
    <3>3. Active(p, m)' => /\ task'[p].at # "fail" => misses'[m] = task'[p].job.attempt
                           /\ task'[p].at = "fail" /\ task'[p].cause = "channel" => misses'[m] = 2
      <4> SUFFICES ASSUME Active(p, m)'
                   PROVE  /\ task'[p].at # "fail" => misses'[m] = task'[p].job.attempt
                          /\ task'[p].at = "fail" /\ task'[p].cause = "channel" => misses'[m] = 2
        OBVIOUS
      <4>1. ~Finished(p)
        BY DEF Finished, Moved
      <4>2. task'[p].job = task[p].job
        BY <4>1 DEF SendEffect, Moved
      <4>3. CASE misses' = misses
        <5>1. misses' # [misses EXCEPT ![m] = @ + 1]
          BY <2>2, <4>3 DEF TypeOK
        <5> QED
          BY <2>2, <4>1, <4>2, <4>3, <5>1 DEF SendEffect, Moved, history
      <4>4. CASE misses' # misses
        <5>1. /\ misses' = [misses EXCEPT ![m] = @ + 1] /\ ~MayRetry(task[p].job)
              /\ task[p].at = "channel" /\ task'[p].at = "fail"
          BY <4>1, <4>4 DEF SendEffect, Moved, history
        <5>2. misses'[m] = misses[m] + 1
          BY <5>1 DEF TypeOK
        <5> QED
          BY <2>2, <2>4, <5>1, <5>2
      <4> QED
        BY <4>3, <4>4
    <3> QED
      BY <1>4, <2>1, <2>3, <2>5, <3>1, <3>2, <3>3 DEF OnceAt, MissesFollow
  <2>6. CASE jobs' # jobs
    <3>1. /\ task[p].at = "channel" /\ UNCHANGED <<status, cause>>
          /\ misses' = [misses EXCEPT ![m] = @ + 1]
          /\ MayRetry(task[p].job) /\ AddDelayed(m, task[p].job) /\ Finished(p)
      BY <2>6 DEF SendEffect, history
    <3>2. PICK k \in Job : k.attempt = 1 /\ jobs' = [jobs EXCEPT ![m][k] = @ + 1]
      <4>1. [attempt |-> task[p].job.attempt + 1, stalled |-> FALSE] \in Job
        BY <1>1, <3>1, JobFacts
      <4>2. task[p].job.attempt + 1 = 1
        BY <2>4, <3>1
      <4> QED
        BY <3>1, <4>1, <4>2 DEF AddDelayed, Add
    <3>3. \A j \in Job : jobs'[m][j] = IF j = k THEN 1 ELSE 0
      BY <2>1, <3>2 DEF TypeOK
    <3>4. \A q \in Sender : ~Active(q, m)'
      BY <2>3, <3>1 DEF Finished, Moved
    <3>5. LoneCarrier(m)'
      BY <2>1, <3>1, <3>3, <3>4 DEF LoneCarrier
    <3>6. misses'[m] = 1
      BY <2>2, <2>4, <3>1 DEF TypeOK
    <3>7. MissesFollow(m)'
      BY <2>1, <3>1, <3>2, <3>3, <3>4, <3>6 DEF MissesFollow
    <3> QED
      BY <1>4, <3>5, <3>7 DEF OnceAt
  <2>7. CASE status' # status
    <3>1. /\ Finished(p) /\ jobs' = jobs /\ misses' = misses
          /\ \/ status' = [status EXCEPT ![m] = "sent"]
             \/ /\ task[p].at = "fail" /\ SetStatus(m, "failed")
                /\ cause' = [cause EXCEPT ![m] = task[p].cause]
      BY <2>7 DEF SendEffect, history
    <3>2. \A q \in Sender : ~Active(q, m)'
      BY <2>3, <3>1 DEF Finished, Moved
    <3>3. ~Carried(m)'
      BY <2>1, <3>1, <3>2 DEF Carried, Queueing
    <3>4. LoneCarrier(m)'
      BY <2>1, <3>1, <3>2, <3>3 DEF LoneCarrier
    <3>5. status'[m] = "failed" /\ cause'[m] = "channel" => misses[m] = 2
      BY <2>1, <2>2, <3>1 DEF TypeOK
    <3> QED
      BY <1>4, <2>1, <2>2, <3>1, <3>2, <3>4, <3>5 DEF OnceAt, MissesFollow
  <2> QED
    BY <2>5, <2>6, <2>7
<1> QED
  BY <1>3, <1>4

LEMMA CreateOnce ==
  ASSUME TypeOK, Turns, NEW p \in Sender, NEW m \in Message,
         CreateAndSend(p, m) \/ CreateReminder(p, m), NEW n \in Message, OnceAt(n)
  PROVE  OnceAt(n)'
<1> USE DEF Active, Busy, MaxChannelRetries
<1>1. /\ task[p] = Idle /\ status[m] = "none" /\ status' = [status EXCEPT ![m] = "queued"]
      /\ UNCHANGED <<jobs, call, misses, cause>>
  BY DEF CreateAndSend, CreateReminder, history
<1>2. PICK l \in {"read", "remind"} :
        task' = [task EXCEPT ![p] = [at |-> l, msg |-> m, job |-> Fresh,
                                     owner |-> Nobody, cause |-> "none"]]
  BY DEF CreateAndSend, CreateReminder, Begin
<1>3. /\ task'[p].msg = m /\ task'[p].at = l /\ task'[p].job = Fresh
      /\ \A q \in Sender : q # p => task'[q] = task[q]
  BY <1>2 DEF TypeOK
<1>4. CASE n # m
  BY <1>1, <1>3, <1>4, OnceUntouched DEF Queueing, TypeOK
<1>5. CASE n = m
  <2>1. /\ \A j \in Job : jobs[m][j] = 0
        /\ \A q \in Sender : ~Busy(q, m)
        /\ \A c \in Call : ~Queueing(c, m)
        /\ misses[m] = 0
    BY <1>1 DEF Turns, Unborn, Asking, Queueing, NoCall
  <2>2. status'[m] = "queued" /\ Fresh.attempt = 0
    BY <1>1 DEF TypeOK, Fresh
  <2>3. \A q \in Sender : Active(q, m)' => q = p
    BY <1>3, <2>1
  <2>4. LoneCarrier(m)'
    BY <1>1, <2>1, <2>2 DEF LoneCarrier, Queueing
  <2>5. MissesFollow(m)'
    BY <1>1, <1>3, <2>1, <2>2, <2>3 DEF MissesFollow
  <2> QED
    BY <1>5, <2>4, <2>5 DEF OnceAt
<1> QED
  BY <1>4, <1>5

LEMMA TakeOnce ==
  ASSUME TypeOK, NEW p \in Sender, NEW m \in Message, NEW k \in Job,
         TakeJob(p, m, k), NEW n \in Message, OnceAt(n)
  PROVE  OnceAt(n)'
<1> USE DEF Active, Busy
<1>1. /\ task[p] = Idle /\ jobs[m][k] > 0 /\ jobs' = [jobs EXCEPT ![m][k] = @ - 1]
      /\ UNCHANGED <<status, call, misses, cause>>
  BY DEF TakeJob, Waiting, history
<1>2. task' = [task EXCEPT ![p] = [at |-> "read", msg |-> m, job |-> k,
                                   owner |-> Nobody, cause |-> "none"]]
  BY DEF TakeJob, Begin
<1>3. /\ task'[p].msg = m /\ task'[p].at = "read" /\ task'[p].job = k
      /\ \A q \in Sender : q # p => task'[q] = task[q]
  BY <1>2 DEF TypeOK
<1>4. CASE n # m
  <2>1. jobs'[n] = jobs[n]
    BY <1>1, <1>4 DEF TypeOK
  <2> QED
    BY <1>1, <1>3, <1>4, <2>1, OnceUntouched DEF Queueing
<1>5. CASE n = m
  <2>1. /\ \A q \in Sender : ~Active(q, m)
        /\ \A c \in Call : ~Queueing(c, m)
        /\ status[m] \notin {"failed", "sent"} /\ misses[m] = k.attempt
        /\ jobs[m][k] = 1 /\ \A j \in Job : j # k => ~(jobs[m][j] > 0)
    BY <1>1, <1>5 DEF OnceAt, LoneCarrier, MissesFollow, Carried
  <2>2. \A j \in Job : jobs'[m][j] = 0
    BY <1>1, <2>1 DEF TypeOK
  <2>3. \A q \in Sender : Active(q, m)' => q = p
    BY <1>3, <2>1
  <2>4. LoneCarrier(m)'
    BY <1>1, <2>1, <2>2 DEF LoneCarrier, Queueing
  <2>5. MissesFollow(m)'
    BY <1>1, <1>3, <1>5, <2>1, <2>2, <2>3 DEF OnceAt, MissesFollow, Queueing
  <2> QED
    BY <1>5, <2>4, <2>5 DEF OnceAt
<1> QED
  BY <1>4, <1>5

LEMMA CallerOnce ==
  ASSUME TypeOK, OneWorker, Turns, NEW p \in Sender,
         AddReminder(p) \/ AddReminderFails(p) \/ Acknowledge(p),
         NEW m \in Message, m = task[p].msg, NEW n \in Message, OnceAt(n)
  PROVE  OnceAt(n)'
<1> USE DEF Active, Busy
<1>1. /\ task[p] # Idle /\ UNCHANGED <<status, call, misses, cause>>
      /\ \A q \in Sender : q # p => task'[q] = task[q]
      /\ task'[p] = Idle
  <2>1. CASE Acknowledge(p)
    BY <2>1 DEF Acknowledge, At, history, TypeOK
  <2>2. CASE AddReminder(p) \/ AddReminderFails(p)
    BY <2>2 DEF AddReminder, AddReminderFails, At, End, history, TypeOK, Turns, RemindersAreInline
  <2> QED
    BY <2>1, <2>2
<1>2. CASE jobs'[n] = jobs[n]
  BY <1>1, <1>2, OnceUntouched DEF Queueing
<1>3. CASE jobs'[n] # jobs[n]
  <2>1. AddReminder(p) /\ n = m /\ Active(p, m) /\ task[p].at = "remind"
    BY <1>1, <1>3, JobFacts DEF AddReminder, AddReminderFails, Acknowledge, Add, At, TypeOK
  <2>2. jobs' = [jobs EXCEPT ![m][Fresh] = @ + 1]
    BY <2>1 DEF AddReminder, Add
  <2>3. p \in Inline
    BY <2>1 DEF Turns, RemindersAreInline, Sender
  <2>4. /\ task[p].job = Fresh /\ status[m] \in {"queued", "gone"}
        /\ \A q \in Sender : Busy(q, m) => q = p
    BY <2>1, <2>3 DEF Turns, CreatorAlone
  <2>5. /\ \A j \in Job : jobs[m][j] = 0
        /\ \A c \in Call : ~Queueing(c, m) /\ ~Queueing(c, m)'
        /\ misses[m] = Fresh.attempt
    BY <1>1, <2>1, <2>4 DEF OnceAt, LoneCarrier, MissesFollow, Queueing
  <2>6. \A j \in Job : jobs'[m][j] = IF j = Fresh THEN 1 ELSE 0
    BY <2>2, <2>5 DEF TypeOK
  <2>7. \A q \in Sender : ~Active(q, m)'
    BY <1>1, <2>4
  <2>8. LoneCarrier(m)'
    BY <1>1, <2>4, <2>5, <2>6, <2>7 DEF LoneCarrier
  <2>9. MissesFollow(m)'
    BY <1>1, <2>1, <2>5, <2>6, <2>7 DEF OnceAt, MissesFollow
  <2> QED
    BY <2>1, <2>8, <2>9 DEF OnceAt
<1> QED
  BY <1>2, <1>3

LEMMA RetryOnce ==
  ASSUME TypeOK, RetriesAlone, AskedOfFailed, NEW c \in Call,
         RetryUpdate(c) \/ RetryEnqueue(c) \/ RetryFails(c),
         NEW m \in Message, m = call[c].msg, NEW n \in Message, OnceAt(n)
  PROVE  OnceAt(n)'
<1> USE DEF Active, Busy, MaxChannelRetries
<1>1. /\ call[c] # NoCall /\ UNCHANGED <<task, cause>>
      /\ call[c] = [at |-> call[c].at, msg |-> m]
      /\ \A d \in Call : d # c => call'[d] = call[d] /\ ~Queueing(d, m)
  BY RequestFacts DEF RetryUpdate, RetryEnqueue, RetryFails, history, RetriesAlone, Asking,
                      Queueing, NoCall, TypeOK
<1>2. NoCall # [at |-> "enqueue", msg |-> m] /\ NoCall # [at |-> "enqueue", msg |-> n]
  BY DEF NoCall
<1>3. CASE call'[c] = NoCall /\ UNCHANGED <<status, jobs, misses>>
  BY <1>1, <1>2, <1>3, OnceUntouched DEF Queueing
<1>4. CASE RetryFails(c)
  BY <1>1, <1>3, <1>4 DEF RetryFails, history, TypeOK
<1>5. CASE RetryUpdate(c) /\ ~Exists(m)
  BY <1>1, <1>3, <1>5 DEF RetryUpdate, TypeOK
<1>6. CASE RetryUpdate(c) /\ Exists(m)
  <2>1. /\ jobs' = jobs /\ call[c].at = "update" /\ status' = [status EXCEPT ![m] = "queued"]
        /\ misses' = [misses EXCEPT ![m] = 0]
        /\ call'[c] = [call[c] EXCEPT !.at = "enqueue"]
    BY <1>6 DEF RetryUpdate, TypeOK
  <2>2. call'[c] = [at |-> "enqueue", msg |-> m]
    BY <1>1, <2>1
  <2>3. CASE n # m
    <3>1. status'[n] = status[n] /\ misses'[n] = misses[n] /\ ~Queueing(c, n)'
      BY <2>1, <2>2, <2>3 DEF TypeOK, Queueing
    <3>2. \A d \in Call : Queueing(d, n)' => Queueing(d, n)
      BY <1>1, <3>1 DEF Queueing
    <3> QED
      BY <1>1, <2>1, <3>1, <3>2, OnceUntouched
  <2>4. CASE n = m
    <3>1. status[m] = "failed"
      BY <1>1, <1>6, <2>1 DEF AskedOfFailed, Asking, Exists
    <3>2. ~Carried(m)
      BY <2>4, <3>1 DEF OnceAt, LoneCarrier
    <3>3. (\A p \in Sender : ~Active(p, m)') /\ \A j \in Job : jobs'[m][j] = 0
      BY <1>1, <2>1, <3>2 DEF Carried, TypeOK
    <3>4. status'[m] = "queued" /\ misses'[m] = 0
      BY <2>1 DEF TypeOK
    <3>5. LoneCarrier(m)' /\ MissesFollow(m)'
      BY <3>3, <3>4 DEF LoneCarrier, MissesFollow
    <3> QED
      BY <2>4, <3>5 DEF OnceAt
  <2> QED
    BY <2>3, <2>4
<1>7. CASE RetryEnqueue(c)
  <2>1. /\ call[c] = [at |-> "enqueue", msg |-> m] /\ call'[c] = NoCall
        /\ UNCHANGED <<status, misses>> /\ jobs' = [jobs EXCEPT ![m][Fresh] = @ + 1]
    BY <1>1, <1>7 DEF RetryEnqueue, Add, TypeOK, history
  <2>2. \A d \in Call : ~Queueing(d, m)' /\ (Queueing(d, n)' => Queueing(d, n))
    BY <1>1, <1>2, <2>1 DEF Queueing
  <2>3. CASE n # m
    <3>1. jobs'[n] = jobs[n]
      BY <2>1, <2>3 DEF TypeOK
    <3> QED
      BY <1>1, <2>1, <2>2, <3>1, OnceUntouched
  <2>4. CASE n = m
    <3>1. /\ \A j \in Job : jobs[m][j] = 0
          /\ \A p \in Sender : ~Active(p, m) /\ ~Active(p, m)'
          /\ status[m] \notin {"failed", "sent"} /\ misses[m] = 0
      BY <1>1, <2>1, <2>4 DEF OnceAt, LoneCarrier, MissesFollow, Carried, Queueing
    <3>2. /\ \A j \in Job : jobs'[m][j] = IF j = Fresh THEN 1 ELSE 0
          /\ Fresh.attempt = 0
      <4>1. \A j \in Job : jobs'[m][j] = IF j = Fresh THEN 1 ELSE 0
        BY <2>1, <3>1, JobFacts DEF TypeOK
      <4>2. Fresh.attempt = 0
        BY DEF Fresh
      <4> QED
        BY <4>1, <4>2
    <3>3. LoneCarrier(m)'
      BY <2>1, <2>2, <3>1, <3>2 DEF LoneCarrier
    <3>4. MissesFollow(m)'
      BY <2>1, <2>2, <3>1, <3>2 DEF MissesFollow
    <3> QED
      BY <2>4, <3>3, <3>4 DEF OnceAt
  <2> QED
    BY <2>3, <2>4
<1> QED
  BY <1>4, <1>5, <1>6, <1>7

LEMMA RestOnce ==
  ASSUME TypeOK, crashes' = 0, NEW n \in Message, OnceAt(n),
         \/ \E c \in Call, m \in Message : RetryCheck(c, m)
         \/ Environment \/ CrashWorker \/ CrashApi \/ UNCHANGED vars
  PROVE  OnceAt(n)'
<1>1. ASSUME NEW c \in Call, NEW m \in Message, RetryCheck(c, m) PROVE OnceAt(n)'
  <2>1. \A d \in Call : Queueing(d, n)' => Queueing(d, n)
    BY <1>1 DEF RetryCheck, Queueing, TypeOK
  <2> QED
    BY <1>1, <2>1, OnceUntouched DEF RetryCheck, history, Active, Busy
<1>2. CASE Environment \/ UNCHANGED vars
  <2>1. /\ UNCHANGED <<jobs, task, call, misses, cause>>
        /\ status'[n] = status[n] \/ status'[n] = "gone"
    BY <1>2 DEF Environment, DeleteLead, Reassign, ChannelChange, vars, history, TypeOK
  <2> QED
    BY <2>1, OnceUntouched DEF Active, Busy, Queueing
<1>3. ~(CrashWorker \/ CrashApi)
  BY DEF CrashWorker, CrashApi, TypeOK
<1> QED
  BY <1>1, <1>2, <1>3

LEMMA NextOnce ==
  ASSUME TypeOK, OneWorker, RetriesAlone, Turns, AskedOfFailed, Once, [Next]_vars
  PROVE  Once'
<1> SUFFICES ASSUME crashes' = 0, NEW n \in Message PROVE OnceAt(n)'
  BY DEF Once
<1>1. OnceAt(n)
  <2>1. crashes' = crashes \/ CrashWorker \/ CrashApi
    BY NextCases, SendHasEffect, SendFrame
       DEF AddReminder, AddReminderFails, Acknowledge, CreateAndSend, CreateReminder, TakeJob,
           RetryUpdate, RetryEnqueue, RetryFails, RetryCheck, Environment, DeleteLead, Reassign,
           ChannelChange, budgets, vars
  <2> QED
    BY <2>1 DEF Once, CrashWorker, CrashApi, TypeOK
<1>2. ASSUME NEW p \in Sender, Send(p) PROVE OnceAt(n)'
  BY <1>1, <1>2, SendHasEffect, SendFrame, SendOnce
<1>3. ASSUME NEW p \in Sender, AddReminder(p) \/ AddReminderFails(p) \/ Acknowledge(p)
      PROVE  OnceAt(n)'
  <2>1. task[p].msg \in Message
    BY <1>3, TaskFacts DEF AddReminder, AddReminderFails, Acknowledge, At
  <2> QED
    BY <1>1, <1>3, <2>1, CallerOnce
<1>4. ASSUME NEW c \in Call, RetryUpdate(c) \/ RetryEnqueue(c) \/ RetryFails(c) PROVE OnceAt(n)'
  <2>1. call[c].msg \in Message
    BY <1>4, RequestFacts DEF RetryUpdate, RetryEnqueue, RetryFails
  <2> QED
    BY <1>1, <1>4, <2>1, RetryOnce
<1> QED
  BY <1>1, <1>2, <1>3, <1>4, NextCases, CreateOnce, TakeOnce, RestOnce

(* While a user retries a message once at a time, a request that has passed *)
(* its check asks for a message that is still failed: retryMessage.         *)
THEOREM RequestsAskOfFailed ==
  ASSUME OneWorker
  PROVE  Spec /\ []RetriesAlone => []AskedOfFailed
<1>1. Init => AskedOfFailed
  BY DEF Init, AskedOfFailed, Asking
<1>2. TypeOK /\ Turns /\ RetriesAlone /\ AskedOfFailed /\ [Next]_vars => AskedOfFailed'
  BY SendHasEffect, SendAsked, RestAsked
<1> QED
  BY <1>1, <1>2, DeliveryTypeCorrect, SendersTakeTurns, PTL DEF Spec

(* Every send is asked for and every queued message has its send, a channel *)
(* that is missing being looked for once more: with one worker and one      *)
(* retryMessage request at a time for a message.                            *)
THEOREM SendsAccountedFor ==
  ASSUME OneWorker, IsFiniteSet(Call)
  PROVE  Spec /\ []RetriesAlone => []SendsAreAccountedFor
<1>1. Init => Once
  <2> SUFFICES ASSUME Init, NEW m \in Message PROVE OnceAt(m)
    BY DEF Once
  <2>1. /\ \A j \in Job : ~(jobs[m][j] > 0)
        /\ \A p \in Sender : ~Active(p, m)
        /\ \A c \in Call : ~Queueing(c, m)
        /\ status[m] = "none" /\ misses[m] = 0
    BY DEF Init, Active, Busy, Queueing, NoCall
  <2> QED
    BY <2>1 DEF Init, OnceAt, LoneCarrier, MissesFollow, MaxChannelRetries
<1>2. TypeOK /\ RetriesAlone /\ Turns /\ AskedOfFailed /\ Once /\ [Next]_vars => Once'
  BY NextOnce
<1>3. Once => ChannelRetriedOnce
  BY DEF Once, OnceAt, MissesFollow, ChannelRetriedOnce
<1>4. Spec => []DeliveriesAreGranted
  BY DeliveriesAreBounded
<1>5. Spec => []QueuedIsCarried /\ []OnlyQueuedIsPosted
  BY NothingQueuedIsLost, PostedIsQueued, PTL
<1>6. OnlyQueuedIsPosted /\ DeliveriesAreGranted /\ QueuedIsCarried /\ ChannelRetriedOnce
        => SendsAreAccountedFor
  BY DEF SendsAreAccountedFor
<1> QED
  BY <1>1, <1>2, <1>3, <1>4, <1>5, <1>6, DeliveryTypeCorrect, SendersTakeTurns,
     RequestsAskOfFailed, PTL DEF Spec

-----------------------------------------------------------------------------
(* The messages implement the outbox *)

StepsAllowed == [Outbox!OutboxNext]_(Outbox!outboxVars)

LEMMA SettleOrStay ==
  ASSUME \/ UNCHANGED <<status, delivered>>
         \/ \E m \in Message :
              \/ Outbox!Move(m, "none", "queued") \/ Outbox!Hand(m) \/ Outbox!Settle(m)
              \/ Outbox!Move(m, "failed", "queued") \/ Outbox!Drop(m)
  PROVE  StepsAllowed
BY DEF StepsAllowed, Outbox!OutboxNext, Outbox!outboxVars

LEMMA SendImplements ==
  ASSUME TypeOK, Turns, NEW p \in Sender, SendEffect(p)
  PROVE  StepsAllowed
<1> DEFINE m == task[p].msg
<1>1. task[p] # Idle /\ m \in Message /\ status \in [Message -> Status] /\ delivered \in [Message -> Nat]
  BY SendFrame DEF TypeOK
<1>2. Sending(p, m) => status[m] \in {"queued", "gone"}
  BY <1>1 DEF Turns, SendersSeeQueued
<1>3. CASE UNCHANGED <<status, delivered>>
  BY <1>3, SettleOrStay
<1>4. CASE task[p].at = "post"
  <2>1. status' = status /\ delivered' \in {delivered, [delivered EXCEPT ![m] = @ + 1]}
    BY <1>4 DEF SendEffect
  <2>2. status[m] \in {"queued", "gone"}
    BY <1>1, <1>2, <1>4 DEF Sending, Busy
  <2> QED
    BY <1>1, <2>1, <2>2, SettleOrStay DEF Outbox!Hand
<1>5. CASE task[p].at = "record" /\ status' # status
  <2>1. Exists(m) /\ status' = [status EXCEPT ![m] = "sent"] /\ delivered' = delivered
    BY <1>5 DEF SendEffect, history
  <2>2. status[m] = "queued" /\ delivered[m] > 0
    BY <1>1, <1>2, <1>5, <2>1 DEF Sending, Busy, Exists, Turns, HandedIsRecorded
  <2> QED
    BY <1>1, <2>1, <2>2, SettleOrStay DEF Outbox!Settle, Outbox!Move
<1>6. CASE task[p].at = "fail" /\ status' # status
  <2>1. SetStatus(m, "failed") /\ delivered' = delivered
    BY <1>6 DEF SendEffect
  <2>2. status[m] = "queued" /\ status' = [status EXCEPT ![m] = "failed"]
    BY <1>1, <1>2, <1>6, <2>1 DEF Sending, Busy, Exists, SetStatus
  <2> QED
    BY <1>1, <2>1, <2>2, SettleOrStay DEF Outbox!Settle, Outbox!Move
<1> QED
  BY <1>3, <1>4, <1>5, <1>6 DEF SendEffect, history

LEMMA NextImplements ==
  ASSUME TypeOK, Turns, AskedOfFailed, [Next]_vars
  PROVE  StepsAllowed
<1>1. CASE UNCHANGED <<status, delivered>>
  BY <1>1, SettleOrStay
<1>2. ASSUME NEW p \in Sender, Send(p) PROVE StepsAllowed
  BY <1>2, SendHasEffect, SendImplements
<1>3. ASSUME NEW p \in Sender, AddReminder(p) \/ AddReminderFails(p) \/ Acknowledge(p)
      PROVE  StepsAllowed
  BY <1>1, <1>3 DEF AddReminder, AddReminderFails, Acknowledge, history
<1>4. ASSUME NEW p \in Sender, NEW m \in Message, CreateAndSend(p, m) \/ CreateReminder(p, m)
      PROVE  StepsAllowed
  <2>1. Outbox!Move(m, "none", "queued")
    BY <1>4 DEF CreateAndSend, CreateReminder, history, Outbox!Move
  <2> QED
    BY <2>1, SettleOrStay
<1>5. ASSUME NEW p \in Sender, NEW m \in Message, NEW j \in Job, TakeJob(p, m, j)
      PROVE  StepsAllowed
  BY <1>1, <1>5 DEF TakeJob, history
<1>6. ASSUME NEW c \in Call, RetryUpdate(c) PROVE StepsAllowed
  <2>1. CASE ~Exists(call[c].msg)
    BY <1>1, <1>6, <2>1 DEF RetryUpdate
  <2>2. CASE Exists(call[c].msg)
    <3>1. call[c].msg \in Message
      BY <1>6, RequestFacts DEF RetryUpdate
    <3>2. status[call[c].msg] = "failed"
      BY <1>6, <2>2, <3>1 DEF RetryUpdate, AskedOfFailed, Asking, Exists
    <3>3. Outbox!Move(call[c].msg, "failed", "queued")
      BY <1>6, <2>2, <3>2 DEF RetryUpdate, Outbox!Move
    <3> QED
      BY <3>1, <3>3, SettleOrStay
  <2> QED
    BY <2>1, <2>2
<1>7. ASSUME NEW c \in Call, RetryEnqueue(c) \/ RetryFails(c) PROVE StepsAllowed
  BY <1>1, <1>7 DEF RetryEnqueue, RetryFails, history
<1>8. ASSUME NEW c \in Call, NEW m \in Message, RetryCheck(c, m) PROVE StepsAllowed
  BY <1>1, <1>8 DEF RetryCheck, history
<1>9. CASE Environment
  <2>1. ASSUME NEW m \in Message, DeleteLead(m) PROVE StepsAllowed
    BY <2>1, SettleOrStay DEF DeleteLead, Outbox!Drop, history
  <2> QED
    BY <1>1, <1>9, <2>1 DEF Environment, Reassign, ChannelChange, history
<1>10. CASE CrashWorker \/ CrashApi \/ UNCHANGED vars
  BY <1>1, <1>10 DEF CrashWorker, CrashApi, vars, history
<1> QED
  BY <1>2, <1>3, <1>4, <1>5, <1>6, <1>7, <1>8, <1>9, <1>10, NextCases

(* What the user sees of a message is the outbox: handed over only while    *)
(* queued, "sent" only after it was handed over and for good, queued again  *)
(* only when failed; whatever jobs, workers, channels and crashes do.       *)
THEOREM DeliveryImplementsOutbox ==
  ASSUME OneWorker
  PROVE  Spec /\ []RetriesAlone => ImplementsOutbox
<1>1. Init => Outbox!OutboxInit
  BY DEF Init, Outbox!OutboxInit
<1>2. TypeOK /\ Turns /\ AskedOfFailed /\ [Next]_vars => [Outbox!OutboxNext]_(Outbox!outboxVars)
  BY NextImplements DEF StepsAllowed
<1> QED
  BY <1>1, <1>2, DeliveryTypeCorrect, SendersTakeTurns, RequestsAskOfFailed, PTL
     DEF Spec, ImplementsOutbox, Outbox!OutboxSpec
=============================================================================
