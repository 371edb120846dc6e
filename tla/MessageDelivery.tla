-------------------------- MODULE MessageDelivery --------------------------
(***************************************************************************)
(* Outbound messages of the worker: MessageSenderService.sendQueuedMessage *)
(* and its callers.  A rule action, the AI or a follow-up creates a row    *)
(* with status "queued" and sends it itself; a visit reminder and the      *)
(* API's retryMessage leave that to a message.retry job; an assigned       *)
(* agent's channel that is not connected puts the message into such a job  *)
(* once.  The jobs are taken by the one processor of the queue.            *)
(*                                                                         *)
(* A sender works on the message and the lead as it read them, on a        *)
(* channel as it found it: each await between them is a step.              *)
(***************************************************************************)
EXTENDS Integers

CONSTANTS
  Message,      \* identifiers of outbound messages
  Sendable,     \* those of channel WHATSAPP or TELEGRAM
  Addressed,    \* those whose lead has a number (bot token) to send to
  Agent,        \* agents; each has at most one channel of a type
  Provisioned,  \* agents whose channel has a provider instance (chat id)
  Nobody,       \* the assignee of an unassigned lead
  Inline,       \* callers that create a message and send it themselves
  Processor,    \* processors of the "message" queue
  Call,         \* retryMessage requests in progress
  FaultPoints,  \* statements at which the database or Redis may fail
  MaxFaults,    \* bound: failures at those statements
  MaxCrashes,   \* bound: crashes of the worker or the API
  MaxRetries    \* bound: accepted retries of one message

ASSUME DeliveryAssumption ==
  /\ Sendable \subseteq Message /\ Addressed \subseteq Message
  /\ Provisioned \subseteq Agent /\ Nobody \notin Agent
  /\ Inline \cap Processor = {}
  /\ FaultPoints \subseteq {"enqueue", "record", "fail", "request"}
  /\ MaxFaults \in Nat /\ MaxCrashes \in Nat /\ MaxRetries \in Nat

(* MAX_CHANNEL_RETRIES *)
MaxChannelRetries == 1

VARIABLES
  status,     \* the row's status; "none" before it exists, "gone" after delete
  owner,      \* the assignee of the message's lead
  connected,  \* agents whose channel is CONNECTED
  jobs,       \* message.retry jobs waiting, of each kind
  task,       \* per inline caller or processor, the send in progress
  call,       \* per API request, the statement it is at
  delivered,  \* history: times the provider accepted the message
  misses,     \* history: times the agent's channel was down since last queued
  cause,      \* history: why the message was last marked failed
  retries,    \* history: accepted retries
  faults, crashes

history == <<delivered, misses, cause>>
budgets == <<faults, crashes>>
vars == <<status, owner, connected, jobs, task, call, history, retries, budgets>>

Sender == Inline \cup Processor
Owner == Agent \cup {Nobody}
Status == {"none", "queued", "sent", "failed", "gone"}
Cause == {"none", "address", "channel", "provider", "error"}

(* retryAttempt, and whether BullMQ has already had to hand the job out     *)
(* again: a job whose worker died is given to another once.                 *)
Job == [attempt : 0..MaxChannelRetries, stalled : BOOLEAN]

Idle == [at |-> "idle"]
Task == [at : {"remind", "read", "channel", "post", "record", "fail", "ack"},
         msg : Message, job : Job, owner : Owner, cause : Cause]

NoCall == [at |-> "none"]
Request == [at : {"update", "enqueue"}, msg : Message]

-----------------------------------------------------------------------------
(* Helpers *)

Exists(m) == status[m] \notin {"none", "gone"}

Fresh == [attempt |-> 0, stalled |-> FALSE]

At(p, label) == task[p] # Idle /\ task[p].at = label

(* The send ends: an inline caller goes on with its own work, a processor   *)
(* has still to report the job as completed (or failed: attempts is 1).     *)
End(p) == task' = [task EXCEPT ![p] = IF p \in Processor
                                      THEN [@ EXCEPT !.at = "ack"] ELSE Idle]

Goto(p, label) == task' = [task EXCEPT ![p].at = label]

FailWith(p, why) ==
  task' = [task EXCEPT ![p] = [@ EXCEPT !.at = "fail", !.cause = why]]

Add(m, j) == jobs' = [jobs EXCEPT ![m][j] = @ + 1]

(* The job RetryLater leaves: the next attempt, in three minutes. *)
AddDelayed_Forgotten(m, j) == UNCHANGED jobs
AddDelayed(m, j) == Add(m, [attempt |-> j.attempt + 1, stalled |-> FALSE])

Waiting_Assumed(m, j) == TRUE
Waiting(m, j) == jobs[m][j] > 0

SetStatus(m, s) == status' = IF Exists(m) THEN [status EXCEPT ![m] = s] ELSE status

Fault(point) == /\ point \in FaultPoints /\ faults < MaxFaults
                /\ faults' = faults + 1

(* retryAttempt < MAX_CHANNEL_RETRIES *)
MayRetry_Never(j) == FALSE
MayRetry(j) == j.attempt < MaxChannelRetries

(* message.status !== "queued" *)
Skips_OnlyFailed(m) == status[m] \notin {"queued", "sent"}
Skips(m) == status[m] # "queued"

(* Where a send goes when the assigned agent's channel is not connected: a  *)
(* lead without an assignee, and only that, uses any connected channel.     *)
Candidates(o) == IF o = Nobody THEN connected ELSE {o} \cap connected

-----------------------------------------------------------------------------
Init ==
  /\ status = [m \in Message |-> "none"]
  /\ owner \in [Message -> Owner]
  /\ connected \in SUBSET Agent
  /\ jobs = [m \in Message |-> [j \in Job |-> 0]]
  /\ task = [p \in Sender |-> Idle]
  /\ call = [c \in Call |-> NoCall]
  /\ delivered = [m \in Message |-> 0]
  /\ misses = [m \in Message |-> 0]
  /\ cause = [m \in Message |-> "none"]
  /\ retries = [m \in Message |-> 0]
  /\ faults = 0 /\ crashes = 0

-----------------------------------------------------------------------------
(* Callers in the worker *)

Begin(p, m, label, j) ==
  task' = [task EXCEPT ![p] = [at |-> label, msg |-> m, job |-> j,
                               owner |-> Nobody, cause |-> "none"]]

(* actionSendTemplate, actionSendAiMessage, handleAiAutoReply, follow-ups. *)
CreateAndSend(p, m) ==
  /\ p \in Inline /\ task[p] = Idle /\ status[m] = "none"
  /\ status' = [status EXCEPT ![m] = "queued"]
  /\ Begin(p, m, "read", Fresh)
  /\ UNCHANGED <<owner, connected, jobs, call, history, retries, budgets>>

(* The visit reminder creates the row, then adds the job. *)
CreateReminder(p, m) ==
  /\ p \in Inline /\ task[p] = Idle /\ status[m] = "none"
  /\ status' = [status EXCEPT ![m] = "queued"]
  /\ Begin(p, m, "remind", Fresh)
  /\ UNCHANGED <<owner, connected, jobs, call, history, retries, budgets>>

AddReminder(p) ==
  /\ At(p, "remind")
  /\ Add(task[p].msg, Fresh)
  /\ End(p)
  /\ UNCHANGED <<status, owner, connected, call, history, retries, budgets>>

(* Redis refuses the job: the scheduler logs a warning and goes on. *)
AddReminderFails(p) ==
  /\ At(p, "remind")
  /\ Fault("enqueue")
  /\ End(p)
  /\ UNCHANGED <<status, owner, connected, jobs, call, history, retries, crashes>>

(* MessageProcessor: one message.retry job. *)
TakeJob(p, m, j) ==
  /\ p \in Processor /\ task[p] = Idle /\ Waiting(m, j)
  /\ jobs' = [jobs EXCEPT ![m][j] = @ - 1]
  /\ Begin(p, m, "read", j)
  /\ UNCHANGED <<status, owner, connected, call, history, retries, budgets>>

(* The job is reported and leaves Redis. *)
Acknowledge(p) ==
  /\ At(p, "ack")
  /\ task' = [task EXCEPT ![p] = Idle]
  /\ UNCHANGED <<status, owner, connected, jobs, call, history, retries, budgets>>

-----------------------------------------------------------------------------
(* sendQueuedMessage *)

(* findUnique with the lead: not found, not queued, or no sender for the    *)
(* channel end the send and change nothing; no number marks it failed.      *)
Read(p) ==
  /\ At(p, "read")
  /\ LET m == task[p].msg
     IN  IF Skips(m) \/ m \notin Sendable THEN End(p)
         ELSE IF m \notin Addressed THEN FailWith(p, "address")
         ELSE task' = [task EXCEPT ![p] = [@ EXCEPT !.at = "channel",
                                                    !.owner = owner[m]]]
  /\ UNCHANGED <<status, owner, connected, jobs, call, history, retries, budgets>>

(* The channel of the assignee read before, or any connected one. *)
FindChannel(p) ==
  /\ At(p, "channel")
  /\ \E a \in Candidates(task[p].owner) :
       IF a \in Provisioned
       THEN task' = [task EXCEPT ![p] = [@ EXCEPT !.at = "post", !.owner = a]]
       ELSE FailWith(p, "address")
  /\ UNCHANGED <<status, owner, connected, jobs, call, history, retries, budgets>>

(* An assigned agent's channel is down: once more in three minutes. *)
RetryLater(p) ==
  /\ At(p, "channel") /\ task[p].owner # Nobody
  /\ Candidates(task[p].owner) = {} /\ MayRetry(task[p].job)
  /\ AddDelayed(task[p].msg, task[p].job)
  /\ misses' = [misses EXCEPT ![task[p].msg] = @ + 1]
  /\ End(p)
  /\ UNCHANGED <<status, owner, connected, call, delivered, cause, retries, budgets>>

(* Redis refuses the job: the exception marks the message failed. *)
RetryLaterFails(p) ==
  /\ At(p, "channel") /\ task[p].owner # Nobody
  /\ Candidates(task[p].owner) = {} /\ MayRetry(task[p].job)
  /\ Fault("enqueue")
  /\ FailWith(p, "error")
  /\ UNCHANGED <<status, owner, connected, jobs, call, history, retries, crashes>>

(* No channel and no retry left, or none connected for an unassigned lead. *)
NoChannel(p) ==
  /\ At(p, "channel") /\ Candidates(task[p].owner) = {}
  /\ \/ /\ task[p].owner = Nobody
        /\ FailWith(p, "address") /\ UNCHANGED misses
     \/ /\ task[p].owner # Nobody /\ ~MayRetry(task[p].job)
        /\ FailWith(p, "channel")
        /\ misses' = [misses EXCEPT ![task[p].msg] = @ + 1]
  /\ UNCHANGED <<status, owner, connected, jobs, call, delivered, cause, retries, budgets>>

(* The request to the provider: accepted; refused; or accepted, and the     *)
(* answer not seen within 15 seconds.                                       *)
Answered_Again(p, ok) == IF ok THEN Goto(p, "record") ELSE UNCHANGED task
Answered(p, ok) == IF ok THEN Goto(p, "record") ELSE FailWith(p, "provider")

Post(p) ==
  /\ At(p, "post")
  /\ \E accepted, answered \in BOOLEAN :
       /\ delivered' = IF accepted THEN [delivered EXCEPT ![task[p].msg] = @ + 1]
                       ELSE delivered
       /\ Answered(p, accepted /\ answered)
  /\ UNCHANGED <<status, owner, connected, jobs, call, misses, cause, retries, budgets>>

(* status "sent"; an update of a deleted row throws. *)
Record(p) ==
  /\ At(p, "record")
  /\ SetStatus(task[p].msg, "sent")
  /\ IF Exists(task[p].msg) THEN End(p) ELSE FailWith(p, "error")
  /\ UNCHANGED <<owner, connected, jobs, call, history, retries, budgets>>

RecordFails(p) ==
  /\ At(p, "record")
  /\ Fault("record")
  /\ FailWith(p, "error")
  /\ UNCHANGED <<status, owner, connected, jobs, call, history, retries, crashes>>

(* markFailed, unconditional on the status; of a deleted row it throws, as  *)
(* often as it is called, and the exception ends the send.                  *)
MarkFailed_KeepsStatus(p) ==
  /\ At(p, "fail")
  /\ cause' = [cause EXCEPT ![task[p].msg] = task[p].cause]
  /\ End(p)
  /\ UNCHANGED <<status, owner, connected, jobs, call, delivered, misses, retries, budgets>>
MarkFailed(p) ==
  /\ At(p, "fail")
  /\ SetStatus(task[p].msg, "failed")
  /\ cause' = [cause EXCEPT ![task[p].msg] = task[p].cause]
  /\ End(p)
  /\ UNCHANGED <<owner, connected, jobs, call, delivered, misses, retries, budgets>>

(* A markFailed that fails before the request is sent is caught, and the    *)
(* message is marked again; one that fails in the catch ends the send.      *)
MarkFails(p) ==
  /\ At(p, "fail")
  /\ Fault("fail")
  /\ IF task[p].cause \in {"address", "channel"} THEN FailWith(p, "error") ELSE End(p)
  /\ UNCHANGED <<status, owner, connected, jobs, call, history, retries, crashes>>

Send(p) ==
  \/ Read(p) \/ FindChannel(p) \/ RetryLater(p) \/ RetryLaterFails(p)
  \/ NoChannel(p) \/ Post(p) \/ Record(p) \/ RecordFails(p)
  \/ MarkFailed(p) \/ MarkFails(p)

-----------------------------------------------------------------------------
(* MessagesService.retryMessage *)

RetryCheck_AnyStatus(c, m) ==
  /\ call[c] = NoCall /\ Exists(m) /\ retries[m] < MaxRetries
  /\ call' = [call EXCEPT ![c] = [at |-> "update", msg |-> m]]
  /\ UNCHANGED <<status, owner, connected, jobs, task, history, retries, budgets>>
RetryCheck(c, m) ==
  /\ call[c] = NoCall /\ status[m] = "failed" /\ retries[m] < MaxRetries
  /\ call' = [call EXCEPT ![c] = [at |-> "update", msg |-> m]]
  /\ UNCHANGED <<status, owner, connected, jobs, task, history, retries, budgets>>

(* status "queued", by id; of a deleted row it throws. *)
RetryUpdate(c) ==
  /\ call[c] # NoCall /\ call[c].at = "update"
  /\ LET m == call[c].msg
     IN  IF Exists(m)
         THEN /\ status' = [status EXCEPT ![m] = "queued"]
              /\ retries' = [retries EXCEPT ![m] = @ + 1]
              /\ misses' = [misses EXCEPT ![m] = 0]
              /\ call' = [call EXCEPT ![c].at = "enqueue"]
         ELSE /\ call' = [call EXCEPT ![c] = NoCall]
              /\ UNCHANGED <<status, retries, misses>>
  /\ UNCHANGED <<owner, connected, jobs, task, delivered, cause, budgets>>

RetryEnqueue(c) ==
  /\ call[c] # NoCall /\ call[c].at = "enqueue"
  /\ Add(call[c].msg, Fresh)
  /\ call' = [call EXCEPT ![c] = NoCall]
  /\ UNCHANGED <<status, owner, connected, task, history, retries, budgets>>

(* The database or Redis fails: the request ends with an error. *)
RetryFails(c) ==
  /\ call[c] # NoCall
  /\ Fault("request")
  /\ call' = [call EXCEPT ![c] = NoCall]
  /\ UNCHANGED <<status, owner, connected, jobs, task, history, retries, crashes>>

Retry(c) == RetryUpdate(c) \/ RetryEnqueue(c) \/ RetryFails(c)

-----------------------------------------------------------------------------
(* The environment *)

Reassign(m, o) ==
  /\ owner[m] # o
  /\ owner' = [owner EXCEPT ![m] = o]
  /\ UNCHANGED <<status, connected, jobs, task, call, history, retries, budgets>>

ChannelChange(a) ==
  /\ connected' = (connected \ {a}) \cup ({a} \ connected)
  /\ UNCHANGED <<status, owner, jobs, task, call, history, retries, budgets>>

DeleteLead(m) ==
  /\ Exists(m)
  /\ status' = [status EXCEPT ![m] = "gone"]
  /\ UNCHANGED <<owner, connected, jobs, task, call, history, retries, budgets>>

(* Jobs that BullMQ gives to the worker again: active when it stopped, and  *)
(* not for the second time.                                                 *)
Stalled(m, j) == {p \in Processor : /\ task[p] # Idle /\ task[p].msg = m
                                    /\ ~task[p].job.stalled
                                    /\ j = [task[p].job EXCEPT !.stalled = TRUE]}

CrashWorker ==
  /\ crashes < MaxCrashes /\ crashes' = crashes + 1
  /\ jobs' = [m \in Message |-> [j \in Job |->
                IF Stalled(m, j) = {} THEN jobs[m][j] ELSE jobs[m][j] + 1]]
  /\ task' = [p \in Sender |-> Idle]
  /\ UNCHANGED <<status, owner, connected, call, history, retries, faults>>

CrashApi ==
  /\ crashes < MaxCrashes /\ crashes' = crashes + 1
  /\ call' = [c \in Call |-> NoCall]
  /\ UNCHANGED <<status, owner, connected, jobs, task, history, retries, faults>>

-----------------------------------------------------------------------------
Next ==
  \/ \E p \in Sender :
       \/ \E m \in Message : \/ CreateAndSend(p, m) \/ CreateReminder(p, m)
                             \/ \E j \in Job : TakeJob(p, m, j)
       \/ AddReminder(p) \/ AddReminderFails(p) \/ Send(p) \/ Acknowledge(p)
  \/ \E c \in Call : Retry(c) \/ \E m \in Message : RetryCheck(c, m)
  \/ \E m \in Message : DeleteLead(m) \/ \E o \in Owner : Reassign(m, o)
  \/ \E a \in Agent : ChannelChange(a)
  \/ CrashWorker \/ CrashApi

Spec == Init /\ [][Next]_vars

(* Senders, the processor and requests wait for the database, Redis, the    *)
(* provider (15 seconds at most) and timers only; BullMQ hands out every    *)
(* job whose delay is over.                                                 *)
FairSpec ==
  /\ Spec
  /\ \A p \in Sender : WF_vars(AddReminder(p) \/ Send(p) \/ Acknowledge(p))
  /\ \A p \in Processor :
       WF_vars(\E m \in Message, j \in Job : TakeJob(p, m, j))
  /\ \A c \in Call : WF_vars(Retry(c))

-----------------------------------------------------------------------------
(* Properties *)

(* The state has its shape. *)
TypeOK ==
  /\ status \in [Message -> Status]
  /\ owner \in [Message -> Owner]
  /\ connected \in SUBSET Agent
  /\ jobs \in [Message -> [Job -> Nat]]
  /\ task \in [Sender -> Task \cup {Idle}]
  /\ call \in [Call -> Request \cup {NoCall}]
  /\ delivered \in [Message -> Nat] /\ misses \in [Message -> Nat]
  /\ cause \in [Message -> Cause]
  /\ retries \in [Message -> Nat]
  /\ faults \in Nat /\ crashes \in Nat

(* The sends, jobs and requests that will still look at the message. *)
Carried(m) ==
  \/ \E p \in Sender : task[p] # Idle /\ task[p].msg = m /\ task[p].at # "ack"
  \/ \E j \in Job : jobs[m][j] > 0
  \/ \E c \in Call : call[c] = [at |-> "enqueue", msg |-> m]

NothingFailed == crashes = 0 /\ faults = 0

(* Without a crash or a failure, a queued message is never left behind:    *)
(* somebody is sending it or there is a job for it.                        *)
QueuedIsCarried ==
  NothingFailed =>
    \A m \in Sendable : status[m] = "queued" => Carried(m)

(* The provider is asked to send a message only while the row is queued: a *)
(* message that shows "sent" or "failed" is not being sent behind it.      *)
OnlyQueuedIsPosted ==
  \A p \in Sender : At(p, "post") => status[task[p].msg] \in {"queued", "gone"}

(* "Retries once after 3 minutes": a message fails for want of its agent's *)
(* channel only after two looks since it was queued, and never a third     *)
(* (a job that a crash interrupted starts again).                          *)
ChannelRetriedOnce ==
  \A m \in Message : crashes = 0 =>
    /\ status[m] = "failed" /\ cause[m] = "channel" =>
         misses[m] = MaxChannelRetries + 1
    /\ misses[m] <= MaxChannelRetries + 1

(* Every send of a message is paid for by its creation, an accepted retry  *)
(* or a job that a crash interrupted.                                      *)
DeliveriesAreGranted ==
  \A m \in Message : delivered[m] <= 1 + retries[m] + crashes

(* The messages implement the outbox the user sees. *)
Outbox == INSTANCE MessageOutbox WITH shown <- status, handed <- delivered
ImplementsOutbox == Outbox!OutboxSpec

(* A queued message ends up sent, failed or deleted, whatever channels and *)
(* assignees do, unless a crash or a failure left it without a job.        *)
QueuedIsSettled ==
  \A m \in Sendable :
    status[m] = "queued" ~> status[m] # "queued" \/ ~NothingFailed

(* Every send is asked for, by a row that says queued and a decision that  *)
(* granted it, and every queued row has its send, the channel that is      *)
(* missing being looked for once more (OnlyQueuedIsPosted,                 *)
(* DeliveriesAreGranted, QueuedIsCarried, ChannelRetriedOnce).             *)
SendsAreAccountedFor ==
  OnlyQueuedIsPosted /\ DeliveriesAreGranted /\ QueuedIsCarried /\ ChannelRetriedOnce
=============================================================================
