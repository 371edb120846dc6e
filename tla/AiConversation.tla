--------------------------- MODULE AiConversation ---------------------------
(***************************************************************************)
(* The AI that talks to one lead (RuleEngineService.handleAiAutoReply and  *)
(* actionSendAiMessage, MessageProcessor) and the agents who take over     *)
(* from it (MessagesService.send, LeadsService.update).                    *)
(*                                                                         *)
(* The reply works on the lead it read before it asked the AI provider and *)
(* sent the message, seconds ago; an agent's send works on the lead it     *)
(* read before its own message went out.  Each await is a step.  Delivery  *)
(* of the messages is in MessageDelivery.                                  *)
(***************************************************************************)
EXTENDS Naturals, Sequences, FiniteSets

CONSTANTS
  Inbound,      \* messages of the lead, each a message.inbound job
  Starter,      \* other jobs whose rules can run send_ai_message
  Agent,        \* requests of the CRM's users in progress
  Given,        \* bound: the statuses users and rules set
  MaxAttempts,  \* attempts of a job (event-producer.service)
  MaxMoves,     \* bound: sends and updates of users, rule actions
  MaxFailures   \* bound: statements that throw and ends of the worker

Order == [NEW |-> 0, CONTACTED |-> 1, QUALIFIED |-> 2, NEGOTIATION |-> 3,
          VISIT |-> 4, WON |-> 5, LOST |-> 6]
Status == DOMAIN Order

ASSUME ConversationAssumption ==
  /\ MaxAttempts \in Nat \ {0} /\ IsFiniteSet(Starter)
  /\ Given \subseteq Status /\ MaxMoves \in Nat /\ MaxFailures \in Nat

VARIABLES
  active,     \* Lead.aiConversationActive
  status,     \* Lead.status
  job,        \* per inbound message: its job's state, attempts, stalled
  task,       \* the job the message queue is processing
  starter,    \* per starter: the statement of actionSendAiMessage it is at
  request,    \* per agent: the request it is making
  replied,    \* history: AI replies to each inbound message
  visits,     \* history: visits created by them
  refused,    \* history: attempts that ended by evaluate throwing or a crash
  late,       \* history: AI replies since the AI was last switched off
  closed,     \* history: the AI said goodbye and nobody activated it again
  moves, failures

counts == <<replied, visits, refused>>
history == <<counts, late, closed>>
lead == <<active, status>>
procs == <<job, task, starter, request>>
used == <<moves, failures>>
vars == <<lead, procs, history, used>>

Stage == {"QUALIFIED", "NEGOTIATION", "VISIT"}
Early == {"NEW", "CONTACTED", "QUALIFIED"}

(* The markers of a reply: goal, not interested, stage, appointment. *)
Reply == [goal : BOOLEAN, lost : BOOLEAN, stage : Stage \cup {"none"}, cita : BOOLEAN]
Work == {"goalOff", "goalStatus", "lostOff", "lostStatus", "visit"} \cup Stage

Idle == [at |-> "idle"]
Simple == [at : {"read", "evaluate", "activate", "create"}, msg : Inbound]
Replying == [at : {"reply", "work"}, msg : Inbound, seen : Status, todo : Seq(Work),
             overtaken : BOOLEAN]  \* history: another wrote the status since
Task == {Idle} \cup Simple \cup Replying
Request == {Idle} \cup [at : {"post", "switch"}, seen : BOOLEAN,
                      crossed : BOOLEAN]  \* history: an activation since
                  \cup [at : {"update"}, seen : Status, status : Status]

Move == moves < MaxMoves /\ moves' = moves + 1 /\ UNCHANGED failures
Fail == failures < MaxFailures /\ failures' = failures + 1 /\ UNCHANGED moves

At(label) == task.at = label
Doing(w) == At("work") /\ Head(task.todo) = w
SwitchingOff == Doing("goalOff") \/ Doing("lostOff")
Goto(label) == task' = [task EXCEPT !.at = label]

(* The lead as it was read is gone when the rules begin. *)
Evaluating(n) == [at |-> "evaluate", msg |-> n]
WithWork(t, todo) == IF todo = <<>> THEN Evaluating(t.msg)
                  ELSE [t EXCEPT !.at = "work", !.todo = todo]
Continue == task' = WithWork(task, Tail(task.todo))

-----------------------------------------------------------------------------
Init ==
  /\ active \in BOOLEAN /\ status \in Given
  /\ job = [n \in Inbound |-> [state |-> "waiting", attempt |-> 0, stalled |-> FALSE]]
  /\ task = Idle
  /\ starter = [s \in Starter |-> "idle"]
  /\ request = [a \in Agent |-> Idle]
  /\ replied = [n \in Inbound |-> 0] /\ visits = [n \in Inbound |-> 0]
  /\ refused = [n \in Inbound |-> 0]
  /\ late = 0 /\ closed = FALSE
  /\ moves = 0 /\ failures = 0

-----------------------------------------------------------------------------
(* Writes of the lead's row *)

Activate ==
  /\ active' = TRUE
  /\ late' = 0 /\ closed' = FALSE
  /\ request' = [a \in Agent |-> IF request[a].at \in {"post", "switch"}
                                 THEN [request[a] EXCEPT !.crossed = TRUE] ELSE request[a]]
  /\ UNCHANGED status

SwitchOff ==
  /\ active' = FALSE
  /\ UNCHANGED <<status, late, closed>>

(* An AI message, counted when the AI has been switched off. *)
Late == IF active THEN late ELSE late + 1

(* A status written by a rule or a user. *)
SetStatus(s) ==
  /\ status' = s
  /\ task' = IF task.at \in {"reply", "work"} THEN [task EXCEPT !.overtaken = TRUE] ELSE task
  /\ UNCHANGED active

-----------------------------------------------------------------------------
(* message.inbound jobs, one at a time, each taken at any time *)

TakeJob(n) ==
  /\ task = Idle /\ job[n].state = "waiting"
  /\ job' = [job EXCEPT ![n].state = "active"]
  /\ task' = [at |-> "read", msg |-> n]
  /\ UNCHANGED <<lead, starter, request, history, used>>

Settle_Misspelt(j, n, ok) == [j EXCEPT ![n].state = IF ok THEN "completed" ELSE "waiting"]
Settle(j, n, ok) ==
  LET tries == j[n].attempt + (IF ok THEN 0 ELSE 1)
  IN [j EXCEPT ![n].attempt = tries,
               ![n].state = IF ok THEN "done"
                            ELSE IF tries < MaxAttempts THEN "waiting" ELSE "failed"]

(* handleAiAutoReply reads the lead; the AI answers only if it is active. *)
Answers_Always == TRUE
Answers == active

ReadLead ==
  /\ At("read")
  /\ task' = IF Answers
             THEN [at |-> "reply", msg |-> task.msg, seen |-> status, todo |-> <<>>,
                   overtaken |-> FALSE]
             ELSE Evaluating(task.msg)
  /\ UNCHANGED <<lead, job, starter, request, history, used>>

(* generateResponse: no configuration of the agent or the tenant, no lead, *)
(* or the provider failed: no reply.                                       *)
NoReply ==
  /\ At("reply")
  /\ task' = Evaluating(task.msg)
  /\ UNCHANGED <<lead, job, starter, request, history, used>>

(* What follows the message, in the order of the code. *)
When(c, work) == IF c THEN work ELSE <<>>
Plan_StageToo(r) ==
  When(r.goal, <<"goalOff", "goalStatus">>) \o When(r.lost, <<"lostOff", "lostStatus">>)
    \o When(r.stage # "none", <<r.stage>>) \o When(r.cita, <<"visit">>)
Plan_GoalOnly(r) ==
  When(r.goal, <<"goalOff", "goalStatus">>) \o When(r.cita, <<"visit">>)
Plan(r) ==
  When(r.goal, <<"goalOff", "goalStatus">>) \o When(r.lost, <<"lostOff", "lostStatus">>)
    \o When(r.stage # "none" /\ ~r.goal /\ ~r.lost, <<r.stage>>)
    \o When(r.cita, <<"visit">>)

(* message.create and sendQueuedMessage: nothing is read again before them. *)
SendReply(r) ==
  /\ At("reply")
  /\ task' = WithWork(task, Plan(r))
  /\ replied' = [replied EXCEPT ![task.msg] = @ + 1]
  /\ late' = Late
  /\ closed' = (closed \/ r.goal \/ r.lost)
  /\ UNCHANGED <<lead, job, starter, request, visits, refused, used>>

(* deactivateAiConversation *)
Deactivate ==
  /\ SwitchingOff /\ Continue /\ SwitchOff
  /\ UNCHANGED <<job, starter, request, counts, used>>

(* The goal moves a lead to VISIT, a refusal to LOST, if the lead was early *)
(* in the pipeline when it was read.                                        *)
CloseStatus ==
  /\ Doing("goalStatus") \/ Doing("lostStatus")
  /\ status' = IF task.seen \notin Early THEN status
               ELSE IF Doing("goalStatus") THEN "VISIT" ELSE "LOST"
  /\ Continue
  /\ UNCHANGED <<active, job, starter, request, history, used>>

(* "Only advance forward, never regress", from the status as it was read. *)
AdvanceStage ==
  /\ \E g \in Stage : /\ Doing(g)
                      /\ status' = IF Order[g] > Order[task.seen] THEN g ELSE status
  /\ Continue
  /\ UNCHANGED <<active, job, starter, request, history, used>>

CreateVisit ==
  /\ Doing("visit") /\ Continue
  /\ visits' = [visits EXCEPT ![task.msg] = @ + 1]
  /\ UNCHANGED <<lead, job, starter, request, replied, refused,
                 late, closed, used>>

(* A statement of the reply throws: the processor goes on to the rules. *)
Thrown_FailsJob(n) == <<Settle(job, n, FALSE), Idle>>
Thrown(n) == <<job, Evaluating(n)>>

ReplyFails ==
  /\ task.at \in {"read", "reply", "work"}
  /\ Fail
  /\ job' = Thrown(task.msg)[1] /\ task' = Thrown(task.msg)[2]
  /\ closed' = (closed /\ ~SwitchingOff)
  /\ UNCHANGED <<lead, starter, request, counts, late>>

(* evaluate(message.inbound) ends or throws. *)
RulesDone ==
  /\ At("evaluate")
  /\ task' = Idle
  /\ job' = Settle(job, task.msg, TRUE)
  /\ UNCHANGED <<lead, starter, request, replied, visits, refused,
                 late, closed, used>>

RulesThrow ==
  /\ At("evaluate") /\ Fail
  /\ task' = Idle
  /\ job' = Settle(job, task.msg, FALSE)
  /\ refused' = [refused EXCEPT ![task.msg] = @ + 1]
  /\ UNCHANGED <<lead, starter, request, replied, visits,
                 late, closed>>

-----------------------------------------------------------------------------
(* Actions of rules: in the job itself, or in a job of another queue *)

ChangeStatus(s) ==
  /\ Move
  /\ SetStatus(s)
  /\ UNCHANGED <<job, starter, request, history>>

(* actionSendAiMessage waits for the provider (no answer ends it), activates *)
(* the conversation and creates the message.                                *)
StartInJob ==
  /\ At("evaluate") /\ Move
  /\ Goto("activate")
  /\ UNCHANGED <<lead, job, starter, request, history>>

ActivateInJob ==
  /\ At("activate") /\ Goto("create") /\ Activate
  /\ UNCHANGED <<job, starter, counts, used>>

EndStartInJob ==
  /\ task.at \in {"activate", "create"} /\ Goto("evaluate")
  /\ late' = IF At("create") THEN Late ELSE late
  /\ UNCHANGED <<lead, job, starter, request, counts, closed, used>>

Start(s) ==
  /\ starter[s] = "idle" /\ Move
  /\ starter' = [starter EXCEPT ![s] = "activate"]
  /\ UNCHANGED <<lead, job, task, request, history>>

ActivateLead(s) ==
  /\ starter[s] = "activate" /\ Activate
  /\ starter' = [starter EXCEPT ![s] = "create"]
  /\ UNCHANGED <<job, task, counts, used>>

EndStart(s) ==
  /\ starter[s] # "idle"
  /\ late' = IF starter[s] = "create" THEN Late ELSE late
  /\ starter' = [starter EXCEPT ![s] = "idle"]
  /\ UNCHANGED <<lead, job, task, request, counts, closed, used>>

-----------------------------------------------------------------------------
(* Requests of the users *)

(* MessagesService.send reads the lead, then posts the agent's message. *)
BeginSend(a) ==
  /\ request[a] = Idle /\ Move
  /\ request' = [request EXCEPT ![a] = [at |-> "post", seen |-> active,
                                             crossed |-> FALSE]]
  /\ UNCHANGED <<lead, job, task, starter, history>>

(* "The human is taking over": as the lead was read. *)
TakesOver_Never(a) == FALSE
TakesOver(a) == request[a].seen

Posted(a) ==
  /\ request[a].at = "post"
  /\ request' = [request EXCEPT ![a] = IF TakesOver(a) THEN [@ EXCEPT !.at = "switch"]
                                                      ELSE Idle]
  /\ UNCHANGED <<lead, job, task, starter, history, used>>

SwitchAfterSend(a) ==
  /\ request[a].at = "switch" /\ SwitchOff
  /\ request' = [request EXCEPT ![a] = Idle]
  /\ UNCHANGED <<job, task, starter, counts, used>>

(* LeadsController.toggleAi: one write that depends on no read. *)
Toggle ==
  /\ \/ Activate
     \/ SwitchOff /\ UNCHANGED request
  /\ UNCHANGED <<job, task, starter, counts, used>>

(* LeadsService.update: a status equal to the one read is not written. *)
BeginUpdate(a, s) ==
  /\ request[a] = Idle /\ Move
  /\ request' = [request EXCEPT ![a] = [at |-> "update", seen |-> status, status |-> s]]
  /\ UNCHANGED <<lead, job, task, starter, history>>

WriteUpdate(a) ==
  /\ request[a].at = "update"
  /\ IF request[a].status # request[a].seen THEN SetStatus(request[a].status)
                                            ELSE UNCHANGED <<lead, task>>
  /\ request' = [request EXCEPT ![a] = Idle]
  /\ UNCHANGED <<job, starter, history, used>>

(* The channel is not connected, a statement throws, or the API ends. *)
RequestFails(a) ==
  /\ request[a] # Idle /\ Fail
  /\ request' = [request EXCEPT ![a] = Idle]
  /\ UNCHANGED <<lead, job, task, starter, history>>

-----------------------------------------------------------------------------
(* The worker ends.  BullMQ hands a stalled job out again once. *)
Crash ==
  /\ Fail
  /\ task' = Idle
  /\ starter' = [s \in Starter |-> "idle"]
  /\ job' = [n \in Inbound |->
               IF job[n].state # "active" THEN job[n]
               ELSE [job[n] EXCEPT !.state = IF job[n].stalled THEN "failed" ELSE "waiting",
                                   !.stalled = TRUE]]
  /\ refused' = [n \in Inbound |->
                   refused[n] + (IF job[n].state = "active" THEN 1 ELSE 0)]
  /\ closed' = (closed /\ ~SwitchingOff)
  /\ UNCHANGED <<lead, request, replied, visits, late>>

AutoReply ==
  \/ ReadLead \/ NoReply \/ (\E r \in Reply : SendReply(r))
  \/ Deactivate \/ CloseStatus \/ AdvanceStage
  \/ CreateVisit \/ ReplyFails
Rules ==
  \/ RulesDone \/ RulesThrow
  \/ (\E s \in Given : ChangeStatus(s))
  \/ StartInJob \/ ActivateInJob \/ EndStartInJob
  \/ (\E s \in Starter : Start(s) \/ ActivateLead(s) \/ EndStart(s))
Users ==
  \/ \E a \in Agent : BeginSend(a) \/ Posted(a) \/ SwitchAfterSend(a)
                      \/ WriteUpdate(a) \/ RequestFails(a)
  \/ \E a \in Agent, s \in Given : BeginUpdate(a, s)
  \/ Toggle

Next == (\E n \in Inbound : TakeJob(n)) \/ AutoReply \/ Rules \/ Users \/ Crash

Spec == Init /\ [][Next]_vars

-----------------------------------------------------------------------------
(* Properties *)

TypeOK ==
  /\ active \in BOOLEAN /\ status \in Status
  /\ job \in [Inbound -> [state : {"waiting", "active", "done", "failed"},
                          attempt : 0..MaxAttempts, stalled : BOOLEAN]]
  /\ task \in Task
  /\ starter \in [Starter -> {"idle", "activate", "create"}]
  /\ request \in [Agent -> Request]
  /\ late \in Nat /\ closed \in BOOLEAN
  /\ \A h \in {replied, visits, refused} : h \in [Inbound -> Nat]

(* message.processor.ts:42-77: the reply comes before the rules, so a job   *)
(* that fails is answered again.  A contact gets a second answer to one     *)
(* message, and a second visit, only for an attempt that failed later.      *)
AnsweredOncePerAttempt ==
  \A n \in Inbound : replied[n] <= 1 + refused[n] /\ visits[n] <= replied[n]

(* rule-engine.service.ts:1039-1100: once the AI has said goodbye, with its *)
(* goal met or the contact not interested, it is switched off, unless that  *)
(* write failed, and stays off until somebody activates it again.           *)
GoodbyeEndsTheConversation == closed /\ ~SwitchingOff => ~active

(* When the AI is switched off, by an agent who takes over or by itself,    *)
(* only what was being generated still goes out: one message of each queue. *)
TakeoverStopsTheAi == late <= 1 + Cardinality(Starter)

(* rule-engine.service.ts:1110: whatever markers a reply has, it only moves *)
(* the lead forward, unless another writer came between its read and its    *)
(* write.                                                                   *)
OnlyForward ==
  [][status' # status
       /\ At("work") /\ task' # [task EXCEPT !.overtaken = TRUE] /\ ~task.overtaken
         => Order[status'] > Order[status]]_vars

(* messages.service.ts:261: an agent's send that ends without an error      *)
(* leaves the AI off, unless it was activated since the send began.         *)
SendTakesOver ==
  [][\A a \in Agent :
       request[a].at \in {"post", "switch"} /\ request'[a] = Idle /\ failures' = failures
         => ~active' \/ request[a].crossed]_vars

(* The AI answers an attempt once, and not after its goodbye or an agent's *)
(* takeover (AnsweredOncePerAttempt, GoodbyeEndsTheConversation,           *)
(* TakeoverStopsTheAi).                                                    *)
AnswersInTurn == AnsweredOncePerAttempt /\ GoodbyeEndsTheConversation /\ TakeoverStopsTheAi

(* What the AI writes gives way to what others write: it only moves a lead *)
(* forward, and a user's message switches it off (OnlyForward,             *)
(* SendTakesOver).                                                         *)
AiGivesWay == OnlyForward /\ SendTakesOver
=============================================================================
