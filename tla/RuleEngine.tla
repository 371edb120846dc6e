------------------------------ MODULE RuleEngine ------------------------------
(* RuleEngineService.evaluate, executeSingleRule and executeActionSequence of   *)
(* apps/worker, under the jobs that call them: the lead queue, the workflow     *)
(* queue and the hourly no_response scan.  Each queue has one runner (BullMQ's  *)
(* default concurrency), so the three interleave at every await.                *)
(*                                                                              *)
(* An event is an occasion to run rules: a lead created, a rule run by hand, a  *)
(* lead found silent.  Messages and deferrals are counted per event, because a  *)
(* job that throws or stalls is delivered again and starts from the first rule. *)
EXTENDS Integers, Sequences, FiniteSets, Functions

CONSTANTS Lead, Agents,       \* Agents: the active agents, oldest first
          Rules,              \* the enabled rules of the tenant, by priority
          Event,              \* [id, trigger, lead, rule]; rule = 0: all rules of the trigger
          MaxFailures,        \* bound: database, Redis and process failures
          None

Runner == {"lead", "workflow", "cron"}
Actions == {"assign", "template", "wait"}
Index == 1..Len(Rules)
Agent == Range(Agents)
Id == {e.id : e \in Event}

ASSUME RuleAssumption ==
  /\ Agents \in Seq(Agent) \ {<<>>} /\ None \notin Agent /\ IsFiniteSet(Lead) /\ MaxFailures \in Nat
  /\ Rules \in Seq([trigger : STRING, owner : Agent \cup {None}, when : {"any", "unassigned"},
                    hours : BOOLEAN, acts : Seq(Actions) \ {<<>>}])
  /\ Event \subseteq [id : Id, trigger : STRING, lead : Lead, rule : Index \cup {0}]
  /\ \A e, f \in Event : e.id = f.id => e = f
  /\ \A e \in Event : e.trigger = "workflow.execute" => e.rule # 0
  \* a rule that assigns on lead.assigned would emit the event it answers, for ever
  /\ \A r \in Index : Rules[r].trigger = "lead.assigned" => "assign" \notin Range(Rules[r].acts)

VARIABLES
  assignee,     \* lead.assigneeId
  jobs,         \* jobs waiting in BullMQ
  task,         \* the job each runner has in hand
  messages,     \* texts sent in the last five minutes: [by, lead, rule, pos, agent]
  repeated,     \* those a runner created again within the five minutes
  ran,          \* how often an action of a rule was attempted for an event
  again,        \* how often a job of an event was delivered another time
  handled,      \* the rules an event's completed evaluation had matched
  fired,        \* events that happened
  raced, moved, \* whether two assignments overlapped, and a lead was given away again
  failures

vars == <<assignee, jobs, task, messages, repeated, ran, again, handled, fired, raced, moved, failures>>
data == <<assignee, messages, repeated, raced, moved>>
history == <<handled, fired>>

Idle == [pc |-> "idle"]
\* an action of a rule for an event, or, at 0, the rule deferred
Key == UNION {{i} \X {r} \X (0..Len(Rules[r].acts)) : i \in Id, r \in Index}

\* @InjectQueue: which runner a job waits for
QueueOf(j) == CASE j.kind = "scan" -> "cron" [] j.kind \in {"continue", "execute"} -> "workflow"
                [] OTHER -> "lead"

Job(id, kind, trigger, lead, rule, acts, left) ==
  [id |-> id, kind |-> kind, trigger |-> trigger, lead |-> lead, rule |-> rule,
   acts |-> acts, left |-> left, stalled |-> FALSE]

\* emitLeadCreated and its siblings: three attempts; emitWorkflowExecute: two; the scan: none
JobOf(e) ==
  CASE e.trigger = "workflow.execute" -> Job(e.id, "execute", e.trigger, e.lead, e.rule, <<>>, 2)
    [] e.trigger = "no_response" -> Job(e.id, "scan", e.trigger, e.lead, 0, <<>>, 1)
    [] OTHER -> Job(e.id, "event", e.trigger, e.lead, 0, <<>>, 3)

AssignedJob(id, lead) == Job(id, "event", "lead.assigned", lead, 0, <<>>, 3)
\* queue.add without attempts: one
ContinueJob(id, lead, rule, acts) == Job(id, "continue", "none", lead, rule, acts, 1)

\* a rule with an owner runs for the owner's leads, and for a new lead nobody has
InScope(r, trigger, owner) ==
  \/ owner = None /\ trigger = "lead.created"
  \/ Rules[r].owner \in {None, owner}

\* the condition hasAssignee, the one that sees what the rules themselves write
Holds(r, owner) == Rules[r].when = "unassigned" => owner = None

\* the rules evaluate goes through, from the one read of the lead it makes
Matching(trigger, owner) ==
  {r \in Index : Rules[r].trigger = trigger /\ InScope(r, trigger, owner) /\ Holds(r, owner)}

\* orderBy: priority
NextOf(todo) == CHOOSE r \in todo : \A s \in todo : r <= s

Load(a) == Cardinality({l \in Lead : assignee[l] = a})
LeastLoaded_Eldest == Agents[1]
LeastLoaded_Nobody == None
\* users.sort by lead count, stable on the order of creation
LeastLoaded ==
  LET least == {n \in DOMAIN Agents : \A m \in DOMAIN Agents : Load(Agents[n]) <= Load(Agents[m])}
  IN  Agents[CHOOSE n \in least : \A m \in least : n <= m]

Init ==
  /\ assignee = [l \in Lead |-> None] /\ jobs = {} /\ task = [w \in Runner |-> Idle]
  /\ messages = {} /\ repeated = {} /\ ran = [k \in Key |-> 0] /\ again = [i \in Id |-> 0]
  /\ handled = [i \in Id |-> {}] /\ fired = {} /\ raced = FALSE /\ moved = FALSE
  /\ failures = 0

Fire(e) ==
  /\ e \notin fired /\ fired' = fired \cup {e} /\ jobs' = jobs \cup {JobOf(e)}
  /\ UNCHANGED <<data, task, ran, again, handled, failures>>

-----------------------------------------------------------------------------
(* A job: evaluate reads the lead and its rules, the others have one rule.      *)

Counted(i, r, p) == ran' = [ran EXCEPT ![<<i, r, p>>] = @ + 1]
Pos(t) == Len(Rules[t.rule].acts) - Len(t.acts) + 1
Attempted(t) == Counted(t.job.id, t.rule, Pos(t))

\* the next rule within its working hours, or without any: its actions
Enter(t) ==
  LET r == NextOf(t.todo)
  IN  [t EXCEPT !.pc = "act", !.todo = @ \ {r}, !.rule = r, !.acts = Rules[r].acts]
\* after the last action of a rule (the log that follows is guarded): the next rule,
\* or the end; a rule with working hours waits for a look at the clock
EndRule(t) ==
  IF t.job.kind = "execute" THEN [t EXCEPT !.pc = "end", !.acts = <<>>]
  ELSE IF t.todo = {} THEN [t EXCEPT !.pc = "done"]
  ELSE IF Rules[NextOf(t.todo)].hours THEN [t EXCEPT !.pc = "rule", !.rule = 0, !.acts = <<>>]
  ELSE Enter(t)
NextAction(t) == IF Len(t.acts) = 1 THEN EndRule(t) ELSE [t EXCEPT !.pc = "act", !.acts = Tail(@)]

\* the runner goes on; when the handler returns (scoring and the notification mail
\* catch their errors) the job is completed
GoOn(w, t) ==
  /\ task' = [task EXCEPT ![w] = IF t.pc = "done" THEN Idle ELSE t]
  /\ handled' = IF t.pc = "done" THEN [handled EXCEPT ![t.job.id] = @ \cup t.set] ELSE handled

Begin(w, j, todo, rule, acts) ==
  LET t == [pc |-> "act", job |-> j, todo |-> todo, set |-> todo, rule |-> rule,
            acts |-> acts, pick |-> None]
  IN  GoOn(w, IF rule = 0 THEN EndRule(t) ELSE t)

Start(w) ==
  /\ task[w] = Idle
  /\ \E j \in jobs :
       /\ QueueOf(j) = w /\ jobs' = jobs \ {j}
       /\ CASE j.kind = "continue" -> Begin(w, j, {}, j.rule, j.acts)
            [] j.kind = "execute"  -> Begin(w, j, {}, j.rule, Rules[j.rule].acts)
            [] OTHER -> Begin(w, j, Matching(j.trigger, assignee[j.lead]), 0, <<>>)
  /\ UNCHANGED <<data, ran, again, fired, failures>>

RunRule(w) ==
  /\ task[w].pc = "rule" /\ task[w].todo # {}
  /\ task' = [task EXCEPT ![w] = Enter(@)]
  /\ UNCHANGED <<data, jobs, ran, again, history, failures>>

\* outside working hours: the queued action is created, then the event log written;
\* no try block is around either
Deferred_Returns(t) == [t EXCEPT !.pc = "log", !.todo = {}]
Deferred(t) == [t EXCEPT !.pc = "log", !.todo = @ \ {NextOf(@)}]
Defer(w) ==
  LET t == task[w] IN
  /\ t.pc = "rule" /\ t.todo # {} /\ Rules[NextOf(t.todo)].hours
  /\ Counted(t.job.id, NextOf(t.todo), 0)
  /\ task' = [task EXCEPT ![w] = Deferred(t)]
  /\ UNCHANGED <<data, jobs, again, history, failures>>

LogDeferral(w) ==
  /\ task[w].pc = "log" /\ GoOn(w, EndRule(task[w]))
  /\ UNCHANGED <<data, jobs, ran, again, fired, failures>>

\* the rest of the actions becomes a delayed job, and the loop ends
Waited_GoesOn(t) == NextAction(t)
Waited(t) == EndRule(t)
Wait(w) ==
  LET t == task[w] IN
  /\ t.pc = "act" /\ t.acts # <<>> /\ Head(t.acts) = "wait"
  /\ jobs' = IF Len(t.acts) = 1 THEN jobs
             ELSE jobs \cup {ContinueJob(t.job.id, t.job.lead, t.rule, Tail(t.acts))}
  /\ Attempted(t) /\ GoOn(w, Waited(t))
  /\ UNCHANGED <<data, again, fired, failures>>

\* actionAssign, round_robin: read the counts ...
Pick(w) ==
  LET t == task[w] IN
  /\ t.pc = "act" /\ t.acts # <<>> /\ Head(t.acts) = "assign"
  /\ task' = [task EXCEPT ![w] = [t EXCEPT !.pc = "write", !.pick = LeastLoaded]]
  /\ raced' = (raced \/ \E v \in Runner \ {w} : task[v].pc = "write")
  /\ Attempted(t) /\ UNCHANGED <<assignee, messages, repeated, moved, jobs, again, history, failures>>
\* ... write the lead ...
Assign(w) ==
  LET t == task[w] IN
  /\ t.pc = "write" /\ assignee' = [assignee EXCEPT ![t.job.lead] = t.pick]
  /\ moved' = (moved \/ assignee[t.job.lead] \notin {None, t.pick})
  /\ task' = [task EXCEPT ![w] = [t EXCEPT !.pc = "announce", !.pick = None]]
  /\ UNCHANGED <<messages, repeated, raced, jobs, ran, again, history, failures>>
\* ... and announce it
Announce(w) ==
  LET t == task[w] IN
  /\ t.pc = "announce" /\ jobs' = jobs \cup {AssignedJob(t.job.id, t.job.lead)}
  /\ GoOn(w, NextAction(t))
  /\ UNCHANGED <<data, ran, again, fired, failures>>

\* actionSendTemplate: the text names the agent the lead has at this moment
Text(w, t) == [by |-> w, lead |-> t.job.lead, rule |-> t.rule, pos |-> Pos(t),
               agent |-> assignee[t.job.lead]]
SameText(m, n) == [m EXCEPT !.by = n.by] = n
\* a message with this content in the last five minutes: nothing is sent
Recent_Never(m) == FALSE
Recent(m) == \E n \in messages : SameText(m, n)

CheckText(w) ==
  LET t == task[w]  m == Text(w, t) IN
  /\ t.pc = "act" /\ t.acts # <<>> /\ Head(t.acts) = "template"
  /\ GoOn(w, IF Recent(m) THEN NextAction(t) ELSE [t EXCEPT !.pc = "create", !.pick = m])
  /\ Attempted(t) /\ UNCHANGED <<data, jobs, again, fired, failures>>
CreateText(w) ==
  LET t == task[w]  m == t.pick IN
  /\ t.pc = "create" /\ messages' = messages \cup {m}
  /\ repeated' = IF m \in messages THEN repeated \cup {m} ELSE repeated
  /\ GoOn(w, [NextAction(t) EXCEPT !.pick = None])
  /\ UNCHANGED <<assignee, raced, moved, jobs, ran, again, fired, failures>>

\* a rule run by hand ends with a log outside every try block
Finish(w) ==
  /\ task[w].pc = "end" /\ GoOn(w, [task[w] EXCEPT !.pc = "done"])
  /\ UNCHANGED <<data, jobs, ran, again, fired, failures>>

-----------------------------------------------------------------------------
(* Failures.                                                                    *)

Fail == failures < MaxFailures /\ failures' = failures + 1
Redelivered(j) == again' = [again EXCEPT ![j.id] = @ + 1]

\* an action that throws is caught and logged: the next action runs, after a wait too
ActionFails(w) ==
  LET t == task[w] IN
  /\ Fail /\ t.pc \in {"act", "write", "announce", "create"} /\ t.acts # <<>>
  /\ GoOn(w, [NextAction(t) EXCEPT !.pick = None])
  /\ IF t.pc = "act" THEN Attempted(t) ELSE UNCHANGED ran
  /\ UNCHANGED <<data, jobs, again, fired>>

\* a statement outside every try block throws: BullMQ retries the job from the start
AttemptsLeft(j) == j.left > 1
CanThrow(t) ==
  \/ t.pc = "rule" /\ t.todo # {} /\ Rules[NextOf(t.todo)].hours
  \/ t.pc = "log"
  \/ t.pc = "end" /\ t.job.kind = "execute"
Throw(w) ==
  LET t == task[w] IN
  /\ Fail /\ CanThrow(t) /\ task' = [task EXCEPT ![w] = Idle]
  /\ IF AttemptsLeft(t.job)
     THEN jobs' = jobs \cup {[t.job EXCEPT !.left = @ - 1]} /\ Redelivered(t.job)
     ELSE UNCHANGED <<jobs, again>>
  /\ UNCHANGED <<data, ran, history>>

\* the worker stops: its jobs stall and are delivered again, once; the scan is lost
Lost == {task[w].job : w \in {v \in Runner : task[v] # Idle}}
Crash ==
  /\ Fail /\ Lost # {} /\ task' = [w \in Runner |-> Idle]
  /\ LET back == {j \in Lost : j.kind # "scan" /\ ~j.stalled} IN
       /\ jobs' = jobs \cup {[j EXCEPT !.stalled = TRUE] : j \in back}
       /\ again' = [i \in Id |-> again[i] + Cardinality({j \in back : j.id = i})]
  /\ UNCHANGED <<data, ran, history>>

\* five minutes pass; a retry comes within seconds
FiveMinutes ==
  /\ messages # {} /\ jobs = {} /\ \A w \in Runner : task[w] = Idle
  /\ messages' = {} /\ repeated' = {}
  /\ UNCHANGED <<assignee, raced, moved, jobs, task, ran, again, history, failures>>

Step(w) ==
  \/ Start(w) \/ RunRule(w) \/ Defer(w) \/ LogDeferral(w) \/ Wait(w)
  \/ Pick(w) \/ Assign(w) \/ Announce(w) \/ CheckText(w) \/ CreateText(w)
  \/ Finish(w) \/ ActionFails(w) \/ Throw(w)

Next == (\E e \in Event : Fire(e)) \/ (\E w \in Runner : Step(w)) \/ Crash \/ FiveMinutes
Spec == Init /\ [][Next]_vars

-----------------------------------------------------------------------------
(* Properties.                                                                  *)

TypeOK ==
  /\ assignee \in [Lead -> Agent \cup {None}] /\ fired \subseteq Event /\ raced \in BOOLEAN /\ moved \in BOOLEAN
  /\ \A j \in jobs : j.id \in Id /\ j.lead \in Lead /\ j.left \in 1..3 /\ j.rule \in Index \cup {0}
  /\ \A w \in Runner : task[w].pc \in {"idle", "rule", "log", "act", "write", "announce", "create", "end"}
  /\ \A w \in Runner : task[w].pc = "write" => task[w].pick \in Agent
  /\ ran \in [Key -> Nat] /\ again \in [Id -> Nat] /\ failures \in 0..MaxFailures

\* However jobs are retried and stalled, and however waits split the list of a
\* rule over several jobs, an action is attempted, and a rule deferred, at most
\* once for the event and once more for each redelivery
\* (rule-engine.service.ts:192, where the log after a deferral may throw).
OncePerDelivery ==
  \A k \in Key : Rules[k[2]].trigger # "lead.assigned" => ran[k] <= 1 + again[k[1]]

\* When the evaluation of an event completes, every rule it had matched has been
\* deferred or has had its first action attempted: no rule is lost behind the
\* failure, the deferral or the wait of an earlier one.
MatchedRulesAreHandled ==
  \A i \in Id : \A r \in handled[i] :
    ran[<<i, r, 0>>] > 0 \/ ran[<<i, r, 1>>] > 0

\* Round robin keeps the agents within one lead of each other as long as no two
\* assignments overlapped (rule-engine.service.ts:524), and within two when a
\* retry or another rule assigned a lead once more: the counts then include the
\* lead that is about to move.
RoundRobinIsBalanced ==
  raced \/ \A a, b \in Agent : Load(a) <= Load(b) + (IF moved THEN 2 ELSE 1)

\* The five-minute check: one queue never sends the same text to the same lead
\* twice, although every retry goes through the templates already sent.
TextSentOnce == repeated = {}

\* What a rule does, and what it says, is done once for each delivery of its event
\* (OncePerDelivery, TextSentOnce).
ActionsRunOnce == OncePerDelivery /\ TextSentOnce
=============================================================================
