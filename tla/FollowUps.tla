----------------------------- MODULE FollowUps -----------------------------
(***************************************************************************)
(* Follow-up sequences: the API's FollowUpsService, which edits sequences  *)
(* and enrols leads, and the worker's FollowUpScheduler, whose cron job    *)
(* sends the step that is due of every active run and moves the run on.    *)
(*                                                                         *)
(* A tick fetches the due runs once and works through them; each await is  *)
(* a step.  A tick that lasts more than a minute meets the next one.       *)
(***************************************************************************)
EXTENDS Naturals, FiniteSets

CONSTANTS
  Run,          \* identifiers of runs (one lead enrolled in one sequence)
  Sequence,     \* identifiers of sequences
  Lead,         \* identifiers of leads
  SeqOf,        \* the sequenceId of a run
  LeadOf,       \* the leadId of a run
  StepList,     \* the lists of steps a user may give a sequence
  Tick,         \* slots for ticks: as many as may be alive at once
  Editor,       \* updates of a sequence's steps in progress
  BatchSize,    \* take: 100
  MaxOverlaps,  \* bound: times one run is fetched while a tick has it
  MaxEdits,     \* bound: updates of steps begun
  MaxFaults     \* bound: database failures and crashes of the worker

(* A step is a record of its order in the list and its channel; "EMAIL" is *)
(* one the form offers and the messages table does not have.               *)
Channel == {"WHATSAPP", "EMAIL"}

ASSUME FollowUpsAssumption ==
  /\ SeqOf \in [Run -> Sequence] /\ LeadOf \in [Run -> Lead]
  /\ StepList \subseteq SUBSET [order : Nat, channel : Channel]
  /\ \A list \in StepList :  \* the form numbers the steps
       IsFiniteSet(list) /\ \A s, t \in list : s.order = t.order => s = t
  /\ BatchSize \in Nat \ {0} /\ IsFiniteSet(Tick) /\ MaxOverlaps \in Nat
  /\ MaxEdits \in Nat /\ MaxFaults \in Nat

VARIABLES
  run,      \* the rows: status, currentStep, nextRunAt
  steps,    \* per sequence, its step rows, each with the update that made it
  enabled,  \* per sequence; "deleted" after remove
  lead,     \* per lead: "open", "closed" (LOST or WON) or "gone"
  todo,     \* per tick, the rows fetched and not yet dealt with
  task,     \* per tick, the run it is at
  edit,     \* per update of steps, what it has deleted and not yet created
  edits,    \* updates of steps begun
  sent,     \* history: per run and step, the messages created
  doubled,  \* history: times the run was fetched while a tick had it
  mixed,    \* history: sequences of which two updates were under way at once
  closed,   \* history: leads that were ever closed
  faults    \* database failures and crashes

rows    == <<run, steps, enabled, lead>>
history == <<sent, doubled, mixed, closed>>
budgets == <<edits, faults>>
vars    == <<rows, todo, task, edit, history, budgets>>

(* nextRunAt: null, in the future, or due *)
When == {"never", "later", "due"}
RunRow == [status : {"none", "ACTIVE", "COMPLETED", "CANCELLED", "gone"},
           step : Nat, next : When]
StepRow == [order : Nat, channel : Channel, edit : Nat]

Snapshot == [run : Run, step : Nat]

Idle == [at |-> "idle"]
Task == [at : {"lead", "close", "create", "send", "advance"}, run : Run,
         step : Nat, steps : SUBSET StepRow, to : {"COMPLETED", "CANCELLED"}]

NoEdit == [list |-> {}]

-----------------------------------------------------------------------------
(* Helpers *)

Exists(r) == run[r].status \notin {"none", "gone"}

SetStatus(r, s) == run' = IF Exists(r) THEN [run EXCEPT ![r].status = s] ELSE run

(* steps[k] of the list ordered by `order' (rows of two updates may tie) *)
Before(s, t) == \/ s.order < t.order
                \/ s.order = t.order /\ s.edit < t.edit
StepAt(S, k) == {s \in S : Cardinality({t \in S : Before(t, s)}) = k}

(* The ticks that have a run, fetched or under way. *)
Holders(r) == {t \in Tick : \/ \E s \in todo[t] : s.run = r
                            \/ task[t] # Idle /\ task[t].run = r}
Held(r) == Holders(r) # {}

(* where: ACTIVE, nextRunAt <= now *)
Due_WithCancelled ==
  {r \in Run : run[r].status \in {"ACTIVE", "CANCELLED"} /\ run[r].next = "due"}
Due == {r \in Run : run[r].status = "ACTIVE" /\ run[r].next = "due"}

(* take: 100, in no particular order *)
Batches == {S \in SUBSET Due : \/ S = Due /\ Cardinality(S) <= BatchSize
                               \/ Cardinality(S) = BatchSize}

(* The run is done with, or an exception went to the catch block of its    *)
(* iteration: either way the loop goes on.                                 *)
NextRun(t) == task' = [task EXCEPT ![t] = Idle]

Goto(t, label) == task' = [task EXCEPT ![t].at = label]
Close_Misspelt(t, s) ==
  task' = [task EXCEPT ![t] = [@ EXCEPT !.at = "close", !.to = "DONE"]]
Close_Skipped(t, s) == NextRun(t)
Close(t, s) == task' = [task EXCEPT ![t] = [@ EXCEPT !.at = "close", !.to = s]]

Fault == faults < MaxFaults /\ faults' = faults + 1

-----------------------------------------------------------------------------
Init ==
  /\ run = [r \in Run |-> [status |-> "none", step |-> 0, next |-> "never"]]
  /\ steps \in [Sequence -> {{[order |-> s.order, channel |-> s.channel, edit |-> 0]
                              : s \in list} : list \in StepList}]
  /\ enabled = [q \in Sequence |-> "yes"]
  /\ lead = [l \in Lead |-> "open"]
  /\ todo = [t \in Tick |-> {}]
  /\ task = [t \in Tick |-> Idle]
  /\ edit = [e \in Editor |-> NoEdit]
  /\ edits = 0
  /\ sent = [r \in Run |-> [k \in {} |-> 0]]
  /\ doubled = [r \in Run |-> 0] /\ mixed = {}
  /\ closed = {}
  /\ faults = 0

-----------------------------------------------------------------------------
(* FollowUpScheduler.handleFollowUpTick *)

(* Nothing looks at the ticks still running (a free slot bounds them): a   *)
(* run that one of them has is due until it is advanced, and is fetched    *)
(* again.                                                                  *)
HandleFollowUpTick(t) ==
  /\ task[t] = Idle /\ todo[t] = {} /\ Due # {}
  /\ \E S \in Batches :
       /\ \A r \in S : Held(r) => doubled[r] < MaxOverlaps
       /\ todo' = [todo EXCEPT ![t] = {[run |-> r, step |-> run[r].step] : r \in S}]
       /\ doubled' = [r \in Run |-> IF r \in S /\ Held(r) THEN doubled[r] + 1
                                                         ELSE doubled[r]]
  /\ UNCHANGED <<rows, task, edit, sent, mixed, closed, budgets>>

(* The sequence with its steps; without it, or when it is disabled, the    *)
(* run is to be cancelled.                                                 *)
LoadSequence(t, s) ==
  /\ task[t] = Idle /\ s \in todo[t]
  /\ todo' = [todo EXCEPT ![t] = @ \ {s}]
  /\ LET q == SeqOf[s.run]
     IN  task' = [task EXCEPT ![t] =
           [at |-> IF enabled[q] = "yes" THEN "lead" ELSE "close",
            run |-> s.run, step |-> s.step, steps |-> steps[q],
            to |-> "CANCELLED"]]
  /\ UNCHANGED <<rows, edit, history, budgets>>

Last_OneEarly(t) == StepAt(task[t].steps, task[t].step + 1) = {}
Last(t) == StepAt(task[t].steps, task[t].step) = {}

LoadLead(t) ==
  /\ task[t].at = "lead"
  /\ LET l == lead[LeadOf[task[t].run]]
     IN  CASE l = "gone" -> Close(t, "CANCELLED")
           [] l = "closed" -> Close(t, "COMPLETED")
           [] l = "open" /\ Last(t) -> Close(t, "COMPLETED")
           [] OTHER -> Goto(t, "create")
  /\ UNCHANGED <<rows, todo, edit, history, budgets>>

(* The update that ends a run without sending; of a deleted row it throws. *)
CloseRun(t) ==
  /\ task[t].at = "close"
  /\ SetStatus(task[t].run, task[t].to)
  /\ NextRun(t)
  /\ UNCHANGED <<steps, enabled, lead, todo, edit, history, budgets>>

(* message.create: refused for a channel the enum does not have, or for a  *)
(* lead that is gone.                                                      *)
AfterRefusal_Advance(t) == Goto(t, "advance")
AfterRefusal(t) == NextRun(t)

CreateMessage(t) ==
  /\ task[t].at = "create"
  /\ LET r == task[t].run
         k == task[t].step
     IN  \E s \in StepAt(task[t].steps, k) :
           IF s.channel = "EMAIL" \/ lead[LeadOf[r]] = "gone"
           THEN AfterRefusal(t) /\ UNCHANGED sent
           ELSE /\ sent' = [sent EXCEPT ![r] = [j \in DOMAIN @ \cup {k} |->
                     (IF j \in DOMAIN @ THEN @[j] ELSE 0) + IF j = k THEN 1 ELSE 0]]
                /\ Goto(t, "send")
  /\ UNCHANGED <<rows, todo, edit, doubled, mixed, closed, budgets>>

(* sendQueuedMessage: its result is not looked at. *)
SendMessage(t) ==
  /\ task[t].at = "send"
  /\ Goto(t, "advance")
  /\ UNCHANGED <<rows, todo, edit, history, budgets>>

(* The next step with its delay (zero hours is accepted), or the end; the  *)
(* status is not looked at.                                                *)
Advanced_Stays(t) == task[t].step
Advanced(t) == task[t].step + 1

Advance(t) ==
  /\ task[t].at = "advance"
  /\ LET r == task[t].run
     IN  IF ~Exists(r) THEN UNCHANGED run
         ELSE IF StepAt(task[t].steps, task[t].step + 1) # {}
         THEN \E w \in {"later", "due"} :
                run' = [run EXCEPT ![r] = [@ EXCEPT !.step = Advanced(t), !.next = w]]
         ELSE run' = [run EXCEPT ![r] = [status |-> "COMPLETED", step |-> Advanced(t),
                                         next |-> "never"]]
  /\ NextRun(t)
  /\ UNCHANGED <<steps, enabled, lead, todo, edit, history, budgets>>

(* The database fails at any statement of the iteration. *)
IterationFails(t) ==
  /\ task[t] # Idle /\ Fault
  /\ NextRun(t)
  /\ UNCHANGED <<rows, todo, edit, history, edits>>

Step(t) ==
  \/ \E s \in todo[t] : LoadSequence(t, s)
  \/ task[t] # Idle /\ (\/ LoadLead(t) \/ CloseRun(t) \/ CreateMessage(t)
                        \/ SendMessage(t) \/ Advance(t))

Crash ==
  /\ Fault
  /\ todo' = [t \in Tick |-> {}]
  /\ task' = [t \in Tick |-> Idle]
  /\ UNCHANGED <<rows, edit, history, edits>>

-----------------------------------------------------------------------------
(* FollowUpsService *)

(* A sequence without steps gives a run that is never due. *)
EnrollLead(r) ==
  /\ run[r].status = "none"
  /\ enabled[SeqOf[r]] # "deleted" /\ lead[LeadOf[r]] # "gone"
  /\ \E w \in IF steps[SeqOf[r]] = {} THEN {"never"} ELSE {"later", "due"} :
       run' = [run EXCEPT ![r] = [status |-> "ACTIVE", step |-> 0, next |-> w]]
  /\ UNCHANGED <<steps, enabled, lead, todo, task, edit, history, budgets>>

(* cancelRun looks at no status. *)
CancelRun(r) ==
  /\ Exists(r)
  /\ run' = [run EXCEPT ![r].status = "CANCELLED"]
  /\ UNCHANGED <<steps, enabled, lead, todo, task, edit, history, budgets>>

(* update with steps: all are deleted, then the new ones are created. *)
Kept_All(q, list) == steps[q]
Kept(q, list) == {}

DeleteSteps(e, q, list) ==
  /\ edit[e] = NoEdit /\ edits < MaxEdits /\ enabled[q] # "deleted"
  /\ edits' = edits + 1
  /\ steps' = [steps EXCEPT ![q] = Kept(q, list)]
  /\ edit' = [edit EXCEPT ![e] = [seq |-> q, id |-> edits + 1, list |-> list]]
  /\ mixed' = IF \E f \in Editor : edit[f] # NoEdit /\ edit[f].seq = q
              THEN mixed \cup {q} ELSE mixed
  /\ UNCHANGED <<run, enabled, lead, todo, task, sent, doubled, closed, faults>>

CreateSteps(e) ==
  /\ edit[e] # NoEdit
  /\ LET q == edit[e].seq
         new == {[order |-> s.order, channel |-> s.channel, edit |-> edit[e].id]
                 : s \in edit[e].list}
     IN  steps' = IF enabled[q] = "deleted" THEN steps
                  ELSE [steps EXCEPT ![q] = @ \cup new]
  /\ edit' = [edit EXCEPT ![e] = NoEdit]
  /\ UNCHANGED <<run, enabled, lead, todo, task, history, budgets>>

(* The same update fails: there is no transaction to undo the delete. *)
EditFails(e) ==
  /\ edit[e] # NoEdit /\ Fault
  /\ edit' = [edit EXCEPT ![e] = NoEdit]
  /\ UNCHANGED <<rows, todo, task, history, edits>>

(* update of `enabled' alone *)
ToggleSequence(q) ==
  /\ enabled[q] # "deleted"
  /\ enabled' = [enabled EXCEPT ![q] = IF @ = "yes" THEN "no" ELSE "yes"]
  /\ UNCHANGED <<run, steps, lead, todo, task, edit, history, budgets>>

(* onDelete: Cascade *)
Remove(q) ==
  /\ enabled[q] # "deleted"
  /\ enabled' = [enabled EXCEPT ![q] = "deleted"]
  /\ steps' = [steps EXCEPT ![q] = {}]
  /\ run' = [r \in Run |-> IF SeqOf[r] = q /\ Exists(r)
                           THEN [run[r] EXCEPT !.status = "gone"] ELSE run[r]]
  /\ UNCHANGED <<lead, todo, task, edit, history, budgets>>

-----------------------------------------------------------------------------
(* Leads and the clock *)

CloseLead(l) ==
  /\ lead[l] = "open"
  /\ lead' = [lead EXCEPT ![l] = "closed"]
  /\ closed' = closed \cup {l}
  /\ UNCHANGED <<run, steps, enabled, todo, task, edit, sent, doubled, mixed, budgets>>

ReopenLead(l) ==
  /\ lead[l] = "closed"
  /\ lead' = [lead EXCEPT ![l] = "open"]
  /\ UNCHANGED <<run, steps, enabled, todo, task, edit, history, budgets>>

DeleteLead(l) ==
  /\ lead[l] # "gone"
  /\ lead' = [lead EXCEPT ![l] = "gone"]
  /\ run' = [r \in Run |-> IF LeadOf[r] = l /\ Exists(r)
                           THEN [run[r] EXCEPT !.status = "gone"] ELSE run[r]]
  /\ UNCHANGED <<steps, enabled, todo, task, edit, history, budgets>>

Elapse(r) ==
  /\ run[r].next = "later"
  /\ run' = [run EXCEPT ![r].next = "due"]
  /\ UNCHANGED <<steps, enabled, lead, todo, task, edit, history, budgets>>

-----------------------------------------------------------------------------
Next ==
  \/ \E t \in Tick : HandleFollowUpTick(t) \/ Step(t) \/ IterationFails(t)
  \/ Crash
  \/ \E r \in Run : EnrollLead(r) \/ CancelRun(r) \/ Elapse(r)
  \/ \E e \in Editor :
       \/ \E q \in Sequence, list \in StepList : DeleteSteps(e, q, list)
       \/ CreateSteps(e) \/ EditFails(e)
  \/ \E q \in Sequence : ToggleSequence(q) \/ Remove(q)
  \/ \E l \in Lead : CloseLead(l) \/ ReopenLead(l) \/ DeleteLead(l)

Spec == Init /\ [][Next]_vars

(* Time passes, the cron fires every minute, and a tick waits for nothing  *)
(* but the database and requests of 15 seconds at most.                    *)
FairSpec == /\ Spec
            /\ \A t \in Tick : WF_vars(HandleFollowUpTick(t)) /\ WF_vars(Step(t))
            /\ \A r \in Run : WF_vars(Elapse(r))

-----------------------------------------------------------------------------
(* Properties *)

TimesSent(r, k) == IF k \in DOMAIN sent[r] THEN sent[r][k] ELSE 0

(* The state has its shape. *)
TypeOK ==
  /\ run \in [Run -> RunRow]
  /\ steps \in [Sequence -> SUBSET StepRow]
  /\ enabled \in [Sequence -> {"yes", "no", "deleted"}]
  /\ lead \in [Lead -> {"open", "closed", "gone"}]
  /\ todo \in [Tick -> SUBSET Snapshot]
  /\ \A t \in Tick : task[t] \in Task \cup {Idle}
  /\ \A e \in Editor : edit[e] = NoEdit \/ edit[e].list \in StepList
  /\ \A r \in Run : \A k \in DOMAIN sent[r] : k \in Nat /\ sent[r][k] \in Nat
  /\ doubled \in [Run -> Nat] /\ mixed \subseteq Sequence /\ closed \subseteq Lead
  /\ edits \in Nat /\ faults \in Nat

(* A step is sent again only after a failure or a crash, or because a tick *)
(* fetched the run that another had (follow-up.scheduler.ts:21 starts one  *)
(* every minute): one message more for each, whatever is edited, cancelled *)
(* or reopened meanwhile.                                                  *)
StepSentOnce ==
  \A r \in Run : \A k \in DOMAIN sent[r] :
    sent[r][k] <= 1 + faults + doubled[r]

(* A run that stands at a step has sent every step before it.              *)
NothingSkipped ==
  \A r \in Run : \A k \in 0..run[r].step : k < run[r].step => TimesSent(r, k) > 0

(* A cancelled run that no tick holds stays cancelled, and no tick takes   *)
(* it: nothing more is sent.                                               *)
CancelledIsFinal ==
  [][\A r \in Run : run[r].status = "CANCELLED" /\ ~Held(r) =>
       run'[r].status \in {"CANCELLED", "gone"} /\ ~Held(r)']_vars

(* "sends the current step's message, and advances to the next step (or    *)
(* completes)": a completed run has sent all its steps, or its lead was    *)
(* LOST or WON, or the steps were edited: a tick between the delete and    *)
(* the create of an update finds none and completes the run.               *)
CompletedIsDone ==
  edits = 0 =>
    \A r \in Run : run[r].status = "COMPLETED" /\ LeadOf[r] \notin closed =>
      \A k \in 0..Cardinality(steps[SeqOf[r]]) - 1 : TimesSent(r, k) > 0

HasEmail(q) == \E s \in steps[q] : s.channel = "EMAIL"

(* An active run with a date goes through its steps and ends, whatever is  *)
(* edited, fails or crashes meanwhile; but a step on EMAIL, which the form *)
(* offers and the messages table refuses, fails at every tick.             *)
RunsFinish ==
  \A r \in Run :
    run[r].status = "ACTIVE" /\ run[r].next # "never" ~>
      run[r].status # "ACTIVE" \/ HasEmail(SeqOf[r])

(* "If steps provided, replace them all": the steps of a sequence are      *)
(* those of one update, unless two of it were under way at once: then      *)
(* both have deleted before either creates, and both lists stay.           *)
StepsOfOneUpdate ==
  \A q \in Sequence \ mixed : \A s, t \in steps[q] : s.edit = t.edit

(* The steps of a sequence go out one after the other, once, to the last,  *)
(* whatever is edited meanwhile (StepSentOnce, NothingSkipped,             *)
(* CompletedIsDone, StepsOfOneUpdate).                                     *)
StepsInOrder == StepSentOnce /\ NothingSkipped /\ CompletedIsDone /\ StepsOfOneUpdate

(* Runs come to an end, and one that a user ended is not taken up again    *)
(* (RunsFinish, CancelledIsFinal).                                         *)
RunsEnd == RunsFinish /\ CancelledIsFinal
=============================================================================
