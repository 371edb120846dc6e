----------------------------- MODULE QueueDrain -----------------------------
(***************************************************************************)
(* The queue of deferred rule executions (table QueuedAction) and its      *)
(* three users: RuleEngineService.evaluate, which enqueues a rule that     *)
(* matched outside its working hours; QueueDrainScheduler, whose cron job  *)
(* drains the table; and the API's QueuedActionsService and RulesService,  *)
(* whose handlers cancel, retry, edit and delete the same rows.            *)
(*                                                                         *)
(* Every await of the drain is a step of its own: between two steps of one *)
(* cycle the API, another agent's group or another cycle may run.  A cycle *)
(* works on the rows it fetched (`batch'), never on the rows as they are.  *)
(***************************************************************************)
EXTENDS Integers, FiniteSets

CONSTANTS
  Item,            \* identifiers of queued actions, in the order of createdAt
  Agent,           \* assignees; "unassigned" is one more of them
  Rule,            \* rules with working hours
  AgentOf,         \* the assigneeId stored with an item
  RuleOf,          \* the ruleId stored with an item
  Drain,           \* slots for drain cycles: as many as may be alive at once
  Call,            \* API requests in progress
  BatchSize,       \* BATCH_SIZE
  PerAgentLimit,   \* PER_AGENT_LIMIT
  FaultPoints,     \* statements of the drain at which the database may fail, and
                   \* whether the worker may crash
  MaxFaults,       \* bound: failures and crashes
  MaxRetries,      \* bound: accepted retries of each item
  MaxEdits,        \* bound: accepted message edits of each item
  MaxOverlaps,     \* bound: times one item is fetched while a cycle has it
  MaxDelay,        \* bound: cron ticks until the next working window
  MaxOverdue       \* bound: ticks after which an item is "long overdue"

(* The cascade on Rule and the assignee column give each item one rule and *)
(* one group; a cycle fetches at least one row.                            *)
ASSUME QueueAssumption ==
  /\ Item \subseteq Nat
  /\ AgentOf \in [Item -> Agent]
  /\ RuleOf \in [Item -> Rule]
  /\ BatchSize \in Nat \ {0} /\ PerAgentLimit \in Nat \ {0}
  /\ FaultPoints \subseteq {"start", "complete", "catch", "crash"}
  /\ MaxFaults \in Nat
  /\ MaxRetries \in [Item -> Nat] /\ MaxEdits \in [Item -> Nat]
  /\ MaxOverlaps \in Nat /\ IsFiniteSet(Drain)
  /\ MaxDelay \in Nat \ {0} /\ MaxOverdue \in Nat

(* "Retries up to 2 times": the attempt that finds this many attempts on   *)
(* the row it fetched is the last one.                                     *)
RetryLimit == 2

VARIABLES
  status,    \* the row's status; "none" before it exists, "gone" after delete
  attempts,  \* the row's attempts column
  due,       \* ticks until processAt; 0 or less when processAt <= now
  message,   \* version of messageOverride, counted in accepted edits
  rule,      \* the rule's row
  open,      \* the rules now within their working hours
  batch,     \* per cycle, the rows fetched and not yet dealt with
  pc,        \* per cycle and agent group, the statement reached
  call,      \* per API request, the check it has made and the item
  ran,       \* history: times the item's actions were executed
  said,      \* history: message version of the latest execution
  retries,   \* history: accepted retries
  doubled,   \* history: times the item was fetched while a cycle had it
  faults     \* failures and crashes

rows    == <<status, attempts, due, message>>
ledger  == <<ran, said, retries, doubled>>
vars    == <<rows, rule, open, batch, pc, call, ledger, faults>>

Status == {"none", "pending", "processing", "completed", "failed",
           "cancelled", "gone"}

(* What a cycle keeps of a row: item, attempts, messageOverride, rule.enabled *)
(* and the sort key.                                                          *)
Snapshot == [item : Item, attempts : Nat, message : Nat, enabled : BOOLEAN,
             due : Int]

NoCall == [op |-> "none"]
Request == [op : {"cancel", "retry", "edit"}, item : Item]

-----------------------------------------------------------------------------
(* Helpers *)

Exists(i) == status[i] \notin {"none", "gone"}

(* orderBy processAt asc, createdAt asc *)
Precedes(s, t) == \/ s.due < t.due
                  \/ s.due = t.due /\ s.item < t.item

First(S, k) == {s \in S : Cardinality({t \in S : Precedes(t, s)}) < k}

Group(d, a) == {s \in batch[d] : AgentOf[s.item] = a}

(* The item the loop of processAgentQueue is at. *)
Current(d, a) ==
  {s \in Group(d, a) : \A t \in Group(d, a) \ {s} : Precedes(s, t)}

(* A tick later every processAt is one tick nearer. *)
Aged == [i \in Item |-> IF status[i] # "none" /\ due[i] > -MaxOverdue
                        THEN due[i] - 1 ELSE due[i]]

(* where: status pending and processAt <= now (or null) *)
Ready_WithProcessing ==
  {i \in Item : status[i] \in {"pending", "processing"} /\ Aged[i] <= 0}
Ready_WithCancelled ==
  {i \in Item : status[i] \in {"pending", "cancelled"} /\ Aged[i] <= 0}
Ready == {i \in Item : status[i] = "pending" /\ Aged[i] <= 0}

Fetched ==
  {[item |-> i, attempts |-> attempts[i], message |-> message[i],
    enabled |-> rule[RuleOf[i]] = "enabled", due |-> Aged[i]] : i \in Ready}

(* take BATCH_SIZE rows, then at most PER_AGENT_LIMIT of each agent *)
Grouped == LET top == First(Fetched, BatchSize)
           IN  UNION {First({s \in top : AgentOf[s.item] = a}, PerAgentLimit)
                      : a \in Agent}

(* The cycles that have a row in hand, and the rows fetched once more. *)
Holders(i) == {d \in Drain : \E s \in batch[d] : s.item = i}
Held(i) == Holders(i) # {}
Twice == {i \in Item : Held(i) /\ \E s \in Grouped : s.item = i}

(* item.attempts >= 2, on the row as fetched *)
Exhausted_LateByOne(s) == s.attempts > RetryLimit
Exhausted_EarlyByOne(s) == s.attempts >= RetryLimit - 1
Exhausted(s) == s.attempts >= RetryLimit

(* The status an exception leaves behind. *)
Outcome_NotReset(s) == IF Exhausted(s) THEN "failed" ELSE "processing"
Outcome(s) == IF Exhausted(s) THEN "failed" ELSE "pending"

(* attempts: { increment: 1 }, computed by the database *)
Incremented_FromSnapshot(s) == s.attempts + 1
Incremented(s) == attempts[s.item] + 1

(* executeSingleRule finds the rule, enabled or not. *)
RuleFound_IfEnabled(i) == rule[RuleOf[i]] = "enabled"
RuleFound(i) == rule[RuleOf[i]] # "deleted"

Goto(d, a, label) == pc' = [pc EXCEPT ![d][a] = label]

(* The loop goes on with the next item of the group: at once after a       *)
(* `continue', and after a pause of one to three minutes otherwise.        *)
NextItem(d, a, s, label) == /\ batch' = [batch EXCEPT ![d] = @ \ {s}]
                            /\ Goto(d, a, label)

AfterPause_Always(d, a, s) == "pause"
AfterPause(d, a, s) == IF Group(d, a) = {s} THEN "check" ELSE "pause"

(* The top of the loop: entered, or reached at the end of a pause. *)
AtTop(d, a) == pc[d][a] \in {"check", "pause"}

(* The other cycles alive at a cron tick are at something that takes       *)
(* minutes, a pause or an execution: a few updates do not last five.       *)
OthersAreSlow ==
  \A e \in Drain, a \in Agent : Group(e, a) # {} => pc[e][a] # "check"

(* An exception leaves processAgentQueue: the rest of the group is dropped. *)
AbandonGroup(d, a) == /\ batch' = [batch EXCEPT ![d] = @ \ Group(d, a)]
                      /\ Goto(d, a, "check")

Fault(point) == /\ point \in FaultPoints /\ faults < MaxFaults
                /\ faults' = faults + 1

-----------------------------------------------------------------------------
Init ==
  /\ status = [i \in Item |-> "none"]
  /\ attempts = [i \in Item |-> 0]
  /\ due = [i \in Item |-> 0]
  /\ message = [i \in Item |-> 0]
  /\ rule = [r \in Rule |-> "enabled"]
  /\ open \in SUBSET Rule
  /\ batch = [d \in Drain |-> {}]
  /\ pc = [d \in Drain |-> [a \in Agent |-> "check"]]
  /\ call = [c \in Call |-> NoCall]
  /\ ran = [i \in Item |-> 0]
  /\ said = [i \in Item |-> 0]
  /\ retries = [i \in Item |-> 0] /\ doubled = [i \in Item |-> 0]
  /\ faults = 0

-----------------------------------------------------------------------------
(* RuleEngineService.evaluate: an enabled rule matched outside its hours. *)
Enqueue(i) ==
  /\ status[i] = "none"
  /\ \A j \in Item : j > i => status[j] = "none"
  /\ rule[RuleOf[i]] = "enabled" /\ RuleOf[i] \notin open
  /\ \E n \in 1..MaxDelay : due' = [due EXCEPT ![i] = n]
  /\ status' = [status EXCEPT ![i] = "pending"]
  /\ UNCHANGED <<attempts, message, rule, open, batch, pc, call, ledger, faults>>

-----------------------------------------------------------------------------
(* QueueDrainScheduler *)

(* The cron fires: fetch the ready rows and start one loop per agent.      *)
(* Nothing looks at the cycles still running (a free slot bounds them): a  *)
(* row that one of them has, and that is pending still or again, is        *)
(* fetched a second time.                                                  *)
DrainQueue(d) ==
  /\ batch[d] = {} /\ OthersAreSlow
  /\ \A i \in Twice : doubled[i] < MaxOverlaps
  /\ due' = Aged
  /\ batch' = [batch EXCEPT ![d] = Grouped]
  /\ doubled' = [i \in Item |-> IF i \in Twice THEN doubled[i] + 1 ELSE doubled[i]]
  /\ UNCHANGED <<status, attempts, message, rule, open, pc, call, ran, said, retries, faults>>

(* if (!item.rule || !item.rule.enabled), on the row as fetched *)
CancelDisabled(d, a, s) ==
  /\ AtTop(d, a) /\ ~s.enabled
  /\ IF Exists(s.item)
     THEN /\ status' = [status EXCEPT ![s.item] = "cancelled"]
          /\ NextItem(d, a, s, "check")
     ELSE AbandonGroup(d, a) /\ UNCHANGED status
  /\ UNCHANGED <<attempts, due, message, rule, open, call, ledger, faults>>

(* Outside working hours: processAt moves, the status stays. *)
Reschedule(d, a, s) ==
  /\ AtTop(d, a) /\ s.enabled /\ RuleOf[s.item] \notin open
  /\ IF Exists(s.item)
     THEN /\ \E n \in 1..MaxDelay : due' = [due EXCEPT ![s.item] = n]
          /\ NextItem(d, a, s, "check")
     ELSE AbandonGroup(d, a) /\ UNCHANGED due
  /\ UNCHANGED <<status, attempts, message, rule, open, call, ledger, faults>>

(* status "processing", attempts + 1: unconditional on the row's status *)
Start(d, a, s) ==
  /\ AtTop(d, a) /\ s.enabled /\ RuleOf[s.item] \in open
  /\ IF Exists(s.item)
     THEN /\ status' = [status EXCEPT ![s.item] = "processing"]
          /\ attempts' = [attempts EXCEPT ![s.item] = Incremented(s)]
          /\ Goto(d, a, "execute")
     ELSE Goto(d, a, "catch") /\ UNCHANGED <<status, attempts>>
  /\ UNCHANGED <<due, message, rule, open, batch, call, ledger, faults>>

(* The same update rejected by the database. *)
StartFails(d, a, s) ==
  /\ AtTop(d, a) /\ s.enabled /\ RuleOf[s.item] \in open
  /\ Fault("start")
  /\ Goto(d, a, "catch")
  /\ UNCHANGED <<rows, rule, open, batch, call, ledger>>

(* executeSingleRule reads the rule again, whatever its `enabled', and runs *)
(* its actions; the event it logs at the end may fail and throw.            *)
Execute(d, a, s) ==
  /\ pc[d][a] = "execute"
  /\ IF RuleFound(s.item)
     THEN /\ ran' = [ran EXCEPT ![s.item] = @ + 1]
          /\ said' = [said EXCEPT ![s.item] = s.message]
          /\ \E label \in {"complete", "catch"} : Goto(d, a, label)
     ELSE Goto(d, a, "complete") /\ UNCHANGED <<ran, said>>
  /\ UNCHANGED <<rows, rule, open, batch, call, retries, doubled, faults>>

(* status "completed" *)
Complete(d, a, s) ==
  /\ pc[d][a] = "complete"
  /\ IF Exists(s.item)
     THEN /\ status' = [status EXCEPT ![s.item] = "completed"]
          /\ NextItem(d, a, s, AfterPause(d, a, s))
     ELSE Goto(d, a, "catch") /\ UNCHANGED <<status, batch>>
  /\ UNCHANGED <<attempts, due, message, rule, open, call, ledger, faults>>

CompleteFails(d, a, s) ==
  /\ pc[d][a] = "complete"
  /\ Fault("complete")
  /\ Goto(d, a, "catch")
  /\ UNCHANGED <<rows, rule, open, batch, call, ledger>>

(* The catch block: retry two ticks from now, or give up. *)
Catch(d, a, s) ==
  /\ pc[d][a] = "catch"
  /\ IF Exists(s.item)
     THEN /\ status' = [status EXCEPT ![s.item] = Outcome(s)]
          /\ due' = IF Exhausted(s) THEN due ELSE [due EXCEPT ![s.item] = 2]
          /\ NextItem(d, a, s, AfterPause(d, a, s))
     ELSE AbandonGroup(d, a) /\ UNCHANGED <<status, due>>
  /\ UNCHANGED <<attempts, message, rule, open, call, ledger, faults>>

(* The update of the catch block fails in its turn. *)
CatchFails(d, a, s) ==
  /\ pc[d][a] = "catch"
  /\ Fault("catch")
  /\ AbandonGroup(d, a)
  /\ UNCHANGED <<rows, rule, open, call, ledger>>

Step(d, a) == \E s \in Current(d, a) :
  \/ CancelDisabled(d, a, s) \/ Reschedule(d, a, s)
  \/ Start(d, a, s) \/ StartFails(d, a, s)
  \/ Execute(d, a, s)
  \/ Complete(d, a, s) \/ CompleteFails(d, a, s)
  \/ Catch(d, a, s) \/ CatchFails(d, a, s)

(* The worker stops and starts again: cycles live in its memory only. *)
Crash ==
  /\ Fault("crash")
  /\ batch' = [d \in Drain |-> {}]
  /\ pc' = [d \in Drain |-> [a \in Agent |-> "check"]]
  /\ UNCHANGED <<rows, rule, open, call, ledger>>

-----------------------------------------------------------------------------
(* QueuedActionsService: each handler reads the row, checks its status and *)
(* then updates it by id.                                                  *)

Check(c, op, i) ==
  /\ call[c] = NoCall
  /\ call' = [call EXCEPT ![c] = [op |-> op, item |-> i]]
  /\ UNCHANGED <<rows, rule, open, batch, pc, ledger, faults>>

CancelCheck(c, i) == status[i] = "pending" /\ Check(c, "cancel", i)

RetryCheck(c, i) ==
  /\ status[i] = "failed" /\ retries[i] < MaxRetries[i]
  /\ Check(c, "retry", i)

EditCheck(c, i) ==
  /\ status[i] = "pending" /\ message[i] < MaxEdits[i]
  /\ Check(c, "edit", i)

Return(c) == call' = [call EXCEPT ![c] = NoCall]

CancelWrite(c) ==
  /\ call[c] # NoCall /\ call[c].op = "cancel"
  /\ status' = IF Exists(call[c].item)
               THEN [status EXCEPT ![call[c].item] = "cancelled"] ELSE status
  /\ Return(c)
  /\ UNCHANGED <<attempts, due, message, rule, open, batch, pc, ledger, faults>>

(* retry resets the status and the error, not attempts and not processAt *)
RetryWrite_DropsEdit(c) ==
  /\ call[c] # NoCall /\ call[c].op = "retry" /\ Exists(call[c].item)
  /\ status' = [status EXCEPT ![call[c].item] = "pending"]
  /\ retries' = [retries EXCEPT ![call[c].item] = @ + 1]
  /\ message' = [message EXCEPT ![call[c].item] = 0]
  /\ Return(c)
  /\ UNCHANGED <<attempts, due, rule, open, batch, pc, ran, said, doubled, faults>>
RetryWrite(c) ==
  /\ call[c] # NoCall /\ call[c].op = "retry"
  /\ IF Exists(call[c].item)
     THEN /\ status' = [status EXCEPT ![call[c].item] = "pending"]
          /\ retries' = [retries EXCEPT ![call[c].item] = @ + 1]
     ELSE UNCHANGED <<status, retries>>
  /\ Return(c)
  /\ UNCHANGED <<attempts, due, message, rule, open, batch, pc, ran, said, doubled, faults>>

EditWrite(c) ==
  /\ call[c] # NoCall /\ call[c].op = "edit"
  /\ message' = IF Exists(call[c].item)
                THEN [message EXCEPT ![call[c].item] = @ + 1] ELSE message
  /\ Return(c)
  /\ UNCHANGED <<status, attempts, due, rule, open, batch, pc, ledger, faults>>

(* cancelAll is one updateMany on the pending rows. *)
CancelAll ==
  /\ \E i \in Item : status[i] = "pending"
  /\ status' = [i \in Item |-> IF status[i] = "pending" THEN "cancelled"
                               ELSE status[i]]
  /\ UNCHANGED <<attempts, due, message, rule, open, batch, pc, call, ledger, faults>>

-----------------------------------------------------------------------------
(* RulesService and the clock *)

ToggleRule(r) ==
  /\ rule[r] # "deleted"
  /\ rule' = [rule EXCEPT ![r] = IF @ = "enabled" THEN "disabled" ELSE "enabled"]
  /\ UNCHANGED <<rows, open, batch, pc, call, ledger, faults>>

(* onDelete: Cascade removes the rule's queued actions. *)
DeleteRule(r) ==
  /\ rule[r] # "deleted"
  /\ rule' = [rule EXCEPT ![r] = "deleted"]
  /\ status' = [i \in Item |-> IF RuleOf[i] = r /\ Exists(i) THEN "gone"
                               ELSE status[i]]
  /\ UNCHANGED <<attempts, due, message, open, batch, pc, call, ledger, faults>>

HoursChange(r) ==
  /\ open' = (open \ {r}) \cup ({r} \ open)
  /\ UNCHANGED <<rows, rule, batch, pc, call, ledger, faults>>

Next ==
  \/ \E i \in Item : Enqueue(i)
  \/ \E d \in Drain : DrainQueue(d) \/ \E a \in Agent : Step(d, a)
  \/ Crash
  \/ \E c \in Call :
       \/ \E i \in Item : CancelCheck(c, i) \/ RetryCheck(c, i) \/ EditCheck(c, i)
       \/ CancelWrite(c) \/ RetryWrite(c) \/ EditWrite(c)
  \/ CancelAll
  \/ \E r \in Rule : ToggleRule(r) \/ DeleteRule(r) \/ HoursChange(r)

Spec == Init /\ [][Next]_vars

(* The cron keeps firing and a started cycle keeps going: nothing in the   *)
(* worker waits for anything but the database and a timer.                 *)
FairSpec == /\ Spec
            /\ \A d \in Drain : WF_vars(DrainQueue(d))
            /\ \A d \in Drain, a \in Agent : WF_vars(Step(d, a))
-----------------------------------------------------------------------------
(* Properties *)

(* The state has its shape, and a loop with no item left is at its start. *)
TypeOK ==
  /\ status \in [Item -> Status]
  /\ attempts \in [Item -> Nat]
  /\ due \in [Item -> Int]
  /\ message \in [Item -> Nat]
  /\ rule \in [Rule -> {"enabled", "disabled", "deleted"}]
  /\ open \in SUBSET Rule
  /\ batch \in [Drain -> SUBSET Snapshot]
  /\ pc \in [Drain -> [Agent -> {"check", "pause", "execute", "complete", "catch"}]]
  /\ call \in [Call -> Request \cup {NoCall}]
  /\ ran \in [Item -> Nat] /\ said \in [Item -> Nat] /\ retries \in [Item -> Nat]
  /\ doubled \in [Item -> Nat]
  /\ faults \in Nat
  /\ \A d \in Drain, a \in Agent : Group(d, a) = {} => pc[d][a] = "check"

(* "Retries up to 2 times before marking as failed" as a bound: whatever    *)
(* fails, crashes or races in the API, an item is attempted at most three   *)
(* times, plus once for each accepted retry and once for each time a cycle  *)
(* fetched it while another had it (queue-drain.scheduler.ts:37 starts one  *)
(* every five minutes, whatever still runs).                                *)
WithinBudget == \A i \in Item : attempts[i] <= RetryLimit + 1 + retries[i] + doubled[i]

(* The other side of the same sentence: no item is given up on before its   *)
(* attempts were used, except for the one the database refused to record.   *)
FailedOnlyWhenSpent ==
  \A i \in Item : status[i] = "failed" =>
    attempts[i] >= IF "start" \in FaultPoints THEN RetryLimit ELSE RetryLimit + 1

(* A row says "completed" only if its rule's actions did run.               *)
CompletedHasRun == \A i \in Item : status[i] = "completed" => ran[i] > 0

(* Actions run only on a recorded attempt: one execution for each.          *)
RunsAreAttempts == \A i \in Item : ran[i] <= attempts[i]

(* A cancelled item that no cycle holds and no retry is about to reset      *)
(* stays cancelled and is not fetched again: the drain resurrects only what *)
(* it held when the user cancelled it.                                      *)
CancelledIsFinal ==
  [][\A i \in Item :
       /\ status[i] = "cancelled" /\ ~Held(i)
       /\ \A c \in Call : call[c] # [op |-> "retry", item |-> i]
       => status'[i] \in {"cancelled", "gone"} /\ ~Held(i)']_vars

(* Once an item's execution has sent a version of its message, no later     *)
(* execution sends an older one, a retry keeps the edit; but of two cycles  *)
(* that have the item the slower one sends what it fetched.                 *)
SaidNeverGoesBack == [][\A i \in Item : said'[i] >= said[i] \/ doubled[i] > 0]_vars

(* The queue implements the ledger of attempts, in which an item that is    *)
(* fetched twice is granted one more, as by a retry.                        *)
Ledger == INSTANCE AttemptLedger WITH Entitlement <- RetryLimit + 1,
            spent <- attempts, granted <- [i \in Item |-> retries[i] + doubled[i]],
            executed <- ran
ImplementsLedger == Ledger!LedgerSpec

(* If every rule's hours come and stay, a pending item is dealt with: it    *)
(* completes, fails, is cancelled or goes with its rule.  No batch or group *)
(* limit starves it; only what a crash caught in processing stays there.    *)
PendingIsDrained ==
  (\A r \in Rule : <>[](r \in open)) =>
    \A i \in Item :
      status[i] = "pending" ~>
        \/ status[i] \notin {"pending", "processing"}
        \/ status[i] = "processing" /\ faults > 0

(* Why the budget holds: every row fetched and not yet begun will take one  *)
(* attempt, and they all fit; a pending row leaves room for the cycle that  *)
(* fetches it; what a cycle fetched is behind the row by its own attempt    *)
(* and those of the cycles that had it too; an attempt that is to execute   *)
(* has been recorded.                                                       *)
Begun(d, s) == /\ s \in Current(d, AgentOf[s.item])
               /\ pc[d][AgentOf[s.item]] \in {"execute", "complete", "catch"}
Fresh(i) == {d \in Drain : \E s \in batch[d] : s.item = i /\ ~Begun(d, s)}
Executing(i) == {d \in Drain : \E s \in batch[d] :
                   s.item = i /\ Begun(d, s) /\ pc[d][AgentOf[i]] = "execute"}

OneSnapshotPerItem ==
  \A d \in Drain : \A s, t \in batch[d] : s.item = t.item => s = t

Claimed(i) == attempts[i] + Cardinality(Fresh(i))
Granted(i) == retries[i] + doubled[i]

BudgetInv ==
  /\ OneSnapshotPerItem
  /\ \A i \in Item :
       /\ Cardinality(Holders(i)) <= doubled[i] + 1
       /\ Claimed(i) <= RetryLimit + 1 + Granted(i)
       /\ status[i] = "none" => attempts[i] = 0
       /\ status[i] = "pending" => attempts[i] <= RetryLimit + Granted(i)
       /\ ran[i] + Cardinality(Executing(i)) <= attempts[i]
  /\ \A d \in Drain : \A s \in batch[d] : Claimed(s.item) <= s.attempts + 1 + doubled[s.item]

(* What a row of the queue says is true, and stays said: no outcome comes   *)
(* too early, and neither a cancellation nor an edit is undone by a cycle   *)
(* that began after it (FailedOnlyWhenSpent, CompletedHasRun,               *)
(* CancelledIsFinal, SaidNeverGoesBack).                                    *)
RowsTellTheTruth ==
  [](FailedOnlyWhenSpent /\ CompletedHasRun) /\ CancelledIsFinal /\ SaidNeverGoesBack
=============================================================================
