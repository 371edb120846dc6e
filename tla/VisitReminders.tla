---------------------------- MODULE VisitReminders ----------------------------
(* AppointmentReminderScheduler: every ten minutes the visits of the next hour  *)
(* that were not reminded are listed, and for each one the agent is notified,   *)
(* the lead written to when asked for, and the visit flagged.  The list is not  *)
(* read again; an error ends the pass; a pass may still run when the next one   *)
(* starts.  Visits are moved, closed and removed at the same time.              *)
EXTENDS Integers, Sequences, FiniteSets

CONSTANTS Booked, Passes,     \* visits, and passes of the scheduler that may run at once
          Window,             \* passes that fit in the hour before a visit
          MaxEarly,           \* bound: passes before the first window
          MaxChanges,         \* bound: visits moved, closed or removed
          MaxFailures         \* bound: statements that fail

ASSUME ReminderAssumption ==
  /\ Window \in Nat \ {0} /\ MaxEarly \in Nat /\ MaxChanges \in Nat /\ MaxFailures \in Nat
  /\ IsFiniteSet(Booked) /\ IsFiniteSet(Passes)

VARIABLES
  status,       \* "open" (SCHEDULED, CONFIRMED), "closed" or "removed"
  due,          \* passes until the visit: in its hour from Window to 1, past at 0
  reminded,     \* reminderSent
  wants,        \* sendWhatsappReminder, and the lead has a phone
  hand, pc,     \* what each pass has left to do: a sequence of visits, and its step
  told,         \* notifications to the agent, for each visit
  texts, jobs,   \* messages to the lead, and those with a message.retry job
  lost,         \* passes of its hour that did not get to flag the visit
  broken,       \* passes that ended between its notification and its flag
  doubled,      \* passes that listed it while another one had it in hand
  touched,      \* visits moved, closed or removed
  changes, failures

reminderVars == <<status, due, reminded, wants, hand, pc, told, texts, jobs, lost, broken, doubled,
                  touched, changes, failures>>
sent == <<told, texts, jobs>>
ghosts == <<lost, broken, doubled>>
bookings == <<status, due, wants, touched>>

ReminderInit ==
  /\ status = [v \in Booked |-> "open"] /\ due \in [Booked -> Window..(Window + MaxEarly)]
  /\ reminded = [v \in Booked |-> FALSE] /\ wants \in [Booked -> BOOLEAN]
  /\ hand = [p \in Passes |-> <<>>] /\ pc = [p \in Passes |-> "idle"]
  /\ told = [v \in Booked |-> 0] /\ texts = told /\ jobs = told
  /\ lost = told /\ broken = told /\ doubled = told
  /\ touched = {} /\ changes = 0 /\ failures = 0

Members(s) == {s[k] : k \in DOMAIN s}
More(f, S) == [v \in Booked |-> IF v \in S THEN f[v] + 1 ELSE f[v]]
InHour == {v \in Booked : due[v] \in 1..Window}

\* the list: open, within the hour, not reminded (every visit here has an agent)
Upcoming_LastMinute == {v \in Booked : status[v] = "open" /\ due[v] = 1 /\ ~reminded[v]}
Upcoming == {v \in InHour : status[v] = "open" /\ ~reminded[v]}
Orders(S) == {s \in [1..Cardinality(S) -> S] : Members(s) = S}

\* the cron fires: a pass starts with its list, in any order, and time goes on.
\* Bound: there are no more passes at once than Passes.
Later == due' = [v \in Booked |-> IF due[v] = 0 THEN 0 ELSE due[v] - 1]
Tick(p) ==
  /\ pc[p] = "idle" /\ (\E v \in Booked : due[v] > 0) /\ Later
  /\ \E s \in Orders(Upcoming) :
       /\ hand' = [hand EXCEPT ![p] = s]
       /\ pc' = [pc EXCEPT ![p] = IF s = <<>> THEN "idle" ELSE "notify"]
  /\ doubled' = More(doubled, Upcoming \cap UNION {Members(hand[q]) : q \in Passes})
  /\ UNCHANGED <<status, reminded, wants, sent, lost, broken, touched, changes, failures>>
\* the worker is down when the cron should fire
Missed ==
  /\ failures < MaxFailures /\ failures' = failures + 1
  /\ (\E v \in Booked : due[v] > 0) /\ Later /\ lost' = More(lost, Upcoming)
  /\ UNCHANGED <<status, reminded, wants, hand, pc, sent, broken, doubled, touched, changes>>

First(p) == Head(hand[p])
PassGoes(p, step) == pc' = [pc EXCEPT ![p] = step]
NextVisit(p) ==
  /\ hand' = [hand EXCEPT ![p] = Tail(@)] /\ PassGoes(p, IF Len(hand[p]) = 1 THEN "idle" ELSE "notify")
\* an exception is logged and leaves the loop, with the rest of the list
Aborts(p) ==
  /\ hand' = [hand EXCEPT ![p] = <<>>] /\ PassGoes(p, "idle")
  /\ lost' = More(lost, Members(hand[p]))
  /\ broken' = IF pc[p] = "notify" THEN broken ELSE More(broken, {First(p)})
  /\ UNCHANGED <<reminded, sent, doubled>>

\* the agent is notified; the lead gets a message when it was asked for
Notify(p) ==
  /\ pc[p] = "notify" /\ told' = More(told, {First(p)})
  /\ PassGoes(p, IF wants[First(p)] THEN "write" ELSE "flag")
  /\ UNCHANGED <<bookings, reminded, hand, texts, jobs, ghosts, changes, failures>>
WriteMessage(p) ==
  /\ pc[p] = "write" /\ texts' = More(texts, {First(p)}) /\ PassGoes(p, "queue")
  /\ UNCHANGED <<bookings, reminded, hand, told, jobs, ghosts, changes, failures>>
QueueMessage(p) ==
  /\ pc[p] = "queue" /\ jobs' = More(jobs, {First(p)}) /\ PassGoes(p, "flag")
  /\ UNCHANGED <<bookings, reminded, hand, told, texts, ghosts, changes, failures>>

\* reminderSent, by id: a visit removed meanwhile makes it throw
Flagged_OnlyWritten(v) == wants[v]
Flagged(v) == TRUE
Flag(p) ==
  /\ pc[p] = "flag"
  /\ IF status[First(p)] = "removed" THEN Aborts(p)
     ELSE /\ reminded' = [reminded EXCEPT ![First(p)] = @ \/ Flagged(First(p))] /\ NextVisit(p)
          /\ UNCHANGED <<sent, ghosts>>
  /\ UNCHANGED <<bookings, changes, failures>>

\* a statement fails: those for the message are caught, the others end the pass
StatementFails(p) ==
  /\ pc[p] # "idle" /\ failures < MaxFailures /\ failures' = failures + 1
  /\ IF pc[p] \in {"write", "queue"} THEN PassGoes(p, "flag") /\ UNCHANGED <<reminded, hand, sent, ghosts>>
     ELSE Aborts(p)
  /\ UNCHANGED <<bookings, changes>>

\* update and remove in VisitsService; a new date leaves reminderSent as it is
Change(v) ==
  /\ changes < MaxChanges /\ changes' = changes + 1 /\ touched' = touched \cup {v}
  /\ status[v] # "removed" /\ UNCHANGED <<reminded, wants, hand, pc, sent, ghosts, failures>>
SetStatus(v) ==
  /\ Change(v) /\ status' = [status EXCEPT ![v] = IF @ = "open" THEN "closed" ELSE "open"]
  /\ UNCHANGED due
SetDate(v) ==
  /\ Change(v) /\ due[v] # Window + 1 /\ due' = [due EXCEPT ![v] = Window + 1] /\ UNCHANGED status
RemoveVisit(v) == Change(v) /\ status' = [status EXCEPT ![v] = "removed"] /\ UNCHANGED due

ReminderNext ==
  \/ \E p \in Passes :
       Tick(p) \/ Notify(p) \/ WriteMessage(p) \/ QueueMessage(p) \/ Flag(p) \/ StatementFails(p)
  \/ Missed \/ \E v \in Booked : SetStatus(v) \/ SetDate(v) \/ RemoveVisit(v)

-----------------------------------------------------------------------------
(* Properties.                                                                  *)

ReminderTypeOK ==
  /\ status \in [Booked -> {"open", "closed", "removed"}] /\ due \in [Booked -> 0..(Window + MaxEarly + 1)]
  /\ \A p \in Passes : hand[p] = <<>> <=> pc[p] = "idle"
  /\ reminded \in [Booked -> BOOLEAN]

\* A visit that nobody touched is flagged when its hour is over, unless as many passes
\* were lost as fit in the hour: one bad pass, or one visit removed while it is worked
\* on, is made good by the next (appointment-reminder.scheduler.ts:106).
BeforeTheVisit ==
  \A v \in Booked \ touched : due[v] = 0 /\ ~reminded[v] /\ lost[v] < Window =>
    \E p \in Passes : v \in Members(hand[p])

\* The agent is told once, and once more for each pass that broke off after telling or
\* worked beside another one; a flagged visit was told of; and its lead was written to,
\* with a job to send it, unless a statement failed.
RemindedOnce ==
  \A v \in Booked :
    /\ told[v] <= 1 + broken[v] + doubled[v] /\ jobs[v] <= texts[v] /\ texts[v] <= told[v]
    /\ reminded[v] => told[v] >= 1 /\ (wants[v] /\ failures = 0 => jobs[v] >= 1)
=============================================================================
