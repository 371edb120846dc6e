---------------------------- MODULE DashboardPages ----------------------------
(* The pages of the dashboard.  Each keeps a copy of rows of the API, which it   *)
(* loads when it opens, when a filter changes and after its writes.  Requests    *)
(* run at once and are answered in any order; none is cancelled, and a handler   *)
(* loads with the filter there was when it was pressed.  The pages differ in     *)
(* what their forms write, and in how their buttons show what they do.           *)
EXTENDS Integers, FiniteSets

CONSTANTS MaxRequests,     \* bound: loads, and writes, under way at once
          MaxPageMoves,    \* bound: what users do, and polls
          MaxPageFaults    \* bound: requests that fail

ASSUME PageAssumption == MaxRequests \in Nat \ {0} /\ MaxPageMoves \in Nat /\ MaxPageFaults \in Nat

VARIABLES
  page,         \* the page of this behaviour
  server,       \* a row as the API has it: [text, flag, turns]; turns counts the changes of flag
  filter,       \* what the page asks for
  shown,        \* what it shows: [filter, row]
  waiting,      \* loading: from the start of a load to the end of any
  loads,        \* loads under way: [step, filter, row]
  writes,       \* writes under way: [kind, step, filter, row, flagged, edited]
  form,         \* the form: [open, row, edited]
  excused,      \* requests overlapped, one failed, or others wrote, since a load made alone
  pageMoves, pageFaults

pageVars == <<page, server, filter, shown, waiting, loads, writes, form, excused, pageMoves, pageFaults>>
pageLimits == <<pageMoves, pageFaults>>

-----------------------------------------------------------------------------
(* The pages.  Each is told by what a form writes: nothing (none), its own       *)
(* fields (part), flag too, as it was read (whole), or what differs from the row  *)
(* shown (diff); by its buttons: the page loads afterwards (late), shows the      *)
(* change at once (now) or when it is answered (patch); and by the rest below.    *)

List(writesAs, buttons) ==
  [form |-> writesAs, buttons |-> buttons,
   filters |-> FALSE,     \* a change of filter loads the page
   hides |-> "rows",      \* what cannot be used while it loads
   inline |-> FALSE,      \* the form is always open, and a load fills it anew
   saved |-> "load",      \* what the page does when a form was saved
   polls |-> FALSE]
Filtered(list) == [list EXCEPT !.filters = TRUE]
Inline(writesAs, buttons, hides) == [List(writesAs, buttons) EXCEPT !.inline = TRUE, !.hides = hides]

LeadsPage == Filtered(List("none", {"late"}))
MessagesPage == Filtered(List("none", {"late"}))
PipelinePage == [List("none", {"now"}) EXCEPT !.hides = "all"]
VisitsPage == Filtered(List("whole", {"late"}))
QueuedActionsPage == Filtered(List("none", {"late"}))
QueuedMessageModal == [Filtered(List("part", {})) EXCEPT !.saved = "patch"]
TagsPage == List("part", {"late"})
TemplatesPage == Filtered(List("whole", {"late"}))
StagesPage == List("part", {"late", "now"})
RulesPage == Filtered(List("whole", {"late"}))
FollowUpsPage == List("whole", {"late"})
CustomFieldsPage == List("part", {"late"})
PropertiesPage == Filtered(List("whole", {"late"}))
LeadSourcesPage == Filtered(List("whole", {"late"}))
SettingsPage == Filtered(List("part", {"late"}))
CommissionsList == Filtered(List("part", {"late"}))
CommissionRulesTab == List("part", {"late"})
AgentPerformancePage == [Filtered(List("part", {})) EXCEPT !.hides = "all"]
ReportsPage == Filtered(List("none", {}))
MercadoLibrePage == [List("none", {"late", "patch"}) EXCEPT !.hides = "all"]
AiAgentPage == Inline("whole", {"late"}, "all")
AvailabilityPage == [Inline("whole", {}, "all") EXCEPT !.saved = "patch"]
ProfilePage == Inline("diff", {}, "all")
PreferencesPanel == [List("none", {"patch"}) EXCEPT !.hides = "none"]
LeadDetailPage == Inline("diff", {"late"}, "none")
ConversationPage == [List("none", {"patch"}) EXCEPT !.polls = TRUE, !.hides = "none"]
DashboardLayout == [List("none", {"patch"}) EXCEPT !.polls = TRUE, !.hides = "none"]

Pages == {LeadsPage, MessagesPage, PipelinePage, VisitsPage, QueuedActionsPage, QueuedMessageModal, TagsPage,
  TemplatesPage, StagesPage, RulesPage, FollowUpsPage, CustomFieldsPage, PropertiesPage, LeadSourcesPage,
  SettingsPage, CommissionsList, CommissionRulesTab, AgentPerformancePage, ReportsPage, MercadoLibrePage,
  AiAgentPage, AvailabilityPage, ProfilePage, PreferencesPanel, LeadDetailPage, ConversationPage, DashboardLayout}

-----------------------------------------------------------------------------
(* Loads.                                                                       *)

NoRead == [step |-> "none", filter |-> 1, row |-> [text |-> 0, flag |-> TRUE, turns |-> 0]]
NoWrite == [kind |-> "none", step |-> "none", filter |-> 1, row |-> NoRead.row, flagged |-> FALSE, edited |-> FALSE]
FormOf_Blank(row) == [open |-> TRUE, row |-> [row EXCEPT !.flag = TRUE], edited |-> FALSE]
FormOf(row) == [open |-> TRUE, row |-> row, edited |-> FALSE]
Closed == [FormOf(NoRead.row) EXCEPT !.open = FALSE]
InFlight(ls, ws) == {n \in DOMAIN ls : ls[n].step # "none"} \cup {n \in DOMAIN ws : ws[n].kind # "none"}

Unused(slots) == {n \in slots : \A m \in slots : n <= m}

PageInit ==
  /\ page \in Pages /\ server = NoRead.row /\ filter = 1 /\ shown = [filter |-> 1, row |-> NoRead.row]
  /\ waiting = TRUE /\ excused = FALSE /\ pageMoves = 0 /\ pageFaults = 0
  /\ loads = [n \in 1..MaxRequests |-> IF n = 1 THEN [NoRead EXCEPT !.step = "sent"] ELSE NoRead]
  /\ writes = [n \in 1..MaxRequests |-> NoWrite] /\ form = IF page.inline THEN FormOf(NoRead.row) ELSE Closed

PageMove == pageMoves < MaxPageMoves /\ pageMoves' = pageMoves + 1 /\ UNCHANGED pageFaults
PageFault == pageFaults < MaxPageFaults /\ pageFaults' = pageFaults + 1 /\ UNCHANGED pageMoves
Usable(part) == ~waiting \/ page.hides = "none" \/ (page.hides = "rows" /\ part # "rows")

\* a load begins, after the writes ws are left; made alone, it puts the page right
Loads(f, wanted, ws) ==
  /\ \E n \in Unused({m \in DOMAIN loads : loads[m].step = "none"}) :
       loads' = [loads EXCEPT ![n] = [NoRead EXCEPT !.step = "sent", !.filter = f]]
  /\ waiting' = TRUE
  /\ excused' = (InFlight(loads, ws) # {} \/ (excused /\ f # wanted))

\* the effect of a filter, and the timers of the pages that poll
SetFilter(f) ==
  /\ PageMove /\ page.filters /\ Usable("filters") /\ f # filter /\ filter' = f /\ Loads(f, f, writes)
  /\ UNCHANGED <<page, server, shown, writes, form>>
PollPage ==
  /\ PageMove /\ page.polls /\ Loads(filter, filter, writes)
  /\ UNCHANGED <<page, server, filter, shown, writes, form>>
\* the API reads, then answers: the last answer is shown, whichever was asked last
Reads(n) ==
  /\ loads[n].step = "sent" /\ loads' = [loads EXCEPT ![n].step = "read", ![n].row = server]
  /\ UNCHANGED <<page, server, filter, shown, waiting, writes, form, excused, pageLimits>>
LoadArrives(n) ==
  /\ loads[n].step = "read" /\ loads' = [loads EXCEPT ![n] = NoRead] /\ waiting' = FALSE
  /\ shown' = [filter |-> loads[n].filter, row |-> loads[n].row]
  /\ form' = IF page.inline THEN FormOf(loads[n].row) ELSE form
  /\ UNCHANGED <<page, server, filter, writes, excused, pageLimits>>
LoadFails(n) ==
  /\ PageFault /\ loads[n].step # "none" /\ loads' = [loads EXCEPT ![n] = NoRead]
  /\ waiting' = FALSE /\ excused' = TRUE /\ UNCHANGED <<page, server, filter, shown, writes, form>>

-----------------------------------------------------------------------------
(* Forms, buttons, and what the API makes of them.                              *)

OpenForm ==
  /\ Usable("rows") /\ page.form # "none" /\ ~form.open /\ form' = FormOf(shown.row)
  /\ UNCHANGED <<page, server, filter, shown, waiting, loads, writes, excused, pageLimits>>
EditFlag ==
  /\ Usable("form") /\ form.open /\ page.form \in {"whole", "diff"} /\ ~form.edited
  /\ form' = [form EXCEPT !.row.flag = ~@, !.edited = TRUE]
  /\ UNCHANGED <<page, server, filter, shown, waiting, loads, writes, excused, pageLimits>>

Begin(w) ==
  /\ \E n \in Unused({m \in DOMAIN writes : writes[m].kind = "none"}) : writes' = [writes EXCEPT ![n] = w]
  /\ excused' = (excused \/ InFlight(loads, writes) # {})
\* the button is disabled while a form is being saved
Save ==
  /\ PageMove /\ Usable("form") /\ form.open /\ \A n \in DOMAIN writes : writes[n].kind # "save"
  /\ Begin([kind |-> "save", step |-> "sent", filter |-> filter, row |-> [form.row EXCEPT !.text = pageMoves'],
            flagged |-> page.form = "whole" \/ (page.form = "diff" /\ form.row.flag # shown.row.flag),
            edited |-> form.edited])
  /\ UNCHANGED <<page, server, filter, shown, waiting, loads, form>>
\* a switch, a deletion, a retry, a move: no button but that of a form is guarded
Press(kind) ==
  LET pressed == [shown.row EXCEPT !.flag = ~@, !.turns = @ + 1]
  IN /\ PageMove /\ Usable("rows") /\ kind \in page.buttons
     /\ Begin([NoWrite EXCEPT !.kind = kind, !.step = "sent", !.filter = filter, !.row = pressed, !.flagged = TRUE])
     /\ shown' = IF kind = "now" THEN [shown EXCEPT !.row = pressed] ELSE shown
     /\ UNCHANGED <<page, server, filter, waiting, loads, form>>

Stored(w) ==
  [text |-> IF w.kind = "save" THEN w.row.text ELSE server.text,
   flag |-> IF w.flagged THEN w.row.flag ELSE server.flag,
   turns |-> IF w.flagged /\ w.row.flag # server.flag THEN server.turns + 1 ELSE server.turns]
Applies(n) ==
  /\ writes[n].step = "sent" /\ server' = Stored(writes[n])
  /\ writes' = [writes EXCEPT ![n].step = "done"]
  /\ UNCHANGED <<page, filter, shown, waiting, loads, form, excused, pageLimits>>

Kept(n) == [writes EXCEPT ![n] = NoWrite]
\* what an answered write leads to: a load, the row answered, or nothing
Follows_Nothing(w) == IF w.kind \in {"save", "late"} THEN "none" ELSE "patch"
Follows(w) == CASE w.kind = "save" -> page.saved [] w.kind = "late" -> "load" [] w.kind = "patch" -> "patch" [] OTHER -> "none"
Answered200(n) ==
  LET w == writes[n]  then == Follows(w)
  IN /\ w.step = "done" /\ writes' = Kept(n)
     /\ IF then = "load" THEN Loads(w.filter, filter, Kept(n)) /\ UNCHANGED shown
        ELSE /\ excused' = (excused \/ InFlight(loads, Kept(n)) # {}) /\ UNCHANGED <<loads, waiting>>
             /\ shown' = IF then = "patch" THEN [shown EXCEPT !.row = Stored(w)] ELSE shown
     /\ form' = IF w.kind = "save" /\ ~page.inline THEN Closed ELSE form
     /\ UNCHANGED <<page, server, filter, pageLimits>>
\* an error is told; a change shown at once is taken back by a load
WriteFails(n) ==
  LET w == writes[n]
  IN /\ PageFault /\ w.kind # "none" /\ writes' = Kept(n)
     /\ IF w.kind = "now" THEN Loads(w.filter, filter, Kept(n))
        ELSE excused' = (excused \/ w.step = "done") /\ UNCHANGED <<loads, waiting>>
     /\ UNCHANGED <<page, server, filter, shown, form>>

\* another user, or the worker, writes the row
Foreign(flag) ==
  /\ PageMove /\ excused' = TRUE
  /\ server' = [text |-> pageMoves', flag |-> flag, turns |-> IF flag = server.flag THEN server.turns ELSE server.turns + 1]
  /\ UNCHANGED <<page, filter, shown, waiting, loads, writes, form>>

PageNext ==
  \/ \E f \in {1, 2} : SetFilter(f)
  \/ PollPage \/ OpenForm \/ EditFlag \/ Save
  \/ \E kind \in {"late", "now", "patch"} : Press(kind)
  \/ \E n \in 1..MaxRequests :
       Reads(n) \/ LoadArrives(n) \/ LoadFails(n) \/ Applies(n) \/ Answered200(n) \/ WriteFails(n)
  \/ \E flag \in BOOLEAN : Foreign(flag)

-----------------------------------------------------------------------------
(* Properties.                                                                  *)

PageTypeOK ==
  /\ page \in Pages /\ shown.filter \in {1, 2} /\ filter \in {1, 2}
  /\ waiting => \E n \in DOMAIN loads : loads[n].step # "none"
  /\ page.inline => form.open

\* A page shows what the API has, for the filter that is set, when nothing is under way:
\* unless requests overlapped, one failed or others wrote since it last loaded alone
\* (leads/page.tsx:32; pipeline/page.tsx:98 takes a failed move back).
ShownIsCurrent ==
  InFlight(loads, writes) = {} /\ ~excused => shown = [filter |-> filter, row |-> server]

\* A saved form changes a field its user did not touch only where the whole form is
\* written back and the field changed after the form was filled (rules/page.tsx:255).
NothingIsUndone ==
  [][\A n \in DOMAIN writes :
       writes[n].kind = "save" /\ writes[n].step = "sent" /\ writes'[n].step = "done" /\ server'.flag # server.flag =>
         writes[n].edited \/ (page.form = "whole" /\ writes[n].row.turns # server.turns)]_pageVars
=============================================================================
