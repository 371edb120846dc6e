----------------------------- MODULE MCDashboard -----------------------------
(* The dashboard in one run: the session of the browser, its pages, the          *)
(* commissions, the lead sources, the videos, and the pure functions.  They share *)
(* no state, so a behaviour is one of one part; the others stay where they began. *)
EXTENDS BrowserSession, DashboardPages, Commissions, MetaSources, ReelJobs, OfficeFunctions, TLC

CONSTANTS p1, p2, k1, k2      \* the values the parts are symmetric in

VARIABLE topic
dashboardVars == <<topic, sessionVars, pageVars, dealVars, metaVars, reelVars, question>>

Symmetry == Permutations({p1, p2}) \cup Permutations({k1, k2})

\* a part that may begin in several states
Quiet(name, settled) == topic # name => settled
DashboardInit ==
  /\ topic \in {"session", "pages", "deals", "meta", "reels", "functions"}
  /\ SessionInit
  /\ Quiet("pages", page = TagsPage) /\ PageInit
  /\ Quiet("deals", ruleNow = NoRule) /\ DealInit
  /\ MetaInit
  /\ ReelInit
  /\ IF topic = "functions" THEN FunctionInit ELSE question = [kind |-> "none"]
DashboardNext ==
  \/ topic = "session" /\ SessionNext /\ UNCHANGED <<topic, pageVars, dealVars, metaVars, reelVars, question>>
  \/ topic = "pages" /\ PageNext /\ UNCHANGED <<topic, sessionVars, dealVars, metaVars, reelVars, question>>
  \/ topic = "deals" /\ DealNext /\ UNCHANGED <<topic, sessionVars, pageVars, metaVars, reelVars, question>>
  \/ topic = "meta" /\ MetaNext /\ UNCHANGED <<topic, sessionVars, pageVars, dealVars, reelVars, question>>
  \/ topic = "reels" /\ ReelNext /\ UNCHANGED <<topic, sessionVars, pageVars, dealVars, metaVars, question>>
DashboardSpec == DashboardInit /\ [][DashboardNext]_dashboardVars

DashboardTypeOK ==
  CASE topic = "session" -> SessionTypeOK
    [] topic = "pages" -> PageTypeOK
    [] topic = "deals" -> DealTypeOK
    [] topic = "meta" -> MetaTypeOK
    [] topic = "reels" -> ReelTypeOK
    [] topic = "functions" -> FunctionTypeOK

\* What a page shows is what the server has (ShownIsCurrent, ShownJobIsTrue).
PagesAreTrue ==
  /\ topic = "pages" => ShownIsCurrent
  /\ topic = "reels" => ShownJobIsTrue

\* The functions of the API and of the worker agree with each other and with what they are for
\* (WorkerOffersWhatIsFree, ScoresAgree, NextStartIsOpening, ConditionsAreConsistent).
FunctionsAgree ==
  topic = "functions" => WorkerOffersWhatIsFree /\ ScoresAgree /\ NextStartIsOpening /\ ConditionsAreConsistent

\* No step undoes what another user wrote, or shows a video going back
\* (NothingIsUndone, ShownGoesForward).
StepsAreKept == NothingIsUndone /\ ShownGoesForward
=============================================================================
