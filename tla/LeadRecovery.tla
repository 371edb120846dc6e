---------------------------- MODULE LeadRecovery ----------------------------
(***************************************************************************)
(* Leads of Meta lead ads, which reach the CRM in two ways: the webhook    *)
(* imports a submission when Meta delivers it (at least once, or never),   *)
(* and LeadRecoveryService lists what Meta has, keeps one LeadApproval per *)
(* submission, and creates the lead when somebody approves it.             *)
(*                                                                         *)
(* No handler uses a transaction: each statement is a step, on what the    *)
(* handler read before.                                                    *)
(***************************************************************************)
EXTENDS Naturals, FiniteSets

CONSTANTS
  Leadgen,         \* identifiers of form submissions
  Hook,            \* webhook deliveries in progress
  Fetcher,         \* fetch requests in progress
  Reviewer,        \* approve and reject requests in progress
  MaxDeliveries,   \* bound: deliveries of one submission
  MaxCrashes,      \* bound: crashes of the API
  MaxFaults        \* bound: database or Redis failures of a request

ASSUME RecoveryAssumption ==
  /\ IsFiniteSet(Reviewer) /\ IsFiniteSet(Hook)
  /\ MaxDeliveries \in Nat /\ MaxCrashes \in Nat /\ MaxFaults \in Nat

VARIABLES
  submitted,   \* submissions Meta has
  interested,  \* those whose answer to the qualifier question is not "no"
  deliveries,  \* webhook deliveries of a submission so far
  approval,    \* the LeadApproval row's status; "none" without a row
  alive,       \* leads of the CRM whose notes name the submission
  hook,        \* per delivery, the statement it is at
  fetcher,     \* per fetch, what it has read
  review,      \* per request, the statement it is at
  imported,    \* history: leads the webhook created
  declined,    \* history: those of them it created as LOST
  made,        \* history: leads approvals created
  announced,   \* history: lead.created events
  crashes, faults,
  raced        \* history: submissions that had two requests in progress at once

meta    == <<submitted, interested, deliveries>>
leads   == <<imported, declined, made, announced>>
budgets == <<crashes, faults>>
vars    == <<meta, approval, alive, hook, fetcher, review, leads, budgets, raced>>

Approval == {"none", "PENDING", "APPROVED", "REJECTED"}

Free == [at |-> "free"]
HookTask == [at : {"create", "emit"}, id : Leadgen]
FetchTask == [at : {"leads", "upsert"}, ids : SUBSET Leadgen,
              known : SUBSET Leadgen]
ReviewTask == [at : {"create", "approve", "emit", "reject"}, id : Leadgen]

Count(f, g) == f' = [f EXCEPT ![g] = @ + 1]

Fault == faults < MaxFaults /\ faults' = faults + 1

-----------------------------------------------------------------------------
Init ==
  /\ submitted = {} /\ interested = {}
  /\ deliveries = [g \in Leadgen |-> 0]
  /\ approval = [g \in Leadgen |-> "none"]
  /\ alive = [g \in Leadgen |-> 0]
  /\ hook = [h \in Hook |-> Free]
  /\ fetcher = [f \in Fetcher |-> Free]
  /\ review = [c \in Reviewer |-> Free]
  /\ imported = [g \in Leadgen |-> 0] /\ declined = [g \in Leadgen |-> 0]
  /\ made = [g \in Leadgen |-> 0]
  /\ announced = [g \in Leadgen |-> 0]
  /\ crashes = 0 /\ faults = 0 /\ raced = {}

(* Somebody fills in the form of an ad. *)
Submit(g) ==
  /\ g \notin submitted
  /\ submitted' = submitted \cup {g}
  /\ interested' \in {interested, interested \cup {g}}
  /\ UNCHANGED <<deliveries, approval, alive, hook, fetcher, review, leads, budgets, raced>>

-----------------------------------------------------------------------------
(* MetaWebhookController *)

(* receive, up to the queries and Graph calls of processLeadAd: nothing     *)
(* looks for a lead of the same submission.                                 *)
Deliver(h, g) ==
  /\ hook[h] = Free /\ g \in submitted /\ deliveries[g] < MaxDeliveries
  /\ Count(deliveries, g)
  /\ hook' = [hook EXCEPT ![h] = [at |-> "create", id |-> g]]
  /\ UNCHANGED <<submitted, interested, approval, alive, fetcher, review, leads, budgets, raced>>

(* fetchLeadData: isInterested as the webhook learns it.  Without a token,  *)
(* or when the Graph API fails, there is no answer and a lead is interested. *)
Heard(g) == {TRUE, (g \in interested)}

(* A lead that is not interested is LOST, and nobody is told of it.         *)
ImportLead(h) ==
  /\ hook[h] # Free /\ hook[h].at = "create"
  /\ Count(alive, hook[h].id) /\ Count(imported, hook[h].id)
  /\ \E isInterested \in Heard(hook[h].id) :
       IF isInterested THEN hook' = [hook EXCEPT ![h].at = "emit"] /\ UNCHANGED declined
       ELSE hook' = [hook EXCEPT ![h] = Free] /\ Count(declined, hook[h].id)
  /\ UNCHANGED <<meta, approval, fetcher, review, made, announced, budgets, raced>>

AnnounceImport(h) ==
  /\ hook[h] # Free /\ hook[h].at = "emit"
  /\ Count(announced, hook[h].id)
  /\ hook' = [hook EXCEPT ![h] = Free]
  /\ UNCHANGED <<meta, approval, alive, fetcher, review,
                 imported, declined, made, budgets, raced>>

(* An exception of processLeadAd is logged; Meta is answered all the same.  *)
HookFails(h) ==
  /\ hook[h] # Free /\ Fault
  /\ hook' = [hook EXCEPT ![h] = Free]
  /\ UNCHANGED <<meta, approval, alive, fetcher, review, leads, crashes, raced>>

-----------------------------------------------------------------------------
(* LeadRecoveryController.fetch *)

(* fetchPageForms and fetchFormLeads: the range of dates, the page limit    *)
(* and failures of the Graph API, which end a list without an error, decide *)
(* which submissions are found.                                             *)
Listed == SUBSET submitted

(* fetchFromMeta: what Meta lists, then the approvals for it. *)
ReadApprovals(f) ==
  /\ fetcher[f] = Free
  /\ \E ids \in Listed :
       fetcher' = [fetcher EXCEPT ![f] =
         [at |-> "leads", ids |-> ids, known |-> {g \in ids : approval[g] # "none"}]]
  /\ UNCHANGED <<meta, approval, alive, hook, review, leads, budgets, raced>>

(* The leads already imported; what has neither is listed as PENDING. *)
Imported(g) == alive[g] > 0

ReadLeads(f) ==
  /\ fetcher[f] # Free /\ fetcher[f].at = "leads"
  /\ fetcher' = [fetcher EXCEPT ![f] =
       [@ EXCEPT !.at = "upsert",
                 !.ids = {g \in fetcher[f].ids : g \notin fetcher[f].known /\ ~Imported(g)}]]
  /\ UNCHANGED <<meta, approval, alive, hook, review, leads, budgets, raced>>

(* upsertPending, one by one: an existing row keeps its status. *)
Upserted_Reset(g) == "PENDING"
Upserted_Misspelt(g) == IF approval[g] = "none" THEN "pending" ELSE approval[g]
Upserted(g) == IF approval[g] = "none" THEN "PENDING" ELSE approval[g]

UpsertPending(f, g) ==
  /\ fetcher[f] # Free /\ fetcher[f].at = "upsert" /\ g \in fetcher[f].ids
  /\ approval' = [approval EXCEPT ![g] = Upserted(g)]
  /\ fetcher' = [fetcher EXCEPT ![f].ids = @ \ {g}]
  /\ UNCHANGED <<meta, alive, hook, review, leads, budgets, raced>>

FetchEnds(f) ==
  /\ fetcher[f] # Free
  /\ \/ fetcher[f].at = "upsert" /\ fetcher[f].ids = {} /\ UNCHANGED faults
     \/ Fault
  /\ fetcher' = [fetcher EXCEPT ![f] = Free]
  /\ UNCHANGED <<meta, approval, alive, hook, review, leads, crashes, raced>>

-----------------------------------------------------------------------------
(* LeadRecoveryService.approve and reject *)

NoteRace(g) ==
  raced' = IF \E c \in Reviewer : review[c] # Free /\ review[c].id = g
           THEN raced \cup {g} ELSE raced

(* No row, APPROVED and REJECTED end the request. *)
Approvable_Rejected(g) == approval[g] \in {"PENDING", "REJECTED"}
Approvable_Any(g) == approval[g] # "none"
Approvable(g) == approval[g] = "PENDING"

Approve(c, g) ==
  /\ review[c] = Free /\ Approvable(g)
  /\ review' = [review EXCEPT ![c] = [at |-> "create", id |-> g]]
  /\ NoteRace(g)
  /\ UNCHANGED <<meta, approval, alive, hook, fetcher, leads, budgets>>

CreateLead(c) ==
  /\ review[c] # Free /\ review[c].at = "create"
  /\ Count(alive, review[c].id) /\ Count(made, review[c].id)
  /\ review' = [review EXCEPT ![c].at = "approve"]
  /\ UNCHANGED <<meta, approval, hook, fetcher, imported, declined, announced,
                 budgets, raced>>

(* The update is by id: it does not look at the status again. *)
MarkApproved(c) ==
  /\ review[c] # Free /\ review[c].at = "approve"
  /\ approval' = [approval EXCEPT ![review[c].id] = "APPROVED"]
  /\ review' = [review EXCEPT ![c].at = "emit"]
  /\ UNCHANGED <<meta, alive, hook, fetcher, leads, budgets, raced>>

AnnounceLead_OnlyInterested(c) == review[c].id \in interested
AnnounceLead(c) == TRUE

EmitLeadCreated(c) ==
  /\ review[c] # Free /\ review[c].at = "emit"
  /\ IF AnnounceLead(c) THEN Count(announced, review[c].id) ELSE UNCHANGED announced
  /\ review' = [review EXCEPT ![c] = Free]
  /\ UNCHANGED <<meta, approval, alive, hook, fetcher,
                 imported, declined, made, budgets, raced>>

(* Only APPROVED is refused. *)
Rejectable_Any(g) == approval[g] # "none"
Rejectable(g) == approval[g] \in {"PENDING", "REJECTED"}

Reject(c, g) ==
  /\ review[c] = Free /\ Rejectable(g)
  /\ review' = [review EXCEPT ![c] = [at |-> "reject", id |-> g]]
  /\ NoteRace(g)
  /\ UNCHANGED <<meta, approval, alive, hook, fetcher, leads, budgets>>

MarkRejected(c) ==
  /\ review[c] # Free /\ review[c].at = "reject"
  /\ approval' = [approval EXCEPT ![review[c].id] = "REJECTED"]
  /\ review' = [review EXCEPT ![c] = Free]
  /\ UNCHANGED <<meta, alive, hook, fetcher, leads, budgets, raced>>

(* The request ends with an error; what it did stays. *)
ReviewFails(c) ==
  /\ review[c] # Free /\ Fault
  /\ review' = [review EXCEPT ![c] = Free]
  /\ UNCHANGED <<meta, approval, alive, hook, fetcher, leads, crashes, raced>>

-----------------------------------------------------------------------------
(* LeadsService.delete *)
DeleteLead(g) ==
  /\ alive[g] > 0
  /\ alive' = [alive EXCEPT ![g] = @ - 1]
  /\ UNCHANGED <<meta, approval, hook, fetcher, review, leads, budgets, raced>>

Crash ==
  /\ crashes < MaxCrashes /\ crashes' = crashes + 1
  /\ hook' = [h \in Hook |-> Free]
  /\ fetcher' = [f \in Fetcher |-> Free]
  /\ review' = [c \in Reviewer |-> Free]
  /\ UNCHANGED <<meta, approval, alive, leads, faults, raced>>

Next ==
  \/ \E g \in Leadgen : Submit(g) \/ DeleteLead(g)
  \/ \E h \in Hook : \/ \E g \in Leadgen : Deliver(h, g)
                     \/ ImportLead(h) \/ AnnounceImport(h) \/ HookFails(h)
  \/ \E f \in Fetcher : \/ ReadApprovals(f) \/ ReadLeads(f) \/ FetchEnds(f)
                        \/ \E g \in Leadgen : UpsertPending(f, g)
  \/ \E c \in Reviewer :
       \/ \E g \in Leadgen : Approve(c, g) \/ Reject(c, g)
       \/ CreateLead(c) \/ MarkApproved(c) \/ EmitLeadCreated(c)
       \/ MarkRejected(c) \/ ReviewFails(c)
  \/ Crash

Spec == Init /\ [][Next]_vars

-----------------------------------------------------------------------------
(* Properties *)

(* The state has its shape. *)
TypeOK ==
  /\ submitted \subseteq Leadgen /\ interested \subseteq submitted
  /\ deliveries \in [Leadgen -> Nat]
  /\ approval \in [Leadgen -> Approval]
  /\ alive \in [Leadgen -> Nat]
  /\ hook \in [Hook -> HookTask \cup {Free}]
  /\ fetcher \in [Fetcher -> FetchTask \cup {Free}]
  /\ review \in [Reviewer -> ReviewTask \cup {Free}]
  /\ imported \in [Leadgen -> Nat] /\ declined \in [Leadgen -> Nat] /\ made \in [Leadgen -> Nat]
  /\ announced \in [Leadgen -> Nat]
  /\ crashes \in Nat /\ faults \in Nat /\ raced \subseteq Leadgen

Reviewing(g, label) ==
  \E c \in Reviewer : review[c] = [at |-> label, id |-> g]

(* An approval creates one lead, and one more only for each time a request *)
(* was cut off between the lead and the row; a submission that was not     *)
(* approved has no lead from an approval.  Unless two requests for it were  *)
(* in progress at once, whatever the webhook and the fetches do.           *)
OneLeadPerApproval ==
  \A g \in Leadgen \ raced :
    /\ made[g] <= 1 + crashes + faults
    /\ approval[g] = "APPROVED" => made[g] > 0
    /\ made[g] > 0 => \/ approval[g] = "APPROVED" \/ Reviewing(g, "approve")
                      \/ crashes + faults > 0

(* A review is final: fetches, which go on at any time, and later requests *)
(* leave it as it is, unless two requests for it were in progress at once. *)
ReviewIsFinal ==
  [][\A g \in Leadgen \ raced : approval[g] \in {"APPROVED", "REJECTED"} =>
       approval'[g] = approval[g]]_vars

(* Every lead that nobody turned down in the form is announced to the      *)
(* rules, once: outside the handlers, and failures aside, the events are   *)
(* the leads that are not LOST, and only who said no is.  Whatever         *)
(* interleaves.                                                            *)
EveryLeadIsAnnounced ==
  \A g \in Leadgen :
    crashes + faults = 0 /\ (\A h \in Hook : hook[h] = Free)
      /\ (\A c \in Reviewer : review[c] = Free) =>
    /\ announced[g] + declined[g] = made[g] + imported[g]
    /\ g \in interested => declined[g] = 0

(* However many requests race, a submission gets at most one lead for each *)
(* that may be in progress, and again for each that a crash or a failure   *)
(* cut off: those that come after a lead was recorded create none.         *)
DuplicatesAreConcurrent ==
  \A g \in Leadgen :
    made[g] <= Cardinality(Reviewer) * (1 + crashes) + faults

(* The leads made of submissions are those that were approved, each        *)
(* announced once; where requests race, no more than the requests          *)
(* (OneLeadPerApproval, DuplicatesAreConcurrent, EveryLeadIsAnnounced).    *)
LeadsMatchReviews == OneLeadPerApproval /\ DuplicatesAreConcurrent /\ EveryLeadIsAnnounced
=============================================================================
