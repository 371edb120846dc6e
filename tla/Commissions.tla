------------------------------ MODULE Commissions ------------------------------
(* Commissions on deals: the rule that gives their percentages, rows written by  *)
(* requests that read first and write later, the form of the page with its        *)
(* preview, and the summary, four queries at once.  One operation type.           *)
EXTENDS Integers, FiniteSets, FiniteSetsExt

CONSTANTS Deals,            \* commissions that may be created
          Amounts,          \* amounts of deals
          Percentages,      \* percentages, of either kind
          MaxDealMoves      \* bound: requests and forms

ASSUME DealAssumption ==
  /\ Amounts \subseteq Nat /\ Percentages \subseteq Nat /\ MaxDealMoves \in Nat
  /\ \E most \in Percentages : \A p \in Percentages : p <= most

VARIABLES
  deals,        \* deal -> its row, or NoDeal
  ruleNow,      \* the rule: [pct, split], or NoRule
  ruleShown,    \* the rule the page has loaded
  dealForm,     \* the form: [of, amount, pct, split], of a deal, a "new" one or "none"
  updates,      \* requests that have read their row: [of, change, read]
  previewed,    \* deal -> the preview it was created or last edited with, or NoPreview
  summary,      \* [left, totals, statuses, agents, moved]: queries to come, their results, rows changed since
  dealMoves

dealVars == <<deals, ruleNow, ruleShown, dealForm, updates, previewed, summary, dealMoves>>

-----------------------------------------------------------------------------

NoDeal == [status |-> "none"]
NoRule == [pct |-> -1, split |-> -1]
NoPreview == <<>>
NoForm == [of |-> "none", amount |-> 0, pct |-> 0, split |-> 0]
Statuses == {"PENDING", "APPROVED", "PAID", "CANCELLED"}
\* Math.round of a positive number over 100
Rounded(n) == (n + 50) \div 100
Shares(amount, pct, split) ==
  LET total == Rounded(amount * pct)  agent == Rounded(total * split)
  IN [total |-> total, agent |-> agent, business |-> total - agent]
Live == {d \in Deals : deals[d] # NoDeal}
NoSummary == [left |-> {}, totals |-> 0, statuses |-> 0, agents |-> <<0, 0>>, moved |-> FALSE]

DealInit ==
  /\ deals = [d \in Deals |-> NoDeal] /\ ruleNow \in {NoRule, [pct |-> Max(Percentages), split |-> Max(Percentages)]}
  /\ ruleShown = ruleNow /\ dealForm = NoForm /\ updates = {} /\ previewed = [d \in Deals |-> NoPreview]
  /\ summary = NoSummary /\ dealMoves = 0

DealMove == dealMoves < MaxDealMoves /\ dealMoves' = dealMoves + 1
\* queries under way may see some rows before a change, and others after it
Moves(rows) == deals' = rows /\ summary' = [summary EXCEPT !.moved = @ \/ summary.left # {}]

-----------------------------------------------------------------------------
(* The rule.  The page loads it when it opens, and after its own changes.        *)

UpsertRule(pct, split) ==
  /\ DealMove /\ ruleNow' = [pct |-> pct, split |-> split] /\ ruleShown' \in {ruleShown, ruleNow'}
  /\ UNCHANGED <<deals, dealForm, updates, previewed, summary>>
DeleteRule ==
  /\ DealMove /\ ruleNow # NoRule /\ ruleNow' = NoRule /\ ruleShown' \in {ruleShown, NoRule}
  /\ UNCHANGED <<deals, dealForm, updates, previewed, summary>>

\* the form of a new deal is filled from the rule the page shows, that of a deal from its row
\* when that is loaded (until then it cannot be sent); both may be changed before they are sent
OpenNew ==
  /\ dealForm = NoForm
  /\ dealForm' \in {[of |-> "new", amount |-> a, pct |-> p, split |-> s] :
                     a \in Amounts, p \in Percentages \cup ({ruleShown.pct} \ {-1}), s \in Percentages \cup ({ruleShown.split} \ {-1})}
  /\ UNCHANGED <<deals, ruleNow, ruleShown, updates, previewed, summary, dealMoves>>
OpenEdit(d) ==
  /\ dealForm = NoForm /\ d \in Live
  /\ dealForm' \in {[of |-> d, amount |-> a, pct |-> p, split |-> s] :
                     a \in Amounts, p \in Percentages \cup {deals[d].pct}, s \in Percentages \cup {deals[d].split}}
  /\ UNCHANGED <<deals, ruleNow, ruleShown, updates, previewed, summary, dealMoves>>

Preview(f) == Shares(f.amount, f.pct, f.split)
\* a percentage of 0 in the form is not typed, and the rule's is taken
Given(typed, ruled) == IF typed = 0 THEN ruled ELSE typed
Row0(amount, pct, split) ==
  [status |-> "PENDING", amount |-> amount, pct |-> pct, split |-> split, shares |-> Shares(amount, pct, split)]
\* with no rule and no percentage the request is refused, and the form stays open
CreateDeal(d) ==
  LET f == dealForm  pct == Given(f.pct, ruleNow.pct)  split == Given(f.split, ruleNow.split)
  IN /\ DealMove /\ f.of = "new" /\ d \notin Live /\ -1 \notin {pct, split}
     /\ Moves([deals EXCEPT ![d] = Row0(f.amount, pct, split)])
     /\ previewed' = [previewed EXCEPT ![d] = IF 0 \in {f.pct, f.split} THEN NoPreview ELSE Preview(f)]
     /\ dealForm' = NoForm /\ UNCHANGED <<ruleNow, ruleShown, updates>>

-----------------------------------------------------------------------------
(* Updates: the row is read, then what was given is written; amounts are worked   *)
(* out of what was read where nothing was given.                                 *)

Changes == [status : {"PAID", "CANCELLED"}] \cup [split : Percentages] \cup [pct : Percentages]
BeginUpdate(d, change) ==
  /\ DealMove /\ d \in Live /\ \A u \in updates : u.change # change
  /\ updates' = updates \cup {[of |-> d, change |-> change, read |-> deals[d], preview |-> NoPreview]}
  /\ UNCHANGED <<deals, ruleNow, ruleShown, dealForm, previewed, summary>>
SubmitEdit ==
  /\ DealMove /\ dealForm.of \in Live
  /\ updates' = updates \cup {[of |-> dealForm.of, read |-> deals[dealForm.of], preview |-> Preview(dealForm),
       change |-> [amount |-> dealForm.amount, pct |-> dealForm.pct, split |-> dealForm.split]]}
  /\ dealForm' = NoForm /\ UNCHANGED <<deals, ruleNow, ruleShown, previewed, summary>>

Field(change, read, field) == IF field \in DOMAIN change THEN change[field] ELSE read[field]
\* the three numbers are written together with the shares they give
Updated_OwnFields(u, row) ==
  LET amount == Field(u.change, u.read, "amount")  pct == Field(u.change, u.read, "pct")  split == Field(u.change, u.read, "split")
  IN IF "status" \in DOMAIN u.change THEN [row EXCEPT !.status = u.change.status]
     ELSE [row EXCEPT !.amount = Field(u.change, row, "amount"), !.pct = Field(u.change, row, "pct"),
                      !.split = Field(u.change, row, "split"), !.shares = Shares(amount, pct, split)]
Updated(u, row) ==
  LET amount == Field(u.change, u.read, "amount")  pct == Field(u.change, u.read, "pct")  split == Field(u.change, u.read, "split")
  IN IF "status" \in DOMAIN u.change THEN [row EXCEPT !.status = u.change.status]
     ELSE [row EXCEPT !.amount = amount, !.pct = pct, !.split = split, !.shares = Shares(amount, pct, split)]
WriteUpdate(u) ==
  /\ u \in updates /\ updates' = updates \ {u}
  /\ IF u.of \in Live
     THEN /\ Moves([deals EXCEPT ![u.of] = Updated(u, @)])
          /\ previewed' = IF "status" \in DOMAIN u.change THEN previewed ELSE [previewed EXCEPT ![u.of] = u.preview]
     ELSE UNCHANGED <<deals, summary, previewed>>     \* the row is gone: an error
  /\ UNCHANGED <<ruleNow, ruleShown, dealForm, dealMoves>>
RemoveDeal(d) ==
  /\ DealMove /\ d \in Live /\ Moves([deals EXCEPT ![d] = NoDeal])
  /\ previewed' = [previewed EXCEPT ![d] = NoPreview]
  /\ dealForm' = (IF dealForm.of = d THEN NoForm ELSE dealForm) /\ UNCHANGED <<ruleNow, ruleShown, updates>>

-----------------------------------------------------------------------------
(* The summary: queries that run side by side, in any order.                      *)

Uncancelled == {d \in Live : deals[d].status # "CANCELLED"}
SumOf(amount(_), rows) == MapThenSumSet(amount, rows)
TotalOf(d) == deals[d].shares.total
AskSummary ==
  /\ DealMove /\ summary.left = {} /\ summary' = [NoSummary EXCEPT !.left = {"totals", "statuses", "agents"}]
  /\ UNCHANGED <<deals, ruleNow, ruleShown, dealForm, updates, previewed>>
Queried_AgentsWithCancelled(query) ==
  CASE query = "totals" -> [summary EXCEPT !.totals = SumOf(TotalOf, Uncancelled)]
    [] query = "statuses" -> [summary EXCEPT !.statuses = Cardinality(Live)]
    [] query = "agents" -> [summary EXCEPT !.agents = <<Cardinality(Live), SumOf(TotalOf, Live)>>]
\* the totals without those cancelled; by agent, their number with them and their sums without
Queried(query) ==
  CASE query = "totals" -> [summary EXCEPT !.totals = SumOf(TotalOf, Uncancelled)]
    [] query = "statuses" -> [summary EXCEPT !.statuses = Cardinality(Live)]
    [] query = "agents" -> [summary EXCEPT !.agents = <<Cardinality(Live), SumOf(TotalOf, Uncancelled)>>]
Query(query) ==
  /\ query \in summary.left /\ summary' = [Queried(query) EXCEPT !.left = @ \ {query}]
  /\ UNCHANGED <<deals, ruleNow, ruleShown, dealForm, updates, previewed, dealMoves>>

DealNext ==
  \/ \E pct \in Percentages, split \in Percentages : UpsertRule(pct, split)
  \/ DeleteRule \/ OpenNew \/ SubmitEdit \/ AskSummary
  \/ \E d \in Deals : OpenEdit(d) \/ CreateDeal(d) \/ RemoveDeal(d) \/ \E change \in Changes : BeginUpdate(d, change)
  \/ \E u \in updates : WriteUpdate(u)
  \/ \E query \in {"totals", "statuses", "agents"} : Query(query)

-----------------------------------------------------------------------------
(* Properties.                                                                  *)

DealTypeOK ==
  /\ \A d \in Live : deals[d].status \in Statuses /\ deals[d].pct >= 0 /\ deals[d].split >= 0
  /\ summary.left \subseteq {"totals", "statuses", "agents"} /\ dealForm.of \in Deals \cup {"new", "none"}

\* The shares of a commission are those of the amount and percentages it shows, whatever requests
\* overlap, and those its form previewed (commissions.service.ts:204, page.tsx:588).
SharesAddUp ==
  \A d \in Live :
    /\ deals[d].shares = Shares(deals[d].amount, deals[d].pct, deals[d].split)
    /\ previewed[d] # NoPreview => deals[d].shares = previewed[d]

\* The parts of a summary agree, unless a row was written between its queries
\* (commissions.service.ts:229).
SummaryAgrees ==
  summary.left = {} /\ ~summary.moved => summary.agents = <<summary.statuses, summary.totals>>

\* The shares of a deal and the parts of a summary add up.
DealsAddUp == SharesAddUp /\ SummaryAgrees
=============================================================================
