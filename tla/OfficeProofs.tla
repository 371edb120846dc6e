---------------------------- MODULE OfficeProofs ----------------------------
(***************************************************************************)
(* Proofs about the office.  The recovery of leads and its reviews, for    *)
(* any submissions, deliveries, fetches and requests in progress, crashes  *)
(* and failures; the stages of leads, the records of a tenant, the         *)
(* calendar of visits and their reminders, the marketplace and the         *)
(* imports, for any staff, stages, keys, visits, listings and requests.    *)
(* The invariants are in OfficeInvariants.                                 *)
(***************************************************************************)
EXTENDS OfficeInvariants, FiniteSetTheorems, SequenceTheorems, WellFoundedInduction, TLAPS

(* A request in progress is one of four statements on a submission. *)
LEMMA ReviewFacts ==
  ASSUME TypeOK, NEW c \in Reviewer, review[c] # Free
  PROVE  /\ review[c].id \in Leadgen
         /\ review[c].at \in {"create", "approve", "emit", "reject"}
         /\ review[c] = R(review[c].at, review[c].id)
BY DEF TypeOK, ReviewTask, R

LEMMA RFacts ==
  \A l, k \in {"create", "approve", "emit", "reject"}, g, x \in Leadgen :
    /\ R(l, g) # Free /\ R(l, g).at = l /\ R(l, g).id = g
    /\ R(l, g) = R(k, x) => l = k /\ g = x
    /\ l # k => R(l, g) # R(k, x)
    /\ R(l, g) \in ReviewTask
BY DEF R, Free, ReviewTask

(* Where a step of a request takes it. *)
LEMMA ReviewMoves ==
  ASSUME TypeOK, NEW c \in Reviewer, NEW g \in Leadgen
  PROVE  /\ Approve(c, g) => /\ OthersStay(c) /\ review[c] = Free
                             /\ review'[c] = R("create", g)
         /\ Reject(c, g) => /\ OthersStay(c) /\ review[c] = Free
                            /\ review'[c] = R("reject", g)
         /\ CreateLead(c) /\ review[c].id = g =>
              /\ OthersStay(c) /\ review[c] = R("create", g) /\ review'[c] = R("approve", g)
         /\ MarkApproved(c) /\ review[c].id = g =>
              /\ OthersStay(c) /\ review[c] = R("approve", g) /\ review'[c] = R("emit", g)
         /\ EmitLeadCreated(c) /\ review[c].id = g =>
              /\ OthersStay(c) /\ review[c] = R("emit", g) /\ review'[c] = Free
         /\ MarkRejected(c) /\ review[c].id = g =>
              /\ OthersStay(c) /\ review[c] = R("reject", g) /\ review'[c] = Free
         /\ ReviewFails(c) => OthersStay(c) /\ review[c] # Free /\ review'[c] = Free
<1>1. review \in [Reviewer -> ReviewTask \cup {Free}]
  BY DEF TypeOK
<1>2. review[c] # Free => review[c] = R(review[c].at, review[c].id)
  BY ReviewFacts
<1>5. CreateLead(c) /\ review[c].id = g =>
        OthersStay(c) /\ review[c] = R("create", g) /\ review'[c] = R("approve", g)
  BY <1>1, <1>2 DEF CreateLead, OthersStay, R
<1>6. MarkApproved(c) /\ review[c].id = g =>
        OthersStay(c) /\ review[c] = R("approve", g) /\ review'[c] = R("emit", g)
  BY <1>1, <1>2 DEF MarkApproved, OthersStay, R
<1>7. EmitLeadCreated(c) /\ review[c].id = g =>
        OthersStay(c) /\ review[c] = R("emit", g) /\ review'[c] = Free
  BY <1>1, <1>2 DEF EmitLeadCreated, OthersStay
<1>8. MarkRejected(c) /\ review[c].id = g =>
        OthersStay(c) /\ review[c] = R("reject", g) /\ review'[c] = Free
  BY <1>1, <1>2 DEF MarkRejected, OthersStay
<1>9. ReviewFails(c) => OthersStay(c) /\ review[c] # Free /\ review'[c] = Free
  BY <1>1 DEF ReviewFails, OthersStay
<1>10. Approve(c, g) => OthersStay(c) /\ review[c] = Free /\ review'[c] = R("create", g)
  BY <1>1 DEF Approve, OthersStay, R
<1>11. Reject(c, g) => OthersStay(c) /\ review[c] = Free /\ review'[c] = R("reject", g)
  BY <1>1 DEF Reject, OthersStay, R
<1> QED
  BY <1>5, <1>6, <1>7, <1>8, <1>9, <1>10, <1>11

-----------------------------------------------------------------------------
(* Types *)

LEMMA HookTypeOK ==
  ASSUME TypeOK, NEW h \in Hook, NEW g \in Leadgen,
         Deliver(h, g) \/ ImportLead(h) \/ AnnounceImport(h) \/ HookFails(h)
  PROVE  TypeOK'
<1>1. hook[h] # Free => hook[h] \in HookTask /\ hook[h].id \in Leadgen
                        /\ [hook[h] EXCEPT !.at = "emit"] \in HookTask
  BY DEF TypeOK, HookTask
<1>2. [at |-> "create", id |-> g] \in HookTask
  BY DEF HookTask
<1>3. CASE Deliver(h, g)
  BY <1>2, <1>3 DEF Deliver, Count, TypeOK, leads, budgets
<1>4. CASE ImportLead(h)
  <2>1. hook' \in [Hook -> HookTask \cup {Free}]
    <3>1. \/ hook' = [hook EXCEPT ![h] = [hook[h] EXCEPT !.at = "emit"]]
          \/ hook' = [hook EXCEPT ![h] = Free]
      BY <1>4 DEF ImportLead, TypeOK
    <3> QED
      BY <1>1, <1>4, <3>1 DEF ImportLead, TypeOK
  <2>2. /\ alive' \in [Leadgen -> Nat] /\ imported' \in [Leadgen -> Nat]
        /\ declined' \in [Leadgen -> Nat]
    BY <1>1, <1>4 DEF ImportLead, Count, TypeOK
  <2> QED
    BY <1>4, <2>1, <2>2 DEF ImportLead, TypeOK, meta, budgets
<1>5. CASE AnnounceImport(h)
  BY <1>1, <1>5 DEF AnnounceImport, Count, TypeOK, meta, budgets
<1>6. CASE HookFails(h)
  BY <1>6 DEF HookFails, Fault, TypeOK, meta, leads
<1> QED
  BY <1>3, <1>4, <1>5, <1>6

LEMMA FetchTypeOK ==
  ASSUME TypeOK, NEW f \in Fetcher,
         \/ ReadApprovals(f) \/ ReadLeads(f) \/ FetchEnds(f)
         \/ \E g \in Leadgen : UpsertPending(f, g)
  PROVE  TypeOK'
<1>1. fetcher[f] # Free => fetcher[f] \in FetchTask /\ fetcher[f].ids \subseteq Leadgen
  BY DEF TypeOK, FetchTask
<1>2. CASE ReadApprovals(f)
  <2>1. PICK ids \in Listed :
          fetcher' = [fetcher EXCEPT ![f] =
            [at |-> "leads", ids |-> ids, known |-> {x \in ids : approval[x] # "none"}]]
    BY Zenon, <1>2 DEF ReadApprovals
  <2>2. [at |-> "leads", ids |-> ids, known |-> {x \in ids : approval[x] # "none"}] \in FetchTask
    BY <2>1 DEF Listed, TypeOK, FetchTask
  <2> QED
    BY Zenon, <1>2, <2>1, <2>2 DEF ReadApprovals, TypeOK, meta, leads, budgets
<1>3. CASE ReadLeads(f)
  <2> DEFINE kept == {x \in fetcher[f].ids : x \notin fetcher[f].known /\ ~Imported(x)}
  <2>1. fetcher[f] \in FetchTask /\ kept \in SUBSET Leadgen
    BY <1>1, <1>3 DEF ReadLeads
  <2> HIDE DEF kept
  <2>2. [fetcher[f] EXCEPT !.at = "upsert", !.ids = kept] \in FetchTask
    BY Zenon, <2>1 DEF FetchTask
  <2>3. fetcher' = [fetcher EXCEPT ![f] = [fetcher[f] EXCEPT !.at = "upsert", !.ids = kept]]
    BY <1>3 DEF ReadLeads, TypeOK, kept
  <2> QED
    BY <1>3, <2>2, <2>3 DEF ReadLeads, TypeOK, meta, leads, budgets
<1>4. ASSUME NEW g \in Leadgen, UpsertPending(f, g) PROVE TypeOK'
  <2>1. fetcher' \in [Fetcher -> FetchTask \cup {Free}]
    <3>1. fetcher[f] \in FetchTask /\ fetcher[f].ids \ {g} \in SUBSET Leadgen
      BY <1>1, <1>4 DEF UpsertPending
    <3>2. [fetcher[f] EXCEPT !.ids = fetcher[f].ids \ {g}] \in FetchTask
      BY <3>1 DEF FetchTask
    <3>3. fetcher' = [fetcher EXCEPT ![f] = [fetcher[f] EXCEPT !.ids = fetcher[f].ids \ {g}]]
      BY <1>4 DEF UpsertPending, TypeOK
    <3> QED
      BY <3>2, <3>3 DEF TypeOK
  <2>2. approval' \in [Leadgen -> Approval]
    BY <1>4 DEF UpsertPending, Upserted, TypeOK, Approval
  <2> QED
    BY <1>4, <2>1, <2>2 DEF UpsertPending, TypeOK, meta, leads, budgets
<1>5. CASE FetchEnds(f)
  BY <1>5 DEF FetchEnds, Fault, TypeOK, meta, leads
<1> QED
  BY <1>2, <1>3, <1>4, <1>5

LEMMA ReviewTypeOK ==
  ASSUME TypeOK, NEW c \in Reviewer, NEW g \in Leadgen,
         \/ Approve(c, g) \/ Reject(c, g)
         \/ /\ review[c] # Free => review[c].id = g
            /\ \/ CreateLead(c) \/ MarkApproved(c) \/ EmitLeadCreated(c)
               \/ MarkRejected(c) \/ ReviewFails(c)
  PROVE  TypeOK'
<1>1. review' \in [Reviewer -> ReviewTask \cup {Free}]
  <2>1. DOMAIN review' = Reviewer /\ \E F : review' = [d \in Reviewer |-> F[d]]
    BY DEF Approve, Reject, CreateLead, MarkApproved, EmitLeadCreated, MarkRejected,
           ReviewFails, TypeOK
  <2>2. OthersStay(c) /\ review'[c] \in ReviewTask \cup {Free}
    BY ReviewMoves, RFacts DEF CreateLead, MarkApproved, EmitLeadCreated, MarkRejected
  <2> QED
    BY <2>1, <2>2 DEF OthersStay, TypeOK
<1>2. raced' \subseteq Leadgen
  BY DEF Approve, Reject, NoteRace, CreateLead, MarkApproved, EmitLeadCreated, MarkRejected,
         ReviewFails, TypeOK
<1>3. review[c] # Free => review[c].id \in Leadgen
  BY ReviewFacts
<1>4. CASE Approve(c, g) \/ Reject(c, g)
  BY <1>1, <1>2, <1>4 DEF Approve, Reject, TypeOK, meta, leads, budgets
<1>5. CASE CreateLead(c)
  BY <1>1, <1>2, <1>3, <1>5 DEF CreateLead, Count, TypeOK, meta, budgets
<1>6. CASE MarkApproved(c) \/ MarkRejected(c)
  BY <1>1, <1>2, <1>3, <1>6 DEF MarkApproved, MarkRejected, TypeOK, meta, leads, budgets, Approval
<1>7. CASE EmitLeadCreated(c)
  BY <1>1, <1>2, <1>3, <1>7 DEF EmitLeadCreated, AnnounceLead, Count, TypeOK, meta, budgets
<1>8. CASE ReviewFails(c)
  BY <1>1, <1>2, <1>8 DEF ReviewFails, Fault, TypeOK, meta, leads
<1> QED
  BY <1>4, <1>5, <1>6, <1>7, <1>8

LEMMA NextTypeOK ==
  ASSUME TypeOK, [Next]_vars
  PROVE  TypeOK'
<1>1. ASSUME NEW g \in Leadgen, Submit(g) PROVE TypeOK'
  BY <1>1 DEF Submit, TypeOK, leads, budgets
<1>2. ASSUME NEW g \in Leadgen, DeleteLead(g) PROVE TypeOK'
  BY <1>2 DEF DeleteLead, TypeOK, meta, leads, budgets
<1>3. ASSUME NEW h \in Hook, ImportLead(h) \/ AnnounceImport(h) \/ HookFails(h) PROVE TypeOK'
  <2>1. hook[h].id \in Leadgen
    BY <1>3 DEF ImportLead, AnnounceImport, HookFails, TypeOK, HookTask
  <2> QED
    BY <1>3, <2>1, HookTypeOK
<1>4. ASSUME NEW c \in Reviewer,
             \/ CreateLead(c) \/ MarkApproved(c) \/ EmitLeadCreated(c)
             \/ MarkRejected(c) \/ ReviewFails(c)
      PROVE  TypeOK'
  <2>1. review[c].id \in Leadgen
    BY <1>4, ReviewFacts DEF CreateLead, MarkApproved, EmitLeadCreated, MarkRejected, ReviewFails
  <2> QED
    BY <1>4, <2>1, ReviewTypeOK
<1>5. CASE Crash
  BY <1>5 DEF Crash, TypeOK, meta, leads
<1>6. CASE UNCHANGED vars
  BY <1>6 DEF vars, TypeOK, meta, leads, budgets
<1> QED
  BY <1>1, <1>2, <1>3, <1>4, <1>5, <1>6, HookTypeOK, FetchTypeOK, ReviewTypeOK DEF Next

(* Submissions, approvals, leads and the handlers' states keep their shape. *)
THEOREM RecoveryTypeCorrect == Spec => []TypeOK
<1>1. Init => TypeOK
  BY DEF Init, TypeOK, Approval
<1>2. TypeOK /\ [Next]_vars => TypeOK'
  BY NextTypeOK
<1> QED
  BY <1>1, <1>2, PTL DEF Spec

-----------------------------------------------------------------------------
(* What the steps do to the reviews *)

LEMMA ReviewHasEffect ==
  ASSUME TypeOK, NEW c \in Reviewer,
         \/ \E g \in Leadgen : Approve(c, g) \/ Reject(c, g)
         \/ CreateLead(c) \/ MarkApproved(c) \/ EmitLeadCreated(c)
         \/ MarkRejected(c) \/ ReviewFails(c)
  PROVE  \E g \in Leadgen : ReviewEffect(c, g)
<1>1. review[c] # Free => review[c].id \in Leadgen
  BY ReviewFacts
<1>2. ASSUME NEW g \in Leadgen, Approve(c, g) \/ Reject(c, g) PROVE ReviewEffect(c, g)
  BY <1>2, ReviewMoves DEF Approve, Reject, Approvable, Rejectable, ReviewEffect, meta, leads, budgets
<1>3. ASSUME NEW g \in Leadgen, g = review[c].id, CreateLead(c) PROVE ReviewEffect(c, g)
  BY Zenon, <1>3, ReviewMoves DEF CreateLead, ReviewEffect, meta, budgets
<1>4. ASSUME NEW g \in Leadgen, g = review[c].id, MarkApproved(c) PROVE ReviewEffect(c, g)
  BY Zenon, <1>4, ReviewMoves DEF MarkApproved, ReviewEffect, meta, leads, budgets
<1>5. ASSUME NEW g \in Leadgen, g = review[c].id, EmitLeadCreated(c) PROVE ReviewEffect(c, g)
  BY Zenon, <1>5, ReviewMoves DEF EmitLeadCreated, AnnounceLead, ReviewEffect, meta, budgets
<1>6. ASSUME NEW g \in Leadgen, g = review[c].id, MarkRejected(c) PROVE ReviewEffect(c, g)
  BY Zenon, <1>6, ReviewMoves DEF MarkRejected, ReviewEffect, meta, leads, budgets
<1>7. ASSUME NEW g \in Leadgen, g = review[c].id, ReviewFails(c) PROVE ReviewEffect(c, g)
  BY Zenon, <1>7, ReviewMoves DEF ReviewFails, Fault, ReviewEffect, On, meta, leads
<1> QED
  <2>1. CASE \E g \in Leadgen : Approve(c, g) \/ Reject(c, g)
    BY <1>2, <2>1
  <2>2. CASE CreateLead(c) \/ MarkApproved(c) \/ EmitLeadCreated(c) \/ MarkRejected(c) \/ ReviewFails(c)
    <3>1. PICK g \in Leadgen : g = review[c].id
      BY <1>1, <2>2 DEF CreateLead, MarkApproved, EmitLeadCreated, MarkRejected, ReviewFails
    <3> QED
      BY <1>3, <1>4, <1>5, <1>6, <1>7, <2>2, <3>1
  <2> QED
    BY <2>1, <2>2

LEMMA NextCases ==
  ASSUME TypeOK, [Next]_vars
  PROVE  \/ \E c \in Reviewer, g \in Leadgen : ReviewEffect(c, g)
         \/ QuietStep \/ Crash
<1>1. ASSUME NEW g \in Leadgen, Submit(g) \/ DeleteLead(g) PROVE QuietStep
  BY <1>1 DEF Submit, DeleteLead, QuietStep, leads, budgets, TypeOK
<1>2. ASSUME NEW h \in Hook, NEW g \in Leadgen, Deliver(h, g) PROVE QuietStep
  BY <1>2 DEF Deliver, QuietStep, leads, budgets, TypeOK
<1>3. ASSUME NEW h \in Hook, ImportLead(h) \/ AnnounceImport(h) \/ HookFails(h) PROVE QuietStep
  BY <1>3 DEF ImportLead, AnnounceImport, HookFails, Fault, QuietStep, leads, budgets, TypeOK
<1>4. ASSUME NEW f \in Fetcher, ReadApprovals(f) \/ ReadLeads(f) \/ FetchEnds(f) PROVE QuietStep
  BY <1>4 DEF ReadApprovals, ReadLeads, FetchEnds, Fault, QuietStep, leads, budgets, TypeOK
<1>5. ASSUME NEW f \in Fetcher, NEW g \in Leadgen, UpsertPending(f, g) PROVE QuietStep
  <2>1. \A x \in Leadgen : x # g => approval'[x] = approval[x]
    BY <1>5 DEF UpsertPending, TypeOK
  <2>2. approval'[g] = approval[g] \/ (approval[g] = "none" /\ approval'[g] = "PENDING")
    BY <1>5 DEF UpsertPending, Upserted, TypeOK
  <2> QED
    BY <1>5, <2>1, <2>2 DEF UpsertPending, QuietStep, leads, budgets, TypeOK
<1>6. CASE UNCHANGED vars
  BY <1>6 DEF vars, QuietStep, leads, budgets, TypeOK
<1> QED
  BY <1>1, <1>2, <1>3, <1>4, <1>5, <1>6, ReviewHasEffect DEF Next

-----------------------------------------------------------------------------
(* Reviews that come one after the other *)

LEMMA QuietOrder ==
  ASSUME TypeOK, QuietStep, ReviewsInOrder
  PROVE  ReviewsInOrder'
<1> SUFFICES ASSUME NEW g \in Leadgen, g \notin raced' PROVE OneByOne(g)'
  BY DEF ReviewsInOrder
<1>1. /\ OneByOne(g) /\ UNCHANGED <<review, made, crashes>> /\ faults' >= faults
      /\ approval'[g] # approval[g] => approval[g] = "none" /\ approval'[g] = "PENDING"
      /\ faults' \in Nat
  BY DEF ReviewsInOrder, QuietStep
<1>2. crashes \in Nat /\ faults \in Nat /\ made[g] \in Nat
  BY DEF TypeOK
<1>3. /\ \A c, d \in Reviewer : On(c, g)' /\ On(d, g)' => c = d
      /\ \A l \in {"create", "approve", "emit", "reject"} : Reviewing(g, l)' <=> Reviewing(g, l)
  BY <1>1 DEF OneByOne, On, Reviewing
<1> QED
  BY <1>1, <1>2, <1>3 DEF OneByOne

LEMMA CrashOrder ==
  ASSUME TypeOK, Crash, ReviewsInOrder
  PROVE  ReviewsInOrder'
<1> SUFFICES ASSUME NEW g \in Leadgen, g \notin raced' PROVE OneByOne(g)'
  BY DEF ReviewsInOrder
<1>1. OneByOne(g) /\ UNCHANGED <<approval, made, faults>> /\ crashes' = crashes + 1
      /\ \A c \in Reviewer : review'[c] = Free
  BY DEF ReviewsInOrder, Crash, leads
<1>2. crashes \in Nat /\ faults \in Nat /\ made[g] \in Nat
  BY DEF TypeOK
<1>3. /\ \A c \in Reviewer : ~On(c, g)'
      /\ \A l \in {"create", "approve", "emit", "reject"} : ~Reviewing(g, l)'
  BY <1>1 DEF On, Reviewing, Free
<1> QED
  BY <1>1, <1>2, <1>3 DEF OneByOne

LEMMA ReviewOrder ==
  ASSUME TypeOK, NEW c \in Reviewer, NEW g \in Leadgen, ReviewEffect(c, g), ReviewsInOrder
  PROVE  ReviewsInOrder'
<1> SUFFICES ASSUME NEW x \in Leadgen, x \notin raced' PROVE OneByOne(x)'
  BY DEF ReviewsInOrder
<1> DEFINE Labels == {"create", "approve", "emit", "reject"}
<1>1. OneByOne(x) /\ OthersStay(c) /\ crashes' = crashes
  <2>1. x \notin raced
    BY DEF ReviewEffect, NoteRace
  <2> QED
    BY <2>1 DEF ReviewsInOrder, ReviewEffect
<1>2. crashes \in Nat /\ faults \in Nat /\ made[x] \in Nat /\ made[g] \in Nat
  BY DEF TypeOK
<1>3. \A d \in Reviewer, y \in Leadgen : On(d, y) <=> \E l \in Labels : review[d] = R(l, y)
  <2> SUFFICES ASSUME NEW d \in Reviewer, NEW y \in Leadgen
               PROVE  On(d, y) <=> \E l \in Labels : review[d] = R(l, y)
    OBVIOUS
  <2>1. On(d, y) => \E l \in Labels : review[d] = R(l, y)
    BY ReviewFacts DEF On
  <2>2. ASSUME NEW l \in Labels, review[d] = R(l, y) PROVE On(d, y)
    BY <2>2, RFacts DEF On
  <2> QED
    BY <2>1, <2>2
<1>4. \A l \in Labels, y \in Leadgen : Reviewing(y, l) <=> \E d \in Reviewer : review[d] = R(l, y)
  BY DEF Reviewing, R
<1>5. \A l \in Labels, y \in Leadgen : Reviewing(y, l)' <=> \E d \in Reviewer : review'[d] = R(l, y)
  BY DEF Reviewing, R
<1>6. CASE x # g
  <2>1. approval'[x] = approval[x] /\ made'[x] = made[x] /\ faults' \in Nat /\ faults' >= faults
    BY <1>6 DEF ReviewEffect, Count, TypeOK
  <2>2. /\ ~On(c, x) /\ ~On(c, x)'
        /\ \A l \in Labels : review[c] # R(l, x) /\ review'[c] # R(l, x)
    BY <1>6, RFacts, ReviewFacts DEF ReviewEffect, On
  <2>3. \A l \in Labels : Reviewing(x, l)' <=> Reviewing(x, l)
    BY <1>1, <1>4, <1>5, <2>2 DEF OthersStay
  <2>4. \A d, e \in Reviewer : On(d, x)' /\ On(e, x)' => d = e
    BY <1>1, <2>2 DEF OneByOne, OthersStay, On
  <2> QED
    BY <1>1, <1>2, <2>1, <2>3, <2>4 DEF OneByOne
<1>7. CASE x = g
  <2>1. \A d \in Reviewer : d # c => ~On(d, g) /\ ~On(d, g)' /\ \A l \in Labels : review'[d] # R(l, g)
    <3>1. \A d \in Reviewer : d # c => ~On(d, g)
      BY <1>1, <1>7, RFacts DEF OneByOne, ReviewEffect, NoteRace, On
    <3> QED
      BY <1>1, <3>1, <1>3 DEF OthersStay, On
  <2>2. \A d, e \in Reviewer : On(d, g)' /\ On(e, g)' => d = e
    BY <2>1
  <2>3. \A l \in Labels : Reviewing(g, l)' <=> review'[c] = R(l, g)
    BY <1>5, <2>1
  <2>4. \A l \in Labels : Reviewing(g, l) <=> review[c] = R(l, g)
    BY <1>3, <1>4, <2>1
  <2>5. Free \notin {R("create", g), R("approve", g), R("emit", g), R("reject", g)}
    BY RFacts
  <2>6. /\ R("create", g) # R("approve", g) /\ R("create", g) # R("emit", g)
        /\ R("create", g) # R("reject", g) /\ R("approve", g) # R("emit", g)
        /\ R("approve", g) # R("reject", g) /\ R("emit", g) # R("reject", g)
    BY RFacts
  <2>7. CASE review[c] = Free
    BY <1>1, <1>2, <1>7, <2>2, <2>3, <2>4, <2>5, <2>6, <2>7, RFacts DEF OneByOne, ReviewEffect, On
  <2>8. CASE review'[c] = R("approve", g)
    BY <1>1, <1>2, <1>7, <2>2, <2>3, <2>4, <2>5, <2>6, <2>8 DEF OneByOne, ReviewEffect, Count, TypeOK
  <2>9. CASE review'[c] = R("emit", g)
    BY <1>1, <1>2, <1>7, <2>2, <2>3, <2>4, <2>5, <2>6, <2>9 DEF OneByOne, ReviewEffect, TypeOK
  <2>10. CASE review[c] # Free /\ review'[c] = Free
    BY <1>1, <1>2, <1>7, <2>2, <2>3, <2>4, <2>5, <2>6, <2>10 DEF OneByOne, ReviewEffect, TypeOK
  <2> QED
    BY <2>7, <2>8, <2>9, <2>10 DEF ReviewEffect
<1> QED
  BY <1>6, <1>7

LEMMA NextOrdered ==
  ASSUME TypeOK, [Next]_vars, ReviewsInOrder
  PROVE  ReviewsInOrder'
BY NextCases, QuietOrder, CrashOrder, ReviewOrder

LEMMA InitOrder ==
  ASSUME Init
  PROVE  ReviewsInOrder
<1> SUFFICES ASSUME NEW g \in Leadgen PROVE OneByOne(g)
  BY DEF ReviewsInOrder
<1>1. \A c \in Reviewer : ~On(c, g)
  BY DEF Init, On
<1>2. \A l \in {"create", "approve", "emit", "reject"} : ~Reviewing(g, l)
  BY DEF Init, Reviewing, Free
<1> QED
  BY <1>1, <1>2 DEF Init, OneByOne

LEMMA SettledStays ==
  ASSUME TypeOK, [Next]_vars, ReviewsInOrder,
         NEW g \in Leadgen \ raced, approval[g] \in {"APPROVED", "REJECTED"}
  PROVE  approval'[g] = approval[g]
<1>1. CASE QuietStep
  BY <1>1 DEF QuietStep
<1>2. CASE Crash
  BY <1>2 DEF Crash
<1>3. ASSUME NEW c \in Reviewer, NEW x \in Leadgen, ReviewEffect(c, x)
      PROVE  approval'[g] = approval[g]
  <2>1. OneByOne(g)
    BY DEF ReviewsInOrder
  <2>2. review[c] = R("approve", g) => approval[g] = "PENDING"
    BY <2>1 DEF OneByOne, Reviewing, R
  <2>3. review[c] = R("reject", g) => approval[g] \in {"PENDING", "REJECTED"}
    BY <2>1 DEF OneByOne, Reviewing, R
  <2> QED
    BY <1>3, <2>2, <2>3 DEF ReviewEffect, TypeOK
<1> QED
  BY <1>1, <1>2, <1>3, NextCases

(* Without two requests for it at once, a submission that was approved or   *)
(* rejected stays so: fetches and later requests leave it alone.            *)
THEOREM ReviewsAreFinal == Spec => ReviewIsFinal
<1> DEFINE Settled == \A g \in Leadgen \ raced : approval[g] \in {"APPROVED", "REJECTED"} =>
                        approval'[g] = approval[g]
<1>1. Init => TypeOK /\ ReviewsInOrder
  BY InitOrder DEF Init, TypeOK, Approval
<1>2. TypeOK /\ ReviewsInOrder /\ [Next]_vars => TypeOK' /\ ReviewsInOrder'
  BY NextTypeOK, NextOrdered
<1>3. TypeOK /\ ReviewsInOrder /\ [Next]_vars => [Settled]_vars
  BY SettledStays
<1>4. Spec => [][Settled]_vars
  <2> HIDE DEF Settled
  <2> QED
    BY <1>1, <1>2, <1>3, PTL DEF Spec
<1> QED
  BY <1>4 DEF ReviewIsFinal

(* An approval makes one lead, and one more for each time a request was     *)
(* cut off, whatever the webhook and the fetches do.                        *)
LEMMA OrderMakesOne ==
  ASSUME TypeOK, ReviewsInOrder
  PROVE  OneLeadPerApproval
<1> SUFFICES ASSUME NEW g \in Leadgen \ raced
             PROVE  /\ made[g] <= 1 + crashes + faults
                    /\ approval[g] = "APPROVED" => made[g] > 0
                    /\ made[g] > 0 => \/ approval[g] = "APPROVED" \/ Reviewing(g, "approve")
                                      \/ crashes + faults > 0
  BY DEF OneLeadPerApproval
<1>1. OneByOne(g) /\ crashes \in Nat /\ faults \in Nat /\ made[g] \in Nat
  BY DEF ReviewsInOrder, TypeOK
<1> QED
  BY <1>1 DEF OneByOne

-----------------------------------------------------------------------------
(* Requests counted by where they are *)

LEMMA SetCounts ==
  ASSUME NEW S, IsFiniteSet(S), NEW e
  PROVE  /\ e \notin S => /\ IsFiniteSet(S \cup {e})
                          /\ Cardinality(S \cup {e}) = Cardinality(S) + 1
         /\ e \in S => /\ IsFiniteSet(S \ {e})
                       /\ Cardinality(S \ {e}) + 1 = Cardinality(S)
         /\ Cardinality(S) \in Nat
<1>1. Cardinality(S) \in Nat
  BY FS_CardinalityType
<1>2. e \notin S => IsFiniteSet(S \cup {e}) /\ Cardinality(S \cup {e}) = Cardinality(S) + 1
  BY FS_AddElement
<1>3. e \in S => IsFiniteSet(S \ {e}) /\ Cardinality(S \ {e}) = Cardinality(S) - 1
  BY FS_RemoveElement
<1> QED
  BY <1>1, <1>2, <1>3

LEMMA RevFinite ==
  ASSUME NEW g \in Leadgen, NEW l
  PROVE  /\ IsFiniteSet(Rev(g, l)) /\ Cardinality(Rev(g, l)) \in Nat
         /\ Cardinality(Rev(g, l)) <= Cardinality(Reviewer) /\ Cardinality(Reviewer) \in Nat
<1>1. Rev(g, l) \subseteq Reviewer
  BY DEF Rev
<1> QED
  BY <1>1, FS_Subset, FS_CardinalityType, RecoveryAssumption

(* The numbers that create and that record a lead add up to no more than   *)
(* the requests.                                                           *)
LEMMA RevDisjoint ==
  ASSUME NEW g \in Leadgen
  PROVE  Cardinality(Rev(g, "create")) + Cardinality(Rev(g, "approve")) <= Cardinality(Reviewer)
<1> DEFINE A == Rev(g, "create")
           B == Rev(g, "approve")
<1>1. A \cup B \subseteq Reviewer
  BY DEF Rev
<1>2. A \cap B = {}
  BY RFacts DEF Rev
<1>3. IsFiniteSet(A) /\ IsFiniteSet(B) /\ Cardinality(A) \in Nat /\ Cardinality(B) \in Nat
  BY RevFinite
<1> HIDE DEF A, B
<1>4. Cardinality(A \cup B) = Cardinality(A) + Cardinality(B) - Cardinality(A \cap B)
  BY <1>3, FS_Union
<1>5. Cardinality(A \cap B) = 0
  BY <1>2, FS_EmptySet
<1>6. Cardinality(A \cup B) <= Cardinality(Reviewer)
  BY <1>1, FS_Subset, RecoveryAssumption
<1>7. Cardinality(A) + Cardinality(B) <= Cardinality(Reviewer)
  BY <1>3, <1>4, <1>5, <1>6
<1> QED
  BY <1>7 DEF A, B

(* A step of one request moves one element.                                *)
LEMMA RevCounts ==
  ASSUME TypeOK, NEW c \in Reviewer, OthersStay(c), NEW g \in Leadgen,
         NEW l \in {"create", "approve", "emit", "reject"}
  PROVE  Cardinality(Rev(g, l))' + (IF review[c] = R(l, g) THEN 1 ELSE 0)
           = Cardinality(Rev(g, l)) + (IF review'[c] = R(l, g) THEN 1 ELSE 0)
<1> DEFINE S == Rev(g, l)
           T == {d \in Reviewer : review'[d] = R(l, g)}
<1>1. Rev(g, l)' = T
  BY DEF Rev
<1>2. IsFiniteSet(S) /\ Cardinality(S) \in Nat
  BY RevFinite
<1>3. CASE (review[c] = R(l, g)) <=> (review'[c] = R(l, g))
  <2>1. S = T
    BY <1>3 DEF Rev, OthersStay
  <2> QED
    BY <1>1, <1>2, <1>3, <2>1
<1>4. CASE review[c] = R(l, g) /\ review'[c] # R(l, g)
  <2>1. T = S \ {c} /\ c \in S
    BY <1>4 DEF Rev, OthersStay
  <2>2. Cardinality(T) + 1 = Cardinality(S) /\ Cardinality(T) \in Nat
    <3>1. IsFiniteSet(T) /\ Cardinality(T) + 1 = Cardinality(S)
      BY <1>2, <2>1, SetCounts
    <3> QED
      BY <3>1, FS_CardinalityType
  <2> HIDE DEF S, T
  <2>3. Cardinality(T) + (IF review[c] = R(l, g) THEN 1 ELSE 0)
          = Cardinality(S) + (IF review'[c] = R(l, g) THEN 1 ELSE 0)
    BY <1>2, <1>4, <2>2
  <2> QED
    BY <1>1, <2>3 DEF S
<1>5. CASE review[c] # R(l, g) /\ review'[c] = R(l, g)
  <2>1. T = S \cup {c} /\ c \notin S
    BY <1>5 DEF Rev, OthersStay
  <2>2. Cardinality(T) = Cardinality(S) + 1
    BY <1>2, <2>1, SetCounts
  <2> HIDE DEF S, T
  <2>3. Cardinality(T) + (IF review[c] = R(l, g) THEN 1 ELSE 0)
          = Cardinality(S) + (IF review'[c] = R(l, g) THEN 1 ELSE 0)
    BY <1>2, <1>5, <2>2
  <2> QED
    BY <1>1, <2>3 DEF S
<1> QED
  BY <1>3, <1>4, <1>5

LEMMA RevUnchanged ==
  ASSUME NEW g \in Leadgen, NEW l, review' = review
  PROVE  Cardinality(Rev(g, l))' = Cardinality(Rev(g, l))
<1>1. Rev(g, l)' = Rev(g, l)
  BY DEF Rev
<1> QED
  BY <1>1

LEMMA RevEmpty ==
  ASSUME NEW g \in Leadgen, NEW l \in {"create", "approve", "emit", "reject"}
  PROVE  /\ (\A c \in Reviewer : review[c] = Free) => Cardinality(Rev(g, l)) = 0
         /\ (\A c \in Reviewer : review'[c] = Free) => Cardinality(Rev(g, l))' = 0
<1>1. R(l, g) # Free
  BY RFacts
<1>2. (\A c \in Reviewer : review[c] = Free) => Rev(g, l) = {}
  BY <1>1 DEF Rev
<1>3. (\A c \in Reviewer : review'[c] = Free) => Rev(g, l)' = {}
  BY <1>1 DEF Rev
<1> QED
  BY <1>2, <1>3, FS_EmptySet

-----------------------------------------------------------------------------
(* Reviews that race *)

LEMMA BoundNats ==
  ASSUME TypeOK, NEW g \in Leadgen
  PROVE  /\ made[g] \in Nat /\ crashes \in Nat /\ faults \in Nat /\ Cut \in Nat
         /\ Cardinality(Reviewer) \in Nat
         /\ Cardinality(Rev(g, "create")) \in Nat /\ Cardinality(Rev(g, "approve")) \in Nat
         /\ Cardinality(Rev(g, "create")) + Cardinality(Rev(g, "approve")) <= Cardinality(Reviewer)
<1>1. made[g] \in Nat /\ crashes \in Nat /\ faults \in Nat /\ Cardinality(Reviewer) \in Nat
  BY Zenon, RevFinite DEF TypeOK
<1>2. Cut \in Nat
  BY <1>1 DEF Cut
<1> QED
  BY <1>1, <1>2, RevFinite, RevDisjoint

LEMMA QuietBound ==
  ASSUME TypeOK, QuietStep, LeadsAreBounded
  PROVE  LeadsAreBounded'
<1> SUFFICES ASSUME NEW g \in Leadgen PROVE BoundedAt(g)'
  BY DEF LeadsAreBounded
<1>1. /\ BoundedAt(g) /\ made'[g] = made[g] /\ Cut' = Cut
      /\ faults' \in Nat /\ faults' >= faults /\ (Unsettled(g)' <=> Unsettled(g))
  BY DEF LeadsAreBounded, QuietStep, Unsettled, Cut
<1>2. \A l \in {"create", "approve"} : Cardinality(Rev(g, l))' = Cardinality(Rev(g, l))
  BY RevUnchanged DEF QuietStep
<1> QED
  BY <1>1, <1>2, BoundNats DEF BoundedAt

LEMMA CrashBound ==
  ASSUME TypeOK, Crash, LeadsAreBounded
  PROVE  LeadsAreBounded'
<1> SUFFICES ASSUME NEW g \in Leadgen PROVE BoundedAt(g)'
  BY DEF LeadsAreBounded
<1>1. /\ BoundedAt(g) /\ made'[g] = made[g] /\ crashes' = crashes + 1
      /\ faults' = faults /\ (Unsettled(g)' <=> Unsettled(g))
      /\ \A c \in Reviewer : review'[c] = Free
  BY DEF LeadsAreBounded, Crash, Unsettled, leads
<1>2. Cut' = Cut + Cardinality(Reviewer)
  BY <1>1, BoundNats DEF Cut
<1>3. Cardinality(Rev(g, "create"))' = 0 /\ Cardinality(Rev(g, "approve"))' = 0
  BY <1>1, RevEmpty
<1> QED
  BY <1>1, <1>2, <1>3, BoundNats DEF BoundedAt

LEMMA ReviewBound ==
  ASSUME TypeOK, NEW c \in Reviewer, NEW g \in Leadgen, ReviewEffect(c, g), LeadsAreBounded
  PROVE  LeadsAreBounded'
<1> SUFFICES ASSUME NEW x \in Leadgen PROVE BoundedAt(x)'
  BY DEF LeadsAreBounded
<1> DEFINE C == Cardinality(Rev(x, "create"))
           A == Cardinality(Rev(x, "approve"))
           N == Cardinality(Reviewer)
<1>1. BoundedAt(x) /\ OthersStay(c) /\ Cut' = Cut
  BY DEF LeadsAreBounded, ReviewEffect, Cut
<1>2. /\ made[x] \in Nat /\ faults \in Nat /\ Cut \in Nat /\ N \in Nat
      /\ C \in Nat /\ A \in Nat /\ C + A <= N
  BY BoundNats
<1>3. PICK C2 \in Nat, A2 \in Nat : C2 = Cardinality(Rev(x, "create"))' /\ A2 = Cardinality(Rev(x, "approve"))'
  <2>1. Rev(x, "create")' \subseteq Reviewer /\ Rev(x, "approve")' \subseteq Reviewer
    BY DEF Rev
  <2> QED
    BY <2>1, FS_Subset, FS_CardinalityType, RecoveryAssumption
<1>4. /\ C2 + (IF review[c] = R("create", x) THEN 1 ELSE 0)
           = C + (IF review'[c] = R("create", x) THEN 1 ELSE 0)
      /\ A2 + (IF review[c] = R("approve", x) THEN 1 ELSE 0)
           = A + (IF review'[c] = R("approve", x) THEN 1 ELSE 0)
  BY <1>1, <1>3, RevCounts
<1> HIDE DEF C, A, N
<1>5. BoundedAt(x) <=> IF Unsettled(x) THEN made[x] <= Cut + faults + A
                                       ELSE made[x] + C <= Cut + N + faults
  BY DEF BoundedAt, C, A, N
<1>6. BoundedAt(x)' <=> IF Unsettled(x)' THEN made'[x] <= Cut' + faults' + A2
                                         ELSE made'[x] + C2 <= Cut' + N + faults'
  BY <1>3 DEF BoundedAt, N
<1>7. /\ R("create", x) # R("approve", x) /\ R("create", x) # R("emit", x)
      /\ R("create", x) # R("reject", x) /\ R("approve", x) # R("emit", x)
      /\ R("approve", x) # R("reject", x)
      /\ Free \notin {R("create", x), R("approve", x)}
  BY RFacts
<1>8. CASE x # g
  <2>1. \A l \in {"create", "approve"} : review[c] # R(l, x) /\ review'[c] # R(l, x)
    BY <1>8, RFacts, ReviewFacts DEF ReviewEffect, On
  <2>2. /\ made'[x] = made[x] /\ faults' \in Nat /\ faults' >= faults
        /\ Unsettled(x)' <=> Unsettled(x)
    BY <1>2, <1>8 DEF ReviewEffect, Count, TypeOK, Unsettled
  <2>3. A2 = A /\ C2 = C
    BY <1>2, <1>3, <1>4, <2>1
  <2> QED
    BY <1>1, <1>2, <1>3, <1>5, <1>6, <2>2, <2>3
<1>9. CASE x = g
  <2>1. CASE review[c] = Free
    <3>1. /\ made'[x] = made[x] /\ faults' = faults /\ approval' = approval
          /\ review'[c] # R("approve", x)
          /\ review'[c] = R("create", x) => approval[x] = "PENDING"
      BY <1>7, <1>9, <2>1, RFacts DEF ReviewEffect, On
    <3>2. A2 = A /\ (~Unsettled(x) => C2 = C) /\ (Unsettled(x)' <=> Unsettled(x))
      BY <1>2, <1>3, <1>4, <1>7, <2>1, <3>1 DEF Unsettled
    <3> QED
      BY <1>1, <1>2, <1>3, <1>5, <1>6, <3>1, <3>2
  <2>2. CASE review[c] = R("create", g) /\ review'[c] = R("approve", g)
    <3>1. made'[x] = made[x] + 1 /\ faults' = faults /\ approval' = approval
      BY <1>7, <1>9, <2>2 DEF ReviewEffect, Count, TypeOK
    <3>2. A2 = A + 1 /\ C2 + 1 = C /\ (Unsettled(x)' <=> Unsettled(x))
      BY <1>2, <1>3, <1>4, <1>7, <1>9, <2>2, <3>1 DEF Unsettled
    <3> QED
      BY <1>1, <1>2, <1>3, <1>5, <1>6, <3>1, <3>2
  <2>3. CASE review[c] = R("approve", g) /\ review'[c] = R("emit", g)
    <3>1. made'[x] = made[x] /\ faults' = faults /\ approval'[x] = "APPROVED"
      BY <1>7, <1>9, <2>3, RFacts DEF ReviewEffect, TypeOK
    <3>2. A2 + 1 = A /\ C2 = C /\ ~Unsettled(x)'
      BY <1>2, <1>3, <1>4, <1>7, <1>9, <2>3, <3>1 DEF Unsettled
    <3> QED
      BY <1>1, <1>2, <1>3, <1>5, <1>6, <3>1, <3>2
  <2>4. CASE review[c] = R("emit", g) /\ review'[c] = Free /\ faults' = faults
    <3>1. made'[x] = made[x] /\ approval' = approval
      BY <1>2, <1>7, <1>9, <2>4, RFacts DEF ReviewEffect, TypeOK
    <3>2. A2 = A /\ C2 = C /\ (Unsettled(x)' <=> Unsettled(x))
      BY <1>2, <1>3, <1>4, <1>7, <1>9, <2>4, <3>1 DEF Unsettled
    <3> QED
      BY <1>1, <1>2, <1>3, <1>5, <1>6, <2>4, <3>1, <3>2
  <2>5. CASE review[c] = R("reject", g) /\ review'[c] = Free /\ faults' = faults
    <3>1. made'[x] = made[x] /\ approval'[x] = "REJECTED"
      BY <1>2, <1>7, <1>9, <2>5, RFacts DEF ReviewEffect, TypeOK
    <3>2. A2 = A /\ C2 = C /\ ~Unsettled(x)'
      BY <1>2, <1>3, <1>4, <1>7, <1>9, <2>5, <3>1 DEF Unsettled
    <3> QED
      BY <1>1, <1>2, <1>3, <1>5, <1>6, <2>5, <3>1, <3>2
  <2>6. CASE /\ On(c, g) /\ review'[c] = Free /\ faults' = faults + 1
             /\ UNCHANGED <<approval, made, announced, raced>>
    <3>1. /\ A2 <= A /\ A <= A2 + 1 /\ C2 <= C /\ (Unsettled(x)' <=> Unsettled(x))
      BY <1>2, <1>3, <1>4, <1>7, <2>6 DEF Unsettled
    <3> QED
      BY <1>1, <1>2, <1>3, <1>5, <1>6, <2>6, <3>1
  <2> QED
    BY <2>1, <2>2, <2>3, <2>4, <2>5, <2>6 DEF ReviewEffect
<1> QED
  BY <1>8, <1>9

LEMMA BoundMakesFew ==
  ASSUME TypeOK, LeadsAreBounded
  PROVE  DuplicatesAreConcurrent
<1> SUFFICES ASSUME NEW g \in Leadgen
             PROVE  made[g] <= Cardinality(Reviewer) * (1 + crashes) + faults
  BY DEF DuplicatesAreConcurrent
<1>1. Cardinality(Reviewer) * (1 + crashes) = Cut + Cardinality(Reviewer)
  BY BoundNats DEF Cut
<1> QED
  BY <1>1, BoundNats DEF LeadsAreBounded, BoundedAt

-----------------------------------------------------------------------------
(* Leads and their events *)

LEMMA HookHasEffect ==
  ASSUME TypeOK, NEW h \in Hook, NEW g \in Leadgen,
         \/ Deliver(h, g)
         \/ hook[h].id = g /\ (ImportLead(h) \/ AnnounceImport(h) \/ HookFails(h))
  PROVE  HookEffect(h, g)
<1>1. hook \in [Hook -> HookTask \cup {Free}]
  BY DEF TypeOK
<1>2. hook[h] # Free => hook[h] = R(hook[h].at, hook[h].id)
  BY <1>1 DEF HookTask, R
<1>3. CASE Deliver(h, g)
  BY <1>1, <1>3 DEF Deliver, HookEffect, OtherHooksStay, leads, budgets, R
<1>4. CASE ImportLead(h) /\ hook[h].id = g
  <2>1. OtherHooksStay(h) /\ hook[h] = R("create", g)
    BY <1>1, <1>2, <1>4 DEF ImportLead, OtherHooksStay
  <2>2. \/ hook' = [hook EXCEPT ![h].at = "emit"] /\ UNCHANGED declined
        \/ g \notin interested /\ hook' = [hook EXCEPT ![h] = Free] /\ Count(declined, g)
    BY Zenon, <1>4 DEF ImportLead, Heard
  <2>3. CASE hook' = [hook EXCEPT ![h].at = "emit"] /\ UNCHANGED declined
    <3>1. hook'[h] = R("emit", g)
      BY <1>1, <2>1, <2>3 DEF R
    <3> QED
      BY <1>4, <2>1, <2>3, <3>1 DEF ImportLead, HookEffect, meta, budgets
  <2>4. CASE g \notin interested /\ hook' = [hook EXCEPT ![h] = Free] /\ Count(declined, g)
    <3>1. hook'[h] = Free
      BY <1>1, <2>4
    <3> QED
      BY <1>4, <2>1, <2>4, <3>1 DEF ImportLead, HookEffect, meta, budgets
  <2> QED
    BY <2>2, <2>3, <2>4
<1>5. CASE AnnounceImport(h) /\ hook[h].id = g
  BY <1>1, <1>2, <1>5 DEF AnnounceImport, HookEffect, OtherHooksStay, meta, budgets
<1>6. CASE HookFails(h)
  BY <1>1, <1>6 DEF HookFails, Fault, HookEffect, OtherHooksStay, meta, leads
<1> QED
  BY <1>3, <1>4, <1>5, <1>6

LEMMA EventCases ==
  ASSUME TypeOK, [Next]_vars
  PROVE  \/ \E c \in Reviewer, g \in Leadgen : ReviewEffect(c, g)
         \/ \E h \in Hook, g \in Leadgen : HookEffect(h, g)
         \/ StillStep \/ Crash
<1>1. ASSUME NEW g \in Leadgen, Submit(g) PROVE StillStep
  BY <1>1 DEF Submit, StillStep, leads, budgets, TypeOK
<1>2. ASSUME NEW g \in Leadgen, DeleteLead(g) PROVE StillStep
  BY <1>2 DEF DeleteLead, StillStep, meta, leads, budgets, TypeOK
<1>3. ASSUME NEW h \in Hook, ImportLead(h) \/ AnnounceImport(h) \/ HookFails(h)
      PROVE  \E g \in Leadgen : HookEffect(h, g)
  <2>1. PICK g \in Leadgen : g = hook[h].id
    BY <1>3 DEF ImportLead, AnnounceImport, HookFails, TypeOK, HookTask
  <2> QED
    BY <1>3, <2>1, HookHasEffect
<1>4. ASSUME NEW f \in Fetcher, ReadApprovals(f) \/ ReadLeads(f) \/ FetchEnds(f) PROVE StillStep
  BY <1>4 DEF ReadApprovals, ReadLeads, FetchEnds, Fault, StillStep, meta, leads, budgets, TypeOK
<1>5. ASSUME NEW f \in Fetcher, NEW g \in Leadgen, UpsertPending(f, g) PROVE StillStep
  BY <1>5 DEF UpsertPending, StillStep, meta, leads, budgets, TypeOK
<1>6. CASE UNCHANGED vars
  BY <1>6 DEF vars, StillStep, meta, leads, budgets, TypeOK
<1> QED
  BY <1>1, <1>2, <1>3, <1>4, <1>5, <1>6, ReviewHasEffect, HookHasEffect DEF Next

LEMMA NextHooks ==
  ASSUME TypeOK, [Next]_vars, HooksAreSubmitted
  PROVE  HooksAreSubmitted'
<1>1. CASE StillStep
  BY <1>1 DEF StillStep, HooksAreSubmitted
<1>2. CASE Crash
  BY <1>2 DEF Crash, HooksAreSubmitted, meta, leads
<1>3. ASSUME NEW c \in Reviewer, NEW g \in Leadgen, ReviewEffect(c, g) PROVE HooksAreSubmitted'
  BY <1>3 DEF ReviewEffect, HooksAreSubmitted
<1>4. ASSUME NEW h \in Hook, NEW g \in Leadgen, HookEffect(h, g) PROVE HooksAreSubmitted'
  <2>1. /\ \A k \in Hook : hook[k] # Free => hook[k].id \in submitted
        /\ \A k \in Hook : k # h => hook'[k] = hook[k]
        /\ submitted' = submitted /\ interested' = interested
    BY <1>4 DEF HooksAreSubmitted, HookEffect, OtherHooksStay
  <2>2. hook'[h] # Free => hook'[h].id \in submitted
    <3>1. hook[h] = R("create", g) => g \in submitted
      BY <2>1, RFacts
    <3> QED
      BY <1>4, <3>1, RFacts DEF HookEffect
  <2>3. \A x \in Leadgen : declined'[x] > 0 => x \in submitted /\ x \notin interested
    <3>1. hook[h] = R("create", g) => g \in submitted
      BY <2>1, RFacts
    <3> QED
      BY <1>4, <3>1 DEF HookEffect, Count, HooksAreSubmitted, TypeOK
  <2> QED
    BY <2>1, <2>2, <2>3 DEF HooksAreSubmitted
<1> QED
  BY <1>1, <1>2, <1>3, <1>4, EventCases

LEMMA HookedCounts ==
  ASSUME TypeOK, NEW h \in Hook, OtherHooksStay(h), NEW g \in Leadgen
  PROVE  /\ Cardinality(Hooked(g)) \in Nat /\ Cardinality(Hooked(g))' \in Nat
         /\ Cardinality(Hooked(g))' + (IF hook[h] = R("emit", g) THEN 1 ELSE 0)
              = Cardinality(Hooked(g)) + (IF hook'[h] = R("emit", g) THEN 1 ELSE 0)
<1> DEFINE S == Hooked(g)
           T == {k \in Hook : hook'[k] = R("emit", g)}
<1>1. Hooked(g)' = T
  BY DEF Hooked
<1>2. IsFiniteSet(S) /\ Cardinality(S) \in Nat /\ IsFiniteSet(T) /\ Cardinality(T) \in Nat
  <2>1. S \subseteq Hook /\ T \subseteq Hook
    BY DEF Hooked
  <2> QED
    BY <2>1, FS_Subset, FS_CardinalityType, RecoveryAssumption
<1>3. Cardinality(T) + (IF hook[h] = R("emit", g) THEN 1 ELSE 0)
        = Cardinality(S) + (IF hook'[h] = R("emit", g) THEN 1 ELSE 0)
  <2>1. CASE (hook[h] = R("emit", g)) <=> (hook'[h] = R("emit", g))
    <3>1. S = T
      BY <2>1 DEF Hooked, OtherHooksStay
    <3> HIDE DEF S, T
    <3> QED
      BY <1>2, <2>1, <3>1
  <2>2. CASE hook[h] = R("emit", g) /\ hook'[h] # R("emit", g)
    <3>1. T = S \ {h} /\ h \in S
      BY <2>2 DEF Hooked, OtherHooksStay
    <3> HIDE DEF S, T
    <3>2. Cardinality(T) + 1 = Cardinality(S)
      BY <1>2, <3>1, SetCounts
    <3> QED
      BY <1>2, <2>2, <3>2
  <2>3. CASE hook[h] # R("emit", g) /\ hook'[h] = R("emit", g)
    <3>1. T = S \cup {h} /\ h \notin S
      BY <2>3 DEF Hooked, OtherHooksStay
    <3> HIDE DEF S, T
    <3>2. Cardinality(T) = Cardinality(S) + 1
      BY <1>2, <3>1, SetCounts
    <3> QED
      BY <1>2, <2>3, <3>2
  <2> QED
    BY <2>1, <2>2, <2>3
<1> HIDE DEF T
<1> QED
  BY <1>1, <1>2, <1>3

LEMMA HookEvents ==
  ASSUME TypeOK, NEW h \in Hook, NEW g \in Leadgen, HookEffect(h, g), EventsFollow
  PROVE  EventsFollow'
<1> SUFFICES ASSUME Undisturbed', NEW x \in Leadgen PROVE FollowedAt(x)'
  BY DEF EventsFollow
<1>1. crashes \in Nat /\ faults \in Nat /\ made[x] \in Nat /\ announced[x] \in Nat
      /\ imported[x] \in Nat /\ declined[x] \in Nat
  BY DEF TypeOK
<1>2. faults' = faults /\ FollowedAt(x)
  <2>1. faults' = faults
    BY <1>1 DEF HookEffect, Undisturbed
  <2> QED
    BY <2>1 DEF HookEffect, Undisturbed, EventsFollow
<1>3. UNCHANGED <<review, made, interested>> /\ OtherHooksStay(h)
  BY DEF HookEffect
<1> DEFINE A == Cardinality(Rev(x, "approve"))
           E == Cardinality(Rev(x, "emit"))
           H == Cardinality(Hooked(x))
<1>4. A \in Nat /\ E \in Nat /\ H \in Nat
  BY <1>3, RevFinite, HookedCounts
<1>5. PICK H2 \in Nat : H2 = Cardinality(Hooked(x))'
  BY <1>3, HookedCounts
<1>6. H2 + (IF hook[h] = R("emit", x) THEN 1 ELSE 0)
        = H + (IF hook'[h] = R("emit", x) THEN 1 ELSE 0)
  BY <1>3, <1>5, HookedCounts
<1>7. Cardinality(Rev(x, "approve"))' = A /\ Cardinality(Rev(x, "emit"))' = E
  BY <1>3, RevUnchanged
<1> HIDE DEF A, E, H
<1>8. announced[x] + declined[x] + H + A + E = made[x] + imported[x]
  BY <1>2 DEF FollowedAt, A, E, H
<1>9. FollowedAt(x)' <=>
        announced'[x] + declined'[x] + H2 + A + E = made[x] + imported'[x]
  BY <1>3, <1>5, <1>7 DEF FollowedAt
<1>10. /\ R("create", x) # R("emit", x) /\ Free # R("emit", x) /\ Free # R("create", x)
       /\ R("create", g) # R("emit", x) /\ (x # g => R("emit", g) # R("emit", x))
  BY RFacts
<1>11. CASE hook[h] = Free /\ hook'[h] = R("create", g) /\ UNCHANGED <<imported, declined, announced>>
  BY <1>1, <1>4, <1>6, <1>8, <1>9, <1>10, <1>11
<1>12. CASE /\ hook[h] = R("create", g) /\ Count(imported, g) /\ UNCHANGED <<declined, announced>>
            /\ hook'[h] = R("emit", g)
  <2>1. imported'[x] = IF x = g THEN imported[x] + 1 ELSE imported[x]
    BY <1>12 DEF Count, TypeOK
  <2>2. H2 = IF x = g THEN H + 1 ELSE H
    BY <1>4, <1>6, <1>10, <1>12
  <2> QED
    BY <1>1, <1>4, <1>8, <1>9, <1>12, <2>1, <2>2
<1>15. CASE /\ hook[h] = R("create", g) /\ Count(imported, g) /\ UNCHANGED announced
            /\ hook'[h] = Free /\ Count(declined, g)
  <2>1. /\ imported'[x] = IF x = g THEN imported[x] + 1 ELSE imported[x]
        /\ declined'[x] = IF x = g THEN declined[x] + 1 ELSE declined[x]
    BY <1>15 DEF Count, TypeOK
  <2>2. H2 = H
    BY <1>4, <1>6, <1>10, <1>15
  <2> QED
    BY <1>1, <1>4, <1>8, <1>9, <1>15, <2>1, <2>2
<1>13. CASE /\ hook[h] = R("emit", g) /\ hook'[h] = Free /\ Count(announced, g)
            /\ UNCHANGED <<imported, declined>>
  <2>1. announced'[x] = IF x = g THEN announced[x] + 1 ELSE announced[x]
    BY <1>13 DEF Count, TypeOK
  <2>2. H2 + (IF x = g THEN 1 ELSE 0) = H
    BY <1>4, <1>6, <1>10, <1>13
  <2> QED
    BY <1>1, <1>4, <1>8, <1>9, <1>13, <2>1, <2>2
<1>14. faults' # faults + 1
  BY <1>1, <1>2
<1> QED
  BY <1>11, <1>12, <1>13, <1>14, <1>15 DEF HookEffect

LEMMA ReviewEvents ==
  ASSUME TypeOK, NEW c \in Reviewer, NEW g \in Leadgen, ReviewEffect(c, g), EventsFollow
  PROVE  EventsFollow'
<1> SUFFICES ASSUME Undisturbed', NEW x \in Leadgen PROVE FollowedAt(x)'
  BY DEF EventsFollow
<1>1. crashes \in Nat /\ faults \in Nat /\ made[x] \in Nat /\ announced[x] \in Nat
      /\ imported[x] \in Nat /\ declined[x] \in Nat
  BY DEF TypeOK
<1>2. faults' = faults /\ FollowedAt(x)
  <2>1. faults' = faults
    BY <1>1 DEF ReviewEffect, Undisturbed
  <2> QED
    BY <2>1 DEF ReviewEffect, Undisturbed, EventsFollow
<1>3. UNCHANGED <<hook, imported, declined>> /\ OthersStay(c)
  BY DEF ReviewEffect
<1> DEFINE A == Cardinality(Rev(x, "approve"))
           E == Cardinality(Rev(x, "emit"))
           H == Cardinality(Hooked(x))
<1>4. A \in Nat /\ E \in Nat /\ H \in Nat
  <2>1. Hooked(x) \subseteq Hook
    BY DEF Hooked
  <2> QED
    BY <2>1, RevFinite, FS_Subset, FS_CardinalityType, RecoveryAssumption
<1>5. PICK A2 \in Nat, E2 \in Nat : A2 = Cardinality(Rev(x, "approve"))'
                                    /\ E2 = Cardinality(Rev(x, "emit"))'
  <2>1. Rev(x, "approve")' \subseteq Reviewer /\ Rev(x, "emit")' \subseteq Reviewer
    BY DEF Rev
  <2> QED
    BY <2>1, FS_Subset, FS_CardinalityType, RecoveryAssumption
<1>6. /\ A2 + (IF review[c] = R("approve", x) THEN 1 ELSE 0)
           = A + (IF review'[c] = R("approve", x) THEN 1 ELSE 0)
      /\ E2 + (IF review[c] = R("emit", x) THEN 1 ELSE 0)
           = E + (IF review'[c] = R("emit", x) THEN 1 ELSE 0)
  BY <1>3, <1>5, RevCounts
<1>7. Cardinality(Hooked(x))' = H
  <2>1. Hooked(x)' = Hooked(x)
    BY <1>3 DEF Hooked
  <2> QED
    BY <2>1
<1> HIDE DEF A, E, H
<1>8. announced[x] + declined[x] + H + A + E = made[x] + imported[x]
  BY <1>2 DEF FollowedAt, A, E, H
<1>9. FollowedAt(x)' <=>
        announced'[x] + declined[x] + H + A2 + E2 = made'[x] + imported[x]
  BY <1>3, <1>5, <1>7 DEF FollowedAt
<1>10. \A l \in {"create", "approve", "emit", "reject"} :
         /\ R(l, g) = R("approve", x) <=> l = "approve" /\ x = g
         /\ R(l, g) = R("emit", x) <=> l = "emit" /\ x = g
         /\ Free # R(l, x)
  BY RFacts
<1>11. CASE /\ review[c] = Free /\ UNCHANGED <<made, announced>>
            /\ review'[c] = R("create", g) \/ review'[c] = R("reject", g)
  BY <1>1, <1>4, <1>6, <1>8, <1>9, <1>10, <1>11
<1>12. CASE /\ review[c] = R("create", g) /\ review'[c] = R("approve", g)
            /\ Count(made, g) /\ UNCHANGED announced
  <2>1. made'[x] = IF x = g THEN made[x] + 1 ELSE made[x]
    BY <1>12 DEF Count, TypeOK
  <2>2. E2 = E /\ A2 = A + (IF x = g THEN 1 ELSE 0)
    BY <1>4, <1>6, <1>10, <1>12
  <2>3. announced'[x] = announced[x]
    BY <1>12
  <2>4. announced'[x] + declined[x] + H + A2 + E2 = made'[x] + imported[x]
    <3>1. CASE x = g
      <4>1. made'[x] = made[x] + 1 /\ A2 = A + 1 /\ E2 = E
        BY <2>1, <2>2, <3>1
      <4> QED
        BY <1>1, <1>4, <1>8, <2>3, <4>1
    <3>2. CASE x # g
      <4>1. made'[x] = made[x] /\ A2 = A /\ E2 = E
        BY <1>4, <2>1, <2>2, <3>2
      <4> QED
        BY <1>1, <1>4, <1>8, <2>3, <4>1
    <3> QED
      BY <3>1, <3>2
  <2> QED
    BY <1>9, <2>4
<1>13. CASE /\ review[c] = R("approve", g) /\ review'[c] = R("emit", g)
            /\ UNCHANGED <<made, announced>>
  <2>1. E2 = E + (IF x = g THEN 1 ELSE 0) /\ A2 + (IF x = g THEN 1 ELSE 0) = A
    BY <1>4, <1>6, <1>10, <1>13
  <2> QED
    BY <1>1, <1>4, <1>8, <1>9, <1>13, <2>1
<1>14. CASE /\ review[c] = R("emit", g) /\ review'[c] = Free
            /\ Count(announced, g) /\ UNCHANGED made
  <2>1. announced'[x] = IF x = g THEN announced[x] + 1 ELSE announced[x]
    BY <1>14 DEF Count, TypeOK
  <2>2. A2 = A /\ E2 + (IF x = g THEN 1 ELSE 0) = E
    BY <1>4, <1>6, <1>10, <1>14
  <2> QED
    BY <1>1, <1>4, <1>8, <1>9, <1>14, <2>1, <2>2
<1>15. CASE /\ review[c] = R("reject", g) /\ review'[c] = Free
            /\ UNCHANGED <<made, announced>>
  <2>1. A2 = A /\ E2 = E
    BY <1>4, <1>6, <1>10, <1>15
  <2> QED
    BY <1>1, <1>4, <1>8, <1>9, <1>15, <2>1
<1>16. faults' # faults + 1
  BY <1>1, <1>2
<1> QED
  BY <1>11, <1>12, <1>13, <1>14, <1>15, <1>16 DEF ReviewEffect

LEMMA StillEvents ==
  ASSUME TypeOK, StillStep, EventsFollow
  PROVE  EventsFollow'
<1> SUFFICES ASSUME Undisturbed', NEW x \in Leadgen PROVE FollowedAt(x)'
  BY DEF EventsFollow
<1>1. FollowedAt(x) /\ crashes' = crashes /\ faults' \in Nat /\ faults \in Nat
  BY DEF StillStep, EventsFollow, Undisturbed, TypeOK
<1>2. /\ Cardinality(Hooked(x))' = Cardinality(Hooked(x))
      /\ Cardinality(Rev(x, "approve"))' = Cardinality(Rev(x, "approve"))
      /\ Cardinality(Rev(x, "emit"))' = Cardinality(Rev(x, "emit"))
  <2>1. Hooked(x)' = Hooked(x)
    BY DEF StillStep, Hooked
  <2> QED
    BY <2>1, RevUnchanged DEF StillStep
<1> QED
  BY <1>1, <1>2 DEF StillStep, FollowedAt

LEMMA NextEvents ==
  ASSUME TypeOK, [Next]_vars, EventsFollow
  PROVE  EventsFollow'
<1>1. CASE Crash
  <2>1. crashes' > 0
    BY <1>1 DEF Crash, TypeOK
  <2> QED
    BY <2>1 DEF EventsFollow, Undisturbed
<1> QED
  BY <1>1, EventCases, StillEvents, HookEvents, ReviewEvents

LEMMA InitLeads ==
  ASSUME Init
  PROVE  TypeOK /\ ReviewsInOrder /\ LeadsAreBounded /\ HooksAreSubmitted /\ EventsFollow
<1>1. TypeOK /\ ReviewsInOrder /\ HooksAreSubmitted
  BY InitOrder DEF Init, TypeOK, Approval, HooksAreSubmitted
<1>2. ASSUME NEW g \in Leadgen PROVE BoundedAt(g) /\ FollowedAt(g)
  <2>1. /\ Cardinality(Rev(g, "approve")) = 0 /\ Cardinality(Rev(g, "emit")) = 0
        /\ made[g] = 0 /\ announced[g] = 0 /\ imported[g] = 0 /\ declined[g] = 0
        /\ approval[g] = "none" /\ faults = 0
    BY RevEmpty DEF Init
  <2>2. Hooked(g) = {}
    BY RFacts DEF Init, Hooked
  <2>3. Cardinality(Hooked(g)) = 0
    BY <2>2, FS_EmptySet
  <2>4. Cut \in Nat
    BY <1>1, BoundNats
  <2> QED
    BY <2>1, <2>3, <2>4 DEF BoundedAt, FollowedAt, Unsettled
<1> QED
  BY <1>1, <1>2 DEF LeadsAreBounded, EventsFollow

LEMMA FollowedAnnounces ==
  ASSUME TypeOK, EventsFollow, HooksAreSubmitted
  PROVE  EveryLeadIsAnnounced
<1> SUFFICES ASSUME NEW g \in Leadgen, crashes + faults = 0,
                    \A h \in Hook : hook[h] = Free, \A c \in Reviewer : review[c] = Free
             PROVE  /\ announced[g] + declined[g] = made[g] + imported[g]
                    /\ g \in interested => declined[g] = 0
  BY DEF EveryLeadIsAnnounced
<1>1. /\ Undisturbed /\ announced[g] \in Nat /\ made[g] \in Nat
      /\ imported[g] \in Nat /\ declined[g] \in Nat
  BY DEF Undisturbed, TypeOK
<1>2. Cardinality(Rev(g, "approve")) = 0 /\ Cardinality(Rev(g, "emit")) = 0
  BY RevEmpty
<1>3. Hooked(g) = {}
  BY RFacts DEF Hooked
<1>4. Cardinality(Hooked(g)) = 0
  BY <1>3, FS_EmptySet
<1> QED
  BY <1>1, <1>2, <1>4 DEF EventsFollow, FollowedAt, HooksAreSubmitted

(* Leads of approvals are as many as the reviews that settled: one for each *)
(* approval, one more for each time a request was cut off, no more than the *)
(* requests where they race; and failures aside each is announced once.     *)
THEOREM LeadsAccountedFor == Spec => []LeadsMatchReviews
<1> DEFINE Inv == TypeOK /\ ReviewsInOrder /\ LeadsAreBounded /\ HooksAreSubmitted /\ EventsFollow
<1>1. Init => Inv
  BY InitLeads
<1>2. Inv /\ [Next]_vars => Inv'
  <2> SUFFICES ASSUME Inv, [Next]_vars PROVE Inv'
    OBVIOUS
  <2>1. TypeOK' /\ ReviewsInOrder' /\ HooksAreSubmitted' /\ EventsFollow'
    BY NextTypeOK, NextOrdered, NextHooks, NextEvents
  <2>2. LeadsAreBounded'
    BY NextCases, QuietBound, CrashBound, ReviewBound
  <2> QED
    BY <2>1, <2>2
<1>3. Inv => LeadsMatchReviews
  BY OrderMakesOne, BoundMakesFew, FollowedAnnounces DEF LeadsMatchReviews
<1> HIDE DEF Inv
<1> QED
  BY <1>1, <1>2, <1>3, PTL DEF Spec

-----------------------------------------------------------------------------
(* The stages of leads *)

-----------------------------------------------------------------------------
(* What a step does to the requests. *)

LEMMA NoAskShape == NoAskFields
BY DEF NoAskFields, NoAsk, AskRecord, Places, Keys

LEMMA StagesAnswered ==
  ASSUME StageShape, NEW u \in Staff, Answers(u)
  PROVE  IsOver(u) /\ asked' \in Nat
<1>1. NoAskFields
  BY NoAskShape
<1> QED
  BY <1>1 DEF StageShape, Answers, IsOver, AsksStay, OtherAsksStay, NoAskFields

LEMMA CameIn ==
  ASSUME StageShape, NEW u \in Staff, NEW l \in Leads, NEW i, NEW r \in AskRecord,
         \/ ask' = Arrives(u, l, i) /\ r = NoAsk
         \/ ask' = [Arrives(u, l, i) EXCEPT ![u] = r]
  PROVE  /\ AsksStay(u) /\ ask'[u] = r
         /\ \A v \in Staff \ {u} : ask[v].kind = "delete" /\ ask[v].stage = i => l \in ask'[v].since
<1>1. NoAskFields
  BY NoAskShape
<1>2. /\ ask' = [v \in Staff |-> ask'[v]] /\ ask'[u] = r
      /\ \A v \in Staff \ {u} :
           ask'[v] = IF ask[v].kind = "delete" /\ ask[v].stage = i
                     THEN [ask[v] EXCEPT !.since = ask[v].since \cup {l}] ELSE ask[v]
  BY Zenon DEF Arrives
<1>3. ASSUME NEW v \in Staff \ {u}
      PROVE  /\ ask'[v] \in AskRecord
             /\ ask'[v].kind = ask[v].kind /\ ask'[v].step = ask[v].step /\ ask'[v].lead = ask[v].lead
             /\ ask'[v].stage = ask[v].stage /\ ask'[v].key = ask[v].key /\ ask'[v].order = ask[v].order
             /\ ask[v].since \subseteq ask'[v].since
             /\ ask[v].kind = "delete" /\ ask[v].stage = i => l \in ask'[v].since
  <2>1. ask[v] \in AskRecord
    BY DEF StageShape
  <2>2. CASE ask[v].kind = "delete" /\ ask[v].stage = i
    <3>1. ask'[v] = [ask[v] EXCEPT !.since = ask[v].since \cup {l}]
      BY <1>2, <2>2
    <3> QED
      BY <2>1, <3>1 DEF AskRecord
  <2>3. CASE ~(ask[v].kind = "delete" /\ ask[v].stage = i)
    BY <1>2, <2>1, <2>3
  <2> QED
    BY <2>2, <2>3
<1> QED
  BY <1>2, <1>3 DEF AsksStay, OtherAsksStay

-----------------------------------------------------------------------------
(* A request begins. *)

LEMMA RequestBegins ==
  ASSUME StageAssumption, StagesInv, NEW u \in Staff, NEW r \in AskRecord, Receives(u, r), r.step = "write",
         UNCHANGED <<stage, lead, event>>, CrossStep, jumbled' \in BOOLEAN, jumbled => jumbled',
         r.kind \in {"create", "move"} <=> r.lead \in Leads,
         r.kind = "create" => lead[r.lead] = "unborn" /\ \A v \in Staff : ask[v].lead # r.lead,
         r.kind = "move" => /\ r.stage \in ThereAre /\ r.key = stage[r.stage].key /\ lead[r.lead] # "unborn"
                            /\ (\E v \in Staff : ask[v].lead = r.lead) => r.lead \in crossed',
         r.kind = "delete" => r.stage \in StageIds /\ \A l \in Leads : lead[l] # r.stage,
         r.kind = "add" => /\ r.key \in StageKeys
                           /\ ~jumbled' => /\ \A i \in ThereAre : stage[i].order < r.order
                                           /\ \A v \in Staff : ask[v].kind # "add"
  PROVE  StepOf(u)
<1>1. StageShape /\ \A v \in Staff : AskFits(v)
  BY DEF StagesInv, AsksFit
<1>2. AsksStay(u) /\ ask'[u] = r /\ ask[u] = NoAsk /\ asked' \in Nat
  BY <1>1 DEF StageShape, Receives, Counts, AsksStay, OtherAsksStay
<1>3. ask[u].step = "none"
  BY <1>2, NoAskShape DEF NoAskFields
<1>4. AskFits(u)'
  BY <1>1, <1>2 DEF AskFits, ThereAre, StageShape, StageRow
<1>5. LeadStep(u) /\ EventStep(u) /\ RowStep(u)
  BY <1>1, <1>3 DEF LeadStep, EventStep, RowStep, StageShape
<1>6. ASSUME r.kind = "move", NEW v \in Staff, ask[v].lead = r.lead PROVE ask[v].kind = "move"
  BY <1>1, <1>6 DEF AskFits
<1>7. Begun(u)
  BY Zenon, <1>1, <1>2, <1>6 DEF Begun
<1>8. OrderStep(u)
  BY <1>2 DEF OrderStep
<1> QED
  BY <1>2, <1>4, <1>5, <1>7, <1>8 DEF StepOf

LEMMA CreateBegins ==
  ASSUME StageAssumption, StagesInv, NEW u \in Staff, NEW l \in Leads, NEW k \in StageKeys \cup {NoStage}, AskCreate(u, l, k)
  PROVE  StepOf(u)
<1>1. PICK i \in IF Keyed(k) # {} THEN Keyed(k) ELSE IF Defaults = {} THEN {NoStage} ELSE Defaults :
        Receives(u, [NoAsk EXCEPT !.kind = "create", !.step = "write", !.lead = l, !.stage = i])
  BY Zenon DEF AskCreate
<1> DEFINE r == [NoAsk EXCEPT !.kind = "create", !.step = "write", !.lead = l, !.stage = i]
<1>2. i \in Places
  BY DEF Places, ThereAre, Defaults, Keyed
<1>3. r \in AskRecord /\ r.kind = "create" /\ r.step = "write" /\ r.lead = l
  BY Zenon, <1>2, NoAskShape DEF NoAskFields, AskRecord
<1> HIDE DEF r
<1>4. Receives(u, r)
  BY <1>1 DEF r
<1>5. /\ UNCHANGED <<stage, lead, event, crossed, jumbled>> /\ lead[l] = "unborn" /\ \A v \in Staff : ask[v].lead # l
      /\ crossed \subseteq Leads /\ jumbled \in BOOLEAN
  BY DEF AskCreate, StagesInv, StageShape
<1> QED
  BY <1>3, <1>4, <1>5, RequestBegins DEF CrossStep

LEMMA MoveBegins ==
  ASSUME StageAssumption, StagesInv, NEW u \in Staff, NEW l \in Leads, NEW i \in StageIds, AskMove(u, l, i)
  PROVE  StepOf(u)
<1> DEFINE r == [NoAsk EXCEPT !.kind = "move", !.step = "write", !.lead = l, !.stage = i,
                              !.key = stage[i].key, !.from = KeyOf(lead[l])]
<1>1. stage[i].key \in StageKeys /\ KeyOf(lead[l]) \in Keys
  BY DEF StagesInv, StageShape, StageRow, KeyOf, Keys
<1>2. r \in AskRecord /\ r.kind = "move" /\ r.step = "write" /\ r.lead = l /\ r.stage = i /\ r.key = stage[i].key
  BY Zenon, <1>1, NoAskShape DEF NoAskFields, AskRecord, Places, Keys
<1>3. Receives(u, r)
  BY DEF AskMove
<1> HIDE DEF r
<1>4. /\ UNCHANGED <<stage, lead, event, jumbled>> /\ lead[l] # "unborn" /\ i \in ThereAre
      /\ crossed' = (IF \E v \in Staff : ask[v].lead = l THEN crossed \cup {l} ELSE crossed)
      /\ crossed \subseteq Leads /\ jumbled \in BOOLEAN
  BY DEF AskMove, StagesInv, StageShape
<1> QED
  BY <1>2, <1>3, <1>4, RequestBegins DEF CrossStep

LEMMA DeletionBegins ==
  ASSUME StageAssumption, StagesInv, NEW u \in Staff, NEW i \in StageIds, AskDelete(u, i)
  PROVE  StepOf(u)
<1> DEFINE r == [NoAsk EXCEPT !.kind = "delete", !.step = "write", !.stage = i]
<1>1. r \in AskRecord /\ r.kind = "delete" /\ r.step = "write" /\ r.lead = NoStage /\ r.stage = i
  BY Zenon, NoAskShape DEF NoAskFields, AskRecord, Places
<1>2. Receives(u, r)
  BY DEF AskDelete
<1> HIDE DEF r
<1>3. /\ UNCHANGED <<stage, lead, event, crossed, jumbled>> /\ \A l \in Leads : lead[l] # i
      /\ crossed \subseteq Leads /\ jumbled \in BOOLEAN
  BY DEF AskDelete, Deletable, LeadsIn, StagesInv, StageShape
<1> QED
  BY <1>1, <1>2, <1>3, RequestBegins DEF CrossStep, StageAssumption

(* The order computed for a new stage is greater than any there is. *)
LEMMA LeastNumber ==
  ASSUME NEW S \in SUBSET Nat, S # {}
  PROVE  \E m \in S : \A y \in S : ~(y < m)
<1>1. PICK m \in S : \A y \in S : ~(<<y, m>> \in OpToRel(<, Nat))
  BY Zenon, NatLessThanWellFounded, WFMin
<1> QED
  BY Zenon, <1>1 DEF OpToRel

LEMMA NextOrderIsGreater ==
  ASSUME StageShape, OrdersAreBounded
  PROVE  NextOrder \in Int /\ \A i \in ThereAre : stage[i].order < NextOrder
<1>0. \A i \in ThereAre : stage[i].order \in Int
  BY DEF StageShape, StageRow, ThereAre
<1>1. CASE ThereAre = {}
  BY <1>1 DEF NextOrder
<1>2. CASE ThereAre # {}
  <2>1. PICK z \in Nat : \A i \in ThereAre : -z <= stage[i].order /\ stage[i].order <= z
    BY DEF OrdersAreBounded, ThereAre
  <2> DEFINE O == {stage[i].order : i \in ThereAre}
             B == {n \in Nat : \A i \in ThereAre : stage[i].order <= n - z}
  <2>2. z + z \in B
    BY <1>0, <2>1
  <2>3. PICK m \in B : \A y \in B : ~(y < m)
    BY Zenon, <2>2, LeastNumber
  <2>4. m - z \in O
    <3> SUFFICES ASSUME m - z \notin O PROVE FALSE
      OBVIOUS
    <3>1. \A i \in ThereAre : stage[i].order <= (m - 1) - z
      BY <1>0
    <3>2. m - 1 \in Nat
      BY <1>0, <1>2, <2>1, <3>1
    <3>3. m - 1 \in B
      BY <3>1, <3>2
    <3> QED
      BY <2>3, <3>3
  <2>5. \E n \in O : \A i \in ThereAre : stage[i].order <= n
    BY <2>3, <2>4
  <2> DEFINE top == CHOOSE n \in O : \A i \in ThereAre : stage[i].order <= n
  <2>6. top \in O /\ \A i \in ThereAre : stage[i].order <= top
    BY <2>5
  <2>7. top \in Int
    BY Zenon, <1>0, <2>6
  <2>8. NextOrder = 1 + top
    BY <1>2 DEF NextOrder
  <2> HIDE DEF top
  <2> QED
    BY <1>0, <2>6, <2>7, <2>8
<1> QED
  BY <1>1, <1>2

LEMMA AdditionBegins ==
  ASSUME StageAssumption, StagesInv, NEW u \in Staff, NEW k \in StageKeys, NEW n \in CallerOrders \cup {NextOrder},
         NEW b \in BOOLEAN, AskStage(u, k, n, b)
  PROVE  StepOf(u)
<1>1. NextOrder \in Int /\ \A i \in ThereAre : stage[i].order < NextOrder
  BY NextOrderIsGreater DEF StagesInv
<1>2. n \in Int
  BY <1>1 DEF StageAssumption
<1> DEFINE r == [NoAsk EXCEPT !.kind = "add", !.step = "write", !.key = k, !.order = n, !.default = b]
<1>3. r \in AskRecord /\ r.kind = "add" /\ r.step = "write" /\ r.lead = NoStage /\ r.key = k /\ r.order = n
  BY Zenon, <1>2, NoAskShape DEF NoAskFields, AskRecord, Keys
<1>4. Receives(u, r)
  BY DEF AskStage
<1> HIDE DEF r
<1>5. /\ UNCHANGED <<stage, lead, event, crossed>> /\ crossed \subseteq Leads /\ jumbled \in BOOLEAN
      /\ jumbled' = (jumbled \/ n # NextOrder \/ \E v \in Staff : ask[v].kind = "add")
  BY DEF AskStage, Adding, StagesInv, StageShape
<1>6. ~jumbled' => (\A i \in ThereAre : stage[i].order < r.order) /\ \A v \in Staff : ask[v].kind # "add"
  BY <1>1, <1>3, <1>5
<1> QED
  BY <1>3, <1>4, <1>5, <1>6, RequestBegins DEF CrossStep, StageAssumption

-----------------------------------------------------------------------------
(* A request goes on, or ends. *)

LEMMA LeadIsInserted ==
  ASSUME StageAssumption, StagesInv, NEW u \in Staff, InsertLead(u)
  PROVE  StepOf(u)
<1>1. StageShape /\ AskFits(u) /\ lead \in [Leads -> Places \cup {"unborn"}]
  BY DEF StagesInv, AsksFit, StageShape
<1>2. /\ ask[u].kind = "create" /\ ask[u].lead \in Leads /\ ask[u].stage \in Places /\ ask[u].step # "log"
      /\ UNCHANGED <<stage, event, crossed, jumbled, asked>>
  BY <1>1 DEF InsertLead, AskFits, StageShape, AskRecord
<1>3. IsOver(u) /\ LeadStep(u)
  <2>1. CASE ask[u].stage \notin ThereAre \cup {NoStage}
    BY <1>1, <2>1, StagesAnswered DEF InsertLead, LeadStep
  <2>2. CASE ask[u].stage \in ThereAre \cup {NoStage}
    <3>1. lead' = [lead EXCEPT ![ask[u].lead] = ask[u].stage] /\ ask' = Arrives(u, ask[u].lead, ask[u].stage)
      BY <2>2 DEF InsertLead
    <3>2. /\ AsksStay(u) /\ ask'[u] = NoAsk
          /\ \A v \in Staff \ {u} : ask[v].kind = "delete" /\ ask[v].stage = ask[u].stage => ask[u].lead \in ask'[v].since
      BY Zenon, <1>1, <1>2, <3>1, CameIn, NoAskShape DEF NoAskFields
    <3>3. Enters(u, ask[u].lead)
      BY <1>1, <1>2, <2>2, <3>1, <3>2 DEF Enters
    <3> QED
      BY <1>1, <1>2, <3>1, <3>2, <3>3, NoAskShape DEF IsOver, NoAskFields, LeadStep
  <2> QED
    BY <2>1, <2>2
<1> QED
  BY <1>1, <1>2, <1>3 DEF StepOf, IsOver, AskFits, EventStep, CrossStep, RowStep, Begun, OrderStep, StageShape, StageAssumption

LEMMA LeadIsMoved ==
  ASSUME StageAssumption, StagesInv, NEW u \in Staff, MoveLead(u)
  PROVE  StepOf(u)
<1>1. StageShape /\ AskFits(u) /\ OneAsks /\ \A v \in Staff : AskFits(v)
  BY DEF StagesInv, AsksFit
<1>2. /\ ask[u].kind = "move" /\ ask[u].step = "write" /\ ask[u].lead \in Leads /\ ask[u].stage \in StageIds
      /\ ask[u] \in AskRecord /\ UNCHANGED <<stage, event, crossed, jumbled, asked>>
  BY <1>1 DEF MoveLead, AskFits, StageShape
<1>3. EventStep(u) /\ CrossStep /\ RowStep(u)
  BY <1>1, <1>2 DEF EventStep, CrossStep, RowStep, StageShape
<1>4. CASE ask[u].stage \notin ThereAre
  <2>1. IsOver(u) /\ lead' = lead
    BY <1>1, <1>4, StagesAnswered DEF MoveLead
  <2> QED
    BY <1>1, <1>2, <1>3, <2>1 DEF StepOf, IsOver, AskFits, LeadStep, Begun, OrderStep, StageShape, StageAssumption
<1>5. CASE ask[u].stage \in ThereAre
  <2> DEFINE r == [ask[u] EXCEPT !.step = "log"]
  <2>1. lead' = [lead EXCEPT ![ask[u].lead] = ask[u].stage] /\ ask' = [Arrives(u, ask[u].lead, ask[u].stage) EXCEPT ![u] = r]
    BY <1>5 DEF MoveLead
  <2>2. /\ r \in AskRecord /\ r.kind = "move" /\ r.step = "log" /\ r.lead = ask[u].lead /\ r.key = ask[u].key
        /\ r.stage = ask[u].stage
    BY <1>2 DEF AskRecord
  <2> HIDE DEF r
  <2>3. /\ AsksStay(u) /\ ask'[u] = r
        /\ \A v \in Staff \ {u} : ask[v].kind = "delete" /\ ask[v].stage = ask[u].stage => ask[u].lead \in ask'[v].since
    BY <1>1, <1>2, <2>1, <2>2, CameIn
  <2>4. lead'[ask[u].lead] = ask[u].stage /\ ask[u].stage # "unborn" /\ ask[u].stage \in Places
    BY <1>1, <1>2, <2>1 DEF StageShape, StageAssumption, Places
  <2>5. Enters(u, ask[u].lead)
    BY <1>2, <1>5, <2>2, <2>3, <2>4 DEF Enters
  <2>6. LeadStep(u)
    BY <1>1, <1>2, <2>1, <2>4, <2>5 DEF LeadStep, StageShape
  <2>7. AskFits(u)'
    BY <1>1, <1>2, <2>2, <2>3, <2>4 DEF AskFits
  <2>8. ASSUME NEW v \in Staff \ {u}, ask[v].lead = ask[u].lead
        PROVE  ask[u].lead \in crossed /\ ask[v].kind = "move"
    BY <1>1, <1>2, <2>8 DEF OneAsks
  <2>9. Begun(u)
    BY <1>2, <2>2, <2>3, <2>4, <2>8 DEF Begun
  <2> QED
    BY <1>1, <1>2, <1>3, <2>2, <2>3, <2>6, <2>7, <2>9 DEF StepOf, OrderStep, StageShape
<1> QED
  BY <1>4, <1>5

LEMMA MoveIsLogged ==
  ASSUME StageAssumption, StagesInv, NEW u \in Staff, LogMove(u)
  PROVE  StepOf(u)
<1>1. StageShape /\ AskFits(u)
  BY DEF StagesInv, AsksFit
<1>2. /\ ask[u].kind = "move" /\ ask[u].step = "log" /\ ask[u].lead \in Leads /\ ask[u].key \in Keys
      /\ ask[u].from \in Keys /\ UNCHANGED <<stage, lead, crossed, jumbled>>
  BY <1>1 DEF LogMove, AskFits, StageShape, AskRecord
<1>3. IsOver(u) /\ asked' \in Nat
  BY <1>1, StagesAnswered DEF LogMove
<1>4. event' = [event EXCEPT ![ask[u].lead] = [from |-> ask[u].from, to |-> ask[u].key]]
  BY DEF LogMove, Told
<1>5. /\ event' \in [Leads -> [from : Keys, to : Keys]] /\ event'[ask[u].lead].to = ask[u].key
      /\ \A l \in Leads \ {ask[u].lead} : event'[l] = event[l]
  BY <1>1, <1>2, <1>4 DEF StageShape
<1> QED
  BY <1>1, <1>2, <1>3, <1>5 DEF StepOf, IsOver, AskFits, EventStep, CrossStep, RowStep, LeadStep, Begun, OrderStep, StageShape, StageAssumption

LEMMA StageIsAdded ==
  ASSUME StageAssumption, StagesInv, NEW u \in Staff, NEW i \in StageIds, AddStage(u, i)
  PROVE  StepOf(u)
<1>1. StageShape /\ AskFits(u)
  BY DEF StagesInv, AsksFit
<1>2. /\ ask[u].kind = "add" /\ ask[u].key \in StageKeys /\ ask[u].order \in Int /\ ask[u].default \in BOOLEAN
      /\ ask[u].step # "log" /\ stage[i].at = "unborn" /\ UNCHANGED <<lead, event, crossed, jumbled>>
  BY <1>1 DEF AddStage, AskFits, StageShape, AskRecord
<1>3. IsOver(u) /\ asked' \in Nat
  BY <1>1, StagesAnswered DEF AddStage
<1> DEFINE x == [at |-> "there", key |-> ask[u].key, order |-> ask[u].order, default |-> ask[u].default]
<1>4. x \in StageRow /\ x.at = "there" /\ x.order = ask[u].order
  BY <1>2 DEF StageRow
<1>5. stage' = stage \/ stage' = [stage EXCEPT ![i] = x]
  BY DEF AddStage
<1> HIDE DEF x
<1>6. RowStep(u)
  BY <1>1, <1>2, <1>3, <1>4, <1>5 DEF RowStep, StageShape
<1> QED
  BY <1>1, <1>2, <1>3, <1>6 DEF StepOf, IsOver, AskFits, EventStep, CrossStep, LeadStep, Begun, OrderStep, StageShape, StageAssumption

LEMMA StageIsDeleted ==
  ASSUME StageAssumption, StagesInv, NEW u \in Staff, DeleteStage(u)
  PROVE  StepOf(u)
<1>1. StageShape /\ AskFits(u)
  BY DEF StagesInv, AsksFit
<1>2. ask[u].kind = "delete" /\ ask[u].stage \in StageIds /\ ask[u].step # "log" /\ UNCHANGED <<event, jumbled>>
  BY <1>1 DEF DeleteStage, AskFits
<1>3. IsOver(u) /\ asked' \in Nat
  BY <1>1, StagesAnswered DEF DeleteStage
<1>4. LeadStep(u) /\ CrossStep /\ RowStep(u)
  <2>1. CASE ask[u].stage \notin ThereAre
    BY <1>1, <2>1 DEF DeleteStage, LeadStep, CrossStep, RowStep, StageShape
  <2>2. CASE ask[u].stage \in ThereAre
    <3>1. /\ stage' = [stage EXCEPT ![ask[u].stage].at = "gone"]
          /\ lead' = [l \in Leads |-> IF lead[l] = ask[u].stage THEN NoStage ELSE lead[l]]
          /\ crossed' = crossed \cup {l \in Leads : lead[l] = ask[u].stage}
      BY <2>2 DEF DeleteStage, LeadsIn
    <3> DEFINE y == [stage[ask[u].stage] EXCEPT !.at = "gone"]
    <3>0. stage[ask[u].stage] \in StageRow
      BY <1>1, <1>2 DEF StageShape
    <3>2. y \in StageRow
      BY <3>0 DEF StageRow
    <3>3. y.at = "gone" /\ y.key = stage[ask[u].stage].key /\ y.order = stage[ask[u].stage].order
      BY <3>0 DEF StageRow
    <3> HIDE DEF y
    <3>9. stage' = [stage EXCEPT ![ask[u].stage] = y]
      BY <3>1 DEF y
    <3>4. /\ stage' \in [StageIds -> StageRow] /\ stage'[ask[u].stage] = y
          /\ \A i \in StageIds \ {ask[u].stage} : stage'[i] = stage[i]
      BY <1>1, <1>2, <3>9, <3>2 DEF StageShape
    <3>5. \A l \in Leads : lead'[l] # ask[u].stage
      BY <1>2, <3>1 DEF StageAssumption
    <3>6. RowStep(u)
      BY <1>2, <2>2, <3>3, <3>4, <3>5 DEF RowStep, ThereAre
    <3>7. LeadStep(u) /\ CrossStep
      BY <1>1, <1>2, <3>1 DEF LeadStep, Leaves, CrossStep, StageShape, Places
    <3> QED
      BY <3>6, <3>7
  <2> QED
    BY <2>1, <2>2
<1> QED
  BY <1>1, <1>2, <1>3, <1>4 DEF StepOf, IsOver, AskFits, EventStep, Begun, OrderStep, StageShape, StageAssumption

-----------------------------------------------------------------------------
(* Rows are renamed, or put in order. *)

LEMMA StageIsUpdated ==
  ASSUME StageAssumption, StagesInv, NEW i \in StageIds, NEW k \in StageKeys, NEW b \in BOOLEAN,
         NEW n \in CallerOrders \cup {stage[i].order}, UpdateStage(i, k, n, b)
  PROVE  NoRequest
<1>1. StageShape /\ \A u \in Staff : AskFits(u)
  BY DEF StagesInv, AsksFit
<1>2. stage[i].order \in Int /\ n \in Int /\ stage[i].at = "there"
  BY <1>1 DEF StageShape, StageRow, StageAssumption, UpdateStage, ThereAre
<1> DEFINE x == [at |-> "there", key |-> k, order |-> n, default |-> b]
<1>3. x \in StageRow /\ x.at = "there" /\ x.key = k /\ x.order = n
  BY <1>2 DEF StageRow
<1>4. stage' = [stage EXCEPT ![i] = x]
  BY DEF UpdateStage
<1> HIDE DEF x
<1>5. /\ stage' \in [StageIds -> StageRow] /\ stage'[i] = x
      /\ \A j \in StageIds \ {i} : stage'[j] = stage[j]
  BY <1>1, <1>3, <1>4 DEF StageShape
<1>6. /\ UNCHANGED <<lead, ask, event>> /\ asked' \in Nat /\ jumbled' = (jumbled \/ n # stage[i].order)
      /\ crossed' = (IF k = stage[i].key THEN crossed ELSE crossed \cup LeadsIn(i) \cup MovingTo(i))
      /\ crossed \subseteq Leads /\ jumbled \in BOOLEAN
  BY <1>1 DEF UpdateStage, Counts, StageShape
<1>7. LeadsIn(i) \subseteq Leads /\ MovingTo(i) \subseteq Leads
  BY <1>1 DEF LeadsIn, MovingTo, AskFits
<1>8. CrossStep
  BY <1>6, <1>7 DEF CrossStep
<1>9. OrdersAreBounded'
  <2>1. PICK z \in Nat : \A j \in StageIds : -z <= stage[j].order /\ stage[j].order <= z
    BY DEF StagesInv, OrdersAreBounded
  <2>2. PICK y \in Nat : z <= y /\ -y <= n /\ n <= y
    <3>1. CASE n < 0
      <4>1. z - n \in Nat /\ z <= z - n /\ -(z - n) <= n /\ n <= z - n
        BY <1>2, <3>1
      <4> QED
        BY <4>1
    <3>2. CASE n >= 0
      <4>1. z + n \in Nat /\ z <= z + n /\ -(z + n) <= n /\ n <= z + n
        BY <1>2, <3>2
      <4> QED
        BY <4>1
    <3> QED
      BY <1>2, <3>1, <3>2
  <2>3. ASSUME NEW j \in StageIds PROVE -y <= stage'[j].order /\ stage'[j].order <= y
    <3>1. stage[j].order \in Int
      BY <1>1 DEF StageShape, StageRow
    <3> QED
      BY <1>3, <1>5, <2>1, <2>2, <3>1
  <2> QED
    BY <2>3 DEF OrdersAreBounded
<1>10. \A j \in StageIds : /\ stage'[j].at = stage[j].at
                           /\ stage'[j].key # stage[j].key => j = i /\ k # stage[i].key
  BY <1>2, <1>3, <1>5
<1>11. ~jumbled' => ~jumbled /\ \A j \in ThereAre : stage'[j].order = stage[j].order
  BY <1>3, <1>5, <1>6 DEF ThereAre
<1> QED
  BY <1>5, <1>6, <1>8, <1>9, <1>10, <1>11 DEF NoRequest

LEMMA StagesAreSorted ==
  ASSUME StageAssumption, StagesInv, NEW S \in SUBSET Known, NEW place \in Orderings(S), SortStages(place)
  PROVE  NoRequest
<1>1. StageShape
  BY DEF StagesInv
<1>2. S \subseteq StageIds /\ Cardinality(S) \in Nat
  BY FS_Subset, FS_CardinalityType DEF Known, StageAssumption
<1>3. /\ DOMAIN place = S /\ \A i, j \in S : place[i] = place[j] => i = j
      /\ \A i \in S : place[i] \in 0..(Cardinality(S) - 1)
  BY DEF Orderings
<1>4. PICK c \in Nat : \A i \in S : place[i] \in 0..c
  <2>1. ASSUME NEW i \in S PROVE place[i] \in 0..Cardinality(S)
    BY <1>2, <1>3
  <2> QED
    BY <1>2, <2>1
<1>5. stage' = [i \in StageIds |-> IF i \in S \cap ThereAre THEN [stage[i] EXCEPT !.order = place[i]] ELSE stage[i]]
  BY <1>3 DEF SortStages
<1>6. ASSUME NEW i \in StageIds
      PROVE  /\ stage'[i] \in StageRow /\ stage'[i].at = stage[i].at /\ stage'[i].key = stage[i].key
             /\ stage'[i].order = (IF i \in S \cap ThereAre THEN place[i] ELSE stage[i].order)
  <2>1. stage[i] \in StageRow
    BY <1>1 DEF StageShape
  <2>2. CASE i \in S \cap ThereAre
    <3>1. PICK n \in 0..c : n = place[i]
      BY <1>4, <2>2
    <3>2. stage'[i] = [stage[i] EXCEPT !.order = n] /\ n \in Int
      BY <1>5, <2>2, <3>1
    <3> QED
      BY <2>1, <2>2, <3>1, <3>2 DEF StageRow
  <2>3. CASE i \notin S \cap ThereAre
    BY <1>5, <2>1, <2>3
  <2> QED
    BY <2>2, <2>3
<1>7. stage' \in [StageIds -> StageRow]
  BY <1>5, <1>6
<1>8. OrdersAreBounded'
  <2>1. PICK z \in Nat : \A j \in StageIds : -z <= stage[j].order /\ stage[j].order <= z
    BY DEF StagesInv, OrdersAreBounded
  <2>2. ASSUME NEW j \in StageIds PROVE -(z + c) <= stage'[j].order /\ stage'[j].order <= z + c
    <3>1. stage[j].order \in Int
      BY <1>1 DEF StageShape, StageRow
    <3>2. CASE j \in S \cap ThereAre
      BY <1>4, <1>6, <3>2
    <3>3. CASE j \notin S \cap ThereAre
      BY <1>6, <2>1, <3>1, <3>3
    <3> QED
      BY <3>2, <3>3
  <2>3. z + c \in Nat
    OBVIOUS
  <2> QED
    BY <2>2, <2>3 DEF OrdersAreBounded
<1>9. /\ UNCHANGED <<lead, ask, event, crossed>> /\ asked' \in Nat
      /\ jumbled' = (Adding # {} \/ ~(ThereAre \subseteq S))
  BY <1>1, <1>3 DEF SortStages, Counts, StageShape
<1>10. CrossStep
  BY <1>1, <1>9 DEF CrossStep, StageShape
<1>11. ASSUME ~jumbled' PROVE OrdersDiffer' /\ \A u \in Staff : ask[u].kind # "add"
  <2>1. ThereAre' = ThereAre /\ ThereAre \subseteq S /\ Adding = {}
    BY <1>6, <1>9, <1>11 DEF ThereAre
  <2>2. \A i \in ThereAre : i \in StageIds /\ stage'[i].order = place[i]
    BY <1>6, <2>1 DEF ThereAre
  <2>3. OrdersDiffer'
    BY <1>3, <2>1, <2>2 DEF OrdersDiffer
  <2> QED
    BY <2>1, <2>3 DEF Adding
<1> QED
  BY <1>6, <1>7, <1>8, <1>9, <1>10, <1>11 DEF NoRequest

-----------------------------------------------------------------------------
(* The invariant, one part at a time. *)

LEMMA AsksStayFit ==
  ASSUME StageAssumption, StagesInv, NEW u \in Staff, StepOf(u)
  PROVE  AsksFit'
<1> SUFFICES ASSUME NEW v \in Staff, v # u PROVE AskFits(v)'
  BY DEF AsksFit, StepOf
<1>1. /\ AskFits(v) /\ OneAsks /\ lead \in [Leads -> Places \cup {"unborn"}] /\ stage \in [StageIds -> StageRow]
  BY DEF StagesInv, AsksFit, StageShape
<1>2. /\ ask'[v].kind = ask[v].kind /\ ask'[v].step = ask[v].step /\ ask'[v].lead = ask[v].lead
      /\ ask'[v].stage = ask[v].stage /\ ask'[v].key = ask[v].key
  BY DEF StepOf, AsksStay, OtherAsksStay
<1>3. ask[v].kind = "create" => lead'[ask[v].lead] = "unborn"
  BY <1>1 DEF StepOf, LeadStep, Enters, Leaves, AskFits, OneAsks, StageAssumption
<1>4. ask[v].kind = "move" => lead'[ask[v].lead] # "unborn"
  BY <1>1 DEF StepOf, LeadStep, Enters, Leaves, AskFits, StageAssumption, ThereAre
<1>5. ask[v].kind = "move" => stage'[ask[v].stage].at # "unborn"
  BY <1>1 DEF StepOf, RowStep, AskFits
<1> QED
  BY Zenon, <1>1, <1>2, <1>3, <1>4, <1>5 DEF AskFits

LEMMA LeadsStayPlaced ==
  ASSUME StageAssumption, StagesInv, NEW u \in Staff, StepOf(u)
  PROVE  LeadsArePlaced'
<1> SUFFICES ASSUME NEW l \in Leads, lead'[l] \in StageIds PROVE stage'[lead'[l]].at = "there"
  BY DEF LeadsArePlaced
<1>1. CASE lead'[l] = lead[l]
  <2>1. stage[lead[l]].at = "there"
    BY <1>1 DEF StagesInv, LeadsArePlaced
  <2> QED
    BY <1>1, <2>1 DEF StepOf, RowStep
<1>2. CASE lead'[l] # lead[l]
  BY <1>2 DEF StepOf, LeadStep, Enters, Leaves, ThereAre, StageAssumption
<1> QED
  BY <1>1, <1>2

LEMMA LateStayKnown ==
  ASSUME StageAssumption, StagesInv, NEW u \in Staff, StepOf(u)
  PROVE  LateAreKnown'
<1> SUFFICES ASSUME NEW v \in Staff, ask'[v].kind = "delete", NEW l \in Leads, lead'[l] = ask'[v].stage
             PROVE  l \in ask'[v].since
  BY DEF LateAreKnown
<1>1. CASE v = u
  BY <1>1 DEF StepOf, Begun
<1>2. CASE v # u
  <2>1. /\ ask[v].kind = "delete" /\ ask[v].stage = ask'[v].stage /\ ask[v].since \subseteq ask'[v].since
        /\ ask[v].stage \in StageIds
    BY <1>2 DEF StepOf, AsksStay, OtherAsksStay, StagesInv, AsksFit, AskFits
  <2>2. CASE lead'[l] = lead[l]
    BY <2>1, <2>2 DEF StagesInv, LateAreKnown
  <2>3. CASE Enters(u, l)
    BY <1>2, <2>1, <2>3 DEF Enters
  <2>4. CASE Leaves(u, l)
    BY <2>1, <2>4 DEF Leaves, StageAssumption
  <2> QED
    BY <2>2, <2>3, <2>4 DEF StepOf, LeadStep
<1> QED
  BY <1>1, <1>2

LEMMA OneStillAsks ==
  ASSUME StageAssumption, StagesInv, NEW u \in Staff, StepOf(u)
  PROVE  OneAsks'
<1> SUFFICES ASSUME NEW v \in Staff, NEW w \in Staff, v # w, ask'[v].lead \in Leads, ask'[v].lead = ask'[w].lead
             PROVE  ask'[v].lead \in crossed' /\ ask'[v].kind = "move"
  BY DEF OneAsks
<1>1. \A x \in Staff \ {u} : ask'[x].lead = ask[x].lead /\ ask'[x].kind = ask[x].kind
  BY DEF StepOf, AsksStay, OtherAsksStay
<1>2. CASE v = u
  BY <1>1, <1>2 DEF StepOf, Begun
<1>3. CASE w = u
  BY <1>1, <1>3 DEF StepOf, Begun
<1>4. CASE v # u /\ w # u
  BY <1>1, <1>4 DEF StagesInv, OneAsks, StepOf, CrossStep
<1> QED
  BY <1>2, <1>3, <1>4

LEMMA MovesStayNamed ==
  ASSUME StageAssumption, StagesInv, NEW u \in Staff, StepOf(u)
  PROVE  MovesAreNamed'
<1> SUFFICES ASSUME NEW v \in Staff, ask'[v].kind = "move", ask'[v].lead \notin crossed'
             PROVE  stage'[ask'[v].stage].key = ask'[v].key
  BY DEF MovesAreNamed
<1>1. CASE v = u /\ stage' = stage /\ stage[ask'[u].stage].key = ask'[u].key
  BY <1>1
<1>2. CASE ask[v].kind = "move" /\ ask'[v].lead = ask[v].lead /\ ask'[v].stage = ask[v].stage /\ ask'[v].key = ask[v].key
  <2>1. ask[v].stage \in StageIds /\ stage[ask[v].stage].at # "unborn" /\ stage[ask[v].stage].key = ask[v].key
    BY <1>2 DEF StagesInv, AsksFit, AskFits, MovesAreNamed, StepOf, CrossStep
  <2> QED
    BY <1>2, <2>1 DEF StepOf, RowStep
<1> QED
  BY <1>1, <1>2 DEF StepOf, Begun, AsksStay, OtherAsksStay

LEMMA MovesStayTold ==
  ASSUME StageAssumption, StagesInv, NEW u \in Staff, StepOf(u)
  PROVE  MovesAreTold'
<1>0. /\ \A v \in Staff \ {u} : /\ ask'[v].kind = ask[v].kind /\ ask'[v].step = ask[v].step
                                /\ ask'[v].lead = ask[v].lead /\ ask'[v].stage = ask[v].stage
      /\ LeadStep(u) /\ EventStep(u) /\ CrossStep /\ Begun(u) /\ AskFits(u)'
  BY DEF StepOf, AsksStay, OtherAsksStay
<1>1. /\ \A v \in Staff : AskFits(v)
      /\ OneAsks /\ MovesAreTold /\ lead \in [Leads -> Places \cup {"unborn"}] /\ crossed \subseteq Leads
  BY DEF StagesInv, AsksFit, StageShape
<1>2. ASSUME NEW l \in Leads, lead'[l] = "unborn" PROVE event'[l].to = NoStage
  <2>1. lead[l] = "unborn"
    BY <1>0, <1>2 DEF LeadStep, Enters, Leaves, ThereAre, StageAssumption
  <2>2. ask[u].kind = "move" => l # ask[u].lead
    BY <1>1, <2>1 DEF AskFits
  <2>3. event[l].to = NoStage
    BY <1>1, <2>1 DEF MovesAreTold
  <2>4. event'[l] = event[l]
    BY <1>0, <2>2 DEF EventStep
  <2> QED
    BY <2>3, <2>4
<1>3. ASSUME NEW v \in Staff, ask'[v].step = "log", ask'[v].lead \notin crossed'
      PROVE  lead'[ask'[v].lead] = ask'[v].stage
  <2>1. CASE v = u
    BY <1>0, <1>3, <2>1 DEF Begun, AskFits
  <2>2. CASE v # u
    <3>1. /\ ask[v].step = "log" /\ ask[v].lead \in Leads /\ ask[v].lead \notin crossed
          /\ lead[ask[v].lead] = ask[v].stage
      BY <1>0, <1>1, <1>3, <2>2 DEF AskFits, MovesAreTold, CrossStep
    <3>2. ~Enters(u, ask[v].lead)
      BY <1>1, <2>2, <3>1 DEF Enters, OneAsks
    <3>3. ~Leaves(u, ask[v].lead)
      BY <1>0, <1>3, <2>2 DEF Leaves
    <3> QED
      BY <1>0, <2>2, <3>1, <3>2, <3>3 DEF LeadStep
  <2> QED
    BY <2>1, <2>2
<1>4. ASSUME NEW l \in Leads \ crossed', event'[l].to # NoStage,
             \A v \in Staff : ask'[v].lead = l => ask'[v].step # "log"
      PROVE  lead'[l] \in StageIds /\ stage'[lead'[l]].key = event'[l].to
  <2>1. l \in Leads \ crossed /\ ~Leaves(u, l)
    BY <1>0 DEF CrossStep, Leaves
  <2>2. CASE ask[u].step = "log" /\ l = ask[u].lead
    <3>1. lead' = lead /\ stage' = stage /\ event'[l].to = ask[u].key /\ ask[u].kind = "move"
      BY Zenon, <1>0, <2>2 DEF EventStep
    <3>2. lead[l] = ask[u].stage
      BY <1>1, <2>1, <2>2 DEF MovesAreTold
    <3>3. ask[u].stage \in StageIds /\ stage[ask[u].stage].key = ask[u].key
      BY <1>1, <2>1, <2>2, <3>1 DEF AskFits, StagesInv, MovesAreNamed
    <3> QED
      BY <3>1, <3>2, <3>3
  <2>3. CASE ~(ask[u].step = "log" /\ l = ask[u].lead)
    <3>1. event'[l] = event[l]
      BY <1>0, <2>1, <2>3 DEF EventStep
    <3>2. ~Enters(u, l)
      BY <1>1, <1>4, <3>1 DEF Enters, AskFits, MovesAreTold
    <3>3. lead'[l] = lead[l]
      BY <1>0, <2>1, <3>2 DEF LeadStep
    <3>4. \A v \in Staff : ask[v].lead = l => ask[v].step # "log"
      BY <1>0, <1>4, <2>3
    <3>5. lead[l] \in StageIds /\ stage[lead[l]].key = event[l].to /\ stage[lead[l]].at = "there"
      BY <1>1, <1>4, <2>1, <3>1, <3>4 DEF MovesAreTold, IsAt, StagesInv, LeadsArePlaced
    <3> QED
      BY <3>1, <3>3, <3>5 DEF StepOf, RowStep
  <2> QED
    BY <2>2, <2>3
<1> QED
  BY <1>2, <1>3, <1>4 DEF MovesAreTold, IsAt

(* An addition brings one order more at the most. *)
LEMMA OrdersStayBounded ==
  ASSUME StageAssumption, StagesInv, NEW u \in Staff, StepOf(u)
  PROVE  OrdersAreBounded'
<1>1. PICK z \in Nat : \A j \in StageIds : -z <= stage[j].order /\ stage[j].order <= z
  BY DEF StagesInv, OrdersAreBounded
<1>2. \A j \in StageIds : stage'[j].order = stage[j].order \/ stage'[j].order = ask[u].order
  BY DEF StepOf, RowStep
<1>3. ask[u].order \in Int /\ \A j \in StageIds : stage[j].order \in Int
  BY DEF StagesInv, StageShape, AskRecord, StageRow
<1>4. PICK y \in Nat : z <= y /\ -y <= ask[u].order /\ ask[u].order <= y
  <2>1. PICK n \in Int : n = ask[u].order
    BY <1>3
  <2>2. CASE n < 0
    <3>1. z - n \in Nat /\ z <= z - n /\ -(z - n) <= n /\ n <= z - n
      BY <2>2
    <3> QED
      BY <2>1, <3>1
  <2>3. CASE n >= 0
    <3>1. z + n \in Nat /\ z <= z + n /\ -(z + n) <= n /\ n <= z + n
      BY <2>3
    <3> QED
      BY <2>1, <3>1
  <2> QED
    BY <2>2, <2>3
<1>5. \A j \in StageIds : -y <= stage'[j].order /\ stage'[j].order <= y
  BY <1>1, <1>2, <1>3, <1>4
<1> QED
  BY <1>5 DEF OrdersAreBounded

LEMMA OrdersStayDistinct ==
  ASSUME StageAssumption, StagesInv, NEW u \in Staff, StepOf(u), ~jumbled'
  PROVE  InOrder'
<1>1. /\ InOrder /\ \A v \in Staff \ {u} : ask'[v].kind = ask[v].kind /\ ask'[v].order = ask[v].order
  BY DEF StagesInv, StepOf, OrderStep, AsksStay, OtherAsksStay
<1>2. \A v \in Staff : ask[v].order \in Int
  BY DEF StagesInv, StageShape, AskRecord
<1>3. \A j \in ThereAre : stage[j].order \in Int
  BY DEF StagesInv, StageShape, StageRow, ThereAre
<1>4. CASE \A j \in StageIds : stage'[j] = stage[j] \/ (stage'[j].at = "gone" /\ stage'[j].order = stage[j].order)
  <2>1. \A j \in ThereAre' : j \in ThereAre /\ stage'[j].order = stage[j].order
    BY <1>4 DEF ThereAre
  <2>2. OrdersDiffer'
    BY <1>1, <2>1 DEF InOrder, OrdersDiffer
  <2>3. ASSUME NEW v \in Staff, ask'[v].kind = "add"
        PROVE  /\ \A j \in ThereAre' : stage'[j].order < ask'[v].order
               /\ \A w \in Staff \ {v} : ask'[w].kind # "add"
    <3>1. CASE v = u
      BY <1>1, <2>1, <2>3, <3>1 DEF StepOf, OrderStep
    <3>2. CASE v # u
      <4>1. ask[v].kind = "add" /\ ask'[v].order = ask[v].order /\ ask'[u].kind # "add"
        BY <1>1, <2>3, <3>2 DEF StepOf, OrderStep
      <4> QED
        BY <1>1, <2>1, <4>1 DEF InOrder, AddsAreLast
    <3> QED
      BY <3>1, <3>2
  <2> QED
    BY <2>2, <2>3 DEF InOrder, AddsAreLast
<1>5. ASSUME NEW i \in StageIds, ask[u].kind = "add", stage'[i].order = ask[u].order, IsOver(u),
             \A j \in StageIds \ {i} : stage'[j] = stage[j]
      PROVE  InOrder'
  <2>1. \A v \in Staff : ask'[v].kind # "add"
    BY <1>1, <1>5 DEF IsOver, InOrder, AddsAreLast
  <2>2. \A j \in ThereAre : stage[j].order < ask[u].order
    BY <1>1, <1>5 DEF InOrder, AddsAreLast
  <2>3. \A j \in ThereAre' : j = i \/ (j \in ThereAre /\ stage'[j].order = stage[j].order)
    BY <1>5 DEF ThereAre
  <2>4. ASSUME NEW j \in ThereAre', NEW k \in ThereAre', stage'[j].order = stage'[k].order PROVE j = k
    BY <1>1, <1>2, <1>3, <1>5, <2>2, <2>3, <2>4 DEF InOrder, OrdersDiffer
  <2> QED
    BY <2>1, <2>4 DEF InOrder, OrdersDiffer, AddsAreLast
<1> QED
  BY <1>4, <1>5 DEF StepOf, RowStep

LEMMA RequestsKeepStages ==
  ASSUME StageAssumption, StagesInv, NEW u \in Staff, StepOf(u)
  PROVE  StagesInv'
<1>1. StageShape'
  BY DEF StageShape, StepOf, AsksStay, LeadStep, EventStep, CrossStep, RowStep, OrderStep
<1>2. AsksFit' /\ LeadsArePlaced' /\ LateAreKnown' /\ OneAsks' /\ MovesAreNamed' /\ MovesAreTold'
  BY AsksStayFit, LeadsStayPlaced, LateStayKnown, OneStillAsks, MovesStayNamed, MovesStayTold
<1> QED
  BY <1>1, <1>2, OrdersStayBounded, OrdersStayDistinct DEF StagesInv

LEMMA RowsKeepStages ==
  ASSUME StageAssumption, StagesInv, NoRequest
  PROVE  StagesInv'
<1>1. /\ UNCHANGED <<lead, ask, event>> /\ CrossStep /\ OrdersAreBounded'
      /\ \A i \in StageIds : /\ stage'[i].at = stage[i].at
                             /\ stage'[i].key # stage[i].key => (LeadsIn(i) \cup MovingTo(i)) \cap Leads \subseteq crossed'
  BY DEF NoRequest
<1>2. StageShape' /\ AsksFit'
  BY <1>1 DEF NoRequest, StagesInv, StageShape, CrossStep, AsksFit, AskFits
<1>3. LeadsArePlaced' /\ LateAreKnown' /\ OneAsks'
  BY <1>1 DEF StagesInv, LeadsArePlaced, LateAreKnown, OneAsks, CrossStep
<1>4. MovesAreNamed'
  <2>1. ASSUME NEW u \in Staff, ask[u].kind = "move", ask[u].lead \notin crossed'
        PROVE  stage'[ask[u].stage].key = ask[u].key
    <3>1. ask[u].stage \in StageIds /\ ask[u].lead \in Leads /\ stage[ask[u].stage].key = ask[u].key
      BY <1>1, <2>1 DEF StagesInv, AsksFit, AskFits, MovesAreNamed, CrossStep
    <3>2. ask[u].lead \in MovingTo(ask[u].stage)
      BY <2>1 DEF MovingTo
    <3> QED
      BY <1>1, <2>1, <3>1, <3>2
  <2> QED
    BY <1>1, <2>1 DEF MovesAreNamed
<1>5. MovesAreTold'
  <2>1. ASSUME NEW l \in Leads \ crossed', event[l].to # NoStage, \A u \in Staff : ask[u].lead = l => ask[u].step # "log"
        PROVE  lead[l] \in StageIds /\ stage'[lead[l]].key = event[l].to
    <3>1. lead[l] \in StageIds /\ stage[lead[l]].key = event[l].to
      BY <1>1, <2>1 DEF StagesInv, MovesAreTold, IsAt, CrossStep
    <3>2. l \in LeadsIn(lead[l])
      BY DEF LeadsIn
    <3> QED
      BY <1>1, <3>1, <3>2
  <2>2. \A u \in Staff : ask[u].step = "log" /\ ask[u].lead \notin crossed' => lead[ask[u].lead] = ask[u].stage
    BY <1>1 DEF StagesInv, MovesAreTold, CrossStep
  <2> QED
    BY <1>1, <2>1, <2>2 DEF StagesInv, MovesAreTold, IsAt
<1>6. ASSUME ~jumbled' PROVE InOrder'
  <2>1. ThereAre' = ThereAre
    BY <1>1 DEF ThereAre
  <2>2. CASE ~jumbled /\ \A i \in ThereAre : stage'[i].order = stage[i].order
    BY <1>1, <2>1, <2>2 DEF StagesInv, InOrder, OrdersDiffer, AddsAreLast
  <2>3. CASE OrdersDiffer' /\ \A u \in Staff : ask[u].kind # "add"
    BY <1>1, <2>3 DEF InOrder, AddsAreLast
  <2> QED
    BY <1>6, <2>2, <2>3 DEF NoRequest
<1> QED
  BY <1>1, <1>2, <1>3, <1>4, <1>5, <1>6 DEF StagesInv

(* Every step is one of a request, or only of rows. *)
LEMMA StagesStep ==
  ASSUME StageAssumption, StagesInv, StageNext
  PROVE  NoRequest \/ \E u \in Staff : StepOf(u)
BY CreateBegins, MoveBegins, DeletionBegins, AdditionBegins, LeadIsInserted, LeadIsMoved, MoveIsLogged,
   StageIsAdded, StageIsDeleted, StageIsUpdated, StagesAreSorted DEF StageNext

LEMMA StagesStart ==
  ASSUME StageAssumption, StageInit
  PROVE  StagesInv
<1>1. NoAskFields
  BY NoAskShape
<1>2. PICK first \in StageIds, k \in StageKeys :
        stage = [i \in StageIds |-> [at |-> IF i = first THEN "there" ELSE "unborn", key |-> k, order |-> 0, default |-> i = first]]
  BY DEF StageInit
<1>3. /\ lead = [l \in Leads |-> "unborn"] /\ ask = [u \in Staff |-> NoAsk]
      /\ event = [l \in Leads |-> [from |-> NoStage, to |-> NoStage]]
      /\ crossed = {} /\ jumbled = FALSE /\ asked = 0
  BY DEF StageInit
<1>4. ASSUME NEW i \in StageIds PROVE stage[i] \in StageRow /\ stage[i].order = 0 /\ (stage[i].at = "there" => i = first)
  <2>1. stage[i] = [at |-> IF i = first THEN "there" ELSE "unborn", key |-> k, order |-> 0, default |-> i = first]
    BY <1>2
  <2> QED
    BY <2>1 DEF StageRow
<1>5. stage \in [StageIds -> StageRow] /\ \A i \in ThereAre : i = first
  BY <1>2, <1>4 DEF ThereAre
<1>6. StageShape
  BY Zenon, <1>1, <1>3, <1>5 DEF StageShape, NoAskFields, Keys
<1>7. /\ \A u \in Staff : ask[u].kind = "none" /\ ask[u].step = "none" /\ ask[u].lead = NoStage
      /\ \A l \in Leads : lead[l] = "unborn" /\ event[l].to = NoStage
  BY <1>1, <1>3 DEF NoAskFields
<1>8. AsksFit /\ LeadsArePlaced /\ LateAreKnown /\ OneAsks /\ MovesAreNamed /\ MovesAreTold
  BY <1>7 DEF AsksFit, AskFits, LeadsArePlaced, LateAreKnown, OneAsks, MovesAreNamed, MovesAreTold, StageAssumption
<1>9. OrdersAreBounded
  BY <1>4 DEF OrdersAreBounded
<1>10. InOrder
  BY <1>5, <1>7 DEF InOrder, OrdersDiffer, AddsAreLast
<1> QED
  BY <1>6, <1>8, <1>9, <1>10 DEF StagesInv

LEMMA StagesHold ==
  ASSUME StageAssumption
  PROVE  StageSpec => []StagesInv
<1>1. StageInit => StagesInv
  BY StagesStart
<1>2. StagesInv /\ [StageNext]_stageVars => StagesInv'
  <2>1. ASSUME StagesInv, UNCHANGED stageVars PROVE StagesInv'
    <3>1. /\ stage' = stage /\ lead' = lead /\ ask' = ask /\ event' = event /\ crossed' = crossed
          /\ jumbled' = jumbled /\ asked' = asked
      BY <2>1 DEF stageVars
    <3>2. (\A i \in StageIds : stage'[i].at = stage[i].at) /\ (\A i \in ThereAre : stage'[i].order = stage[i].order)
      BY <3>1
    <3>3. OrdersAreBounded' /\ (~jumbled' => ~jumbled) /\ CrossStep
      BY <2>1, <3>1 DEF StagesInv, OrdersAreBounded, CrossStep, StageShape
    <3>4. NoRequest
      BY <2>1, <3>1, <3>2, <3>3 DEF NoRequest, StagesInv, StageShape
    <3> QED
      BY <2>1, <3>4, RowsKeepStages
  <2> QED
    BY <2>1, StagesStep, RequestsKeepStages, RowsKeepStages
<1> QED
  BY <1>1, <1>2, PTL DEF StageSpec

\* Rows, leads and requests of stages are always of their types.
THEOREM StagesTypeCorrect ==
  ASSUME StageAssumption
  PROVE  StageSpec => []StageTypeOK
<1>1. StagesInv => StageTypeOK
  BY DEF StagesInv, StageShape, StageTypeOK, StageRow, AskRecord, Places
<1> QED
  BY <1>1, StagesHold, PTL

\* A lead in a stage is in one that exists; a move that nothing else touched is told with
\* the key of the stage the lead is in; and from a sort of all stages on, orders differ for
\* as long as nobody gives one and additions do not overlap (leads.service.ts:354-361).
THEOREM StagesStayInOrder ==
  ASSUME StageAssumption
  PROVE  StageSpec => []StagesAgree
<1>1. ASSUME StagesInv PROVE StagesAgree
  <2>1. ASSUME NEW l \in Leads PROVE lead[l] \in {"unborn", NoStage} \cup ThereAre
    BY <1>1 DEF StagesInv, StageShape, LeadsArePlaced, ThereAre, Places
  <2>2. ASSUME NEW l \in Leads \ crossed, event[l].to # NoStage, \A u \in Staff : ask[u].lead # l
        PROVE  lead[l] \in StageIds /\ event[l].to = stage[lead[l]].key
    BY <1>1, <2>2 DEF StagesInv, MovesAreTold, IsAt
  <2>3. ~jumbled => \A i, j \in ThereAre : stage[i].order = stage[j].order => i = j
    BY <1>1 DEF StagesInv, InOrder, OrdersDiffer
  <2> QED
    BY <2>1, <2>2, <2>3 DEF StagesAgree
<1> QED
  BY <1>1, StagesHold, PTL

\* A lead loses its stage only to a deletion that had found the stage empty before the lead
\* came in (leads.service.ts:405).
THEOREM StagesAreKept ==
  ASSUME StageAssumption
  PROVE  StageSpec => StageIsKept
<1> DEFINE Kept == \A l \in Leads : lead[l] \in StageIds /\ lead'[l] = NoStage =>
                     \E u \in Staff : ask[u].kind = "delete" /\ ask[u].stage = lead[l] /\ l \in ask[u].since
<1>1. ASSUME StagesInv, StageNext PROVE Kept
  <2> SUFFICES ASSUME NEW l \in Leads, lead[l] \in StageIds, lead'[l] = NoStage
               PROVE  \E u \in Staff : ask[u].kind = "delete" /\ ask[u].stage = lead[l] /\ l \in ask[u].since
    OBVIOUS
  <2>1. lead'[l] # lead[l]
    BY DEF StageAssumption
  <2>2. PICK u \in Staff : StepOf(u)
    BY <1>1, <2>1, StagesStep DEF NoRequest
  <2>3. ~Enters(u, l)
    BY <1>1 DEF Enters, StagesInv, AsksFit, AskFits, StageAssumption
  <2>4. Leaves(u, l)
    BY <2>1, <2>2, <2>3 DEF StepOf, LeadStep
  <2> QED
    BY <1>1, <2>4 DEF Leaves, StagesInv, LateAreKnown
<1>2. ASSUME UNCHANGED stageVars PROVE Kept
  BY <1>2 DEF stageVars, StageAssumption
<1>3. StagesInv /\ [StageNext]_stageVars => Kept
  BY <1>1, <1>2
<1> QED
  BY <1>3, StagesHold, PTL DEF StageSpec, StageIsKept

-----------------------------------------------------------------------------
(* Records of a tenant, under limits and keys *)

-----------------------------------------------------------------------------
LEMMA KindsOfTables ==
  ASSUME table \in Tables
  PROVE  /\ KindOf(table).unique \/ table \in {"rules", "metaPages", "aiConfigs"}
         /\ "aiConfigs" \notin MetaTables
         /\ table = "aiConfigs" => KindOf(table).same = "update" /\ KindOf(table).rekey = "none"
         /\ table # "aiConfigs" => KindOf(table).same # "update"
BY Zenon DEF Tables, KindOf, Service, UserTable, MetaTables, Rules, MetaForms, MetaPages, AiConfigs, Stages, Properties, Tags

LEMMA LimitsAreNumbers ==
  ASSUME RecordAssumption, table \in Tables, NEW p
  PROVE  Limit(p) \in Nat /\ 0 < Limit(NoPlan)
BY DEF Limit, NoPlan, Tables, KindOf, Service, UserTable, Rules, MetaForms, MetaPages, AiConfigs, Stages, Properties, Tags,
   Unlimited, RecordAssumption

LEMMA RowsAreFinite ==
  ASSUME RecordShape
  PROVE  /\ IsFiniteSet(Counted) /\ Counted \subseteq There /\ There \subseteq 1..Len(record)
         /\ Cardinality(Counted) \in Nat /\ Cardinality(Counted) <= Len(record)
<1>1. Len(record) \in Nat /\ DOMAIN record = 1..Len(record)
  BY DEF RecordShape
<1>2. IsFiniteSet(1..Len(record)) /\ Cardinality(1..Len(record)) = Len(record)
  <2>1. \A n \in Nat : IsFiniteSet(1..n) /\ Cardinality(1..n) = IF 1 > n THEN 0 ELSE n - 1 + 1
    BY FS_Interval
  <2> QED
    BY <1>1, <2>1
<1>3. Counted \subseteq There /\ There \subseteq 1..Len(record)
  BY <1>1 DEF Counted, Active, There
<1>4. Counted \subseteq 1..Len(record)
  BY <1>3
<1>5. IsFiniteSet(Counted) /\ Cardinality(Counted) <= Cardinality(1..Len(record))
  BY Zenon, <1>2, <1>4, FS_Subset
<1>6. Cardinality(Counted) \in Nat
  BY <1>5, FS_CardinalityType
<1> QED
  BY <1>2, <1>3, <1>5, <1>6

-----------------------------------------------------------------------------
(* Each step by what it changes. *)

LEMMA IdleShape == Idle \in RequestRow /\ Idle.step = "idle" /\ Idle.found = 0 /\ Idle.counted = 0
BY DEF Idle, RequestRow, Plans

LEMMA AnsweredRequest ==
  ASSUME RecordShape, NEW p \in Requests, Answer(p)
  PROVE  RecordRequestStep(p) /\ Ended(p)
BY IdleShape DEF Answer, RecordRequestStep, Ended, RecordShape

LEMMA ServedRequest ==
  ASSUME RecordShape, NEW p \in Requests, NEW r \in RequestRow, Advance(p, r)
  PROVE  RecordRequestStep(p) /\ request'[p] = r
BY DEF Advance, RecordRequestStep, RecordShape

LEMMA CheckedLimit ==
  ASSUME RecordAssumption, RecordShape, NEW p \in Requests, NEW k \in RecordKeys, CheckLimit(p, k)
  PROVE  /\ RecordRequestStep(p) /\ request'[p].step = "look" /\ request'[p].found = 0 /\ request'[p].plan = planOf
         /\ request'[p].counted = Cardinality(Counted) /\ Cardinality(Counted) < Limit(planOf)
         /\ UNCHANGED <<table, planOf, record, overlapped, recordChanges>>
<1> DEFINE n == Cardinality(Counted)
           r == [Idle EXCEPT !.step = "look", !.key = k, !.plan = planOf, !.counted = n]
<1>1. n \in Nat /\ Limit(planOf) \in Nat /\ planOf \in Plans
  BY RowsAreFinite, LimitsAreNumbers DEF RecordShape
<1>2. r \in RequestRow /\ r.step = "look" /\ r.found = 0 /\ r.plan = planOf /\ r.counted = n
  BY Zenon, <1>1, IdleShape DEF RequestRow
<1>3. Advance(p, r) /\ ~(n >= Limit(planOf))
  BY DEF CheckLimit, AtLimit
<1>4. UNCHANGED <<table, planOf, record, overlapped, recordChanges>>
  BY DEF CheckLimit
<1> HIDE DEF r, n
<1>5. RecordRequestStep(p) /\ request'[p] = r
  BY <1>2, <1>3, ServedRequest
<1> QED
  BY <1>1, <1>2, <1>3, <1>4, <1>5 DEF n

LEMMA ConnectedPage ==
  ASSUME RecordAssumption, RecordShape, NEW p \in Requests, NEW k \in RecordKeys, ConnectPage(p, k)
  PROVE  /\ RecordRequestStep(p) /\ table \in MetaTables /\ request'[p].step = "write"
         /\ request'[p].found \in {0} \cup There /\ request'[p].plan = NoPlan /\ request'[p].counted = 0
         /\ (overlapped => overlapped') /\ (Writing # {} => overlapped')
         /\ UNCHANGED <<table, planOf, record, recordChanges>>
<1>1. PICK i \in Some(WithKey(k)) : Advance(p, [Idle EXCEPT !.step = "write", !.key = k, !.plan = NoPlan, !.found = i])
  BY DEF ConnectPage
<1>2. i \in {0} \cup There /\ There \subseteq 1..Len(record)
  BY RowsAreFinite DEF Some, WithKey
<1>3. i \in Nat
  BY <1>2
<1> DEFINE r == [Idle EXCEPT !.step = "write", !.key = k, !.plan = NoPlan, !.found = i]
<1>4. r \in RequestRow /\ r.step = "write" /\ r.found = i /\ r.plan = NoPlan /\ r.counted = 0
  BY Zenon, <1>3, IdleShape DEF RequestRow
<1>5. Advance(p, r)
  BY <1>1
<1> HIDE DEF r
<1>6. RecordRequestStep(p) /\ request'[p] = r
  BY <1>4, <1>5, ServedRequest
<1>7. overlapped' = (overlapped \/ Writing # {}) /\ table \in MetaTables /\ UNCHANGED <<table, planOf, record, recordChanges>>
  BY Zenon DEF ConnectPage
<1>8. (overlapped => overlapped') /\ (Writing # {} => overlapped')
  BY Zenon, <1>7
<1> QED
  BY Zenon, <1>2, <1>4, <1>6, <1>7, <1>8

LEMMA LookedForKey ==
  ASSUME RecordAssumption, RecordShape, NEW p \in Requests, LookForKey(p)
  PROVE  /\ RecordRequestStep(p) /\ request[p].step = "look" /\ (overlapped => overlapped') /\ (Writing # {} => overlapped')
         /\ \/ Ended(p)
            \/ /\ request'[p].step = "write" /\ request'[p].found \in {0} \cup There
               /\ request'[p].plan = request[p].plan /\ request'[p].counted = request[p].counted
               /\ KindOf(table).same = "update" =>
                    (request'[p].found = 0 => WithKey(request'[p].key) = {})
         /\ UNCHANGED <<table, planOf, record, recordChanges>>
<1> DEFINE rows == WithKey(request[p].key)
           same == KindOf(table).same
<1>0. request[p] \in RequestRow /\ request[p].step = "look" /\ There \subseteq Nat
  <2>1. There \subseteq 1..Len(record)
    BY RowsAreFinite
  <2>2. request[p].step = "look"
    BY Zenon DEF LookForKey
  <2> QED
    BY <2>1, <2>2 DEF RecordShape
<1>3. (overlapped => overlapped') /\ (Writing # {} => overlapped')
  <2>1. overlapped' = (overlapped \/ Writing # {})
    BY Zenon DEF LookForKey
  <2> QED
    BY Zenon, <2>1
<1>1. CASE same = "refuse" /\ rows # {}
  <2>1. Answer(p)
    BY <1>1 DEF LookForKey
  <2>2. UNCHANGED <<table, planOf, record, recordChanges>>
    BY Zenon DEF LookForKey
  <2> QED
    BY <1>0, <1>3, <2>1, <2>2, AnsweredRequest
<1>2. CASE ~(same = "refuse" /\ rows # {})
  <2> DEFINE key == IF same = "rename" /\ rows # {} THEN Stamped ELSE request[p].key
  <2>1. PICK i \in IF same = "update" THEN Some(rows) ELSE {0} :
          Advance(p, [request[p] EXCEPT !.step = "write", !.found = i, !.key = key])
    BY Zenon, <1>2 DEF LookForKey
  <2> DEFINE r == [request[p] EXCEPT !.step = "write", !.found = i, !.key = key]
  <2>2. i \in {0} \cup There /\ (same = "update" /\ i = 0 => rows = {} \/ 0 \in There)
    BY DEF Some, WithKey
  <2>3. ~(0 \in There)
    BY RowsAreFinite DEF RecordShape
  <2>4. key \in RecordKeys \cup {Stamped} /\ (same = "update" => key = request[p].key)
    BY <1>0 DEF RequestRow
  <2>5. i \in Nat
    <3>1. i = 0 \/ i \in There
      BY <2>2
    <3>2. CASE i \in There
      BY <1>0, <3>2
    <3> QED
      BY <3>1, <3>2
  <2> HIDE DEF key
  <2>6. /\ r \in RequestRow /\ r.step = "write" /\ r.found = i /\ r.key = key /\ r.plan = request[p].plan
        /\ r.counted = request[p].counted
    BY Zenon, <1>0, <2>4, <2>5 DEF RequestRow
  <2>7. Advance(p, r)
    BY <2>1
  <2> HIDE DEF r
  <2>8. RecordRequestStep(p) /\ request'[p] = r
    BY <2>6, <2>7, ServedRequest
  <2>9. same = "update" => (i = 0 => WithKey(key) = {})
    BY <2>2, <2>3, <2>4
  <2> HIDE DEF rows, same
  <2>10. UNCHANGED <<table, planOf, record, recordChanges>>
    BY Zenon DEF LookForKey
  <2> QED
    BY <1>0, <1>3, <2>2, <2>6, <2>8, <2>9, <2>10 DEF same
<1> QED
  BY <1>1, <1>2

LEMMA WroteRecord ==
  ASSUME RecordAssumption, RecordShape, NEW p \in Requests, WriteRecord(p)
  PROVE  /\ RecordRequestStep(p) /\ Ended(p) /\ request[p].step = "write" /\ request'[p] = Idle
         /\ \/ record' = record
            \/ /\ record' = Append(record, BornRow(request[p].key)) /\ request[p].found = 0
               /\ Indexed /\ request[p].key # Stamped => WithKey(request[p].key) = {}
         /\ UNCHANGED <<table, planOf, overlapped, recordChanges>>
<1>1. RecordRequestStep(p) /\ Ended(p)
  BY AnsweredRequest DEF WriteRecord
<1>2. request'[p] = Idle
  BY DEF WriteRecord, Answer, RecordShape
<1>3. CASE request[p].found # 0 \/ Refused(request[p].key, 0)
  BY <1>1, <1>2, <1>3 DEF WriteRecord
<1>4. CASE ~(request[p].found # 0 \/ Refused(request[p].key, 0))
  <2>1. record' = Append(record, BornRow(request[p].key)) /\ request[p].found = 0
    BY <1>4 DEF WriteRecord, BornRow
  <2>2. ~(0 \in There)
    BY RowsAreFinite DEF RecordShape
  <2>3. Indexed /\ request[p].key # Stamped => WithKey(request[p].key) = {}
    BY <1>4, <2>2 DEF Refused, Indexed, WithKey
  <2>4. request[p].step = "write" /\ UNCHANGED <<table, planOf, overlapped, recordChanges>>
    BY DEF WriteRecord
  <2> QED
    BY <1>1, <1>2, <2>1, <2>3, <2>4
<1> QED
  BY <1>3, <1>4

LEMMA ChangedRow ==
  ASSUME RecordShape, NEW i \in DOMAIN record, NEW r \in RecordRow, record' = [record EXCEPT ![i] = r]
  PROVE  /\ record' \in Seq(RecordRow) /\ Len(record') = Len(record) /\ DOMAIN record' = DOMAIN record
         /\ record'[i] = r /\ \A j \in DOMAIN record : j # i => record'[j] = record[j]
<1>1. record \in Seq(RecordRow) /\ i \in 1..Len(record)
  BY DEF RecordShape
<1> QED
  BY <1>1, ExceptSeq

LEMMA RemovedRecord ==
  ASSUME RecordShape, NEW i \in DOMAIN record, RemoveRecord(i)
  PROVE  RowChange(i) /\ table # "users" /\ recordChanges' = recordChanges + 1 /\ UNCHANGED <<table, planOf, request, overlapped>>
<1> DEFINE r == [record[i] EXCEPT !.there = FALSE]
<1>1. record[i] \in RecordRow
  BY DEF RecordShape
<1>2. r \in RecordRow /\ ~r.there /\ r.key = record[i].key
  BY Zenon, <1>1 DEF RecordRow
<1>3. record' = [record EXCEPT ![i] = r]
  BY DEF RemoveRecord
<1> HIDE DEF r
<1> QED
  BY Zenon, <1>2, <1>3, ChangedRow DEF RowChange, RemoveRecord, Changed

LEMMA SwitchedActive ==
  ASSUME RecordShape, NEW i \in DOMAIN record, SetActive(i)
  PROVE  RowChange(i) /\ table = "users" /\ recordChanges' = recordChanges + 1 /\ UNCHANGED <<table, planOf, request, overlapped>>
<1> DEFINE r == [record[i] EXCEPT !.active = ~record[i].active]
<1>1. record[i] \in RecordRow
  BY DEF RecordShape
<1>2. r \in RecordRow /\ r.there = record[i].there /\ r.key = record[i].key
  BY Zenon, <1>1 DEF RecordRow
<1>3. record' = [record EXCEPT ![i] = r]
  BY DEF SetActive
<1> HIDE DEF r
<1> QED
  BY Zenon, <1>2, <1>3, ChangedRow DEF RowChange, SetActive, Changed

LEMMA ChangedKey ==
  ASSUME RecordShape, NEW i \in DOMAIN record, NEW k \in RecordKeys, SetKey(i, k)
  PROVE  /\ \/ record' = record
            \/ /\ RowChange(i)
               /\ record'[i].there = record[i].there /\ record'[i].active = record[i].active
         /\ recordChanges' = recordChanges + 1 /\ UNCHANGED <<table, planOf, request, overlapped>>
<1>1. record[i] \in RecordRow /\ k \in RecordKeys \cup {Stamped} /\ KindOf(table).rekey # "none"
  BY DEF RecordShape, SetKey
<1>2. UNCHANGED <<table, planOf, request, overlapped>> /\ recordChanges' = recordChanges + 1
  BY DEF SetKey, Changed
<1>3. ASSUME NEW n \in RecordKeys \cup {Stamped}, n = Stamped \/ WithKey(n) = {}, record' = [record EXCEPT ![i].key = n]
      PROVE  RowChange(i) /\ record'[i].there = record[i].there /\ record'[i].active = record[i].active
  <2> DEFINE r == [record[i] EXCEPT !.key = n]
  <2>1. r \in RecordRow /\ r.there = record[i].there /\ r.active = record[i].active /\ r.key = n
    BY <1>1 DEF RecordRow
  <2>2. record' = [record EXCEPT ![i] = r]
    BY <1>3
  <2> HIDE DEF r
  <2> QED
    BY Zenon, <1>1, <1>3, <2>1, <2>2, ChangedRow DEF RowChange
<1>4. \/ record' = record
      \/ WithKey(k) = {} /\ record' = [record EXCEPT ![i].key = k]
      \/ record' = [record EXCEPT ![i].key = Stamped]
  BY DEF SetKey
<1> QED
  BY <1>2, <1>3, <1>4

-----------------------------------------------------------------------------
(* A change of the rows, for the properties that are about them. *)

LEMMA GrownRows ==
  ASSUME RecordShape, NEW p \in Requests, RecordsGrow(p)
  PROVE  /\ record' \in Seq(RecordRow) /\ Len(record') = Len(record) + 1 /\ DOMAIN record' = DOMAIN record \cup {Len(record) + 1}
         /\ \A i \in DOMAIN record : record'[i] = record[i] /\ i # Len(record) + 1
         /\ record'[Len(record) + 1] = BornRow(request[p].key)
<1>1. record \in Seq(RecordRow) /\ BornRow(request[p].key) \in RecordRow
  BY DEF RecordShape, RequestRow, RecordRow, BornRow
<1>2. record' = Append(record, BornRow(request[p].key))
  BY DEF RecordsGrow
<1> HIDE DEF BornRow, RecordRow
<1> QED
  BY <1>1, <1>2

LEMMA UniqueWhenGrown ==
  ASSUME RecordAssumption, RecordInv, NEW p \in Requests, RecordsGrow(p), table' = table, overlapped => overlapped'
  PROVE  KeysAreUnique'
<1>1. RecordShape /\ KeysAreUnique /\ OneWriter
  BY DEF RecordInv
<1>2. SUFFICES ASSUME table \notin {"rules", "metaPages"}, ~(table = "aiConfigs" /\ overlapped),
                      NEW i \in There', NEW j \in There', record'[i].key = record'[j].key, record'[i].key # Stamped
               PROVE  i = j
  BY DEF KeysAreUnique
<1>3. Indexed \/ table = "aiConfigs"
  BY <1>1, <1>2, KindsOfTables DEF Indexed, RecordShape
<1>4. request[p].key # Stamped => WithKey(request[p].key) = {}
  BY Zenon, <1>1, <1>2, <1>3 DEF RecordsGrow, OneWriter
<1> DEFINE n == Len(record) + 1
<1>5. \A x \in There' : x # n => x \in There /\ record'[x] = record[x]
  BY <1>1, GrownRows DEF There
<1>6. record'[n].key = request[p].key
  <2>1. record'[n] = BornRow(request[p].key)
    BY <1>1, GrownRows
  <2> QED
    BY <2>1 DEF BornRow
<1> HIDE DEF n
<1>7. \A x \in There' : x # n => record'[x].key # request[p].key \/ request[p].key = Stamped
  BY <1>4, <1>5 DEF WithKey
<1>8. CASE i # n /\ j # n
  BY <1>1, <1>2, <1>5, <1>8 DEF KeysAreUnique
<1> QED
  BY <1>2, <1>6, <1>7, <1>8

LEMMA UniqueWhenChanged ==
  ASSUME RecordAssumption, RecordInv, NEW i \in DOMAIN record, RowChange(i), table' = table, overlapped => overlapped'
  PROVE  KeysAreUnique'
<1>1. RecordShape /\ KeysAreUnique
  BY DEF RecordInv
<1>2. SUFFICES ASSUME table \notin {"rules", "metaPages"}, ~(table = "aiConfigs" /\ overlapped),
                      NEW j \in There', NEW k \in There', record'[j].key = record'[k].key, record'[j].key # Stamped
               PROVE  j = k
  BY DEF KeysAreUnique
<1>3. There' \subseteq There
  BY DEF There, RowChange
<1>4. \A x \in There' : x # i => record'[x] = record[x] /\ x \in There
  BY <1>3 DEF RowChange, There
<1>5. \A x, y \in There : record[x].key = record[y].key /\ record[x].key # Stamped => x = y
  BY <1>1, <1>2 DEF KeysAreUnique
<1>6. CASE record'[i].key = record[i].key
  BY <1>2, <1>3, <1>4, <1>5, <1>6
<1>7. CASE WithKey(record'[i].key) = {}
  BY <1>2, <1>4, <1>5, <1>7 DEF WithKey
<1>8. CASE record'[i].key = Stamped
  BY <1>2, <1>4, <1>5, <1>8
<1> QED
  BY <1>6, <1>7, <1>8 DEF RowChange

LEMMA RecordSteps ==
  ASSUME RecordAssumption, RecordShape, RecordNext
  PROVE  (\E p \in Requests : RequestGoes(p)) \/ Alters
<1>1. ASSUME NEW p \in Requests, NEW k \in RecordKeys, CheckLimit(p, k) PROVE RequestGoes(p)
  BY <1>1, CheckedLimit DEF RequestGoes
<1>2. ASSUME NEW p \in Requests, LookForKey(p) PROVE RequestGoes(p)
  <2>1. table = "aiConfigs" => KindOf(table).same = "update"
    BY KindsOfTables DEF RecordShape
  <2> QED
    BY <1>2, <2>1, LookedForKey DEF RequestGoes, Ended
<1>6. ASSUME NEW p \in Requests, NEW k \in RecordKeys, ConnectPage(p, k) PROVE RequestGoes(p)
  BY Zenon, <1>6, ConnectedPage DEF RequestGoes
<1>3. ASSUME NEW p \in Requests, WriteRecord(p) PROVE RequestGoes(p)
  BY Zenon, <1>3, WroteRecord DEF RequestGoes, Ended, RecordsGrow, Writing
<1>4. ASSUME NEW i \in DOMAIN record, RemoveRecord(i) \/ SetActive(i) \/ \E k \in RecordKeys : SetKey(i, k) PROVE Alters
  <2>1. recordChanges' = recordChanges + 1 /\ UNCHANGED <<table, planOf, request, overlapped>>
    BY <1>4, RemovedRecord, SwitchedActive, ChangedKey
  <2>2. record' = record \/ RowChange(i)
    BY <1>4, RemovedRecord, SwitchedActive, ChangedKey
  <2> QED
    BY <2>1, <2>2 DEF Alters, RecordShape
<1>5. ChangePlan => Alters
  BY DEF ChangePlan, Changed, Alters, RecordShape
<1> QED
  BY <1>1, <1>2, <1>3, <1>4, <1>5, <1>6 DEF RecordNext

LEMMA UniqueStays ==
  ASSUME RecordAssumption, RecordInv, RecordNext
  PROVE  KeysAreUnique'
<1>1. RecordShape /\ KeysAreUnique
  BY DEF RecordInv
<1>2. ASSUME record' = record, table' = table, overlapped => overlapped' PROVE KeysAreUnique'
  BY <1>1, <1>2 DEF KeysAreUnique, There
<1>3. ASSUME NEW p \in Requests, RequestGoes(p) PROVE KeysAreUnique'
  BY <1>2, <1>3, UniqueWhenGrown DEF RequestGoes
<1>4. Alters => KeysAreUnique'
  BY <1>2, UniqueWhenChanged DEF Alters
<1> QED
  BY <1>1, <1>3, <1>4, RecordSteps

LEMMA ShapeStays ==
  ASSUME RecordAssumption, RecordInv, RecordNext
  PROVE  RecordShape'
<1>1. RecordShape
  BY DEF RecordInv
<1>2. Len(record) \in Nat /\ There \subseteq 1..Len(record) /\ Cardinality(Counted) <= Len(record)
  BY <1>1, RowsAreFinite DEF RecordShape
<1>3. ASSUME NEW p \in Requests, RequestGoes(p) PROVE RecordShape'
  <2>1. record' = record \/ (record' \in Seq(RecordRow) /\ Len(record') = Len(record) + 1)
    BY <1>1, <1>3, GrownRows DEF RequestGoes
  <2>2. record' \in Seq(RecordRow) /\ Len(record) <= Len(record') /\ Len(record') \in Nat
    BY <1>1, <1>2, <2>1 DEF RecordShape
  <2>3. request'[p] \in RequestRow /\ request'[p].found <= Len(record) /\ request'[p].counted <= Len(record)
    <3>0. request'[p] \in RequestRow
      BY <1>3 DEF RequestGoes, RecordRequestStep
    <3>1. CASE Ended(p)
      BY <1>2, <3>0, <3>1 DEF Ended
    <3>2. CASE request'[p].step = "look" /\ request'[p].found = 0 /\ request'[p].counted = Cardinality(Counted)
      BY <1>2, <3>0, <3>2
    <3>4. CASE request'[p].found \in {0} \cup There /\ request'[p].counted = 0
      <4>1. \A i \in {0} \cup There : i <= Len(record)
        BY <1>2
      <4>2. request'[p].counted <= Len(record)
        BY <1>2, <3>4
      <4> QED
        BY Zenon, <3>0, <3>4, <4>1, <4>2
    <3>3. CASE request'[p].found \in {0} \cup There /\ request'[p].counted = request[p].counted
      <4>1. \A i \in {0} \cup There : i <= Len(record)
        BY <1>2
      <4>2. request'[p].counted <= Len(record)
        BY <1>1, <3>3 DEF RecordShape
      <4> QED
        BY Zenon, <3>0, <3>3, <4>1, <4>2
    <3> QED
      BY <1>3, <3>1, <3>2, <3>3, <3>4 DEF RequestGoes
  <2>4. \A q \in Requests : request'[q].found \in Nat /\ request'[q].counted \in Nat
    BY <1>3 DEF RequestGoes, RecordRequestStep, RequestRow
  <2>5. \A q \in Requests : request'[q].found <= Len(record) /\ request'[q].counted <= Len(record)
    BY <1>1, <1>3, <2>3 DEF RequestGoes, RecordRequestStep, RecordShape
  <2>6. \A q \in Requests : request'[q].found <= Len(record') /\ request'[q].counted <= Len(record')
    BY <1>2, <2>2, <2>4, <2>5
  <2>7. request' \in [Requests -> RequestRow] /\ table' = table /\ planOf' = planOf /\ recordChanges' = recordChanges
    BY <1>3 DEF RequestGoes, RecordRequestStep
  <2> QED
    BY <1>1, <2>2, <2>6, <2>7 DEF RecordShape
<1>4. Alters => RecordShape'
  BY <1>1 DEF Alters, RowChange, RecordShape
<1> QED
  BY <1>1, <1>3, <1>4, RecordSteps

LEMMA WriterStays ==
  ASSUME RecordAssumption, RecordInv, RecordNext
  PROVE  OneWriter'
<1>1. RecordShape /\ OneWriter
  BY DEF RecordInv
<1>2. SUFFICES ASSUME table' = "aiConfigs", ~overlapped'
               PROVE  /\ \A p, q \in Writing' : p = q
                      /\ \A p \in Writing' : request'[p].found = 0 => WithKey(request[p].key)' = {}
  BY DEF OneWriter
<1>3. ASSUME NEW p \in Requests, RequestGoes(p)
      PROVE  /\ \A r, q \in Writing' : r = q
             /\ \A q \in Writing' : request'[q].found = 0 => WithKey(request[q].key)' = {}
  <2>1. table = "aiConfigs" /\ ~overlapped /\ RecordRequestStep(p)
    BY <1>2, <1>3 DEF RequestGoes
  <2>2. \A q \in Requests \ {p} : request'[q] = request[q]
    BY <2>1 DEF RecordRequestStep
  <2>3. CASE request'[p].step \in {"idle", "look"} /\ record' = record
    BY <1>1, <2>1, <2>2, <2>3 DEF OneWriter, Writing, WithKey, There
  <2>4. CASE request'[p].step = "write"
    <3>1. Writing = {} /\ record' = record /\ (request'[p].found = 0 => WithKey(request'[p].key) = {})
      BY <1>1, <1>2, <1>3, <2>1, <2>4, KindsOfTables DEF RequestGoes, Ended, RecordShape
    <3>2. Writing' \subseteq {p}
      BY <2>2, <3>1 DEF Writing
    <3> QED
      BY <3>1, <3>2 DEF WithKey, There
  <2>5. CASE request'[p].step = "idle" /\ p \in Writing
    BY <1>1, <2>1, <2>2, <2>5 DEF OneWriter, Writing
  <2> QED
    BY <1>3, <2>3, <2>4, <2>5 DEF RequestGoes, Ended
<1>4. ASSUME Alters
      PROVE  /\ \A p, q \in Writing' : p = q
             /\ \A p \in Writing' : request'[p].found = 0 => WithKey(request[p].key)' = {}
  <2>1. table = "aiConfigs" /\ ~overlapped /\ request' = request /\ Writing' = Writing
    BY <1>2, <1>4 DEF Alters, Writing
  <2>2. KindOf(table).rekey = "none"
    BY <1>1, <2>1, KindsOfTables DEF RecordShape
  <2>3. There' \subseteq There /\ \A i \in There' : record'[i].key = record[i].key
    BY <1>4, <2>2 DEF Alters, RowChange, There
  <2>4. \A k : WithKey(k)' \subseteq WithKey(k)
    BY <2>3 DEF WithKey
  <2> QED
    BY <1>1, <2>1, <2>3 DEF OneWriter, WithKey
<1> QED
  BY <1>1, <1>3, <1>4, RecordSteps

LEMMA LimitOfTable ==
  ASSUME table' = table
  PROVE  \A p : Limit(p)' = Limit(p)
BY DEF Limit

LEMMA CountsStayBelow ==
  ASSUME RecordAssumption, RecordInv, RecordNext
  PROVE  CountsWereBelow'
<1> DEFINE Below(r) == r.counted < Limit(r.plan) /\ (r.plan = NoPlan => table \in MetaTables)
<1>1. RecordShape /\ CountsWereBelow /\ planOf # NoPlan /\ 0 < Limit(NoPlan)
  BY LimitsAreNumbers DEF RecordInv, RecordShape, Plans, NoPlan
<1>0. \A q \in Requests : request[q].step # "idle" => Below(request[q])
  BY <1>1 DEF CountsWereBelow
<1>2. ASSUME NEW p \in Requests, RequestGoes(p), NEW q \in Requests, request'[q].step # "idle"
      PROVE  Below(request'[q])
  <2>1. CASE q = p
    BY <1>0, <1>1, <1>2, <2>1 DEF RequestGoes, Ended
  <2>2. CASE q # p
    BY <1>0, <1>2, <2>2 DEF RequestGoes, RecordRequestStep
  <2> QED
    BY <2>1, <2>2
<1>3. ASSUME Alters, NEW q \in Requests, request'[q].step # "idle" PROVE Below(request'[q])
  BY <1>0, <1>3 DEF Alters
<1>4. table' = table
  BY <1>1, RecordSteps DEF RequestGoes, Alters
<1>5. \A q \in Requests : request'[q].step # "idle" => Below(request'[q])
  BY <1>1, <1>2, <1>3, RecordSteps
<1> QED
  BY <1>4, <1>5 DEF CountsWereBelow, Limit

LEMMA RecordsStart ==
  ASSUME RecordAssumption, RecordInit
  PROVE  RecordInv
<1>1. /\ table \in Tables /\ planOf \in Plans /\ record = <<>> /\ overlapped = FALSE
      /\ request = [p \in Requests |-> Idle]
  BY DEF RecordInit
<1>0. recordChanges = 0
  BY DEF RecordInit
<1>2. \A p \in Requests : request[p] = Idle
  BY <1>1
<1>3. RecordShape
  BY <1>0, <1>1, IdleShape DEF RecordShape
<1>4. There = {} /\ Writing = {}
  BY <1>1, <1>2, IdleShape DEF There, Writing
<1> QED
  BY <1>2, <1>3, <1>4, IdleShape DEF RecordInv, OneWriter, KeysAreUnique, CountsWereBelow

LEMMA RecordsHold ==
  ASSUME RecordAssumption
  PROVE  RecordSpec => []RecordInv
<1>1. RecordInit => RecordInv
  BY RecordsStart
<1>2. RecordInv /\ [RecordNext]_recordVars => RecordInv'
  <2>1. RecordInv /\ RecordNext => RecordInv'
    BY ShapeStays, WriterStays, UniqueStays, CountsStayBelow DEF RecordInv
  <2>2. ASSUME RecordInv, UNCHANGED recordVars PROVE RecordInv'
    <3>1. /\ table' = table /\ planOf' = planOf /\ record' = record /\ request' = request
          /\ overlapped' = overlapped /\ recordChanges' = recordChanges
      BY <2>2 DEF recordVars
    <3> QED
      BY <2>2, <3>1 DEF RecordInv, RecordShape, OneWriter, KeysAreUnique, CountsWereBelow, There, Writing, WithKey, Limit
  <2> QED
    BY <2>1, <2>2
<1> QED
  BY <1>1, <1>2, PTL DEF RecordSpec

\* A key belongs to one row of a tenant, for any requests in any order, where the table has an
\* index or the requests for an AI configuration did not overlap (ai-config.service.ts:72).
THEOREM KeysStayUnique ==
  ASSUME RecordAssumption
  PROVE  RecordSpec => []KeysAreUnique
<1>1. RecordInv => KeysAreUnique
  BY DEF RecordInv
<1> QED
  BY <1>1, RecordsHold, PTL

LEMMA CountGrowsByOne ==
  ASSUME RecordShape, NEW p \in Requests, RecordsGrow(p), table' = table
  PROVE  Cardinality(Counted') \in Nat /\ Cardinality(Counted') <= Cardinality(Counted) + 1
<1> DEFINE n == Len(record) + 1
<1>1. Counted' \subseteq Counted \cup {n}
  BY GrownRows DEF Counted, Active, There
<1>2. IsFiniteSet(Counted) /\ Cardinality(Counted) \in Nat
  BY RowsAreFinite
<1>3. /\ IsFiniteSet(Counted \cup {n})
      /\ Cardinality(Counted \cup {n}) = IF n \in Counted THEN Cardinality(Counted) ELSE Cardinality(Counted) + 1
  BY <1>2, FS_AddElement
<1>4. Cardinality(Counted') <= Cardinality(Counted \cup {n}) /\ IsFiniteSet(Counted')
  BY <1>1, <1>3, FS_Subset
<1>5. Cardinality(Counted') \in Nat
  BY <1>4, FS_CardinalityType
<1> HIDE DEF n
<1> QED
  BY <1>2, <1>3, <1>4, <1>5

LEMMA CountDoesNotGrow ==
  ASSUME RecordShape, Counted' \subseteq Counted
  PROVE  Cardinality(Counted') \in Nat /\ Cardinality(Counted') <= Cardinality(Counted)
<1>1. IsFiniteSet(Counted)
  BY RowsAreFinite
<1>2. IsFiniteSet(Counted') /\ Cardinality(Counted') <= Cardinality(Counted)
  BY <1>1, FS_Subset
<1> QED
  BY <1>2, FS_CardinalityType

\* A tenant is taken past the limit of its plan only by a user activated again, a change of
\* plan, a row whose count or plan was old, or a page of Meta connected (plan.service.ts:107,
\* :125; users.service.ts:119; meta-oauth.service.ts:318).
THEOREM LimitsAreKept ==
  ASSUME RecordAssumption
  PROVE  RecordSpec => LimitIsKept
<1> DEFINE StaysKept ==
      Cardinality(Counted') > Limit(planOf)' /\ Cardinality(Counted) <= Limit(planOf) =>
        \/ planOf' # planOf \/ (table = "users" /\ recordChanges' # recordChanges)
        \/ \E p \in Writing : request'[p] = Idle /\ (WasOld(p) \/ Connects(p))
<1>1. ASSUME RecordInv, RecordNext PROVE StaysKept
  <2>1. RecordShape /\ CountsWereBelow /\ RecordShape'
    BY <1>1, ShapeStays DEF RecordInv
  <2>2. table' = table /\ Limit(planOf) \in Nat /\ Cardinality(Counted) \in Nat
    <3>1. table' = table
      BY <1>1, <2>1, RecordSteps DEF RequestGoes, Alters
    <3>2. Limit(planOf) \in Nat /\ Cardinality(Counted) \in Nat
      BY <2>1, LimitsAreNumbers, RowsAreFinite DEF RecordShape
    <3> QED
      BY <3>1, <3>2
  <2>3. SUFFICES ASSUME planOf' = planOf, ~(table = "users" /\ recordChanges' # recordChanges),
                        Cardinality(Counted') > Limit(planOf), Cardinality(Counted) <= Limit(planOf)
                 PROVE  \E p \in Writing : request'[p] = Idle /\ (WasOld(p) \/ Connects(p))
    BY <2>2 DEF Limit
  <2>4. ~(Counted' \subseteq Counted)
    BY <2>1, <2>2, <2>3, CountDoesNotGrow
  <2>5. record' # record
    BY <2>2, <2>4 DEF Counted, Active, There
  <2>6. ~(\E i \in DOMAIN record : RemoveRecord(i) \/ SetActive(i) \/ \E k \in RecordKeys : SetKey(i, k))
    <3>1. ASSUME NEW i \in DOMAIN record, RemoveRecord(i) PROVE FALSE
      <4>1. RowChange(i) /\ table # "users"
        BY <2>1, <3>1, RemovedRecord
      <4>2. There' \subseteq There
        BY <4>1 DEF There, RowChange
      <4> QED
        BY <2>2, <2>4, <4>1, <4>2 DEF Counted
    <3>2. ASSUME NEW i \in DOMAIN record, SetActive(i) PROVE FALSE
      BY <2>1, <2>3, <3>2, SwitchedActive DEF RecordShape
    <3>3. ASSUME NEW i \in DOMAIN record, NEW k \in RecordKeys, SetKey(i, k) PROVE FALSE
      <4>1. RowChange(i) /\ recordChanges' = recordChanges + 1
        BY <2>1, <2>5, <3>3, ChangedKey
      <4>2. There' \subseteq There
        BY <4>1 DEF There, RowChange
      <4> QED
        BY <2>2, <2>3, <2>4, <4>1, <4>2 DEF Counted
    <3> QED
      BY <3>1, <3>2, <3>3
  <2>7. PICK p \in Requests : WriteRecord(p)
    BY <1>1, <2>1, <2>5, <2>6, CheckedLimit, ConnectedPage, LookedForKey DEF RecordNext, ChangePlan
  <2>8. request[p].step = "write" /\ request'[p] = Idle /\ RecordsGrow(p)
    BY <2>1, <2>5, <2>7, WroteRecord DEF RecordsGrow, Writing
  <2>9. Cardinality(Counted') \in Nat /\ Cardinality(Counted') <= Cardinality(Counted) + 1
    BY <2>1, <2>2, <2>8, CountGrowsByOne
  <2>10. Cardinality(Counted) = Limit(planOf)
    BY <2>2, <2>3, <2>9
  <2>11. request[p].counted < Limit(request[p].plan) /\ (request[p].plan = NoPlan => table \in MetaTables)
    BY <2>1, <2>8 DEF CountsWereBelow
  <2> QED
    BY <2>8, <2>10, <2>11 DEF Writing, WasOld, Connects
<1>2. ASSUME RecordInv, UNCHANGED recordVars PROVE StaysKept
  <2>1. table' = table /\ planOf' = planOf /\ record' = record
    BY <1>2 DEF recordVars
  <2>2. Counted' = Counted /\ Limit(planOf)' = Limit(planOf)
    BY <2>1 DEF Counted, Active, There, Limit
  <2>3. Limit(planOf) \in Nat /\ Cardinality(Counted) \in Nat
    BY <1>2, LimitsAreNumbers, RowsAreFinite DEF RecordInv, RecordShape
  <2> QED
    BY <2>2, <2>3
<1>3. RecordInv /\ [RecordNext]_recordVars => StaysKept
  BY <1>1, <1>2
<1> QED
  BY <1>3, RecordsHold, PTL DEF RecordSpec, LimitIsKept

-----------------------------------------------------------------------------
(* The calendar of visits *)

(* What a step leaves of a visit it is not about. *)
LEMMA OtherVisit ==
  ASSUME NEW v, CallsOf(v)' = CallsOf(v), visit'[v] = visit[v], google'[v] = google[v], EventFits(v)
  PROVE  EventFits(v)'
<1>1. EventSettled(v) => EventSettled(v)'
  BY DEF EventSettled, Shows, NoEvent
<1>2. Telling(v) => Telling(v)'
  BY DEF Telling, Tells, Shows
<1>3. Removing(v) => Removing(v)'
  BY DEF Removing, NoEvent
<1> QED
  BY <1>1, <1>2, <1>3 DEF EventFits

LEMMA CallsStart ==
  ASSUME NEW v \in Visits, NEW r \in VisitRecord, NEW kind \in {"create", "update", "delete"}
  PROVE  /\ Call(kind, v, r) \in CallRecord /\ Call(kind, v, r).kind = kind /\ Call(kind, v, r).visit = v
         /\ Call(kind, v, r).agent = r.agent /\ Call(kind, v, r).edition = r.edition /\ Call(kind, v, r).step = "token"
BY DEF Call, CallRecord, VisitRecord

LEMMA VisitsBegin ==
  ASSUME NEW v \in Visits, NEW a \in Attendees, CalendarInv,
         visit[v].at = "unborn", visit' = [visit EXCEPT ![v] = Row("booked", a, 1, FALSE)],
         Create(v, a) \/ CreateByAi(v, a)
  PROVE  CalendarInv'
<1>1. /\ visit \in [Visits -> VisitRecord] /\ google \in [Visits -> [owner : Attendees, edition : Nat]]
      /\ calls \subseteq CallRecord /\ why \in [Visits -> SUBSET Reasons] /\ \A c \in calls : CallStands(c)
  BY DEF CalendarInv, CalendarShape
<1> DEFINE r == Row("booked", a, 1, FALSE)  c == Call("create", v, r)
<1>2. r \in VisitRecord /\ r.at = "booked" /\ r.agent = a /\ r.edition = 1
  BY DEF Row, VisitRecord
<1>3. visit' \in [Visits -> VisitRecord] /\ visit'[v] = r /\ \A w \in Visits \ {v} : visit'[w] = visit[w]
  BY Zenon, <1>1, <1>2
<1>4. UNCHANGED <<grant, revoked, google, edits, turns>>
  BY Zenon DEF Create, CreateByAi, connection, limits
<1>5. calls' = calls \/ (a # None /\ Create(v, a) /\ calls' = calls \cup {c})
  BY Zenon, <1>3 DEF Create, CreateByAi
<1>6. why' \in [Visits -> SUBSET Reasons] /\ \A w \in Visits \ {v} : why'[w] = why[w]
  BY Zenon, <1>1 DEF Create, CreateByAi, Blame, Reasons
<1>7. why'[v] = {} => why[v] = {} /\ Create(v, a) /\ a # None /\ calls' = calls \cup {c}
  BY Zenon, <1>1, <1>3 DEF Create, CreateByAi, Blame
<1>8. /\ c \in CallRecord /\ c.kind = "create" /\ c.visit = v /\ c.agent = a /\ c.edition = 1 /\ c.step = "token"
  BY Zenon, <1>2, CallsStart
<1> HIDE DEF r, c
<1>9. CalendarShape'
  <2>1. calls' \subseteq CallRecord
    BY <1>1, <1>5, <1>8
  <2>2. \A d \in calls' : CallStands(d)
    BY <1>1, <1>5, <1>8 DEF CallStands
  <2> QED
    BY Zenon, <1>3, <1>4, <1>6, <2>1, <2>2 DEF CalendarInv, CalendarShape
<1>10. ASSUME NEW w \in Visits \ {v}, why'[w] = {} PROVE EventFits(w)'
  <2>1. CallsOf(w)' = CallsOf(w)
    BY <1>5, <1>8 DEF CallsOf
  <2> QED
    BY Zenon, <1>3, <1>4, <1>6, <1>10, <2>1, OtherVisit DEF CalendarInv
<1>11. ASSUME why'[v] = {} PROVE EventFits(v)'
  <2>1. CallsOf(v) = {}
    BY <1>7, <1>11 DEF CalendarInv, EventFits, EventSettled, Telling, Tells, Removing
  <2>2. CallsOf(v)' = {c}
    BY <1>7, <1>8, <1>11, <2>1 DEF CallsOf
  <2>3. Tells(v, c)'
    BY Zenon, <1>2, <1>3, <1>7, <1>8, <1>11 DEF Tells
  <2>4. Telling(v)'
    BY <1>8, <2>2, <2>3 DEF Telling
  <2> QED
    BY <2>4 DEF EventFits
<1> QED
  BY <1>9, <1>10, <1>11 DEF CalendarInv

LEMMA VisitIsEdited ==
  ASSUME NEW v \in Visits, NEW a \in Attendees, CalendarInv, Update(v, a)
  PROVE  CalendarInv'
<1>1. /\ visit \in [Visits -> VisitRecord] /\ google \in [Visits -> [owner : Attendees, edition : Nat]]
      /\ calls \subseteq CallRecord /\ why \in [Visits -> SUBSET Reasons] /\ edits \in Nat
      /\ \A d \in calls : CallStands(d)
  BY DEF CalendarInv, CalendarShape
<1>2. visit[v] \in VisitRecord /\ visit[v].at = "booked"
  BY <1>1 DEF Update
<1>3. PICK r \in VisitRecord :
        /\ r = [visit[v] EXCEPT !.agent = a, !.edition = visit[v].edition + 1]
        /\ r.at = "booked" /\ r.agent = a /\ r.edition = visit[v].edition + 1 /\ r.event = visit[v].event
  <2>3. PICK n \in Nat : n = visit[v].edition + 1
    BY <1>2 DEF VisitRecord
  <2> DEFINE s == [visit[v] EXCEPT !.agent = a, !.edition = n]
  <2>4. s \in VisitRecord /\ s.at = "booked" /\ s.agent = a /\ s.edition = n /\ s.event = visit[v].event
    BY Zenon, <1>2, <2>3 DEF VisitRecord
  <2>1. /\ s \in VisitRecord /\ s.at = "booked" /\ s.agent = a /\ s.edition = visit[v].edition + 1
        /\ s.event = visit[v].event /\ s = [visit[v] EXCEPT !.agent = a, !.edition = visit[v].edition + 1]
    BY <2>3, <2>4
  <2> HIDE DEF s
  <2>2. \E r \in VisitRecord : r = [visit[v] EXCEPT !.agent = a, !.edition = visit[v].edition + 1] /\ r.at = "booked" /\ r.agent = a /\ r.edition = visit[v].edition + 1 /\ r.event = visit[v].event
    BY Zenon, <2>1
  <2> QED
    BY Zenon, <2>2
<1>4. PICK c \in CallRecord : /\ c = Call("update", v, r) /\ c.kind = "update" /\ c.visit = v /\ c.agent = a
                              /\ c.edition = r.edition /\ c.step = "token"
  <2>1. /\ Call("update", v, r) \in CallRecord /\ Call("update", v, r).kind = "update" /\ Call("update", v, r).visit = v
        /\ Call("update", v, r).agent = r.agent /\ Call("update", v, r).edition = r.edition
        /\ Call("update", v, r).step = "token"
    BY CallsStart
  <2> QED
    BY <1>3, <2>1
<1>5. /\ visit' = [visit EXCEPT ![v] = r]
      /\ calls' = (IF Sendable(r) THEN calls \cup {c} ELSE calls)
      /\ why' = [why EXCEPT ![v] =
             IF Sendable(r) /\ CallsOf(v) = {} /\ google[v].owner = a THEN {}
             ELSE why[v] \cup (IF CallsOf(v) = {} THEN {} ELSE {"overlap"})
                         \cup (IF a = visit[v].agent THEN {} ELSE {"moved"})]
      /\ UNCHANGED <<grant, revoked, google, turns>> /\ edits' = edits + 1
  BY <1>1, <1>3, <1>4 DEF Update, SentRow, Edit, connection
<1>6. Sendable(r) <=> r.event /\ a # None
  BY <1>3 DEF Sendable
<1>7. /\ visit' \in [Visits -> VisitRecord] /\ visit'[v] = r /\ \A w \in Visits \ {v} : visit'[w] = visit[w]
  BY <1>1, <1>3, <1>5
<1>8. why' \in [Visits -> SUBSET Reasons] /\ \A w \in Visits \ {v} : why'[w] = why[w]
  BY <1>1, <1>5 DEF Reasons
<1>9. why'[v] = {} => \/ Sendable(r) /\ CallsOf(v) = {} /\ google[v].owner = a
                      \/ why[v] = {} /\ CallsOf(v) = {} /\ a = visit[v].agent
  BY Zenon, <1>1, <1>5
<1>10. CalendarShape'
  <2>1. calls' \subseteq CallRecord
    BY <1>1, <1>4, <1>5
  <2>2. \A d \in calls' : CallStands(d)
    BY <1>1, <1>4, <1>5, <1>6 DEF CallStands
  <2> QED
    BY <1>1, <1>5, <1>7, <1>8, <2>1, <2>2 DEF CalendarInv, CalendarShape
<1>11. ASSUME NEW w \in Visits \ {v}, why'[w] = {} PROVE EventFits(w)'
  <2>1. CallsOf(w)' = CallsOf(w)
    BY <1>4, <1>5 DEF CallsOf
  <2> QED
    BY <1>5, <1>7, <1>8, <1>11, <2>1, OtherVisit DEF CalendarInv
<1>12. ASSUME why'[v] = {} PROVE EventFits(v)'
  <2>1. Sendable(r) /\ CallsOf(v) = {} /\ google[v].owner = a
    <3>1. CASE why[v] = {} /\ CallsOf(v) = {} /\ a = visit[v].agent
      <4>1. EventSettled(v)
        BY <3>1 DEF CalendarInv, EventFits, Telling, Removing
      <4> QED
        BY <1>2, <1>3, <1>6, <3>1, <4>1 DEF EventSettled, Shows
    <3> QED
      BY <1>9, <1>12, <3>1
  <2>2. CallsOf(v)' = {c}
    BY <1>4, <1>5, <2>1 DEF CallsOf
  <2>3. Tells(v, c)'
    BY <1>3, <1>4, <1>5, <1>6, <1>7, <2>1 DEF Tells
  <2>4. Telling(v)'
    BY <1>4, <2>2, <2>3 DEF Telling
  <2> QED
    BY <2>4 DEF EventFits
<1> QED
  BY <1>10, <1>11, <1>12 DEF CalendarInv

LEMMA VisitIsRemoved ==
  ASSUME NEW v \in Visits, CalendarInv, Remove(v)
  PROVE  CalendarInv'
<1>1. /\ visit \in [Visits -> VisitRecord] /\ google \in [Visits -> [owner : Attendees, edition : Nat]]
      /\ calls \subseteq CallRecord /\ why \in [Visits -> SUBSET Reasons] /\ edits \in Nat
      /\ \A e \in calls : CallStands(e)
  BY DEF CalendarInv, CalendarShape
<1>2. PICK r \in VisitRecord : r = visit[v] /\ r.at = "booked" /\ ~\E e \in CallsOf(v) : e.kind = "row"
  BY <1>1 DEF Remove
<1>3. PICK c \in CallRecord : c = Call("delete", v, r) /\ c.kind = "delete" /\ c.visit = v /\ c.agent = r.agent /\ c.step = "token"
  BY <1>2, CallsStart
<1>4. PICK d \in CallRecord : d = [Call("row", v, r) EXCEPT !.step = "store"] /\ d.kind = "row" /\ d.visit = v /\ d.step = "store"
  <2>1. Call("row", v, r) = [kind |-> "row", visit |-> v, agent |-> r.agent, edition |-> r.edition, step |-> "token", token |-> 0]
    BY DEF Call
  <2>2. r.agent \in Attendees /\ r.edition \in Nat
    BY DEF VisitRecord
  <2>3. Call("row", v, r) \in CallRecord /\ Call("row", v, r).kind = "row" /\ Call("row", v, r).visit = v
    BY <2>1, <2>2 DEF CallRecord
  <2> DEFINE e == [Call("row", v, r) EXCEPT !.step = "store"]
  <2>4. e \in CallRecord /\ e.kind = "row" /\ e.visit = v /\ e.step = "store"
    BY <2>3 DEF CallRecord
  <2> QED
    BY Zenon, <2>4
<1>5. /\ calls' = calls \cup {d} \cup (IF Sendable(r) THEN {c} ELSE {})
      /\ why' = [why EXCEPT ![v] = why[v] \cup (IF CallsOf(v) = {} THEN {} ELSE {"overlap"})]
      /\ UNCHANGED <<visit, grant, revoked, google, turns>> /\ edits' = edits + 1
  BY <1>1, <1>2, <1>3, <1>4 DEF Remove, Edit, connection, Blame
<1>6. Sendable(r) <=> r.event /\ r.agent # None
  BY DEF Sendable
<1>7. why' \in [Visits -> SUBSET Reasons] /\ \A w \in Visits \ {v} : why'[w] = why[w]
  BY <1>1, <1>5 DEF Reasons
<1>8. why'[v] = {} => why[v] = {} /\ CallsOf(v) = {}
  BY <1>1, <1>5
<1>9. CalendarShape'
  <2>1. calls' \subseteq CallRecord
    BY Zenon, <1>1, <1>3, <1>4, <1>5
  <2>2. \A e \in calls' : CallStands(e)
    BY Zenon, <1>1, <1>3, <1>4, <1>5, <1>6 DEF CallStands
  <2> QED
    BY <1>1, <1>5, <1>7, <2>1, <2>2 DEF CalendarInv, CalendarShape
<1>10. ASSUME NEW w \in Visits \ {v}, why'[w] = {} PROVE EventFits(w)'
  <2>1. CallsOf(w)' = CallsOf(w)
    BY Zenon, <1>3, <1>4, <1>5 DEF CallsOf
  <2> QED
    BY <1>5, <1>7, <1>10, <2>1, OtherVisit DEF CalendarInv
<1>11. ASSUME why'[v] = {} PROVE EventFits(v)'
  <2>1. EventSettled(v)
    BY <1>8, <1>11 DEF CalendarInv, EventFits, Telling, Removing
  <2>2. Sendable(r) /\ google[v].owner = r.agent
    BY <1>2, <1>6, <2>1 DEF EventSettled, Shows
  <2>3. CallsOf(v)' = {c, d}
    BY Zenon, <1>3, <1>4, <1>5, <1>8, <1>11, <2>2 DEF CallsOf
  <2>4. Removing(v)'
    BY <1>2, <1>3, <1>4, <1>5, <2>2, <2>3 DEF Removing
  <2> QED
    BY <2>4 DEF EventFits
<1> QED
  BY <1>9, <1>10, <1>11 DEF CalendarInv
-----------------------------------------------------------------------------
(* The calls under way *)

LEMMA CalendarFacts ==
  ASSUME CalendarInv
  PROVE  /\ visit \in [Visits -> VisitRecord] /\ grant \in [Agents -> Nat] /\ revoked \subseteq Nat \ {0}
         /\ google \in [Visits -> [owner : Attendees, edition : Nat]] /\ calls \subseteq CallRecord
         /\ why \in [Visits -> SUBSET Reasons] /\ edits \in Nat /\ turns \in Nat
         /\ \A c \in calls : CallStands(c) /\ c \in CallRecord /\ c.visit \in Visits
BY DEF CalendarInv, CalendarShape, CallRecord

(* A step of a call leaves the other visits as they are. *)
LEMMA OneCallMoves ==
  ASSUME CalendarInv, NEW c \in calls, CalendarShape',
         \A e : e.visit # c.visit => (e \in calls' <=> e \in calls),
         \A w \in Visits \ {c.visit} : visit'[w] = visit[w] /\ google'[w] = google[w] /\ why'[w] = why[w],
         why'[c.visit] = {} => EventFits(c.visit)'
  PROVE  CalendarInv'
<1>1. ASSUME NEW w \in Visits \ {c.visit}, why'[w] = {} PROVE EventFits(w)'
  <2>1. CallsOf(w)' = CallsOf(w)
    BY DEF CallsOf
  <2> QED
    BY <1>1, <2>1, OtherVisit DEF CalendarInv
<1> QED
  BY <1>1 DEF CalendarInv

LEMMA CallGoesOn ==
  ASSUME NEW c \in calls, c \in CallRecord, NEW d \in CallRecord, EventFits(c.visit), UNCHANGED <<visit, google>>,
         d.kind = c.kind, d.visit = c.visit, d.agent = c.agent, d.edition = c.edition, d.step # "store",
         calls' = (calls \ {c}) \cup {d}
  PROVE  EventFits(c.visit)'
<1> DEFINE v == c.visit
<1>1. c \in CallsOf(v) /\ CallsOf(v)' = (CallsOf(v) \ {c}) \cup {d}
  BY DEF CallsOf
<1>2. ~EventSettled(v)
  BY <1>1 DEF EventSettled
<1>3. CASE Telling(v)
  <2>1. CallsOf(v) = {c} /\ c.kind \in {"create", "update"} /\ Tells(v, c)
    BY <1>1, <1>3 DEF Telling
  <2>2. CallsOf(v)' = {d}
    BY <1>1, <2>1
  <2>3. Tells(v, d)'
    BY <2>1 DEF Tells
  <2>4. Telling(v)'
    BY <2>1, <2>2, <2>3 DEF Telling
  <2> QED
    BY <2>4 DEF EventFits
<1>4. CASE Removing(v)
  <2>1. \A e \in CallsOf(v) : e.kind = c.kind => e = c
    BY <1>1, <1>4 DEF Removing
  <2>2. \A e, f \in CallsOf(v)' : e.kind = f.kind => e = f
    BY <1>1, <1>4, <2>1 DEF Removing
  <2>3. (\E e \in CallsOf(v) : e.kind = "row") <=> (\E e \in CallsOf(v)' : e.kind = "row")
    BY <1>1
  <2>4. (\A e \in CallsOf(v)' : e.kind # "delete") => \A e \in CallsOf(v) : e.kind # "delete"
    BY <1>1
  <2>5. \A e \in CallsOf(v)' : e.kind \in {"row", "delete"} /\ (e.kind = "delete" => google[v].owner = e.agent)
    BY <1>1, <1>4 DEF Removing
  <2>6. Removing(v)'
    BY <1>1, <1>4, <2>2, <2>3, <2>4, <2>5 DEF Removing, NoEvent
  <2> QED
    BY <2>6 DEF EventFits
<1> QED
  BY <1>2, <1>3, <1>4 DEF EventFits

LEMMA Blamed ==
  ASSUME CalendarInv, NEW v \in Visits, NEW reasons \in SUBSET Reasons, Blame(v, reasons)
  PROVE  /\ why' \in [Visits -> SUBSET Reasons] /\ \A w \in Visits \ {v} : why'[w] = why[w]
         /\ why'[v] = why[v] \cup reasons
BY CalendarFacts DEF Blame

LEMMA TokenIsRead ==
  ASSUME CalendarInv, NEW c \in calls, ReadToken(c)
  PROVE  CalendarInv'
<1>1. c \in CallRecord /\ c.visit \in Visits /\ CallStands(c) /\ c.step = "token" /\ c.agent \in Attendees
  BY CalendarFacts DEF ReadToken, CallRecord
<1>2. UNCHANGED <<visit, grant, revoked, google, edits, turns, mishaps>>
  BY DEF ReadToken, connection, limits
<1>3. CASE grant[c.agent] = 0
  <2>1. calls' = calls \ {c} /\ Blame(c.visit, {"missed"})
    BY <1>3 DEF ReadToken, Ends
  <2>2. /\ why' \in [Visits -> SUBSET Reasons] /\ why'[c.visit] # {}
        /\ \A w \in Visits \ {c.visit} : why'[w] = why[w]
    BY <1>1, <2>1, Blamed DEF Reasons
  <2>3. CalendarShape'
    BY <1>2, <2>1, <2>2, CalendarFacts DEF CalendarShape, CallStands
  <2> QED
    <3>1. \A e : e.visit # c.visit => (e \in calls' <=> e \in calls)
      BY <2>1
    <3> QED
      BY <1>2, <2>2, <2>3, <3>1, OneCallMoves
<1>4. CASE grant[c.agent] # 0
  <2>1. c.agent \in Agents
    BY <1>1 DEF CallStands, Attendees
  <2>2. PICK t \in Nat : t = grant[c.agent]
    BY <2>1, CalendarFacts
  <2> DEFINE e == [c EXCEPT !.step = "refresh", !.token = t]
  <2>3. /\ e \in CallRecord /\ e.kind = c.kind /\ e.visit = c.visit /\ e.agent = c.agent /\ e.edition = c.edition
        /\ e.step = "refresh"
    BY Zenon, <1>1 DEF CallRecord
  <2>4. calls' = (calls \ {c}) \cup {e} /\ why' = why
    BY <1>4, <2>2 DEF ReadToken, Goes
  <2> HIDE DEF e
  <2>5. PICK d \in CallRecord : d = e
    BY <2>3
  <2>6. CallStands(d)
    BY <1>1, <2>3, <2>5 DEF CallStands
  <2>7. CalendarShape'
    BY <1>2, <2>4, <2>5, <2>6, CalendarFacts DEF CalendarShape, CallStands
  <2>8. EventFits(c.visit) => EventFits(c.visit)'
    BY <1>1, <1>2, <2>3, <2>4, <2>5, CallGoesOn
  <2>9. why'[c.visit] = {} => EventFits(c.visit)'
    BY <1>1, <2>4, <2>8 DEF CalendarInv
  <2> QED
    <3>1. \A f : f.visit # c.visit => (f \in calls' <=> f \in calls)
      BY <2>3, <2>4
    <3> QED
      BY <1>2, <2>4, <2>7, <2>9, <3>1, OneCallMoves
<1> QED
  BY <1>3, <1>4

LEMMA TokenIsRefreshed ==
  ASSUME CalendarInv, NEW c \in calls, Refresh(c)
  PROVE  CalendarInv'
<1>1. c \in CallRecord /\ c.visit \in Visits /\ CallStands(c) /\ c.step = "refresh"
  BY CalendarFacts DEF Refresh
<1>2. UNCHANGED <<visit, revoked, google, edits, turns, mishaps>>
  BY DEF Refresh, limits
<1>3. CASE c.token \in revoked
  <2>1. calls' = calls \ {c} /\ Blame(c.visit, {"missed"}) /\ grant' = [grant EXCEPT ![c.agent] = 0]
    BY <1>3 DEF Refresh, Ends
  <2>2. /\ why' \in [Visits -> SUBSET Reasons] /\ why'[c.visit] # {}
        /\ \A w \in Visits \ {c.visit} : why'[w] = why[w]
    BY <1>1, <2>1, Blamed DEF Reasons
  <2>3. CalendarShape'
    BY Zenon, <1>2, <2>1, <2>2, CalendarFacts DEF CalendarShape, CallStands
  <2> QED
    <3>1. \A e : e.visit # c.visit => (e \in calls' <=> e \in calls)
      BY <2>1
    <3> QED
      BY <1>2, <2>2, <2>3, <3>1, OneCallMoves
<1>4. CASE c.token \notin revoked
  <2> DEFINE e == [c EXCEPT !.step = "request"]
  <2>3. /\ e \in CallRecord /\ e.kind = c.kind /\ e.visit = c.visit /\ e.agent = c.agent /\ e.edition = c.edition
        /\ e.step = "request"
    BY <1>1 DEF CallRecord
  <2>4. calls' = (calls \ {c}) \cup {e} /\ why' = why /\ grant' = grant
    BY <1>4 DEF Refresh, Goes
  <2> HIDE DEF e
  <2>5. PICK d \in CallRecord : d = e
    BY <2>3
  <2>6. CallStands(d)
    BY <1>1, <2>3, <2>5 DEF CallStands
  <2>7. CalendarShape'
    BY <1>2, <2>4, <2>5, <2>6, CalendarFacts DEF CalendarShape, CallStands
  <2>8. EventFits(c.visit) => EventFits(c.visit)'
    BY <1>1, <1>2, <2>3, <2>4, <2>5, CallGoesOn
  <2>9. why'[c.visit] = {} => EventFits(c.visit)'
    BY <1>1, <2>4, <2>8 DEF CalendarInv
  <2> QED
    <3>1. \A f : f.visit # c.visit => (f \in calls' <=> f \in calls)
      BY <2>3, <2>4
    <3> QED
      BY <1>2, <2>4, <2>7, <2>9, <3>1, OneCallMoves
<1> QED
  BY <1>3, <1>4

LEMMA ConnectionIsDropped ==
  ASSUME CalendarInv, NEW c \in calls, AnswerIsError(c)
  PROVE  CalendarInv'
<1>1. /\ UNCHANGED <<visit, revoked, google, edits>> /\ turns' = turns + 1 /\ calls' = calls \ {c}
      /\ Blame(c.visit, {"missed"}) /\ grant' = [grant EXCEPT ![c.agent] = 0] /\ c.visit \in Visits
  BY CalendarFacts DEF AnswerIsError, Turn, Ends
<1>2. /\ why' \in [Visits -> SUBSET Reasons] /\ why'[c.visit] # {}
      /\ \A w \in Visits \ {c.visit} : why'[w] = why[w]
  BY <1>1, Blamed DEF Reasons
<1>3. turns' \in Nat
  BY <1>1, CalendarFacts
<1>4. CalendarShape'
  BY Zenon, <1>1, <1>2, <1>3, CalendarFacts DEF CalendarShape, CallStands
<1>5. \A e : e.visit # c.visit => (e \in calls' <=> e \in calls)
  BY <1>1
<1> QED
  BY <1>1, <1>2, <1>4, <1>5, OneCallMoves

LEMMA GoogleAnswers ==
  ASSUME CalendarInv, NEW c \in calls, google' = Applied(c)
  PROVE  /\ google' \in [Visits -> [owner : Attendees, edition : Nat]]
         /\ \A w \in Visits \ {c.visit} : google'[w] = google[w]
         /\ c.kind = "create" => google'[c.visit].owner = c.agent /\ google'[c.visit].edition = c.edition
         /\ c.kind = "update" /\ google[c.visit].owner = c.agent =>
              google'[c.visit].owner = c.agent /\ google'[c.visit].edition = c.edition
         /\ c.kind = "delete" /\ google[c.visit].owner = c.agent => google'[c.visit] = NoEvent
<1>1. c \in CallRecord /\ c.visit \in Visits /\ google \in [Visits -> [owner : Attendees, edition : Nat]]
  BY CalendarFacts
<1>2. /\ c.kind \in {"create", "update", "delete", "row"} /\ c.agent \in Attendees /\ c.edition \in Nat
      /\ google[c.visit] \in [owner : Attendees, edition : Nat]
  BY <1>1 DEF CallRecord
<1>3. NoEvent \in [owner : Attendees, edition : Nat]
  BY DEF NoEvent, Attendees
<1>4. CASE c.kind = "create"
  BY <1>1, <1>2, <1>4 DEF Applied
<1>5. CASE c.kind # "create" /\ google[c.visit].owner # c.agent
  BY <1>1, <1>5 DEF Applied
<1>6. CASE c.kind = "delete" /\ google[c.visit].owner = c.agent
  <2>1. google' = [google EXCEPT ![c.visit] = NoEvent]
    BY <1>6 DEF Applied
  <2> QED
    BY <1>1, <1>3, <1>6, <2>1
<1>7. CASE c.kind \notin {"create", "delete"} /\ google[c.visit].owner = c.agent
  <2> DEFINE e == [google[c.visit] EXCEPT !.edition = c.edition]
  <2>1. google' = [google EXCEPT ![c.visit] = e]
    BY Zenon, <1>1, <1>7 DEF Applied
  <2>2. e \in [owner : Attendees, edition : Nat] /\ e.owner = google[c.visit].owner /\ e.edition = c.edition
    BY <1>2
  <2> HIDE DEF e
  <2> QED
    BY <1>1, <1>7, <2>1, <2>2
<1> QED
  BY <1>2, <1>4, <1>5, <1>6, <1>7

LEMMA GoogleIsTold ==
  ASSUME CalendarInv, NEW c \in calls, Request(c)
  PROVE  CalendarInv'
<1> DEFINE v == c.visit
<1>1. c \in CallRecord /\ c.visit \in Visits /\ CallStands(c) /\ c.step = "request"
  BY CalendarFacts DEF Request
<1>2. UNCHANGED <<visit, grant, revoked, why, edits, turns>>
  BY DEF Request, connection, limits
<1>3. /\ google' \in [Visits -> [owner : Attendees, edition : Nat]]
      /\ \A w \in Visits \ {v} : google'[w] = google[w]
      /\ c.kind = "create" => google'[v].owner = c.agent /\ google'[v].edition = c.edition
      /\ c.kind = "update" /\ google[v].owner = c.agent => google'[v].owner = c.agent /\ google'[v].edition = c.edition
      /\ c.kind = "delete" /\ google[v].owner = c.agent => google'[v] = NoEvent
  BY GoogleAnswers DEF Request
<1>4. c \in CallsOf(v) /\ ~EventSettled(v)
  BY DEF CallsOf, EventSettled
<1>5. CASE c.kind = "create"
  <2> DEFINE e == [c EXCEPT !.step = "store"]
  <2>1. /\ e \in CallRecord /\ e.kind = c.kind /\ e.visit = c.visit /\ e.agent = c.agent /\ e.edition = c.edition
        /\ e.step = "store"
    BY <1>1 DEF CallRecord
  <2>2. calls' = (calls \ {c}) \cup {e}
    BY <1>5 DEF Request, Goes
  <2> HIDE DEF e
  <2>3. PICK d \in CallRecord : d = e
    BY <2>1
  <2>4. CallStands(d)
    BY <1>1, <1>5, <2>1, <2>3 DEF CallStands
  <2>5. CalendarShape'
    BY <1>2, <1>3, <2>2, <2>3, <2>4, CalendarFacts DEF CalendarShape, CallStands
  <2>6. ASSUME why[v] = {} PROVE EventFits(v)'
    <3>1. CallsOf(v) = {c} /\ Tells(v, c)
      BY <1>1, <1>4, <1>5, <2>6 DEF CalendarInv, EventFits, Telling, Removing
    <3>2. CallsOf(v)' = {d}
      BY <2>1, <2>2, <2>3, <3>1 DEF CallsOf
    <3>3. Tells(v, d)'
      BY <1>2, <1>3, <1>5, <2>1, <2>3, <3>1 DEF Tells, Shows
    <3>4. Telling(v)'
      BY <1>5, <2>1, <2>3, <3>2, <3>3 DEF Telling
    <3> QED
      BY <3>4 DEF EventFits
  <2>7. \A f : f.visit # c.visit => (f \in calls' <=> f \in calls)
    BY <2>1, <2>2
  <2> QED
    BY <1>2, <1>3, <2>5, <2>6, <2>7, OneCallMoves
<1>6. CASE c.kind # "create"
  <2>1. calls' = calls \ {c}
    BY <1>6 DEF Request, Ends
  <2>2. CalendarShape'
    BY <1>2, <1>3, <2>1, CalendarFacts DEF CalendarShape, CallStands
  <2>3. CallsOf(v)' = CallsOf(v) \ {c}
    BY <2>1 DEF CallsOf
  <2>4. ASSUME why[v] = {} PROVE EventFits(v)'
    <3>1. CASE Telling(v)
      <4>1. CallsOf(v) = {c} /\ c.kind = "update" /\ Tells(v, c)
        BY <1>4, <1>6, <3>1 DEF Telling
      <4>2. EventSettled(v)'
        BY <1>2, <1>3, <2>3, <4>1 DEF EventSettled, Tells, Shows
      <4> QED
        BY <4>2 DEF EventFits
    <3>2. CASE Removing(v)
      <4>1. c.kind = "delete" /\ google'[v] = NoEvent
        BY <1>1, <1>3, <1>4, <3>2 DEF Removing, CallStands
      <4>2. \A e \in CallsOf(v)' : e \in CallsOf(v) /\ e.kind = "row"
        BY <1>4, <2>3, <3>2, <4>1 DEF Removing
      <4>3. CASE CallsOf(v)' = {}
        <5>1. \A e \in CallsOf(v) : e = c
          BY <2>3, <4>3
        <5>2. visit[v].at = "gone"
          BY <3>2, <4>1, <5>1 DEF Removing
        <5>3. EventSettled(v)'
          BY <1>2, <4>1, <4>3, <5>2 DEF EventSettled, NoEvent
        <5> QED
          BY <5>3 DEF EventFits
      <4>4. CASE CallsOf(v)' # {}
        <5>1. (\E e \in CallsOf(v) : e.kind = "row") /\ (\E e \in CallsOf(v)' : e.kind = "row")
          BY <4>2, <4>4
        <5>2. visit'[v].at = "booked"
          BY <1>2, <3>2, <5>1 DEF Removing
        <5>3. \A e, f \in CallsOf(v)' : e.kind = f.kind => e = f
          BY <3>2, <4>2 DEF Removing
        <5>4. Removing(v)'
          BY <4>1, <4>2, <4>4, <5>1, <5>2, <5>3 DEF Removing, NoEvent
        <5> QED
          BY <5>4 DEF EventFits
      <4> QED
        BY <4>3, <4>4
    <3> QED
      BY <1>1, <1>4, <2>4, <3>1, <3>2 DEF CalendarInv, EventFits
  <2>5. \A f : f.visit # c.visit => (f \in calls' <=> f \in calls)
    BY <2>1
  <2> QED
    BY <1>2, <1>3, <2>2, <2>4, <2>5, OneCallMoves
<1> QED
  BY <1>5, <1>6

LEMMA EventIsStored ==
  ASSUME CalendarInv, NEW c \in calls, Store(c)
  PROVE  CalendarInv'
<1> DEFINE v == c.visit
<1>1. c \in CallRecord /\ v \in Visits /\ c.step = "store" /\ c.kind = "create" /\ calls' = calls \ {c}
  BY CalendarFacts DEF Store, Ends
<1>2. UNCHANGED <<grant, revoked, google, why, edits, turns>>
  BY DEF Store, connection, limits
<1>3. visit' = IF visit[v].at = "booked" THEN [visit EXCEPT ![v].event = TRUE] ELSE visit
  BY DEF Store
<1>4. visit \in [Visits -> VisitRecord]
  BY CalendarFacts
<1>5. /\ visit' \in [Visits -> VisitRecord] /\ \A w \in Visits \ {v} : visit'[w] = visit[w]
      /\ visit[v].at = "booked" => /\ visit'[v].at = "booked" /\ visit'[v].event = TRUE
                                   /\ visit'[v].agent = visit[v].agent /\ visit'[v].edition = visit[v].edition
  <2>1. CASE visit[v].at = "booked"
    <3> DEFINE r == [visit[v] EXCEPT !.event = TRUE]
    <3>1. /\ r \in VisitRecord /\ r.at = visit[v].at /\ r.event = TRUE
          /\ r.agent = visit[v].agent /\ r.edition = visit[v].edition
      BY Zenon, <1>1, <1>4 DEF VisitRecord
    <3>2. visit' = [visit EXCEPT ![v] = r]
      BY <1>1, <1>3, <1>4, <2>1
    <3> HIDE DEF r
    <3> QED
      BY <1>1, <1>4, <2>1, <3>1, <3>2
  <2>2. CASE visit[v].at # "booked"
    BY <1>3, <1>4, <2>2
  <2> QED
    BY Zenon, <2>1, <2>2
<1>6. CalendarShape'
  BY <1>1, <1>2, <1>5, CalendarFacts DEF CalendarShape, CallStands
<1>7. ASSUME why[v] = {} PROVE EventFits(v)'
  <2>1. c \in CallsOf(v)
    BY DEF CallsOf
  <2>2. CallsOf(v) = {c} /\ Tells(v, c)
    BY <1>1, <1>7, <2>1 DEF CalendarInv, EventFits, EventSettled, Telling, Removing
  <2>3. CallsOf(v)' = {}
    BY <1>1, <2>2 DEF CallsOf
  <2>4. EventSettled(v)'
    BY <1>1, <1>2, <1>5, <2>2, <2>3 DEF EventSettled, Tells, Shows
  <2> QED
    BY <2>4 DEF EventFits
<1>8. \A f : f.visit # c.visit => (f \in calls' <=> f \in calls)
  BY <1>1
<1> QED
  BY <1>2, <1>5, <1>6, <1>7, <1>8, OneCallMoves

LEMMA RowIsDeleted ==
  ASSUME CalendarInv, NEW c \in calls, DeleteRow(c)
  PROVE  CalendarInv'
<1> DEFINE v == c.visit
<1>1. c \in CallRecord /\ v \in Visits /\ c.kind = "row" /\ calls' = calls \ {c}
  BY CalendarFacts DEF DeleteRow, Ends
<1>2. UNCHANGED <<grant, revoked, google, why, edits, turns>>
  BY DEF DeleteRow, connection, limits
<1>3. visit' = [visit EXCEPT ![v].at = "gone"] /\ visit \in [Visits -> VisitRecord]
  BY CalendarFacts DEF DeleteRow
<1>4. visit' \in [Visits -> VisitRecord] /\ visit'[v].at = "gone" /\ \A w \in Visits \ {v} : visit'[w] = visit[w]
  <2>1. PICK r \in VisitRecord : r = [visit[v] EXCEPT !.at = "gone"] /\ r.at = "gone"
    BY <1>1, <1>3 DEF VisitRecord
  <2>2. visit' = [visit EXCEPT ![v] = r]
    BY <1>1, <1>3, <2>1
  <2> QED
    BY <1>1, <1>3, <2>1, <2>2
<1>5. CalendarShape'
  BY <1>1, <1>2, <1>4, CalendarFacts DEF CalendarShape, CallStands
<1>6. c \in CallsOf(v) /\ CallsOf(v)' = CallsOf(v) \ {c}
  BY <1>1 DEF CallsOf
<1>7. ASSUME why[v] = {} PROVE EventFits(v)'
  <2>1. Removing(v)
    BY <1>1, <1>6, <1>7 DEF CalendarInv, EventFits, EventSettled, Telling
  <2>2. \A e \in CallsOf(v)' : e \in CallsOf(v) /\ e.kind = "delete"
    BY <1>1, <1>6, <2>1 DEF Removing
  <2>3. CASE CallsOf(v)' = {}
    <3>1. \A e \in CallsOf(v) : e = c
      BY <1>6, <2>3
    <3>2. google[v] = NoEvent
      BY <1>1, <2>1, <3>1 DEF Removing
    <3>3. EventSettled(v)'
      BY <1>2, <1>4, <2>3, <3>2 DEF EventSettled, NoEvent
    <3> QED
      BY <3>3 DEF EventFits
  <2>4. CASE CallsOf(v)' # {}
    <3>1. \A e, f \in CallsOf(v)' : e.kind = f.kind => e = f
      BY <2>1, <2>2 DEF Removing
    <3>2. \A e \in CallsOf(v)' : google'[v].owner = e.agent
      BY <1>2, <2>1, <2>2 DEF Removing
    <3>3. Removing(v)'
      BY <1>4, <2>2, <2>4, <3>1, <3>2 DEF Removing
    <3> QED
      BY <3>3 DEF EventFits
  <2> QED
    BY <2>3, <2>4
<1>8. \A f : f.visit # c.visit => (f \in calls' <=> f \in calls)
  BY <1>1
<1> QED
  BY <1>2, <1>4, <1>5, <1>7, <1>8, OneCallMoves

LEMMA CallIsLost ==
  ASSUME CalendarInv, NEW c \in calls, CallFails(c) \/ ReplyLost(c)
  PROVE  CalendarInv'
<1>1. c \in CallRecord /\ c.visit \in Visits
  BY CalendarFacts
<1>2. UNCHANGED <<visit, grant, revoked, edits, turns>> /\ calls' = calls \ {c} /\ Blame(c.visit, {"missed"})
  BY DEF CallFails, ReplyLost, connection, Mishap, AfterNetworkError, Ends
<1>3. /\ google' \in [Visits -> [owner : Attendees, edition : Nat]]
      /\ \A w \in Visits \ {c.visit} : google'[w] = google[w]
  BY GoogleAnswers, CalendarFacts DEF CallFails, ReplyLost
<1>4. /\ why' \in [Visits -> SUBSET Reasons] /\ why'[c.visit] # {}
      /\ \A w \in Visits \ {c.visit} : why'[w] = why[w]
  BY <1>1, <1>2, Blamed DEF Reasons
<1>5. CalendarShape'
  BY <1>2, <1>3, <1>4, CalendarFacts DEF CalendarShape, CallStands
<1>6. \A f : f.visit # c.visit => (f \in calls' <=> f \in calls)
  BY <1>2
<1> QED
  BY <1>2, <1>3, <1>4, <1>5, <1>6, OneCallMoves

LEMMA CallsAreForgotten ==
  ASSUME CalendarInv, ApiRestart
  PROVE  CalendarInv'
<1>1. /\ calls' = {} /\ why' = [v \in Visits |-> IF CallsOf(v) = {} THEN why[v] ELSE why[v] \cup {"missed"}]
      /\ UNCHANGED <<visit, grant, revoked, google, edits, turns>>
  BY DEF ApiRestart, connection, Mishap
<1>2. why' \in [Visits -> SUBSET Reasons]
  BY <1>1, CalendarFacts DEF Reasons
<1>3. CalendarShape'
  BY <1>1, <1>2, CalendarFacts DEF CalendarShape
<1>4. ASSUME NEW v \in Visits, why'[v] = {} PROVE EventFits(v)'
  <2>1. CallsOf(v) = {} /\ CallsOf(v)' = {} /\ why[v] = {}
    BY <1>1, <1>4 DEF CallsOf
  <2>2. EventFits(v)
    BY <2>1 DEF CalendarInv
  <2> QED
    BY Zenon, <1>1, <2>1, <2>2, OtherVisit
<1> QED
  BY <1>3, <1>4 DEF CalendarInv

LEMMA LeadIsDeleted ==
  ASSUME CalendarInv, NEW S \in SUBSET Visits, LoseVisits(S)
  PROVE  CalendarInv'
<1>1. /\ visit' = [v \in Visits |-> IF v \in S THEN [visit[v] EXCEPT !.at = "gone"] ELSE visit[v]]
      /\ why' = [v \in Visits |-> IF v \in S THEN why[v] \cup {"orphaned"} ELSE why[v]]
      /\ UNCHANGED <<grant, revoked, google, calls, turns>> /\ edits' = edits + 1
  BY DEF LoseVisits, connection, Edit
<1>2. why' \in [Visits -> SUBSET Reasons] /\ edits' \in Nat
  BY <1>1, CalendarFacts DEF Reasons
<1>3. ASSUME NEW v \in Visits PROVE [visit[v] EXCEPT !.at = "gone"] \in VisitRecord
  BY CalendarFacts DEF VisitRecord
<1>4. visit' \in [Visits -> VisitRecord]
  BY <1>1, <1>3, CalendarFacts
<1>5. CalendarShape'
  BY Zenon, <1>1, <1>2, <1>4, CalendarFacts DEF CalendarShape, CallStands
<1>6. ASSUME NEW v \in Visits, why'[v] = {} PROVE EventFits(v)'
  <2>1. v \notin S
    BY <1>1, <1>6
  <2>2. CallsOf(v)' = CallsOf(v) /\ visit'[v] = visit[v] /\ why[v] = {}
    BY <1>1, <1>6, <2>1 DEF CallsOf
  <2>3. EventFits(v)
    BY <2>2 DEF CalendarInv
  <2> QED
    BY Zenon, <1>1, <2>2, <2>3, OtherVisit
<1> QED
  BY <1>5, <1>6 DEF CalendarInv

LEMMA ConnectionTurns ==
  ASSUME CalendarInv, NEW a \in Agents, Callback(a) \/ Disconnect(a) \/ Withdraw(a)
  PROVE  CalendarInv'
<1>1. UNCHANGED <<visit, google, calls, why, edits>> /\ turns' = turns + 1
  BY DEF Callback, Disconnect, Withdraw, Turn
<1>2. turns' \in Nat /\ grant' \in [Agents -> Nat] /\ revoked' \subseteq Nat \ {0}
  <2>1. CASE Callback(a)
    BY <1>1, <2>1, CalendarFacts DEF Callback
  <2>2. CASE Disconnect(a)
    BY <1>1, <2>2, CalendarFacts DEF Disconnect
  <2>3. CASE Withdraw(a)
    BY <1>1, <2>3, CalendarFacts DEF Withdraw
  <2> QED
    BY <2>1, <2>2, <2>3
<1>3. CalendarShape'
  BY <1>1, <1>2, CalendarFacts DEF CalendarShape, CallStands
<1>4. ASSUME NEW v \in Visits, why'[v] = {} PROVE EventFits(v)'
  <2>1. CallsOf(v)' = CallsOf(v)
    BY <1>1 DEF CallsOf
  <2> QED
    BY <1>1, <1>4, <2>1, OtherVisit DEF CalendarInv
<1> QED
  BY <1>3, <1>4 DEF CalendarInv

-----------------------------------------------------------------------------
(* From an empty calendar on. *)

LEMMA CalendarBegins ==
  ASSUME CalendarInit
  PROVE  CalendarInv
<1>1. /\ visit = [v \in Visits |-> Row("unborn", None, 0, FALSE)] /\ google = [v \in Visits |-> NoEvent]
      /\ grant = [a \in Agents |-> 0] /\ revoked = {} /\ calls = {} /\ why = [v \in Visits |-> {}]
      /\ edits = 0 /\ turns = 0
  BY DEF CalendarInit
<1>2. /\ Row("unborn", None, 0, FALSE) \in VisitRecord /\ Row("unborn", None, 0, FALSE).at = "unborn"
      /\ NoEvent \in [owner : Attendees, edition : Nat]
  BY DEF Row, VisitRecord, NoEvent, Attendees
<1>3. /\ visit \in [Visits -> VisitRecord] /\ google \in [Visits -> [owner : Attendees, edition : Nat]]
      /\ \A v \in Visits : visit[v].at = "unborn" /\ google[v] = NoEvent
  BY Zenon, <1>1, <1>2
<1>4. CalendarShape
  BY Zenon, <1>1, <1>3 DEF CalendarShape
<1>5. \A v \in Visits : EventSettled(v)
  BY Zenon, <1>1, <1>3 DEF EventSettled, CallsOf
<1> QED
  BY <1>4, <1>5 DEF CalendarInv, EventFits

LEMMA CalendarGoesOn ==
  ASSUME CalendarInv, [CalendarNext]_calendarVars
  PROVE  CalendarInv'
<1>1. ASSUME NEW v \in Visits, NEW a \in Agents \cup {None}, Create(v, a) \/ CreateByAi(v, a) \/ Update(v, a)
      PROVE  CalendarInv'
  <2>1. CASE Create(v, a) \/ CreateByAi(v, a)
    <3>1. visit[v].at = "unborn" /\ visit' = [visit EXCEPT ![v] = Row("booked", a, 1, FALSE)]
      BY Zenon, <2>1 DEF Create, CreateByAi
    <3> QED
      BY Zenon, <2>1, <3>1, VisitsBegin DEF Attendees
  <2>2. CASE Update(v, a)
    BY <2>2, VisitIsEdited DEF Attendees
  <2> QED
    BY <1>1, <2>1, <2>2
<1>2. ASSUME NEW c \in calls,
             \/ ReadToken(c) \/ Refresh(c) \/ AnswerIsError(c) \/ Request(c)
             \/ Store(c) \/ DeleteRow(c) \/ CallFails(c) \/ ReplyLost(c)
      PROVE  CalendarInv'
  BY <1>2, TokenIsRead, TokenIsRefreshed, ConnectionIsDropped, GoogleIsTold, EventIsStored, RowIsDeleted, CallIsLost
<1>3. CASE UNCHANGED calendarVars
  <2>1. UNCHANGED <<visit, grant, revoked, google, calls, why, edits, turns>>
    BY <1>3 DEF calendarVars
  <2>2. CalendarShape'
    BY <2>1 DEF CalendarInv, CalendarShape, CallStands
  <2>3. ASSUME NEW v \in Visits, why'[v] = {} PROVE EventFits(v)'
    <3>1. CallsOf(v)' = CallsOf(v)
      BY <2>1 DEF CallsOf
    <3> QED
      BY <2>1, <2>3, <3>1, OtherVisit DEF CalendarInv
  <2> QED
    BY <2>2, <2>3 DEF CalendarInv
<1> QED
  BY <1>1, <1>2, <1>3, VisitIsRemoved, LeadIsDeleted, CallsAreForgotten, ConnectionTurns DEF CalendarNext, Book, Underway

LEMMA CalendarHolds == CalendarSpec => []CalendarInv
<1>1. CalendarInit => CalendarInv
  BY CalendarBegins
<1>2. CalendarInv /\ [CalendarNext]_calendarVars => CalendarInv'
  BY CalendarGoesOn
<1> QED
  BY <1>1, <1>2, PTL DEF CalendarSpec

(* When nothing of a visit is under way, its event shows the visit as it is, in *)
(* the calendar of its agent, and a removed visit has none; unless there is a   *)
(* reason why they may disagree (EventAgrees).                                  *)
THEOREM EventsAgree == CalendarSpec => []EventAgrees
<1>1. ASSUME CalendarInv, NEW v \in Visits, CallsOf(v) = {}, why[v] = {}
      PROVE  google[v] = IF visit[v].at = "booked" THEN [owner |-> visit[v].agent, edition |-> visit[v].edition]
                         ELSE NoEvent
  <2>1. EventSettled(v)
    BY <1>1 DEF CalendarInv, EventFits, Telling, Removing
  <2>2. google[v] \in [owner : Attendees, edition : Nat]
    BY <1>1, CalendarFacts
  <2>3. google[v] = [owner |-> google[v].owner, edition |-> google[v].edition]
    BY <2>2
  <2> QED
    BY <2>1, <2>3 DEF EventSettled, Shows
<1>2. CalendarInv => EventAgrees
  BY <1>1 DEF EventAgrees
<1> QED
  BY <1>2, CalendarHolds, PTL

-----------------------------------------------------------------------------
(* Connections: the tokens that calls hold are no newer than the one stored. *)

LEMMA LimitsStay ==
  ASSUME LimitsHold, CalendarInv, edits' \in {edits, edits + 1}, edits' <= MaxEdits, UNCHANGED <<turns, grant, revoked>>,
         \A v \in Visits : visit'[v].edition <= edits' + 1,
         \A c \in calls' : c \in calls \/ c.step # "refresh"
  PROVE  LimitsHold'
BY DEF LimitsHold, TokenStands

LEMMA EditionsStay ==
  ASSUME LimitsHold, CalendarInv, NEW n \in {edits, edits + 1}, NEW v \in Visits, NEW r,
         visit' = [visit EXCEPT ![v] = r], r.edition <= n + 1
  PROVE  \A w \in Visits : visit'[w].edition <= n + 1
<1>1. \A w \in Visits : visit[w].edition \in Nat /\ visit[w].edition <= edits + 1
  BY CalendarFacts DEF LimitsHold, VisitRecord
<1>2. edits \in Nat /\ edits + 1 <= n + 1
  BY CalendarFacts
<1>3. \A w \in Visits : visit[w].edition <= n + 1
  BY <1>1, <1>2
<1> QED
  BY <1>3, CalendarFacts

LEMMA RequestsKeepLimits ==
  ASSUME LimitsHold, CalendarInv, NEW v \in Visits, NEW a \in Attendees,
         Create(v, a) \/ CreateByAi(v, a) \/ Update(v, a) \/ Remove(v)
  PROVE  LimitsHold'
<1>1. edits \in Nat /\ visit[v].edition \in Nat /\ visit[v].edition <= edits + 1 /\ edits <= MaxEdits
  BY CalendarFacts DEF LimitsHold, VisitRecord
<1>2. UNCHANGED <<turns, grant, revoked>>
  BY Zenon DEF Create, CreateByAi, Update, Remove, Edit, connection, limits
<1>3. \A c \in calls' : c \in calls \/ c.step # "refresh"
  <2>1. \A kind, r : Call(kind, v, r).step = "token"
    BY DEF Call
  <2>2. \A r : [Call("row", v, r) EXCEPT !.step = "store"].step = "store"
    BY DEF Call
  <2>3. CASE Create(v, a) \/ CreateByAi(v, a)
    <3>1. calls' = calls \/ calls' = calls \cup {Call("create", v, visit'[v])}
      BY Zenon, <2>3 DEF Create, CreateByAi
    <3> QED
      BY <2>1, <3>1
  <2>4. CASE Update(v, a)
    <3>1. PICK r : calls' = calls \/ calls' = calls \cup {Call("update", v, r)}
      BY <2>4 DEF Update, SentRow
    <3> QED
      BY <2>1, <3>1
  <2>5. CASE Remove(v)
    <3> DEFINE e == [Call("row", v, visit[v]) EXCEPT !.step = "store"]
    <3>1. \A d \in calls' : d \in calls \/ d = e \/ d = Call("delete", v, visit[v])
      BY <2>5 DEF Remove
    <3>2. e.step # "refresh"
      BY <2>2
    <3> HIDE DEF e
    <3> QED
      BY <2>1, <3>1, <3>2
  <2> QED
    BY <2>3, <2>4, <2>5
<1>4. CASE Create(v, a) \/ CreateByAi(v, a)
  <2>1. edits' = edits /\ visit' = [visit EXCEPT ![v] = Row("booked", a, 1, FALSE)]
    BY Zenon, <1>4 DEF Create, CreateByAi, limits
  <2>2. Row("booked", a, 1, FALSE).edition <= edits + 1
    BY <1>1 DEF Row
  <2>3. \A w \in Visits : visit'[w].edition <= edits + 1
    BY Zenon, <2>1, <2>2, EditionsStay
  <2> QED
    BY Zenon, <1>1, <1>2, <1>3, <2>1, <2>3, LimitsStay
<1>5. CASE Update(v, a)
  <2> DEFINE n == visit[v].edition + 1
             r == [visit[v] EXCEPT !.agent = a, !.edition = n]
  <2>1. edits' = edits + 1 /\ visit' = [visit EXCEPT ![v] = r] /\ edits < MaxEdits
    BY <1>5, CalendarFacts DEF Update, Edit
  <2>2. r.edition = visit[v].edition + 1
    <3>1. visit[v] \in VisitRecord
      BY CalendarFacts
    <3> HIDE DEF n
    <3>2. r.edition = n
      BY <3>1 DEF VisitRecord
    <3> QED
      BY <3>2 DEF n
  <2> HIDE DEF r
  <2>3. r.edition <= (edits + 1) + 1
    BY <1>1, <2>2
  <2>4. \A w \in Visits : visit'[w].edition <= (edits + 1) + 1
    BY Zenon, <2>1, <2>3, EditionsStay
  <2>5. edits' <= MaxEdits
    BY <1>1, <2>1, CalendarAssumption
  <2> QED
    BY <1>2, <1>3, <2>1, <2>4, <2>5, LimitsStay
<1>6. CASE Remove(v)
  <2>1. edits' = edits + 1 /\ visit' = visit /\ edits < MaxEdits
    BY <1>6 DEF Remove, Edit
  <2>2. \A w \in Visits : visit'[w].edition <= edits' + 1
    <3>1. \A w \in Visits : visit[w].edition \in Nat /\ visit[w].edition <= edits + 1
      BY CalendarFacts DEF LimitsHold, VisitRecord
    <3> QED
      BY <1>1, <2>1, <3>1
  <2>3. edits' <= MaxEdits
    BY <1>1, <2>1, CalendarAssumption
  <2> QED
    BY <1>2, <1>3, <2>1, <2>2, <2>3, LimitsStay
<1> QED
  BY <1>4, <1>5, <1>6

LEMMA CallsKeepLimits ==
  ASSUME LimitsHold, CalendarInv, NEW c \in calls,
         ReadToken(c) \/ Refresh(c) \/ Request(c) \/ Store(c) \/ DeleteRow(c) \/ CallFails(c) \/ ReplyLost(c)
  PROVE  LimitsHold'
<1>1. /\ c \in CallRecord /\ c.visit \in Visits /\ CallStands(c) /\ c.agent \in Attendees /\ edits \in Nat
      /\ \A w \in Visits : visit[w].edition \in Nat /\ visit[w].edition <= edits + 1
  BY CalendarFacts DEF CallRecord, LimitsHold, VisitRecord
<1>2. edits' = edits /\ turns' = turns /\ revoked' = revoked /\ edits' <= MaxEdits
  BY DEF ReadToken, Refresh, Request, Store, DeleteRow, CallFails, ReplyLost, connection, limits, Mishap, LimitsHold
<1>3. \A w \in Visits : visit'[w].edition <= edits' + 1
  <2>1. CASE Store(c) \/ DeleteRow(c)
    <3>1. \/ visit' = visit
          \/ visit' = [visit EXCEPT ![c.visit].event = TRUE]
          \/ visit' = [visit EXCEPT ![c.visit].at = "gone"]
      BY <2>1 DEF Store, DeleteRow
    <3>2. \A w \in Visits : visit[w] \in VisitRecord
      BY CalendarFacts
    <3>3. \A w \in Visits : visit'[w].edition = visit[w].edition
      <4>1. CASE visit' = [visit EXCEPT ![c.visit].event = TRUE]
        BY <3>2, <4>1, CalendarFacts DEF VisitRecord
      <4>2. CASE visit' = [visit EXCEPT ![c.visit].at = "gone"]
        BY <3>2, <4>2, CalendarFacts DEF VisitRecord
      <4> QED
        BY <3>1, <4>1, <4>2
    <3> QED
      BY <1>1, <1>2, <3>3
  <2>2. CASE ~(Store(c) \/ DeleteRow(c))
    <3>1. visit' = visit
      BY <2>2 DEF ReadToken, Refresh, Request, CallFails, ReplyLost
    <3> QED
      BY <1>1, <1>2, <3>1
  <2> QED
    BY <2>1, <2>2
<1>4. CASE ReadToken(c)
  <2>1. grant' = grant /\ c.step = "token"
    BY <1>4 DEF ReadToken, connection
  <2>2. CASE grant[c.agent] = 0
    <3>1. \A d \in calls' : d \in calls
      BY <1>4, <2>2 DEF ReadToken, Ends
    <3> QED
      BY <1>2, <1>3, <2>1, <3>1, LimitsStay
  <2>3. CASE grant[c.agent] # 0
    <3>1. c.agent \in Agents
      BY <1>1, <2>1 DEF CallStands, Attendees
    <3>2. PICK t \in Nat : t = grant[c.agent] /\ t <= turns
      BY <3>1, CalendarFacts DEF LimitsHold
    <3> DEFINE e == [c EXCEPT !.step = "refresh", !.token = t]
    <3>3. e.token = t /\ e.agent = c.agent
      BY <1>1 DEF CallRecord
    <3>4. calls' = (calls \ {c}) \cup {e}
      BY <1>4, <2>3, <3>2 DEF ReadToken, Goes
    <3> HIDE DEF e
    <3>5. TokenStands(e)'
      BY <1>2, <2>1, <3>2, <3>3 DEF TokenStands
    <3>6. \A d \in calls : TokenStands(d)'
      BY <1>2, <2>1 DEF LimitsHold, TokenStands
    <3> QED
      BY <1>2, <1>3, <2>1, <3>4, <3>5, <3>6 DEF LimitsHold
  <2> QED
    BY <2>2, <2>3
<1>5. CASE Refresh(c)
  <2>1. CASE c.token \in revoked
    <3>1. calls' = calls \ {c} /\ grant' = [grant EXCEPT ![c.agent] = 0]
      BY <1>5, <2>1 DEF Refresh, Ends
    <3>2. \A a \in Agents : grant'[a] = 0 \/ grant'[a] = grant[a]
      BY <3>1, CalendarFacts
    <3>3. ASSUME NEW d \in calls' PROVE TokenStands(d)'
      <4>1. d \in calls /\ TokenStands(d)
        BY <3>1, <3>3 DEF LimitsHold
      <4>2. d.step = "refresh" => d.agent \in Agents
        BY <4>1, CalendarFacts DEF CallStands, CallRecord, Attendees
      <4> QED
        BY <1>2, <3>2, <4>1, <4>2 DEF TokenStands
    <3>4. \A a \in Agents : grant'[a] <= turns'
      BY <1>2, <3>2, CalendarFacts DEF LimitsHold
    <3> QED
      BY <1>2, <1>3, <3>3, <3>4 DEF LimitsHold
  <2>2. CASE c.token \notin revoked
    <3>1. grant' = grant /\ calls' = (calls \ {c}) \cup {[c EXCEPT !.step = "request"]}
      BY <1>5, <2>2 DEF Refresh, Goes
    <3>2. [c EXCEPT !.step = "request"].step = "request"
      BY <1>1 DEF CallRecord
    <3>3. \A d \in calls' : d \in calls \/ d.step # "refresh"
      BY Zenon, <3>1, <3>2
    <3> QED
      BY <1>2, <1>3, <3>1, <3>3, LimitsStay
  <2> QED
    BY <2>1, <2>2
<1>6. CASE Request(c) \/ Store(c) \/ DeleteRow(c) \/ CallFails(c) \/ ReplyLost(c)
  <2>1. grant' = grant
    BY <1>6 DEF Request, Store, DeleteRow, CallFails, ReplyLost, connection, AfterNetworkError
  <2>2. calls' = calls \ {c} \/ calls' = (calls \ {c}) \cup {[c EXCEPT !.step = "store"]}
    BY <1>6 DEF Request, Store, DeleteRow, CallFails, ReplyLost, Ends, Goes
  <2>3. [c EXCEPT !.step = "store"].step = "store"
    BY <1>1 DEF CallRecord
  <2>4. \A d \in calls' : d \in calls \/ d.step # "refresh"
    BY Zenon, <2>2, <2>3
  <2> QED
    BY <1>2, <1>3, <2>1, <2>4, LimitsStay
<1> QED
  BY <1>4, <1>5, <1>6

LEMMA ErrorsKeepLimits ==
  ASSUME LimitsHold, CalendarInv, NEW c \in calls, AnswerIsError(c)
  PROVE  LimitsHold'
<1>1. /\ UNCHANGED <<visit, revoked, edits>> /\ turns' = turns + 1 /\ turns < MaxTurns /\ turns \in Nat
      /\ calls' = calls \ {c} /\ grant' = [grant EXCEPT ![c.agent] = 0]
  BY CalendarFacts DEF AnswerIsError, Turn, Ends
<1>2. turns' <= MaxTurns
  BY <1>1, CalendarAssumption
<1>3. \A a \in Agents : grant[a] \in Nat /\ grant[a] <= turns /\ (grant'[a] = 0 \/ grant'[a] = grant[a])
  BY <1>1, CalendarFacts DEF LimitsHold
<1>4. \A a \in Agents : grant'[a] <= turns'
  BY <1>1, <1>3
<1>5. \A t \in revoked' : t \in Nat /\ t <= turns
  BY <1>1, CalendarFacts DEF LimitsHold
<1>6. \A t \in revoked' : t <= turns'
  BY <1>1, <1>5
<1>7. ASSUME NEW d \in calls' PROVE TokenStands(d)'
  <2>1. d \in calls /\ TokenStands(d) /\ d \in CallRecord /\ CallStands(d)
    BY <1>1, <1>7, CalendarFacts DEF LimitsHold
  <2>2. d.token \in Nat /\ (d.step = "refresh" => d.agent \in Agents)
    BY <2>1 DEF CallStands, CallRecord, Attendees
  <2> QED
    BY <1>1, <1>3, <2>1, <2>2 DEF TokenStands
<1> QED
  BY <1>1, <1>2, <1>4, <1>6, <1>7 DEF LimitsHold

LEMMA DeletionKeepsLimits ==
  ASSUME LimitsHold, CalendarInv, NEW S \in SUBSET Visits, LoseVisits(S)
  PROVE  LimitsHold'
<1>1. /\ visit' = [v \in Visits |-> IF v \in S THEN [visit[v] EXCEPT !.at = "gone"] ELSE visit[v]]
      /\ UNCHANGED <<grant, revoked, calls, turns>> /\ edits' = edits + 1 /\ edits < MaxEdits /\ edits \in Nat
  BY CalendarFacts DEF LoseVisits, connection, Edit
<1>2. ASSUME NEW v \in Visits
      PROVE  [visit[v] EXCEPT !.at = "gone"].edition = visit[v].edition /\ visit[v].edition \in Nat
  BY CalendarFacts DEF VisitRecord
<1>3. \A v \in Visits : visit'[v].edition = visit[v].edition
  BY <1>1, <1>2
<1>4. edits' <= MaxEdits
  BY <1>1, CalendarAssumption
<1>5. \A v \in Visits : visit'[v].edition <= edits' + 1
  BY <1>1, <1>2, <1>3 DEF LimitsHold
<1> QED
  BY <1>1, <1>4, <1>5, LimitsStay

LEMMA TurnsKeepLimits ==
  ASSUME LimitsHold, CalendarInv, NEW a \in Agents, Callback(a) \/ Disconnect(a) \/ Withdraw(a)
  PROVE  LimitsHold'
<1>1. UNCHANGED <<visit, google, calls, why, edits>> /\ turns' = turns + 1 /\ turns < MaxTurns /\ turns \in Nat
  BY CalendarFacts DEF Callback, Disconnect, Withdraw, Turn
<1>2. turns' <= MaxTurns /\ turns <= turns'
  BY <1>1, CalendarAssumption
<1>3. /\ \A b \in Agents : grant'[b] = grant[b] \/ grant'[b] = 0 \/ grant'[b] = turns + 1
      /\ \A t \in revoked' : t \in revoked \/ \E b \in Agents : t = grant[b]
  <2>1. CASE Callback(a)
    BY <2>1, CalendarFacts DEF Callback
  <2>2. CASE Disconnect(a)
    BY <2>2, CalendarFacts DEF Disconnect
  <2>3. CASE Withdraw(a)
    BY <2>3, CalendarFacts DEF Withdraw
  <2> QED
    BY <2>1, <2>2, <2>3
<1>4. \A b \in Agents : grant[b] \in Nat /\ grant[b] <= turns
  BY CalendarFacts DEF LimitsHold
<1>5. \A b \in Agents : grant'[b] <= turns'
  BY <1>1, <1>3, <1>4
<1>6. \A t \in revoked : t \in Nat /\ t <= turns
  BY CalendarFacts DEF LimitsHold
<1>7. \A t \in revoked' : t <= turns'
  BY <1>1, <1>3, <1>4, <1>6
<1>8. ASSUME NEW d \in calls' PROVE TokenStands(d)'
  <2>1. d \in calls /\ TokenStands(d) /\ d \in CallRecord /\ CallStands(d)
    BY <1>1, <1>8, CalendarFacts DEF LimitsHold
  <2>2. d.token \in Nat /\ (d.step = "refresh" => d.agent \in Agents)
    BY <2>1 DEF CallStands, CallRecord, Attendees
  <2>3. d.step = "refresh" => d.token <= turns'
    BY <1>1, <2>1, <2>2 DEF TokenStands
  <2>4. d.step = "refresh" => grant'[d.agent] = 0 \/ d.token <= grant'[d.agent]
    BY <1>1, <1>3, <1>4, <2>1, <2>2 DEF TokenStands
  <2> QED
    BY <2>3, <2>4 DEF TokenStands
<1> QED
  BY <1>1, <1>2, <1>5, <1>7, <1>8 DEF LimitsHold

LEMMA LimitsGoOn ==
  ASSUME LimitsHold, CalendarInv, [CalendarNext]_calendarVars
  PROVE  LimitsHold'
<1>1. CASE ApiRestart
  <2>1. /\ UNCHANGED <<visit, grant, revoked, turns, edits>> /\ calls' = {} /\ edits' \in {edits, edits + 1}
        /\ edits' <= MaxEdits /\ \A v \in Visits : visit'[v].edition <= edits' + 1
    BY <1>1 DEF ApiRestart, connection, Mishap, LimitsHold
  <2> QED
    BY <2>1, LimitsStay
<1>2. CASE UNCHANGED calendarVars
  BY <1>2 DEF calendarVars, LimitsHold, TokenStands
<1>3. CASE Book \/ \E v \in Visits : Remove(v)
  <2>1. None \in Attendees /\ Attendees = Agents \cup {None}
    BY DEF Attendees
  <2> QED
    BY <1>3, <2>1, RequestsKeepLimits DEF Book
<1> QED
  BY <1>1, <1>2, <1>3, CallsKeepLimits, ErrorsKeepLimits, DeletionKeepsLimits, TurnsKeepLimits DEF CalendarNext, Underway

LEMMA LimitsAlwaysHold == CalendarSpec => [](CalendarInv /\ LimitsHold)
<1>1. CalendarInit => CalendarInv /\ LimitsHold
  <2>1. ASSUME CalendarInit PROVE LimitsHold
    <3>1. /\ visit = [v \in Visits |-> Row("unborn", None, 0, FALSE)] /\ grant = [a \in Agents |-> 0] /\ revoked = {}
          /\ calls = {} /\ edits = 0 /\ turns = 0
      BY <2>1 DEF CalendarInit
    <3>2. Row("unborn", None, 0, FALSE).edition = 0
      BY DEF Row
    <3>3. \A v \in Visits : visit[v].edition = 0
      BY Zenon, <3>1, <3>2
    <3>4. 0 <= MaxEdits /\ 0 <= MaxTurns
      BY CalendarAssumption
    <3>5. \A a \in Agents : grant[a] = 0
      BY <3>1
    <3> QED
      <4>1. edits <= MaxEdits /\ turns <= MaxTurns
        BY <3>1, <3>4
      <4>4. edits = 0
        BY <3>1
      <4>2. \A v \in Visits : visit[v].edition <= edits + 1
        BY <3>3, <4>4
      <4>3. \A a \in Agents : grant[a] <= turns
        BY <3>1, <3>5
      <4> QED
        BY Zenon, <3>1, <4>1, <4>2, <4>3 DEF LimitsHold
  <2> QED
    BY <2>1, CalendarBegins
<1>2. CalendarInv /\ LimitsHold /\ [CalendarNext]_calendarVars => (CalendarInv /\ LimitsHold)'
  BY CalendarGoesOn, LimitsGoOn
<1> QED
  BY <1>1, <1>2, PTL DEF CalendarSpec

(* The rows of visits and the connections of agents stay within their types,    *)
(* and what waits for Google is about a visit of an agent (CalendarTypeOK).     *)
THEOREM CalendarTypeCorrect == CalendarSpec => []CalendarTypeOK
<1>1. ASSUME CalendarInv, LimitsHold PROVE CalendarTypeOK
  <2>1. ASSUME NEW v \in Visits
        PROVE  /\ visit[v] \in [at : {"unborn", "booked", "gone"}, agent : Agents \cup {None},
                                edition : 0..(MaxEdits + 1), event : BOOLEAN]
               /\ why[v] \subseteq Reasons /\ google[v].owner \in Agents \cup {None}
    <3>1. visit[v] \in VisitRecord /\ visit[v].edition <= edits + 1 /\ edits <= MaxEdits /\ edits \in Nat
      BY <1>1, CalendarFacts DEF LimitsHold
    <3>2. visit[v].edition \in Nat
      BY <3>1 DEF VisitRecord
    <3>3. visit[v].edition \in 0..(MaxEdits + 1)
      BY <3>1, <3>2, CalendarAssumption
    <3>4. visit[v] \in [at : {"unborn", "booked", "gone"}, agent : Agents \cup {None},
                        edition : 0..(MaxEdits + 1), event : BOOLEAN]
      BY <3>1, <3>3 DEF VisitRecord, Attendees
    <3> QED
      BY <1>1, <3>4, CalendarFacts DEF Attendees
  <2>2. turns \in Nat /\ turns <= MaxTurns
    BY <1>1, CalendarFacts DEF LimitsHold
  <2>3. ASSUME NEW a \in Agents PROVE grant[a] \in 0..MaxTurns
    <3>1. grant[a] \in Nat /\ grant[a] <= turns
      BY <1>1, CalendarFacts DEF LimitsHold
    <3> QED
      BY <2>2, <3>1, CalendarAssumption
  <2>4. revoked \subseteq 1..MaxTurns
    <3>1. ASSUME NEW t \in revoked PROVE t \in 1..MaxTurns
      <4>1. t \in Nat /\ t # 0 /\ t <= turns
        BY <1>1, CalendarFacts DEF LimitsHold
      <4> QED
        BY <2>2, <4>1, CalendarAssumption
    <3> QED
      BY <3>1
  <2>5. \A c \in calls : c.agent = None => c.kind = "row"
    BY <1>1, CalendarFacts DEF CallStands
  <2>6. visit = [v \in Visits |-> visit[v]] /\ grant = [a \in Agents |-> grant[a]]
    BY <1>1, CalendarFacts
  <2> QED
    BY <2>1, <2>3, <2>4, <2>5, <2>6 DEF CalendarTypeOK
<1>2. CalendarInv /\ LimitsHold => CalendarTypeOK
  BY <1>1
<1> QED
  BY <1>2, LimitsAlwaysHold, PTL

(* A connection whose token Google accepts ends by its user, by an error that   *)
(* the token endpoint answers, or by a call that still holds an older token,    *)
(* which Google refuses: a call that is thrown, a lost answer, a restart and    *)
(* the edits of visits leave it (ConnectionIsKept).                             *)
THEOREM ConnectionsAreKept == CalendarSpec => ConnectionIsKept
<1> DEFINE Keeps == \A a \in Agents : grant[a] \notin revoked \cup {0} /\ grant'[a] = 0 /\ turns' = turns =>
                      \E c \in calls : c.agent = a /\ c.token \in revoked /\ c.token < grant[a]
<1>1. ASSUME CalendarInv, LimitsHold, CalendarNext PROVE Keeps
  <2>1. SUFFICES ASSUME NEW a \in Agents, grant[a] \notin revoked \cup {0}, grant'[a] = 0, turns' = turns
                 PROVE  \E c \in calls : c.agent = a /\ c.token \in revoked /\ c.token < grant[a]
    OBVIOUS
  <2>2. grant' # grant /\ turns \in Nat
    BY <1>1, <2>1, CalendarFacts
  <2>3. PICK c \in calls : Refresh(c)
    <3>1. turns' # turns + 1
      BY <2>1, <2>2
    <3>2. \A b : ~Callback(b) /\ ~Disconnect(b) /\ ~Withdraw(b)
      BY <3>1 DEF Callback, Disconnect, Withdraw, Turn
    <3>3. \A v, b : ~Create(v, b) /\ ~CreateByAi(v, b) /\ ~Update(v, b) /\ ~Remove(v) /\ ~LoseVisits(v)
      BY Zenon, <2>2 DEF Create, CreateByAi, Update, Remove, LoseVisits, connection
    <3>6. \A c : ~AnswerIsError(c)
      BY <3>1 DEF AnswerIsError, Turn
    <3>4. \A c : ~ReadToken(c) /\ ~Request(c) /\ ~Store(c) /\ ~DeleteRow(c) /\ ~CallFails(c) /\ ~ReplyLost(c)
      BY <2>2 DEF ReadToken, Request, Store, DeleteRow, CallFails, ReplyLost, connection, AfterNetworkError
    <3>5. ~ApiRestart
      BY <2>2 DEF ApiRestart, connection
    <3> QED
      BY <1>1, <3>2, <3>3, <3>4, <3>5, <3>6 DEF CalendarNext, Book, Underway
  <2>4. c.token \in revoked /\ grant' = [grant EXCEPT ![c.agent] = 0] /\ c.step = "refresh"
    BY <2>2, <2>3 DEF Refresh
  <2>5. c.agent = a
    BY <1>1, <2>1, <2>4, CalendarFacts
  <2>6. c.token <= grant[a] /\ c.token # grant[a] /\ grant[a] \in Nat /\ c.token \in Nat
    BY <1>1, <2>1, <2>4, <2>5, CalendarFacts DEF LimitsHold, TokenStands
  <2>7. c.token < grant[a]
    BY <2>6
  <2> QED
    BY <2>4, <2>5, <2>7
<1>2. CalendarInv /\ LimitsHold /\ [CalendarNext]_calendarVars => [Keeps]_calendarVars
  BY <1>1
<1> QED
  BY <1>2, LimitsAlwaysHold, PTL DEF CalendarSpec, ConnectionIsKept

-----------------------------------------------------------------------------
(* The reminders of visits *)

-----------------------------------------------------------------------------

(* Sets of passes that differ in one pass at most. *)
LEMMA PassCounts ==
  ASSUME NEW p \in Passes
  PROVE  \A S, T \in SUBSET Passes :
           (\A q \in Passes \ {p} : q \in S <=> q \in T) =>
             /\ Cardinality(S) \in Nat /\ Cardinality(T) \in Nat
             /\ (p \in S <=> p \in T) => Cardinality(T) = Cardinality(S)
             /\ p \in S /\ p \notin T => Cardinality(T) = Cardinality(S) - 1
             /\ p \notin S /\ p \in T => Cardinality(T) = Cardinality(S) + 1
<1> SUFFICES ASSUME NEW S \in SUBSET Passes, NEW T \in SUBSET Passes, \A q \in Passes \ {p} : q \in S <=> q \in T
             PROVE  /\ Cardinality(S) \in Nat /\ Cardinality(T) \in Nat
                    /\ (p \in S <=> p \in T) => Cardinality(T) = Cardinality(S)
                    /\ p \in S /\ p \notin T => Cardinality(T) = Cardinality(S) - 1
                    /\ p \notin S /\ p \in T => Cardinality(T) = Cardinality(S) + 1
  OBVIOUS
<1>1. IsFiniteSet(S) /\ IsFiniteSet(T)
  BY FS_Subset, ReminderAssumption
<1>2. Cardinality(S) \in Nat /\ Cardinality(T) \in Nat
  BY <1>1, FS_CardinalityType
<1>3. ASSUME p \in S <=> p \in T PROVE Cardinality(T) = Cardinality(S)
  <2>1. S = T
    BY <1>3
  <2> QED
    BY <2>1
<1>4. ASSUME p \in S, p \notin T PROVE Cardinality(T) = Cardinality(S) - 1
  <2>1. T = S \ {p}
    BY <1>4
  <2> QED
    BY <2>1, <1>1, <1>4, FS_RemoveElement
<1>5. ASSUME p \notin S, p \in T PROVE Cardinality(T) = Cardinality(S) + 1
  <2>1. T = S \cup {p}
    BY <1>5
  <2> QED
    BY <2>1, <1>1, <1>5, FS_AddElement
<1> QED
  BY <1>2, <1>3, <1>4, <1>5

LEMMA NoneCounted == \A S \in SUBSET Passes : Cardinality(S) \in Nat /\ (Cardinality(S) = 0 <=> S = {})
<1>1. \A S \in SUBSET Passes : IsFiniteSet(S)
  BY FS_Subset, ReminderAssumption
<1> QED
  BY <1>1, FS_EmptySet, FS_CardinalityType

LEMMA EmptyList == <<>> \in VisitLists /\ Members(<<>>) = {}
BY DEF VisitLists, Members

(* A visit done with is in hand no more, the others stay. *)
LEMMA RestOfList ==
  ASSUME NEW x \in VisitLists, x # <<>>
  PROVE  /\ Head(x) \in Booked /\ Head(x) \in Members(x) /\ Members(x) \subseteq Booked
         /\ Tail(x) \in VisitLists /\ Members(Tail(x)) = Members(x) \ {Head(x)}
         /\ Len(x) = 1 <=> Tail(x) = <<>>
<1>1. x \in Seq(Booked) /\ Len(x) \in Nat /\ Len(x) >= 1 /\ Head(x) = x[1] /\ DOMAIN x = 1..Len(x)
  BY DEF VisitLists
<1>2. /\ Tail(x) \in Seq(Booked) /\ Len(Tail(x)) = Len(x) - 1 /\ DOMAIN Tail(x) = 1..(Len(x) - 1)
      /\ \A n \in 1..(Len(x) - 1) : Tail(x)[n] = x[n + 1]
  BY <1>1
<1>3. Tail(x) \in VisitLists
  <2>1. \A m, n \in 1..Len(Tail(x)) : Tail(x)[m] = Tail(x)[n] => m = n
    <3> SUFFICES ASSUME NEW m \in 1..Len(Tail(x)), NEW n \in 1..Len(Tail(x)), Tail(x)[m] = Tail(x)[n] PROVE m = n
      OBVIOUS
    <3>1. x[m + 1] = x[n + 1] /\ m + 1 \in 1..Len(x) /\ n + 1 \in 1..Len(x)
      BY <1>1, <1>2
    <3>2. m + 1 = n + 1
      BY <3>1 DEF VisitLists
    <3> QED
      BY <3>2, <1>2
  <2> QED
    BY Zenon, <2>1, <1>2 DEF VisitLists
<1>4. Members(Tail(x)) \subseteq Members(x) \ {Head(x)}
  <2> SUFFICES ASSUME NEW n \in 1..(Len(x) - 1) PROVE Tail(x)[n] \in Members(x) /\ Tail(x)[n] # Head(x)
    BY <1>2 DEF Members
  <2>1. Tail(x)[n] = x[n + 1] /\ n + 1 \in 1..Len(x) /\ 1 \in 1..Len(x) /\ n + 1 # 1
    BY <1>1, <1>2
  <2>2. x[n + 1] # x[1]
    BY <2>1 DEF VisitLists
  <2> QED
    BY <2>1, <2>2, <1>1 DEF Members
<1>5. Members(x) \ {Head(x)} \subseteq Members(Tail(x))
  <2> SUFFICES ASSUME NEW n \in 1..Len(x), x[n] # Head(x) PROVE x[n] \in Members(Tail(x))
    BY <1>1 DEF Members
  <2>1. n - 1 \in 1..(Len(x) - 1) /\ (n - 1) + 1 = n
    BY <1>1
  <2>2. Tail(x)[n - 1] = x[n]
    BY <2>1, <1>2
  <2> QED
    BY Zenon, <2>1, <2>2, <1>2 DEF Members
<1>6. Len(x) = 1 <=> Tail(x) = <<>>
  BY <1>1, <1>2
<1>7. Head(x) \in Booked /\ Head(x) \in Members(x) /\ Members(x) \subseteq Booked
  BY <1>1 DEF Members
<1> QED
  BY <1>3, <1>4, <1>5, <1>6, <1>7

(* The visits listed, each once. *)
LEMMA ListedOnce ==
  ASSUME NEW S \in SUBSET Booked, NEW x \in Orders(S)
  PROVE  x \in VisitLists /\ Members(x) = S
<1>1. IsFiniteSet(S)
  BY FS_Subset, ReminderAssumption
<1>2. Cardinality(S) \in Nat /\ x \in [1..Cardinality(S) -> S] /\ Members(x) = S
  BY <1>1, FS_CardinalityType DEF Orders
<1> DEFINE c == Cardinality(S)
<1>3. IsFiniteSet(1..c) /\ Cardinality(1..c) = c
  BY <1>2, FS_Interval
<1>4. x \in Surjection(1..c, S)
  BY <1>2 DEF Surjection, Members
<1>5. x \in Injection(1..c, S)
  BY <1>3, <1>4, FS_SurjSameCardinalityImpliesInj
<1>6. x \in Seq(Booked) /\ Len(x) = c
  BY <1>2
<1> QED
  BY <1>2, <1>5, <1>6 DEF VisitLists, Injection, IsInjective

(* Who has something in hand has its first visit in hand. *)
LEMMA FirstInHand ==
  ASSUME ReminderShape
  PROVE  \A p \in Passes : pc[p] # "idle" =>
           /\ hand[p] \in VisitLists /\ hand[p] # <<>> /\ First(p) = Head(hand[p])
           /\ First(p) \in Booked /\ First(p) \in Members(hand[p])
<1> SUFFICES ASSUME NEW p \in Passes, pc[p] # "idle"
             PROVE  /\ hand[p] \in VisitLists /\ hand[p] # <<>> /\ First(p) = Head(hand[p])
                    /\ First(p) \in Booked /\ First(p) \in Members(hand[p])
  OBVIOUS
<1>1. hand[p] \in VisitLists /\ hand[p] # <<>>
  BY DEF ReminderShape
<1> QED
  BY <1>1, RestOfList DEF First

(* One pass goes on: what there is of a visit at the others stays. *)
LEMMA OnePass ==
  ASSUME NEW p \in Passes, NEW v \in Booked,
         \A q \in Passes \ {p} : hand'[q] = hand[q] /\ pc'[q] = pc[q]
  PROVE  /\ Cardinality(Holders(v)) \in Nat
         /\ Cardinality(Holders(v)') = Cardinality(Holders(v)) - OneIf(p \in Holders(v)) + OneIf(p \in Holders(v)')
         /\ Cardinality(WillTell(v)) \in Nat
         /\ Cardinality(WillTell(v)') = Cardinality(WillTell(v)) - OneIf(p \in WillTell(v)) + OneIf(p \in WillTell(v)')
         /\ Cardinality(HaveTold(v)) \in Nat
         /\ Cardinality(HaveTold(v)') = Cardinality(HaveTold(v)) - OneIf(p \in HaveTold(v)) + OneIf(p \in HaveTold(v)')
         /\ (p \in HaveTold(v) <=> p \in HaveTold(v)') => HaveTold(v)' = HaveTold(v)
         /\ \A x \in {"write", "queue", "flag"} :
              /\ Cardinality(AtStep(v, x)) \in Nat
              /\ Cardinality(AtStep(v, x)') =
                   Cardinality(AtStep(v, x)) - OneIf(p \in AtStep(v, x)) + OneIf(p \in AtStep(v, x)')
              /\ (p \in AtStep(v, x) <=> p \in AtStep(v, x)') => AtStep(v, x)' = AtStep(v, x)
<1>1. \A q \in Passes \ {p} : First(q)' = First(q)
  BY DEF First
<1>2. /\ Holders(v) \in SUBSET Passes /\ Holders(v)' \in SUBSET Passes
      /\ \A q \in Passes \ {p} : q \in Holders(v) <=> q \in Holders(v)'
  BY DEF Holders
<1>3. /\ WillTell(v) \in SUBSET Passes /\ WillTell(v)' \in SUBSET Passes
      /\ \A q \in Passes \ {p} : q \in WillTell(v) <=> q \in WillTell(v)'
  BY <1>1, <1>2 DEF WillTell
<1>4. /\ HaveTold(v) \in SUBSET Passes /\ HaveTold(v)' \in SUBSET Passes
      /\ \A q \in Passes \ {p} : q \in HaveTold(v) <=> q \in HaveTold(v)'
  BY <1>1 DEF HaveTold
<1>5. \A S, T \in SUBSET Passes :
        (\A q \in Passes \ {p} : q \in S <=> q \in T) =>
          Cardinality(S) \in Nat /\ Cardinality(T) = Cardinality(S) - OneIf(p \in S) + OneIf(p \in T)
  <2> SUFFICES ASSUME NEW S \in SUBSET Passes, NEW T \in SUBSET Passes, \A q \in Passes \ {p} : q \in S <=> q \in T
               PROVE  Cardinality(S) \in Nat /\ Cardinality(T) = Cardinality(S) - OneIf(p \in S) + OneIf(p \in T)
    OBVIOUS
  <2> QED
    BY PassCounts DEF OneIf
<1>6. ASSUME NEW x \in {"write", "queue", "flag"}
      PROVE  /\ AtStep(v, x) \in SUBSET Passes /\ AtStep(v, x)' \in SUBSET Passes
             /\ \A q \in Passes \ {p} : q \in AtStep(v, x) <=> q \in AtStep(v, x)'
  BY <1>1 DEF AtStep
<1>7. Cardinality(Holders(v)) \in Nat
      /\ Cardinality(Holders(v)') = Cardinality(Holders(v)) - OneIf(p \in Holders(v)) + OneIf(p \in Holders(v)')
  BY <1>2, <1>5
<1>8. Cardinality(WillTell(v)) \in Nat
      /\ Cardinality(WillTell(v)') = Cardinality(WillTell(v)) - OneIf(p \in WillTell(v)) + OneIf(p \in WillTell(v)')
  BY <1>3, <1>5
<1>9. Cardinality(HaveTold(v)) \in Nat
      /\ Cardinality(HaveTold(v)') = Cardinality(HaveTold(v)) - OneIf(p \in HaveTold(v)) + OneIf(p \in HaveTold(v)')
  BY <1>4, <1>5
<1>10. ASSUME NEW x \in {"write", "queue", "flag"}
       PROVE  /\ Cardinality(AtStep(v, x)) \in Nat
              /\ Cardinality(AtStep(v, x)') =
                   Cardinality(AtStep(v, x)) - OneIf(p \in AtStep(v, x)) + OneIf(p \in AtStep(v, x)')
  BY <1>6, <1>5
<1>11. \A S, T \in SUBSET Passes :
         (\A q \in Passes \ {p} : q \in S <=> q \in T) /\ (p \in S <=> p \in T) => T = S
  OBVIOUS
<1>12. (p \in HaveTold(v) <=> p \in HaveTold(v)') => HaveTold(v)' = HaveTold(v)
  BY <1>4, <1>11
<1>13. \A x \in {"write", "queue", "flag"} : (p \in AtStep(v, x) <=> p \in AtStep(v, x)') => AtStep(v, x)' = AtStep(v, x)
  BY <1>6, <1>11
<1> QED
  BY <1>7, <1>8, <1>9, <1>10, <1>12, <1>13

(* No pass goes on. *)
LEMMA NoPass ==
  ASSUME UNCHANGED <<hand, pc>>, NEW v \in Booked
  PROVE  /\ Holders(v)' = Holders(v) /\ WillTell(v)' = WillTell(v) /\ HaveTold(v)' = HaveTold(v)
         /\ \A x \in {"write", "queue", "flag"} : AtStep(v, x)' = AtStep(v, x)
BY DEF Holders, WillTell, HaveTold, AtStep, First

LEMMA OneMore ==
  \A f \in Tallies : \A S : More(f, S) \in Tallies /\ \A v \in Booked : More(f, S)[v] = f[v] + OneIf(v \in S)
BY DEF Tallies, More, OneIf

-----------------------------------------------------------------------------

LEMMA TickFits ==
  ASSUME ReminderInv, NEW p \in Passes, Tick(p)
  PROVE  ReminderInv'
<1> PICK x \in Orders(Upcoming) :
      hand' = [hand EXCEPT ![p] = x] /\ pc' = [pc EXCEPT ![p] = IF x = <<>> THEN "idle" ELSE "notify"]
  BY Zenon DEF Tick
<1>1. Upcoming \in SUBSET Booked /\ x \in VisitLists /\ Members(x) = Upcoming
  BY ListedOnce DEF Upcoming, InHour
<1> DEFINE t == IF x = <<>> THEN "idle" ELSE "notify"
<1>2. ReminderShape /\ pc[p] = "idle" /\ hand[p] = <<>> /\ t \in {"idle", "notify"} /\ (x = <<>> <=> t = "idle")
  BY DEF ReminderInv, ReminderShape, Tick
<1>3. hand' = [hand EXCEPT ![p] = x] /\ pc' = [pc EXCEPT ![p] = t]
  OBVIOUS
<1> HIDE DEF t
<1>4. /\ \A q \in Passes \ {p} : hand'[q] = hand[q] /\ pc'[q] = pc[q]
      /\ hand'[p] = x /\ pc'[p] = t
  BY <1>2, <1>3 DEF ReminderShape
<1>5. \A v \in Booked : due'[v] = (IF due[v] = 0 THEN 0 ELSE due[v] - 1) /\ due'[v] \in 0..(Window + MaxEarly + 1)
  BY <1>2, ReminderAssumption DEF ReminderShape, Tick, Later
<1>6. /\ doubled' \in Tallies
      /\ \A v \in Booked : doubled'[v] = doubled[v] + OneIf(v \in Upcoming \cap UNION {Members(hand[q]) : q \in Passes})
  BY <1>2, OneMore DEF Tick, ReminderShape
<1>7. ReminderShape'
  <2>1. hand' \in [Passes -> VisitLists] /\ pc' \in [Passes -> {"idle", "notify", "write", "queue", "flag"}]
        /\ \A q \in Passes : hand'[q] = <<>> <=> pc'[q] = "idle"
    BY <1>1, <1>2, <1>3, <1>4 DEF ReminderShape
  <2>2. due' \in [Booked -> 0..(Window + MaxEarly + 1)]
    BY <1>5 DEF Tick, Later
  <2> QED
    BY <2>1, <2>2, <1>2, <1>6 DEF ReminderShape, Tick, sent
<1>8. ASSUME NEW v \in Booked PROVE VisitFits(v)'
  <2>1. /\ p \notin Holders(v) /\ p \notin WillTell(v) /\ p \notin HaveTold(v)
        /\ \A y \in {"write", "queue", "flag"} : p \notin AtStep(v, y) /\ p \notin AtStep(v, y)'
        /\ p \notin HaveTold(v)'
    BY <1>2, <1>4, EmptyList DEF Holders, WillTell, HaveTold, AtStep
  <2>2. p \in Holders(v)' <=> v \in Upcoming
    BY <1>1, <1>4 DEF Holders
  <2>3. p \in WillTell(v)' <=> v \in Upcoming
    <3>1. v \in Upcoming => x # <<>>
      BY <1>1, EmptyList
    <3> QED
      BY <2>2, <3>1, <1>2, <1>4 DEF WillTell
  <2>4. /\ Cardinality(Holders(v)) \in Nat
        /\ Cardinality(Holders(v)') = Cardinality(Holders(v)) + OneIf(v \in Upcoming)
        /\ Cardinality(WillTell(v)) \in Nat
        /\ Cardinality(WillTell(v)') = Cardinality(WillTell(v)) + OneIf(v \in Upcoming)
        /\ HaveTold(v)' = HaveTold(v) /\ Cardinality(HaveTold(v)) \in Nat
        /\ \A y \in {"write", "queue", "flag"} : AtStep(v, y)' = AtStep(v, y)
    <3>1. /\ Cardinality(Holders(v)) \in Nat
          /\ Cardinality(Holders(v)') = Cardinality(Holders(v)) - OneIf(p \in Holders(v)) + OneIf(p \in Holders(v)')
          /\ Cardinality(WillTell(v)) \in Nat
          /\ Cardinality(WillTell(v)') = Cardinality(WillTell(v)) - OneIf(p \in WillTell(v)) + OneIf(p \in WillTell(v)')
          /\ Cardinality(HaveTold(v)) \in Nat
      BY <1>4, OnePass
    <3>4. HaveTold(v)' = HaveTold(v)
      BY <1>4, <2>1, OnePass
    <3>5. \A y \in {"write", "queue", "flag"} : AtStep(v, y)' = AtStep(v, y)
      BY <1>4, <2>1, OnePass
    <3>6. Cardinality(Holders(v)') = Cardinality(Holders(v)) + OneIf(v \in Upcoming)
      BY <3>1, <2>1, <2>2 DEF OneIf
    <3>7. Cardinality(WillTell(v)') = Cardinality(WillTell(v)) + OneIf(v \in Upcoming)
      BY <3>1, <2>1, <2>3 DEF OneIf
    <3> QED
      BY <3>1, <3>4, <3>5, <3>6, <3>7
  <2>5. VisitFits(v)
    BY DEF ReminderInv
  <2>6. /\ status'[v] = status[v] /\ wants'[v] = wants[v] /\ reminded'[v] = reminded[v]
        /\ told'[v] = told[v] /\ texts'[v] = texts[v] /\ jobs'[v] = jobs[v] /\ lost'[v] = lost[v] /\ broken'[v] = broken[v]
        /\ failures' = failures /\ touched' = touched
    BY DEF Tick, sent
  <2>7. /\ told[v] \in Nat /\ lost[v] \in Nat /\ broken[v] \in Nat /\ doubled[v] \in Nat
        /\ due[v] \in Nat /\ Window \in Nat
    BY <1>2, ReminderAssumption DEF ReminderShape, Tallies
  <2>10. /\ doubled'[v] \in Nat /\ doubled'[v] >= doubled[v]
         /\ v \in Upcoming /\ (\E q \in Passes : v \in Members(hand[q])) => doubled'[v] = doubled[v] + 1
    <3> DEFINE D == Upcoming \cap UNION {Members(hand[q]) : q \in Passes}
    <3>1. doubled'[v] = doubled[v] + OneIf(v \in D)
      BY <1>6
    <3>2. v \in D <=> v \in Upcoming /\ \E q \in Passes : v \in Members(hand[q])
      OBVIOUS
    <3> HIDE DEF D
    <3> QED
      BY <3>1, <3>2, <2>7 DEF OneIf
  <2>11. due'[v] = (IF due[v] = 0 THEN 0 ELSE due[v] - 1)
    BY <1>5
  <2>8. told[v] + Cardinality(WillTell(v)') <= 1 + broken[v] + doubled'[v]
    <3>4. told[v] + Cardinality(WillTell(v)) <= 1 + broken[v] + doubled[v]
      BY <2>5 DEF VisitFits
    <3>1. CASE v \notin Upcoming
      BY <3>1, <3>4, <2>4, <2>7, <2>10 DEF OneIf
    <3>2. CASE v \in Upcoming /\ \E q \in Passes : v \in Members(hand[q])
      <4>1. doubled'[v] = doubled[v] + 1
        BY <3>2, <2>10
      <4>2. Cardinality(WillTell(v)') = Cardinality(WillTell(v)) + 1
        BY <3>2, <2>4 DEF OneIf
      <4>3. Cardinality(WillTell(v)) \in Nat
        BY <2>4
      <4> QED
        BY <4>1, <4>2, <4>3, <3>4, <2>7
    <3>3. CASE v \in Upcoming /\ \A q \in Passes : v \notin Members(hand[q])
      <4>1. WillTell(v) = {}
        BY <3>3 DEF WillTell, Holders
      <4>2. HaveTold(v) = {}
        BY <3>3, <1>2, FirstInHand DEF HaveTold
      <4>3. ~reminded[v]
        BY <3>3 DEF Upcoming
      <4>4. Cardinality(WillTell(v)) = 0 /\ Cardinality(HaveTold(v)) = 0
        BY <4>1, <4>2, FS_EmptySet
      <4>5. told[v] <= broken[v]
        BY <4>3, <4>4, <2>5, <2>7 DEF VisitFits
      <4> QED
        BY <4>4, <4>5, <3>3, <2>4, <2>7, <2>10 DEF OneIf
    <3> QED
      BY <3>1, <3>2, <3>3
  <2>9. v \notin touched /\ ~reminded[v] => Window - due'[v] <= lost[v] + Cardinality(Holders(v)')
    <3> SUFFICES ASSUME v \notin touched, ~reminded[v] PROVE Window - due'[v] <= lost[v] + Cardinality(Holders(v)')
      OBVIOUS
    <3>1. Window - due[v] <= lost[v] + Cardinality(Holders(v)) /\ status[v] = "open"
      BY <2>5 DEF VisitFits
    <3>2. v \in Upcoming <=> due[v] \in 1..Window
      BY <3>1 DEF Upcoming, InHour
    <3>3. CASE v \in Upcoming
      BY <3>1, <3>2, <3>3, <2>4, <2>7, <2>11 DEF OneIf
    <3>4. CASE v \notin Upcoming /\ due[v] = 0
      BY <3>1, <3>4, <2>4, <2>7, <2>11 DEF OneIf
    <3>5. CASE v \notin Upcoming /\ due[v] > Window
      BY <3>5, <2>4, <2>7, <2>11 DEF OneIf
    <3> QED
      BY <3>2, <3>3, <3>4, <3>5, <2>7
  <2> QED
    BY <2>4, <2>5, <2>6, <2>8, <2>9 DEF VisitFits
<1> QED
  BY <1>7, <1>8 DEF ReminderInv

(* The others leave the lists of the passes alone. *)
LEMMA MissedFits ==
  ASSUME ReminderInv, Missed
  PROVE  ReminderInv'
<1>1. ReminderShape
  BY DEF ReminderInv
<1>2. \A v \in Booked : due'[v] = (IF due[v] = 0 THEN 0 ELSE due[v] - 1) /\ due'[v] \in 0..(Window + MaxEarly + 1)
  BY <1>1, ReminderAssumption DEF ReminderShape, Missed, Later
<1>3. lost' \in Tallies /\ \A v \in Booked : lost'[v] = lost[v] + OneIf(v \in Upcoming)
  BY <1>1, OneMore DEF Missed, ReminderShape
<1>4. ReminderShape'
  <2>1. due' \in [Booked -> 0..(Window + MaxEarly + 1)]
    BY <1>2 DEF Missed, Later
  <2> QED
    BY <2>1, <1>1, <1>3 DEF ReminderShape, Missed, sent
<1>5. ASSUME NEW v \in Booked PROVE VisitFits(v)'
  <2>1. VisitFits(v)
    BY DEF ReminderInv
  <2>2. /\ Holders(v)' = Holders(v) /\ WillTell(v)' = WillTell(v) /\ HaveTold(v)' = HaveTold(v)
        /\ \A x \in {"write", "queue", "flag"} : AtStep(v, x)' = AtStep(v, x)
    BY NoPass DEF Missed
  <2>3. Cardinality(Holders(v)) \in Nat /\ lost[v] \in Nat /\ due[v] \in Nat /\ Window \in Nat /\ failures \in Nat
    BY <1>1, NoneCounted, ReminderAssumption DEF ReminderShape, Tallies, Holders
  <2>4. v \notin touched /\ ~reminded[v] => Window - due'[v] <= lost'[v] + Cardinality(Holders(v))
    <3> SUFFICES ASSUME v \notin touched, ~reminded[v] PROVE Window - due'[v] <= lost'[v] + Cardinality(Holders(v))
      OBVIOUS
    <3>1. Window - due[v] <= lost[v] + Cardinality(Holders(v)) /\ status[v] = "open"
      BY <2>1 DEF VisitFits
    <3>2. v \in Upcoming <=> due[v] \in 1..Window
      BY <3>1 DEF Upcoming, InHour
    <3> QED
      BY <3>1, <3>2, <2>3, <1>2, <1>3 DEF OneIf
  <2>5. failures' # 0
    BY <2>3 DEF Missed
  <2> QED
    BY <2>1, <2>2, <2>4, <2>5 DEF VisitFits, Missed, sent
<1> QED
  BY <1>4, <1>5 DEF ReminderInv

(* What is so of the visits a step is not about. *)
LEMMA OthersFit ==
  ASSUME NEW v \in Booked, VisitFits(v),
         Holders(v)' = Holders(v), WillTell(v)' = WillTell(v), HaveTold(v)' = HaveTold(v),
         AtStep(v, "write")' = AtStep(v, "write"), AtStep(v, "queue")' = AtStep(v, "queue"),
         AtStep(v, "flag")' = AtStep(v, "flag") \/ failures' # 0,
         told'[v] = told[v], texts'[v] = texts[v], jobs'[v] = jobs[v],
         lost'[v] = lost[v], broken'[v] = broken[v], doubled'[v] = doubled[v], reminded'[v] = reminded[v],
         UNCHANGED bookings, failures' = failures \/ failures' # 0
  PROVE  VisitFits(v)'
BY DEF VisitFits, bookings

(* A pass goes on to another step with the visit it has in hand first. *)
LEMMA SameVisit ==
  ASSUME ReminderInv, NEW p \in Passes, pc[p] # "idle", NEW t \in {"write", "queue", "flag"}, t # pc[p],
         hand' = hand, pc' = [pc EXCEPT ![p] = t]
  PROVE  /\ First(p) \in Booked /\ First(p) \in Members(hand[p])
         /\ \A q \in Passes : hand'[q] = <<>> <=> pc'[q] = "idle"
         /\ pc' \in [Passes -> {"idle", "notify", "write", "queue", "flag"}]
         /\ \A v \in Booked \ {First(p)} :
              /\ Holders(v)' = Holders(v) /\ WillTell(v)' = WillTell(v) /\ HaveTold(v)' = HaveTold(v)
              /\ AtStep(v, "write")' = AtStep(v, "write") /\ AtStep(v, "queue")' = AtStep(v, "queue")
              /\ AtStep(v, "flag")' = AtStep(v, "flag")
<1>1. First(p) \in Booked /\ First(p) \in Members(hand[p]) /\ ReminderShape /\ hand[p] # <<>>
  BY FirstInHand DEF ReminderInv
<1>2. pc'[p] = t /\ \A q \in Passes \ {p} : hand'[q] = hand[q] /\ pc'[q] = pc[q]
  BY <1>1 DEF ReminderShape
<1>3. \A q \in Passes : hand'[q] = <<>> <=> pc'[q] = "idle"
  BY <1>1, <1>2 DEF ReminderShape
<1>4. pc' \in [Passes -> {"idle", "notify", "write", "queue", "flag"}]
  BY <1>1 DEF ReminderShape
<1>5. \A q \in Passes : First(q)' = First(q)
  BY DEF First
<1>6. ASSUME NEW v \in Booked \ {First(p)}
      PROVE  /\ Holders(v)' = Holders(v) /\ WillTell(v)' = WillTell(v) /\ HaveTold(v)' = HaveTold(v)
             /\ \A x \in {"write", "queue", "flag"} : AtStep(v, x)' = AtStep(v, x)
  <2>1. Holders(v)' = Holders(v)
    BY DEF Holders
  <2>2. WillTell(v)' = WillTell(v)
    <3>1. \A q \in Passes : (pc'[q] = "notify" \/ First(q)' # v) <=> (pc[q] = "notify" \/ First(q) # v)
      BY <1>2, <1>5
    <3> QED
      BY <2>1, <3>1 DEF WillTell, Holders
  <2>3. HaveTold(v)' = HaveTold(v)
    <3>1. \A q \in Passes : First(q)' = v => First(q) = v /\ pc'[q] = pc[q]
      BY <1>2, <1>5
    <3>2. \A q \in Passes : First(q) = v => First(q)' = v /\ pc'[q] = pc[q]
      BY <1>2, <1>5
    <3> QED
      BY <3>1, <3>2 DEF HaveTold
  <2>4. ASSUME NEW x \in {"write", "queue", "flag"} PROVE AtStep(v, x)' = AtStep(v, x)
    <3>1. \A q \in Passes : First(q)' = v => First(q) = v /\ pc'[q] = pc[q]
      BY <1>2, <1>5
    <3>2. \A q \in Passes : First(q) = v => First(q)' = v /\ pc'[q] = pc[q]
      BY <1>2, <1>5
    <3> QED
      BY <3>1, <3>2 DEF AtStep
  <2> QED
    BY <2>1, <2>2, <2>3, <2>4
<1> QED
  BY <1>1, <1>3, <1>4, <1>6

(* And that visit itself. *)
LEMMA FirstVisit ==
  ASSUME ReminderInv, NEW p \in Passes, pc[p] # "idle", NEW t \in {"write", "queue", "flag"}, t # pc[p],
         hand' = hand, pc' = [pc EXCEPT ![p] = t], NEW v \in Booked, v = First(p)
  PROVE  /\ Holders(v)' = Holders(v)
         /\ Cardinality(WillTell(v)) \in Nat /\ Cardinality(HaveTold(v)) \in Nat
         /\ pc[p] = "notify" => /\ Cardinality(WillTell(v)') = Cardinality(WillTell(v)) - 1
                                /\ Cardinality(HaveTold(v)') = Cardinality(HaveTold(v)) + 1
         /\ pc[p] # "notify" => WillTell(v)' = WillTell(v) /\ HaveTold(v)' = HaveTold(v) /\ HaveTold(v) # {}
         /\ \A x \in {"write", "queue", "flag"} :
              /\ Cardinality(AtStep(v, x)) \in Nat
              /\ pc[p] = x => Cardinality(AtStep(v, x)') = Cardinality(AtStep(v, x)) - 1
              /\ t = x => Cardinality(AtStep(v, x)') = Cardinality(AtStep(v, x)) + 1
              /\ pc[p] # x /\ t # x => AtStep(v, x)' = AtStep(v, x)
<1>1. First(p) \in Booked /\ First(p) \in Members(hand[p]) /\ ReminderShape
  BY FirstInHand DEF ReminderInv
<1>2. pc'[p] = t /\ \A q \in Passes \ {p} : hand'[q] = hand[q] /\ pc'[q] = pc[q]
  BY <1>1 DEF ReminderShape
<1>5. \A q \in Passes : First(q)' = First(q)
  BY DEF First
<1>6. Holders(v)' = Holders(v)
  BY DEF Holders
<1>7. /\ p \in WillTell(v) <=> pc[p] = "notify"
      /\ p \notin WillTell(v)'
      /\ p \in HaveTold(v) <=> pc[p] # "notify"
      /\ p \in HaveTold(v)'
  BY <1>1, <1>2, <1>5 DEF WillTell, Holders, HaveTold, ReminderShape
<1>8. /\ Cardinality(WillTell(v)) \in Nat
      /\ Cardinality(WillTell(v)') = Cardinality(WillTell(v)) - OneIf(p \in WillTell(v)) + OneIf(p \in WillTell(v)')
      /\ Cardinality(HaveTold(v)) \in Nat
      /\ Cardinality(HaveTold(v)') = Cardinality(HaveTold(v)) - OneIf(p \in HaveTold(v)) + OneIf(p \in HaveTold(v)')
      /\ (p \in HaveTold(v) <=> p \in HaveTold(v)') => HaveTold(v)' = HaveTold(v)
  BY <1>2, OnePass
<1>9. pc[p] # "notify" => WillTell(v)' = WillTell(v)
  <2> SUFFICES ASSUME pc[p] # "notify" PROVE WillTell(v)' = WillTell(v)
    OBVIOUS
  <2>1. \A q \in Passes : (pc'[q] = "notify" \/ First(q)' # v) <=> (pc[q] = "notify" \/ First(q) # v)
    BY <1>2, <1>5
  <2> QED
    BY <1>6, <2>1 DEF WillTell, Holders
<1>10. ASSUME NEW x \in {"write", "queue", "flag"}
       PROVE  /\ Cardinality(AtStep(v, x)) \in Nat
              /\ pc[p] = x => Cardinality(AtStep(v, x)') = Cardinality(AtStep(v, x)) - 1
              /\ t = x => Cardinality(AtStep(v, x)') = Cardinality(AtStep(v, x)) + 1
              /\ pc[p] # x /\ t # x => AtStep(v, x)' = AtStep(v, x)
  <2>1. /\ p \in AtStep(v, x) <=> pc[p] = x
        /\ p \in AtStep(v, x)' <=> t = x
    BY <1>2, <1>5 DEF AtStep
  <2>2. /\ Cardinality(AtStep(v, x)) \in Nat
        /\ Cardinality(AtStep(v, x)') = Cardinality(AtStep(v, x)) - OneIf(p \in AtStep(v, x)) + OneIf(p \in AtStep(v, x)')
        /\ (p \in AtStep(v, x) <=> p \in AtStep(v, x)') => AtStep(v, x)' = AtStep(v, x)
    BY <1>2, OnePass
  <2> QED
    BY <2>1, <2>2 DEF OneIf
<1>11. pc[p] = "notify" => /\ Cardinality(WillTell(v)') = Cardinality(WillTell(v)) - 1
                           /\ Cardinality(HaveTold(v)') = Cardinality(HaveTold(v)) + 1
  BY <1>7, <1>8 DEF OneIf
<1> QED
  BY <1>6, <1>7, <1>8, <1>9, <1>10, <1>11

LEMMA NotifyFits ==
  ASSUME ReminderInv, NEW p \in Passes, Notify(p)
  PROVE  ReminderInv'
<1> PICK t \in {"write", "flag"} : t = IF wants[First(p)] THEN "write" ELSE "flag"
  OBVIOUS
<1>1. /\ pc[p] = "notify" /\ pc[p] # "idle" /\ t # pc[p]
      /\ hand' = hand /\ pc' = [pc EXCEPT ![p] = t] /\ ReminderShape
  BY DEF Notify, PassGoes, ReminderInv
<1>2. /\ First(p) \in Booked
      /\ \A q \in Passes : hand'[q] = <<>> <=> pc'[q] = "idle"
      /\ pc' \in [Passes -> {"idle", "notify", "write", "queue", "flag"}]
  BY Zenon, <1>1, SameVisit
<1>3. told' \in Tallies /\ \A v \in Booked : told'[v] = told[v] + OneIf(v \in {First(p)})
  BY <1>1, OneMore DEF Notify, ReminderShape
<1>4. ReminderShape'
  BY <1>1, <1>2, <1>3 DEF ReminderShape, Notify, bookings, ghosts
<1>5. \A v \in Booked : VisitFits(v)
  BY DEF ReminderInv
<1>6. /\ texts' = texts /\ jobs' = jobs /\ lost' = lost /\ broken' = broken /\ doubled' = doubled
      /\ reminded' = reminded /\ UNCHANGED bookings /\ failures' = failures
  BY DEF Notify, ghosts
<1>7. ASSUME NEW v \in Booked \ {First(p)} PROVE VisitFits(v)'
  <2>1. told'[v] = told[v]
    BY <1>1, <1>3 DEF OneIf, ReminderShape, Tallies
  <2>2. /\ Holders(v)' = Holders(v) /\ WillTell(v)' = WillTell(v) /\ HaveTold(v)' = HaveTold(v)
        /\ AtStep(v, "write")' = AtStep(v, "write") /\ AtStep(v, "queue")' = AtStep(v, "queue")
        /\ AtStep(v, "flag")' = AtStep(v, "flag")
    BY Zenon, <1>1, SameVisit
  <2> QED
    BY <1>5, <1>6, <2>1, <2>2, OthersFit
<1>8. ASSUME NEW v \in Booked, v = First(p) PROVE VisitFits(v)'
  <2>1. VisitFits(v)
    BY <1>5
  <2>2. /\ Holders(v)' = Holders(v) /\ Cardinality(WillTell(v)) \in Nat /\ Cardinality(HaveTold(v)) \in Nat
        /\ Cardinality(WillTell(v)') = Cardinality(WillTell(v)) - 1
        /\ Cardinality(HaveTold(v)') = Cardinality(HaveTold(v)) + 1
    BY Zenon, <1>1, <1>8, FirstVisit
  <2>3. \A x \in {"write", "queue", "flag"} :
           /\ Cardinality(AtStep(v, x)) \in Nat
           /\ t = x => Cardinality(AtStep(v, x)') = Cardinality(AtStep(v, x)) + 1
           /\ pc[p] # x /\ t # x => AtStep(v, x)' = AtStep(v, x)
    BY Zenon, <1>1, <1>8, FirstVisit
  <2>4. AtStep(v, "queue")' = AtStep(v, "queue")
    BY <1>1, <2>3
  <2>5. /\ Cardinality(AtStep(v, "write")) \in Nat /\ Cardinality(AtStep(v, "write")') \in Nat
        /\ Cardinality(AtStep(v, "write")') <= Cardinality(AtStep(v, "write")) + 1
    BY <1>1, <2>3
  <2>6. wants[v] => AtStep(v, "flag")' = AtStep(v, "flag")
    BY <1>1, <1>8, <2>3
  <2>7. told'[v] = told[v] + 1 /\ told[v] \in Nat /\ texts[v] \in Nat /\ broken[v] \in Nat /\ doubled[v] \in Nat
    BY <1>1, <1>3, <1>8 DEF OneIf, ReminderShape, Tallies
  <2>8. told'[v] + Cardinality(WillTell(v)') <= 1 + broken[v] + doubled[v]
    BY <2>1, <2>2, <2>7 DEF VisitFits
  <2>9. ~reminded[v] => told'[v] <= broken[v] + Cardinality(HaveTold(v)')
    BY <2>1, <2>2, <2>7 DEF VisitFits
  <2>10. texts[v] + Cardinality(AtStep(v, "write")') <= told'[v] /\ told'[v] >= 1
    BY <2>1, <2>5, <2>7 DEF VisitFits
  <2>11. wants[v] /\ failures = 0 /\ (reminded[v] \/ AtStep(v, "flag")' # {}) => jobs[v] >= 1
    BY <2>1, <2>6 DEF VisitFits
  <2> QED
    BY <2>1, <2>2, <2>4, <2>8, <2>9, <2>10, <2>11, <1>6 DEF VisitFits, bookings
<1> QED
  BY <1>4, <1>7, <1>8 DEF ReminderInv

LEMMA WriteMessageFits ==
  ASSUME ReminderInv, NEW p \in Passes, WriteMessage(p)
  PROVE  ReminderInv'
<1>1. pc[p] = "write" /\ pc[p] # "idle" /\ hand' = hand /\ pc' = [pc EXCEPT ![p] = "queue"] /\ ReminderShape
  BY DEF WriteMessage, PassGoes, ReminderInv
<1>2. /\ First(p) \in Booked
      /\ \A q \in Passes : hand'[q] = <<>> <=> pc'[q] = "idle"
      /\ pc' \in [Passes -> {"idle", "notify", "write", "queue", "flag"}]
  BY Zenon, <1>1, SameVisit
<1>3. texts' \in Tallies /\ \A v \in Booked : texts'[v] = texts[v] + OneIf(v \in {First(p)})
  BY <1>1, OneMore DEF WriteMessage, ReminderShape
<1>4. ReminderShape'
  BY <1>1, <1>2, <1>3 DEF ReminderShape, WriteMessage, bookings, ghosts
<1>5. \A v \in Booked : VisitFits(v)
  BY DEF ReminderInv
<1>6. /\ told' = told /\ jobs' = jobs /\ lost' = lost /\ broken' = broken /\ doubled' = doubled
      /\ reminded' = reminded /\ UNCHANGED bookings /\ failures' = failures
  BY DEF WriteMessage, ghosts
<1>7. ASSUME NEW v \in Booked \ {First(p)} PROVE VisitFits(v)'
  <2>1. texts'[v] = texts[v]
    BY <1>1, <1>3 DEF OneIf, ReminderShape, Tallies
  <2>2. /\ Holders(v)' = Holders(v) /\ WillTell(v)' = WillTell(v) /\ HaveTold(v)' = HaveTold(v)
        /\ AtStep(v, "write")' = AtStep(v, "write") /\ AtStep(v, "queue")' = AtStep(v, "queue")
        /\ AtStep(v, "flag")' = AtStep(v, "flag")
    BY Zenon, <1>1, SameVisit
  <2> QED
    BY <1>5, <1>6, <2>1, <2>2, OthersFit
<1>8. ASSUME NEW v \in Booked, v = First(p) PROVE VisitFits(v)'
  <2>1. VisitFits(v)
    BY <1>5
  <2>2. Holders(v)' = Holders(v) /\ WillTell(v)' = WillTell(v) /\ HaveTold(v)' = HaveTold(v)
    BY Zenon, <1>1, <1>8, FirstVisit
  <2>3. /\ Cardinality(AtStep(v, "write")) \in Nat /\ Cardinality(AtStep(v, "queue")) \in Nat
        /\ Cardinality(AtStep(v, "write")') = Cardinality(AtStep(v, "write")) - 1
        /\ Cardinality(AtStep(v, "queue")') = Cardinality(AtStep(v, "queue")) + 1
        /\ AtStep(v, "flag")' = AtStep(v, "flag")
    BY Zenon, <1>1, <1>8, FirstVisit
  <2>4. texts'[v] = texts[v] + 1 /\ told[v] \in Nat /\ texts[v] \in Nat /\ jobs[v] \in Nat
    BY <1>1, <1>3, <1>8 DEF OneIf, ReminderShape, Tallies
  <2>5. /\ texts'[v] + Cardinality(AtStep(v, "write")') <= told[v]
        /\ jobs[v] + Cardinality(AtStep(v, "queue")') <= texts'[v]
    BY <2>1, <2>3, <2>4 DEF VisitFits
  <2> QED
    BY <2>1, <2>2, <2>3, <2>5, <1>6 DEF VisitFits, bookings
<1> QED
  BY <1>4, <1>7, <1>8 DEF ReminderInv

LEMMA QueueMessageFits ==
  ASSUME ReminderInv, NEW p \in Passes, QueueMessage(p)
  PROVE  ReminderInv'
<1>1. pc[p] = "queue" /\ pc[p] # "idle" /\ hand' = hand /\ pc' = [pc EXCEPT ![p] = "flag"] /\ ReminderShape
  BY DEF QueueMessage, PassGoes, ReminderInv
<1>2. /\ First(p) \in Booked
      /\ \A q \in Passes : hand'[q] = <<>> <=> pc'[q] = "idle"
      /\ pc' \in [Passes -> {"idle", "notify", "write", "queue", "flag"}]
  BY Zenon, <1>1, SameVisit
<1>3. jobs' \in Tallies /\ \A v \in Booked : jobs'[v] = jobs[v] + OneIf(v \in {First(p)})
  BY <1>1, OneMore DEF QueueMessage, ReminderShape
<1>4. ReminderShape'
  BY <1>1, <1>2, <1>3 DEF ReminderShape, QueueMessage, bookings, ghosts
<1>5. \A v \in Booked : VisitFits(v)
  BY DEF ReminderInv
<1>6. /\ told' = told /\ texts' = texts /\ lost' = lost /\ broken' = broken /\ doubled' = doubled
      /\ reminded' = reminded /\ UNCHANGED bookings /\ failures' = failures
  BY DEF QueueMessage, ghosts
<1>7. ASSUME NEW v \in Booked \ {First(p)} PROVE VisitFits(v)'
  <2>1. jobs'[v] = jobs[v]
    BY <1>1, <1>3 DEF OneIf, ReminderShape, Tallies
  <2>2. /\ Holders(v)' = Holders(v) /\ WillTell(v)' = WillTell(v) /\ HaveTold(v)' = HaveTold(v)
        /\ AtStep(v, "write")' = AtStep(v, "write") /\ AtStep(v, "queue")' = AtStep(v, "queue")
        /\ AtStep(v, "flag")' = AtStep(v, "flag")
    BY Zenon, <1>1, SameVisit
  <2> QED
    BY <1>5, <1>6, <2>1, <2>2, OthersFit
<1>8. ASSUME NEW v \in Booked, v = First(p) PROVE VisitFits(v)'
  <2>1. VisitFits(v)
    BY <1>5
  <2>2. Holders(v)' = Holders(v) /\ WillTell(v)' = WillTell(v) /\ HaveTold(v)' = HaveTold(v)
    BY Zenon, <1>1, <1>8, FirstVisit
  <2>3. /\ Cardinality(AtStep(v, "queue")) \in Nat
        /\ Cardinality(AtStep(v, "queue")') = Cardinality(AtStep(v, "queue")) - 1
        /\ AtStep(v, "write")' = AtStep(v, "write")
    BY Zenon, <1>1, <1>8, FirstVisit
  <2>4. jobs'[v] = jobs[v] + 1 /\ texts[v] \in Nat /\ jobs[v] \in Nat
    BY <1>1, <1>3, <1>8 DEF OneIf, ReminderShape, Tallies
  <2>5. jobs'[v] + Cardinality(AtStep(v, "queue")') <= texts[v] /\ jobs'[v] >= 1
    BY <2>1, <2>3, <2>4 DEF VisitFits
  <2> QED
    BY <2>1, <2>2, <2>3, <2>5, <1>6 DEF VisitFits, bookings
<1> QED
  BY <1>4, <1>7, <1>8 DEF ReminderInv

(* A statement for the message fails: the visit is flagged all the same. *)
LEMMA MessageFailsFits ==
  ASSUME ReminderInv, NEW p \in Passes, pc[p] \in {"write", "queue"}, PassGoes(p, "flag"),
         UNCHANGED <<bookings, reminded, hand, sent, ghosts>>, failures' = failures + 1
  PROVE  ReminderInv'
<1>1. /\ pc[p] # "idle" /\ pc[p] # "notify" /\ pc[p] # "flag"
      /\ hand' = hand /\ pc' = [pc EXCEPT ![p] = "flag"] /\ ReminderShape
  BY DEF PassGoes, ReminderInv
<1>2. /\ First(p) \in Booked
      /\ \A q \in Passes : hand'[q] = <<>> <=> pc'[q] = "idle"
      /\ pc' \in [Passes -> {"idle", "notify", "write", "queue", "flag"}]
  BY Zenon, <1>1, SameVisit
<1>4. ReminderShape' /\ failures' # 0
  BY <1>1, <1>2 DEF ReminderShape, bookings, sent, ghosts
<1>5. \A v \in Booked : VisitFits(v)
  BY DEF ReminderInv
<1>6. /\ told' = told /\ texts' = texts /\ jobs' = jobs /\ lost' = lost /\ broken' = broken /\ doubled' = doubled
      /\ reminded' = reminded /\ UNCHANGED bookings
  BY DEF sent, ghosts
<1>7. ASSUME NEW v \in Booked \ {First(p)} PROVE VisitFits(v)'
  <2>2. /\ Holders(v)' = Holders(v) /\ WillTell(v)' = WillTell(v) /\ HaveTold(v)' = HaveTold(v)
        /\ AtStep(v, "write")' = AtStep(v, "write") /\ AtStep(v, "queue")' = AtStep(v, "queue")
        /\ AtStep(v, "flag")' = AtStep(v, "flag")
    BY Zenon, <1>1, SameVisit
  <2> QED
    BY <1>4, <1>5, <1>6, <2>2, OthersFit
<1>8. ASSUME NEW v \in Booked, v = First(p) PROVE VisitFits(v)'
  <2>1. VisitFits(v)
    BY <1>5
  <2>2. Holders(v)' = Holders(v) /\ WillTell(v)' = WillTell(v) /\ HaveTold(v)' = HaveTold(v)
    BY Zenon, <1>1, <1>8, FirstVisit
  <2>3. \A x \in {"write", "queue", "flag"} :
           /\ Cardinality(AtStep(v, x)) \in Nat
           /\ pc[p] = x => Cardinality(AtStep(v, x)') = Cardinality(AtStep(v, x)) - 1
           /\ pc[p] # x /\ "flag" # x => AtStep(v, x)' = AtStep(v, x)
    BY Zenon, <1>1, <1>8, FirstVisit
  <2>4. /\ Cardinality(AtStep(v, "write")) \in Nat /\ Cardinality(AtStep(v, "queue")) \in Nat
        /\ Cardinality(AtStep(v, "write")') \in Int /\ Cardinality(AtStep(v, "write")') <= Cardinality(AtStep(v, "write"))
        /\ Cardinality(AtStep(v, "queue")') \in Int /\ Cardinality(AtStep(v, "queue")') <= Cardinality(AtStep(v, "queue"))
    BY <1>1, <2>3
  <2>5. told[v] \in Nat /\ texts[v] \in Nat /\ jobs[v] \in Nat
    BY <1>1 DEF ReminderShape, Tallies
  <2>6. /\ texts[v] + Cardinality(AtStep(v, "write")') <= told[v]
        /\ jobs[v] + Cardinality(AtStep(v, "queue")') <= texts[v]
    BY <2>1, <2>4, <2>5 DEF VisitFits
  <2> QED
    BY <2>1, <2>2, <2>6, <1>4, <1>6 DEF VisitFits, bookings
<1> QED
  BY <1>4, <1>7, <1>8 DEF ReminderInv

(* A pass breaks off. *)
LEMMA AbortsFits ==
  ASSUME ReminderInv, NEW p \in Passes, pc[p] # "idle", Aborts(p), UNCHANGED bookings,
         failures' \in Nat, failures' = failures \/ failures' # 0
  PROVE  ReminderInv'
<1>1. /\ hand' = [hand EXCEPT ![p] = <<>>] /\ pc' = [pc EXCEPT ![p] = "idle"] /\ ReminderShape
      /\ told' = told /\ texts' = texts /\ jobs' = jobs /\ doubled' = doubled /\ reminded' = reminded
  BY DEF Aborts, PassGoes, ReminderInv, sent
<1>2. /\ hand'[p] = <<>> /\ pc'[p] = "idle"
      /\ \A q \in Passes \ {p} : hand'[q] = hand[q] /\ pc'[q] = pc[q]
  BY <1>1 DEF ReminderShape
<1>3. lost' \in Tallies /\ \A v \in Booked : lost'[v] = lost[v] + OneIf(v \in Members(hand[p]))
  BY <1>1, OneMore DEF Aborts, ReminderShape
<1>4. broken' \in Tallies /\ \A v \in Booked : broken'[v] = broken[v] + OneIf(v = First(p) /\ pc[p] # "notify")
  <2>1. CASE pc[p] = "notify"
    BY <1>1, <2>1 DEF OneIf, Aborts, ReminderShape, Tallies
  <2>2. CASE pc[p] # "notify"
    <3>1. broken' = More(broken, {First(p)})
      BY <2>2 DEF Aborts
    <3>2. broken' \in Tallies /\ \A v \in Booked : broken'[v] = broken[v] + OneIf(v \in {First(p)})
      BY <1>1, <3>1, OneMore DEF ReminderShape
    <3> QED
      BY <3>2, <2>2 DEF OneIf
  <2> QED
    BY <2>1, <2>2
<1>5. ReminderShape'
  <2>1. hand' \in [Passes -> VisitLists] /\ pc' \in [Passes -> {"idle", "notify", "write", "queue", "flag"}]
        /\ \A q \in Passes : hand'[q] = <<>> <=> pc'[q] = "idle"
    BY <1>1, <1>2, EmptyList DEF ReminderShape
  <2> QED
    BY <2>1, <1>1, <1>3, <1>4 DEF ReminderShape, bookings
<1>6. ASSUME NEW v \in Booked PROVE VisitFits(v)'
  <2>1. VisitFits(v)
    BY DEF ReminderInv
  <2>2. /\ p \in Holders(v) <=> v \in Members(hand[p])
        /\ p \in HaveTold(v) <=> v = First(p) /\ pc[p] # "notify"
        /\ p \notin Holders(v)' /\ p \notin WillTell(v)' /\ p \notin HaveTold(v)'
        /\ \A x \in {"write", "queue", "flag"} : p \notin AtStep(v, x)'
    BY <1>1, <1>2, EmptyList DEF Holders, HaveTold, WillTell, AtStep, ReminderShape
  <2>3. /\ Cardinality(Holders(v)) \in Nat
        /\ Cardinality(Holders(v)') = Cardinality(Holders(v)) - OneIf(p \in Holders(v)) + OneIf(p \in Holders(v)')
        /\ Cardinality(WillTell(v)) \in Nat
        /\ Cardinality(WillTell(v)') = Cardinality(WillTell(v)) - OneIf(p \in WillTell(v)) + OneIf(p \in WillTell(v)')
        /\ Cardinality(HaveTold(v)) \in Nat
        /\ Cardinality(HaveTold(v)') = Cardinality(HaveTold(v)) - OneIf(p \in HaveTold(v)) + OneIf(p \in HaveTold(v)')
    BY <1>2, OnePass
  <2>4. \A x \in {"write", "queue", "flag"} :
          /\ Cardinality(AtStep(v, x)) \in Nat
          /\ Cardinality(AtStep(v, x)') = Cardinality(AtStep(v, x)) - OneIf(p \in AtStep(v, x)) + OneIf(p \in AtStep(v, x)')
    BY <1>2, OnePass
  <2>5. /\ Cardinality(Holders(v)') + lost'[v] = Cardinality(Holders(v)) + lost[v]
        /\ lost[v] \in Nat
    BY <1>1, <1>3, <2>2, <2>3 DEF OneIf, ReminderShape, Tallies
  <2>6. /\ Cardinality(HaveTold(v)') + broken'[v] = Cardinality(HaveTold(v)) + broken[v]
        /\ broken'[v] >= broken[v] /\ broken[v] \in Nat /\ broken'[v] \in Nat /\ Cardinality(HaveTold(v)') \in Int
    <3> PICK d \in {0, 1} : d = OneIf(v = First(p) /\ pc[p] # "notify")
      BY DEF OneIf
    <3>1. broken'[v] = broken[v] + d /\ broken[v] \in Nat
      BY <1>1, <1>4 DEF ReminderShape, Tallies
    <3>2. OneIf(p \in HaveTold(v)) = d /\ OneIf(p \in HaveTold(v)') = 0
      BY <2>2 DEF OneIf
    <3> QED
      BY <3>1, <3>2, <2>3
  <2>7. Cardinality(WillTell(v)') <= Cardinality(WillTell(v)) /\ Cardinality(WillTell(v)') \in Int
    BY <2>2, <2>3 DEF OneIf
  <2>8. \A x \in {"write", "queue", "flag"} :
          /\ Cardinality(AtStep(v, x)) \in Nat /\ Cardinality(AtStep(v, x)') \in Int
          /\ Cardinality(AtStep(v, x)') <= Cardinality(AtStep(v, x))
    <3> SUFFICES ASSUME NEW x \in {"write", "queue", "flag"}
                 PROVE  /\ Cardinality(AtStep(v, x)) \in Nat /\ Cardinality(AtStep(v, x)') \in Int
                        /\ Cardinality(AtStep(v, x)') <= Cardinality(AtStep(v, x))
      OBVIOUS
    <3> QED
      BY <2>2, <2>4 DEF OneIf
  <2>9. /\ Cardinality(AtStep(v, "write")) \in Nat /\ Cardinality(AtStep(v, "write")') \in Int
        /\ Cardinality(AtStep(v, "write")') <= Cardinality(AtStep(v, "write"))
        /\ Cardinality(AtStep(v, "queue")) \in Nat /\ Cardinality(AtStep(v, "queue")') \in Int
        /\ Cardinality(AtStep(v, "queue")') <= Cardinality(AtStep(v, "queue"))
    BY <2>8
  <2>10. (AtStep(v, "flag")' # {} => AtStep(v, "flag") # {}) /\ (HaveTold(v)' # {} => HaveTold(v) # {})
    <3>1. \A q \in Passes \ {p} : First(q)' = First(q)
      BY <1>2 DEF First
    <3>2. \A q \in AtStep(v, "flag")' : q \in AtStep(v, "flag")
      BY <1>2, <2>2, <3>1 DEF AtStep
    <3>3. \A q \in HaveTold(v)' : q \in HaveTold(v)
      BY <1>2, <2>2, <3>1 DEF HaveTold
    <3> QED
      BY <3>2, <3>3
  <2>11. /\ told[v] \in Nat /\ texts[v] \in Nat /\ jobs[v] \in Nat /\ doubled[v] \in Nat
         /\ due[v] \in Nat /\ Window \in Nat
    BY <1>1, ReminderAssumption DEF ReminderShape, Tallies
  <2>12. told[v] + Cardinality(WillTell(v)') <= 1 + broken'[v] + doubled[v]
    BY <2>1, <2>3, <2>6, <2>7, <2>11 DEF VisitFits
  <2>13. ~reminded[v] => told[v] <= broken'[v] + Cardinality(HaveTold(v)')
    <3>1. ~reminded[v] => told[v] <= broken[v] + Cardinality(HaveTold(v))
      BY <2>1 DEF VisitFits
    <3> QED
      BY <3>1, <2>3, <2>6, <2>11
  <2>14. /\ texts[v] + Cardinality(AtStep(v, "write")') <= told[v]
         /\ jobs[v] + Cardinality(AtStep(v, "queue")') <= texts[v]
    BY <2>1, <2>9, <2>11 DEF VisitFits
  <2>15. v \notin touched /\ ~reminded[v] => Window - due[v] <= lost'[v] + Cardinality(Holders(v)')
    <3> SUFFICES ASSUME v \notin touched, ~reminded[v] PROVE Window - due[v] <= lost'[v] + Cardinality(Holders(v)')
      OBVIOUS
    <3>1. Window - due[v] <= lost[v] + Cardinality(Holders(v))
      BY <2>1 DEF VisitFits
    <3>2. Cardinality(Holders(v)') \in Int /\ lost'[v] \in Int
      BY <1>3, <2>2, <2>3 DEF OneIf, Tallies
    <3> QED
      BY <3>1, <3>2, <2>3, <2>5
  <2> QED
    BY <1>1, <2>1, <2>10, <2>12, <2>13, <2>14, <2>15 DEF VisitFits, bookings
<1> QED
  BY <1>5, <1>6 DEF ReminderInv

(* A visit is flagged, and the pass takes up the next. *)
LEMMA NextVisitFits ==
  ASSUME ReminderInv, NEW p \in Passes, pc[p] = "flag",
         reminded' = [reminded EXCEPT ![First(p)] = @ \/ Flagged(First(p))], NextVisit(p),
         UNCHANGED <<sent, ghosts, bookings, changes, failures>>
  PROVE  ReminderInv'
<1>1. ReminderShape /\ pc[p] # "idle"
  BY DEF ReminderInv
<1>2. /\ hand[p] \in VisitLists /\ hand[p] # <<>> /\ First(p) = Head(hand[p])
      /\ First(p) \in Booked /\ First(p) \in Members(hand[p])
  BY <1>1, FirstInHand
<1> PICK f \in Booked : f = First(p)
  BY <1>2
<1> PICK r \in VisitLists : r = Tail(hand[p])
  BY Zenon, <1>2, RestOfList
<1>3. Members(r) = Members(hand[p]) \ {f} /\ (Len(hand[p]) = 1 <=> r = <<>>)
  BY <1>2, RestOfList
<1> PICK t \in {"idle", "notify"} : (t = "idle" <=> r = <<>>) /\ pc' = [pc EXCEPT ![p] = t]
  BY Zenon, <1>3 DEF NextVisit, PassGoes
<1>4. hand' = [hand EXCEPT ![p] = r]
  BY DEF NextVisit
<1>5. hand'[p] = r /\ pc'[p] = t /\ \A q \in Passes \ {p} : hand'[q] = hand[q] /\ pc'[q] = pc[q]
  BY <1>1, <1>4 DEF ReminderShape
<1>6. /\ told' = told /\ texts' = texts /\ jobs' = jobs /\ lost' = lost /\ broken' = broken /\ doubled' = doubled
      /\ UNCHANGED bookings /\ failures' = failures
  BY DEF sent, ghosts
<1>7. reminded' \in [Booked -> BOOLEAN] /\ reminded'[f] = TRUE /\ \A v \in Booked \ {f} : reminded'[v] = reminded[v]
  BY Zenon, <1>1 DEF ReminderShape, Flagged
<1>8. ReminderShape'
  <2>1. hand' \in [Passes -> VisitLists] /\ pc' \in [Passes -> {"idle", "notify", "write", "queue", "flag"}]
        /\ \A q \in Passes : hand'[q] = <<>> <=> pc'[q] = "idle"
    BY <1>1, <1>4, <1>5 DEF ReminderShape
  <2> QED
    BY <2>1, <1>1, <1>6, <1>7 DEF ReminderShape, bookings
<1>9. \A q \in Passes \ {p} : First(q)' = First(q)
  BY <1>5 DEF First
<1>10. \A v \in Booked : VisitFits(v)
  BY DEF ReminderInv
<1>11. ASSUME NEW v \in Booked \ {f} PROVE VisitFits(v)'
  <2>1. Holders(v)' = Holders(v)
    BY <1>3, <1>5 DEF Holders
  <2>2. WillTell(v)' = WillTell(v)
    <3>1. v \in Members(r) => t = "notify"
      BY Zenon, EmptyList
    <3>2. p \in WillTell(v) <=> v \in Members(hand[p])
      BY DEF WillTell, Holders
    <3>3. p \in WillTell(v)' <=> v \in Members(r)
      BY <1>5, <3>1 DEF WillTell, Holders
    <3>4. \A q \in Passes \ {p} : q \in WillTell(v)' <=> q \in WillTell(v)
      BY <1>5, <1>9, <2>1 DEF WillTell
    <3>5. WillTell(v) \subseteq Passes /\ WillTell(v)' \subseteq Passes
      BY DEF WillTell, Holders
    <3>6. p \in WillTell(v)' <=> p \in WillTell(v)
      BY <1>3, <3>2, <3>3
    <3>7. \A S, T \in SUBSET Passes : (\A q \in Passes : q \in S <=> q \in T) => S = T
      BY Zenon
    <3>8. \A q \in Passes : q \in WillTell(v)' <=> q \in WillTell(v)
      BY <3>4, <3>6
    <3> QED
      BY Zenon, <3>5, <3>7, <3>8
  <2>3. HaveTold(v)' = HaveTold(v) /\ \A x \in {"write", "queue", "flag"} : AtStep(v, x)' = AtStep(v, x)
    <3>1. /\ p \notin HaveTold(v) /\ p \notin HaveTold(v)'
          /\ \A x \in {"write", "queue", "flag"} : p \notin AtStep(v, x) /\ p \notin AtStep(v, x)'
      BY <1>5 DEF HaveTold, AtStep
    <3> QED
      BY <1>5, <3>1, OnePass
  <2> QED
    BY <1>6, <1>7, <1>10, <2>1, <2>2, <2>3, OthersFit
<1>12. VisitFits(f)'
  <2>1. VisitFits(f)
    BY <1>10
  <2>2. p \in HaveTold(f) /\ p \in AtStep(f, "flag") /\ p \notin WillTell(f) /\ p \notin WillTell(f)'
        /\ p \notin AtStep(f, "write") /\ p \notin AtStep(f, "write")'
        /\ p \notin AtStep(f, "queue") /\ p \notin AtStep(f, "queue")'
    BY <1>3, <1>5 DEF HaveTold, AtStep, WillTell, Holders
  <2>3. AtStep(f, "write")' = AtStep(f, "write") /\ AtStep(f, "queue")' = AtStep(f, "queue")
    BY <1>5, <2>2, OnePass
  <2>4. Cardinality(WillTell(f)') = Cardinality(WillTell(f))
    <3>1. /\ Cardinality(WillTell(f)) \in Nat
          /\ Cardinality(WillTell(f)') = Cardinality(WillTell(f)) - OneIf(p \in WillTell(f)) + OneIf(p \in WillTell(f)')
      BY <1>5, OnePass
    <3> QED
      BY <3>1, <2>2 DEF OneIf
  <2> QED
    BY <1>6, <1>7, <2>1, <2>2, <2>3, <2>4 DEF VisitFits, bookings
<1> QED
  BY <1>8, <1>11, <1>12 DEF ReminderInv

LEMMA FlagFits ==
  ASSUME ReminderInv, NEW p \in Passes, Flag(p)
  PROVE  ReminderInv'
<1>1. failures \in Nat
  BY DEF ReminderInv, ReminderShape
<1>2. CASE status[First(p)] = "removed"
  BY <1>1, <1>2, AbortsFits DEF Flag
<1>3. CASE status[First(p)] # "removed"
  BY <1>3, NextVisitFits DEF Flag
<1> QED
  BY <1>2, <1>3

LEMMA StatementFailsFits ==
  ASSUME ReminderInv, NEW p \in Passes, StatementFails(p)
  PROVE  ReminderInv'
<1>1. failures \in Nat
  BY DEF ReminderInv, ReminderShape
<1>2. failures' \in Nat /\ failures' # 0 /\ failures' = failures + 1
  BY <1>1 DEF StatementFails
<1>3. CASE pc[p] \in {"write", "queue"}
  BY <1>2, <1>3, MessageFailsFits DEF StatementFails
<1>4. CASE pc[p] \notin {"write", "queue"}
  BY <1>2, <1>4, AbortsFits DEF StatementFails
<1> QED
  BY <1>3, <1>4

(* Users move, close and remove visits. *)
LEMMA ChangeFits ==
  ASSUME ReminderInv, NEW u \in Booked, SetStatus(u) \/ SetDate(u) \/ RemoveVisit(u)
  PROVE  ReminderInv'
<1>1. ReminderShape
  BY DEF ReminderInv
<1>2. /\ touched' = touched \cup {u} /\ reminded' = reminded /\ wants' = wants /\ hand' = hand /\ pc' = pc
      /\ told' = told /\ texts' = texts /\ jobs' = jobs /\ lost' = lost /\ broken' = broken /\ doubled' = doubled
      /\ failures' = failures
  BY DEF SetStatus, SetDate, RemoveVisit, Change, sent, ghosts
<1>3. \A v \in Booked \ {u} : status'[v] = status[v] /\ due'[v] = due[v]
  BY <1>1 DEF SetStatus, SetDate, RemoveVisit, ReminderShape
<1>4. status' \in [Booked -> {"open", "closed", "removed"}] /\ due' \in [Booked -> 0..(Window + MaxEarly + 1)]
  <2>1. Window + 1 \in 0..(Window + MaxEarly + 1)
    BY ReminderAssumption
  <2>2. CASE SetStatus(u)
    BY <1>1, <2>2 DEF SetStatus, ReminderShape
  <2>3. CASE SetDate(u)
    BY <1>1, <2>1, <2>3 DEF SetDate, ReminderShape
  <2>4. CASE RemoveVisit(u)
    BY <1>1, <2>4 DEF RemoveVisit, ReminderShape
  <2> QED
    BY <2>2, <2>3, <2>4
<1>5. ReminderShape'
  BY <1>1, <1>2, <1>4 DEF ReminderShape
<1>6. ASSUME NEW v \in Booked PROVE VisitFits(v)'
  <2>1. VisitFits(v)
    BY DEF ReminderInv
  <2>2. /\ Holders(v)' = Holders(v) /\ WillTell(v)' = WillTell(v) /\ HaveTold(v)' = HaveTold(v)
        /\ \A x \in {"write", "queue", "flag"} : AtStep(v, x)' = AtStep(v, x)
    BY <1>2, NoPass
  <2>3. v \notin touched' => v \notin touched /\ status'[v] = status[v] /\ due'[v] = due[v]
    BY <1>2, <1>3
  <2> QED
    BY <1>2, <2>1, <2>2, <2>3 DEF VisitFits
<1> QED
  BY <1>5, <1>6 DEF ReminderInv

LEMMA ReminderInitFits == ReminderInit => ReminderInv
<1> SUFFICES ASSUME ReminderInit PROVE ReminderInv
  OBVIOUS
<1>1. ReminderShape
  BY EmptyList, ReminderAssumption DEF ReminderInit, ReminderShape, Tallies
<1>2. ASSUME NEW v \in Booked PROVE VisitFits(v)
  <2>1. Holders(v) = {} /\ WillTell(v) = {} /\ HaveTold(v) = {}
    BY EmptyList DEF ReminderInit, Holders, WillTell, HaveTold
  <2>2. \A x \in {"write", "queue", "flag"} : AtStep(v, x) = {}
    BY DEF ReminderInit, AtStep
  <2>3. due[v] >= Window /\ due[v] \in Nat /\ Window \in Nat
    BY ReminderAssumption DEF ReminderInit
  <2>4. Cardinality({}) = 0
    BY FS_EmptySet
  <2>5. /\ told[v] = 0 /\ texts[v] = 0 /\ jobs[v] = 0 /\ lost[v] = 0 /\ broken[v] = 0 /\ doubled[v] = 0
        /\ reminded[v] = FALSE /\ status[v] = "open"
    BY DEF ReminderInit
  <2>6. /\ Cardinality(Holders(v)) = 0 /\ Cardinality(WillTell(v)) = 0 /\ Cardinality(HaveTold(v)) = 0
        /\ AtStep(v, "flag") = {} /\ Cardinality(AtStep(v, "write")) = 0 /\ Cardinality(AtStep(v, "queue")) = 0
    BY <2>1, <2>2, <2>4
  <2>7. Window - due[v] <= lost[v] + Cardinality(Holders(v))
    BY <2>3, <2>5, <2>6
  <2> QED
    BY <2>1, <2>5, <2>6, <2>7 DEF VisitFits
<1> QED
  BY <1>1, <1>2 DEF ReminderInv

LEMMA ReminderStep == ReminderInv /\ [ReminderNext]_reminderVars => ReminderInv'
<1> SUFFICES ASSUME ReminderInv, [ReminderNext]_reminderVars PROVE ReminderInv'
  OBVIOUS
<1>1. ASSUME NEW p \in Passes,
             Tick(p) \/ Notify(p) \/ WriteMessage(p) \/ QueueMessage(p) \/ Flag(p) \/ StatementFails(p)
      PROVE  ReminderInv'
  BY <1>1, TickFits, NotifyFits, WriteMessageFits, QueueMessageFits, FlagFits, StatementFailsFits
<1>2. ASSUME Missed PROVE ReminderInv'
  BY <1>2, MissedFits
<1>3. ASSUME NEW v \in Booked, SetStatus(v) \/ SetDate(v) \/ RemoveVisit(v) PROVE ReminderInv'
  BY <1>3, ChangeFits
<1>4. ASSUME UNCHANGED reminderVars PROVE ReminderInv'
  <2>1. ReminderShape'
    BY <1>4 DEF ReminderInv, ReminderShape, reminderVars
  <2>2. ASSUME NEW v \in Booked PROVE VisitFits(v)'
    BY <1>4, NoPass DEF ReminderInv, VisitFits, reminderVars
  <2> QED
    BY <2>1, <2>2 DEF ReminderInv
<1> QED
  BY <1>1, <1>2, <1>3, <1>4 DEF ReminderNext

LEMMA RemindersHold == ReminderInv => ReminderTypeOK /\ BeforeTheVisit /\ RemindedOnce
<1> SUFFICES ASSUME ReminderInv PROVE ReminderTypeOK /\ BeforeTheVisit /\ RemindedOnce
  OBVIOUS
<1>1. ReminderShape
  BY DEF ReminderInv
<1>2. ReminderTypeOK
  BY <1>1 DEF ReminderShape, ReminderTypeOK
<1>3. BeforeTheVisit
  <2> SUFFICES ASSUME NEW v \in Booked \ touched, due[v] = 0, ~reminded[v], lost[v] < Window
               PROVE  \E p \in Passes : v \in Members(hand[p])
    BY DEF BeforeTheVisit
  <2>1. Window - due[v] <= lost[v] + Cardinality(Holders(v))
    BY DEF ReminderInv, VisitFits
  <2>2. Holders(v) \in SUBSET Passes
    BY DEF Holders
  <2>3. Cardinality(Holders(v)) \in Nat /\ (Cardinality(Holders(v)) = 0 <=> Holders(v) = {})
    BY <2>2, NoneCounted
  <2>4. Cardinality(Holders(v)) # 0
    BY <1>1, <2>1, <2>3, ReminderAssumption DEF ReminderShape, Tallies
  <2> QED
    BY <2>3, <2>4 DEF Holders
<1>4. RemindedOnce
  <2> SUFFICES ASSUME NEW v \in Booked
               PROVE  /\ told[v] <= 1 + broken[v] + doubled[v] /\ jobs[v] <= texts[v] /\ texts[v] <= told[v]
                      /\ reminded[v] => told[v] >= 1 /\ (wants[v] /\ failures = 0 => jobs[v] >= 1)
    BY DEF RemindedOnce
  <2>1. VisitFits(v)
    BY DEF ReminderInv
  <2>2. /\ told[v] \in Nat /\ texts[v] \in Nat /\ jobs[v] \in Nat /\ broken[v] \in Nat /\ doubled[v] \in Nat
    BY <1>1 DEF ReminderShape, Tallies
  <2>3. /\ Cardinality(WillTell(v)) \in Nat /\ Cardinality(AtStep(v, "write")) \in Nat
        /\ Cardinality(AtStep(v, "queue")) \in Nat
    <3>1. WillTell(v) \in SUBSET Passes /\ AtStep(v, "write") \in SUBSET Passes /\ AtStep(v, "queue") \in SUBSET Passes
      BY DEF WillTell, Holders, AtStep
    <3> QED
      BY <3>1, NoneCounted
  <2>4. told[v] <= 1 + broken[v] + doubled[v]
    BY <2>1, <2>2, <2>3 DEF VisitFits
  <2>5. jobs[v] <= texts[v] /\ texts[v] <= told[v]
    BY <2>1, <2>2, <2>3 DEF VisitFits
  <2> QED
    BY <2>1, <2>4, <2>5 DEF VisitFits
<1> QED
  BY <1>2, <1>3, <1>4

(* A visit that nobody touched is flagged when its hour is over, unless as many *)
(* passes were lost as fit in the hour; its agent is told once, and once more   *)
(* for each pass that broke off after telling or worked beside another one      *)
(* (BeforeTheVisit, RemindedOnce).                                              *)
THEOREM RemindersCorrect == ReminderSpec => [](ReminderTypeOK /\ BeforeTheVisit /\ RemindedOnce)
<1>1. ReminderInit => ReminderInv
  BY ReminderInitFits
<1>2. ReminderInv /\ [ReminderNext]_reminderVars => ReminderInv'
  BY ReminderStep
<1> QED
  BY <1>1, <1>2, RemindersHold, PTL DEF ReminderSpec

-----------------------------------------------------------------------------
(* The marketplace *)

(* The fields of the records a sync goes through. *)
LEMMA AsksFields ==
  ASSUME NEW s \in SyncRecords, NEW g \in AskGoals
  PROVE  /\ Asks(s, g) \in SyncRecords
         /\ Asks(s, g).goal = g /\ Asks(s, g).step = "token" /\ Asks(s, g).token = 0
         /\ Asks(s, g).todo = s.todo /\ Asks(s, g).fetched = s.fetched /\ Asks(s, g).made = s.made
         /\ Asks(s, g).agent = s.agent /\ Asks(s, g).text = s.text /\ Asks(s, g).found = s.found
         /\ Asks(s, g).errors = s.errors /\ Asks(s, g).blanks = s.blanks
BY Zenon DEF Asks, SyncRecords, AskGoals

LEMMA WorksFields ==
  ASSUME NEW s \in SyncRecords, NEW g \in LateGoals \cup {"idle"}
  PROVE  /\ Works(s, g) \in SyncRecords
         /\ Works(s, g).goal = g /\ Works(s, g).step = "none" /\ Works(s, g).token = 0
         /\ Works(s, g).todo = s.todo /\ Works(s, g).fetched = s.fetched /\ Works(s, g).made = s.made
         /\ Works(s, g).agent = s.agent /\ Works(s, g).text = s.text /\ Works(s, g).found = s.found
         /\ Works(s, g).errors = s.errors /\ Works(s, g).blanks = s.blanks
BY Zenon DEF Works, SyncRecords, LateGoals

LEMMA NextListingFields ==
  ASSUME NEW s \in SyncRecords
  PROVE  /\ NextListing(s) \in SyncRecords
         /\ NextListing(s).goal = (IF s.todo = {} THEN "stamp" ELSE "describe")
         /\ NextListing(s).step = (IF s.todo = {} THEN "none" ELSE "token")
         /\ NextListing(s).todo = s.todo /\ NextListing(s).fetched = s.fetched /\ NextListing(s).made = s.made
         /\ NextListing(s).agent = s.agent /\ NextListing(s).text \in {s.text, "full"}
         /\ NextListing(s).errors = s.errors /\ NextListing(s).blanks = s.blanks
<1> DEFINE u == [s EXCEPT !.text = "full"]
<1>1. /\ u \in SyncRecords /\ u.todo = s.todo /\ u.fetched = s.fetched /\ u.made = s.made /\ u.agent = s.agent
      /\ u.text = "full" /\ u.errors = s.errors /\ u.blanks = s.blanks
  BY DEF SyncRecords
<1>2. NextListing(s) = IF s.todo = {} THEN Works(s, "stamp") ELSE Asks(u, "describe")
  BY DEF NextListing
<1> HIDE DEF u
<1>3. CASE s.todo = {}
  BY <1>2, <1>3, WorksFields DEF LateGoals
<1>4. CASE s.todo # {}
  BY <1>1, <1>2, <1>4, AsksFields DEF AskGoals
<1> QED
  BY <1>3, <1>4

(* The next listing, when there is nothing wrong so far. *)
LEMMA NextListingFits ==
  ASSUME NEW s \in SyncRecords, s.made \subseteq s.fetched, s.todo \subseteq s.fetched,
         s.blanks = 0 => s.fetched = Listings, s.errors = 0 => s.fetched = s.made \cup s.todo
  PROVE  SyncFits(NextListing(s))
BY NextListingFields DEF SyncFits, AskGoals, LateGoals

LEMMA ItemIsNext == \A s \in SyncRecords : s.todo # {} => Item(s) \in s.todo
BY DEF Item

LEMMA FailsFields ==
  ASSUME NEW s \in SyncRecords, SyncFits(s), s.goal \in {"describe", "write", "attach"}
  PROVE  /\ Fails(s) \in SyncRecords /\ SyncFits(Fails(s))
         /\ Fails(s).goal \in {"stamp", "describe"} /\ Fails(s).step \in {"none", "token"}
         /\ Fails(s).agent = s.agent /\ Fails(s).text \in {s.text, "full"}
<1> PICK n \in Nat : n = s.errors + 1 /\ n # 0
  BY DEF SyncRecords
<1> PICK rest \in SUBSET Listings : rest = s.todo \ {Item(s)}
  BY Zenon DEF SyncRecords
<1> DEFINE u == [s EXCEPT !.errors = n, !.todo = rest]
<1>1. /\ u \in SyncRecords /\ u.todo = s.todo \ {Item(s)} /\ u.fetched = s.fetched /\ u.made = s.made
      /\ u.agent = s.agent /\ u.text = s.text /\ u.errors # 0 /\ u.blanks = s.blanks
  BY Zenon DEF SyncRecords
<1>2. Fails(s) = NextListing(u)
  BY DEF Fails
<1> HIDE DEF u
<1>3. SyncFits(NextListing(u))
  BY <1>1, NextListingFits DEF SyncFits, LateGoals
<1> QED
  BY <1>1, <1>2, <1>3, NextListingFields

LEMMA AnsweredFields ==
  ASSUME NEW s \in SyncRecords, SyncFits(s), s.goal \in AskGoals, namesake \in Sellers \cup {Nobody}
  PROVE  AnswerKeeps(s, Answered(s)) /\ Answered(s).text \in {s.text, "full"}
<1>1. CASE s.goal = "list"
  <2> DEFINE u == [s EXCEPT !.todo = Listings]
  <2>1. /\ u \in SyncRecords /\ u.todo = Listings /\ u.fetched = s.fetched /\ u.made = s.made
        /\ u.agent = s.agent /\ u.text = s.text /\ u.errors = s.errors /\ u.blanks = s.blanks
    BY DEF SyncRecords
  <2>2. Answered(s) = Asks(u, "details")
    BY <1>1 DEF Answered
  <2> HIDE DEF u
  <2>3. "details" \in AskGoals /\ "details" \notin LateGoals /\ "details" \notin ImportGoals
    BY DEF AskGoals, LateGoals, ImportGoals
  <2> QED
    BY <1>1, <2>1, <2>2, <2>3, AsksFields DEF AnswerKeeps, SyncFits
<1>2. CASE s.goal = "details"
  <2> DEFINE u == [s EXCEPT !.fetched = s.todo]
  <2>1. /\ u \in SyncRecords /\ u.todo = s.todo /\ u.fetched = s.todo /\ u.made = s.made
        /\ u.agent = s.agent /\ u.text = s.text /\ u.errors = s.errors /\ u.blanks = s.blanks
    BY DEF SyncRecords
  <2>2. Answered(s) = Works(u, "map")
    BY <1>2 DEF Answered
  <2> HIDE DEF u
  <2>3. "map" \notin AskGoals /\ "map" \in LateGoals /\ "map" \notin ImportGoals
    BY DEF AskGoals, LateGoals, ImportGoals
  <2> QED
    BY <1>2, <2>1, <2>2, <2>3, WorksFields DEF AnswerKeeps, SyncFits
<1>3. CASE s.goal = "seller"
  <2> DEFINE u == [s EXCEPT !.agent = namesake]
  <2>1. /\ u \in SyncRecords /\ u.todo = s.todo /\ u.fetched = s.fetched /\ u.made = s.made
        /\ u.agent = namesake /\ u.text = s.text /\ u.errors = s.errors /\ u.blanks = s.blanks
    BY DEF SyncRecords
  <2>2. Answered(s) = NextListing(u)
    BY <1>3 DEF Answered
  <2> HIDE DEF u
  <2>3. SyncFits(NextListing(u))
    BY <1>3, <2>1, NextListingFits DEF SyncFits, LateGoals
  <2> QED
    BY <1>3, <2>1, <2>2, <2>3, NextListingFields DEF AnswerKeeps, ImportGoals
<1>4. CASE s.goal = "describe"
  <2>1. Answered(s) = Works(s, "find")
    BY <1>4 DEF Answered
  <2>2. "find" \notin AskGoals /\ "find" \in LateGoals /\ "find" \in ImportGoals /\ "describe" \in ImportGoals
        /\ "describe" \in LateGoals
    BY DEF AskGoals, LateGoals, ImportGoals
  <2> QED
    BY <1>4, <2>1, <2>2, WorksFields DEF AnswerKeeps, SyncFits
<1>5. CASE s.goal = "summary"
  <2>1. Answered(s) = Works(s, "done")
    BY <1>5 DEF Answered
  <2>2. "done" \notin AskGoals /\ "done" \in LateGoals /\ "done" \notin ImportGoals /\ "summary" \in LateGoals
    BY DEF AskGoals, LateGoals, ImportGoals
  <2> QED
    BY <1>5, <2>1, <2>2, WorksFields DEF AnswerKeeps, SyncFits
<1> QED
  BY <1>1, <1>2, <1>3, <1>4, <1>5 DEF AskGoals

LEMMA UnansweredFields ==
  ASSUME NEW s \in SyncRecords, SyncFits(s), s.goal \in AskGoals
  PROVE  AnswerKeeps(s, Unanswered(s))
<1> DEFINE u == [s EXCEPT !.blanks = IF s.goal = "summary" THEN @ ELSE @ + 1]
<1>1. /\ u \in SyncRecords /\ u.goal = s.goal /\ u.todo = s.todo /\ u.fetched = s.fetched /\ u.made = s.made
      /\ u.agent = s.agent /\ u.text = s.text /\ u.errors = s.errors
      /\ u.blanks = IF s.goal = "summary" THEN s.blanks ELSE s.blanks + 1
  BY DEF SyncRecords
<1>2. Unanswered(s) =
        CASE s.goal = "list" -> Works(u, "idle")
          [] s.goal = "details" -> Works([u EXCEPT !.todo = {}], "map")
          [] s.goal = "seller" -> NextListing(u)
          [] s.goal = "describe" -> Works([u EXCEPT !.text = "title"], "find")
          [] OTHER -> Works(u, "done")
  BY DEF Unanswered
<1> HIDE DEF u
<1>3. s.goal # "summary" => u.blanks # 0
  BY <1>1 DEF SyncRecords
<1>4. CASE s.goal = "list"
  <2>1. "idle" \notin AskGoals \cup LateGoals \cup ImportGoals
    BY DEF AskGoals, LateGoals, ImportGoals
  <2> QED
    BY <1>1, <1>2, <1>4, <2>1, WorksFields DEF AnswerKeeps, SyncFits
<1>5. CASE s.goal = "details"
  <2> DEFINE w == [u EXCEPT !.todo = {}]
  <2>1. /\ w \in SyncRecords /\ w.todo = {} /\ w.fetched = s.fetched /\ w.made = s.made /\ w.agent = s.agent
        /\ w.errors = s.errors /\ w.blanks # 0
    BY <1>1, <1>3, <1>5 DEF SyncRecords
  <2>2. Unanswered(s) = Works(w, "map")
    BY <1>2, <1>5
  <2> HIDE DEF w
  <2>3. "map" \notin AskGoals /\ "map" \in LateGoals /\ "map" \notin ImportGoals
    BY DEF AskGoals, LateGoals, ImportGoals
  <2> QED
    BY <1>5, <2>1, <2>2, <2>3, WorksFields DEF AnswerKeeps, SyncFits
<1>6. CASE s.goal = "seller"
  <2>1. SyncFits(NextListing(u))
    BY <1>1, <1>3, <1>6, NextListingFits DEF SyncFits, LateGoals
  <2> QED
    BY <1>1, <1>2, <1>6, <2>1, NextListingFields DEF AnswerKeeps, ImportGoals
<1>7. CASE s.goal = "describe"
  <2> DEFINE w == [u EXCEPT !.text = "title"]
  <2>1. /\ w \in SyncRecords /\ w.todo = s.todo /\ w.fetched = s.fetched /\ w.made = s.made /\ w.agent = s.agent
        /\ w.errors = s.errors /\ w.blanks # 0
    BY <1>1, <1>3, <1>7 DEF SyncRecords
  <2>2. Unanswered(s) = Works(w, "find")
    BY <1>2, <1>7
  <2> HIDE DEF w
  <2>3. "find" \notin AskGoals /\ "find" \in LateGoals /\ "find" \in ImportGoals /\ "describe" \in ImportGoals
        /\ "describe" \in LateGoals
    BY DEF AskGoals, LateGoals, ImportGoals
  <2> QED
    BY <1>7, <2>1, <2>2, <2>3, WorksFields DEF AnswerKeeps, SyncFits
<1>8. CASE s.goal = "summary"
  <2>1. Unanswered(s) = Works(u, "done")
    BY <1>2, <1>8
  <2>2. "done" \notin AskGoals /\ "done" \in LateGoals /\ "done" \notin ImportGoals /\ "summary" \in LateGoals
    BY DEF AskGoals, LateGoals, ImportGoals
  <2> QED
    BY <1>1, <1>8, <2>1, <2>2, WorksFields DEF AnswerKeeps, SyncFits
<1> QED
  BY <1>4, <1>5, <1>6, <1>7, <1>8 DEF AskGoals

LEMMA PartlyAnsweredFields ==
  ASSUME NEW s \in SyncRecords, SyncFits(s), s.goal = "details"
  PROVE  AnswerKeeps(s, PartlyAnswered(s))
<1> PICK n \in Nat : n = s.blanks + 1 /\ n # 0
  BY DEF SyncRecords
<1> PICK kept \in SUBSET Listings : kept = s.todo \ {Item(s)}
  BY Zenon DEF SyncRecords
<1> DEFINE u == [s EXCEPT !.fetched = kept, !.todo = kept, !.blanks = n]
<1>1. /\ u \in SyncRecords /\ u.todo = kept /\ u.fetched = kept /\ u.made = s.made /\ u.agent = s.agent
      /\ u.errors = s.errors /\ u.blanks # 0
  BY Zenon DEF SyncRecords
<1>2. PartlyAnswered(s) = Works(u, "map")
  BY DEF PartlyAnswered
<1> HIDE DEF u
<1>3. "map" \notin AskGoals /\ "map" \in LateGoals /\ "map" \notin ImportGoals
  BY DEF AskGoals, LateGoals, ImportGoals
<1> QED
  BY <1>1, <1>2, <1>3, WorksFields DEF AnswerKeeps, SyncFits

LEMMA ThrownFields ==
  ASSUME NEW s \in SyncRecords, SyncFits(s), s.goal \in AskGoals
  PROVE  AnswerKeeps(s, Thrown(s))
<1>1. CASE s.goal = "describe"
  BY <1>1, FailsFields DEF Thrown, AnswerKeeps, ImportGoals
<1>2. CASE s.goal # "describe"
  <2>1. "idle" \notin AskGoals \cup LateGoals \cup ImportGoals
    BY DEF AskGoals, LateGoals, ImportGoals
  <2> QED
    BY <1>2, <2>1, WorksFields DEF Thrown, AnswerKeeps, SyncFits
<1> QED
  BY <1>1, <1>2

-----------------------------------------------------------------------------

LEMMA ShapeOfSync ==
  ASSUME MeliShape, NEW p \in Syncs, NEW t \in SyncRecords, SyncFits(t), sync' = [sync EXCEPT ![p] = t],
         issued' \in Nat, issued <= issued', t.step \in {"exchange", "store"} => t.token \in 1..issued'
  PROVE  /\ sync' \in [Syncs -> SyncRecords] /\ sync'[p] = t /\ \A q \in Syncs \ {p} : sync'[q] = sync[q]
         /\ \A q \in Syncs : SyncFits(sync'[q]) /\ (sync'[q].step \in {"exchange", "store"} => sync'[q].token \in 1..issued')
<1>1. sync' \in [Syncs -> SyncRecords] /\ sync'[p] = t /\ \A q \in Syncs \ {p} : sync'[q] = sync[q]
  BY DEF MeliShape
<1>2. \A q \in Syncs \ {p} : SyncFits(sync'[q]) /\ (sync'[q].step \in {"exchange", "store"} => sync'[q].token \in 1..issued')
  <2>1. 1..issued \subseteq 1..issued'
    BY DEF MeliShape
  <2> QED
    BY <1>1, <2>1 DEF MeliShape
<1> QED
  BY <1>1, <1>2

LEMMA ImportingIs == \A p \in Syncs : p \in Importing <=> sync[p].goal \in ImportGoals
BY DEF Importing, ImportGoals

(* What moves of a sync do to pictures and agents, rows aside. *)
LEMMA PicturesOfMove ==
  ASSUME MeliShape, PicturesAreOnce, NEW p \in Syncs, NEW t, MovesTo(p, t), property' = property
  PROVE  PicturesAreOnce'
<1> SUFFICES ASSUME ~twice'
             PROVE  /\ \A q, r \in Importing' : q = r
                    /\ \A l \in Listings : property[l].media <= 1
                    /\ \A q \in Syncs : sync'[q].goal = "attach" /\ ~sync'[q].found => property[Item(sync'[q])].media = 0
  BY DEF PicturesAreOnce
<1>1. ~twice
  BY DEF MovesTo
<1>2. /\ \A q, r \in Importing : q = r
      /\ \A l \in Listings : property[l].media <= 1
      /\ \A q \in Syncs : sync[q].goal = "attach" /\ ~sync[q].found => property[Item(sync[q])].media = 0
  BY <1>1 DEF PicturesAreOnce
<1>3. sync'[p] = t /\ \A q \in Syncs \ {p} : sync'[q] = sync[q]
  BY DEF MeliShape, MovesTo
<1>4. \A q \in Importing' : q \in Importing
  <2>1. t.goal \in ImportGoals => sync[p].goal \in ImportGoals
    BY DEF MovesTo, AnswerKeeps, Stays
  <2>2. \A q \in Syncs : q \in Importing' <=> sync'[q].goal \in ImportGoals
    BY DEF Importing, ImportGoals
  <2>3. Importing' \subseteq Syncs
    BY DEF Importing
  <2> QED
    BY <1>3, <2>1, <2>2, <2>3, ImportingIs
<1>5. t.goal = "attach" /\ ~t.found => property[Item(t)].media = 0
  <2>1. t.goal = "attach" => Stays(sync[p], t)
    BY DEF MovesTo, AnswerKeeps, ImportGoals
  <2> QED
    BY <1>2, <2>1 DEF Stays, Item
<1> QED
  BY <1>2, <1>3, <1>4, <1>5

LEMMA AgentsAsBefore ==
  ASSUME OneAgent, \A x \in Sellers : (x \in Given' \/ Coming(x)') => (x \in Given \/ Coming(x)),
         Given' = {} => Given = {}, mixed' = mixed, namesake' = namesake
  PROVE  OneAgent'
<1>1. \A x \in Held' : x \in Held
  BY DEF Held
<1> QED
  BY <1>1 DEF OneAgent

LEMMA ComingOfMove ==
  ASSUME MeliShape, NEW p \in Syncs, NEW t, MovesTo(p, t), namesake' = namesake, NEW x \in Sellers, Coming(x)'
  PROVE  Coming(x)
<1>1. sync'[p] = t /\ \A q \in Syncs \ {p} : sync'[q] = sync[q]
  BY DEF MeliShape, MovesTo
<1>2. \A q \in Syncs : q \in Importing' <=> sync'[q].goal \in ImportGoals
  BY DEF Importing, ImportGoals
<1>3. Importing' \subseteq Syncs
  BY DEF Importing
<1>4. CASE \E q \in Importing' : sync'[q].agent = x
  <2> PICK q \in Importing' : sync'[q].agent = x
    BY <1>4
  <2>1. CASE q # p
    BY <1>1, <1>2, <1>3, <2>1, ImportingIs DEF Coming
  <2>2. CASE q = p
    <3>1. t.goal \in ImportGoals /\ t.agent = x
      BY <1>1, <1>2, <1>3, <2>2
    <3>2. sync[p].goal \in ImportGoals /\ (t.agent = sync[p].agent \/ (sync[p].goal = "seller" /\ t.agent = namesake))
      BY <3>1 DEF MovesTo, AnswerKeeps, Stays
    <3> QED
      BY <3>1, <3>2, ImportingIs DEF Coming
  <2> QED
    BY <2>1, <2>2
<1>5. CASE x = namesake /\ \E q \in Syncs : sync'[q].goal = "seller"
  <2> PICK q \in Syncs : sync'[q].goal = "seller"
    BY <1>5
  <2>1. t.goal = "seller" => sync[p].goal = "seller"
    BY DEF MovesTo, AnswerKeeps, Stays, ImportGoals
  <2> QED
    BY <1>1, <1>5, <2>1 DEF Coming
<1> QED
  BY <1>4, <1>5 DEF Coming

LEMMA AgentsOfMove ==
  ASSUME MeliShape, OneAgent, NEW p \in Syncs, NEW t, MovesTo(p, t), namesake' = namesake,
         property' = property, mixed' = mixed
  PROVE  OneAgent'
<1>1. Given' = Given
  BY DEF Given
<1> QED
  BY <1>1, ComingOfMove, AgentsAsBefore

LEMMA TextsOfMove ==
  ASSUME MeliShape, TextsAreFull, NEW p \in Syncs, NEW t \in SyncRecords, sync' = [sync EXCEPT ![p] = t],
         t.text \in {sync[p].text, "full"} \/ off' \/ meliFaults' # 0, property' = property,
         off => off', meliFaults' = 0 => meliFaults = 0, stored' = 0 => off'
  PROVE  TextsAreFull'
<1>1. sync'[p] = t /\ \A q \in Syncs \ {p} : sync'[q] = sync[q]
  BY DEF MeliShape
<1> SUFFICES ASSUME meliFaults' = 0, ~off' PROVE \A q \in Syncs : sync'[q].text # "title"
  BY DEF TextsAreFull
<1>2. meliFaults = 0 /\ ~off
  OBVIOUS
<1>3. \A q \in Syncs : sync[q].text # "title"
  BY <1>2 DEF TextsAreFull
<1> QED
  BY <1>1, <1>3

(* Steps of a sync that exchange nothing. *)
LEMMA TokensStay ==
  ASSUME MeliShape, TokenIsGood, NEW p \in Syncs, NEW t \in SyncRecords, sync' = [sync EXCEPT ![p] = t], UNCHANGED tokens,
         sync[p].step \in {"none", "token"}, t.step \in {"none", "token"}
  PROVE  TokenIsGood'
<1>1. sync'[p] = t /\ \A q \in Syncs \ {p} : sync'[q] = sync[q]
  BY DEF MeliShape
<1>2. Exchanging' = Exchanging
  BY <1>1 DEF Exchanging
<1>3. \A q \in Syncs : /\ sync'[q].step = "store" <=> sync[q].step = "store"
                       /\ sync'[q].step \in {"exchange", "store"} => sync'[q] = sync[q]
  BY <1>1
<1> SUFFICES ASSUME ~upset
             PROVE  /\ \A q, r \in Exchanging : q = r
                    /\ stored # 0 /\ (\A q \in Syncs : sync'[q].step # "store") => stored \in accepted
                    /\ \A q \in Syncs : /\ sync'[q].step = "exchange" /\ stored # 0 => sync'[q].token = stored
                                        /\ sync'[q].step = "store" => sync'[q].token \in accepted
  BY <1>2 DEF TokenIsGood, tokens
<1> QED
  BY <1>3 DEF TokenIsGood

(* What an action that moves a sync leaves to be shown. *)
LEMMA MoveIsFine ==
  ASSUME MeliInv, NEW p \in Syncs, NEW t, MovesTo(p, t), t.step \in {"none", "token"},
         t.text \in {sync[p].text, "full"} \/ off' \/ meliFaults' # 0,
         off => off', meliFaults' = 0 => meliFaults = 0, stored' = 0 => off', meliFaults' \in Nat,
         UNCHANGED <<property, namesake, mixed>>, off' \in BOOLEAN, upset' \in BOOLEAN, twice' \in BOOLEAN,
         stored' \in Nat, issued' \in Nat, issued <= issued', stored' <= issued', accepted' \subseteq 1..issued',
         TokenIsGood'
  PROVE  MeliInv'
<1>1. sync' = [sync EXCEPT ![p] = t] /\ t \in SyncRecords /\ SyncFits(t)
  BY DEF MovesTo
<1>2. MeliShape'
  BY <1>1, ShapeOfSync DEF MeliShape, MeliInv
<1>3. TextsAreFull'
  BY Zenon, <1>1, TextsOfMove DEF MeliInv
<1>4. PicturesAreOnce' /\ OneAgent'
  BY PicturesOfMove, AgentsOfMove DEF MeliInv
<1> QED
  BY <1>2, <1>3, <1>4 DEF MeliInv

LEMMA QuietMove ==
  ASSUME MeliInv, NEW p \in Syncs, NEW t, MovesTo(p, t), t.step \in {"none", "token"}, sync[p].step \in {"none", "token"},
         t.text \in {sync[p].text, "full"}, meliFaults' = meliFaults,
         UNCHANGED <<tokens, namesake, rowVars>>, twice' \in BOOLEAN
  PROVE  MeliInv'
<1>1. sync' = [sync EXCEPT ![p] = t] /\ t \in SyncRecords
  BY DEF MovesTo
<1>2. TokenIsGood'
  BY Zenon, <1>1, TokensStay DEF MeliInv
<1>3. MeliShape /\ TextsAreFull
  BY DEF MeliInv
<1> QED
  BY <1>2, <1>3, MoveIsFine DEF MeliShape, TextsAreFull, tokens, rowVars

LEMMA StartSyncFits ==
  ASSUME MeliInv, NEW p \in Syncs, StartSync(p)
  PROVE  MeliInv'
<1> DEFINE t == Asks(NoSync, "list")
<1>1. NoSync \in SyncRecords /\ NoSync.blanks = 0 /\ NoSync.todo = {} /\ NoSync.fetched = {} /\ NoSync.made = {}
      /\ NoSync.agent = Nobody /\ NoSync.text = "full"
  BY DEF NoSync, SyncRecords
<1>2. "list" \in AskGoals /\ "list" \notin LateGoals /\ "list" \notin ImportGoals
  BY DEF AskGoals, LateGoals, ImportGoals
<1>3. t \in SyncRecords /\ SyncFits(t) /\ t.step = "token" /\ t.text = "full" /\ t.goal = "list"
  BY <1>1, <1>2, AsksFields DEF SyncFits
<1>4. SyncGoes(p, t) /\ meliFaults' = meliFaults /\ UNCHANGED <<tokens, namesake, rowVars>>
  BY DEF StartSync, MeliMove
<1>5. sync[p].step = "none"
  BY DEF StartSync, MeliInv, MeliShape, SyncFits, AskGoals
<1> HIDE DEF t
<1>6. MovesTo(p, t) /\ twice' \in BOOLEAN
  BY Zenon, <1>2, <1>3, <1>4 DEF MovesTo, SyncGoes, AnswerKeeps
<1> QED
  BY <1>3, <1>4, <1>5, <1>6, QuietMove

LEMMA FindRowFits ==
  ASSUME MeliInv, NEW p \in Syncs, FindRow(p)
  PROVE  MeliInv'
<1>1. sync[p] \in SyncRecords /\ SyncFits(sync[p]) /\ sync[p].goal = "find"
  BY DEF FindRow, MeliInv, MeliShape
<1> PICK s \in SyncRecords : s = sync[p]
  BY <1>1
<1>2. Item(s) \in Listings
  BY <1>1, ItemIsNext DEF SyncFits, SyncRecords
<1> PICK b \in BOOLEAN : b = property[Item(s)].there
  BY <1>2 DEF MeliInv, MeliShape, ListingRecords
<1> DEFINE u == [s EXCEPT !.found = b]
           t == Works(u, "write")
<1>3. /\ u \in SyncRecords /\ u.todo = s.todo /\ u.fetched = s.fetched /\ u.made = s.made /\ u.agent = s.agent
      /\ u.text = s.text /\ u.errors = s.errors /\ u.blanks = s.blanks
  BY DEF SyncRecords
<1>4. SyncGoes(p, t) /\ meliFaults' = meliFaults /\ UNCHANGED <<tokens, namesake, rowVars>>
  BY DEF FindRow, meliLimits
<1> HIDE DEF u
<1>5. /\ "write" \in LateGoals /\ "write" \in ImportGoals /\ "write" \notin AskGoals
      /\ "find" \in LateGoals /\ "find" \in ImportGoals /\ "find" \notin AskGoals
  BY DEF AskGoals, LateGoals, ImportGoals
<1>6. t \in SyncRecords /\ t.goal = "write" /\ t.step = "none" /\ t.agent = s.agent /\ t.text = s.text
      /\ t.todo = s.todo /\ t.fetched = s.fetched /\ t.made = s.made /\ t.errors = s.errors /\ t.blanks = s.blanks
  BY <1>3, <1>5, WorksFields
<1> HIDE DEF t
<1>7. SyncFits(t) /\ s.step = "none"
  BY <1>1, <1>5, <1>6 DEF SyncFits, SyncRecords
<1>8. MovesTo(p, t) /\ twice' \in BOOLEAN
  BY Zenon, <1>1, <1>4, <1>5, <1>6, <1>7 DEF MovesTo, SyncGoes, AnswerKeeps
<1> QED
  BY <1>4, <1>6, <1>7, <1>8, QuietMove

LEMMA StampFits ==
  ASSUME MeliInv, NEW p \in Syncs, Stamp(p)
  PROVE  MeliInv'
<1>1. sync[p] \in SyncRecords /\ SyncFits(sync[p]) /\ sync[p].goal = "stamp"
  BY DEF Stamp, MeliInv, MeliShape
<1> PICK s \in SyncRecords : s = sync[p]
  BY <1>1
<1> DEFINE t == IF s.fetched = {} THEN Works(s, "done") ELSE Asks(s, "summary")
<1>2. SyncGoes(p, t) /\ meliFaults' = meliFaults /\ UNCHANGED <<tokens, namesake, rowVars>>
  BY DEF Stamp, meliLimits
<1>3. /\ "done" \in LateGoals /\ "done" \notin ImportGoals /\ "done" \notin AskGoals
      /\ "summary" \in LateGoals /\ "summary" \notin ImportGoals /\ "summary" \in AskGoals
      /\ "stamp" \in LateGoals /\ "stamp" \notin AskGoals
  BY DEF AskGoals, LateGoals, ImportGoals
<1>4. t \in SyncRecords /\ t.agent = s.agent /\ t.text = s.text
      /\ t.todo = s.todo /\ t.fetched = s.fetched /\ t.made = s.made /\ t.errors = s.errors /\ t.blanks = s.blanks
      /\ ((t.goal = "done" /\ t.step = "none") \/ (t.goal = "summary" /\ t.step = "token"))
  <2>1. CASE s.fetched = {}
    BY <1>3, <2>1, WorksFields
  <2>2. CASE s.fetched # {}
    BY <1>3, <2>2, AsksFields
  <2> QED
    BY <2>1, <2>2
<1> HIDE DEF t
<1>5. SyncFits(t) /\ s.step = "none" /\ t.goal \notin ImportGoals
  BY <1>1, <1>3, <1>4 DEF SyncFits, SyncRecords
<1>6. MovesTo(p, t) /\ twice' \in BOOLEAN
  BY Zenon, <1>1, <1>2, <1>4, <1>5 DEF MovesTo, SyncGoes, AnswerKeeps
<1> QED
  BY <1>2, <1>4, <1>5, <1>6, QuietMove

-----------------------------------------------------------------------------

(* The refresh token is read. *)
LEMMA ReadStoredFits ==
  ASSUME MeliInv, NEW p \in Syncs, ReadStored(p)
  PROVE  MeliInv'
<1>1. /\ sync[p] \in SyncRecords /\ SyncFits(sync[p]) /\ sync[p].step = "token" /\ sync[p].goal \in AskGoals
      /\ MeliShape /\ TokenIsGood /\ TextsAreFull
  BY DEF ReadStored, MeliInv, MeliShape, SyncFits
<1>2. /\ UNCHANGED <<stored, accepted, issued, namesake, property, mixed, off, meliFaults>>
      /\ upset' = (upset \/ (stored # 0 /\ Exchanging # {}))
  BY DEF ReadStored, rowVars, meliLimits
<1>3. CASE stored = 0
  <2> PICK t \in SyncRecords : t = Unanswered(sync[p])
    BY <1>1, UnansweredFields DEF AnswerKeeps
  <2>1. AnswerKeeps(sync[p], t) /\ t.step \in {"none", "token"}
    BY <1>1, UnansweredFields DEF AnswerKeeps
  <2>2. SyncGoes(p, t)
    BY <1>3 DEF ReadStored
  <2>3. MovesTo(p, t) /\ twice' \in BOOLEAN /\ sync' = [sync EXCEPT ![p] = t]
    BY Zenon, <2>1, <2>2 DEF MovesTo, SyncGoes, AnswerKeeps
  <2>4. upset' = upset
    BY <1>1, <1>2, <1>3 DEF MeliShape
  <2>5. TokenIsGood'
    BY Zenon, <1>1, <1>2, <2>1, <2>3, <2>4, TokensStay DEF tokens
  <2>6. off
    BY <1>1, <1>3 DEF TextsAreFull
  <2> QED
    BY <1>1, <1>2, <1>3, <2>1, <2>3, <2>4, <2>5, <2>6, MoveIsFine DEF MeliShape
<1>4. CASE stored # 0
  <2> DEFINE t == [sync[p] EXCEPT !.step = "exchange", !.token = stored]
  <2>1. /\ t \in SyncRecords /\ t.step = "exchange" /\ t.token = stored /\ t.goal = sync[p].goal /\ t.todo = sync[p].todo
        /\ t.agent = sync[p].agent /\ t.text = sync[p].text /\ t.found = sync[p].found /\ t.errors = sync[p].errors
        /\ t.blanks = sync[p].blanks /\ t.made = sync[p].made /\ t.fetched = sync[p].fetched
    BY Zenon, <1>1 DEF SyncRecords, MeliShape
  <2>2. SyncGoes(p, t)
    BY <1>4 DEF ReadStored
  <2> HIDE DEF t
  <2>3. SyncFits(t) /\ Stays(sync[p], t)
    BY <1>1, <2>1 DEF SyncFits, Stays
  <2>4. MovesTo(p, t) /\ twice' \in BOOLEAN /\ sync' = [sync EXCEPT ![p] = t]
    BY Zenon, <2>1, <2>2, <2>3 DEF MovesTo, SyncGoes
  <2>5. sync'[p] = t /\ \A q \in Syncs \ {p} : sync'[q] = sync[q]
    BY <1>1, <2>4 DEF MeliShape
  <2>6. TokenIsGood'
    <3> SUFFICES ASSUME ~upset'
                 PROVE  /\ \A q, r \in Exchanging' : q = r
                        /\ stored \in accepted
                        /\ \A q \in Syncs : /\ sync'[q].step = "exchange" /\ stored # 0 => sync'[q].token = stored
                                            /\ sync'[q].step = "store" => sync'[q].token \in accepted
      BY <1>2 DEF TokenIsGood
    <3>1. ~upset /\ Exchanging = {}
      BY Zenon, <1>2, <1>4
    <3>2. \A q \in Syncs : sync[q].step \notin {"exchange", "store"}
      BY <3>1 DEF Exchanging
    <3>3. stored \in accepted
      BY <1>1, <1>4, <3>1, <3>2 DEF TokenIsGood
    <3>4. \A q \in Exchanging' : q = p
      BY <2>5, <3>2 DEF Exchanging
    <3> QED
      BY <2>1, <2>5, <3>2, <3>3, <3>4
  <2>7. stored \in 1..issued
    BY <1>1, <1>4 DEF MeliShape
  <2>8. upset' \in BOOLEAN
    BY <1>2
  <2>9. MeliShape'
    BY <1>1, <1>2, <2>1, <2>3, <2>4, <2>7, <2>8, ShapeOfSync DEF MeliShape
  <2>10. TextsAreFull'
    BY <1>1, <1>2, <2>1, <2>4, TextsOfMove DEF TextsAreFull
  <2>11. PicturesAreOnce' /\ OneAgent'
    BY <1>1, <1>2, <2>4, PicturesOfMove, AgentsOfMove DEF MeliInv
  <2> QED
    BY <2>6, <2>9, <2>10, <2>11 DEF MeliInv
<1> QED
  BY <1>3, <1>4

(* A sync whose exchange is refused goes on without an answer. *)
LEMMA RefusalFits ==
  ASSUME MeliInv, NEW p \in Syncs, sync[p].step = "exchange", stored' = 0, off' = TRUE,
         SyncGoes(p, Unanswered(sync[p])), meliFaults' \in Nat, meliFaults' = 0 => meliFaults = 0,
         UNCHANGED <<accepted, issued, upset, namesake, property, mixed>>
  PROVE  MeliInv'
<1>1. /\ sync[p] \in SyncRecords /\ SyncFits(sync[p]) /\ sync[p].goal \in AskGoals
      /\ MeliShape /\ TokenIsGood /\ TextsAreFull /\ p \in Exchanging
  BY DEF MeliInv, MeliShape, SyncFits, Exchanging
<1> PICK t \in SyncRecords : t = Unanswered(sync[p])
  BY <1>1, UnansweredFields DEF AnswerKeeps
<1>2. AnswerKeeps(sync[p], t) /\ t.step \in {"none", "token"}
  BY <1>1, UnansweredFields DEF AnswerKeeps
<1>3. MovesTo(p, t) /\ twice' \in BOOLEAN /\ sync' = [sync EXCEPT ![p] = t]
  BY Zenon, <1>2 DEF MovesTo, SyncGoes, AnswerKeeps
<1>4. sync'[p] = t /\ \A q \in Syncs \ {p} : sync'[q] = sync[q]
  BY <1>1, <1>3 DEF MeliShape
<1>5. TokenIsGood'
  <2> SUFFICES ASSUME ~upset
               PROVE  /\ \A q, r \in Exchanging' : q = r
                      /\ \A q \in Syncs : sync'[q].step = "store" => sync'[q].token \in accepted
    BY DEF TokenIsGood
  <2>1. \A q \in Syncs \ {p} : sync[q].step \notin {"exchange", "store"}
    BY <1>1 DEF TokenIsGood, Exchanging
  <2> QED
    BY <1>2, <1>4, <2>1 DEF Exchanging
<1>6. MeliShape /\ stored' \in Nat /\ stored' <= issued
  BY <1>1 DEF MeliShape
<1> QED
  BY <1>1, <1>2, <1>3, <1>5, <1>6, MoveIsFine DEF MeliShape

(* It is exchanged, or refused. *)
LEMMA ExchangeFits ==
  ASSUME MeliInv, NEW p \in Syncs, Exchange(p)
  PROVE  MeliInv'
<1>1. /\ sync[p] \in SyncRecords /\ SyncFits(sync[p]) /\ sync[p].step = "exchange" /\ sync[p].goal \in AskGoals
      /\ MeliShape /\ TokenIsGood /\ TextsAreFull /\ p \in Exchanging
  BY DEF Exchange, MeliInv, MeliShape, SyncFits, Exchanging
<1>2. UNCHANGED <<upset, namesake, property, mixed, meliFaults>>
  BY DEF Exchange, meliLimits
<1>3. CASE sync[p].token \in accepted
  <2> PICK k \in Nat : k = issued + 1
    BY <1>1 DEF MeliShape
  <2>1. /\ issued' = k /\ accepted' = (accepted \ {sync[p].token}) \cup {k}
        /\ SyncGoes(p, [sync[p] EXCEPT !.step = "store", !.token = k])
        /\ UNCHANGED <<stored, off>>
    BY <1>3 DEF Exchange
  <2> DEFINE t == [sync[p] EXCEPT !.step = "store", !.token = k]
  <2>2. /\ t \in SyncRecords /\ t.step = "store" /\ t.token = k /\ t.goal = sync[p].goal /\ t.todo = sync[p].todo
        /\ t.agent = sync[p].agent /\ t.text = sync[p].text /\ t.found = sync[p].found /\ t.errors = sync[p].errors
        /\ t.blanks = sync[p].blanks /\ t.made = sync[p].made /\ t.fetched = sync[p].fetched
    BY Zenon, <1>1 DEF SyncRecords
  <2>3. SyncGoes(p, t)
    BY <2>1
  <2> HIDE DEF t
  <2>4. SyncFits(t) /\ Stays(sync[p], t)
    BY <1>1, <2>2 DEF SyncFits, Stays
  <2>5. MovesTo(p, t) /\ twice' \in BOOLEAN /\ sync' = [sync EXCEPT ![p] = t]
    BY Zenon, <2>2, <2>3, <2>4 DEF MovesTo, SyncGoes
  <2>6. sync'[p] = t /\ \A q \in Syncs \ {p} : sync'[q] = sync[q]
    BY <1>1, <2>5 DEF MeliShape
  <2>7. TokenIsGood'
    <3> SUFFICES ASSUME ~upset
                 PROVE  /\ \A q, r \in Exchanging' : q = r
                        /\ stored # 0 /\ (\A q \in Syncs : sync'[q].step # "store") => stored \in accepted'
                        /\ \A q \in Syncs : /\ sync'[q].step = "exchange" /\ stored # 0 => sync'[q].token = stored
                                            /\ sync'[q].step = "store" => sync'[q].token \in accepted'
      BY <1>2, <2>1 DEF TokenIsGood
    <3>1. \A q \in Syncs \ {p} : sync[q].step \notin {"exchange", "store"}
      BY <1>1 DEF TokenIsGood, Exchanging
    <3>2. \A q \in Exchanging' : q = p
      BY <2>6, <3>1 DEF Exchanging
    <3> QED
      BY <2>1, <2>2, <2>6, <3>1, <3>2
  <2>8. issued <= issued' /\ issued' \in Nat /\ k \in 1..issued' /\ accepted' \subseteq 1..issued' /\ stored' <= issued'
    BY <1>1, <2>1 DEF MeliShape
  <2>9. MeliShape'
    BY <1>1, <1>2, <2>1, <2>2, <2>4, <2>5, <2>8, ShapeOfSync DEF MeliShape
  <2>10. TextsAreFull'
    BY <1>1, <1>2, <2>1, <2>2, <2>5, TextsOfMove DEF TextsAreFull
  <2>11. PicturesAreOnce' /\ OneAgent'
    BY <1>1, <1>2, <2>5, PicturesOfMove, AgentsOfMove DEF MeliInv
  <2> QED
    BY <2>7, <2>9, <2>10, <2>11 DEF MeliInv
<1>4. CASE sync[p].token \notin accepted
  <2>1. stored' = 0 /\ off' = TRUE /\ SyncGoes(p, Unanswered(sync[p])) /\ UNCHANGED <<issued, accepted>>
    BY <1>4 DEF Exchange
  <2> QED
    BY <1>1, <1>2, <2>1, RefusalFits DEF MeliShape
<1> QED
  BY <1>3, <1>4

LEMMA ExchangeErrsFits ==
  ASSUME MeliInv, NEW p \in Syncs, ExchangeErrs(p)
  PROVE  MeliInv'
<1>1. /\ stored' = 0 /\ off' = TRUE /\ SyncGoes(p, Unanswered(sync[p])) /\ sync[p].step = "exchange"
      /\ UNCHANGED <<accepted, issued, upset, namesake, property, mixed>>
  BY DEF ExchangeErrs
<1>2. meliFaults' \in Nat /\ meliFaults' # 0
  BY DEF ExchangeErrs, MeliFault, MeliInv, MeliShape
<1> QED
  BY <1>1, <1>2, RefusalFits

(* The new one is stored, and the request made with it. *)
LEMMA StoreAndGetFits ==
  ASSUME MeliInv, NEW p \in Syncs, StoreAndGet(p)
  PROVE  MeliInv'
<1>1. /\ sync[p] \in SyncRecords /\ SyncFits(sync[p]) /\ sync[p].step = "store" /\ sync[p].goal \in AskGoals
      /\ sync[p].token \in 1..issued /\ MeliShape /\ TokenIsGood /\ TextsAreFull /\ p \in Exchanging
  BY DEF StoreAndGet, MeliInv, MeliShape, SyncFits, Exchanging
<1>2. /\ UNCHANGED <<upset, accepted, issued, namesake, property, mixed, off>>
      /\ stored' = IF stored = 0 THEN 0 ELSE sync[p].token
  BY DEF StoreAndGet, rowVars, Rotated
<1>3. \E t \in SyncRecords :
        /\ AnswerKeeps(sync[p], t) /\ SyncGoes(p, t) /\ meliFaults' \in Nat
        /\ (meliFaults' = meliFaults /\ t.text \in {sync[p].text, "full"}) \/ meliFaults' # 0
  <2>1. CASE SyncGoes(p, Answered(sync[p])) /\ UNCHANGED meliLimits
    BY <1>1, <2>1, AnsweredFields DEF AnswerKeeps, meliLimits, MeliShape
  <2>2. MeliFault => meliFaults' \in Nat /\ meliFaults' # 0
    BY <1>1 DEF MeliFault, MeliShape
  <2>3. CASE MeliFault /\ SyncGoes(p, Unanswered(sync[p]))
    BY <1>1, <2>2, <2>3, UnansweredFields DEF AnswerKeeps
  <2>4. CASE MeliFault /\ SyncGoes(p, Thrown(sync[p]))
    BY <1>1, <2>2, <2>4, ThrownFields DEF AnswerKeeps
  <2>5. CASE MeliFault /\ sync[p].goal = "details" /\ SyncGoes(p, PartlyAnswered(sync[p]))
    BY <1>1, <2>2, <2>5, PartlyAnsweredFields DEF AnswerKeeps
  <2> QED
    BY <2>1, <2>3, <2>4, <2>5 DEF StoreAndGet
<1> PICK t \in SyncRecords :
      /\ AnswerKeeps(sync[p], t) /\ SyncGoes(p, t) /\ meliFaults' \in Nat
      /\ (meliFaults' = meliFaults /\ t.text \in {sync[p].text, "full"}) \/ meliFaults' # 0
  BY <1>3
<1>4. /\ MovesTo(p, t) /\ twice' \in BOOLEAN /\ sync' = [sync EXCEPT ![p] = t] /\ t.step \in {"none", "token"}
  BY Zenon DEF MovesTo, SyncGoes, AnswerKeeps
<1>5. sync'[p] = t /\ \A q \in Syncs \ {p} : sync'[q] = sync[q]
  BY <1>1, <1>4 DEF MeliShape
<1>6. TokenIsGood'
  <2> SUFFICES ASSUME ~upset
               PROVE  /\ \A q, r \in Exchanging' : q = r
                      /\ stored' # 0 => stored' \in accepted
                      /\ \A q \in Syncs : sync'[q].step \notin {"exchange", "store"}
    BY <1>2 DEF TokenIsGood
  <2>1. \A q \in Syncs \ {p} : sync[q].step \notin {"exchange", "store"}
    BY <1>1 DEF TokenIsGood, Exchanging
  <2>2. sync[p].token \in accepted
    BY <1>1 DEF TokenIsGood
  <2> QED
    BY <1>2, <1>4, <1>5, <2>1, <2>2 DEF Exchanging
<1>7. /\ stored' \in Nat /\ stored' <= issued /\ (stored' = 0 => stored = 0)
      /\ (meliFaults' = 0 => meliFaults = 0)
  BY <1>1, <1>2 DEF MeliShape
<1>8. /\ stored = 0 => off
      /\ t.text \in {sync[p].text, "full"} \/ meliFaults' # 0
  BY <1>1 DEF TextsAreFull
<1> QED
  BY <1>1, <1>2, <1>4, <1>6, <1>7, <1>8, MoveIsFine DEF MeliShape

(* Neither is answered. *)
LEMMA ExchangeThrowsFits ==
  ASSUME MeliInv, NEW p \in Syncs, ExchangeThrows(p)
  PROVE  MeliInv'
<1>1. /\ sync[p] \in SyncRecords /\ SyncFits(sync[p]) /\ sync[p].step \in {"exchange", "store"} /\ sync[p].goal \in AskGoals
      /\ MeliShape /\ TokenIsGood /\ TextsAreFull /\ p \in Exchanging
  BY DEF ExchangeThrows, MeliInv, MeliShape, SyncFits, Exchanging
<1>2. UNCHANGED <<stored, issued, namesake, property, mixed, off>>
  BY DEF ExchangeThrows, rowVars
<1>3. meliFaults' \in Nat /\ meliFaults' # 0
  BY <1>1 DEF ExchangeThrows, MeliFault, MeliShape
<1> PICK t \in SyncRecords : t = Thrown(sync[p])
  BY <1>1, ThrownFields DEF AnswerKeeps
<1>4. AnswerKeeps(sync[p], t) /\ t.step \in {"none", "token"} /\ SyncGoes(p, t)
  BY <1>1, ThrownFields DEF AnswerKeeps, ExchangeThrows
<1>5. MovesTo(p, t) /\ twice' \in BOOLEAN /\ sync' = [sync EXCEPT ![p] = t]
  BY Zenon, <1>4 DEF MovesTo, SyncGoes, AnswerKeeps
<1>6. sync'[p] = t /\ \A q \in Syncs \ {p} : sync'[q] = sync[q]
  BY <1>1, <1>5 DEF MeliShape
<1>7. (sync[p].step = "exchange" /\ accepted' = accepted /\ upset' = upset)
      \/ (accepted' = accepted \ {sync[p].token} /\ upset' = TRUE)
  BY DEF ExchangeThrows
<1>8. TokenIsGood'
  <2> SUFFICES ASSUME ~upset, sync[p].step = "exchange", accepted' = accepted, ~upset'
               PROVE  /\ \A q, r \in Exchanging' : q = r
                      /\ stored # 0 => stored \in accepted
                      /\ \A q \in Syncs : sync'[q].step \notin {"exchange", "store"}
    BY <1>2, <1>7 DEF TokenIsGood
  <2>1. \A q \in Syncs \ {p} : sync[q].step \notin {"exchange", "store"}
    BY <1>1 DEF TokenIsGood, Exchanging
  <2>2. stored # 0 => stored \in accepted
    BY <1>1, <2>1 DEF TokenIsGood
  <2> QED
    BY <1>4, <1>6, <2>1, <2>2 DEF Exchanging
<1>9. accepted' \subseteq 1..issued /\ upset' \in BOOLEAN
  BY Zenon, <1>1, <1>7 DEF MeliShape
<1> QED
  BY <1>1, <1>2, <1>3, <1>4, <1>5, <1>8, <1>9, MoveIsFine DEF MeliShape, TextsAreFull

-----------------------------------------------------------------------------

(* The agent of the seller is one some row has, or is asked for. *)
LEMMA MapSellerFits ==
  ASSUME MeliInv, NEW p \in Syncs, MapSeller(p)
  PROVE  MeliInv'
<1>1. /\ sync[p] \in SyncRecords /\ SyncFits(sync[p]) /\ sync[p].goal = "map" /\ MeliShape
  BY DEF MapSeller, MeliInv, MeliShape
<1> PICK s \in SyncRecords : s = sync[p]
  BY <1>1
<1> DEFINE taken == {property[l].agent : l \in {k \in Listings : property[k].there}} \ {Nobody}
<1>2. /\ meliFaults' = meliFaults /\ UNCHANGED <<tokens, namesake, rowVars>>
      /\ IF s.fetched = {} THEN SyncGoes(p, NextListing(s))
         ELSE IF taken = {} THEN SyncGoes(p, Asks(s, "seller"))
         ELSE \E a \in taken :
                /\ sync' = [sync EXCEPT ![p] = NextListing([s EXCEPT !.agent = a])]
                /\ twice' = (twice \/ Importing # {})
  BY Zenon DEF MapSeller, meliLimits
<1>3. taken = Given
  <2>1. \A l \in Listings : property[l].agent # Nobody => property[l].there /\ property[l].agent \in Sellers
    BY <1>1 DEF MeliShape, ListingRecords, NoListing
  <2>2. Nobody \notin Sellers
    BY MeliAssumption
  <2>3. \A x \in taken : x \in Given
    BY <2>1 DEF Given
  <2>4. \A x \in Given : x \in taken
    BY <2>1, <2>2 DEF Given
  <2> QED
    BY <2>3, <2>4
<1> HIDE DEF taken
<1>4. /\ s.step = "none" /\ s.agent = Nobody /\ s.goal \notin ImportGoals
      /\ s.made \subseteq s.fetched /\ s.todo \subseteq s.fetched
      /\ s.blanks = 0 => s.fetched = Listings
      /\ s.errors = 0 => s.fetched = s.made \cup s.todo
  BY <1>1 DEF SyncFits, AskGoals, LateGoals, ImportGoals, SyncRecords
<1>5. CASE s.fetched = {}
  <2> PICK t \in SyncRecords : t = NextListing(s)
    BY NextListingFields
  <2>1. SyncGoes(p, t) /\ SyncFits(t)
    BY Zenon, <1>2, <1>4, <1>5, NextListingFits
  <2>2. t.goal = "stamp" /\ t.step = "none" /\ t.text \in {s.text, "full"}
    BY <1>4, <1>5, NextListingFields
  <2>3. MovesTo(p, t) /\ twice' \in BOOLEAN
    BY Zenon, <1>1, <2>1, <2>2 DEF MovesTo, SyncGoes, AnswerKeeps, ImportGoals
  <2> QED
    BY <1>2, <1>4, <2>2, <2>3, QuietMove
<1>6. ASSUME NEW t \in SyncRecords, SyncFits(t), sync' = [sync EXCEPT ![p] = t], t.step \in {"none", "token"},
             t.text \in {s.text, "full"}, twice' = (twice \/ Importing # {}), t.goal # "attach", OneAgent'
      PROVE  MeliInv'
  <2>1. TokenIsGood'
    BY Zenon, <1>2, <1>4, <1>6, TokensStay, <1>1 DEF MeliInv
  <2>2. MeliShape'
    BY <1>1, <1>2, <1>6, ShapeOfSync DEF MeliShape, tokens, rowVars
  <2>3. TextsAreFull'
    BY <1>1, <1>2, <1>6, TextsOfMove DEF MeliInv, tokens, rowVars, TextsAreFull
  <2>4. PicturesAreOnce'
    <3> SUFFICES ASSUME ~twice'
                 PROVE  /\ \A q, r \in Importing' : q = r
                        /\ \A l \in Listings : property[l].media <= 1
                        /\ \A q \in Syncs : sync'[q].goal = "attach" /\ ~sync'[q].found => property[Item(sync'[q])].media = 0
      BY <1>2 DEF PicturesAreOnce, rowVars
    <3>1. ~twice /\ Importing = {}
      BY Zenon, <1>6
    <3>2. sync'[p] = t /\ \A q \in Syncs \ {p} : sync'[q] = sync[q]
      BY <1>1, <1>6 DEF MeliShape
    <3>3. \A q \in Importing' : q = p
      BY <3>1, <3>2 DEF Importing
    <3>4. \A l \in Listings : property[l].media <= 1
      BY <3>1 DEF MeliInv, PicturesAreOnce
    <3>5. \A q \in Syncs : sync'[q].goal # "attach"
      BY <3>1, <3>2, <1>6 DEF Importing
    <3> QED
      BY <3>3, <3>4, <3>5
  <2> QED
    BY <1>6, <2>1, <2>2, <2>3, <2>4 DEF MeliInv
<1>7. CASE s.fetched # {} /\ taken = {}
  <2> PICK t \in SyncRecords : t = Asks(s, "seller")
    BY AsksFields DEF AskGoals
  <2>1. /\ SyncGoes(p, t)
    BY <1>2, <1>7
  <2>2. "seller" \in AskGoals /\ "seller" \in LateGoals /\ "map" \in LateGoals
    BY DEF AskGoals, LateGoals
  <2>3. t.goal = "seller" /\ t.step = "token" /\ t.text = s.text /\ t.agent = Nobody
        /\ t.todo = s.todo /\ t.fetched = s.fetched /\ t.made = s.made /\ t.errors = s.errors /\ t.blanks = s.blanks
    BY <1>4, <2>2, AsksFields
  <2>4. SyncFits(t)
    BY <1>4, <2>2, <2>3 DEF SyncFits
  <2>5. sync' = [sync EXCEPT ![p] = t] /\ twice' = (twice \/ Importing # {})
    <3>1. p \notin Importing
      BY <1>4, ImportingIs
    <3>2. Importing \ {p} = Importing
      BY <3>1
    <3> QED
      BY <2>1, <2>3, <3>2 DEF SyncGoes
  <2>6. OneAgent'
    <3> SUFFICES ASSUME ~mixed
                 PROVE  \A x \in Held' : x = namesake
      BY <1>2 DEF OneAgent, rowVars
    <3>1. Held \subseteq {namesake}
      BY <1>3, <1>7 DEF MeliInv, OneAgent
    <3>2. Given' = Given
      BY <1>2 DEF Given, rowVars
    <3>3. sync'[p] = t /\ \A q \in Syncs \ {p} : sync'[q] = sync[q]
      BY <1>1, <2>5 DEF MeliShape
    <3>4. \A x \in Sellers : Coming(x)' => x = namesake \/ Coming(x)
      <4> SUFFICES ASSUME NEW x \in Sellers, Coming(x)', x # namesake PROVE Coming(x)
        OBVIOUS
      <4> PICK q \in Importing' : sync'[q].agent = x
        BY <1>2 DEF Coming
      <4>1. q # p
        BY <2>3, <3>3, MeliAssumption
      <4> QED
        BY <3>3, <4>1 DEF Coming, Importing
    <3> QED
      BY <3>1, <3>2, <3>4 DEF Held
  <2> QED
    BY Zenon, <1>6, <2>3, <2>4, <2>5, <2>6
<1>8. CASE s.fetched # {} /\ taken # {}
  <2> PICK a \in taken :
        /\ sync' = [sync EXCEPT ![p] = NextListing([s EXCEPT !.agent = a])]
        /\ twice' = (twice \/ Importing # {})
    BY Zenon, <1>2, <1>8
  <2>1. a \in Given /\ a \in Sellers
    BY <1>3 DEF Given
  <2> DEFINE u == [s EXCEPT !.agent = a]
             t == NextListing(u)
  <2>2. /\ u \in SyncRecords /\ u.todo = s.todo /\ u.fetched = s.fetched /\ u.made = s.made /\ u.agent = a
        /\ u.text = s.text /\ u.errors = s.errors /\ u.blanks = s.blanks
    BY <2>1 DEF SyncRecords
  <2>3. sync' = [sync EXCEPT ![p] = t]
    OBVIOUS
  <2> HIDE DEF u
  <2>4. t \in SyncRecords /\ SyncFits(t) /\ t.agent = a /\ t.text \in {s.text, "full"} /\ t.step \in {"none", "token"}
        /\ t.goal \in {"stamp", "describe"}
    BY <1>4, <2>2, NextListingFields, NextListingFits
  <2> HIDE DEF t
  <2>5. OneAgent'
    <3>1. Given' = Given
      BY <1>2 DEF Given, rowVars
    <3>2. sync'[p] = t /\ \A q \in Syncs \ {p} : sync'[q] = sync[q]
      BY <1>1, <2>3 DEF MeliShape
    <3>3. \A x \in Sellers : Coming(x)' => x \in Given \/ Coming(x)
      <4> SUFFICES ASSUME NEW x \in Sellers, Coming(x)', x # a PROVE Coming(x)
        BY <2>1
      <4>1. CASE \E q \in Importing' : sync'[q].agent = x
        <5> PICK q \in Importing' : sync'[q].agent = x
          BY <4>1
        <5>1. q # p
          BY <2>4, <3>2
        <5> QED
          BY <3>2, <5>1 DEF Coming, Importing
      <4>2. CASE x = namesake /\ \E q \in Syncs : sync'[q].goal = "seller"
        <5> PICK q \in Syncs : sync'[q].goal = "seller"
          BY <4>2
        <5>1. q # p
          BY <2>4, <3>2
        <5> QED
          BY <3>2, <4>2, <5>1 DEF Coming
      <4> QED
        BY <4>1, <4>2, <1>2 DEF Coming
    <3> QED
      BY <1>2, <3>1, <3>3, AgentsAsBefore DEF MeliInv, rowVars
  <2> QED
    BY Zenon, <1>6, <2>3, <2>4, <2>5
<1> QED
  BY <1>5, <1>7, <1>8

(* A row is written: what is so but for its pictures. *)
LEMMA RowIsWritten ==
  ASSUME MeliInv, NEW p \in Syncs, NEW t \in SyncRecords, SyncFits(t), sync' = [sync EXCEPT ![p] = t],
         sync[p].goal \in ImportGoals, sync[p].step \in {"none", "token"}, t.step \in {"none", "token"},
         t.goal # "seller", t.agent = sync[p].agent, t.text \in {sync[p].text, "full"},
         NEW l \in Listings, NEW r \in ListingRecords, r.there, property' = [property EXCEPT ![l] = r],
         r.text \in {sync[p].text, property[l].text}, r.agent \in {sync[p].agent, property[l].agent},
         property[l].agent # Nobody => r.agent # Nobody,
         twice' = twice, UNCHANGED <<tokens, namesake, mixed, off, meliFaults>>, PicturesAreOnce'
  PROVE  MeliInv'
<1>1. MeliShape /\ TextsAreFull /\ OneAgent
  BY DEF MeliInv
<1>2. property'[l] = r /\ \A k \in Listings \ {l} : property'[k] = property[k]
  BY <1>1 DEF MeliShape
<1>3. sync'[p] = t /\ \A q \in Syncs \ {p} : sync'[q] = sync[q]
  BY <1>1 DEF MeliShape
<1>4. TokenIsGood'
  BY Zenon, <1>1, TokensStay DEF MeliInv
<1>5. MeliShape'
  <2>1. property' \in [Listings -> ListingRecords] /\ \A k \in Listings : property'[k].there \/ property'[k] = NoListing
    BY <1>1, <1>2 DEF MeliShape
  <2>2. issued' = issued /\ issued \in Nat /\ issued <= issued'
    BY <1>1 DEF MeliShape, tokens
  <2> QED
    BY <1>1, <2>1, <2>2, ShapeOfSync DEF MeliShape, tokens
<1>6. TextsAreFull'
  <2> SUFFICES ASSUME meliFaults = 0, ~off
               PROVE  /\ \A k \in Listings : property'[k].text # "title"
                      /\ \A q \in Syncs : sync'[q].text # "title"
    BY <1>1 DEF TextsAreFull, tokens
  <2>1. /\ \A k \in Listings : property[k].text # "title"
        /\ \A q \in Syncs : sync[q].text # "title"
    BY <1>1 DEF TextsAreFull
  <2> QED
    BY <1>2, <1>3, <2>1
<1>7. OneAgent'
  <2>1. Nobody \notin Sellers /\ r.agent \in Sellers \cup {Nobody}
    BY MeliAssumption DEF ListingRecords
  <2>2. ASSUME Given' = {} PROVE Given = {}
    <3> SUFFICES ASSUME NEW x \in Sellers, NEW k \in Listings, property[k].agent = x PROVE FALSE
      BY DEF Given
    <3>1. property'[k].agent \in Sellers
      BY <1>2, <2>1
    <3> QED
      BY <2>2, <3>1 DEF Given
  <2>3. p \in Importing
    BY ImportingIs
  <2>4. ASSUME NEW x \in Sellers, x \in Given' PROVE x \in Given \/ Coming(x)
    <3> PICK k \in Listings : property'[k].agent = x
      BY <2>4 DEF Given
    <3> QED
      BY <1>2, <2>3 DEF Given, Coming
  <2>5. ASSUME NEW x \in Sellers, Coming(x)' PROVE Coming(x)
    <3>1. CASE \E q \in Importing' : sync'[q].agent = x
      <4> PICK q \in Importing' : sync'[q].agent = x
        BY <3>1
      <4>1. q \in Importing
        BY <1>3, <2>3 DEF Importing
      <4>2. sync[q].agent = x
        BY <1>3, <4>1
      <4> QED
        BY <4>1, <4>2 DEF Coming
    <3>2. CASE x = namesake /\ \E q \in Syncs : sync'[q].goal = "seller"
      <4> PICK q \in Syncs : sync'[q].goal = "seller"
        BY <3>2
      <4> QED
        BY <1>3, <3>2 DEF Coming
    <3> QED
      BY <2>5, <3>1, <3>2 DEF Coming
  <2> QED
    BY <1>1, <2>2, <2>4, <2>5, AgentsAsBefore
<1> QED
  BY <1>4, <1>5, <1>6, <1>7 DEF MeliInv

LEMMA WriteRowFits ==
  ASSUME MeliInv, NEW p \in Syncs, WriteRow(p)
  PROVE  MeliInv'
<1>1. /\ sync[p] \in SyncRecords /\ SyncFits(sync[p]) /\ sync[p].goal = "write" /\ MeliShape
  BY DEF WriteRow, MeliInv, MeliShape
<1> PICK s \in SyncRecords : s = sync[p]
  BY <1>1
<1>2. Item(s) \in Listings
  BY <1>1, ItemIsNext DEF SyncFits, SyncRecords
<1> PICK l \in Listings : l = Item(s)
  BY <1>2
<1> PICK row \in ListingRecords : row = property[l]
  BY <1>1 DEF MeliShape
<1>3. /\ UNCHANGED <<tokens, namesake, mixed, off, meliFaults>>
      /\ IF row.there # s.found THEN SyncGoes(p, Fails(s)) /\ UNCHANGED property
         ELSE /\ property' = [property EXCEPT ![l] = [row EXCEPT !.there = TRUE, !.text = s.text, !.agent = Written(s, row)]]
              /\ SyncGoes(p, Works([s EXCEPT !.found = row.media > 0], "attach"))
  BY <1>1 DEF WriteRow, meliLimits, MeliShape
<1>4. /\ "write" \in LateGoals /\ "write" \in ImportGoals /\ "write" \notin AskGoals
      /\ "attach" \in LateGoals /\ "attach" \in ImportGoals /\ "attach" \notin AskGoals
  BY DEF AskGoals, LateGoals, ImportGoals
<1>5. s.step = "none"
  BY <1>1, <1>4 DEF SyncFits, SyncRecords
<1>6. CASE row.there # s.found
  <2> PICK t \in SyncRecords : t = Fails(s)
    BY <1>1, FailsFields
  <2>1. SyncGoes(p, t) /\ UNCHANGED property
    BY <1>3, <1>6
  <2>2. SyncFits(t) /\ t.goal \in {"stamp", "describe"} /\ t.step \in {"none", "token"} /\ t.agent = s.agent
        /\ t.text \in {s.text, "full"}
    BY <1>1, FailsFields
  <2>3. MovesTo(p, t) /\ twice' \in BOOLEAN
    BY Zenon, <1>1, <1>4, <2>1, <2>2 DEF MovesTo, SyncGoes, AnswerKeeps
  <2> QED
    BY <1>3, <1>5, <2>1, <2>2, <2>3, QuietMove DEF rowVars
<1>7. CASE row.there = s.found
  <2> DEFINE b == row.media > 0
  <2>0. b \in BOOLEAN /\ (~b => row.media = 0)
    <3>1. row.media \in Nat
      BY DEF ListingRecords
    <3>2. ~b => row.media = 0
      BY <3>1
    <3>3. b \in BOOLEAN
      OBVIOUS
    <3> QED
      BY <3>2, <3>3
  <2> PICK a \in Sellers \cup {Nobody} : a = Written(s, row)
    BY DEF Written, SyncRecords, ListingRecords
  <2> DEFINE u == [s EXCEPT !.found = b]
             t == Works(u, "attach")
             r == [row EXCEPT !.there = TRUE, !.text = s.text, !.agent = a]
  <2>3. property' = [property EXCEPT ![l] = r] /\ SyncGoes(p, t)
    BY <1>3, <1>7
  <2> HIDE DEF b
  <2>1. /\ u \in SyncRecords /\ u.found = b /\ u.todo = s.todo /\ u.fetched = s.fetched /\ u.made = s.made /\ u.agent = s.agent
        /\ u.text = s.text /\ u.errors = s.errors /\ u.blanks = s.blanks
    BY <2>0 DEF SyncRecords
  <2>2. r \in ListingRecords /\ r.there /\ r.text = s.text /\ r.agent = a /\ r.media = row.media
    BY Zenon DEF ListingRecords, SyncRecords
  <2> HIDE DEF u, r
  <2>4. t \in SyncRecords /\ t.goal = "attach" /\ t.step = "none" /\ t.agent = s.agent /\ t.text = s.text /\ t.found = b
      /\ t.todo = s.todo /\ t.fetched = s.fetched /\ t.made = s.made /\ t.errors = s.errors /\ t.blanks = s.blanks
    BY <1>4, <2>1, WorksFields
  <2> HIDE DEF t
  <2>5. SyncFits(t)
    BY <1>1, <1>4, <2>4 DEF SyncFits
  <2>6. sync' = [sync EXCEPT ![p] = t] /\ twice' = twice
    BY <1>1, <2>3, <2>4 DEF SyncGoes, MeliShape
  <2>7. a \in {s.agent, row.agent} /\ (row.agent # Nobody => a # Nobody)
    BY DEF Written
  <2>8. PicturesAreOnce'
    <3> SUFFICES ASSUME ~twice
                 PROVE  /\ \A q, k \in Importing' : q = k
                        /\ \A k \in Listings : property'[k].media <= 1
                        /\ \A q \in Syncs : sync'[q].goal = "attach" /\ ~sync'[q].found => property'[Item(sync'[q])].media = 0
      BY <2>6 DEF PicturesAreOnce
    <3>1. sync'[p] = t /\ \A q \in Syncs \ {p} : sync'[q] = sync[q]
      BY <1>1, <2>6 DEF MeliShape
    <3>2. property'[l] = r /\ \A k \in Listings \ {l} : property'[k] = property[k]
      BY <1>1, <2>3 DEF MeliShape
    <3>3. p \in Importing
      BY <1>1, <1>4, ImportingIs
    <3>4. /\ \A q, k \in Importing : q = k
          /\ \A k \in Listings : property[k].media <= 1
      BY DEF MeliInv, PicturesAreOnce
    <3>5. \A q \in Syncs \ {p} : q \notin Importing
      BY <3>3, <3>4
    <3>6. \A q \in Syncs \ {p} : q \notin Importing' /\ sync'[q].goal # "attach"
      BY <3>1, <3>5 DEF Importing
    <3>7. ~t.found => property'[Item(t)].media = 0
      <4>1. Item(t) = l
        BY <2>4 DEF Item
      <4> QED
        BY <2>0, <2>2, <2>4, <3>2, <4>1
    <3>8. Importing' \subseteq Syncs
      BY DEF Importing
    <3> QED
      BY <2>2, <3>1, <3>2, <3>4, <3>6, <3>7, <3>8
  <2>9. /\ sync[p].goal \in ImportGoals /\ sync[p].step \in {"none", "token"} /\ t.step \in {"none", "token"}
        /\ t.goal # "seller" /\ t.agent = sync[p].agent /\ t.text \in {sync[p].text, "full"}
    BY <1>1, <1>4, <1>5, <2>4
  <2>10. /\ r.there /\ r.text \in {sync[p].text, property[l].text} /\ r.agent \in {sync[p].agent, property[l].agent}
         /\ (property[l].agent # Nobody => r.agent # Nobody)
    BY <2>2, <2>7
  <2>11. r \in ListingRecords /\ t \in SyncRecords
    BY <2>2, <2>4
  <2>12. property' = [property EXCEPT ![l] = r] /\ UNCHANGED <<tokens, namesake, mixed, off, meliFaults>>
    BY <1>3, <2>3
  <2> QED
    BY Zenon, <2>5, <2>6, <2>8, <2>9, <2>10, <2>11, <2>12, RowIsWritten
<1> QED
  BY <1>6, <1>7

LEMMA AttachMediaFits ==
  ASSUME MeliInv, NEW p \in Syncs, AttachMedia(p)
  PROVE  MeliInv'
<1>1. /\ sync[p] \in SyncRecords /\ SyncFits(sync[p]) /\ sync[p].goal = "attach" /\ MeliShape
  BY DEF AttachMedia, MeliInv, MeliShape
<1> PICK s \in SyncRecords : s = sync[p]
  BY <1>1
<1>2. Item(s) \in s.todo /\ Item(s) \in Listings
  BY <1>1, ItemIsNext DEF SyncFits, SyncRecords
<1> PICK l \in Listings : l = Item(s)
  BY <1>2
<1> PICK row \in ListingRecords : row = property[l]
  BY <1>1 DEF MeliShape
<1> PICK done \in SUBSET Listings : done = s.made \cup {l}
  BY Zenon DEF SyncRecords
<1> PICK rest \in SUBSET Listings : rest = s.todo \ {l}
  BY Zenon DEF SyncRecords
<1> DEFINE u == [s EXCEPT !.made = done, !.todo = rest]
           t == NextListing(u)
<1>3. /\ UNCHANGED <<tokens, namesake, mixed, off, meliFaults>>
      /\ IF ~s.found /\ ~row.there THEN SyncGoes(p, Fails(s)) /\ UNCHANGED property
         ELSE /\ property' = IF ~s.found THEN [property EXCEPT ![l].media = @ + 1] ELSE property
              /\ SyncGoes(p, t)
  BY <1>1 DEF AttachMedia, Missing, meliLimits, MeliShape
<1>4. "attach" \in LateGoals /\ "attach" \in ImportGoals /\ "attach" \notin AskGoals
  BY DEF AskGoals, LateGoals, ImportGoals
<1>5. s.step = "none"
  BY <1>1, <1>4 DEF SyncFits, SyncRecords
<1>6. /\ u \in SyncRecords /\ u.todo = rest /\ u.fetched = s.fetched /\ u.made = done /\ u.agent = s.agent
      /\ u.text = s.text /\ u.errors = s.errors /\ u.blanks = s.blanks
  BY Zenon DEF SyncRecords
<1> HIDE DEF u
<1>7. /\ t \in SyncRecords /\ t.agent = s.agent /\ t.text \in {s.text, "full"} /\ t.step \in {"none", "token"}
      /\ t.goal \in {"stamp", "describe"}
  BY <1>6, NextListingFields
<1>8. SyncFits(t)
  BY <1>1, <1>2, <1>4, <1>6, NextListingFits DEF SyncFits
<1> HIDE DEF t
<1>9. CASE ~s.found /\ ~row.there
  <2> PICK w \in SyncRecords : w = Fails(s)
    BY <1>1, FailsFields
  <2>1. SyncGoes(p, w) /\ UNCHANGED property
    BY <1>3, <1>9
  <2>2. SyncFits(w) /\ w.goal \in {"stamp", "describe"} /\ w.step \in {"none", "token"} /\ w.agent = s.agent
        /\ w.text \in {s.text, "full"}
    BY <1>1, FailsFields
  <2>3. MovesTo(p, w) /\ twice' \in BOOLEAN
    BY Zenon, <1>1, <1>4, <2>1, <2>2 DEF MovesTo, SyncGoes, AnswerKeeps
  <2> QED
    BY <1>3, <1>5, <2>1, <2>2, <2>3, QuietMove DEF rowVars
<1>10. CASE s.found
  <2>1. SyncGoes(p, t) /\ UNCHANGED property
    BY <1>3, <1>10
  <2>2. MovesTo(p, t) /\ twice' \in BOOLEAN
    BY Zenon, <1>1, <1>4, <1>7, <1>8, <2>1 DEF MovesTo, SyncGoes, AnswerKeeps
  <2> QED
    BY <1>3, <1>5, <1>7, <2>1, <2>2, QuietMove DEF rowVars
<1>11. CASE ~s.found /\ row.there
  <2> PICK n \in Nat : n = row.media + 1
    BY DEF ListingRecords
  <2> DEFINE r == [row EXCEPT !.media = n]
  <2>1. r \in ListingRecords /\ r.there /\ r.text = row.text /\ r.agent = row.agent /\ r.media = n
    BY <1>11 DEF ListingRecords
  <2>2. property' = [property EXCEPT ![l] = r] /\ SyncGoes(p, t)
    BY <1>3, <1>11
  <2> HIDE DEF r
  <2>3. sync' = [sync EXCEPT ![p] = t] /\ twice' = twice
    BY <1>1, <1>7, <2>2 DEF SyncGoes, MeliShape
  <2>4. PicturesAreOnce'
    <3> SUFFICES ASSUME ~twice
                 PROVE  /\ \A q, k \in Importing' : q = k
                        /\ \A k \in Listings : property'[k].media <= 1
                        /\ \A q \in Syncs : sync'[q].goal # "attach"
      BY <2>3 DEF PicturesAreOnce
    <3>1. sync'[p] = t /\ \A q \in Syncs \ {p} : sync'[q] = sync[q]
      BY <1>1, <2>3 DEF MeliShape
    <3>2. property'[l] = r /\ \A k \in Listings \ {l} : property'[k] = property[k]
      BY <1>1, <2>2 DEF MeliShape
    <3>3. p \in Importing
      BY <1>1, <1>4, ImportingIs
    <3>4. /\ \A q, k \in Importing : q = k
          /\ \A k \in Listings : property[k].media <= 1
          /\ property[l].media = 0
      BY <1>1, <1>11 DEF MeliInv, PicturesAreOnce
    <3>5. \A q \in Syncs \ {p} : q \notin Importing
      BY <3>3, <3>4
    <3>6. \A q \in Syncs \ {p} : q \notin Importing' /\ sync'[q].goal # "attach"
      BY <3>1, <3>5 DEF Importing
    <3>7. Importing' \subseteq Syncs
      BY DEF Importing
    <3>8. n <= 1
      BY <3>4
    <3> QED
      BY <1>7, <2>1, <3>1, <3>2, <3>4, <3>6, <3>7, <3>8
  <2>5. /\ sync[p].goal \in ImportGoals /\ sync[p].step \in {"none", "token"} /\ t.step \in {"none", "token"}
        /\ t.goal # "seller" /\ t.agent = sync[p].agent /\ t.text \in {sync[p].text, "full"}
    BY <1>1, <1>4, <1>5, <1>7
  <2>6. /\ r.there /\ r.text \in {sync[p].text, property[l].text} /\ r.agent \in {sync[p].agent, property[l].agent}
        /\ (property[l].agent # Nobody => r.agent # Nobody)
    BY <2>1
  <2>7. r \in ListingRecords /\ t \in SyncRecords
    BY <1>7, <2>1
  <2>8. property' = [property EXCEPT ![l] = r] /\ UNCHANGED <<tokens, namesake, mixed, off, meliFaults>>
    BY <1>3, <2>2
  <2> QED
    BY Zenon, <1>8, <2>3, <2>4, <2>5, <2>6, <2>7, <2>8, RowIsWritten
<1> QED
  BY <1>9, <1>10, <1>11

-----------------------------------------------------------------------------

LEMMA ConnectFits ==
  ASSUME MeliInv, Connect
  PROVE  MeliInv'
<1>1. MeliShape /\ TextsAreFull /\ PicturesAreOnce /\ OneAgent
  BY DEF MeliInv
<1>2. /\ issued' = issued + 1 /\ accepted' = accepted \cup {issued + 1} /\ stored' = issued + 1
      /\ upset' = (Exchanging # {}) /\ UNCHANGED <<namesake, property, mixed, off, sync, twice, meliFaults>>
  BY DEF Connect, MeliMove, rowVars
<1>3. MeliShape'
  <2>1. 1..issued \subseteq 1..issued' /\ issued' \in Nat
    BY <1>1, <1>2 DEF MeliShape
  <2>2. stored' <= issued' /\ accepted' \subseteq 1..issued' /\ stored' \in Nat
    BY <1>1, <1>2 DEF MeliShape
  <2>3. \A p \in Syncs : sync[p].step \in {"exchange", "store"} => sync[p].token \in 1..issued'
    BY <1>1, <2>1 DEF MeliShape
  <2> QED
    BY <1>1, <1>2, <2>1, <2>2, <2>3 DEF MeliShape
<1>4. TokenIsGood'
  <2> SUFFICES ASSUME Exchanging = {} PROVE TokenIsGood'
    BY Zenon, <1>2 DEF TokenIsGood
  <2>1. \A p \in Syncs : sync[p].step \notin {"exchange", "store"}
    BY DEF Exchanging
  <2>2. Exchanging' = {}
    BY <1>2 DEF Exchanging
  <2> QED
    BY <1>2, <2>1, <2>2 DEF TokenIsGood
<1>5. stored' # 0
  BY <1>1, <1>2 DEF MeliShape
<1>6. TextsAreFull'
  BY <1>1, <1>2, <1>5 DEF TextsAreFull
<1>7. PicturesAreOnce'
  BY <1>1, <1>2 DEF PicturesAreOnce, Importing, Item
<1>8. OneAgent'
  BY <1>1, <1>2 DEF OneAgent, Held, Given, Coming, Importing
<1> QED
  BY <1>3, <1>4, <1>6, <1>7, <1>8 DEF MeliInv

LEMMA DisconnectFits ==
  ASSUME MeliInv, DisconnectMeli
  PROVE  MeliInv'
<1>1. MeliShape /\ TokenIsGood /\ TextsAreFull /\ PicturesAreOnce /\ OneAgent
  BY DEF MeliInv
<1>2. /\ stored' = 0 /\ off' = TRUE
      /\ UNCHANGED <<accepted, issued, upset, namesake, property, mixed, sync, twice, meliFaults>>
  BY DEF DisconnectMeli, MeliMove
<1>3. MeliShape'
  BY <1>1, <1>2 DEF MeliShape
<1>4. TokenIsGood'
  BY <1>1, <1>2 DEF TokenIsGood, Exchanging
<1>5. TextsAreFull'
  BY <1>2 DEF TextsAreFull
<1>6. PicturesAreOnce'
  BY <1>1, <1>2 DEF PicturesAreOnce, Importing, Item
<1>7. OneAgent'
  BY <1>1, <1>2 DEF OneAgent, Held, Given, Coming, Importing
<1> QED
  BY <1>3, <1>4, <1>5, <1>6, <1>7 DEF MeliInv

LEMMA WithdrawFits ==
  ASSUME MeliInv, WithdrawAccess
  PROVE  MeliInv'
<1>1. MeliShape /\ TextsAreFull /\ PicturesAreOnce /\ OneAgent
  BY DEF MeliInv
<1>2. /\ accepted' = {} /\ upset' = TRUE
      /\ UNCHANGED <<stored, issued, namesake, property, off, mixed, sync, twice, meliFaults>>
  BY DEF WithdrawAccess, MeliMove, rowVars
<1>3. MeliShape' /\ TokenIsGood'
  BY <1>1, <1>2 DEF MeliShape, TokenIsGood
<1>4. TextsAreFull'
  BY <1>1, <1>2 DEF TextsAreFull
<1>5. PicturesAreOnce'
  BY <1>1, <1>2 DEF PicturesAreOnce, Importing, Item
<1>6. OneAgent'
  BY <1>1, <1>2 DEF OneAgent, Held, Given, Coming, Importing
<1> QED
  BY <1>3, <1>4, <1>5, <1>6 DEF MeliInv

LEMMA AssignSellerFits ==
  ASSUME MeliInv, NEW a \in Sellers, AssignSeller(a)
  PROVE  MeliInv'
<1>1. MeliShape /\ TokenIsGood /\ TextsAreFull /\ PicturesAreOnce
  BY DEF MeliInv
<1>2. /\ mixed' = (Importing # {}) /\ \E l \in Listings : property[l].there
      /\ property' = [l \in Listings |-> IF property[l].there THEN [property[l] EXCEPT !.agent = a] ELSE NoListing]
      /\ UNCHANGED <<stored, accepted, issued, upset, namesake, sync, off, twice, meliFaults>>
  BY DEF AssignSeller, MeliMove, tokens
<1>3. ASSUME NEW l \in Listings
      PROVE  /\ property'[l] \in ListingRecords /\ property'[l].text = property[l].text
             /\ property'[l].media = property[l].media /\ property'[l].agent \in {a, Nobody}
             /\ property[l].there => property'[l].agent = a
             /\ property'[l].there \/ property'[l] = NoListing
  <2>1. CASE property[l].there
    <3>1. property'[l] = [property[l] EXCEPT !.agent = a] /\ property[l] \in ListingRecords
      BY <1>1, <1>2, <2>1 DEF MeliShape
    <3> QED
      BY <3>1, <2>1 DEF ListingRecords
  <2>2. CASE ~property[l].there
    <3>1. property'[l] = NoListing /\ property[l] = NoListing
      BY <1>1, <1>2, <2>2 DEF MeliShape
    <3> QED
      BY <3>1, <2>2 DEF ListingRecords, NoListing
  <2> QED
    BY <2>1, <2>2
<1>4. MeliShape'
  <2>1. property' \in [Listings -> ListingRecords]
    BY <1>2, <1>3
  <2>2. mixed' \in BOOLEAN
    BY <1>2
  <2> QED
    BY <1>1, <1>2, <1>3, <2>1, <2>2 DEF MeliShape
<1>5. TokenIsGood'
  BY <1>1, <1>2 DEF TokenIsGood, Exchanging
<1>6. TextsAreFull'
  BY Zenon, <1>1, <1>2, <1>3 DEF TextsAreFull
<1>7. PicturesAreOnce'
  <2>1. \A p \in Syncs : sync[p].goal = "attach" => Item(sync[p]) \in Listings
    <3> SUFFICES ASSUME NEW p \in Syncs, sync[p].goal = "attach" PROVE Item(sync[p]) \in Listings
      OBVIOUS
    <3>1. sync[p] \in SyncRecords /\ sync[p].todo # {}
      BY <1>1 DEF MeliShape, SyncFits
    <3> QED
      BY <3>1, ItemIsNext DEF SyncRecords
  <2>2. Importing' = Importing
    BY <1>2 DEF Importing
  <2> SUFFICES ASSUME ~twice
               PROVE  /\ \A p, q \in Importing : p = q
                      /\ \A l \in Listings : property'[l].media <= 1
                      /\ \A p \in Syncs : sync[p].goal = "attach" /\ ~sync[p].found => property'[Item(sync[p])].media = 0
    BY <1>2, <2>2 DEF PicturesAreOnce
  <2> QED
    BY <1>1, <1>3, <2>1 DEF PicturesAreOnce
<1>8. OneAgent'
  <2> SUFFICES ASSUME Importing = {} PROVE OneAgent'
    BY Zenon, <1>2 DEF OneAgent
  <2>1. Importing' = {} /\ \A p \in Syncs : sync'[p].goal # "seller"
    BY <1>2 DEF Importing
  <2>2. \A x \in Held' : x = a
    BY <1>3, <2>1, MeliAssumption DEF Held, Given, Coming
  <2>3. a \in Given'
    BY <1>2, <1>3 DEF Given
  <2> QED
    BY <2>2, <2>3 DEF OneAgent
<1> QED
  BY <1>4, <1>5, <1>6, <1>7, <1>8 DEF MeliInv

LEMMA RemovePropertyFits ==
  ASSUME MeliInv, NEW l \in Listings, RemoveProperty(l)
  PROVE  MeliInv'
<1>1. MeliShape /\ TokenIsGood /\ TextsAreFull /\ PicturesAreOnce /\ OneAgent
  BY DEF MeliInv
<1>2. /\ property' = [property EXCEPT ![l] = NoListing] /\ mixed' = (mixed \/ Importing # {})
      /\ UNCHANGED <<stored, accepted, issued, upset, namesake, sync, off, twice, meliFaults>>
  BY DEF RemoveProperty, MeliMove, tokens
<1>3. property'[l] = NoListing /\ \A k \in Listings \ {l} : property'[k] = property[k]
  BY <1>1, <1>2 DEF MeliShape
<1>4. NoListing \in ListingRecords /\ NoListing.text = "none" /\ NoListing.media = 0 /\ NoListing.agent = Nobody
  BY DEF NoListing, ListingRecords
<1>5. MeliShape'
  <2>1. property' \in [Listings -> ListingRecords] /\ \A k \in Listings : property'[k].there \/ property'[k] = NoListing
    BY <1>1, <1>2, <1>3, <1>4 DEF MeliShape
  <2>2. mixed' \in BOOLEAN
    BY <1>2
  <2> QED
    BY <1>1, <1>2, <2>1, <2>2 DEF MeliShape
<1>6. TokenIsGood'
  BY <1>1, <1>2 DEF TokenIsGood, Exchanging
<1>7. TextsAreFull'
  BY <1>1, <1>2, <1>3, <1>4 DEF TextsAreFull
<1>8. PicturesAreOnce'
  <2>1. \A p \in Syncs : sync[p].goal = "attach" => Item(sync[p]) \in Listings
    <3> SUFFICES ASSUME NEW p \in Syncs, sync[p].goal = "attach" PROVE Item(sync[p]) \in Listings
      OBVIOUS
    <3>1. sync[p] \in SyncRecords /\ sync[p].todo # {}
      BY <1>1 DEF MeliShape, SyncFits
    <3> QED
      BY <3>1, ItemIsNext DEF SyncRecords
  <2>2. Importing' = Importing
    BY <1>2 DEF Importing
  <2> SUFFICES ASSUME ~twice
               PROVE  /\ \A p, q \in Importing : p = q
                      /\ \A k \in Listings : property'[k].media <= 1
                      /\ \A p \in Syncs : sync[p].goal = "attach" /\ ~sync[p].found => property'[Item(sync[p])].media = 0
    BY <1>2, <2>2 DEF PicturesAreOnce
  <2> QED
    BY <1>1, <1>3, <1>4, <2>1 DEF PicturesAreOnce
<1>9. OneAgent'
  <2> SUFFICES ASSUME Importing = {}, ~mixed PROVE OneAgent'
    BY Zenon, <1>2 DEF OneAgent
  <2>1. Importing' = {} /\ \A p \in Syncs : sync'[p].goal # "seller"
    BY <1>2 DEF Importing
  <2>2. \A x \in Held' : x \in Given' /\ x \in Held
    BY <1>3, <1>4, <2>1, MeliAssumption DEF Held, Given, Coming
  <2> QED
    BY <1>1, <2>2 DEF OneAgent
<1> QED
  BY <1>5, <1>6, <1>7, <1>8, <1>9 DEF MeliInv

LEMMA NoSyncFits ==
  /\ NoSync \in SyncRecords /\ SyncFits(NoSync) /\ NoSync.step = "none" /\ NoSync.text = "full"
  /\ NoSync.goal \notin ImportGoals
BY DEF NoSync, SyncRecords, SyncFits, AskGoals, LateGoals, ImportGoals

LEMMA RestartFits ==
  ASSUME MeliInv, MeliRestart
  PROVE  MeliInv'
<1>1. MeliShape /\ TokenIsGood /\ TextsAreFull /\ PicturesAreOnce /\ OneAgent
  BY DEF MeliInv
<1>2. /\ sync' = [p \in Syncs |-> NoSync] /\ twice' = twice
      /\ upset' = (upset \/ \E p \in Syncs : sync[p].step = "store")
      /\ accepted' = accepted \ {sync[p].token : p \in {q \in Syncs : sync[q].step = "store"}}
      /\ UNCHANGED <<stored, issued, namesake, property, mixed, off>>
  BY DEF MeliRestart, rowVars
<1>3. \A p \in Syncs : sync'[p] = NoSync
  BY <1>2
<1>4. Importing' = {} /\ Exchanging' = {} /\ \A p \in Syncs : sync'[p].goal \notin ImportGoals
  BY <1>3, NoSyncFits DEF Importing, Exchanging, ImportGoals
<1>5. meliFaults' \in Nat /\ meliFaults' # 0
  BY <1>1 DEF MeliRestart, MeliFault, MeliShape
<1>6. MeliShape'
  <2>1. accepted' \subseteq 1..issued /\ upset' \in BOOLEAN
    BY <1>1, <1>2 DEF MeliShape
  <2>2. sync' \in [Syncs -> SyncRecords]
    BY <1>2, NoSyncFits
  <2> QED
    BY <1>1, <1>2, <1>3, <1>5, <2>1, <2>2, NoSyncFits DEF MeliShape
<1>7. TokenIsGood'
  <2> SUFFICES ASSUME ~upset, \A p \in Syncs : sync[p].step # "store"
               PROVE  stored # 0 => stored \in accepted'
    BY Zenon, <1>2, <1>3, <1>4, NoSyncFits DEF TokenIsGood
  <2>1. {sync[p].token : p \in {q \in Syncs : sync[q].step = "store"}} = {}
    OBVIOUS
  <2>2. accepted' = accepted
    BY <1>2, <2>1
  <2> QED
    BY <1>1, <2>2 DEF TokenIsGood
<1>8. TextsAreFull'
  BY <1>1, <1>2, <1>5 DEF TextsAreFull
<1>9. PicturesAreOnce'
  BY <1>1, <1>2, <1>4 DEF PicturesAreOnce, ImportGoals
<1>10. OneAgent'
  <2>1. \A x \in Held' : x \in Held
    BY <1>2, <1>4 DEF Held, Given, Coming, ImportGoals
  <2>2. Given' = Given
    BY <1>2 DEF Given
  <2> QED
    BY <1>1, <1>2, <2>1, <2>2 DEF OneAgent
<1> QED
  BY <1>6, <1>7, <1>8, <1>9, <1>10 DEF MeliInv

LEMMA MeliInitFits == MeliInit => MeliInv
<1> SUFFICES ASSUME MeliInit PROVE MeliInv
  OBVIOUS
<1>1. /\ \A p \in Syncs : sync[p] = NoSync
      /\ \A l \in Listings : property[l] = NoListing
  BY DEF MeliInit
<1>2. NoListing \in ListingRecords /\ NoListing.text = "none" /\ NoListing.media = 0 /\ NoListing.agent = Nobody
  BY DEF NoListing, ListingRecords
<1>3. MeliShape
  <2>1. /\ stored = 1 /\ accepted = {1} /\ issued = 1 /\ namesake \in Sellers \cup {Nobody}
        /\ upset = FALSE /\ off = FALSE /\ mixed = FALSE /\ twice = FALSE /\ meliFaults = 0
    BY DEF MeliInit
  <2>2. /\ stored \in Nat /\ issued \in Nat /\ stored <= issued /\ accepted \subseteq 1..issued
        /\ meliFaults \in Nat
    BY <2>1
  <2>3. property \in [Listings -> ListingRecords] /\ sync \in [Syncs -> SyncRecords]
    BY <1>2, NoSyncFits DEF MeliInit
  <2>4. \A p \in Syncs : SyncFits(sync[p]) /\ sync[p].step \notin {"exchange", "store"}
    BY <1>1, NoSyncFits
  <2> QED
    BY Zenon, <1>1, <2>1, <2>2, <2>3, <2>4 DEF MeliShape
<1>4. TokenIsGood
  BY <1>1, NoSyncFits DEF MeliInit, TokenIsGood, Exchanging
<1>5. TextsAreFull
  BY <1>1, <1>2, NoSyncFits DEF MeliInit, TextsAreFull
<1>6. PicturesAreOnce
  BY <1>1, <1>2, NoSyncFits DEF PicturesAreOnce, Importing, ImportGoals
<1>7. OneAgent
  BY <1>1, <1>2, NoSyncFits, MeliAssumption DEF OneAgent, Held, Given, Coming, Importing, ImportGoals
<1> QED
  BY <1>3, <1>4, <1>5, <1>6, <1>7 DEF MeliInv

LEMMA MeliStep == MeliInv /\ [MeliNext]_meliVars => MeliInv'
<1> SUFFICES ASSUME MeliInv, [MeliNext]_meliVars PROVE MeliInv'
  OBVIOUS
<1>1. ASSUME NEW p \in Syncs,
             \/ StartSync(p) \/ ReadStored(p) \/ Exchange(p) \/ ExchangeErrs(p) \/ StoreAndGet(p) \/ ExchangeThrows(p)
             \/ MapSeller(p) \/ FindRow(p) \/ WriteRow(p) \/ AttachMedia(p) \/ Stamp(p)
      PROVE  MeliInv'
  BY <1>1, StartSyncFits, ReadStoredFits, ExchangeFits, ExchangeErrsFits, StoreAndGetFits, ExchangeThrowsFits, MapSellerFits,
     FindRowFits, WriteRowFits, AttachMediaFits, StampFits
<1>2. ASSUME Connect \/ DisconnectMeli \/ WithdrawAccess \/ MeliRestart PROVE MeliInv'
  BY <1>2, ConnectFits, DisconnectFits, WithdrawFits, RestartFits
<1>3. ASSUME NEW a \in Sellers, AssignSeller(a) PROVE MeliInv'
  BY <1>3, AssignSellerFits
<1>4. ASSUME NEW l \in Listings, RemoveProperty(l) PROVE MeliInv'
  BY <1>4, RemovePropertyFits
<1>5. ASSUME UNCHANGED meliVars PROVE MeliInv'
  <2>1. MeliShape' /\ TokenIsGood' /\ TextsAreFull'
    BY <1>5 DEF MeliInv, meliVars, MeliShape, TokenIsGood, TextsAreFull, Exchanging
  <2>2. PicturesAreOnce'
    BY <1>5 DEF MeliInv, meliVars, PicturesAreOnce, Importing, Item
  <2>3. OneAgent'
    BY <1>5 DEF MeliInv, meliVars, OneAgent, Held, Given, Coming, Importing
  <2> QED
    BY <2>1, <2>2, <2>3 DEF MeliInv
<1> QED
  BY <1>1, <1>2, <1>3, <1>4, <1>5 DEF MeliNext

LEMMA MarketHolds == MeliInv => MeliTypeOK /\ StaysConnected /\ ImportIsRight
<1> SUFFICES ASSUME MeliInv PROVE MeliTypeOK /\ StaysConnected /\ ImportIsRight
  OBVIOUS
<1>1. MeliShape /\ \A p \in Syncs : sync[p] \in SyncRecords /\ SyncFits(sync[p])
  BY DEF MeliInv, MeliShape
<1>2. MeliTypeOK
  BY <1>1 DEF MeliTypeOK, MeliShape, SyncFits, SyncRecords
<1>3. StaysConnected
  BY DEF StaysConnected, MeliInv, TokenIsGood, Exchanging
<1>4. \A p \in Syncs : sync[p].goal = "done" /\ sync[p].errors = 0 /\ sync[p].blanks = 0 => sync[p].made = Listings
  <2>1. "done" \in LateGoals
    BY DEF LateGoals
  <2> QED
    BY Zenon, <1>1, <2>1 DEF SyncFits
<1>5. meliFaults = 0 /\ ~off => \A l \in Listings : property[l].text # "title"
  BY DEF MeliInv, TextsAreFull
<1>6. ~twice => \A l \in Listings : property[l].media <= 1
  BY DEF MeliInv, PicturesAreOnce
<1>7. ~mixed => \A k, l \in Listings :
        property[k].agent # Nobody /\ property[l].agent # Nobody => property[k].agent = property[l].agent
  <2> SUFFICES ASSUME ~mixed, NEW k \in Listings, NEW l \in Listings, property[k].agent # Nobody, property[l].agent # Nobody
               PROVE  property[k].agent = property[l].agent
    OBVIOUS
  <2>1. property[k].agent \in Held /\ property[l].agent \in Held
    BY <1>1 DEF MeliShape, ListingRecords, Held, Given
  <2> QED
    BY <2>1 DEF MeliInv, OneAgent
<1> QED
  BY <1>2, <1>3, <1>4, <1>5, <1>6, <1>7 DEF ImportIsRight

(* The stored token is one the marketplace accepts, unless two requests         *)
(* exchanged at once or a new token was lost; a sync that ended without an      *)
(* error imported every listing, whole, with its pictures once and for one      *)
(* agent, unless syncs overlapped (StaysConnected, ImportIsRight).              *)
THEOREM MarketCorrect == MeliSpec => [](MeliTypeOK /\ StaysConnected /\ ImportIsRight)
<1>1. MeliInit => MeliInv
  BY MeliInitFits
<1>2. MeliInv /\ [MeliNext]_meliVars => MeliInv'
  BY MeliStep
<1> QED
  BY <1>1, <1>2, MarketHolds, PTL DEF MeliSpec

-----------------------------------------------------------------------------
(* Leads that come in bulk *)

LEMMA TheFile ==
  /\ Len(FileRows) \in Nat \ {0} /\ DOMAIN FileRows = 1..Len(FileRows) /\ 1 \in DOMAIN FileRows
  /\ \A n \in 1..Len(FileRows) : FileRows[n] \in FileLines
  /\ \A row \in FileLines : row.phone \in LinePhones /\ row.email \in LineEmails /\ row.named \in BOOLEAN
<1>1. FileRows \in Seq(FileLines) /\ FileRows # <<>>
  BY ImportAssumption DEF FileLines
<1>2. Len(FileRows) \in Nat /\ DOMAIN FileRows = 1..Len(FileRows)
  BY <1>1
<1>3. Len(FileRows) # 0
  BY <1>1, EmptySeq
<1>4. \A row \in FileLines : row.named \in BOOLEAN
  BY ImportAssumption DEF FileLines
<1> QED
  BY <1>2, <1>3, <1>4 DEF FileLines, LinePhones, LineEmails

LEMMA NotedFields ==
  ASSUME NEW run \in MapRows, NEW row \in FileLines
  PROVE  /\ Noted(run, row) \in MapRows
         /\ Noted(run, row).step = run.step /\ Noted(run, row).dedup = run.dedup /\ Noted(run, row).next = run.next
         /\ Noted(run, row).created = run.created /\ Noted(run, row).skipped = run.skipped
         /\ Noted(run, row).failed = run.failed /\ Noted(run, row).chunk = run.chunk
         /\ run.dedup => /\ Noted(run, row).phones = run.phones \cup ({row.phone} \ {NoContact})
                         /\ Noted(run, row).emails = run.emails \cup ({row.email} \ {NoContact})
         /\ ~run.dedup => Noted(run, row).phones = run.phones /\ Noted(run, row).emails = run.emails
<1> PICK ps \in SUBSET (LinePhones \ {NoContact}) : ps = run.phones \cup ({row.phone} \ {NoContact})
  BY Zenon, TheFile DEF MapRows
<1> PICK es \in SUBSET (LineEmails \ {NoContact}) : es = run.emails \cup ({row.email} \ {NoContact})
  BY Zenon, TheFile DEF MapRows
<1>1. CASE run.dedup
  <2>1. Noted(run, row) = [run EXCEPT !.phones = ps, !.emails = es]
    BY <1>1 DEF Noted
  <2> QED
    BY Zenon, <1>1, <2>1 DEF MapRows
<1>2. CASE ~run.dedup
  BY <1>2 DEF Noted
<1> QED
  BY <1>1, <1>2

(* A row that is taken. *)
LEMMA Taken ==
  ASSUME NEW run \in MapRows, NEW row \in FileLines, NEW u, u = [run EXCEPT !.chunk = Append(run.chunk, row)]
  PROVE     /\ u \in MapRows /\ u.step = run.step /\ u.dedup = run.dedup /\ u.next = run.next
            /\ u.phones = run.phones /\ u.emails = run.emails /\ u.created = run.created
            /\ u.skipped = run.skipped /\ u.failed = run.failed /\ u.chunk = Append(run.chunk, row)
<1> PICK c \in Seq(FileLines) : c = Append(run.chunk, row)
  BY DEF MapRows
<1> QED
  BY Zenon DEF MapRows

(* A row without a name and a contact, or whose stage is not found, is told of; one *)
(* that was seen is left out; another is taken, and its contacts are known.         *)
LEMMA OneRow ==
  ASSUME NEW run \in MapRows, NEW row \in FileLines, NEW stop \in BOOLEAN, NEW u, u = FileRow(run, row, stop)
  PROVE     /\ u \in MapRows /\ u.step = run.step /\ u.dedup = run.dedup /\ u.next = run.next /\ u.created = run.created
            /\ \/ /\ ~HasData(row) /\ u.failed = run.failed \cup {row} /\ u.skipped = run.skipped + 1
                  /\ u.chunk = run.chunk /\ u.phones = run.phones /\ u.emails = run.emails
               \/ /\ Seen(run, row) /\ u.failed = run.failed /\ u.skipped = run.skipped + 1
                  /\ u.chunk = run.chunk /\ u.phones = run.phones /\ u.emails = run.emails
               \/ /\ HasData(row) /\ ~Seen(run, row) /\ u.failed = run.failed \cup {row} /\ u.skipped = run.skipped + 1
                  /\ u.chunk = run.chunk /\ u.phones = Noted(run, row).phones /\ u.emails = Noted(run, row).emails
               \/ /\ HasData(row) /\ ~Seen(run, row) /\ u.failed = run.failed /\ u.skipped = run.skipped
                  /\ u.chunk = Append(run.chunk, row)
                  /\ u.phones = Noted(run, row).phones /\ u.emails = Noted(run, row).emails
<1> PICK w \in MapRows : w = Noted(run, row)
  BY NotedFields
<1>1. /\ w.step = run.step /\ w.dedup = run.dedup /\ w.next = run.next /\ w.created = run.created
      /\ w.skipped = run.skipped /\ w.failed = run.failed /\ w.chunk = run.chunk
  BY NotedFields
<1>2. u = IF ~HasData(row) THEN [run EXCEPT !.skipped = run.skipped + 1, !.failed = run.failed \cup {row}]
          ELSE IF Seen(run, row) THEN [run EXCEPT !.skipped = run.skipped + 1]
          ELSE IF stop THEN [w EXCEPT !.skipped = w.skipped + 1, !.failed = w.failed \cup {row}]
               ELSE [w EXCEPT !.chunk = Append(w.chunk, row)]
  BY DEF FileRow, Seen, Noted
<1>3. [run EXCEPT !.skipped = run.skipped + 1] = [run EXCEPT !.skipped = run.skipped + 1, !.failed = run.failed]
  <2> PICK n \in Nat : n = run.skipped + 1
    BY DEF MapRows
  <2> QED
    BY Zenon DEF MapRows
<1>4. CASE ~HasData(row)
  <2> PICK f \in SUBSET FileLines : f = run.failed \cup {row}
    BY Zenon DEF MapRows
  <2> PICK n \in Nat : n = run.skipped + 1
    BY DEF MapRows
  <2>1. u = [run EXCEPT !.skipped = n, !.failed = f]
    BY <1>2, <1>4
  <2>2. /\ u \in MapRows /\ u.step = run.step /\ u.dedup = run.dedup /\ u.next = run.next
        /\ u.phones = run.phones /\ u.emails = run.emails /\ u.created = run.created
        /\ u.skipped = n /\ u.failed = f /\ u.chunk = run.chunk
    BY Zenon, <2>1 DEF MapRows
  <2> QED
    BY <1>1, <1>4, <2>2
<1>5. CASE HasData(row) /\ Seen(run, row)
  <2> PICK f \in SUBSET FileLines : f = run.failed
    BY DEF MapRows
  <2> PICK n \in Nat : n = run.skipped + 1
    BY DEF MapRows
  <2>1. u = [run EXCEPT !.skipped = n, !.failed = f]
    BY <1>2, <1>5, <1>3
  <2>2. /\ u \in MapRows /\ u.step = run.step /\ u.dedup = run.dedup /\ u.next = run.next
        /\ u.phones = run.phones /\ u.emails = run.emails /\ u.created = run.created
        /\ u.skipped = n /\ u.failed = f /\ u.chunk = run.chunk
    BY Zenon, <2>1 DEF MapRows
  <2> QED
    BY <1>1, <1>5, <2>2
<1>6. CASE HasData(row) /\ ~Seen(run, row) /\ stop
  <2> PICK f \in SUBSET FileLines : f = w.failed \cup {row}
    BY Zenon DEF MapRows
  <2> PICK n \in Nat : n = w.skipped + 1
    BY DEF MapRows
  <2>1. u = [w EXCEPT !.skipped = n, !.failed = f]
    BY <1>2, <1>6
  <2>2. /\ u \in MapRows /\ u.step = w.step /\ u.dedup = w.dedup /\ u.next = w.next
        /\ u.phones = w.phones /\ u.emails = w.emails /\ u.created = w.created
        /\ u.skipped = n /\ u.failed = f /\ u.chunk = w.chunk
    BY Zenon, <2>1 DEF MapRows
  <2> QED
    BY Zenon, <1>1, <1>6, <2>2
<1>7. CASE HasData(row) /\ ~Seen(run, row) /\ ~stop
  BY <1>1, <1>2, <1>7, Taken
<1> QED
  BY <1>4, <1>5, <1>6, <1>7

-----------------------------------------------------------------------------
(* The rows of a chunk, one after the other *)

LEMMA RowsAreFollowed ==
  ASSUME NEW run, run.next \in Nat \ {0}, NEW last, NEW stopped, NEW end \in Nat, run.next - 1 <= end
  PROVE  \E f : Follows(f, run, last, end, stopped)
<1> DEFINE a == run.next - 1
           S == {k \in Nat : a <= k /\ ~(\E f : Follows(f, run, last, k, stopped))}
<1> SUFFICES ASSUME S # {} PROVE FALSE
  OBVIOUS
<1>1. PICK m \in S : \A y \in S : ~(y < m)
  BY Zenon, LeastNumber
<1>2. a \in Nat /\ m \in Nat /\ a <= m
  BY <1>1
<1>3. m # a
  <2> SUFFICES ASSUME m = a PROVE FALSE
    OBVIOUS
  <2> DEFINE f == [n \in a..a |-> Opened(run, last)]
  <2>1. \A n \in a..a : n = a
    BY <1>2
  <2>2. f = [n \in a..a |-> IF n = a THEN Opened(run, last) ELSE FileRow(f[n - 1], FileRows[n], n \in stopped)]
    BY <2>1
  <2>3. Follows(f, run, last, m, stopped)
    BY <2>2 DEF Follows
  <2> HIDE DEF f
  <2> QED
    BY <1>1, <2>3
<1>4. m - 1 \in Nat /\ a <= m - 1 /\ m - 1 < m
  BY <1>2, <1>3
<1>5. PICK f : Follows(f, run, last, m - 1, stopped)
  BY <1>1, <1>4
<1> DEFINE g == [n \in a..m |-> IF n = m THEN FileRow(f[m - 1], FileRows[m], m \in stopped) ELSE f[n]]
<1>6. \A n \in a..(m - 1) :
        f[n] = IF n = a THEN Opened(run, last) ELSE FileRow(f[n - 1], FileRows[n], n \in stopped)
  BY Zenon, <1>5 DEF Follows
<1>7. ASSUME NEW n \in a..m
      PROVE  g[n] = IF n = a THEN Opened(run, last) ELSE FileRow(g[n - 1], FileRows[n], n \in stopped)
  <2>1. CASE n = m
    <3>1. m - 1 \in a..m /\ m - 1 # m
      BY <1>2, <1>4
    <3>2. g[m - 1] = f[m - 1]
      BY <3>1
    <3>3. g[m] = FileRow(f[m - 1], FileRows[m], m \in stopped)
      BY <1>2
    <3> QED
      BY <1>3, <2>1, <3>2, <3>3
  <2>2. CASE n # m
    <3>1. n \in a..(m - 1)
      BY <1>2, <2>2
    <3>2. g[n] = f[n]
      BY <2>2
    <3>3. CASE n = a
      BY <1>6, <3>1, <3>2, <3>3
    <3>4. CASE n # a
      <4>1. n - 1 \in a..m /\ n - 1 # m
        BY <1>2, <3>1, <3>4
      <4>2. g[n - 1] = f[n - 1]
        BY <4>1
      <4> QED
        BY <1>6, <3>1, <3>2, <3>4, <4>2
    <3> QED
      BY <3>3, <3>4
  <2> QED
    BY <2>1, <2>2
<1>8. g = [n \in a..m |-> IF n = a THEN Opened(run, last) ELSE FileRow(g[n - 1], FileRows[n], n \in stopped)]
  <2> DEFINE h == [n \in a..m |-> IF n = a THEN Opened(run, last) ELSE FileRow(g[n - 1], FileRows[n], n \in stopped)]
  <2>1. DOMAIN g = a..m /\ DOMAIN h = a..m
    OBVIOUS
  <2>2. \A n \in a..m : g[n] = h[n]
    BY Zenon, <1>7
  <2>3. g = [n \in a..m |-> g[n]] /\ h = [n \in a..m |-> h[n]]
    OBVIOUS
  <2> HIDE DEF g, h
  <2>4. g = h
    BY Zenon, <2>1, <2>2, <2>3
  <2> QED
    BY Zenon, <2>4 DEF h
<1>9. Follows(g, run, last, m, stopped)
  BY Zenon, <1>8 DEF Follows
<1> HIDE DEF g
<1> QED
  BY <1>1, <1>9

LEMMA MappedFollows ==
  ASSUME NEW run, run.next \in Nat \ {0}, NEW stopped, NEW last \in Nat, run.next - 1 <= last
  PROVE  \E f : Follows(f, run, last, last, stopped) /\ Mapped(run, last, stopped) = f[last]
<1>1. \E f : Follows(f, run, last, last, stopped)
  BY RowsAreFollowed
<1> DEFINE f == CHOOSE f : Follows(f, run, last, last, stopped)
<1>2. Follows(f, run, last, last, stopped)
  BY <1>1
<1>3. Mapped(run, last, stopped) = f[last]
  BY DEF Mapped, Follows, Opened
<1> QED
  BY Zenon, <1>2, <1>3

LEMMA OpenedFits ==
  ASSUME NEW run \in ImportRows, run.next \in Nat \ {0}, NEW last \in Nat
  PROVE  RunFits(run, run.next - 1, Opened(run, last)) /\ Opened(run, last).next = last + 1
<1> PICK k \in Nat : k = last + 1
  OBVIOUS
<1> PICK m : m = Opened(run, last)
  OBVIOUS
<1>1. m = [step |-> run.step, dedup |-> run.dedup, next |-> k, phones |-> run.phones, emails |-> run.emails,
           created |-> run.created, skipped |-> run.skipped, failed |-> run.failed, chunk |-> <<>>]
  BY DEF Opened
<1>2. /\ m \in MapRows /\ m.step = run.step /\ m.dedup = run.dedup /\ m.created = run.created /\ m.next = k
      /\ m.skipped = run.skipped /\ m.phones = run.phones /\ m.emails = run.emails /\ m.failed = run.failed
      /\ m.chunk = <<>> /\ Len(m.chunk) = 0
  BY <1>1 DEF MapRows, ImportRows
<1>3. m.skipped + Len(m.chunk) = run.skipped + ((run.next - 1) - (run.next - 1))
  <2>1. m.skipped \in Nat /\ run.skipped \in Nat
    BY <1>2 DEF ImportRows
  <2> QED
    BY <1>2, <2>1
<1>4. RunCounts(run, run.next - 1, m)
  BY <1>2, <1>3 DEF RunCounts
<1>5. 1..Len(m.chunk) = {} /\ run.next..(run.next - 1) = {}
  BY <1>2
<1>6. RunTells(run, run.next - 1, m)
  BY <1>2, <1>5 DEF RunTells
<1>7. RunDiffers(run, m)
  BY Zenon, <1>5 DEF RunDiffers
<1> QED
  BY <1>2, <1>4, <1>6, <1>7 DEF RunFits

LEMMA AppendedRow ==
  ASSUME NEW c \in Seq(FileLines), NEW row \in FileLines, NEW d, d = Append(c, row)
  PROVE  /\ d \in Seq(FileLines) /\ Len(c) \in Nat /\ Len(d) = Len(c) + 1
         /\ \A a \in 1..Len(c) : d[a] = c[a]
         /\ d[Len(c) + 1] = row
         /\ \A a \in 1..Len(d) : a \in 1..Len(c) \/ a = Len(c) + 1
<1>1. d \in Seq(FileLines) /\ Len(c) \in Nat /\ Len(d) = Len(c) + 1
  OBVIOUS
<1>2. \A a \in 1..Len(c) : d[a] = c[a]
  OBVIOUS
<1>3. d[Len(c) + 1] = row
  OBVIOUS
<1> QED
  BY <1>1, <1>2, <1>3

LEMMA RowFits ==
  ASSUME NEW run \in ImportRows, run.next \in Nat \ {0}, NEW n \in Nat, n \in DOMAIN FileRows, run.next <= n,
         NEW m, RunFits(run, n - 1, m), NEW stop \in BOOLEAN, NEW u, u = FileRow(m, FileRows[n], stop)
  PROVE  RunFits(run, n, u) /\ u.next = m.next
<1> PICK row \in FileLines : row = FileRows[n]
  BY TheFile
<1>1. m \in MapRows /\ RunCounts(run, n - 1, m) /\ RunTells(run, n - 1, m) /\ RunDiffers(run, m)
  BY DEF RunFits
<1>2. /\ u \in MapRows /\ u.step = m.step /\ u.dedup = m.dedup /\ u.next = m.next /\ u.created = m.created
  BY <1>1, OneRow
<1>3. run.skipped \in Nat /\ m.skipped \in Nat /\ m.chunk \in Seq(FileLines) /\ Len(m.chunk) \in Nat
  BY <1>1 DEF ImportRows, MapRows
<1>14. m.skipped + Len(m.chunk) = run.skipped + ((n - 1) - (run.next - 1))
  BY <1>1 DEF RunCounts
<1>4. /\ (m.skipped + 1) + Len(m.chunk) = run.skipped + (n - (run.next - 1))
      /\ m.skipped + (Len(m.chunk) + 1) = run.skipped + (n - (run.next - 1))
  <2>1. PICK s \in Nat, c \in Nat, before \in Nat, k \in Nat :
          s = m.skipped /\ c = Len(m.chunk) /\ before = run.skipped /\ k = run.next
    BY <1>3
  <2>2. s + c = before + ((n - 1) - (k - 1))
    BY <1>14, <2>1
  <2>3. (s + 1) + c = before + (n - (k - 1)) /\ s + (c + 1) = before + (n - (k - 1))
    BY <2>2
  <2> QED
    BY <2>1, <2>3
<1>5. \A r \in run.next..n : r \in run.next..(n - 1) \/ r = n
  OBVIOUS
<1>6. CASE /\ ~HasData(row) /\ u.failed = m.failed \cup {row} /\ u.skipped = m.skipped + 1
           /\ u.chunk = m.chunk /\ u.phones = m.phones /\ u.emails = m.emails
  <2>1. u.skipped + Len(u.chunk) = run.skipped + (n - (run.next - 1))
    BY <1>4, <1>6
  <2>2. RunCounts(run, n, u)
    BY <1>1, <1>2, <1>6, <2>1 DEF RunCounts
  <2>3. \A l \in FileLines : Named(m, l) => Named(u, l)
    BY <1>6 DEF Named
  <2>4. \A r \in run.next..n : HookHeard(u, FileRows[r])
    BY <1>1, <1>5, <1>6 DEF RunTells, HookHeard, Named
  <2>5. RunTells(run, n, u)
    BY <1>1, <1>6, <2>3, <2>4 DEF RunTells
  <2>6. RunDiffers(run, u)
    BY <1>1, <1>6 DEF RunDiffers
  <2> QED
    BY <1>2, <2>2, <2>5, <2>6 DEF RunFits
<1>7. CASE /\ Seen(m, row) /\ u.failed = m.failed /\ u.skipped = m.skipped + 1
           /\ u.chunk = m.chunk /\ u.phones = m.phones /\ u.emails = m.emails
  <2>1. u.skipped + Len(u.chunk) = run.skipped + (n - (run.next - 1))
    BY <1>4, <1>7
  <2>2. RunCounts(run, n, u)
    BY <1>1, <1>2, <1>7, <2>1 DEF RunCounts
  <2>3. \A l \in FileLines : Named(m, l) <=> Named(u, l)
    BY <1>7 DEF Named
  <2>4. \A r \in run.next..n : HookHeard(u, FileRows[r])
    BY <1>1, <1>5, <1>7 DEF RunTells, HookHeard, Named, Seen
  <2>5. RunTells(run, n, u)
    BY <1>1, <1>7, <2>3, <2>4 DEF RunTells
  <2>6. RunDiffers(run, u)
    BY <1>1, <1>7 DEF RunDiffers
  <2> QED
    BY <1>2, <2>2, <2>5, <2>6 DEF RunFits
<1>8. /\ m.phones \subseteq Noted(m, row).phones /\ m.emails \subseteq Noted(m, row).emails
      /\ \A ph \in Noted(m, row).phones : ph \in m.phones \/ ph = row.phone
      /\ \A em \in Noted(m, row).emails : em \in m.emails \/ em = row.email
      /\ m.dedup => row.phone \in Noted(m, row).phones \cup {NoContact} /\ row.email \in Noted(m, row).emails \cup {NoContact}
  BY <1>1, NotedFields
<1>9. CASE /\ HasData(row) /\ ~Seen(m, row) /\ u.failed = m.failed \cup {row} /\ u.skipped = m.skipped + 1
           /\ u.chunk = m.chunk /\ u.phones = Noted(m, row).phones /\ u.emails = Noted(m, row).emails
  <2>1. u.skipped + Len(u.chunk) = run.skipped + (n - (run.next - 1))
    BY <1>4, <1>9
  <2>2. RunCounts(run, n, u)
    BY <1>1, <1>2, <1>8, <1>9, <2>1 DEF RunCounts
  <2>3. Named(u, row) /\ \A l \in FileLines : Named(m, l) => Named(u, l)
    BY <1>9 DEF Named
  <2>4. \A r \in run.next..n : HookHeard(u, FileRows[r])
    BY <1>1, <1>5, <1>8, <1>9 DEF RunTells, HookHeard, Named
  <2>5. RunTells(run, n, u)
    BY <1>1, <1>8, <1>9, <2>3, <2>4 DEF RunTells
  <2>6. RunDiffers(run, u)
    BY <1>1, <1>8, <1>9 DEF RunDiffers
  <2> QED
    BY <1>2, <2>2, <2>5, <2>6 DEF RunFits
<1>10. CASE /\ HasData(row) /\ ~Seen(m, row) /\ u.failed = m.failed /\ u.skipped = m.skipped
            /\ u.chunk = Append(m.chunk, row) /\ u.phones = Noted(m, row).phones /\ u.emails = Noted(m, row).emails
  <2>0. /\ u.chunk \in Seq(FileLines) /\ Len(u.chunk) = Len(m.chunk) + 1
        /\ \A a \in 1..Len(m.chunk) : u.chunk[a] = m.chunk[a]
        /\ u.chunk[Len(m.chunk) + 1] = row
        /\ \A a \in 1..Len(u.chunk) : a \in 1..Len(m.chunk) \/ a = Len(m.chunk) + 1
    BY <1>3, <1>10, AppendedRow
  <2>1. u.skipped + Len(u.chunk) = run.skipped + (n - (run.next - 1))
    BY <1>4, <1>10, <2>0
  <2>2. RunCounts(run, n, u)
    BY <1>1, <1>2, <1>8, <1>10, <2>1 DEF RunCounts
  <2>3. Len(m.chunk) + 1 \in 1..Len(u.chunk) /\ 1..Len(m.chunk) \subseteq 1..Len(u.chunk)
    BY <1>3, <2>0
  <2>4. Named(u, row) /\ \A l \in FileLines : Named(m, l) => Named(u, l)
    BY <1>10, <2>0, <2>3 DEF Named
  <2>5. \A r \in run.next..n : FileRows[r] \in FileLines
    BY TheFile
  <2>6. \A r \in run.next..n : HookHeard(u, FileRows[r])
    BY <1>1, <1>5, <1>8, <1>10, <2>4, <2>5 DEF RunTells, HookHeard
  <2>7. \A a \in 1..Len(u.chunk) : HasData(u.chunk[a])
    BY <1>1, <1>10, <2>0 DEF RunTells
  <2>8. RunTells(run, n, u)
    BY <1>1, <1>8, <1>10, <2>4, <2>6, <2>7 DEF RunTells
  <2>9. RunDiffers(run, u)
    <3> SUFFICES ASSUME run.dedup
                 PROVE  /\ \A a \in 1..Len(u.chunk) : /\ u.chunk[a].phone \in (u.phones \cup {NoContact}) \ run.phones
                                                      /\ u.chunk[a].email \in (u.emails \cup {NoContact}) \ run.emails
                        /\ \A a, b \in 1..Len(u.chunk) : a < b => ~Alike(u.chunk[a], u.chunk[b])
      BY DEF RunDiffers
    <3>1. m.dedup /\ row.phone \notin m.phones /\ row.email \notin m.emails
      BY <1>1, <1>10 DEF RunCounts, Seen
    <3>2. run.phones \subseteq m.phones /\ run.emails \subseteq m.emails
      BY <1>1 DEF RunCounts
    <3>3. \A a \in 1..Len(m.chunk) : /\ m.chunk[a].phone \in (m.phones \cup {NoContact}) \ run.phones
                                     /\ m.chunk[a].email \in (m.emails \cup {NoContact}) \ run.emails
      BY <1>1 DEF RunDiffers
    <3>4. \A a, b \in 1..Len(m.chunk) : a < b => ~Alike(m.chunk[a], m.chunk[b])
      BY <1>1 DEF RunDiffers
    <3>5. \A a \in 1..Len(m.chunk) : ~Alike(m.chunk[a], row)
      BY <3>1, <3>3 DEF Alike
    <3>6. \A a \in 1..Len(u.chunk) : /\ u.chunk[a].phone \in (u.phones \cup {NoContact}) \ run.phones
                                     /\ u.chunk[a].email \in (u.emails \cup {NoContact}) \ run.emails
      BY <1>8, <1>10, <2>0, <3>1, <3>2, <3>3
    <3>7. ASSUME NEW a \in 1..Len(u.chunk), NEW b \in 1..Len(u.chunk), a < b
          PROVE  ~Alike(u.chunk[a], u.chunk[b])
      <4>1. a \in 1..Len(m.chunk)
        BY <1>3, <2>0, <3>7
      <4>2. CASE b \in 1..Len(m.chunk)
        BY Zenon, <2>0, <3>4, <3>7, <4>1, <4>2
      <4>3. CASE b = Len(m.chunk) + 1
        BY <2>0, <3>5, <4>1, <4>3
      <4> QED
        BY <2>0, <4>2, <4>3
    <3> QED
      BY <3>6, <3>7
  <2> QED
    BY <1>2, <2>2, <2>8, <2>9 DEF RunFits
<1>11. \/ /\ ~HasData(row) /\ u.failed = m.failed \cup {row} /\ u.skipped = m.skipped + 1
          /\ u.chunk = m.chunk /\ u.phones = m.phones /\ u.emails = m.emails
       \/ /\ Seen(m, row) /\ u.failed = m.failed /\ u.skipped = m.skipped + 1
          /\ u.chunk = m.chunk /\ u.phones = m.phones /\ u.emails = m.emails
       \/ /\ HasData(row) /\ ~Seen(m, row) /\ u.failed = m.failed \cup {row} /\ u.skipped = m.skipped + 1
          /\ u.chunk = m.chunk /\ u.phones = Noted(m, row).phones /\ u.emails = Noted(m, row).emails
       \/ /\ HasData(row) /\ ~Seen(m, row) /\ u.failed = m.failed /\ u.skipped = m.skipped
          /\ u.chunk = Append(m.chunk, row) /\ u.phones = Noted(m, row).phones /\ u.emails = Noted(m, row).emails
  BY <1>1, OneRow
<1> QED
  BY <1>2, <1>6, <1>7, <1>9, <1>10, <1>11

LEMMA MappedFits ==
  ASSUME NEW run \in ImportRows, run.next \in Nat \ {0}, NEW last \in DOMAIN FileRows, run.next <= last, NEW stopped
  PROVE  RunFits(run, last, Mapped(run, last, stopped)) /\ Mapped(run, last, stopped).next = last + 1
<1> last \in Nat /\ run.next - 1 \in Nat /\ run.next - 1 <= last
  BY TheFile
<1> PICK f : Follows(f, run, last, last, stopped) /\ Mapped(run, last, stopped) = f[last]
  BY MappedFollows
<1> DEFINE a == run.next - 1
           S == {k \in a..last : ~(RunFits(run, k, f[k]) /\ f[k].next = last + 1)}
<1>1. \A n \in a..last : f[n] = IF n = a THEN Opened(run, last) ELSE FileRow(f[n - 1], FileRows[n], n \in stopped)
  BY DEF Follows
<1>2. S = {}
  <2> SUFFICES ASSUME S # {} PROVE FALSE
    OBVIOUS
  <2>1. S \subseteq Nat
    OBVIOUS
  <2>2. PICK k \in S : \A y \in S : ~(y < k)
    BY Zenon, <2>1, LeastNumber
  <2>3. k \in a..last /\ k \in Nat
    BY <2>1, <2>2
  <2>4. k # a
    <3>1. a \in a..last
      OBVIOUS
    <3>2. f[a] = Opened(run, last)
      BY <1>1, <3>1
    <3> QED
      BY <2>2, <3>2, OpenedFits
  <2>5. k - 1 \in a..last /\ k - 1 \notin S /\ run.next <= k
    BY <2>2, <2>3, <2>4
  <2>6. RunFits(run, k - 1, f[k - 1]) /\ f[k - 1].next = last + 1
    BY <2>5
  <2>7. k \in DOMAIN FileRows
    BY <2>3, <2>5, TheFile
  <2>8. f[k] = FileRow(f[k - 1], FileRows[k], k \in stopped)
    BY <1>1, <2>3, <2>4
  <2>9. RunFits(run, k, f[k]) /\ f[k].next = last + 1
    <3>1. (k \in stopped) \in BOOLEAN
      OBVIOUS
    <3> PICK stop \in BOOLEAN : f[k] = FileRow(f[k - 1], FileRows[k], stop)
      BY Zenon, <2>8, <3>1
    <3> PICK m, u : m = f[k - 1] /\ u = f[k]
      OBVIOUS
    <3>2. RunFits(run, k, u) /\ u.next = m.next
      BY <2>5, <2>6, <2>7, RowFits
    <3> QED
      BY <2>6, <3>2
  <2> QED
    BY <2>2, <2>9
<1>3. last \in a..last
  OBVIOUS
<1> QED
  BY <1>2, <1>3

-----------------------------------------------------------------------------
(* The leads there are, and what imports and the webhook say of them *)

LEMMA KnownFacts ==
  ASSUME known \in Seq(LeadRows)
  PROVE  /\ Len(known) \in Nat /\ DOMAIN known = 1..Len(known)
         /\ \A n \in 1..Len(known) : known[n] \in LeadRows
         /\ \A i : /\ LeadsBy(i) = {n \in 1..Len(known) : known[n].by = i}
                   /\ IsFiniteSet(LeadsBy(i)) /\ Cardinality(LeadsBy(i)) \in Nat
<1>1. Len(known) \in Nat /\ DOMAIN known = 1..Len(known)
  OBVIOUS
<1>2. \A n \in 1..Len(known) : known[n] \in LeadRows
  OBVIOUS
<1>3. ASSUME NEW i
      PROVE  /\ LeadsBy(i) = {n \in 1..Len(known) : known[n].by = i}
             /\ IsFiniteSet(LeadsBy(i)) /\ Cardinality(LeadsBy(i)) \in Nat
  <2>1. LeadsBy(i) = {n \in 1..Len(known) : known[n].by = i}
    BY <1>1 DEF LeadsBy
  <2>2. IsFiniteSet(1..Len(known))
    BY <1>1, FS_Interval
  <2>3. IsFiniteSet(LeadsBy(i))
    BY <2>1, <2>2, FS_Subset
  <2> QED
    BY <2>1, <2>3, FS_CardinalityType
<1> QED
  BY <1>1, <1>2, <1>3

LEMMA GrownLeads ==
  ASSUME KnownGrows, NEW i
  PROVE  /\ Cardinality(LeadsBy(i)) <= Cardinality(LeadsBy(i))'
         /\ Cardinality(LeadsBy(i)) \in Nat /\ Cardinality(LeadsBy(i))' \in Nat
<1>1. known \in Seq(LeadRows) /\ known' \in Seq(LeadRows)
  BY DEF KnownGrows
<1>2. LeadsBy(i) = {n \in 1..Len(known) : known[n].by = i} /\ Cardinality(LeadsBy(i)) \in Nat /\ Len(known) \in Nat
  BY <1>1, KnownFacts
<1>3. DOMAIN known' = 1..Len(known') /\ Len(known') \in Nat
  BY <1>1
<1>4. LeadsBy(i)' = {n \in 1..Len(known') : known'[n].by = i}
  BY <1>3 DEF LeadsBy
<1>5. LeadsBy(i) \subseteq LeadsBy(i)'
  BY <1>2, <1>3, <1>4 DEF KnownGrows
<1>6. IsFiniteSet(LeadsBy(i)')
  <2>1. IsFiniteSet(1..Len(known'))
    BY <1>3, FS_Interval
  <2>2. LeadsBy(i)' \subseteq 1..Len(known')
    BY <1>4
  <2> QED
    BY <2>1, <2>2, FS_Subset
<1> QED
  BY <1>2, <1>5, <1>6, FS_Subset, FS_CardinalityType

LEMMA NothingNew ==
  ASSUME known \in Seq(LeadRows), known' = known
  PROVE  KnownGrows
<1>1. Len(known) \in Nat
  BY KnownFacts
<1> QED
  BY <1>1 DEF KnownGrows

(* What an import says stays true when leads are added. *)
LEMMA ToldStays ==
  ASSUME KnownGrows, NEW i \in Importers, imports[i].failed \subseteq imports'[i].failed, NEW row, ToldFrom(i, row)
  PROVE  ToldFrom(i, row)'
<1>1. Len(known) \in Nat /\ Len(known') \in Nat
  BY DEF KnownGrows
<1>2. \A n \in 1..Len(known) : n \in 1..Len(known')
  BY <1>1 DEF KnownGrows
<1> QED
  BY Zenon, <1>2 DEF ToldFrom, Alike, KnownGrows

LEMMA ImportStaysFit ==
  ASSUME KnownGrows, NEW i \in Importers, ImportFits(i), imports[i] \in ImportRows, imports'[i] = imports[i]
  PROVE  ImportFits(i)'
<1>1. Len(known) \in Nat /\ Len(known') \in Nat
  BY DEF KnownGrows
<1>2. \A n \in 1..Len(known) : n \in 1..Len(known')
  BY <1>1 DEF KnownGrows
<1>3. imports[i].created <= Cardinality(LeadsBy(i))'
  <2>1. imports[i].created \in Nat /\ imports[i].created <= Cardinality(LeadsBy(i))
    BY DEF ImportFits, ImportRows
  <2> QED
    BY <2>1, GrownLeads
<1>4. \A r \in 1..(imports[i].next - 1) : ToldFrom(i, FileRows[r])'
  BY ToldStays DEF ImportFits
<1>5. \A ph \in imports[i].phones :
        (\E n \in 1..Len(known') : known'[n].phone = ph) \/ \E l \in imports[i].failed : l.phone = ph
  BY Zenon, <1>2 DEF ImportFits, KnownGrows
<1>6. \A em \in imports[i].emails :
        (\E n \in 1..Len(known') : known'[n].email = em) \/ \E l \in imports[i].failed : l.email = em
  BY Zenon, <1>2 DEF ImportFits, KnownGrows
<1> QED
  BY <1>3, <1>4, <1>5, <1>6 DEF ImportFits

LEMMA HookStaysFit ==
  ASSUME KnownGrows, HookFits(inbound), inbound' = inbound
  PROVE  HookFits(inbound)'
<1>1. Len(known) \in Nat /\ Len(known') \in Nat
  BY DEF KnownGrows
<1>2. inbound.lead \in Nat
  BY DEF HookFits, HookRows
<1>3. inbound.lead # 0 => inbound.lead \in 1..Len(known)
  BY <1>1, <1>2 DEF HookFits
<1>4. inbound.lead <= Len(known')
  BY <1>1, <1>2 DEF HookFits, KnownGrows
<1> QED
  BY <1>3, <1>4 DEF HookFits, KnownGrows

LEMMA CountedStay ==
  ASSUME KnownGrows, ImportShape
  PROVE  /\ counted \subseteq 1..Len(known')
         /\ \A n \in counted : known'[n].announced /\ (known'[n].agent => known'[n].assigned)
<1>1. Len(known) \in Nat /\ Len(known') \in Nat
  BY DEF KnownGrows
<1>2. \A n \in 1..Len(known) : n \in 1..Len(known')
  BY <1>1 DEF KnownGrows
<1> QED
  BY <1>2 DEF ImportShape, KnownGrows

(* An import that begins, or is given up: it has gone through no row. *)
LEMMA NoImportFields ==
  ASSUME NEW d \in BOOLEAN
  PROVE  /\ NoImport(d) \in ImportRows /\ [NoImport(d) EXCEPT !.step = "threw"] \in ImportRows
         /\ NoImport(d).step = "idle" /\ NoImport(d).dedup = d /\ NoImport(d).next = 1 /\ NoImport(d).created = 0
         /\ NoImport(d).skipped = 0 /\ NoImport(d).phones = {} /\ NoImport(d).emails = {} /\ NoImport(d).failed = {}
         /\ [NoImport(d) EXCEPT !.step = "threw"].step = "threw" /\ [NoImport(d) EXCEPT !.step = "threw"].dedup = d
         /\ [NoImport(d) EXCEPT !.step = "threw"].next = 1 /\ [NoImport(d) EXCEPT !.step = "threw"].created = 0
         /\ [NoImport(d) EXCEPT !.step = "threw"].skipped = 0
         /\ [NoImport(d) EXCEPT !.step = "threw"].phones = {} /\ [NoImport(d) EXCEPT !.step = "threw"].emails = {}
BY DEF NoImport, ImportRows

LEMMA GivenUp ==
  ASSUME KnownGrows, NEW i \in Importers, imports'[i].step \in {"idle", "threw"}, imports'[i].next = 1, 
         imports'[i].created = 0, imports'[i].skipped = 0, imports'[i].phones = {}, imports'[i].emails = {}
  PROVE  ImportFits(i)'
<1>1. 0 <= Cardinality(LeadsBy(i))'
  BY GrownLeads
<1>2. 1..(imports'[i].next - 1) = {}
  OBVIOUS
<1>3. imports'[i].next \in 1..(Len(FileRows) + 1)
  BY TheFile
<1>4. imports'[i].created + imports'[i].skipped + 1 = imports'[i].next
  OBVIOUS
<1> QED
  BY <1>1, <1>2, <1>3, <1>4 DEF ImportFits

-----------------------------------------------------------------------------
(* Imports begin and end *)

LEMMA DifferentStay ==
  ASSUME ImportInv, KnownGrows, known' = known, importRaced' = importRaced,
         \A j \in Importers : imports'[j].dedup = imports[j].dedup,
         \A j \in Running' : j \in Running /\ imports'[j] = imports[j]
  PROVE  KnownDiffers'
<1>1. KnownDiffers
  BY DEF ImportInv
<1> QED
  BY <1>1 DEF KnownDiffers, Knows, Alike

LEMMA BeginFits ==
  ASSUME ImportInv, NEW i \in Importers, BeginImport(i)
  PROVE  ImportInv'
<1>1. ImportShape /\ (\A j \in Importers : ImportFits(j)) /\ KnownDiffers
  BY DEF ImportInv
<1>2. imports \in [Importers -> ImportRows] /\ known \in Seq(LeadRows)
  BY <1>1 DEF ImportShape
<1> PICK run \in ImportRows : run = imports[i]
  BY <1>2
<1>3. /\ run.step \in {"idle", "threw"}
      /\ UNCHANGED <<known, inbound, counted, importRaced>>
  BY DEF BeginImport
<1> DEFINE ps == IF run.dedup THEN {known[n].phone : n \in DOMAIN known} \ {NoContact} ELSE {}
           es == IF run.dedup THEN {known[n].email : n \in DOMAIN known} \ {NoContact} ELSE {}
<1>12. ps \in SUBSET (LinePhones \ {NoContact}) /\ es \in SUBSET (LineEmails \ {NoContact})
  <2>1. \A n \in DOMAIN known : known[n].phone \in LinePhones /\ known[n].email \in LineEmails
    BY <1>2, KnownFacts DEF LeadRows
  <2> QED
    BY <2>1
<1> DEFINE t == [run EXCEPT !.step = "running", !.phones = ps, !.emails = es]
<1>4. imports' = [imports EXCEPT ![i] = t]
  BY DEF BeginImport
<1>5. /\ t \in ImportRows /\ t.step = "running" /\ t.dedup = run.dedup /\ t.next = run.next /\ t.phones = ps
      /\ t.emails = es /\ t.created = run.created /\ t.skipped = run.skipped /\ t.failed = run.failed
  <2> HIDE DEF ps, es
  <2> QED
    BY Zenon, <1>12 DEF ImportRows
<1> HIDE DEF t
<1>6. imports'[i] = t /\ (\A j \in Importers \ {i} : imports'[j] = imports[j]) /\ imports' \in [Importers -> ImportRows]
  BY <1>2, <1>4, <1>5
<1>7. KnownGrows /\ known' = known
  BY <1>2, <1>3, NothingNew
<1>8. ImportShape'
  <2>1. HookFits(inbound)'
    BY <1>1, <1>3, <1>7, HookStaysFit DEF ImportShape
  <2> QED
    BY <1>1, <1>2, <1>3, <1>6, <2>1 DEF ImportShape
<1>9. ImportFits(i)'
  <2>1. ImportFits(i)
    BY <1>1
  <2>2. run.next = 1 /\ run.created = 0 /\ run.skipped = 0
    BY <1>3, <2>1 DEF ImportFits
  <2>3. 1..(imports'[i].next - 1) = {}
    BY <1>5, <1>6, <2>2
  <2>4. imports'[i].next \in 1..(Len(FileRows) + 1)
    BY <1>5, <1>6, <2>1 DEF ImportFits
  <2>5. imports'[i].created + imports'[i].skipped + 1 = imports'[i].next
    BY <1>5, <1>6, <2>2
  <2>6. imports'[i].created <= Cardinality(LeadsBy(i))'
    BY <1>5, <1>6, <1>7, <2>2, GrownLeads
  <2>7. /\ \A ph \in ps : \E n \in 1..Len(known') : known'[n].phone = ph
        /\ \A em \in es : \E n \in 1..Len(known') : known'[n].email = em
    BY <1>2, <1>7, KnownFacts
  <2> QED
    BY Zenon, <1>5, <1>6, <2>2, <2>3, <2>4, <2>5, <2>6, <2>7 DEF ImportFits
<1>10. ASSUME NEW j \in Importers \ {i} PROVE ImportFits(j)'
  BY <1>1, <1>2, <1>6, <1>7, ImportStaysFit
<1>11. KnownDiffers'
  <2> SUFFICES ASSUME ~importRaced, \A j \in Importers : imports'[j].dedup
               PROVE  /\ \A m, n \in 1..Len(known) : m < n /\ known[n].by \in Importers => ~Alike(known[m], known[n])
                      /\ \A j \in Running' : Knows(j)'
    BY <1>3, <1>7 DEF KnownDiffers, Alike
  <2>1. \A j \in Importers : imports[j].dedup
    BY <1>5, <1>6
  <2>2. /\ \A m, n \in 1..Len(known) : m < n /\ known[n].by \in Importers => ~Alike(known[m], known[n])
        /\ \A j \in Running : Knows(j)
    BY <1>1, <2>1 DEF KnownDiffers
  <2>3. ASSUME NEW j \in Running', j # i PROVE Knows(j)'
    BY <1>6, <1>7, <2>2, <2>3 DEF Running, Knows
  <2>4. Knows(i)'
    <3>1. run.dedup
      BY <2>1
    <3>2. \A n \in 1..Len(known) : known[n].phone \in ps \cup {NoContact} /\ known[n].email \in es \cup {NoContact}
      BY <1>2, <3>1, KnownFacts
    <3> QED
      BY <1>5, <1>6, <1>7, <3>2 DEF Knows
  <2> QED
    BY <2>2, <2>3, <2>4
<1> QED
  BY <1>8, <1>9, <1>10, <1>11 DEF ImportInv

LEMMA EndFits ==
  ASSUME ImportInv, NEW i \in Importers, NEW logged \in BOOLEAN, EndImport(i, logged)
  PROVE  ImportInv'
<1>1. ImportShape /\ (\A j \in Importers : ImportFits(j)) /\ KnownDiffers
  BY DEF ImportInv
<1>2. imports \in [Importers -> ImportRows] /\ known \in Seq(LeadRows)
  BY <1>1 DEF ImportShape
<1> PICK run \in ImportRows : run = imports[i]
  BY <1>2
<1>3. /\ run.step = "running" /\ run.next > Len(FileRows)
      /\ UNCHANGED <<known, inbound, counted, importRaced>>
  BY DEF EndImport
<1> DEFINE t == [run EXCEPT !.step = "done", !.phones = {}, !.emails = {}]
           w == [NoImport(run.dedup) EXCEPT !.step = "threw"]
<1>4. imports' = [imports EXCEPT ![i] = IF logged THEN t ELSE w]
  BY DEF EndImport
<1>5. /\ t \in ImportRows /\ t.step = "done" /\ t.dedup = run.dedup /\ t.next = run.next /\ t.phones = {}
      /\ t.emails = {} /\ t.created = run.created /\ t.skipped = run.skipped /\ t.failed = run.failed
  BY Zenon DEF ImportRows
<1>6. /\ w \in ImportRows /\ w.step = "threw" /\ w.dedup = run.dedup /\ w.next = 1 /\ w.created = 0 /\ w.skipped = 0
      /\ w.phones = {} /\ w.emails = {}
  BY NoImportFields DEF ImportRows
<1> HIDE DEF t, w
<1>7. /\ imports'[i] = (IF logged THEN t ELSE w) /\ (\A j \in Importers \ {i} : imports'[j] = imports[j])
      /\ imports' \in [Importers -> ImportRows]
  BY <1>2, <1>4, <1>5, <1>6
<1>8. KnownGrows /\ known' = known
  BY <1>2, <1>3, NothingNew
<1>9. ImportShape'
  <2>1. HookFits(inbound)'
    BY <1>1, <1>3, <1>8, HookStaysFit DEF ImportShape
  <2> QED
    BY <1>1, <1>2, <1>3, <1>7, <2>1 DEF ImportShape
<1>10. ImportFits(i)'
  <2>1. CASE logged
    <3>1. ImportFits(i)
      BY <1>1
    <3>2. imports'[i] = t
      BY <1>7, <2>1
    <3>3. run.next = Len(FileRows) + 1
      BY <1>3, <3>1, TheFile DEF ImportFits
    <3>4. imports'[i].created <= Cardinality(LeadsBy(i))'
      <4>1. run.created \in Nat /\ run.created <= Cardinality(LeadsBy(i))
        BY <3>1 DEF ImportFits, ImportRows
      <4> QED
        BY <1>5, <1>8, <3>2, <4>1, GrownLeads
    <3>5. \A r \in 1..(run.next - 1) : ToldFrom(i, FileRows[r])'
      BY <1>5, <1>8, <3>1, <3>2, ToldStays DEF ImportFits
    <3> QED
      BY <1>5, <3>1, <3>2, <3>3, <3>4, <3>5 DEF ImportFits
  <2>2. CASE ~logged
    BY <1>6, <1>7, <1>8, <2>2, GivenUp
  <2> QED
    BY <2>1, <2>2
<1>11. ASSUME NEW j \in Importers \ {i} PROVE ImportFits(j)'
  BY <1>1, <1>2, <1>7, <1>8, ImportStaysFit
<1>12. KnownDiffers'
  <2>1. \A j \in Importers : imports'[j].dedup = imports[j].dedup
    BY <1>5, <1>6, <1>7
  <2>2. \A j \in Running' : j \in Running /\ imports'[j] = imports[j]
    BY <1>5, <1>6, <1>7 DEF Running
  <2> QED
    BY <1>3, <1>8, <2>1, <2>2, DifferentStay
<1> QED
  BY <1>9, <1>10, <1>11, <1>12 DEF ImportInv

-----------------------------------------------------------------------------
(* A chunk is written *)

LEMMA WrittenChunk ==
  ASSUME known \in Seq(LeadRows), NEW i \in Importers, NEW c \in Seq(FileLines), known' = Inserted(i, c)
  PROVE  /\ KnownGrows /\ Len(c) \in Nat /\ Len(known') = Len(known) + Len(c)
         /\ \A a \in 1..Len(c) : /\ known'[Len(known) + a].phone = c[a].phone
                                 /\ known'[Len(known) + a].email = c[a].email /\ known'[Len(known) + a].by = i
         /\ \A n \in 1..Len(known) : known'[n] = known[n]
         /\ \A n \in 1..Len(known') : n \in 1..Len(known) \/ \E a \in 1..Len(c) : n = Len(known) + a
<1>1. Len(known) \in Nat /\ Len(c) \in Nat /\ DOMAIN c = 1..Len(c) /\ \A a \in 1..Len(c) : c[a] \in FileLines
  OBVIOUS
<1> DEFINE s == [n \in DOMAIN c |-> NewLead(c[n], i, FALSE)]
<1>2. \A a \in 1..Len(c) : /\ NewLead(c[a], i, FALSE) \in LeadRows
                           /\ NewLead(c[a], i, FALSE).phone = c[a].phone
                           /\ NewLead(c[a], i, FALSE).email = c[a].email /\ NewLead(c[a], i, FALSE).by = i
  BY <1>1, TheFile DEF NewLead, LeadRows
<1>3. s \in [1..Len(c) -> LeadRows] /\ \A a \in 1..Len(c) : s[a] = NewLead(c[a], i, FALSE)
  BY Zenon, <1>1, <1>2
<1> HIDE DEF s
<1>4. s \in Seq(LeadRows) /\ Len(s) = Len(c)
  BY <1>1, <1>3
<1>5. known' = known \o s
  BY DEF Inserted, s
<1>6. /\ known' \in Seq(LeadRows) /\ Len(known') = Len(known) + Len(c)
      /\ \A n \in 1..Len(known) : known'[n] = known[n]
      /\ \A a \in 1..Len(c) : known'[Len(known) + a] = s[a]
  <2>1. known' \in Seq(LeadRows) /\ Len(known') = Len(known) + Len(s)
    BY Zenon, <1>4, <1>5, ConcatProperties
  <2>2. \A n \in 1..(Len(known) + Len(s)) : known'[n] = IF n <= Len(known) THEN known[n] ELSE s[n - Len(known)]
    BY <1>4, <1>5
  <2>3. ASSUME NEW a \in 1..Len(c) PROVE known'[Len(known) + a] = s[a]
    <3>1. PICK k \in Nat : k = Len(known)
      BY <1>1
    <3>2. PICK l \in Nat : l = Len(c)
      BY Zenon, <1>1
    <3>3. a \in Nat /\ 1 <= a /\ a <= l
      BY <3>2
    <3>4. k + a \in 1..(k + l) /\ ~(k + a <= k) /\ (k + a) - k = a
      BY <3>3
    <3> QED
      BY <1>4, <2>2, <3>1, <3>2, <3>4
  <2>4. \A n \in 1..Len(known) : known'[n] = known[n]
    BY <1>1, <1>4, <2>2
  <2> QED
    BY <1>4, <2>1, <2>3, <2>4
<1>7. KnownGrows
  BY <1>1, <1>6 DEF KnownGrows
<1>8. ASSUME NEW n \in 1..Len(known'), n \notin 1..Len(known)
      PROVE  \E a \in 1..Len(c) : n = Len(known) + a
  <2>1. n - Len(known) \in 1..Len(c) /\ n = Len(known) + (n - Len(known))
    BY <1>1, <1>6, <1>8
  <2> QED
    BY Zenon, <2>1
<1> QED
  BY Zenon, <1>1, <1>2, <1>3, <1>6, <1>7, <1>8

(* The leads of an import grow by its chunk. *)
LEMMA WrittenAreCounted ==
  ASSUME known \in Seq(LeadRows), NEW i \in Importers, NEW c \in Seq(FileLines), known' = Inserted(i, c)
  PROVE  /\ Cardinality(LeadsBy(i))' = Cardinality(LeadsBy(i)) + Len(c)
         /\ Cardinality(LeadsBy(i)) \in Nat /\ Len(c) \in Nat
<1>1. /\ KnownGrows /\ Len(c) \in Nat /\ Len(known') = Len(known) + Len(c)
      /\ \A a \in 1..Len(c) : known'[Len(known) + a].by = i
      /\ \A n \in 1..Len(known) : known'[n] = known[n]
      /\ \A n \in 1..Len(known') : n \in 1..Len(known) \/ \E a \in 1..Len(c) : n = Len(known) + a
  BY WrittenChunk
<1>2. /\ LeadsBy(i) = {n \in 1..Len(known) : known[n].by = i} /\ IsFiniteSet(LeadsBy(i))
      /\ Cardinality(LeadsBy(i)) \in Nat /\ Len(known) \in Nat
  BY KnownFacts
<1>3. DOMAIN known' = 1..Len(known')
  BY <1>1 DEF KnownGrows
<1> DEFINE new == (Len(known) + 1)..(Len(known) + Len(c))
<1>4. LeadsBy(i)' = LeadsBy(i) \cup new
  <2>1. LeadsBy(i)' = {n \in 1..Len(known') : known'[n].by = i}
    BY <1>3 DEF LeadsBy
  <2>2. ASSUME NEW n \in LeadsBy(i)' PROVE n \in LeadsBy(i) \cup new
    <3>1. CASE n \in 1..Len(known)
      BY <1>1, <1>2, <2>1, <2>2, <3>1
    <3>2. CASE \E a \in 1..Len(c) : n = Len(known) + a
      BY <1>1, <1>2, <3>2
    <3> QED
      BY <1>1, <2>1, <2>2, <3>1, <3>2
  <2>3. ASSUME NEW n \in LeadsBy(i) PROVE n \in LeadsBy(i)'
    BY <1>1, <1>2, <2>1, <2>3
  <2>4. ASSUME NEW n \in new PROVE n \in LeadsBy(i)'
    <3>1. n \in 1..Len(known') /\ n \notin 1..Len(known)
      BY <1>1, <1>2
    <3> QED
      BY Zenon, <1>1, <2>1, <3>1
  <2> QED
    BY <2>2, <2>3, <2>4
<1>5. LeadsBy(i) \cap new = {}
  BY <1>1, <1>2
<1>6. IsFiniteSet(new) /\ Cardinality(new) = Len(c)
  <2>1. PICK k \in Nat : k = Len(known)
    BY <1>2
  <2>2. PICK l \in Nat : l = Len(c)
    BY <1>1
  <2>3. k + 1 \in Int /\ k + l \in Int /\ (IF k + 1 > k + l THEN 0 ELSE (k + l) - (k + 1) + 1) = l
    OBVIOUS
  <2>4. IsFiniteSet((k + 1)..(k + l)) /\ Cardinality((k + 1)..(k + l)) = l
    BY <2>3, FS_Interval
  <2> QED
    BY <2>1, <2>2, <2>4
<1>7. Cardinality(LeadsBy(i) \cup new) = Cardinality(LeadsBy(i)) + Len(c)
  <2>1. Cardinality(LeadsBy(i) \cap new) = 0
    BY Zenon, <1>5, FS_EmptySet
  <2>2. Cardinality(LeadsBy(i) \cup new) = Cardinality(LeadsBy(i)) + Cardinality(new) - Cardinality(LeadsBy(i) \cap new)
    BY Zenon, <1>2, <1>6, FS_Union
  <2> HIDE DEF new
  <2> QED
    BY <1>1, <1>2, <1>6, <2>1, <2>2
<1> QED
  BY <1>1, <1>2, <1>4, <1>7

LEMMA ChunkIsDone ==
  ASSUME ImportInv, NEW i \in Importers, NEW stopped, NEW outcome \in {"ok", "failed", "unanswered"},
         ImportChunk(i, stopped, outcome)
  PROVE  \E run, last, m, t : ChunkDone(i, run, last, m, t)
<1>1. ImportShape /\ ImportFits(i)
  BY DEF ImportInv
<1>2. imports[i] \in ImportRows
  BY <1>1 DEF ImportShape
<1> DEFINE run == imports[i]
           last == IF run.next + ChunkSize - 1 < Len(FileRows) THEN run.next + ChunkSize - 1 ELSE Len(FileRows)
           m == Mapped(run, last, stopped)
           after == [step |-> m.step, dedup |-> m.dedup, next |-> m.next, phones |-> m.phones, emails |-> m.emails,
                     created |-> m.created + Len(m.chunk), skipped |-> m.skipped, failed |-> m.failed]
           threw == [NoImport(run.dedup) EXCEPT !.step = "threw"]
           t == IF outcome = "ok" THEN after ELSE threw
<1>3. /\ run.step = "running" /\ run.next <= Len(FileRows)
      /\ known' = IF outcome = "failed" THEN known ELSE Inserted(i, m.chunk)
      /\ imports' = [imports EXCEPT ![i] = t]
      /\ importRaced' = (importRaced \/ (Running \ {i} # {} /\ known' # known))
      /\ UNCHANGED <<inbound, counted>>
  BY DEF ImportChunk
<1>4. last \in 1..Len(FileRows) /\ run.next <= last
  <2>1. PICK k \in Nat : k = run.next
    BY <1>2 DEF ImportRows
  <2>2. PICK len \in Nat \ {0} : len = Len(FileRows)
    BY Zenon, TheFile
  <2>3. PICK size \in Nat \ {0} : size = ChunkSize
    BY ImportAssumption
  <2>4. k <= len /\ 1 <= k
    BY <1>1, <1>3, <2>1, <2>2 DEF ImportFits
  <2>5. k + size - 1 \in Nat /\ k <= k + size - 1
    BY <2>4
  <2>6. (IF k + size - 1 < len THEN k + size - 1 ELSE len) \in 1..len
        /\ k <= (IF k + size - 1 < len THEN k + size - 1 ELSE len)
    BY <2>4, <2>5
  <2> QED
    BY <2>1, <2>2, <2>3, <2>6
<1> HIDE DEF run, last
<1>5. run \in ImportRows /\ run.next \in Nat \ {0} /\ last \in DOMAIN FileRows
  BY <1>1, <1>2, <1>4, TheFile DEF run, ImportFits
<1>6. RunFits(run, last, m) /\ m.next = last + 1
  BY <1>4, <1>5, MappedFits
<1> HIDE DEF m
<1>7. m \in MapRows /\ m.dedup = run.dedup
  BY <1>6 DEF RunFits, RunCounts
<1>8. /\ after \in ImportRows /\ after.dedup = run.dedup
      /\ after.step = m.step /\ after.next = m.next /\ after.phones = m.phones /\ after.emails = m.emails
      /\ after.created = m.created + Len(m.chunk) /\ after.skipped = m.skipped /\ after.failed = m.failed
  <2>1. PICK c \in Nat : c = m.created + Len(m.chunk)
    BY <1>7 DEF MapRows
  <2> QED
    BY <1>7, <2>1 DEF MapRows, ImportRows
<1> HIDE DEF after
<1>9. /\ threw \in ImportRows /\ threw.step = "threw" /\ threw.dedup = run.dedup /\ threw.next = 1 /\ threw.created = 0
      /\ threw.skipped = 0 /\ threw.phones = {} /\ threw.emails = {}
  BY <1>5, NoImportFields DEF ImportRows
<1> HIDE DEF threw
<1>10. CASE outcome = "ok"
  <2>1. known' = Inserted(i, m.chunk) /\ t = after
    BY <1>3, <1>10
  <2>2. ChunkDone(i, run, last, m, t)
    BY <1>3, <1>4, <1>5, <1>6, <1>8, <2>1 DEF ChunkDone, run
  <2> QED
    BY <2>2
<1>11. CASE outcome # "ok"
  <2>1. t = threw /\ (known' = known \/ known' = Inserted(i, m.chunk))
    BY <1>3, <1>11
  <2>2. ChunkDone(i, run, last, m, t)
    BY <1>3, <1>4, <1>5, <1>6, <1>9, <2>1 DEF ChunkDone, run
  <2> QED
    BY <2>2
<1> QED
  BY <1>10, <1>11

LEMMA ChunkGrows ==
  ASSUME ImportInv, NEW i \in Importers, NEW run, NEW last, NEW m, NEW t, ChunkDone(i, run, last, m, t)
  PROVE  /\ known \in Seq(LeadRows) /\ imports \in [Importers -> ImportRows] /\ KnownGrows
         /\ m \in MapRows /\ m.chunk \in Seq(FileLines) /\ ImportFits(i)
         /\ imports'[i] = t /\ (\A j \in Importers \ {i} : imports'[j] = imports[j])
         /\ imports' \in [Importers -> ImportRows]
<1>1. known \in Seq(LeadRows) /\ imports \in [Importers -> ImportRows] /\ ImportFits(i)
  BY DEF ImportInv, ImportShape
<1>2. m \in MapRows /\ m.chunk \in Seq(FileLines)
  BY DEF ChunkDone, RunFits, MapRows
<1>3. KnownGrows
  BY <1>1, <1>2, NothingNew, WrittenChunk DEF ChunkDone
<1>4. imports' = [imports EXCEPT ![i] = t] /\ t \in ImportRows
  BY DEF ChunkDone
<1> QED
  BY <1>1, <1>2, <1>3, <1>4

(* The leads of a chunk differ from those before and from each other. *)
LEMMA InsertedDiffer ==
  ASSUME ImportInv, NEW i \in Importers, NEW run, NEW last, NEW m, NEW t, ChunkDone(i, run, last, m, t),
         ~importRaced, \A j \in Importers : imports[j].dedup, known' = Inserted(i, m.chunk)
  PROVE  /\ \A x, y \in 1..Len(known') : x < y /\ known'[y].by \in Importers => ~Alike(known'[x], known'[y])
         /\ \A n \in 1..Len(known') : /\ known'[n].phone \in m.phones \cup {NoContact}
                                      /\ known'[n].email \in m.emails \cup {NoContact}
<1>1. known \in Seq(LeadRows) /\ m.chunk \in Seq(FileLines)
  BY ChunkGrows
<1>2. /\ Len(m.chunk) \in Nat /\ Len(known') = Len(known) + Len(m.chunk)
      /\ \A a \in 1..Len(m.chunk) : /\ known'[Len(known) + a].phone = m.chunk[a].phone
                                    /\ known'[Len(known) + a].email = m.chunk[a].email
      /\ \A n \in 1..Len(known) : known'[n] = known[n]
      /\ \A n \in 1..Len(known') : n \in 1..Len(known) \/ \E a \in 1..Len(m.chunk) : n = Len(known) + a
  BY <1>1, WrittenChunk
<1>3. run = imports[i] /\ run.step = "running" /\ run.dedup /\ RunFits(run, last, m)
  BY DEF ChunkDone
<1>4. /\ \A x, y \in 1..Len(known) : x < y /\ known[y].by \in Importers => ~Alike(known[x], known[y])
      /\ Knows(i)
  BY <1>3 DEF ImportInv, KnownDiffers, Running
<1>5. /\ \A a \in 1..Len(m.chunk) : /\ m.chunk[a].phone \in (m.phones \cup {NoContact}) \ run.phones
                                    /\ m.chunk[a].email \in (m.emails \cup {NoContact}) \ run.emails
      /\ \A a, b \in 1..Len(m.chunk) : a < b => ~Alike(m.chunk[a], m.chunk[b])
  BY <1>3 DEF RunFits, RunDiffers
<1>6. run.phones \subseteq m.phones /\ run.emails \subseteq m.emails
  BY <1>3 DEF RunFits, RunCounts
<1>7. \A n \in 1..Len(known) : /\ known[n].phone \in run.phones \cup {NoContact}
                               /\ known[n].email \in run.emails \cup {NoContact}
  BY <1>3, <1>4 DEF Knows
<1>8. ASSUME NEW n \in 1..Len(known')
      PROVE  known'[n].phone \in m.phones \cup {NoContact} /\ known'[n].email \in m.emails \cup {NoContact}
  <2>1. CASE n \in 1..Len(known)
    BY <1>2, <1>6, <1>7, <2>1
  <2>2. CASE \E a \in 1..Len(m.chunk) : n = Len(known) + a
    BY Zenon, <1>2, <1>5, <2>2
  <2> QED
    BY <1>2, <2>1, <2>2
<1>9. ASSUME NEW x \in 1..Len(known'), NEW y \in 1..Len(known'), x < y, known'[y].by \in Importers
      PROVE  ~Alike(known'[x], known'[y])
  <2>0. Len(known) \in Nat
    BY <1>1, KnownFacts
  <2>1. CASE y \in 1..Len(known)
    <3>1. x \in 1..Len(known)
      BY <1>9, <2>0, <2>1
    <3>2. known'[x] = known[x] /\ known'[y] = known[y]
      BY <1>2, <2>1, <3>1
    <3> QED
      BY <1>4, <1>9, <2>1, <3>1, <3>2
  <2>2. CASE \E b \in 1..Len(m.chunk) : y = Len(known) + b
    <3>1. PICK b \in 1..Len(m.chunk) : y = Len(known) + b
      BY <2>2
    <3>2. known'[y].phone = m.chunk[b].phone /\ known'[y].email = m.chunk[b].email
      BY <1>2, <3>1
    <3>3. CASE x \in 1..Len(known)
      <4>1. known'[x] = known[x]
        BY Zenon, <1>2, <3>3
      <4> QED
        BY <1>5, <1>7, <3>2, <3>3, <4>1 DEF Alike
    <3>4. CASE \E a \in 1..Len(m.chunk) : x = Len(known) + a
      <4>1. PICK a \in 1..Len(m.chunk) : x = Len(known) + a
        BY <3>4
      <4>2. known'[x].phone = m.chunk[a].phone /\ known'[x].email = m.chunk[a].email
        BY Zenon, <1>2, <4>1
      <4>3. a < b
        BY <1>9, <2>0, <3>1, <4>1
      <4>4. ~Alike(m.chunk[a], m.chunk[b])
        BY <1>5, <4>3
      <4> QED
        BY <3>2, <4>2, <4>4 DEF Alike
    <3> QED
      BY <1>2, <3>3, <3>4
  <2> QED
    BY <1>2, <2>1, <2>2
<1> QED
  BY <1>8, <1>9

(* The import tells of each row of its chunk. *)
LEMMA ChunkIsTold ==
  ASSUME ImportInv, NEW i \in Importers, NEW run, NEW last, NEW m, NEW t, ChunkDone(i, run, last, m, t),
         known' = Inserted(i, m.chunk), t.phones = m.phones, t.emails = m.emails, t.failed = m.failed
  PROVE  /\ \A r \in 1..last : ToldFrom(i, FileRows[r])'
         /\ \A ph \in m.phones :
              (\E n \in 1..Len(known') : known'[n].phone = ph) \/ \E l \in m.failed : l.phone = ph
         /\ \A em \in m.emails :
              (\E n \in 1..Len(known') : known'[n].email = em) \/ \E l \in m.failed : l.email = em
<1>1. /\ known \in Seq(LeadRows) /\ m.chunk \in Seq(FileLines) /\ KnownGrows /\ ImportFits(i) /\ m \in MapRows
      /\ imports'[i] = t
  BY ChunkGrows
<1>2. /\ Len(m.chunk) \in Nat /\ Len(known) \in Nat /\ Len(known') = Len(known) + Len(m.chunk)
      /\ \A a \in 1..Len(m.chunk) : /\ known'[Len(known) + a].phone = m.chunk[a].phone
                                    /\ known'[Len(known) + a].email = m.chunk[a].email
                                    /\ known'[Len(known) + a].by = i
      /\ \A n \in 1..Len(known) : known'[n] = known[n]
  BY <1>1, WrittenChunk, KnownFacts
<1>3. run = imports[i] /\ run \in ImportRows /\ RunFits(run, last, m) /\ last \in Nat
  BY TheFile DEF ChunkDone
<1>4. run.failed \subseteq m.failed /\ RunTells(run, last, m)
  BY <1>3 DEF RunFits, RunCounts
<1>5. ASSUME NEW l \in FileLines, Named(m, l)
      PROVE  \/ l \in m.failed
             \/ HasData(l) /\ \E n \in 1..Len(known') : /\ known'[n].phone = l.phone /\ known'[n].email = l.email
                                                        /\ known'[n].by = i
  <2>1. CASE l \in m.failed
    BY <2>1
  <2>2. CASE \E a \in 1..Len(m.chunk) : m.chunk[a] = l
    <3>1. PICK a \in 1..Len(m.chunk) : m.chunk[a] = l
      BY <2>2
    <3>2. Len(known) + a \in 1..Len(known')
      BY <1>2
    <3>3. HasData(l)
      BY <1>4, <3>1 DEF RunTells
    <3> QED
      BY Zenon, <1>2, <3>1, <3>2, <3>3
  <2> QED
    BY <1>5, <2>1, <2>2 DEF Named
<1>6. \A n \in 1..Len(known) : n \in 1..Len(known')
  BY <1>2
<1>7. ASSUME NEW ph \in m.phones
      PROVE  (\E n \in 1..Len(known') : known'[n].phone = ph) \/ \E l \in m.failed : l.phone = ph
  <2>1. CASE ph \in run.phones
    <3>1. (\E n \in 1..Len(known) : known[n].phone = ph) \/ \E l \in run.failed : l.phone = ph
      BY <1>1, <1>3, <2>1 DEF ImportFits
    <3> QED
      BY <1>2, <1>4, <1>6, <3>1
  <2>2. CASE \E row \in FileLines : Named(m, row) /\ row.phone = ph
    BY <1>5, <2>2
  <2> QED
    BY <1>4, <2>1, <2>2 DEF RunTells
<1>8. ASSUME NEW em \in m.emails
      PROVE  (\E n \in 1..Len(known') : known'[n].email = em) \/ \E l \in m.failed : l.email = em
  <2>1. CASE em \in run.emails
    <3>1. (\E n \in 1..Len(known) : known[n].email = em) \/ \E l \in run.failed : l.email = em
      BY <1>1, <1>3, <2>1 DEF ImportFits
    <3> QED
      BY <1>2, <1>4, <1>6, <3>1
  <2>2. CASE \E row \in FileLines : Named(m, row) /\ row.email = em
    BY <1>5, <2>2
  <2> QED
    BY <1>4, <2>1, <2>2 DEF RunTells
<1>9. NoContact \notin m.phones /\ NoContact \notin m.emails
  BY <1>1 DEF MapRows
<1>10. ASSUME NEW r \in 1..last PROVE ToldFrom(i, FileRows[r])'
  <2>0. r \in 1..Len(FileRows)
    BY <1>3, TheFile DEF ChunkDone
  <2> PICK row \in FileLines : row = FileRows[r]
    BY <2>0, TheFile
  <2>1. CASE r \in 1..(run.next - 1)
    <3>1. ToldFrom(i, row)
      BY <1>1, <1>3, <2>1 DEF ImportFits
    <3>2. imports[i].failed \subseteq imports'[i].failed
      BY <1>1, <1>3, <1>4
    <3> QED
      BY <1>1, <3>1, <3>2, ToldStays
  <2>2. CASE r \in run.next..last
    <3>1. HookHeard(m, row)
      BY <1>4, <2>2 DEF RunTells
    <3>2. CASE Named(m, row)
      <4>1. CASE row \in m.failed
        BY <1>1, <4>1 DEF ToldFrom
      <4>2. CASE HasData(row) /\ \E n \in 1..Len(known') : /\ known'[n].phone = row.phone /\ known'[n].email = row.email
                                                           /\ known'[n].by = i
        <5>1. PICK n \in 1..Len(known') : known'[n].phone = row.phone /\ known'[n].email = row.email /\ known'[n].by = i
          BY <4>2
        <5>2. row.named \/ row.phone # NoContact \/ row.email # NoContact
          BY <4>2 DEF HasData
        <5>3. CASE row.phone # NoContact \/ row.email # NoContact
          BY <5>1, <5>3 DEF ToldFrom, Alike
        <5>4. CASE row.named /\ row.phone = NoContact /\ row.email = NoContact
          <6>1. {known'[n].phone, known'[n].email} = {NoContact}
            BY <5>1, <5>4
          <6> QED
            BY <5>1, <5>4, <6>1 DEF ToldFrom
        <5> QED
          BY <5>2, <5>3, <5>4
      <4> QED
        BY <1>5, <3>2, <4>1, <4>2
    <3>3. CASE row.phone \in m.phones
      <4>1. (\E n \in 1..Len(known') : known'[n].phone = row.phone) \/ \E l \in m.failed : l.phone = row.phone
        BY <1>7, <3>3
      <4> QED
        BY <1>1, <1>9, <3>3, <4>1 DEF ToldFrom, Alike
    <3>4. CASE row.email \in m.emails
      <4>1. (\E n \in 1..Len(known') : known'[n].email = row.email) \/ \E l \in m.failed : l.email = row.email
        BY <1>8, <3>4
      <4> QED
        BY <1>1, <1>9, <3>4, <4>1 DEF ToldFrom, Alike
    <3> QED
      BY <3>1, <3>2, <3>3, <3>4 DEF HookHeard
  <2>3. run.next \in Nat
    BY <1>3 DEF ImportRows
  <2> QED
    BY <1>3, <2>1, <2>2, <2>3
<1> QED
  BY <1>7, <1>8, <1>10

LEMMA ChunkCounts ==
  \A created, skipped, next, last, more, len \in Nat :
    created + skipped + 1 = next /\ more + len = skipped + (last - (next - 1)) =>
      (created + len) + more + 1 = last + 1
OBVIOUS

LEMMA ChunkFits ==
  ASSUME ImportInv, NEW i \in Importers, NEW stopped, NEW outcome \in {"ok", "failed", "unanswered"},
         ImportChunk(i, stopped, outcome)
  PROVE  ImportInv'
<1>1. ImportShape /\ (\A j \in Importers : ImportFits(j)) /\ KnownDiffers
  BY DEF ImportInv
<1>2. PICK run, last, m, t : ChunkDone(i, run, last, m, t)
  BY ChunkIsDone
<1>3. /\ known \in Seq(LeadRows) /\ imports \in [Importers -> ImportRows] /\ KnownGrows
      /\ m \in MapRows /\ m.chunk \in Seq(FileLines) /\ ImportFits(i)
      /\ imports'[i] = t /\ (\A j \in Importers \ {i} : imports'[j] = imports[j])
      /\ imports' \in [Importers -> ImportRows]
  BY <1>2, ChunkGrows
<1>4. /\ run = imports[i] /\ run \in ImportRows /\ run.step = "running" /\ t.dedup = run.dedup
      /\ known' = known \/ known' = Inserted(i, m.chunk)
      /\ importRaced' = (importRaced \/ (Running \ {i} # {} /\ known' # known))
      /\ UNCHANGED <<inbound, counted>>
  BY <1>2 DEF ChunkDone
<1>5. ImportShape'
  <2>1. HookFits(inbound)'
    BY <1>1, <1>3, <1>4, HookStaysFit DEF ImportShape
  <2>2. known' \in Seq(LeadRows) /\ importRaced' \in BOOLEAN
    BY <1>1, <1>3, <1>4 DEF KnownGrows, ImportShape
  <2>3. /\ counted' \subseteq 1..Len(known')
        /\ \A n \in counted' : known'[n].announced /\ (known'[n].agent => known'[n].assigned)
    BY <1>1, <1>3, <1>4, CountedStay
  <2> QED
    BY <1>3, <2>1, <2>2, <2>3 DEF ImportShape
<1>6. ASSUME NEW j \in Importers \ {i} PROVE ImportFits(j)'
  BY <1>1, <1>3, ImportStaysFit
<1>7. CASE t.step = "threw" /\ t.next = 1 /\ t.created = 0 /\ t.skipped = 0 /\ t.phones = {} /\ t.emails = {}
  <2>1. ImportFits(i)'
    BY <1>3, <1>7, GivenUp
  <2>2. \A j \in Importers : imports'[j].dedup = imports[j].dedup
    BY <1>3, <1>4
  <2>3. \A j \in Running' : j \in Running \ {i} /\ imports'[j] = imports[j]
    BY <1>3, <1>7 DEF Running
  <2>4. KnownDiffers'
    <3>1. CASE known' = known
      <4>1. importRaced' = importRaced
        BY <1>1, <1>4, <3>1 DEF ImportShape
      <4> QED
        BY <1>3, <2>2, <2>3, <3>1, <4>1, DifferentStay
    <3>2. CASE known' # known
      <4> SUFFICES ASSUME ~importRaced', \A j \in Importers : imports'[j].dedup
                   PROVE  /\ \A x, y \in 1..Len(known') : x < y /\ known'[y].by \in Importers => ~Alike(known'[x], known'[y])
                          /\ \A j \in Running' : Knows(j)'
        BY DEF KnownDiffers, Alike
      <4>1. known' = Inserted(i, m.chunk) /\ ~importRaced /\ Running \ {i} = {}
        BY Zenon, <1>4, <3>2
      <4>2. \A j \in Importers : imports[j].dedup
        BY <2>2
      <4>3. \A x, y \in 1..Len(known') : x < y /\ known'[y].by \in Importers => ~Alike(known'[x], known'[y])
        BY <1>2, <4>1, <4>2, InsertedDiffer
      <4> QED
        BY <2>3, <4>1, <4>3
    <3> QED
      BY <3>1, <3>2
  <2> QED
    BY <1>5, <1>6, <2>1, <2>4 DEF ImportInv
<1>8. CASE /\ known' = Inserted(i, m.chunk)
           /\ t.step = m.step /\ t.next = m.next /\ t.phones = m.phones /\ t.emails = m.emails
           /\ t.created = m.created + Len(m.chunk) /\ t.skipped = m.skipped /\ t.failed = m.failed
  <2>1. /\ last \in 1..Len(FileRows) /\ run.next <= last /\ RunFits(run, last, m) /\ m.next = last + 1
    BY <1>2 DEF ChunkDone
  <2>2. /\ m.step = run.step /\ m.created = run.created
        /\ m.skipped + Len(m.chunk) = run.skipped + (last - (run.next - 1))
    BY <2>1 DEF RunFits, RunCounts
  <2>3. ImportFits(i)'
    <3>1. imports'[i].next \in 1..(Len(FileRows) + 1) /\ imports'[i].next - 1 = last
      <4>1. imports'[i].next = last + 1
        BY <1>3, <1>8, <2>1
      <4>2. last \in 1..Len(FileRows) /\ Len(FileRows) \in Nat
        BY <2>1, TheFile
      <4> QED
        BY <4>1, <4>2
    <3>2. imports'[i].created + imports'[i].skipped + 1 = imports'[i].next
      <4>1. /\ run.created \in Nat /\ run.skipped \in Nat /\ run.next \in Nat /\ last \in Nat /\ m.skipped \in Nat
            /\ Len(m.chunk) \in Nat
        BY <1>3, <1>4, <2>1, TheFile DEF ImportRows, MapRows
      <4>2. run.created + run.skipped + 1 = run.next
        BY <1>3, <1>4 DEF ImportFits
      <4>3. (run.created + Len(m.chunk)) + m.skipped + 1 = last + 1
        <5>1. PICK born \in Nat, left \in Nat, next \in Nat, l \in Nat, more \in Nat, len \in Nat :
                born = run.created /\ left = run.skipped /\ next = run.next /\ l = last /\ more = m.skipped
                /\ len = Len(m.chunk)
          BY Zenon, <4>1
        <5>2. born + left + 1 = next /\ more + len = left + (l - (next - 1))
          BY <2>2, <4>2, <5>1
        <5>3. (born + len) + more + 1 = l + 1
          BY <5>2, ChunkCounts
        <5> QED
          BY <5>1, <5>3
      <4> QED
        BY <1>3, <1>8, <2>1, <2>2, <4>3
    <3>3. imports'[i].created <= Cardinality(LeadsBy(i))'
      <4>1. PICK c \in Nat : c = run.created
        BY <1>4 DEF ImportRows
      <4>2. /\ Cardinality(LeadsBy(i))' = Cardinality(LeadsBy(i)) + Len(m.chunk)
            /\ Cardinality(LeadsBy(i)) \in Nat /\ Len(m.chunk) \in Nat
        BY <1>3, <1>8, WrittenAreCounted
      <4>3. c <= Cardinality(LeadsBy(i))
        BY <1>3, <1>4, <4>1 DEF ImportFits
      <4>4. c + Len(m.chunk) <= Cardinality(LeadsBy(i)) + Len(m.chunk)
        BY <4>2, <4>3
      <4> QED
        BY <1>3, <1>8, <2>2, <4>1, <4>2, <4>4
    <3>4. /\ \A r \in 1..last : ToldFrom(i, FileRows[r])'
          /\ \A ph \in m.phones :
               (\E n \in 1..Len(known') : known'[n].phone = ph) \/ \E l \in m.failed : l.phone = ph
          /\ \A em \in m.emails :
               (\E n \in 1..Len(known') : known'[n].email = em) \/ \E l \in m.failed : l.email = em
      BY <1>2, <1>8, ChunkIsTold
    <3>5. imports'[i].step = "running"
      BY <1>3, <1>4, <1>8, <2>2
    <3>6. \A r \in 1..(imports'[i].next - 1) : ToldFrom(i, FileRows[r])'
      BY <3>1, <3>4
    <3>7. imports'[i].phones = m.phones /\ imports'[i].emails = m.emails /\ imports'[i].failed = m.failed
      BY <1>3, <1>8
    <3> QED
      BY <3>1, <3>2, <3>3, <3>4, <3>5, <3>6, <3>7 DEF ImportFits
  <2>4. \A j \in Importers : imports'[j].dedup = imports[j].dedup
    BY <1>3, <1>4
  <2>5. KnownDiffers'
    <3> SUFFICES ASSUME ~importRaced', \A j \in Importers : imports'[j].dedup
                 PROVE  /\ \A x, y \in 1..Len(known') : x < y /\ known'[y].by \in Importers => ~Alike(known'[x], known'[y])
                        /\ \A j \in Running' : Knows(j)'
      BY DEF KnownDiffers, Alike
    <3>1. ~importRaced /\ (Running \ {i} = {} \/ known' = known)
      BY Zenon, <1>1, <1>4 DEF ImportShape
    <3>2. \A j \in Importers : imports[j].dedup
      BY <2>4
    <3>3. /\ \A x, y \in 1..Len(known') : x < y /\ known'[y].by \in Importers => ~Alike(known'[x], known'[y])
          /\ \A n \in 1..Len(known') : /\ known'[n].phone \in m.phones \cup {NoContact}
                                       /\ known'[n].email \in m.emails \cup {NoContact}
      BY <1>2, <1>8, <3>1, <3>2, InsertedDiffer
    <3>4. Knows(i)'
      BY <1>3, <1>8, <3>3 DEF Knows
    <3>5. ASSUME NEW j \in Running', j # i PROVE Knows(j)'
      <4>1. j \in Running /\ imports'[j] = imports[j]
        BY <1>3, <3>5 DEF Running
      <4>2. known' = known
        BY <3>1, <3>5, <4>1
      <4>3. Knows(j)
        BY <1>1, <3>1, <3>2, <4>1 DEF KnownDiffers
      <4> QED
        BY <4>1, <4>2, <4>3 DEF Knows
    <3> QED
      BY <3>3, <3>4, <3>5
  <2> QED
    BY <1>5, <1>6, <2>3, <2>5 DEF ImportInv
<1> QED
  BY <1>2, <1>7, <1>8 DEF ChunkDone

-----------------------------------------------------------------------------
(* The webhook *)

LEMMA ImportsStay ==
  ASSUME ImportInv, KnownGrows, imports' = imports
  PROVE  \A j \in Importers : ImportFits(j)'
<1> TAKE j \in Importers
<1>1. imports[j] \in ImportRows /\ ImportFits(j)
  BY DEF ImportInv, ImportShape
<1> QED
  BY <1>1, ImportStaysFit

LEMMA HookCreateFits ==
  ASSUME ImportInv, NEW agent \in BOOLEAN, HookCreate(FileRows[1], agent)
  PROVE  ImportInv'
<1>1. ImportShape /\ KnownDiffers /\ known \in Seq(LeadRows) /\ Len(known) \in Nat
  BY DEF ImportInv, ImportShape
<1> PICK row \in FileLines : row = FileRows[1]
  BY TheFile
<1> DEFINE l == NewLead(row, "webhook", agent)
           h == [step |-> "created", lead |-> Len(known) + 1, agent |-> agent]
<1>2. l \in LeadRows /\ l.by = "webhook" /\ l.agent = agent
  BY TheFile DEF NewLead, LeadRows
<1>3. /\ known' = Append(known, l) /\ inbound' = h /\ importRaced' = (importRaced \/ Running # {})
      /\ UNCHANGED <<imports, counted>>
  BY DEF HookCreate
<1> HIDE DEF l
<1>4. /\ known' \in Seq(LeadRows) /\ Len(known') = Len(known) + 1 /\ known'[Len(known) + 1] = l
      /\ \A n \in 1..Len(known) : known'[n] = known[n]
  BY <1>1, <1>2, <1>3
<1>5. KnownGrows
  BY <1>1, <1>4 DEF KnownGrows
<1>6. HookFits(inbound)'
  <2>1. PICK n \in Nat \ {0} : n = Len(known) + 1
    BY <1>1
  <2>2. /\ h \in HookRows /\ h.step = "created" /\ h.lead = n /\ h.agent = agent
    BY <2>1 DEF HookRows
  <2>3. h.lead <= Len(known') /\ h.lead # 0 /\ known'[h.lead].agent = h.agent
    BY <1>2, <1>4, <2>1, <2>2
  <2> HIDE DEF h
  <2> QED
    BY <1>3, <2>2, <2>3 DEF HookFits
<1>7. ImportShape'
  <2>1. /\ counted' \subseteq 1..Len(known')
        /\ \A n \in counted' : known'[n].announced /\ (known'[n].agent => known'[n].assigned)
    BY <1>1, <1>3, <1>5, CountedStay
  <2> QED
    BY <1>1, <1>3, <1>4, <1>6, <2>1 DEF ImportShape
<1>8. KnownDiffers'
  <2> SUFFICES ASSUME ~importRaced', \A j \in Importers : imports'[j].dedup
               PROVE  /\ \A x, y \in 1..Len(known') : x < y /\ known'[y].by \in Importers => ~Alike(known'[x], known'[y])
                      /\ \A j \in Running' : Knows(j)'
    BY DEF KnownDiffers, Alike
  <2>1. ~importRaced /\ Running = {} /\ Running' = {}
    BY Zenon, <1>1, <1>3 DEF Running, ImportShape
  <2>2. \A x, y \in 1..Len(known) : x < y /\ known[y].by \in Importers => ~Alike(known[x], known[y])
    BY <1>1, <1>3, <2>1 DEF KnownDiffers
  <2>3. ASSUME NEW x \in 1..Len(known'), NEW y \in 1..Len(known'), x < y, known'[y].by \in Importers
        PROVE  ~Alike(known'[x], known'[y])
    <3>1. y # Len(known) + 1
      BY <1>2, <1>4, <2>3, ImportAssumption
    <3>2. y \in 1..Len(known) /\ x \in 1..Len(known)
      BY <1>1, <1>4, <2>3, <3>1
    <3>3. known'[x] = known[x] /\ known'[y] = known[y]
      BY <1>4, <3>2
    <3> QED
      BY <2>2, <2>3, <3>2, <3>3
  <2> QED
    BY <2>1, <2>3
<1> QED
  BY <1>3, <1>5, <1>7, <1>8, ImportsStay DEF ImportInv

(* An announced lead stays the lead it is. *)
LEMMA AnnouncedFits ==
  ASSUME ImportInv, NEW l \in LeadRows, inbound.step # "idle",
         l.phone = known[inbound.lead].phone, l.email = known[inbound.lead].email, l.by = known[inbound.lead].by,
         l.agent = known[inbound.lead].agent, known[inbound.lead].announced => l.announced,
         known[inbound.lead].assigned => l.assigned,
         known' = [known EXCEPT ![inbound.lead] = l], NEW h \in HookRows, inbound' = h, h.lead = inbound.lead,
         h.agent = inbound.agent, h.step \in {"announced", "assigned"} => l.announced,
         h.step = "assigned" => l.assigned, UNCHANGED <<imports, counted, importRaced>>
  PROVE  ImportInv'
<1>0. ImportShape /\ KnownDiffers
  BY DEF ImportInv
<1>1. ImportShape /\ KnownDiffers /\ known \in Seq(LeadRows) /\ Len(known) \in Nat /\ HookFits(inbound)
  BY <1>0, KnownFacts DEF ImportShape
<1>2. inbound.lead \in 1..Len(known) /\ known[inbound.lead].agent = inbound.agent
  BY <1>1 DEF HookFits, HookRows
<1>3. /\ known' \in Seq(LeadRows) /\ Len(known') = Len(known) /\ known'[inbound.lead] = l
      /\ \A n \in 1..Len(known) : n # inbound.lead => known'[n] = known[n]
  BY <1>1, <1>2
<1>4. \A n \in 1..Len(known) :
        known'[n].phone = known[n].phone /\ known'[n].email = known[n].email /\ known'[n].by = known[n].by
  BY <1>3
<1>5. KnownGrows
  BY <1>1, <1>3 DEF KnownGrows
<1>6. HookFits(inbound)'
  BY <1>2, <1>3 DEF HookFits
<1>7. ImportShape'
  <2>1. /\ counted' \subseteq 1..Len(known')
        /\ \A n \in counted' : known'[n].announced /\ (known'[n].agent => known'[n].assigned)
    BY <1>1, <1>5, CountedStay
  <2> QED
    BY <1>1, <1>3, <1>6, <2>1 DEF ImportShape
<1>8. KnownDiffers'
  BY <1>1, <1>3, <1>4 DEF KnownDiffers, Knows, Running, Alike
<1> QED
  BY <1>5, <1>7, <1>8, ImportsStay DEF ImportInv

LEMMA HookFacts ==
  ASSUME ImportInv
  PROVE  /\ known \in Seq(LeadRows) /\ inbound \in HookRows /\ HookFits(inbound)
         /\ inbound.step # "idle" => inbound.lead \in 1..Len(known) /\ known[inbound.lead] \in LeadRows
<1>1. known \in Seq(LeadRows) /\ HookFits(inbound)
  BY DEF ImportInv, ImportShape
<1>2. Len(known) \in Nat /\ inbound \in HookRows
  BY <1>1, KnownFacts DEF HookFits
<1>3. inbound.step # "idle" => inbound.lead \in 1..Len(known)
  BY <1>1, <1>2 DEF HookFits, HookRows
<1> QED
  BY <1>1, <1>2, <1>3, KnownFacts

LEMMA HookAnnounceFits ==
  ASSUME ImportInv, HookAnnounce
  PROVE  ImportInv'
<1>1. inbound.step = "created" /\ UNCHANGED <<imports, counted, importRaced>>
  BY DEF HookAnnounce
<1>2. /\ known \in Seq(LeadRows) /\ inbound \in HookRows /\ HookFits(inbound)
      /\ known[inbound.lead] \in LeadRows
  BY <1>1, HookFacts
<1> DEFINE l == [known[inbound.lead] EXCEPT !.announced = TRUE]
           h == [inbound EXCEPT !.step = "announced"]
<1>3. /\ l \in LeadRows /\ l.phone = known[inbound.lead].phone /\ l.email = known[inbound.lead].email
      /\ l.by = known[inbound.lead].by /\ l.agent = known[inbound.lead].agent /\ l.announced
      /\ l.assigned = known[inbound.lead].assigned
  BY Zenon, <1>2 DEF LeadRows
<1>4. h \in HookRows /\ h.lead = inbound.lead /\ h.agent = inbound.agent /\ h.step = "announced"
  BY <1>2 DEF HookRows
<1>5. known' = [known EXCEPT ![inbound.lead] = l] /\ inbound' = h
  BY DEF HookAnnounce
<1> HIDE DEF l, h
<1> QED
  BY Zenon, <1>1, <1>3, <1>4, <1>5, AnnouncedFits

LEMMA HookAssignedFits ==
  ASSUME ImportInv, HookAssigned
  PROVE  ImportInv'
<1>1. inbound.step = "announced" /\ UNCHANGED <<imports, counted, importRaced>>
  BY DEF HookAssigned
<1>2. /\ known \in Seq(LeadRows) /\ inbound \in HookRows /\ HookFits(inbound)
      /\ known[inbound.lead] \in LeadRows /\ known[inbound.lead].announced
  BY <1>1, HookFacts DEF HookFits
<1> DEFINE l == [known[inbound.lead] EXCEPT !.assigned = TRUE]
           h == [inbound EXCEPT !.step = "assigned"]
<1>3. /\ l \in LeadRows /\ l.phone = known[inbound.lead].phone /\ l.email = known[inbound.lead].email
      /\ l.by = known[inbound.lead].by /\ l.agent = known[inbound.lead].agent /\ l.announced /\ l.assigned
  BY Zenon, <1>2 DEF LeadRows
<1>4. h \in HookRows /\ h.lead = inbound.lead /\ h.agent = inbound.agent /\ h.step = "assigned"
  BY <1>2 DEF HookRows
<1>5. known' = [known EXCEPT ![inbound.lead] = l] /\ inbound' = h
  BY DEF HookAssigned
<1> HIDE DEF l, h
<1> QED
  BY Zenon, <1>1, <1>3, <1>4, <1>5, AnnouncedFits

LEMMA NoHookFits == HookFits(NoHook) <=> 0 <= Len(known)
BY DEF NoHook, HookFits, HookRows

LEMMA HookEndsFits ==
  ASSUME ImportInv, HookAnswer \/ HookThrows
  PROVE  ImportInv'
<1>1. /\ UNCHANGED <<known, imports, importRaced>> /\ inbound' = NoHook /\ inbound.step # "idle"
      /\ counted' = counted \/ (ImportAnswers(inbound) /\ counted' = counted \cup {inbound.lead})
  BY DEF HookAnswer, HookThrows, ImportAnswers
<1>2. ImportShape /\ KnownDiffers
  BY DEF ImportInv
<1>3. /\ known \in Seq(LeadRows) /\ Len(known) \in Nat /\ HookFits(inbound) /\ inbound \in HookRows
      /\ inbound.lead \in 1..Len(known)
  BY <1>1, HookFacts, KnownFacts
<1>4. HookFits(inbound)'
  <2>1. HookFits(NoHook)
    BY <1>3, NoHookFits
  <2> QED
    BY <1>1, <2>1 DEF HookFits
<1>5. ImportAnswers(inbound) => known[inbound.lead].announced /\ (known[inbound.lead].agent => known[inbound.lead].assigned)
  BY <1>1, <1>3 DEF ImportAnswers, HookFits
<1>6. /\ counted' \subseteq 1..Len(known)
      /\ \A n \in counted' : known[n].announced /\ (known[n].agent => known[n].assigned)
  BY Zenon, <1>1, <1>2, <1>3, <1>5 DEF ImportShape
<1>7. ImportShape'
  BY <1>1, <1>2, <1>4, <1>6 DEF ImportShape
<1>8. KnownGrows
  BY <1>1, <1>3, NothingNew
<1>9. KnownDiffers'
  BY <1>1, <1>2 DEF KnownDiffers, Knows, Running, Alike
<1> QED
  BY <1>1, <1>7, <1>8, <1>9, ImportsStay DEF ImportInv

-----------------------------------------------------------------------------
(* From an empty table on. *)

LEMMA ImportInitFits == ImportInit => ImportInv
<1> SUFFICES ASSUME ImportInit PROVE ImportInv
  OBVIOUS
<1>1. known = <<>> /\ inbound = NoHook /\ counted = {} /\ importRaced = FALSE
  BY DEF ImportInit
<1>2. \A i \in Importers : \E d \in BOOLEAN : imports[i] = NoImport(d)
  BY DEF ImportInit
<1>3. imports \in [Importers -> ImportRows]
  <2>1. imports \in [Importers -> {NoImport(d) : d \in BOOLEAN}]
    BY DEF ImportInit
  <2>2. \A i \in Importers : imports[i] \in ImportRows
    BY Zenon, <1>2, NoImportFields
  <2> QED
    BY <2>1, <2>2
<1>4. known \in Seq(LeadRows) /\ Len(known) = 0 /\ 1..Len(known) = {}
  BY <1>1
<1>5. HookFits(inbound)
  BY <1>1, <1>4, NoHookFits
<1>6. ImportShape
  BY Zenon, <1>1, <1>3, <1>4, <1>5 DEF ImportShape
<1>7. ASSUME NEW i \in Importers PROVE ImportFits(i)
  <2>1. /\ imports[i].step = "idle" /\ imports[i].next = 1 /\ imports[i].created = 0
        /\ imports[i].skipped = 0 /\ imports[i].phones = {} /\ imports[i].emails = {}
    BY Zenon, <1>2, NoImportFields
  <2>2. 0 <= Cardinality(LeadsBy(i))
    BY <1>4, KnownFacts
  <2>3. imports[i].next \in 1..(Len(FileRows) + 1) /\ 1..(imports[i].next - 1) = {}
    BY <2>1, TheFile
  <2>4. imports[i].created + imports[i].skipped + 1 = imports[i].next
    BY <2>1
  <2> QED
    BY <2>1, <2>2, <2>3, <2>4 DEF ImportFits
<1>8. KnownDiffers
  BY <1>4 DEF KnownDiffers, Knows
<1> QED
  BY <1>6, <1>7, <1>8 DEF ImportInv

LEMMA ImportStep == ImportInv /\ [ImportNext]_importVars => ImportInv'
<1> SUFFICES ASSUME ImportInv, [ImportNext]_importVars PROVE ImportInv'
  OBVIOUS
<1>1. ASSUME NEW i \in Importers, BeginImport(i) PROVE ImportInv'
  BY <1>1, BeginFits
<1>2. ASSUME NEW i \in Importers, NEW stopped \in {{}} \cup {{n} : n \in DOMAIN FileRows},
             NEW outcome \in {"ok", "failed", "unanswered"}, ImportChunk(i, stopped, outcome)
      PROVE  ImportInv'
  BY <1>2, ChunkFits
<1>3. ASSUME NEW i \in Importers, NEW logged \in BOOLEAN, EndImport(i, logged) PROVE ImportInv'
  BY <1>3, EndFits
<1>4. ASSUME NEW agent \in BOOLEAN, HookCreate(FileRows[1], agent) PROVE ImportInv'
  BY <1>4, HookCreateFits
<1>5. ASSUME HookAnnounce \/ HookAssigned \/ HookAnswer \/ HookThrows PROVE ImportInv'
  BY <1>5, HookAnnounceFits, HookAssignedFits, HookEndsFits
<1>6. ASSUME UNCHANGED importVars PROVE ImportInv'
  <2>1. KnownGrows /\ UNCHANGED <<known, imports, inbound, counted, importRaced>>
    BY <1>6, NothingNew DEF importVars, ImportInv, ImportShape
  <2>2. ImportShape'
    BY Zenon, <2>1 DEF ImportInv, ImportShape, HookFits
  <2>3. KnownDiffers'
    BY <2>1 DEF ImportInv, KnownDiffers, Knows, Running, Alike
  <2> QED
    BY <2>1, <2>2, <2>3, ImportsStay DEF ImportInv
<1> QED
  BY <1>1, <1>2, <1>3, <1>4, <1>5, <1>6 DEF ImportNext

LEMMA ImportTells ==
  ImportInv => ImportTypeOK /\ ImportedOnce /\ AnswerIsTrue /\ CountedIsAnnounced
<1> SUFFICES ASSUME ImportInv PROVE ImportTypeOK /\ ImportedOnce /\ AnswerIsTrue /\ CountedIsAnnounced
  OBVIOUS
<1>1. /\ ImportShape /\ KnownDiffers /\ known \in Seq(LeadRows) /\ HookFits(inbound)
      /\ imports \in [Importers -> ImportRows] /\ \A i \in Importers : ImportFits(i)
  BY DEF ImportInv, ImportShape
<1>2. DOMAIN known = 1..Len(known) /\ Len(known) \in Nat
  BY <1>1, KnownFacts
<1>3. ImportTypeOK
  <2>1. \A n \in DOMAIN known : known[n].by \in Importers \cup {"webhook"}
    BY <1>1, <1>2, KnownFacts DEF LeadRows
  <2>2. \A i \in Importers : /\ imports[i].step \in {"idle", "running", "done", "threw"}
                             /\ imports[i].next \in 1..(Len(FileRows) + 1)
    BY <1>1 DEF ImportFits, ImportRows
  <2>3. inbound.lead \in 0..Len(known)
    BY <1>1, <1>2 DEF HookFits, HookRows
  <2>4. counted \subseteq DOMAIN known
    BY <1>1, <1>2 DEF ImportShape
  <2> QED
    BY <2>1, <2>2, <2>3, <2>4 DEF ImportTypeOK
<1>4. ImportedOnce
  BY <1>1, <1>2 DEF ImportedOnce, KnownDiffers
<1>5. AnswerIsTrue
  <2> SUFFICES ASSUME NEW i \in Importers, imports[i].step = "done"
               PROVE  /\ imports[i].created + imports[i].skipped = Len(FileRows)
                      /\ imports[i].created <= Cardinality(LeadsBy(i))
                      /\ \A r \in DOMAIN FileRows :
                           \/ \E n \in DOMAIN known :
                                \/ Alike(known[n], FileRows[r])
                                \/ known[n].by = i /\ FileRows[r].named /\ {known[n].phone, known[n].email} = {NoContact}
                           \/ \E row \in imports[i].failed : row = FileRows[r] \/ Alike(row, FileRows[r])
    BY Zenon DEF AnswerIsTrue
  <2>1. /\ imports[i].next = Len(FileRows) + 1 /\ imports[i].created + imports[i].skipped + 1 = imports[i].next
        /\ imports[i].created <= Cardinality(LeadsBy(i))
        /\ \A r \in 1..(imports[i].next - 1) : ToldFrom(i, FileRows[r])
    BY <1>1 DEF ImportFits
  <2>2. PICK born \in Nat, left \in Nat, len \in Nat :
          born = imports[i].created /\ left = imports[i].skipped /\ len = Len(FileRows)
    BY Zenon, <1>1, TheFile DEF ImportRows
  <2>3. born + left + 1 = len + 1
    BY <2>1, <2>2
  <2>4. born + left = len
    BY <2>3
  <2>5. \A r \in DOMAIN FileRows : r \in 1..(imports[i].next - 1)
    BY <2>1, TheFile
  <2>6. \A r \in DOMAIN FileRows : ToldFrom(i, FileRows[r])
    BY <2>1, <2>5
  <2> QED
    BY Zenon, <1>2, <2>1, <2>2, <2>4, <2>6 DEF ToldFrom
<1>6. CountedIsAnnounced
  BY <1>1 DEF CountedIsAnnounced, ImportShape
<1> QED
  BY <1>3, <1>4, <1>5, <1>6

(* An import creates no lead with the contact of an earlier one, whether it failed  *)
(* and was made again or not, unless others created leads meanwhile; what it        *)
(* answers is true of each row and adds up; and a lead the webhook counted was      *)
(* announced, and so was its agent (ImportedOnce, AnswerIsTrue, CountedIsAnnounced). *)
THEOREM ImportsAreTrue == ImportSpec => [](ImportTypeOK /\ ImportedOnce /\ AnswerIsTrue /\ CountedIsAnnounced)
<1>1. ImportInit => ImportInv
  BY ImportInitFits
<1>2. ImportInv /\ [ImportNext]_importVars => ImportInv'
  BY ImportStep
<1>3. ImportInv => ImportTypeOK /\ ImportedOnce /\ AnswerIsTrue /\ CountedIsAnnounced
  BY ImportTells
<1> QED
  BY <1>1, <1>2, <1>3, PTL DEF ImportSpec

-----------------------------------------------------------------------------
(* The office as the run composes it *)

(* The run takes one part at a time: its steps are those of each part, or leave *)
(* that part alone.                                                             *)

LEMMA CalendarOfOffice == OfficeSpec => CalendarSpec
<1>1. OfficeInit => CalendarInit
  BY DEF OfficeInit
<1>2. [OfficeNext]_officeVars => [CalendarNext]_calendarVars
  BY DEF OfficeNext, officeVars
<1> QED
  BY <1>1, <1>2, PTL DEF OfficeSpec, CalendarSpec

LEMMA RecordsOfOffice == OfficeSpec => RecordSpec
<1>1. OfficeInit => RecordInit
  BY DEF OfficeInit
<1>2. [OfficeNext]_officeVars => [RecordNext]_recordVars
  BY DEF OfficeNext, officeVars
<1> QED
  BY <1>1, <1>2, PTL DEF OfficeSpec, RecordSpec

LEMMA StagesOfOffice == OfficeSpec => StageSpec
<1>1. OfficeInit => StageInit
  BY DEF OfficeInit
<1>2. [OfficeNext]_officeVars => [StageNext]_stageVars
  BY DEF OfficeNext, officeVars
<1> QED
  BY <1>1, <1>2, PTL DEF OfficeSpec, StageSpec

LEMMA RemindersOfOffice == OfficeSpec => ReminderSpec
<1>1. OfficeInit => ReminderInit
  BY DEF OfficeInit
<1>2. [OfficeNext]_officeVars => [ReminderNext]_reminderVars
  BY DEF OfficeNext, officeVars
<1> QED
  BY <1>1, <1>2, PTL DEF OfficeSpec, ReminderSpec

LEMMA MarketOfOffice == OfficeSpec => MeliSpec
<1>1. OfficeInit => MeliInit
  BY DEF OfficeInit
<1>2. [OfficeNext]_officeVars => [MeliNext]_meliVars
  BY DEF OfficeNext, officeVars
<1> QED
  BY <1>1, <1>2, PTL DEF OfficeSpec, MeliSpec

LEMMA ImportsOfOffice == OfficeSpec => ImportSpec
<1>1. OfficeInit => ImportInit
  BY DEF OfficeInit
<1>2. [OfficeNext]_officeVars => [ImportNext]_importVars
  BY DEF OfficeNext, officeVars
<1> QED
  BY <1>1, <1>2, PTL DEF OfficeSpec, ImportSpec

(* No step of the office disconnects a calendar that works, passes the limit of *)
(* a plan, or takes the stage of a lead away (NothingIsLost).                   *)
THEOREM OfficeLosesNothing ==
  ASSUME RecordAssumption, StageAssumption
  PROVE  OfficeSpec => NothingIsLost
<1>1. OfficeSpec => ConnectionIsKept
  BY CalendarOfOffice, ConnectionsAreKept, PTL
<1>2. OfficeSpec => LimitIsKept
  BY RecordsOfOffice, LimitsAreKept, PTL
<1>3. OfficeSpec => StageIsKept
  BY StagesOfOffice, StagesAreKept, PTL
<1> QED
  BY <1>1, <1>2, <1>3 DEF NothingIsLost

(* What there is outside the database agrees with it: the events of a calendar,  *)
(* the reminders that were sent, the connection to the marketplace and what was  *)
(* imported from it (OutsideAgrees).                                             *)
THEOREM OutsideStaysAgreed == OfficeSpec => []OutsideAgrees
<1>1. OfficeSpec => []EventAgrees
  BY CalendarOfOffice, EventsAgree, PTL
<1>2. OfficeSpec => [](ReminderTypeOK /\ BeforeTheVisit /\ RemindedOnce)
  BY RemindersOfOffice, RemindersCorrect, PTL
<1>3. OfficeSpec => [](MeliTypeOK /\ StaysConnected /\ ImportIsRight)
  BY MarketOfOffice, MarketCorrect, PTL
<1>4. EventAgrees /\ (ReminderTypeOK /\ BeforeTheVisit /\ RemindedOnce)
        /\ (MeliTypeOK /\ StaysConnected /\ ImportIsRight) => OutsideAgrees
  BY DEF OutsideAgrees
<1> QED
  BY <1>1, <1>2, <1>3, <1>4, PTL

(* Rows that requests look up before they write them stay unique, stages stay in *)
(* order, and leads are imported once and counted as they are (RecordsAgree).    *)
THEOREM RecordsStayAgreed ==
  ASSUME RecordAssumption, StageAssumption
  PROVE  OfficeSpec => []RecordsAgree
<1>1. OfficeSpec => []KeysAreUnique
  BY RecordsOfOffice, KeysStayUnique, PTL
<1>2. OfficeSpec => []StagesAgree
  BY StagesOfOffice, StagesStayInOrder, PTL
<1>3. OfficeSpec => [](ImportTypeOK /\ ImportedOnce /\ AnswerIsTrue /\ CountedIsAnnounced)
  BY ImportsOfOffice, ImportsAreTrue, PTL
<1>4. KeysAreUnique /\ StagesAgree /\ (ImportTypeOK /\ ImportedOnce /\ AnswerIsTrue /\ CountedIsAnnounced)
        => RecordsAgree
  BY DEF RecordsAgree
<1> QED
  BY <1>1, <1>2, <1>3, <1>4, PTL

LEMMA RecordsTypeCorrect ==
  ASSUME RecordAssumption
  PROVE  RecordSpec => []RecordTypeOK
<1>1. ASSUME RecordShape PROVE RecordTypeOK
  <2>1. Len(record) \in Nat
    BY <1>1 DEF RecordShape
  <2>2. ASSUME NEW p \in Requests PROVE request[p].found \in 0..Len(record) /\ request[p].counted <= Len(record)
    BY <1>1, <2>1 DEF RecordShape, RequestRow
  <2> QED
    BY <1>1, <2>2 DEF RecordShape, RecordTypeOK, RecordRow
<1>2. RecordInv => RecordTypeOK
  BY <1>1 DEF RecordInv
<1> QED
  BY <1>2, RecordsHold, PTL

(* What each part of the office keeps is of its types: visits, reminders, the    *)
(* marketplace, rows, stages and imports (OfficeTypeOK).                         *)
THEOREM OfficeTypeCorrect ==
  ASSUME RecordAssumption, StageAssumption
  PROVE  OfficeSpec => []OfficeTypeOK
<1> DEFINE PartStands == part \in {"calendar", "reminders", "meli", "records", "stages", "import"}
<1>1. OfficeSpec => []PartStands
  <2>1. OfficeInit => PartStands
    BY DEF OfficeInit
  <2>2. PartStands /\ [OfficeNext]_officeVars => PartStands'
    <3>1. [OfficeNext]_officeVars => part' = part
      BY DEF OfficeNext, officeVars
    <3> QED
      BY <3>1
  <2> QED
    BY <2>1, <2>2, PTL DEF OfficeSpec
<1>2. OfficeSpec => []CalendarTypeOK
  BY CalendarOfOffice, CalendarTypeCorrect, PTL
<1>3. OfficeSpec => [](ReminderTypeOK /\ BeforeTheVisit /\ RemindedOnce)
  BY RemindersOfOffice, RemindersCorrect, PTL
<1>4. OfficeSpec => [](MeliTypeOK /\ StaysConnected /\ ImportIsRight)
  BY MarketOfOffice, MarketCorrect, PTL
<1>5. OfficeSpec => []RecordTypeOK
  BY RecordsOfOffice, RecordsTypeCorrect, PTL
<1>6. OfficeSpec => []StageTypeOK
  BY StagesOfOffice, StagesTypeCorrect, PTL
<1>7. OfficeSpec => [](ImportTypeOK /\ ImportedOnce /\ AnswerIsTrue /\ CountedIsAnnounced)
  BY ImportsOfOffice, ImportsAreTrue, PTL
<1>8. PartStands /\ CalendarTypeOK /\ (ReminderTypeOK /\ BeforeTheVisit /\ RemindedOnce)
        /\ (MeliTypeOK /\ StaysConnected /\ ImportIsRight) /\ RecordTypeOK /\ StageTypeOK
        /\ (ImportTypeOK /\ ImportedOnce /\ AnswerIsTrue /\ CountedIsAnnounced) => OfficeTypeOK
  BY Zenon DEF OfficeTypeOK
<1> QED
  BY <1>1, <1>2, <1>3, <1>4, <1>5, <1>6, <1>7, <1>8, PTL
=============================================================================
