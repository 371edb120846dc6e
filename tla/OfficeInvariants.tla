-------------------------- MODULE OfficeInvariants --------------------------
(* What the proofs about the office say of its states: the shapes of what is    *)
(* stored and under way, why each property holds, and the inductive invariants   *)
(* these are the parts of; with names for what a step does and leaves.           *)
EXTENDS LeadRecovery, MCOffice

R(label, g) == [at |-> label, id |-> g]
On(c, g) == review[c] # Free /\ review[c].id = g
OthersStay(c) == \A d \in Reviewer : d # c => review'[d] = review[d]

-----------------------------------------------------------------------------
(* What the steps do to the reviews *)

(* A request starts, creates the lead, records the approval, announces it;  *)
(* or records the rejection; or is cut off.                                 *)
ReviewEffect(c, g) ==
  /\ OthersStay(c) /\ crashes' = crashes
  /\ UNCHANGED <<hook, submitted, interested, imported, declined>>
  /\ \/ /\ review[c] = Free /\ UNCHANGED <<approval, made, announced, faults>> /\ NoteRace(g)
        /\ \/ approval[g] = "PENDING" /\ review'[c] = R("create", g)
           \/ approval[g] \in {"PENDING", "REJECTED"} /\ review'[c] = R("reject", g)
     \/ /\ review[c] = R("create", g) /\ review'[c] = R("approve", g)
        /\ Count(made, g) /\ UNCHANGED <<approval, announced, faults, raced>>
     \/ /\ review[c] = R("approve", g) /\ review'[c] = R("emit", g)
        /\ approval' = [approval EXCEPT ![g] = "APPROVED"]
        /\ UNCHANGED <<made, announced, faults, raced>>
     \/ /\ review[c] = R("emit", g) /\ review'[c] = Free
        /\ Count(announced, g) /\ UNCHANGED <<approval, made, faults, raced>>
     \/ /\ review[c] = R("reject", g) /\ review'[c] = Free
        /\ approval' = [approval EXCEPT ![g] = "REJECTED"]
        /\ UNCHANGED <<made, announced, faults, raced>>
     \/ /\ On(c, g) /\ review'[c] = Free /\ faults' = faults + 1
        /\ UNCHANGED <<approval, made, announced, raced>>

(* The webhook and the fetches: reviews go on, rows are only added. *)
QuietStep ==
  /\ UNCHANGED <<review, made, raced, crashes>> /\ faults' \in Nat /\ faults' >= faults
  /\ \A g \in Leadgen : \/ approval'[g] = approval[g]
                        \/ approval[g] = "none" /\ approval'[g] = "PENDING"

-----------------------------------------------------------------------------
(* Reviews that come one after the other *)

OneByOne(g) ==
  /\ \A c, d \in Reviewer : On(c, g) /\ On(d, g) => c = d
  /\ Reviewing(g, "create") => approval[g] = "PENDING"
  /\ Reviewing(g, "approve") => approval[g] = "PENDING" /\ made[g] > 0
  /\ Reviewing(g, "emit") => approval[g] = "APPROVED"
  /\ Reviewing(g, "reject") => approval[g] \in {"PENDING", "REJECTED"}
  /\ approval[g] = "APPROVED" => made[g] > 0
  /\ made[g] <= crashes + faults +
       (IF approval[g] = "APPROVED" \/ Reviewing(g, "approve") THEN 1 ELSE 0)

ReviewsInOrder == \A g \in Leadgen \ raced : OneByOne(g)

-----------------------------------------------------------------------------
(* Requests counted by where they are *)

Rev(g, label) == {c \in Reviewer : review[c] = R(label, g)}

-----------------------------------------------------------------------------
(* Reviews that race *)

(* Every lead of an unsettled submission is that of a request that has not  *)
(* recorded it, or of one that was cut off; once it is settled no request   *)
(* starts.                                                                  *)
Unsettled(g) == approval[g] \in {"none", "PENDING"}
Cut == Cardinality(Reviewer) * crashes
BoundedAt(g) ==
  IF Unsettled(g)
  THEN made[g] <= Cut + faults + Cardinality(Rev(g, "approve"))
  ELSE made[g] + Cardinality(Rev(g, "create")) <= Cut + Cardinality(Reviewer) + faults
LeadsAreBounded == \A g \in Leadgen : BoundedAt(g)

-----------------------------------------------------------------------------
(* Leads and their events *)

Hooked(g) == {h \in Hook : hook[h] = R("emit", g)}

HooksAreSubmitted ==
  /\ \A g \in Leadgen : declined[g] > 0 => g \in submitted /\ g \notin interested
  /\ \A h \in Hook : hook[h] # Free => hook[h].id \in submitted

(* Each lead is announced or will be by the handler that created it. *)
Undisturbed == crashes = 0 /\ faults = 0
FollowedAt(g) ==
  announced[g] + declined[g] + Cardinality(Hooked(g)) + Cardinality(Rev(g, "approve"))
    + Cardinality(Rev(g, "emit")) = made[g] + imported[g]
EventsFollow == Undisturbed => \A g \in Leadgen : FollowedAt(g)

(* A delivery starts, imports the lead, announces it unless the form says   *)
(* no; or is cut off.                                                       *)
OtherHooksStay(h) == \A k \in Hook : k # h => hook'[k] = hook[k]
HookEffect(h, g) ==
  /\ UNCHANGED <<review, made, submitted, interested, crashes>> /\ OtherHooksStay(h)
  /\ \/ /\ hook[h] = Free /\ hook'[h] = R("create", g) /\ g \in submitted
        /\ UNCHANGED <<imported, declined, announced, faults>>
     \/ /\ hook[h] = R("create", g) /\ Count(imported, g)
        /\ hook'[h] = R("emit", g) /\ UNCHANGED <<declined, announced, faults>>
     \/ /\ hook[h] = R("create", g) /\ Count(imported, g) /\ g \notin interested
        /\ hook'[h] = Free /\ Count(declined, g) /\ UNCHANGED <<announced, faults>>
     \/ /\ hook[h] = R("emit", g) /\ hook'[h] = Free /\ Count(announced, g)
        /\ UNCHANGED <<imported, declined, faults>>
     \/ /\ hook'[h] = Free /\ faults' = faults + 1
        /\ UNCHANGED <<imported, declined, announced>>

(* A submission arrives; or a fetch goes on, or a lead is deleted. *)
StillStep ==
  /\ UNCHANGED <<hook, review, made, announced, imported, declined, crashes>>
  /\ faults' \in Nat /\ faults' >= faults
  /\ \/ UNCHANGED <<submitted, interested>>
     \/ \E g \in Leadgen : /\ g \notin submitted /\ submitted' = submitted \cup {g}
                           /\ interested' \in {interested, interested \cup {g}}

-----------------------------------------------------------------------------
(* The stages of leads *)

StageSpec == StageInit /\ [][StageNext]_stageVars

Places == StageIds \cup {NoStage}
Keys == StageKeys \cup {NoStage}
StageRow == [at : {"unborn", "there", "gone"}, key : StageKeys, order : Int, default : BOOLEAN]
AskRecord == [kind : {"none", "create", "move", "add", "delete"}, step : {"none", "write", "log"},
              lead : Leads \cup {NoStage}, stage : Places, key : Keys, from : Keys, order : Int,
              default : BOOLEAN, since : SUBSET Leads]

(* What rows, leads and requests may be; who creates a lead, or moves it, names *)
(* it, and nobody else.                                                          *)
StageShape ==
  /\ stage \in [StageIds -> StageRow] /\ lead \in [Leads -> Places \cup {"unborn"}]
  /\ ask \in [Staff -> AskRecord] /\ event \in [Leads -> [from : Keys, to : Keys]]
  /\ crossed \subseteq Leads /\ jumbled \in BOOLEAN /\ asked \in Nat
AskFits(u) ==
  /\ ask[u].kind \in {"create", "move"} <=> ask[u].lead \in Leads
  /\ ask[u].kind \in {"move", "delete"} => ask[u].stage \in StageIds
  /\ ask[u].kind \in {"move", "add"} => ask[u].key \in StageKeys
  /\ ask[u].step = "log" => ask[u].kind = "move"
  /\ ask[u].kind = "create" => lead[ask[u].lead] = "unborn"
  /\ ask[u].kind = "move" => lead[ask[u].lead] # "unborn" /\ stage[ask[u].stage].at # "unborn"
AsksFit == \A u \in Staff : AskFits(u)

(* A lead is in a stage that is there, and who deletes a stage has seen it empty *)
(* but for those who came since.                                                *)
LeadsArePlaced == \A l \in Leads : lead[l] \in StageIds => stage[lead[l]].at = "there"
LateAreKnown ==
  \A u \in Staff : ask[u].kind = "delete" => \A l \in Leads : lead[l] = ask[u].stage => l \in ask[u].since

(* One request at most is about a lead that is created, or not crossed; a move  *)
(* names its stage by the key it has, when it was made and not told yet is where *)
(* its lead is, and any other lead is where it was last told to be.              *)
OneAsks ==
  \A u, v \in Staff : u # v /\ ask[u].lead \in Leads /\ ask[u].lead = ask[v].lead =>
    ask[u].lead \in crossed /\ ask[u].kind = "move"
MovesAreNamed ==
  \A u \in Staff : ask[u].kind = "move" /\ ask[u].lead \notin crossed => stage[ask[u].stage].key = ask[u].key
IsAt(l, k) == lead[l] \in StageIds /\ stage[lead[l]].key = k
MovesAreTold ==
  /\ \A l \in Leads : lead[l] = "unborn" => event[l].to = NoStage
  /\ \A u \in Staff : ask[u].step = "log" /\ ask[u].lead \notin crossed => lead[ask[u].lead] = ask[u].stage
  /\ \A l \in Leads \ crossed :
       event[l].to # NoStage /\ (\A u \in Staff : ask[u].lead = l => ask[u].step # "log") => IsAt(l, event[l].to)

(* Unless jumbled, an addition is the only one, with a greater order than any   *)
(* stage there is.                                                               *)
OrdersAreBounded == \E n \in Nat : \A i \in StageIds : -n <= stage[i].order /\ stage[i].order <= n
OrdersDiffer == \A i, j \in ThereAre : stage[i].order = stage[j].order => i = j
AddsAreLast ==
  \A u \in Staff : ask[u].kind = "add" =>
    /\ \A i \in ThereAre : stage[i].order < ask[u].order
    /\ \A v \in Staff \ {u} : ask[v].kind # "add"
InOrder == OrdersDiffer /\ AddsAreLast

StagesInv ==
  /\ StageShape /\ AsksFit /\ LeadsArePlaced /\ LateAreKnown /\ OneAsks /\ MovesAreNamed /\ MovesAreTold
  /\ OrdersAreBounded /\ (~jumbled => InOrder)

-----------------------------------------------------------------------------
(* What a step does to the requests. *)

NoAskFields == /\ NoAsk \in AskRecord /\ NoAsk.kind = "none" /\ NoAsk.step = "none" /\ NoAsk.lead = NoStage

(* The other requests stay, but that deletions learn of leads that come in. *)
OtherAsksStay(u) ==
  \A v \in Staff \ {u} :
    /\ ask'[v].kind = ask[v].kind /\ ask'[v].step = ask[v].step /\ ask'[v].lead = ask[v].lead
    /\ ask'[v].stage = ask[v].stage /\ ask'[v].key = ask[v].key /\ ask'[v].order = ask[v].order
    /\ ask[v].since \subseteq ask'[v].since
AsksStay(u) == ask' \in [Staff -> AskRecord] /\ OtherAsksStay(u)
IsOver(u) == AsksStay(u) /\ ask'[u].kind = "none" /\ ask'[u].step = "none" /\ ask'[u].lead = NoStage

-----------------------------------------------------------------------------
(* A step of a request: what it does to its lead, to the event, to the rows and *)
(* to itself.                                                                    *)

Enters(u, l) ==
  /\ ask[u].kind \in {"create", "move"} /\ l = ask[u].lead
  /\ lead'[l] = ask[u].stage /\ ask[u].stage \in ThereAre \cup {NoStage} /\ stage' = stage
  /\ ask[u].kind = "move" => ask'[u].step = "log" /\ ask'[u].lead = l
  /\ \A v \in Staff \ {u} : ask[v].kind = "delete" /\ ask[v].stage = ask[u].stage => l \in ask'[v].since
Leaves(u, l) ==
  /\ ask[u].kind = "delete" /\ ask[u].stage \in StageIds
  /\ lead[l] = ask[u].stage /\ lead'[l] = NoStage /\ l \in crossed'
LeadStep(u) ==
  /\ lead' \in [Leads -> Places \cup {"unborn"}]
  /\ \A l \in Leads : lead'[l] = lead[l] \/ Enters(u, l) \/ Leaves(u, l)
EventStep(u) ==
  /\ event' \in [Leads -> [from : Keys, to : Keys]]
  /\ ask[u].step # "log" => event' = event
  /\ ask[u].step = "log" => /\ ask[u].kind = "move" /\ event'[ask[u].lead].to = ask[u].key
                            /\ \A l \in Leads \ {ask[u].lead} : event'[l] = event[l]
                            /\ lead' = lead /\ stage' = stage /\ ask'[u].lead = NoStage
CrossStep == crossed \subseteq crossed' /\ crossed' \subseteq Leads
(* A row is written but by who creates it, or deletes it. *)
RowStep(u) ==
  /\ stage' \in [StageIds -> StageRow]
  /\ \A i \in StageIds :
       \/ stage'[i] = stage[i]
       \/ /\ ask[u].kind = "add" /\ stage[i].at = "unborn" /\ stage'[i].at = "there" /\ stage'[i].order = ask[u].order
          /\ IsOver(u) /\ \A j \in StageIds \ {i} : stage'[j] = stage[j]
       \/ /\ stage[i].at = "there" /\ stage'[i].at = "gone" /\ stage'[i].key = stage[i].key
          /\ stage'[i].order = stage[i].order /\ \A l \in Leads : lead'[l] # i
Begun(u) ==
  /\ ask'[u].kind = "delete" => \A l \in Leads : lead'[l] # ask'[u].stage
  /\ ask'[u].lead \in Leads => \A v \in Staff \ {u} : ask[v].lead = ask'[u].lead =>
       ask'[u].lead \in crossed' /\ ask'[u].kind = "move" /\ ask[v].kind = "move"
  /\ ask'[u].kind = "move" =>
       \/ stage' = stage /\ ask'[u].step # "log" /\ stage[ask'[u].stage].key = ask'[u].key
       \/ /\ ask[u].kind = "move" /\ ask'[u].lead = ask[u].lead /\ ask'[u].key = ask[u].key
          /\ ask'[u].stage = ask[u].stage /\ lead'[ask[u].lead] = ask[u].stage
OrderStep(u) ==
  /\ jumbled' \in BOOLEAN /\ (jumbled => jumbled') /\ asked' \in Nat
  /\ ask'[u].kind = "add" =>
       /\ stage' = stage
       /\ ~jumbled' => /\ \A i \in ThereAre : stage[i].order < ask'[u].order
                       /\ \A v \in Staff : ask[v].kind # "add"
StepOf(u) ==
  AsksStay(u) /\ AskFits(u)' /\ LeadStep(u) /\ EventStep(u) /\ CrossStep /\ RowStep(u) /\ Begun(u) /\ OrderStep(u)

(* A step of no request: rows are renamed or put in order. *)
NoRequest ==
  /\ UNCHANGED <<lead, ask, event>> /\ CrossStep /\ asked' \in Nat /\ jumbled' \in BOOLEAN
  /\ stage' \in [StageIds -> StageRow] /\ OrdersAreBounded'
  /\ \A i \in StageIds :
       /\ stage'[i].at = stage[i].at
       /\ stage'[i].key # stage[i].key => (LeadsIn(i) \cup MovingTo(i)) \cap Leads \subseteq crossed'
  /\ ~jumbled' => \/ ~jumbled /\ \A i \in ThereAre : stage'[i].order = stage[i].order
                  \/ OrdersDiffer' /\ \A u \in Staff : ask[u].kind # "add"

-----------------------------------------------------------------------------
(* Records of a tenant, under limits and keys *)

RecordSpec == RecordInit /\ [][RecordNext]_recordVars

RecordRow == [there : BOOLEAN, key : RecordKeys \cup {Stamped}, active : BOOLEAN]
RequestRow == [step : {"idle", "look", "write"}, key : RecordKeys \cup {Stamped}, plan : Plans \cup {NoPlan}, counted : Nat, found : Nat]
RecordShape ==
  /\ table \in Tables /\ planOf \in Plans /\ record \in Seq(RecordRow) /\ recordChanges \in Nat
  /\ request \in [Requests -> RequestRow]
  /\ \A p \in Requests : request[p].found <= Len(record) /\ request[p].counted <= Len(record)

(* Where no index refuses a second row, the look-up of the one writer there is  *)
(* still holds.                                                                 *)
Indexed == KindOf(table).unique
OneWriter == table = "aiConfigs" /\ ~overlapped =>
  /\ \A p, q \in Writing : p = q
  /\ \A p \in Writing : request[p].found = 0 => WithKey(request[p].key) = {}
(* A request that goes on was under the limit of the plan it read, or connects a *)
(* page of Meta without reading any.                                            *)
CountsWereBelow == \A p \in Requests : request[p].step # "idle" =>
  request[p].counted < Limit(request[p].plan) /\ (request[p].plan = NoPlan => table \in MetaTables)
RecordInv == RecordShape /\ OneWriter /\ KeysAreUnique /\ CountsWereBelow

-----------------------------------------------------------------------------
(* Each step by what it changes. *)

RecordRequestStep(p) ==
  /\ request' \in [Requests -> RequestRow] /\ \A q \in Requests \ {p} : request'[q] = request[q]
Ended(p) == request'[p].step = "idle" /\ request'[p].found = 0 /\ request'[p].counted = 0

BornRow(k) == [there |-> TRUE, key |-> k, active |-> TRUE]
(* A change of a row: it stays where it is, and a key it is given is nobody's.   *)
RowChange(i) ==
  /\ record' \in Seq(RecordRow) /\ Len(record') = Len(record) /\ DOMAIN record' = DOMAIN record
  /\ \A j \in DOMAIN record : j # i => record'[j] = record[j]
  /\ record'[i].there => record[i].there
  /\ \/ record'[i].key = record[i].key
     \/ KindOf(table).rekey # "none" /\ (record'[i].key = Stamped \/ WithKey(record'[i].key) = {})

-----------------------------------------------------------------------------
(* A change of the rows, for the properties that are about them. *)

RecordsStay == record' = record
RecordsGrow(p) ==
  /\ p \in Writing /\ record' = Append(record, BornRow(request[p].key)) /\ request[p].found = 0
  /\ Indexed /\ request[p].key # Stamped => WithKey(request[p].key) = {}
RecordsStep == RecordsStay \/ (\E p \in Requests : RecordsGrow(p)) \/ (\E i \in DOMAIN record : RowChange(i))

(* The steps of requests: what is written, what they keep, and whether another    *)
(* writes meanwhile.                                                              *)
RequestGoes(p) ==
  /\ RecordRequestStep(p) /\ UNCHANGED <<table, planOf, recordChanges>>
  /\ request'[p].step \in {"idle", "look", "write"} /\ (overlapped => overlapped')
  /\ \/ request'[p].step = "look" /\ request'[p].found = 0 /\ request'[p].plan = planOf /\ record' = record
        /\ request'[p].counted = Cardinality(Counted) /\ Cardinality(Counted) < Limit(planOf)
     \/ /\ request[p].step = "look" /\ request'[p].step = "write" /\ record' = record
        /\ Writing # {} => overlapped'
        /\ request'[p].found \in {0} \cup There
        /\ request'[p].plan = request[p].plan /\ request'[p].counted = request[p].counted
        /\ table = "aiConfigs" => (request'[p].found = 0 => WithKey(request'[p].key) = {})
     \/ /\ table \in MetaTables /\ request'[p].step = "write" /\ record' = record
        /\ Writing # {} => overlapped'
        /\ request'[p].found \in {0} \cup There /\ request'[p].plan = NoPlan /\ request'[p].counted = 0
     \/ Ended(p) /\ request[p].step = "look" /\ record' = record
     \/ Ended(p) /\ request'[p] = Idle /\ p \in Writing /\ (record' = record \/ RecordsGrow(p))
Alters ==
  /\ UNCHANGED <<table, request, overlapped>> /\ recordChanges' \in Nat
  /\ \/ record' = record \/ \E i \in DOMAIN record : RowChange(i)
  /\ \/ planOf' = planOf
     \/ planOf' \in Plans /\ record' = record

-----------------------------------------------------------------------------
(* The calendar of visits *)

CalendarSpec == CalendarInit /\ [][CalendarNext]_calendarVars

Attendees == Agents \cup {None}
VisitRecord == [at : {"unborn", "booked", "gone"}, agent : Attendees, edition : Nat, event : BOOLEAN]
CallRecord == [kind : {"create", "update", "delete", "row"}, visit : Visits, agent : Attendees, edition : Nat,
               step : {"token", "refresh", "request", "store"}, token : Nat]

(* A call that waits for Google has an agent; the deletion of a row only waits  *)
(* for the database.                                                            *)
CallStands(c) ==
  /\ c.kind = "row" => c.step = "store"
  /\ c.agent = None => c.kind = "row"
  /\ c.step = "store" => c.kind \in {"create", "row"}
(* Tokens are given in order: one that is held is not newer than the one stored. *)
TokenStands(c) ==
  c.step = "refresh" => c.token <= turns /\ (grant[c.agent] = 0 \/ c.token <= grant[c.agent])

CalendarShape ==
  /\ visit \in [Visits -> VisitRecord] /\ grant \in [Agents -> Nat] /\ revoked \subseteq Nat \ {0}
  /\ google \in [Visits -> [owner : Attendees, edition : Nat]] /\ calls \subseteq CallRecord
  /\ why \in [Visits -> SUBSET Reasons] /\ edits \in Nat /\ turns \in Nat
  /\ \A c \in calls : CallStands(c)

TokensStand ==
  /\ \A a \in Agents : grant[a] <= turns
  /\ \A c \in calls : TokenStands(c)

Shows(v) == google[v].owner = visit[v].agent /\ google[v].edition = visit[v].edition

(* A visit whose event is right has at most one call that tells Google of it,   *)
(* and the deletion of its row; and what is under way will put it right.        *)
Tells(v, c) ==
  /\ visit[v].at = "booked" /\ visit[v].agent # None /\ c.agent = visit[v].agent /\ c.edition = visit[v].edition
  /\ c.kind = "create" => (c.step = "store" => Shows(v))
  /\ c.kind = "update" => visit[v].event /\ google[v].owner = c.agent
EventSettled(v) ==
  /\ CallsOf(v) = {}
  /\ visit[v].at = "booked" => visit[v].event /\ visit[v].agent # None /\ Shows(v)
  /\ visit[v].at # "booked" => google[v] = NoEvent
Telling(v) == \E c \in CallRecord : CallsOf(v) = {c} /\ c.kind \in {"create", "update"} /\ Tells(v, c)
Removing(v) ==
  /\ \A c \in CallsOf(v) : c.kind \in {"row", "delete"}
  /\ \A c, d \in CallsOf(v) : c.kind = d.kind => c = d
  /\ CallsOf(v) # {}
  /\ visit[v].at = (IF \E c \in CallsOf(v) : c.kind = "row" THEN "booked" ELSE "gone")
  /\ \A c \in CallsOf(v) : c.kind = "delete" => google[v].owner = c.agent
  /\ (\A c \in CallsOf(v) : c.kind # "delete") => google[v] = NoEvent
EventFits(v) == EventSettled(v) \/ Telling(v) \/ Removing(v)

CalendarInv == CalendarShape /\ \A v \in Visits : why[v] = {} => EventFits(v)

-----------------------------------------------------------------------------
(* Connections: the tokens that calls hold are no newer than the one stored. *)

LimitsHold ==
  /\ edits <= MaxEdits /\ turns <= MaxTurns
  /\ \A v \in Visits : visit[v].edition <= edits + 1
  /\ \A a \in Agents : grant[a] <= turns
  /\ \A t \in revoked : t <= turns
  /\ \A c \in calls : TokenStands(c)

-----------------------------------------------------------------------------
(* The reminders of visits *)

ReminderSpec == ReminderInit /\ [][ReminderNext]_reminderVars

(* A list a pass works through: visits, none of them twice.                 *)
VisitLists == {x \in Seq(Booked) : \A m, n \in 1..Len(x) : x[m] = x[n] => m = n}
Tallies == [Booked -> Nat]

ReminderShape ==
  /\ status \in [Booked -> {"open", "closed", "removed"}] /\ due \in [Booked -> 0..(Window + MaxEarly + 1)]
  /\ reminded \in [Booked -> BOOLEAN] /\ wants \in [Booked -> BOOLEAN]
  /\ hand \in [Passes -> VisitLists] /\ pc \in [Passes -> {"idle", "notify", "write", "queue", "flag"}]
  /\ \A p \in Passes : hand[p] = <<>> <=> pc[p] = "idle"
  /\ told \in Tallies /\ texts \in Tallies /\ jobs \in Tallies
  /\ lost \in Tallies /\ broken \in Tallies /\ doubled \in Tallies
  /\ failures \in Nat

(* The passes that have a visit in hand; that will tell of it; that told of *)
(* it and did not flag it; that are at a step with it.                      *)
Holders(v) == {p \in Passes : v \in Members(hand[p])}
WillTell(v) == {p \in Holders(v) : pc[p] = "notify" \/ First(p) # v}
HaveTold(v) == {p \in Passes : pc[p] \in {"write", "queue", "flag"} /\ First(p) = v}
AtStep(v, step) == {p \in Passes : pc[p] = step /\ First(p) = v}

VisitFits(v) ==
  /\ told[v] + Cardinality(WillTell(v)) <= 1 + broken[v] + doubled[v]
  /\ ~reminded[v] => told[v] <= broken[v] + Cardinality(HaveTold(v))
  /\ texts[v] + Cardinality(AtStep(v, "write")) <= told[v]
  /\ jobs[v] + Cardinality(AtStep(v, "queue")) <= texts[v]
  /\ reminded[v] \/ HaveTold(v) # {} => told[v] >= 1
  /\ wants[v] /\ failures = 0 /\ (reminded[v] \/ AtStep(v, "flag") # {}) => jobs[v] >= 1
  /\ v \notin touched => status[v] = "open"
  /\ v \notin touched /\ ~reminded[v] => Window - due[v] <= lost[v] + Cardinality(Holders(v))

ReminderInv == ReminderShape /\ \A v \in Booked : VisitFits(v)

OneIf(b) == IF b THEN 1 ELSE 0

-----------------------------------------------------------------------------
(* The marketplace *)

MeliSpec == MeliInit /\ [][MeliNext]_meliVars

AskGoals == {"list", "details", "seller", "describe", "summary"}
ImportGoals == {"seller", "describe", "find", "write", "attach"}
LateGoals == {"map", "seller", "describe", "find", "write", "attach", "stamp", "summary", "done"}
SyncRecords ==
  [goal : AskGoals \cup LateGoals \cup {"idle"}, step : {"none", "token", "exchange", "store"}, token : Nat,
   todo : SUBSET Listings, fetched : SUBSET Listings, made : SUBSET Listings, agent : Sellers \cup {Nobody},
   text : {"full", "title"}, found : BOOLEAN, errors : Nat, blanks : Nat]

(* What a sync remembers goes with what it is at. *)
SyncFits(s) ==
  /\ s.goal \in AskGoals <=> s.step # "none"
  /\ s.made \subseteq s.fetched
  /\ s.goal = "list" => s.todo = {}
  /\ s.goal \in {"list", "details"} => s.fetched = {} /\ s.made = {}
  /\ s.goal = "details" /\ s.blanks = 0 => s.todo = Listings
  /\ s.goal \in LateGoals => /\ s.todo \subseteq s.fetched
                             /\ s.blanks = 0 => s.fetched = Listings
                             /\ s.errors = 0 => s.fetched = s.made \cup s.todo
  /\ s.goal \in {"stamp", "summary", "done"} => s.todo = {}
  /\ s.goal \in {"describe", "find", "write", "attach"} => s.todo # {}
  /\ s.goal \in {"list", "details", "map", "seller"} => s.agent = Nobody

(* What a sync makes of an answer: where it goes on, with whose name. *)
AnswerKeeps(s, t) ==
  /\ t \in SyncRecords /\ SyncFits(t) /\ t.step \in {"none", "token"}
  /\ t.goal \in ImportGoals => /\ s.goal \in ImportGoals /\ t.goal \notin {"seller", "attach"}
                               /\ t.agent = s.agent \/ (s.goal = "seller" /\ t.agent = namesake)

ListingRecords ==
  [there : BOOLEAN, text : {"none", "full", "title"}, agent : Sellers \cup {Nobody}, media : Nat]

MeliShape ==
  /\ stored \in Nat /\ issued \in Nat /\ stored <= issued /\ accepted \subseteq 1..issued
  /\ upset \in BOOLEAN /\ off \in BOOLEAN /\ mixed \in BOOLEAN /\ twice \in BOOLEAN
  /\ namesake \in Sellers \cup {Nobody}
  /\ property \in [Listings -> ListingRecords] /\ \A l \in Listings : property[l].there \/ property[l] = NoListing
  /\ sync \in [Syncs -> SyncRecords]
  /\ \A p \in Syncs : SyncFits(sync[p]) /\ (sync[p].step \in {"exchange", "store"} => sync[p].token \in 1..issued)
  /\ meliFaults \in Nat

(* Unless something lost a token, one sync exchanges at a time, it holds    *)
(* the stored token or the one that takes its place, and that is accepted.  *)
TokenIsGood ==
  ~upset =>
    /\ \A p, q \in Exchanging : p = q
    /\ stored # 0 /\ (\A p \in Syncs : sync[p].step # "store") => stored \in accepted
    /\ \A p \in Syncs : /\ sync[p].step = "exchange" /\ stored # 0 => sync[p].token = stored
                        /\ sync[p].step = "store" => sync[p].token \in accepted

(* While nothing failed and the tenant was connected no title is taken for  *)
(* a description.                                                           *)
TextsAreFull ==
  /\ stored = 0 => off
  /\ meliFaults = 0 /\ ~off => /\ \A l \in Listings : property[l].text # "title"
                               /\ \A p \in Syncs : sync[p].text # "title"

(* Unless two syncs imported at once, who is to attach pictures that it did *)
(* not find is alone, and there are none.                                   *)
PicturesAreOnce ==
  ~twice =>
    /\ \A p, q \in Importing : p = q
    /\ \A l \in Listings : property[l].media <= 1
    /\ \A p \in Syncs : sync[p].goal = "attach" /\ ~sync[p].found => property[Item(sync[p])].media = 0

(* The agents that rows have, or may get from a sync under way.             *)
Given == {x \in Sellers : \E l \in Listings : property[l].agent = x}
Coming(x) == (\E p \in Importing : sync[p].agent = x) \/ (x = namesake /\ \E p \in Syncs : sync[p].goal = "seller")
Held == {x \in Sellers : x \in Given \/ Coming(x)}

OneAgent ==
  ~mixed => (\A x, y \in Held : x = y) /\ (Given = {} => Held \subseteq {namesake})

MeliInv == MeliShape /\ TokenIsGood /\ TextsAreFull /\ PicturesAreOnce /\ OneAgent

(* A sync moves as it was answered, or stays with what it is at. *)
Stays(s, t) ==
  t.goal = s.goal /\ t.todo = s.todo /\ t.agent = s.agent /\ t.text = s.text /\ t.found = s.found
MovesTo(p, t) ==
  /\ sync' = [sync EXCEPT ![p] = t] /\ t \in SyncRecords /\ SyncFits(t)
  /\ twice => twice'
  /\ AnswerKeeps(sync[p], t) \/ Stays(sync[p], t)

-----------------------------------------------------------------------------
(* Leads that come in bulk *)

ImportSpec == ImportInit /\ [][ImportNext]_importVars

FileLines == {FileRows[n] : n \in DOMAIN FileRows}
LinePhones == {row.phone : row \in FileLines}
LineEmails == {row.email : row \in FileLines}
LeadRows ==
  [phone : LinePhones, email : LineEmails, by : Importers \cup {"webhook"}, agent : BOOLEAN,
   announced : BOOLEAN, assigned : BOOLEAN]
ImportRows ==
  [step : {"idle", "running", "done", "threw"}, dedup : BOOLEAN, next : Nat, phones : SUBSET (LinePhones \ {NoContact}),
   emails : SUBSET (LineEmails \ {NoContact}), created : Nat, skipped : Nat, failed : SUBSET FileLines]
(* An import while it maps the rows of a chunk. *)
MapRows ==
  [step : {"idle", "running", "done", "threw"}, dedup : BOOLEAN, next : Nat, phones : SUBSET (LinePhones \ {NoContact}),
   emails : SUBSET (LineEmails \ {NoContact}), created : Nat, skipped : Nat, failed : SUBSET FileLines,
   chunk : Seq(FileLines)]

(* What a mapped row is made of: a run after one row more. *)
Noted(run, row) ==
  IF ~run.dedup THEN run
  ELSE [run EXCEPT !.phones = @ \cup ({row.phone} \ {NoContact}), !.emails = @ \cup ({row.email} \ {NoContact})]
Seen(run, row) == run.dedup /\ (row.phone \in run.phones \/ row.email \in run.emails)

-----------------------------------------------------------------------------
(* The rows of a chunk, one after the other *)

Opened(run, last) ==
  [step |-> run.step, dedup |-> run.dedup, next |-> last + 1, phones |-> run.phones, emails |-> run.emails,
   created |-> run.created, skipped |-> run.skipped, failed |-> run.failed, chunk |-> <<>>]
(* f follows the rows up to the last one *)
Follows(f, run, last, end, stopped) ==
  f = [n \in (run.next - 1)..end |->
         IF n = run.next - 1 THEN Opened(run, last) ELSE FileRow(f[n - 1], FileRows[n], n \in stopped)]

(* What is true of a run m after the rows up to n, begun as run: each row counted, *)
(* the contacts it knows those of leads it takes or tells of, and no two rows      *)
(* taken alike or like a contact known before.                                     *)
RunCounts(run, n, m) ==
  /\ m.step = run.step /\ m.dedup = run.dedup /\ m.created = run.created
  /\ m.skipped + Len(m.chunk) = run.skipped + (n - (run.next - 1))
  /\ run.phones \subseteq m.phones /\ run.emails \subseteq m.emails /\ run.failed \subseteq m.failed
Named(m, row) == row \in m.failed \/ \E a \in 1..Len(m.chunk) : m.chunk[a] = row
HookHeard(m, row) == Named(m, row) \/ row.phone \in m.phones \/ row.email \in m.emails
RunTells(run, n, m) ==
  /\ \A a \in 1..Len(m.chunk) : HasData(m.chunk[a])
  /\ \A ph \in m.phones : ph \in run.phones \/ \E row \in FileLines : Named(m, row) /\ row.phone = ph
  /\ \A em \in m.emails : em \in run.emails \/ \E row \in FileLines : Named(m, row) /\ row.email = em
  /\ \A r \in run.next..n : HookHeard(m, FileRows[r])
RunDiffers(run, m) ==
  run.dedup => 
    /\ \A a \in 1..Len(m.chunk) : /\ m.chunk[a].phone \in (m.phones \cup {NoContact}) \ run.phones
                                  /\ m.chunk[a].email \in (m.emails \cup {NoContact}) \ run.emails
    /\ \A a, b \in 1..Len(m.chunk) : a < b => ~Alike(m.chunk[a], m.chunk[b])
RunFits(run, n, m) == m \in MapRows /\ RunCounts(run, n, m) /\ RunTells(run, n, m) /\ RunDiffers(run, m)

-----------------------------------------------------------------------------
(* The leads there are, and what imports and the webhook say of them *)

HookRows == [step : {"idle", "created", "announced", "assigned"}, lead : Nat, agent : BOOLEAN]
HookFits(h) ==
  /\ h \in HookRows /\ h.lead <= Len(known)
  /\ h.step # "idle" => h.lead # 0 /\ known[h.lead].agent = h.agent
  /\ h.step \in {"announced", "assigned"} => known[h.lead].announced
  /\ h.step = "assigned" => known[h.lead].assigned
ImportShape ==
  /\ known \in Seq(LeadRows) /\ imports \in [Importers -> ImportRows] /\ importRaced \in BOOLEAN
  /\ HookFits(inbound)
  /\ counted \subseteq 1..Len(known)
  /\ \A n \in counted : known[n].announced /\ (known[n].agent => known[n].assigned)

(* A row an import has gone through was created, or is like a lead there is, or like *)
(* one it tells of.                                                                  *)
ToldFrom(i, row) ==
  \/ \E n \in 1..Len(known) :
       Alike(known[n], row) \/ (known[n].by = i /\ row.named /\ {known[n].phone, known[n].email} = {NoContact})
  \/ \E l \in imports[i].failed : l = row \/ Alike(l, row)
(* What an import says adds up so far, and the contacts it knows are those of leads *)
(* there are, or of rows it tells of.                                               *)
ImportFits(i) ==
  /\ imports[i].next \in 1..(Len(FileRows) + 1)
  /\ imports[i].step \in {"idle", "threw"} => imports[i].next = 1 /\ imports[i].created = 0 /\ imports[i].skipped = 0
  /\ imports[i].step = "done" => imports[i].next = Len(FileRows) + 1
  /\ imports[i].created + imports[i].skipped + 1 = imports[i].next
  /\ imports[i].created <= Cardinality(LeadsBy(i))
  /\ \A r \in 1..(imports[i].next - 1) : ToldFrom(i, FileRows[r])
  /\ \A ph \in imports[i].phones :
       (\E n \in 1..Len(known) : known[n].phone = ph) \/ \E l \in imports[i].failed : l.phone = ph
  /\ \A em \in imports[i].emails :
       (\E n \in 1..Len(known) : known[n].email = em) \/ \E l \in imports[i].failed : l.email = em
(* While imports write one after the other, no import has written a lead like an     *)
(* earlier one, and the one that goes on knows every contact.                        *)
Knows(i) ==
  \A n \in 1..Len(known) : /\ known[n].phone \in imports[i].phones \cup {NoContact}
                           /\ known[n].email \in imports[i].emails \cup {NoContact}
KnownDiffers ==
  ~importRaced /\ (\A i \in Importers : imports[i].dedup) =>
    /\ \A m, n \in 1..Len(known) : m < n /\ known[n].by \in Importers => ~Alike(known[m], known[n])
    /\ \A i \in Running : Knows(i)
ImportInv == ImportShape /\ (\A i \in Importers : ImportFits(i)) /\ KnownDiffers

KnownGrows ==
  /\ known \in Seq(LeadRows) /\ known' \in Seq(LeadRows) /\ Len(known) <= Len(known')
  /\ \A n \in 1..Len(known) : /\ known'[n].phone = known[n].phone /\ known'[n].email = known[n].email
                              /\ known'[n].by = known[n].by /\ known'[n].agent = known[n].agent
                              /\ known[n].announced => known'[n].announced
                              /\ known[n].assigned => known'[n].assigned

-----------------------------------------------------------------------------
(* A chunk is written *)

(* What a chunk does: its rows are mapped, and written or not; the import goes on, or *)
(* is given up.                                                                       *)
ChunkDone(i, run, last, m, t) ==
  /\ run = imports[i] /\ run \in ImportRows /\ run.step = "running"
  /\ last \in 1..Len(FileRows) /\ run.next <= last /\ RunFits(run, last, m) /\ m.next = last + 1
  /\ imports' = [imports EXCEPT ![i] = t] /\ t \in ImportRows /\ t.dedup = run.dedup
  /\ known' = known \/ known' = Inserted(i, m.chunk)
  /\ importRaced' = (importRaced \/ (Running \ {i} # {} /\ known' # known))
  /\ UNCHANGED <<inbound, counted>>
  /\ \/ /\ t.step = "threw" /\ t.next = 1 /\ t.created = 0 /\ t.skipped = 0 /\ t.phones = {} /\ t.emails = {}
     \/ /\ known' = Inserted(i, m.chunk)
        /\ t.step = m.step /\ t.next = m.next /\ t.phones = m.phones /\ t.emails = m.emails
        /\ t.created = m.created + Len(m.chunk) /\ t.skipped = m.skipped /\ t.failed = m.failed
=============================================================================
