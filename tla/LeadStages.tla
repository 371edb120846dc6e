------------------------------ MODULE LeadStages ------------------------------
(* LeadsService: the stages of a pipeline and the leads in them.  A request     *)
(* reads before it writes, and others write in between: a stage may be gone     *)
(* when a lead is put into it, and hold a lead when it is deleted.              *)
EXTENDS Integers, FiniteSets

CONSTANTS StageIds,                  \* ids of stages: bound, stages ever created
          StageKeys, Leads, Staff,   \* keys of stages, leads, and users with one request each
          CallerOrders,              \* orders that a caller gives to a stage
          NoStage,
          MaxStageRequests           \* bound: requests

ASSUME StageAssumption ==
  /\ NoStage \notin StageIds \cup StageKeys \cup Leads /\ "unborn" \notin StageIds \cup {NoStage}
  /\ IsFiniteSet(StageIds) /\ CallerOrders \subseteq Int /\ MaxStageRequests \in Nat

VARIABLES
  stage,        \* the row of each id: [at, key, order, default]
  lead,         \* each lead: the stage it is in, NoStage when in none, or "unborn"
  ask,          \* the request of each user: [kind, step, lead, stage, key, from, order, default, since]
  event,        \* the last lead_updated event about the stage of each lead: keys [from, to]
  crossed,      \* leads that two requests were changing at once, or whose stage was deleted or renamed
  jumbled,      \* since the last sort of all stages an order was given by a caller, or additions overlapped
  asked

stageVars == <<stage, lead, ask, event, crossed, jumbled, asked>>

NoAsk == [kind |-> "none", step |-> "none", lead |-> NoStage, stage |-> NoStage, key |-> NoStage,
          from |-> NoStage, order |-> 0, default |-> FALSE, since |-> {}]
ThereAre == {i \in StageIds : stage[i].at = "there"}
Known == {i \in StageIds : stage[i].at # "unborn"}
Keyed(k) == {i \in ThereAre : stage[i].key = k}
Defaults == {i \in ThereAre : stage[i].default}
KeyOf(i) == IF i \in StageIds THEN stage[i].key ELSE NoStage
LeadsIn(i) == {l \in Leads : lead[l] = i}
Adding == {u \in Staff : ask[u].kind = "add"}
MovingTo(i) == {ask[u].lead : u \in {v \in Staff : ask[v].kind = "move" /\ ask[v].stage = i}}
NextOrder_Count == Cardinality(ThereAre)
\* one more than the greatest order
NextOrder == IF ThereAre = {} THEN 0
             ELSE 1 + (CHOOSE n \in {stage[i].order : i \in ThereAre} : \A i \in ThereAre : stage[i].order <= n)
\* the place of each stage in a list that names none twice
Orderings(S) == {place \in [S -> 0..(Cardinality(S) - 1)] : \A i, j \in S : place[i] = place[j] => i = j}

StageInit ==
  /\ \E first \in StageIds, k \in StageKeys :
       stage = [i \in StageIds |-> [at |-> IF i = first THEN "there" ELSE "unborn", key |-> k, order |-> 0, default |-> i = first]]
  /\ lead = [l \in Leads |-> "unborn"] /\ ask = [u \in Staff |-> NoAsk]
  /\ event = [l \in Leads |-> [from |-> NoStage, to |-> NoStage]]
  /\ crossed = {} /\ jumbled = FALSE /\ asked = 0

Counts == asked < MaxStageRequests /\ asked' = asked + 1

Receives(u, r) == Counts /\ ask[u] = NoAsk /\ ask' = [ask EXCEPT ![u] = r]
Answers(u) == ask' = [ask EXCEPT ![u] = NoAsk] /\ UNCHANGED asked
\* a deletion that has counted does not see who comes in afterwards
Arrives(u, l, i) ==
  [v \in Staff |-> IF v = u THEN NoAsk
                   ELSE IF ask[v].kind = "delete" /\ ask[v].stage = i THEN [ask[v] EXCEPT !.since = @ \cup {l}]
                   ELSE ask[v]]

\* create: the stage of the key, else a default one, else none; then the row
AskCreate(u, l, k) ==
  /\ lead[l] = "unborn" /\ \A v \in Staff : ask[v].lead # l
  /\ \E i \in IF Keyed(k) # {} THEN Keyed(k) ELSE IF Defaults = {} THEN {NoStage} ELSE Defaults :
       Receives(u, [NoAsk EXCEPT !.kind = "create", !.step = "write", !.lead = l, !.stage = i])
  /\ UNCHANGED <<stage, lead, event, crossed, jumbled>>
InsertLead(u) ==
  LET r == ask[u]
  IN /\ r.kind = "create" /\ UNCHANGED <<stage, event, crossed, jumbled, asked>>
     /\ IF r.stage \notin ThereAre \cup {NoStage} THEN Answers(u) /\ UNCHANGED lead
        ELSE lead' = [lead EXCEPT ![r.lead] = r.stage] /\ ask' = Arrives(u, r.lead, r.stage)

\* update with a stage: the lead and the stage are read, then the lead is written (a stage
\* deleted meanwhile makes it throw), then the event tells the keys from where to where
AskMove(u, l, i) ==
  /\ lead[l] # "unborn" /\ i \in ThereAre /\ i # lead[l]
  /\ Receives(u, [NoAsk EXCEPT !.kind = "move", !.step = "write", !.lead = l, !.stage = i,
                               !.key = stage[i].key, !.from = KeyOf(lead[l])])
  /\ crossed' = IF \E v \in Staff : ask[v].lead = l THEN crossed \cup {l} ELSE crossed
  /\ UNCHANGED <<stage, lead, event, jumbled>>
MoveLead(u) ==
  LET r == ask[u]
  IN /\ r.kind = "move" /\ r.step = "write" /\ UNCHANGED <<stage, event, crossed, jumbled, asked>>
     /\ IF r.stage \notin ThereAre THEN Answers(u) /\ UNCHANGED lead
        ELSE /\ lead' = [lead EXCEPT ![r.lead] = r.stage]
             /\ ask' = [Arrives(u, r.lead, r.stage) EXCEPT ![u] = [r EXCEPT !.step = "log"]]
Told_Swapped(r) == [from |-> r.key, to |-> r.from]
Told(r) == [from |-> r.from, to |-> r.key]
LogMove(u) ==
  /\ ask[u].step = "log" /\ event' = [event EXCEPT ![ask[u].lead] = Told(ask[u])]
  /\ Answers(u) /\ UNCHANGED <<stage, lead, crossed, jumbled>>

\* createStage: the key and the greatest order are read, then the row is written, with the
\* order of the caller when one is given; the index refuses a key that came meanwhile
AskStage(u, k, n, default) ==
  /\ Keyed(k) = {}
  /\ Receives(u, [NoAsk EXCEPT !.kind = "add", !.step = "write", !.key = k, !.order = n, !.default = default])
  /\ jumbled' = (jumbled \/ n # NextOrder \/ Adding # {})
  /\ UNCHANGED <<stage, lead, event, crossed>>
AddStage(u, i) ==
  LET r == ask[u]
  IN /\ r.kind = "add" /\ stage[i].at = "unborn" /\ Answers(u) /\ UNCHANGED <<lead, event, crossed, jumbled>>
     /\ stage' = IF Keyed(r.key) # {} THEN stage
                 ELSE [stage EXCEPT ![i] = [at |-> "there", key |-> r.key, order |-> r.order, default |-> r.default]]

\* updateStage: what is read can only refuse it; the fields given are written by id, the
\* index refuses a key another stage has, and the other stages stay as they are
UpdateStage(i, k, n, default) ==
  /\ Counts /\ i \in ThereAre /\ Keyed(k) \subseteq {i}
  /\ stage' = [stage EXCEPT ![i] = [at |-> "there", key |-> k, order |-> n, default |-> default]]
  /\ crossed' = IF k = stage[i].key THEN crossed ELSE crossed \cup LeadsIn(i) \cup MovingTo(i)
  /\ jumbled' = (jumbled \/ n # stage[i].order)
  /\ UNCHANGED <<lead, ask, event>>

\* deleteStage: refused while it has leads; the schema empties the stage of those it has by then
Deletable_Always(i) == TRUE
Deletable(i) == LeadsIn(i) = {}
AskDelete(u, i) ==
  /\ i \in ThereAre /\ Deletable(i)
  /\ Receives(u, [NoAsk EXCEPT !.kind = "delete", !.step = "write", !.stage = i])
  /\ UNCHANGED <<stage, lead, event, crossed, jumbled>>
DeleteStage(u) ==
  LET i == ask[u].stage
  IN /\ ask[u].kind = "delete" /\ Answers(u) /\ UNCHANGED <<event, jumbled>>
     /\ IF i \notin ThereAre THEN UNCHANGED <<stage, lead, crossed>>
        ELSE /\ stage' = [stage EXCEPT ![i].at = "gone"]
             /\ lead' = [l \in Leads |-> IF lead[l] = i THEN NoStage ELSE lead[l]]
             /\ crossed' = crossed \cup LeadsIn(i)

\* reorderStages: the list a page loaded at some time, written in one transaction by id; it
\* may name stages that are gone, and miss those that came since
SortStages(place) ==
  /\ Counts
  /\ stage' = [i \in StageIds |-> IF i \in DOMAIN place \cap ThereAre THEN [stage[i] EXCEPT !.order = place[i]] ELSE stage[i]]
  /\ jumbled' = (Adding # {} \/ ~(ThereAre \subseteq DOMAIN place))
  /\ UNCHANGED <<lead, ask, event, crossed>>

StageNext ==
  \/ \E u \in Staff :
       \/ \E l \in Leads : \/ \E k \in StageKeys \cup {NoStage} : AskCreate(u, l, k)
                           \/ \E i \in StageIds : AskMove(u, l, i)
       \/ \E k \in StageKeys, n \in CallerOrders \cup {NextOrder}, b \in BOOLEAN : AskStage(u, k, n, b)
       \/ \E i \in StageIds : AskDelete(u, i) \/ AddStage(u, i)
       \/ InsertLead(u) \/ MoveLead(u) \/ LogMove(u) \/ DeleteStage(u)
  \/ \E i \in StageIds, k \in StageKeys, b \in BOOLEAN :
       \E n \in CallerOrders \cup {stage[i].order} : UpdateStage(i, k, n, b)
  \/ \E S \in SUBSET Known : \E place \in Orderings(S) : SortStages(place)

-----------------------------------------------------------------------------
(* Properties.                                                                  *)

StageTypeOK ==
  /\ stage \in [StageIds -> [at : {"unborn", "there", "gone"}, key : StageKeys, order : Int, default : BOOLEAN]]
  /\ lead \in [Leads -> StageIds \cup {NoStage, "unborn"}]
  /\ \A u \in Staff : ask[u].since \subseteq Leads

\* A lead in a stage is in one that exists; a move that nothing else touched is told with
\* the key of the stage the lead is in; and from a sort of all stages on, orders differ for
\* as long as nobody gives an order of their own and stages are added one after the other,
\* whatever is renamed, deleted or sorted in full (leads.service.ts:354-361).
StagesAgree ==
  /\ \A l \in Leads : lead[l] \in {"unborn", NoStage} \cup ThereAre
  /\ \A l \in Leads \ crossed : event[l].to # NoStage /\ (\A u \in Staff : ask[u].lead # l) =>
       lead[l] \in StageIds /\ event[l].to = stage[lead[l]].key
  /\ ~jumbled => \A i, j \in ThereAre : stage[i].order = stage[j].order => i = j

\* A lead loses its stage only to a deletion that had found the stage empty before the lead
\* came in (leads.service.ts:405).
StageIsKept ==
  [][\A l \in Leads : lead[l] \in StageIds /\ lead'[l] = NoStage =>
       \E u \in Staff : ask[u].kind = "delete" /\ ask[u].stage = lead[l] /\ l \in ask[u].since]_stageVars
=============================================================================
