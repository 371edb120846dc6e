---------------------------- MODULE TenantRecords ----------------------------
(* The rows a tenant keeps: users, rules, lead sources, AI configurations, lead *)
(* stages, properties, tags.  Each service creates a row the same way: it may   *)
(* check a limit of the plan, look for a row with the same key, and then write; *)
(* requests are served at once, and no transaction holds the steps together.    *)
(* They differ in what they check, and in whether the table has a unique key.   *)
(* A lead source of Meta is also written by connectPageForm, which asks no plan. *)
EXTENDS Integers, Sequences, FiniteSets

CONSTANTS Requests, RecordKeys,
          StarterLimit,   \* users and rules of the starter plan; the others have no limit
          MaxRecords,     \* bound: rows ever written
          MaxRecordChanges   \* bound: rows changed or removed, and changes of the plan

ASSUME RecordAssumption ==
  /\ StarterLimit \in Nat \ {0} /\ MaxRecords \in Nat \ {0} /\ MaxRecordChanges \in Nat

VARIABLES
  table,        \* the table of this behaviour
  planOf,       \* the tenant's plan
  record,       \* the rows: [there, key, active], in the order they were written
  request,      \* each request: [step, key, plan, counted, found]
  overlapped,   \* two requests were between their check and their write at once
  recordChanges

recordVars == <<table, planOf, record, request, overlapped, recordChanges>>

\* what a service does before it writes: limit is that of the starter plan (0 where the
\* plan does not have the feature), and Unlimited when no plan is asked; same is what it does of a row with the key;
\* unique tells the tables whose schema refuses a second one; rekey is what an
\* update that changes the key does about it
Unlimited == 99
Service(limit, same, unique, rekey) == [limit |-> limit, same |-> same, unique |-> unique, rekey |-> rekey]
UserTable_NoIndex == Service(StarterLimit, "refuse", FALSE, "write")
UserTable == Service(StarterLimit, "refuse", TRUE, "write")
Rules == Service(StarterLimit, "none", FALSE, "none")
MetaForms == Service(0, "refuse", TRUE, "write")
MetaPages == Service(0, "none", FALSE, "none")
AiConfigs == Service(0, "update", FALSE, "none")
Stages == Service(Unlimited, "refuse", TRUE, "refuse")
Properties == Service(Unlimited, "rename", TRUE, "rename")
Tags == Service(Unlimited, "none", TRUE, "write")
Tables == {"users", "rules", "metaForms", "metaPages", "aiConfigs", "stages", "properties", "tags"}
KindOf(t) ==
  CASE t = "users" -> UserTable [] t = "rules" -> Rules [] t = "metaForms" -> MetaForms
    [] t = "metaPages" -> MetaPages [] t = "aiConfigs" -> AiConfigs [] t = "stages" -> Stages
    [] t = "properties" -> Properties [] t = "tags" -> Tags

Plans == {"STARTER", "CUSTOM"}
\* of a request that asks for no plan
NoPlan == "none"
MetaTables == {"metaForms", "metaPages"}
Limit(p) == IF p = "STARTER" THEN KindOf(table).limit ELSE Unlimited
There == {i \in DOMAIN record : record[i].there}
Active == {i \in There : record[i].active}
\* users count when they are active, rules when they are there
Counted == IF table = "users" THEN Active ELSE There
WithKey(k) == {i \in There : record[i].key = k}
\* a name with the time appended to it
Stamped == "stamped"

Idle == [step |-> "idle", key |-> Stamped, plan |-> "STARTER", counted |-> 0, found |-> 0]
Writing == {p \in Requests : request[p].step = "write"}

RecordInit ==
  /\ table \in Tables /\ planOf \in Plans /\ record = <<>>
  /\ request = [p \in Requests |-> Idle] /\ overlapped = FALSE /\ recordChanges = 0

Answer(p) == request' = [request EXCEPT ![p] = Idle]
Advance(p, r) == request' = [request EXCEPT ![p] = r]
Some(S) == IF S = {} THEN {0} ELSE S

\* the plan and the count: at the limit the request is refused
AtLimit_OneMore(count, limit) == count > limit
AtLimit(count, limit) == count >= limit
CheckLimit(p, k) ==
  /\ request[p].step = "idle" /\ Len(record) < MaxRecords
  /\ ~AtLimit(Cardinality(Counted), Limit(planOf))
  /\ Advance(p, [Idle EXCEPT !.step = "look", !.key = k, !.plan = planOf, !.counted = Cardinality(Counted)])
  /\ UNCHANGED <<table, planOf, record, overlapped, recordChanges>>

\* connectPageForm: the source of the page and form is looked for and then updated, or
\* written when there is none, under any plan
ConnectPage(p, k) ==
  /\ table \in MetaTables /\ request[p].step = "idle" /\ Len(record) < MaxRecords
  /\ \E i \in Some(WithKey(k)) : Advance(p, [Idle EXCEPT !.step = "write", !.key = k, !.plan = NoPlan, !.found = i])
  /\ overlapped' = (overlapped \/ Writing # {})
  /\ UNCHANGED <<table, planOf, record, recordChanges>>

\* findFirst or findUnique by the key, where the service makes one
LookForKey(p) ==
  LET r == request[p]  same == KindOf(table).same  rows == WithKey(r.key)
  IN /\ r.step = "look"
     /\ IF same = "refuse" /\ rows # {} THEN Answer(p)
        ELSE \E i \in IF same = "update" THEN Some(rows) ELSE {0} :
               Advance(p, [r EXCEPT !.step = "write", !.found = i,
                                  !.key = IF same = "rename" /\ rows # {} THEN Stamped ELSE @])
     /\ overlapped' = (overlapped \/ Writing # {})
     /\ UNCHANGED <<table, planOf, record, recordChanges>>

\* the index refuses a second row with the key
Refused(k, self) == k # Stamped /\ KindOf(table).unique /\ WithKey(k) \ {self} # {}
WriteRecord(p) ==
  LET r == request[p]
  IN /\ r.step = "write" /\ Answer(p) /\ Len(record) < MaxRecords
     /\ record' = IF r.found # 0 \/ Refused(r.key, 0) THEN record
                  ELSE Append(record, [there |-> TRUE, key |-> r.key, active |-> TRUE])
     /\ UNCHANGED <<table, planOf, overlapped, recordChanges>>

Changed == recordChanges < MaxRecordChanges /\ recordChanges' = recordChanges + 1 /\ UNCHANGED <<table, request, overlapped>>
RemoveRecord(i) ==
  /\ Changed /\ i \in There /\ table # "users"
  /\ record' = [record EXCEPT ![i].there = FALSE] /\ UNCHANGED planOf
\* a user is deactivated, and activated again by an update, which asks for no limit
SetActive(i) ==
  /\ Changed /\ i \in There /\ table = "users"
  /\ record' = [record EXCEPT ![i].active = ~@] /\ UNCHANGED planOf
\* an update of the key: written and left to the index, refused, or renamed
SetKey(i, k) ==
  /\ Changed /\ i \in There /\ record[i].key # k /\ KindOf(table).rekey # "none"
  /\ record' = CASE WithKey(k) = {} -> [record EXCEPT ![i].key = k]
                 [] WithKey(k) # {} /\ KindOf(table).rekey = "rename" -> [record EXCEPT ![i].key = Stamped]
                 [] OTHER -> record
  /\ UNCHANGED planOf
ChangePlan == Changed /\ planOf' \in Plans \ {planOf} /\ UNCHANGED record

RecordNext ==
  \/ \E p \in Requests : (\E k \in RecordKeys : CheckLimit(p, k) \/ ConnectPage(p, k)) \/ LookForKey(p) \/ WriteRecord(p)
  \/ \E i \in DOMAIN record :
       RemoveRecord(i) \/ SetActive(i) \/ \E k \in RecordKeys : SetKey(i, k)
  \/ ChangePlan

-----------------------------------------------------------------------------
(* Properties.                                                                  *)

RecordTypeOK ==
  /\ record \in Seq([there : BOOLEAN, key : RecordKeys \cup {Stamped}, active : BOOLEAN])
  /\ \A p \in Requests : request[p].found \in 0..Len(record) /\ request[p].counted <= Len(record)

\* A key belongs to one row: the index sees to it where there is one, and where there is
\* none the tenant has two AI configurations when two requests overlapped
\* (ai-config.service.ts:72), and as many sources for a whole page as were asked for.
KeysAreUnique ==
  table \in {"rules", "metaPages"} \/ (table = "aiConfigs" /\ overlapped) \/
  \A i, j \in There : record[i].key = record[j].key /\ record[i].key # Stamped => i = j

WasOld(p) == request[p].counted < Cardinality(Counted) \/ request[p].plan \notin {planOf, NoPlan}
Connects(p) == request[p].plan = NoPlan /\ table \in MetaTables
\* A step that takes a tenant past the limit of its plan is a user activated again
\* (users.service.ts:119), a change of plan, a row whose count or plan was old when it
\* was written (plan.service.ts:107, :125), or a page of Meta connected, which no plan
\* is asked for (meta-oauth.service.ts:318).
LimitIsKept ==
  [][Cardinality(Counted') > Limit(planOf)' /\ Cardinality(Counted) <= Limit(planOf) =>
       \/ planOf' # planOf \/ (table = "users" /\ recordChanges' # recordChanges)
       \/ \E p \in Writing : request'[p] = Idle /\ (WasOld(p) \/ Connects(p))]_recordVars
=============================================================================
