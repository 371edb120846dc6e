--------------------------- MODULE InboundProofs ---------------------------
(***************************************************************************)
(* Proofs about InboundMessages, for any contacts, messages, leads,        *)
(* requests in progress, deliveries and failures.                          *)
(***************************************************************************)
EXTENDS InboundMessages, FiniteSetTheorems, TLAPS

HT(label, m, l) == [at |-> label, msg |-> m, lead |-> l]
ST(label, m, l, list) == [at |-> label, lead |-> l, msg |-> m, list |-> list]

Early == {"check", "match", "find", "create"}
Late == {"storeOut", "store", "emit", "count"}

OtherHooksStay(h) ==
  /\ hook' = [k \in Hook |-> hook'[k]]
  /\ \A k \in Hook : k # h => hook'[k] = hook[k]
OtherSyncsStay(s) ==
  /\ sync' = [k \in Sync |-> sync'[k]]
  /\ \A k \in Sync : k # s => sync'[k] = sync[k]

-----------------------------------------------------------------------------
(* What the steps do *)

(* handleMessageUpsert for message m, and lead l once there is one. *)
HookMoves(h, m, l) ==
  \/ /\ hook[h] = Free /\ m \in provider /\ NoteRace
     /\ hook'[h] = HT(IF m \in Incoming THEN "find" ELSE "check", m, Nobody)
     /\ UNCHANGED <<contact, rows, events, failures>>
  \/ /\ hook[h] = HT("check", m, Nobody)
     /\ hook'[h] = IF Stored(m) THEN Free ELSE HT("match", m, Nobody)
     /\ UNCHANGED <<contact, rows, events, failures, raced>>
  \/ /\ hook[h] = HT("match", m, Nobody)
     /\ \/ hook'[h] = Free
        \/ l \in Lead /\ hook'[h] = HT("storeOut", m, l)
     /\ UNCHANGED <<contact, rows, events, failures, raced>>
  \/ /\ hook[h] = HT("storeOut", m, l) /\ l \in Lead /\ hook'[h] = Free /\ AddRow(m, l)
     /\ UNCHANGED <<contact, events, failures, raced>>
  \/ /\ hook[h] = HT("find", m, Nobody)
     /\ \/ LeadsOf(ContactOf[m]) = {} /\ hook'[h] = HT("create", m, Nobody)
        \/ l \in Lead /\ contact[l] = ContactOf[m] /\ hook'[h] = HT("store", m, l)
     /\ UNCHANGED <<contact, rows, events, failures, raced>>
  \/ /\ hook[h] = HT("create", m, Nobody) /\ hook'[h] = Free
     /\ UNCHANGED <<contact, rows, events, failures, raced>>
  \/ /\ hook[h] = HT("create", m, Nobody) /\ l \in Lead /\ contact[l] = Nobody
     /\ hook'[h] = HT("store", m, l)
     /\ contact' = [contact EXCEPT ![l] = ContactOf[m]]
     /\ auto' = [auto EXCEPT ![ContactOf[m]] = @ + 1]
     /\ UNCHANGED <<rows, inbound, contacted, failures, raced>>
  \/ /\ hook[h] = HT("store", m, l) /\ l \in Lead
     /\ hook'[h] = HT("emit", m, l) /\ AddRow(m, l)
     /\ UNCHANGED <<contact, events, failures, raced>>
  \/ /\ hook[h] = HT("emit", m, l) /\ l \in Lead /\ hook'[h] = HT("count", m, l)
     /\ inbound' = [inbound EXCEPT ![m][l] = @ + 1]
     /\ UNCHANGED <<contact, rows, auto, contacted, failures, raced>>
  \/ /\ hook[h] = HT("count", m, l) /\ l \in Lead /\ hook'[h] = Free
     /\ contacted' = IF IsFirst(l) THEN [contacted EXCEPT ![l] = @ + 1] ELSE contacted
     /\ UNCHANGED <<contact, rows, auto, inbound, failures, raced>>
  \/ /\ hook[h] # Free /\ hook'[h] = Free /\ failures' = failures + 1
     /\ UNCHANGED <<contact, rows, events, raced>>
HookEffect(h, m, l) ==
  /\ OtherHooksStay(h) /\ UNCHANGED <<provider, fromCrm, sending, sync, syncs>>
  /\ HookMoves(h, m, l)

(* syncInbound, for lead l and message m where there is one. *)
Begun(s, l) ==
  \E list \in SUBSET Message : list \subseteq provider /\ sync'[s] = ST("existing", Nobody, l, list)
SyncMoves(s, m, l) ==
  \/ /\ sync[s] = Free /\ syncs' = syncs + 1 /\ NoteRace
     /\ Begun(s, l)
     /\ UNCHANGED <<rows, inbound, failures>>
  \/ /\ \E n \in Message \cup {Nobody}, list \in SUBSET Message :
          /\ sync[s] = ST("existing", n, l, list)
          /\ sync'[s] = ST("store", n, l, {k \in list : rows[k][l] = 0})
     /\ UNCHANGED <<rows, inbound, raced, syncs, failures>>
  \/ /\ \E n \in Message \cup {Nobody}, list \in SUBSET Message :
          /\ sync[s] = ST("store", n, l, list) /\ m \in list
          /\ sync'[s] = ST(IF m \in Incoming THEN "emit" ELSE "store", m, l, list \ {m})
     /\ AddRow(m, l)
     /\ UNCHANGED <<inbound, raced, syncs, failures>>
  \/ /\ \E list \in SUBSET Message :
          /\ m \in Message /\ sync[s] = ST("emit", m, l, list)
          /\ sync'[s] = ST("store", m, l, list)
     /\ inbound' = [inbound EXCEPT ![m][l] = @ + 1]
     /\ UNCHANGED <<rows, raced, syncs, failures>>
  \/ /\ sync[s] # Free /\ sync'[s] = Free
     /\ \/ SyncAt(s, "store") /\ UNCHANGED failures
        \/ failures' = failures + 1
     /\ UNCHANGED <<rows, inbound, raced, syncs>>

SyncEffect(s, m, l) ==
  /\ OtherSyncsStay(s)
  /\ UNCHANGED <<contact, provider, fromCrm, sending, hook, auto, contacted>>
  /\ SyncMoves(s, m, l)

(* The provider, the CRM's own sends and its leads; requests stay.         *)
OtherStep ==
  /\ UNCHANGED <<hook, sync, events, budgets>>
  /\ \/ UNCHANGED <<contact, provider, fromCrm, sending, rows>>
     \/ /\ \E m \in Message : m \notin provider /\ provider' = provider \cup {m}
        /\ UNCHANGED <<contact, fromCrm, sending, rows>>
     \/ /\ \E m \in Message \ Incoming, l \in Lead :
             /\ m \notin provider
             /\ provider' = provider \cup {m} /\ fromCrm' = fromCrm \cup {m}
             /\ sending' = [sending EXCEPT ![m] = l]
        /\ UNCHANGED <<contact, rows>>
     \/ /\ \E m \in Message, l \in Lead :
             /\ sending[m] = l /\ AddRow(m, l)
             /\ sending' = [sending EXCEPT ![m] = Nobody]
        /\ UNCHANGED <<contact, provider, fromCrm>>
     \/ /\ \E l \in Lead, c \in Contact :
             contact[l] = Nobody /\ contact' = [contact EXCEPT ![l] = c]
        /\ UNCHANGED <<provider, fromCrm, sending, rows>>

LEMMA HTFacts ==
  \A a, b \in Early \cup Late, m, n \in Message, k, l \in Lead \cup {Nobody} :
    /\ HT(a, m, k) # Free /\ HT(a, m, k).at = a /\ HT(a, m, k).msg = m /\ HT(a, m, k).lead = k
    /\ HT(a, m, k) = HT(b, n, l) <=> a = b /\ m = n /\ k = l
BY DEF HT, Free, Early, Late

LEMMA HookFacts ==
  ASSUME TypeOK, NEW h \in Hook, hook[h] # Free
  PROVE  /\ hook[h] = HT(hook[h].at, hook[h].msg, hook[h].lead)
         /\ hook[h].msg \in Message
         /\ \/ hook[h].at \in Early /\ hook[h].lead = Nobody
            \/ hook[h].at \in Late /\ hook[h].lead \in Lead
<1>1. hook[h] \in HookTask
  BY DEF TypeOK
<1> QED
  BY <1>1 DEF HookTask, HT, Early, Late

LEMMA SyncFacts ==
  ASSUME TypeOK, NEW s \in Sync, sync[s] # Free
  PROVE  /\ sync[s] = ST(sync[s].at, sync[s].msg, sync[s].lead, sync[s].list)
         /\ sync[s].lead \in Lead /\ sync[s].list \in SUBSET Message
         /\ sync[s].msg \in Message \cup {Nobody}
         /\ sync[s].at \in {"existing", "store", "emit"}
         /\ sync[s].at = "emit" => sync[s].msg \in Message
<1>1. sync[s] \in SyncTask
  BY DEF TypeOK
<1> QED
  BY <1>1 DEF SyncTask, ST

SyncRecord == [at : {"existing", "store", "emit"}, lead : Lead, list : SUBSET Message,
               msg : Message \cup {Nobody}]

(* The two ways a request goes on. *)
LEMMA HookShape ==
  ASSUME TypeOK, NEW h \in Hook
  PROVE  /\ HookEnds(h) => OtherHooksStay(h) /\ hook'[h] = Free
         /\ \A label \in Early \cup Late, l \in Lead \cup {Nobody} :
              hook[h] # Free /\ HookGoto(h, label, l) =>
                OtherHooksStay(h) /\ hook'[h] = HT(label, hook[h].msg, l)
<1>1. hook \in [Hook -> HookTask \cup {Free}]
  BY DEF TypeOK
<1>2. HookEnds(h) => OtherHooksStay(h) /\ hook'[h] = Free
  BY <1>1 DEF HookEnds, OtherHooksStay
<1>3. ASSUME NEW label \in Early \cup Late, NEW l \in Lead \cup {Nobody},
             hook[h] # Free, HookGoto(h, label, l)
      PROVE  OtherHooksStay(h) /\ hook'[h] = HT(label, hook[h].msg, l)
  <2>1. hook' = [hook EXCEPT ![h] = [hook[h] EXCEPT !.at = label, !.lead = l]]
    BY <1>1, <1>3 DEF HookGoto
  <2>2. hook[h] \in [at : Early \cup Late, msg : Message, lead : Lead \cup {Nobody}]
    BY <1>1, <1>3 DEF HookTask, Early, Late
  <2>3. OtherHooksStay(h) /\ hook'[h] = [hook[h] EXCEPT !.at = label, !.lead = l]
    BY <1>1, <2>1 DEF OtherHooksStay
  <2>4. /\ hook'[h] \in [at : Early \cup Late, msg : Message, lead : Lead \cup {Nobody}]
        /\ hook'[h].at = label /\ hook'[h].lead = l
    BY <2>2, <2>3
  <2>5. hook'[h].msg = hook[h].msg
    BY <2>2, <2>3
  <2> QED
    BY <2>3, <2>4, <2>5 DEF HT
<1> QED
  BY <1>2, <1>3

LEMMA HookHasEffect ==
  ASSUME TypeOK, NEW h \in Hook,
         HandleMessageUpsert(h) \/ \E m \in Message : Deliver(h, m)
  PROVE  \E m \in Message, l \in Lead \cup {Nobody} : HookEffect(h, m, l)
<1> USE DEF events, network, budgets, HookAt
<1>1. ASSUME NEW m \in Message, Deliver(h, m) PROVE HookEffect(h, m, Nobody)
  <2>1. OtherHooksStay(h) /\ hook'[h] = HT(IF m \in Incoming THEN "find" ELSE "check", m, Nobody)
    BY <1>1 DEF Deliver, OtherHooksStay, HT, TypeOK
  <2> QED
    BY <1>1, <2>1 DEF Deliver, HookEffect, HookMoves
<1>2. ASSUME hook[h] # Free, HandleMessageUpsert(h)
      PROVE  \E m \in Message, l \in Lead \cup {Nobody} : HookEffect(h, m, l)
  <2>1. PICK m \in Message, k \in Lead \cup {Nobody} :
          /\ m = hook[h].msg /\ k = hook[h].lead /\ hook[h] = HT(hook[h].at, m, k)
          /\ hook[h].at \in Early => k = Nobody
          /\ hook[h].at \in Late => k \in Lead
    BY <1>2, HookFacts DEF Early, Late
  <2>2. CASE CheckEcho(h)
    <3>1. hook'[h] = (IF Stored(m) THEN Free ELSE HT("match", m, Nobody)) /\ OtherHooksStay(h)
      BY <1>2, <2>1, <2>2, HookShape DEF CheckEcho, Known, Early
    <3>2. HookEffect(h, m, Nobody)
      BY <2>1, <2>2, <3>1 DEF CheckEcho, HookEffect, HookMoves, Early
    <3> QED
      BY <3>2
  <2>3. CASE MatchLead(h)
    <3>1. PICK l \in Lead \cup {Nobody} :
            /\ OtherHooksStay(h)
            /\ hook'[h] = Free \/ (l \in Lead /\ hook'[h] = HT("storeOut", m, l))
      BY <1>2, <2>1, <2>3, HookShape DEF MatchLead, LeadsOf, Late
    <3>2. HookEffect(h, m, l)
      BY <2>1, <2>3, <3>1 DEF MatchLead, HookEffect, HookMoves, Early
    <3> QED
      BY <3>2
  <2>4. CASE StoreOut(h)
    <3>1. HookEffect(h, m, k)
      BY <2>1, <2>4, HookShape DEF StoreOut, HookEffect, HookMoves, Late, AddRow
    <3> QED
      BY <3>1
  <2>5. CASE FindLead(h)
    <3>1. PICK l \in Lead \cup {Nobody} :
            /\ OtherHooksStay(h)
            /\ \/ LeadsOf(ContactOf[m]) = {} /\ hook'[h] = HT("create", m, Nobody)
               \/ l \in Lead /\ contact[l] = ContactOf[m] /\ hook'[h] = HT("store", m, l)
      BY <1>2, <2>1, <2>5, HookShape DEF FindLead, Found, LeadsOf, Early, Late
    <3>2. HookEffect(h, m, l)
      BY <2>1, <2>5, <3>1 DEF FindLead, HookEffect, HookMoves, Early
    <3> QED
      BY <3>2
  <2>6. CASE CreateLead(h)
    <3>1. CASE ~source
      <4>1. HookEffect(h, m, Nobody)
        BY <2>1, <2>6, <3>1, HookShape DEF CreateLead, HookEffect, HookMoves, Early
      <4> QED
        BY <4>1
    <3>2. CASE source
      <4>1. PICK l \in Lead : /\ contact[l] = Nobody
                              /\ contact' = [contact EXCEPT ![l] = ContactOf[m]]
                              /\ auto' = [auto EXCEPT ![ContactOf[m]] = @ + 1]
                              /\ HookGoto(h, "store", l)
        BY <2>1, <2>6, <3>2 DEF CreateLead, Unused
      <4>2. OtherHooksStay(h) /\ hook'[h] = HT("store", m, l)
        BY <1>2, <2>1, <4>1, HookShape DEF Late
      <4>3. HookEffect(h, m, l)
        BY <2>1, <2>6, <4>1, <4>2 DEF CreateLead, HookEffect, HookMoves, Early
      <4> QED
        BY <4>3
    <3> QED
      BY <3>1, <3>2
  <2>7. CASE StoreIn(h)
    <3>1. HookEffect(h, m, k)
      BY <1>2, <2>1, <2>7, HookShape DEF StoreIn, HookEffect, HookMoves, Late, AddRow
    <3> QED
      BY <3>1
  <2>8. CASE EmitInbound(h)
    <3>1. HookEffect(h, m, k)
      BY <1>2, <2>1, <2>8, HookShape DEF EmitInbound, HookEffect, HookMoves, Late
    <3> QED
      BY <3>1
  <2>9. CASE CountInbound(h)
    <3>1. HookEffect(h, m, k)
      BY <2>1, <2>9, HookShape DEF CountInbound, HookEffect, HookMoves, Late
    <3> QED
      BY <3>1
  <2>10. CASE HookFails(h)
    <3>1. HookEffect(h, m, k)
      BY <2>1, <2>10, HookShape DEF HookFails, HookEffect, HookMoves
    <3> QED
      BY <3>1
  <2> QED
    BY <1>2, <2>2, <2>3, <2>4, <2>5, <2>6, <2>7, <2>8, <2>9, <2>10 DEF HandleMessageUpsert
<1>3. HandleMessageUpsert(h) => hook[h] # Free
  BY DEF HandleMessageUpsert, CheckEcho, MatchLead, StoreOut, FindLead, CreateLead, StoreIn,
         EmitInbound, CountInbound, HookFails
<1> QED
  BY <1>1, <1>2, <1>3

LEMMA SyncShape ==
  ASSUME TypeOK, NEW s \in Sync, sync[s] # Free
  PROVE  sync[s] \in SyncRecord
BY DEF TypeOK, SyncTask, SyncRecord

LEMMA SyncHasEffect ==
  ASSUME TypeOK, NEW s \in Sync,
         \/ \E l \in Lead : FetchMessages(s, l)
         \/ ExistingIds(s) \/ EmitImported(s) \/ SyncEnds(s)
         \/ \E m \in Message : ImportMessage(s, m)
  PROVE  \E m \in Message \cup {Nobody}, l \in Lead : SyncEffect(s, m, l)
<1> USE DEF events, network, budgets, SyncAt
<1>1. sync \in [Sync -> SyncTask \cup {Free}]
  BY DEF TypeOK
<1>2. ASSUME NEW l \in Lead, FetchMessages(s, l) PROVE SyncEffect(s, Nobody, l)
  <2>1. OtherSyncsStay(s) /\ Begun(s, l)
    <3>1. PICK list \in Fetched(contact[l]) :
            sync' = [sync EXCEPT ![s] =
              [at |-> "existing", lead |-> l, msg |-> Nobody, list |-> list]]
      BY <1>2 DEF FetchMessages
    <3>2. list \in SUBSET Message /\ list \subseteq provider
      BY <3>1 DEF Fetched, TypeOK
    <3>3. sync'[s] = ST("existing", Nobody, l, list)
      BY <1>1, <3>1 DEF ST
    <3> QED
      BY <1>1, <3>1, <3>2, <3>3 DEF Begun, OtherSyncsStay
  <2> QED
    BY <1>2, <2>1 DEF FetchMessages, SyncEffect, SyncMoves
<1>3. ASSUME sync[s] # Free
      PROVE  \E n \in Message \cup {Nobody}, l \in Lead, list \in SUBSET Message :
               n = sync[s].msg /\ l = sync[s].lead /\ list = sync[s].list
  BY <1>3, SyncFacts
<1>4. CASE ExistingIds(s)
  <2>1. PICK n \in Message \cup {Nobody}, l \in Lead, list \in SUBSET Message :
          n = sync[s].msg /\ l = sync[s].lead /\ list = sync[s].list
    BY <1>3, <1>4 DEF ExistingIds
  <2>2. sync[s] = ST("existing", n, l, list)
    BY <1>4, <2>1, SyncFacts DEF ExistingIds
  <2>3. sync'[s] = [sync[s] EXCEPT !.at = "store", !.list = {k \in list : rows[k][l] = 0}]
    BY <1>1, <1>4, <2>1 DEF ExistingIds
  <2>4. sync'[s] = ST("store", n, l, {k \in list : rows[k][l] = 0})
    <3>1. sync[s] \in SyncRecord /\ l = sync[s].lead /\ list = sync[s].list
      BY <2>1, <1>4, SyncShape DEF ExistingIds
    <3>2. sync'[s] \in SyncRecord
      BY <2>1, <2>3, <3>1 DEF SyncRecord
    <3>3. sync'[s].at = "store" /\ sync'[s].list = {k \in list : rows[k][l] = 0}
      BY <2>3, <3>1 DEF SyncRecord
    <3>4. sync'[s].lead = l /\ sync'[s].msg = n
      BY <2>1, <2>3, <3>1 DEF SyncRecord
    <3> QED
      BY <3>2, <3>3, <3>4 DEF ST, SyncRecord
  <2>5. OtherSyncsStay(s)
    BY <1>1, <1>4 DEF ExistingIds, OtherSyncsStay
  <2>6. SyncEffect(s, n, l)
    BY <1>4, <2>2, <2>4, <2>5 DEF ExistingIds, SyncEffect, SyncMoves
  <2> QED
    BY <2>6
<1>5. ASSUME NEW m \in Message, ImportMessage(s, m)
      PROVE  \E l \in Lead : SyncEffect(s, m, l)
  <2>1. PICK n \in Message \cup {Nobody}, l \in Lead, list \in SUBSET Message :
          n = sync[s].msg /\ l = sync[s].lead /\ list = sync[s].list
    BY <1>3, <1>5 DEF ImportMessage
  <2>2. sync[s] = ST("store", n, l, list) /\ m \in list
    BY <1>5, <2>1, SyncFacts DEF ImportMessage
  <2>3. sync'[s] = [sync[s] EXCEPT !.list = list \ {m}, !.msg = m,
                      !.at = IF m \in Incoming THEN "emit" ELSE "store"]
    BY <1>1, <1>5, <2>1 DEF ImportMessage, Emits
  <2>4. sync'[s] = ST((IF m \in Incoming THEN "emit" ELSE "store"), m, l, list \ {m})
    <3>1. sync[s] \in SyncRecord /\ l = sync[s].lead /\ list = sync[s].list
      BY <2>1, <1>5, SyncShape DEF ImportMessage
    <3>2. sync'[s] \in SyncRecord
      BY <2>1, <2>3, <3>1 DEF SyncRecord
    <3>3. sync'[s].at = (IF m \in Incoming THEN "emit" ELSE "store") /\ sync'[s].list = list \ {m}
      BY <2>3, <3>1 DEF SyncRecord
    <3>4. sync'[s].lead = l /\ sync'[s].msg = m
      BY <2>1, <2>3, <3>1 DEF SyncRecord
    <3> QED
      BY <3>2, <3>3, <3>4 DEF ST, SyncRecord
  <2>5. OtherSyncsStay(s) /\ AddRow(m, l)
    BY <1>1, <1>5, <2>1 DEF ImportMessage, OtherSyncsStay, AddRow
  <2>6. SyncEffect(s, m, l)
    BY <1>5, <2>2, <2>4, <2>5 DEF ImportMessage, SyncEffect, SyncMoves
  <2> QED
    BY <2>6
<1>6. CASE EmitImported(s)
  <2>1. PICK m \in Message, l \in Lead, list \in SUBSET Message :
          m = sync[s].msg /\ l = sync[s].lead /\ list = sync[s].list
    BY <1>3, <1>6, SyncFacts DEF EmitImported
  <2>2. sync[s] = ST("emit", m, l, list)
    BY <1>6, <2>1, SyncFacts DEF EmitImported
  <2>3. sync'[s] = [sync[s] EXCEPT !.at = "store"]
    BY <1>1, <1>6 DEF EmitImported
  <2>4. sync'[s] = ST("store", m, l, list)
    <3>1. sync[s] \in SyncRecord /\ l = sync[s].lead /\ list = sync[s].list
      BY <2>1, <1>6, SyncShape DEF EmitImported
    <3>2. sync'[s] \in SyncRecord
      BY <2>1, <2>3, <3>1 DEF SyncRecord
    <3>3. sync'[s].at = "store" /\ sync'[s].list = list
      BY <2>3, <3>1 DEF SyncRecord
    <3>4. sync'[s].lead = l /\ sync'[s].msg = m
      BY <2>1, <2>3, <3>1 DEF SyncRecord
    <3> QED
      BY <3>2, <3>3, <3>4 DEF ST, SyncRecord
  <2>5. OtherSyncsStay(s) /\ inbound' = [inbound EXCEPT ![m][l] = @ + 1]
    BY <1>1, <1>6, <2>1 DEF EmitImported, OtherSyncsStay
  <2>6. SyncEffect(s, m, l)
    BY <1>6, <2>2, <2>4, <2>5 DEF EmitImported, SyncEffect, SyncMoves
  <2> QED
    BY <2>6
<1>7. CASE SyncEnds(s)
  <2>1. PICK n \in Message \cup {Nobody}, l \in Lead, list \in SUBSET Message :
          n = sync[s].msg /\ l = sync[s].lead /\ list = sync[s].list
    BY <1>3, <1>7 DEF SyncEnds
  <2>2. SyncEffect(s, n, l)
    BY <1>1, <1>7 DEF SyncEnds, SyncEffect, SyncMoves, OtherSyncsStay
  <2> QED
    BY <2>1, <2>2
<1> QED
  BY <1>2, <1>4, <1>5, <1>6, <1>7

LEMMA NextCases ==
  ASSUME TypeOK, [Next]_vars
  PROVE  \/ \E h \in Hook, m \in Message, l \in Lead \cup {Nobody} : HookEffect(h, m, l)
         \/ \E s \in Sync, m \in Message \cup {Nobody}, l \in Lead : SyncEffect(s, m, l)
         \/ OtherStep
<1> USE DEF events, network, budgets
<1>1. ASSUME NEW m \in Message, Write(m) PROVE OtherStep
  BY <1>1 DEF Write, OtherStep
<1>2. ASSUME NEW m \in Message, NEW l \in Lead, Post(m, l) PROVE OtherStep
  BY <1>2 DEF Post, OtherStep
<1>3. ASSUME NEW m \in Message, Record(m) PROVE OtherStep
  <2>1. PICK l \in Lead : sending[m] = l
    BY <1>3 DEF Record, TypeOK
  <2>2. AddRow(m, l)
    BY <1>3, <2>1 DEF Record, AddRow
  <2> QED
    BY <1>3, <2>1, <2>2 DEF Record, OtherStep
<1>4. ASSUME NEW l \in Lead, NEW c \in Contact, AddLead(l, c) PROVE OtherStep
  BY <1>4 DEF AddLead, Unused, OtherStep
<1>5. CASE ToggleSource
  BY <1>5 DEF ToggleSource, OtherStep
<1>6. CASE UNCHANGED vars
  BY <1>6 DEF vars, OtherStep
<1> QED
  BY <1>1, <1>2, <1>3, <1>4, <1>5, <1>6, HookHasEffect, SyncHasEffect DEF Next

-----------------------------------------------------------------------------
(* Types *)

LEMMA AddRowType ==
  ASSUME TypeOK, NEW m \in Message, NEW l \in Lead, AddRow(m, l)
  PROVE  /\ rows' \in [Message -> [Lead -> Nat]]
         /\ rows'[m][l] = rows[m][l] + 1 /\ rows[m][l] \in Nat
         /\ \A n \in Message, k \in Lead : n # m \/ k # l => rows'[n][k] = rows[n][k]
BY DEF AddRow, TypeOK

LEMMA EmitType ==
  ASSUME TypeOK, NEW m \in Message, NEW l \in Lead,
         inbound' = [inbound EXCEPT ![m][l] = @ + 1]
  PROVE  /\ inbound' \in [Message -> [Lead -> Nat]]
         /\ inbound'[m][l] = inbound[m][l] + 1 /\ inbound[m][l] \in Nat
         /\ \A n \in Message, k \in Lead : n # m \/ k # l => inbound'[n][k] = inbound[n][k]
BY DEF TypeOK

LEMMA HTType ==
  \A m \in Message :
    /\ \A a \in Early : HT(a, m, Nobody) \in HookTask
    /\ \A a \in Late, l \in Lead : HT(a, m, l) \in HookTask
BY DEF HT, HookTask, Early, Late

LEMMA RacedType ==
  NoteRace => raced' \in BOOLEAN
BY Zenon DEF NoteRace

LEMMA HookTypes ==
  ASSUME TypeOK, NEW h \in Hook, NEW m \in Message, NEW l \in Lead \cup {Nobody},
         HookEffect(h, m, l)
  PROVE  /\ hook' \in [Hook -> HookTask \cup {Free}]
         /\ contact' \in [Lead -> Contact \cup {Nobody}] /\ rows' \in [Message -> [Lead -> Nat]]
         /\ auto' \in [Contact -> Nat] /\ inbound' \in [Message -> [Lead -> Nat]]
         /\ contacted' \in [Lead -> Nat] /\ failures' \in Nat /\ raced' \in BOOLEAN
<1> USE DEF HookEffect, HookMoves, events
<1>1. hook'[h] \in HookTask \cup {Free}
  <2>1. hook'[h] = Free \/ (\E a \in Early : hook'[h] = HT(a, m, Nobody))
          \/ (l \in Lead /\ \E a \in Late : hook'[h] = HT(a, m, l))
    BY DEF Early, Late
  <2> QED
    BY <2>1, HTType
<1>2. hook' \in [Hook -> HookTask \cup {Free}]
  BY <1>1 DEF OtherHooksStay, TypeOK
<1>3. rows' \in [Message -> [Lead -> Nat]] /\ inbound' \in [Message -> [Lead -> Nat]]
  BY AddRowType, EmitType DEF TypeOK
<1>4. contact' \in [Lead -> Contact \cup {Nobody}] /\ auto' \in [Contact -> Nat]
  <2>1. ContactOf[m] \in Contact
    BY InboundAssumption
  <2>2. \/ UNCHANGED <<contact, auto>>
        \/ /\ l \in Lead /\ contact' = [contact EXCEPT ![l] = ContactOf[m]]
           /\ auto' = [auto EXCEPT ![ContactOf[m]] = @ + 1]
    OBVIOUS
  <2> HIDE DEF HookEffect, HookMoves
  <2> QED
    BY <2>1, <2>2 DEF TypeOK
<1>5. contacted' \in [Lead -> Nat]
  BY DEF TypeOK
<1>6. failures' \in Nat /\ raced' \in BOOLEAN
  <2>1. failures' = failures \/ failures' = failures + 1
    OBVIOUS
  <2>2. raced' = raced \/ NoteRace
    OBVIOUS
  <2> HIDE DEF HookEffect, HookMoves
  <2> QED
    BY <2>1, <2>2, RacedType DEF TypeOK
<1> QED
  BY <1>2, <1>3, <1>4, <1>5, <1>6

LEMMA SyncTypes ==
  ASSUME TypeOK, NEW s \in Sync, NEW m \in Message \cup {Nobody}, NEW l \in Lead,
         SyncEffect(s, m, l)
  PROVE  /\ sync' \in [Sync -> SyncTask \cup {Free}]
         /\ rows' \in [Message -> [Lead -> Nat]] /\ inbound' \in [Message -> [Lead -> Nat]]
         /\ syncs' \in Nat /\ failures' \in Nat /\ raced' \in BOOLEAN
<1> USE DEF SyncEffect, SyncMoves
<1>1. ASSUME NEW n \in Message \cup {Nobody}, NEW k \in Lead, NEW list \in SUBSET Message
      PROVE  /\ ST("existing", n, k, list) \in SyncTask /\ ST("store", n, k, list) \in SyncTask
             /\ n \in Message => ST("emit", n, k, list) \in SyncTask
  BY <1>1 DEF ST, SyncTask
<1>2. sync'[s] \in SyncTask \cup {Free}
  <2>2. \A list \in SUBSET Message :
          {k \in list : rows[k][l] = 0} \in SUBSET Message /\ list \ {m} \in SUBSET Message
    OBVIOUS
  <2>3. \/ sync'[s] = Free
        \/ \E n \in Message \cup {Nobody}, list \in SUBSET Message :
             \/ sync'[s] \in {ST("existing", n, l, list), ST("store", n, l, list)}
             \/ n \in Message /\ sync'[s] = ST("emit", n, l, list)
    <3>1. CASE \E n \in Message \cup {Nobody}, list \in SUBSET Message :
                 /\ sync[s] = ST("store", n, l, list) /\ m \in list
                 /\ sync'[s] = ST(IF m \in Incoming THEN "emit" ELSE "store", m, l, list \ {m})
      BY <2>2, <3>1
    <3>2. CASE \E n \in Message \cup {Nobody}, list \in SUBSET Message :
                 /\ sync[s] = ST("existing", n, l, list)
                 /\ sync'[s] = ST("store", n, l, {k \in list : rows[k][l] = 0})
      BY <2>2, <3>2
    <3>3. CASE Begun(s, l)
      BY <3>3 DEF Begun
    <3>4. CASE \E list \in SUBSET Message : sync[s] = ST("emit", m, l, list)
                                            /\ sync'[s] = ST("store", m, l, list)
      BY <3>4
    <3> QED
      BY <3>1, <3>2, <3>3, <3>4
  <2> HIDE DEF SyncEffect, SyncMoves
  <2> QED
    BY <1>1, <2>3
<1>3. sync' \in [Sync -> SyncTask \cup {Free}]
  BY <1>2 DEF OtherSyncsStay, TypeOK
<1>4. rows' \in [Message -> [Lead -> Nat]] /\ inbound' \in [Message -> [Lead -> Nat]]
  <2>1. rows' = rows \/ (m \in Message /\ AddRow(m, l))
    OBVIOUS
  <2>2. inbound' = inbound \/ (m \in Message /\ inbound' = [inbound EXCEPT ![m][l] = @ + 1])
    OBVIOUS
  <2> HIDE DEF SyncEffect, SyncMoves
  <2> QED
    BY <2>1, <2>2, AddRowType, EmitType DEF TypeOK
<1>5. syncs' \in Nat /\ failures' \in Nat /\ raced' \in BOOLEAN
  <2>1. failures' = failures \/ failures' = failures + 1
    OBVIOUS
  <2>2. (raced' = raced \/ NoteRace) /\ (syncs' = syncs \/ syncs' = syncs + 1)
    OBVIOUS
  <2> HIDE DEF SyncEffect, SyncMoves
  <2> QED
    BY <2>1, <2>2, RacedType DEF TypeOK
<1> QED
  BY <1>3, <1>4, <1>5

LEMMA OtherTypes ==
  ASSUME TypeOK, OtherStep
  PROVE  /\ contact' \in [Lead -> Contact \cup {Nobody}]
         /\ sending' \in [Message -> Lead \cup {Nobody}]
         /\ fromCrm' \subseteq provider' /\ provider' \subseteq Message
         /\ rows' \in [Message -> [Lead -> Nat]]
<1>1. rows' \in [Message -> [Lead -> Nat]]
  BY AddRowType DEF OtherStep, TypeOK
<1> QED
  BY <1>1 DEF OtherStep, TypeOK

(* The columns no proof below speaks of. *)
LEMMA PlainTypes ==
  ASSUME TypeOK, [Next]_vars
  PROVE  source' \in BOOLEAN /\ deliveries' \in [Message -> Nat]
<1> USE DEF TypeOK
<1>1. ASSUME NEW m \in Message, Write(m) \/ Record(m) \/ \E l \in Lead : Post(m, l)
      PROVE  source' \in BOOLEAN /\ deliveries' \in [Message -> Nat]
  BY <1>1 DEF Write, Record, Post
<1>2. ASSUME NEW l \in Lead, NEW c \in Contact, AddLead(l, c)
      PROVE  source' \in BOOLEAN /\ deliveries' \in [Message -> Nat]
  BY <1>2 DEF AddLead
<1>3. CASE ToggleSource
  BY <1>3 DEF ToggleSource
<1>4. ASSUME NEW h \in Hook, HandleMessageUpsert(h)
      PROVE  source' \in BOOLEAN /\ deliveries' \in [Message -> Nat]
  BY <1>4 DEF HandleMessageUpsert, CheckEcho, MatchLead, StoreOut, FindLead, CreateLead, StoreIn,
              EmitInbound, CountInbound, HookFails
<1>5. ASSUME NEW h \in Hook, NEW m \in Message, Deliver(h, m)
      PROVE  source' \in BOOLEAN /\ deliveries' \in [Message -> Nat]
  BY <1>5 DEF Deliver
<1>6. ASSUME NEW s \in Sync,
             \/ \E l \in Lead : FetchMessages(s, l)
             \/ ExistingIds(s) \/ EmitImported(s) \/ SyncEnds(s)
             \/ \E m \in Message : ImportMessage(s, m)
      PROVE  source' \in BOOLEAN /\ deliveries' \in [Message -> Nat]
  BY <1>6 DEF FetchMessages, ExistingIds, EmitImported, SyncEnds, ImportMessage
<1>7. CASE UNCHANGED vars
  BY <1>7 DEF vars
<1> QED
  BY <1>1, <1>2, <1>3, <1>4, <1>5, <1>6, <1>7 DEF Next

LEMMA NextTypeOK ==
  ASSUME TypeOK, [Next]_vars
  PROVE  TypeOK'
<1>1. source' \in BOOLEAN /\ deliveries' \in [Message -> Nat]
  BY PlainTypes
<1>2. ASSUME NEW h \in Hook, NEW m \in Message, NEW l \in Lead \cup {Nobody}, HookEffect(h, m, l)
      PROVE  TypeOK'
  <2>1. UNCHANGED <<provider, fromCrm, sending, sync, syncs>>
    BY <1>2 DEF HookEffect
  <2> QED
    BY <1>1, <1>2, <2>1, HookTypes DEF TypeOK
<1>3. ASSUME NEW s \in Sync, NEW m \in Message \cup {Nobody}, NEW l \in Lead, SyncEffect(s, m, l)
      PROVE  TypeOK'
  <2>1. UNCHANGED <<contact, provider, fromCrm, sending, hook, auto, contacted>>
    BY <1>3 DEF SyncEffect
  <2> QED
    BY <1>1, <1>3, <2>1, SyncTypes DEF TypeOK
<1>4. CASE OtherStep
  <2>1. UNCHANGED <<hook, sync, events, budgets>>
    BY <1>4 DEF OtherStep
  <2> QED
    BY <1>1, <1>4, <2>1, OtherTypes DEF TypeOK, events, budgets
<1> QED
  BY <1>2, <1>3, <1>4, NextCases

LEMMA InitTypeOK ==
  ASSUME Init
  PROVE  TypeOK
<1>1. rows \in [Message -> [Lead -> Nat]] /\ inbound \in [Message -> [Lead -> Nat]]
  BY DEF Init
<1> QED
  BY <1>1 DEF Init, TypeOK

(* Leads, messages, rows, requests in progress and events keep their shape. *)
THEOREM InboundTypeCorrect == Spec => []TypeOK
<1>1. Init => TypeOK
  BY InitTypeOK
<1>2. TypeOK /\ [Next]_vars => TypeOK'
  BY NextTypeOK
<1> QED
  BY <1>1, <1>2, PTL DEF Spec

-----------------------------------------------------------------------------
(* Which messages are handled *)

(* Incoming messages are found a lead, the agent's are matched with one;   *)
(* only what the provider has is handled or stored.                        *)
KnownHook(h) == hook[h] # Free =>
  /\ hook[h].msg \in provider
  /\ hook[h].at \in {"check", "match", "storeOut"} <=> hook[h].msg \notin Incoming
KnownSync(s) == sync[s] # Free =>
  /\ sync[s].list \subseteq provider
  /\ sync[s].at = "emit" => sync[s].msg \in Incoming
KnownMessage(m) ==
  /\ sending[m] # Nobody => m \in fromCrm
  /\ m \in fromCrm => m \notin Incoming
  /\ m \notin provider => \A l \in Lead : rows[m][l] = 0
MessagesAreKnown ==
  /\ \A h \in Hook : KnownHook(h)
  /\ \A s \in Sync : KnownSync(s)
  /\ \A m \in Message : KnownMessage(m)

LEMMA KnownHTs ==
  ASSUME TypeOK, MessagesAreKnown, NEW h \in Hook, NEW m \in Message, NEW l \in Lead \cup {Nobody}
  PROVE  /\ \A a \in Early \cup Late : hook[h] = HT(a, m, l) =>
              m \in provider /\ (a \in {"check", "match", "storeOut"} <=> m \notin Incoming)
BY HTFacts DEF MessagesAreKnown, KnownHook

LEMMA HookKnown ==
  ASSUME TypeOK, NEW h \in Hook, NEW m \in Message, NEW l \in Lead \cup {Nobody},
         HookEffect(h, m, l), MessagesAreKnown
  PROVE  MessagesAreKnown'
<1>1. OtherHooksStay(h) /\ UNCHANGED <<provider, fromCrm, sending, sync>> /\ HookMoves(h, m, l)
  BY DEF HookEffect
<1>2. \A a \in Early \cup Late, k \in Lead \cup {Nobody} : hook[h] = HT(a, m, k) =>
        m \in provider /\ (a \in {"check", "match", "storeOut"} <=> m \notin Incoming)
  BY KnownHTs
<1>3. \/ hook'[h] = Free
      \/ m \in provider /\ \E a \in Early \cup Late, k \in Lead \cup {Nobody} :
           hook'[h] = HT(a, m, k) /\ (a \in {"check", "match", "storeOut"} <=> m \notin Incoming)
  <2>1. CASE hook[h] = Free /\ m \in provider
               /\ hook'[h] = HT(IF m \in Incoming THEN "find" ELSE "check", m, Nobody)
    BY <2>1 DEF Early
  <2>2. CASE hook[h] = HT("check", m, Nobody)
               /\ hook'[h] = IF Stored(m) THEN Free ELSE HT("match", m, Nobody)
    BY <1>2, <2>2 DEF Early
  <2>3. CASE hook[h] = HT("match", m, Nobody) /\ l \in Lead /\ hook'[h] = HT("storeOut", m, l)
    BY <1>2, <2>3 DEF Early, Late
  <2>4. CASE hook[h] = HT("find", m, Nobody) /\ hook'[h] = HT("create", m, Nobody)
    BY <1>2, <2>4 DEF Early
  <2>5. CASE l \in Lead /\ hook'[h] = HT("store", m, l)
               /\ hook[h] \in {HT("find", m, Nobody), HT("create", m, Nobody)}
    BY <1>2, <2>5 DEF Early, Late
  <2>6. CASE l \in Lead /\ hook[h] = HT("store", m, l) /\ hook'[h] = HT("emit", m, l)
    BY <1>2, <2>6 DEF Late
  <2>7. CASE l \in Lead /\ hook[h] = HT("emit", m, l) /\ hook'[h] = HT("count", m, l)
    BY <1>2, <2>7 DEF Late
  <2>8. CASE hook'[h] = Free
    BY <2>8
  <2> QED
    BY <1>1, <2>1, <2>2, <2>3, <2>4, <2>5, <2>6, <2>7, <2>8 DEF HookMoves
<1>4. \A k \in Hook : KnownHook(k)'
  <2>1. KnownHook(h)'
    BY <1>1, <1>3, HTFacts DEF KnownHook
  <2> QED
    BY <1>1, <2>1 DEF MessagesAreKnown, KnownHook, OtherHooksStay
<1>5. \A s \in Sync : KnownSync(s)'
  BY <1>1 DEF MessagesAreKnown, KnownSync
<1>6. \A n \in Message : KnownMessage(n)'
  <2>1. rows' = rows \/ (m \in provider /\ l \in Lead /\ AddRow(m, l))
    BY <1>1, <1>2 DEF HookMoves, Late
  <2>2. \A n \in Message : n \notin provider => \A k \in Lead : rows'[n][k] = rows[n][k]
    BY <2>1, AddRowType
  <2> QED
    BY <1>1, <2>2 DEF MessagesAreKnown, KnownMessage
<1> QED
  BY <1>4, <1>5, <1>6 DEF MessagesAreKnown

LEMMA STFacts ==
  ASSUME NEW a \in {"existing", "store", "emit"}, NEW m \in Message \cup {Nobody},
         NEW l \in Lead, NEW list \in SUBSET Message
  PROVE  /\ ST(a, m, l, list) # Free /\ ST(a, m, l, list).at = a /\ ST(a, m, l, list).msg = m
         /\ ST(a, m, l, list).lead = l /\ ST(a, m, l, list).list = list
BY DEF ST, Free

LEMMA SyncKnown ==
  ASSUME TypeOK, NEW s \in Sync, NEW m \in Message \cup {Nobody}, NEW l \in Lead,
         SyncEffect(s, m, l), MessagesAreKnown
  PROVE  MessagesAreKnown'
<1>1. OtherSyncsStay(s) /\ UNCHANGED <<provider, fromCrm, sending, hook>> /\ SyncMoves(s, m, l)
  BY DEF SyncEffect
<1>2. KnownSync(s)
  BY DEF MessagesAreKnown
<1>3. KnownSync(s)' /\ (rows' = rows \/ (m \in provider /\ AddRow(m, l)))
  <2>1. CASE Begun(s, l) /\ rows' = rows
    <3>1. PICK list \in SUBSET Message :
            list \subseteq provider /\ sync'[s] = ST("existing", Nobody, l, list)
      BY <2>1 DEF Begun
    <3>3. sync'[s].list = list /\ sync'[s].at = "existing"
      BY <3>1 DEF ST
    <3> QED
      BY <1>1, <2>1, <3>1, <3>3 DEF KnownSync
  <2>2. ASSUME NEW n \in Message \cup {Nobody}, NEW list \in SUBSET Message, rows' = rows,
               sync[s] = ST("existing", n, l, list),
               sync'[s] = ST("store", n, l, {k \in list : rows[k][l] = 0})
        PROVE  KnownSync(s)'
    <3> DEFINE new == {k \in list : rows[k][l] = 0}
    <3>1. list \subseteq provider
      BY <1>2, <2>2, STFacts DEF KnownSync
    <3>2. new \in SUBSET Message /\ new \subseteq provider /\ sync'[s] = ST("store", n, l, new)
      BY <2>2, <3>1
    <3> HIDE DEF new
    <3> QED
      BY <1>1, <3>2, STFacts DEF KnownSync
  <2>3. ASSUME NEW n \in Message \cup {Nobody}, NEW list \in SUBSET Message, m \in list,
               sync[s] = ST("store", n, l, list), AddRow(m, l),
               sync'[s] = ST(IF m \in Incoming THEN "emit" ELSE "store", m, l, list \ {m})
        PROVE  KnownSync(s)' /\ m \in provider
    <3>1. list \subseteq provider
      BY <1>2, <2>3, STFacts DEF KnownSync
    <3>2. CASE m \in Incoming
      <4>1. sync'[s] = ST("emit", m, l, list \ {m}) /\ list \ {m} \in SUBSET Message
        BY <2>3, <3>2
      <4> QED
        BY <1>1, <2>3, <3>1, <3>2, <4>1, STFacts DEF KnownSync
    <3>3. CASE m \notin Incoming
      <4>1. sync'[s] = ST("store", m, l, list \ {m}) /\ list \ {m} \in SUBSET Message
        BY <2>3, <3>3
      <4> QED
        BY <1>1, <2>3, <3>1, <4>1, STFacts DEF KnownSync
    <3> QED
      BY <3>2, <3>3
  <2>4. ASSUME NEW list \in SUBSET Message, m \in Message, rows' = rows,
               sync[s] = ST("emit", m, l, list), sync'[s] = ST("store", m, l, list)
        PROVE  KnownSync(s)'
    BY <1>1, <1>2, <2>4, STFacts DEF KnownSync
  <2>5. CASE sync'[s] = Free /\ rows' = rows
    BY <2>5 DEF KnownSync
  <2> QED
    BY <1>1, <2>1, <2>2, <2>3, <2>4, <2>5 DEF SyncMoves
<1>4. \A k \in Sync : KnownSync(k)'
  BY <1>1, <1>3 DEF MessagesAreKnown, KnownSync, OtherSyncsStay
<1>5. \A h \in Hook : KnownHook(h)'
  BY <1>1 DEF MessagesAreKnown, KnownHook
<1>6. \A n \in Message : KnownMessage(n)'
  <2>1. \A n \in Message : n \notin provider => \A k \in Lead : rows'[n][k] = rows[n][k]
    BY <1>3, AddRowType DEF TypeOK
  <2> QED
    BY <1>1, <2>1 DEF MessagesAreKnown, KnownMessage
<1> QED
  BY <1>4, <1>5, <1>6 DEF MessagesAreKnown

LEMMA OtherKnown ==
  ASSUME TypeOK, OtherStep, MessagesAreKnown
  PROVE  MessagesAreKnown'
<1>1. UNCHANGED <<hook, sync>> /\ provider \subseteq provider'
  BY DEF OtherStep
<1>2. (\A h \in Hook : KnownHook(h)') /\ \A s \in Sync : KnownSync(s)'
  BY <1>1 DEF MessagesAreKnown, KnownHook, KnownSync
<1>3. ASSUME NEW n \in Message PROVE KnownMessage(n)'
  <2>1. KnownMessage(n)
    BY DEF MessagesAreKnown
  <2>2. CASE UNCHANGED <<fromCrm, sending, rows>>
    BY <1>1, <2>1, <2>2 DEF KnownMessage
  <2>3. ASSUME NEW m \in Message \ Incoming, NEW l \in Lead, m \notin provider,
               provider' = provider \cup {m}, fromCrm' = fromCrm \cup {m},
               sending' = [sending EXCEPT ![m] = l], rows' = rows
        PROVE  KnownMessage(n)'
    BY <2>1, <2>3 DEF KnownMessage, TypeOK
  <2>4. ASSUME NEW m \in Message, NEW l \in Lead, sending[m] = l, AddRow(m, l),
               sending' = [sending EXCEPT ![m] = Nobody], UNCHANGED <<provider, fromCrm>>
        PROVE  KnownMessage(n)'
    <3>1. m \in provider
      BY <2>4, InboundAssumption DEF MessagesAreKnown, KnownMessage, TypeOK
    <3>2. n \notin provider => \A k \in Lead : rows'[n][k] = rows[n][k]
      BY <2>4, <3>1, AddRowType
    <3> QED
      BY <2>1, <2>4, <3>2 DEF KnownMessage, TypeOK
  <2> QED
    BY <2>2, <2>3, <2>4 DEF OtherStep
<1> QED
  BY <1>2, <1>3 DEF MessagesAreKnown

LEMMA NextKnown ==
  ASSUME TypeOK, [Next]_vars, MessagesAreKnown
  PROVE  MessagesAreKnown'
BY NextCases, HookKnown, SyncKnown, OtherKnown

-----------------------------------------------------------------------------
(* First answers *)

(* A lead that was contacted has a row, and a second one when somebody is   *)
(* about to count.                                                         *)
Counting(h, l) == \E m \in Message : hook[h] \in {HT("emit", m, l), HT("count", m, l)}
Answered(l) ==
  /\ \A h \in Hook : Counting(h, l) => HasInbound(l)
  /\ \A h, k \in Hook : h # k /\ Counting(h, l) /\ Counting(k, l) => ~IsFirst(l)
  /\ contacted[l] <= 1
  /\ contacted[l] = 1 => HasInbound(l) /\ \A h \in Hook : Counting(h, l) => ~IsFirst(l)
AnswersAreCounted == \A l \in Lead : Answered(l)

LEMMA RowAdded ==
  ASSUME TypeOK, NEW m \in Message, NEW l \in Lead, AddRow(m, l), NEW k \in Lead
  PROVE  /\ k # l \/ m \notin Incoming =>
              (HasInbound(k)' <=> HasInbound(k)) /\ (IsFirst(k)' <=> IsFirst(k))
         /\ k = l /\ m \in Incoming =>
              /\ HasInbound(k)' /\ (HasInbound(k) => ~IsFirst(k)')
              /\ (~HasInbound(k) => IsFirst(k)')
<1>1. /\ rows'[m][l] = rows[m][l] + 1 /\ rows[m][l] \in Nat
      /\ \A n \in Message, x \in Lead : n # m \/ x # l => rows'[n][x] = rows[n][x]
      /\ \A n \in Incoming : n \in Message /\ rows[n][k] \in Nat
  BY AddRowType, InboundAssumption DEF TypeOK
<1>2. ASSUME k # l \/ m \notin Incoming
      PROVE  (HasInbound(k)' <=> HasInbound(k)) /\ (IsFirst(k)' <=> IsFirst(k))
  <2>1. \A n \in Incoming : rows'[n][k] = rows[n][k]
    BY <1>1, <1>2
  <2> QED
    BY <2>1 DEF HasInbound, IsFirst
<1>3. ASSUME k = l, m \in Incoming
      PROVE  /\ HasInbound(k)' /\ (HasInbound(k) => ~IsFirst(k)')
             /\ (~HasInbound(k) => IsFirst(k)')
  <2>1. HasInbound(k)'
    BY <1>1, <1>3 DEF HasInbound
  <2>2. HasInbound(k) => ~IsFirst(k)'
    <3> SUFFICES ASSUME HasInbound(k), IsFirst(k)' PROVE FALSE
      OBVIOUS
    <3>1. PICK n \in Incoming : rows[n][k] > 0
      BY DEF HasInbound
    <3>2. PICK p \in Incoming : rows'[p][k] = 1 /\ \A q \in Incoming \ {p} : rows'[q][k] = 0
      BY DEF IsFirst
    <3>3. p = m
      BY <1>1, <1>3, <3>2
    <3>4. rows[m][k] = 0
      BY <1>1, <1>3, <3>2, <3>3
    <3> QED
      BY <1>1, <1>3, <3>1, <3>2, <3>3, <3>4
  <2>3. ~HasInbound(k) => IsFirst(k)'
    <3> SUFFICES ASSUME ~HasInbound(k) PROVE IsFirst(k)'
      OBVIOUS
    <3>1. \A n \in Incoming : rows[n][k] = 0
      BY <1>1 DEF HasInbound
    <3> QED
      BY <1>1, <1>3, <3>1 DEF IsFirst
  <2> QED
    BY <2>1, <2>2, <2>3
<1> QED
  BY <1>2, <1>3

LEMMA CountingAt ==
  ASSUME NEW h \in Hook, NEW x \in Lead
  PROVE  /\ hook[h] = Free => ~Counting(h, x)
         /\ hook'[h] = Free => ~Counting(h, x)'
         /\ \A a \in Early \cup Late, m \in Message, l \in Lead \cup {Nobody} :
              /\ hook[h] = HT(a, m, l) => (Counting(h, x) <=> a \in {"emit", "count"} /\ l = x)
              /\ hook'[h] = HT(a, m, l) => (Counting(h, x)' <=> a \in {"emit", "count"} /\ l = x)
<1>1. "emit" \in Late /\ "count" \in Late
  BY DEF Late
<1>2. /\ hook[h] = Free => ~Counting(h, x)
      /\ hook'[h] = Free => ~Counting(h, x)'
  BY <1>1, HTFacts DEF Counting
<1>3. ASSUME NEW a \in Early \cup Late, NEW m \in Message, NEW l \in Lead \cup {Nobody}
      PROVE  /\ hook[h] = HT(a, m, l) => (Counting(h, x) <=> a \in {"emit", "count"} /\ l = x)
             /\ hook'[h] = HT(a, m, l) => (Counting(h, x)' <=> a \in {"emit", "count"} /\ l = x)
  BY <1>1, HTFacts DEF Counting
<1> QED
  BY <1>2, <1>3

LEMMA AnsweredKept ==
  ASSUME NEW x \in Lead, Answered(x), HasInbound(x)' <=> HasInbound(x), IsFirst(x)' <=> IsFirst(x),
         contacted'[x] = contacted[x], \A k \in Hook : Counting(k, x)' => Counting(k, x)
  PROVE  Answered(x)'
BY DEF Answered

LEMMA HookAnswered ==
  ASSUME TypeOK, NEW h \in Hook, NEW m \in Message, NEW l \in Lead \cup {Nobody},
         HookEffect(h, m, l), MessagesAreKnown, AnswersAreCounted
  PROVE  AnswersAreCounted'
<1> SUFFICES ASSUME NEW x \in Lead PROVE Answered(x)'
  BY DEF AnswersAreCounted
<1>1. OtherHooksStay(h) /\ HookMoves(h, m, l) /\ Answered(x) /\ contacted[x] \in Nat
  BY DEF HookEffect, AnswersAreCounted, TypeOK
<1>2. \A k \in Hook : k # h => (Counting(k, x)' <=> Counting(k, x))
  BY <1>1 DEF OtherHooksStay, Counting
<1>3. rows' = rows => (HasInbound(x)' <=> HasInbound(x)) /\ (IsFirst(x)' <=> IsFirst(x))
  BY DEF HasInbound, IsFirst
<1>4. CASE /\ rows' = rows /\ contacted' = contacted
           /\ hook'[h] = Free \/ \E a \in Early \cup {"storeOut", "store"}, k \in Lead \cup {Nobody} :
                                   hook'[h] = HT(a, m, k)
  <2>1. ~Counting(h, x)'
    BY <1>4, CountingAt DEF Early, Late
  <2> QED
    BY <1>1, <1>2, <1>3, <1>4, <2>1, AnsweredKept
<1>5. CASE l \in Lead /\ hook[h] = HT("emit", m, l) /\ hook'[h] = HT("count", m, l)
           /\ rows' = rows /\ contacted' = contacted
  <2>1. Counting(h, x)' => Counting(h, x)
    BY <1>5, CountingAt DEF Late
  <2> QED
    BY <1>1, <1>2, <1>3, <1>5, <2>1, AnsweredKept
<1>6. CASE l \in Lead /\ hook[h] = HT("storeOut", m, l) /\ hook'[h] = Free
           /\ AddRow(m, l) /\ contacted' = contacted
  <2>1. m \notin Incoming
    BY <1>6, KnownHTs DEF Late
  <2> QED
    BY <1>1, <1>2, <1>6, <2>1, RowAdded, CountingAt, AnsweredKept
<1>7. CASE l \in Lead /\ hook[h] = HT("store", m, l) /\ hook'[h] = HT("emit", m, l)
           /\ AddRow(m, l) /\ contacted' = contacted
  <2>1. m \in Incoming
    BY <1>7, KnownHTs DEF Late
  <2>2. CASE x # l
    <3>1. ~Counting(h, x)'
      BY <1>7, <2>2, CountingAt DEF Late
    <3>2. (HasInbound(x)' <=> HasInbound(x)) /\ (IsFirst(x)' <=> IsFirst(x))
      BY <1>7, <2>2, RowAdded
    <3> QED
      BY <1>1, <1>2, <1>7, <3>1, <3>2, AnsweredKept
  <2>3. CASE x = l
    <3>1. HasInbound(x)' /\ (HasInbound(x) => ~IsFirst(x)')
      BY <1>7, <2>1, <2>3, RowAdded
    <3>2. \A k \in Hook : k # h /\ Counting(k, x)' => ~IsFirst(x)'
      BY <1>1, <1>2, <3>1 DEF Answered
    <3>3. contacted'[x] <= 1 /\ (contacted'[x] = 1 => ~IsFirst(x)')
      BY <1>1, <1>7, <3>1 DEF Answered
    <3> QED
      BY <3>1, <3>2, <3>3 DEF Answered
  <2> QED
    BY <2>2, <2>3
<1>8. CASE /\ l \in Lead /\ hook[h] = HT("count", m, l) /\ hook'[h] = Free /\ rows' = rows
           /\ contacted' = IF IsFirst(l) THEN [contacted EXCEPT ![l] = @ + 1] ELSE contacted
  <2>1. ~Counting(h, x)' /\ (Counting(h, x) <=> x = l)
    BY <1>8, CountingAt DEF Late
  <2>2. CASE x # l \/ ~IsFirst(l)
    <3>1. contacted'[x] = contacted[x]
      BY <1>8, <2>2 DEF TypeOK
    <3> QED
      BY <1>1, <1>2, <1>3, <1>8, <2>1, <3>1, AnsweredKept
  <2>3. CASE x = l /\ IsFirst(l)
    <3>1. contacted[x] = 0 /\ contacted'[x] = 1 /\ HasInbound(x)
      <4>1. contacted[x] # 1 /\ HasInbound(x) /\ contacted[x] <= 1
        BY <1>1, <2>1, <2>3 DEF Answered
      <4>2. contacted'[x] = contacted[x] + 1
        BY <1>8, <2>3 DEF TypeOK
      <4> QED
        BY <1>1, <4>1, <4>2
    <3>2. \A k \in Hook : ~Counting(k, x)'
      <4>1. \A k \in Hook : k # h => ~Counting(k, x)
        BY <1>1, <2>1, <2>3 DEF Answered
      <4> QED
        BY <1>2, <2>1, <4>1
    <3> QED
      BY <1>3, <1>8, <3>1, <3>2 DEF Answered
  <2> QED
    BY <2>2, <2>3
<1>9. CASE hook'[h] = HT(IF m \in Incoming THEN "find" ELSE "check", m, Nobody)
           /\ rows' = rows /\ contacted' = contacted
  BY <1>4, <1>9 DEF Early
<1>10. CASE hook'[h] = (IF Stored(m) THEN Free ELSE HT("match", m, Nobody))
            /\ rows' = rows /\ contacted' = contacted
  BY <1>4, <1>10 DEF Early
<1> QED
  BY <1>1, <1>4, <1>5, <1>6, <1>7, <1>8, <1>9, <1>10 DEF HookMoves, events, Early

(* A sync, or the CRM's own record of what it sent. *)
LEMMA RowAnswered ==
  ASSUME TypeOK, NEW m \in Message, NEW l \in Lead, AddRow(m, l), AnswersAreCounted,
         UNCHANGED <<hook, contacted>>
  PROVE  AnswersAreCounted'
<1> SUFFICES ASSUME NEW x \in Lead PROVE Answered(x)'
  BY DEF AnswersAreCounted
<1>1. Answered(x) /\ \A k \in Hook : Counting(k, x)' <=> Counting(k, x)
  BY DEF AnswersAreCounted, Counting
<1>2. CASE x # l \/ m \notin Incoming
  BY <1>1, <1>2, RowAdded, AnsweredKept
<1>3. CASE x = l /\ m \in Incoming
  <2>1. HasInbound(x)' /\ (HasInbound(x) => ~IsFirst(x)')
    BY <1>3, RowAdded
  <2> QED
    BY <1>1, <2>1 DEF Answered
<1> QED
  BY <1>2, <1>3

LEMMA NextAnswered ==
  ASSUME TypeOK, [Next]_vars, MessagesAreKnown, AnswersAreCounted
  PROVE  AnswersAreCounted'
<1>1. ASSUME UNCHANGED <<rows, hook, contacted>> PROVE AnswersAreCounted'
  BY <1>1 DEF AnswersAreCounted, Answered, Counting, HasInbound, IsFirst
<1>2. ASSUME NEW s \in Sync, NEW m \in Message \cup {Nobody}, NEW l \in Lead, SyncEffect(s, m, l)
      PROVE  AnswersAreCounted'
  <2>1. UNCHANGED <<hook, contacted>> /\ (rows' = rows \/ (m \in Message /\ AddRow(m, l)))
    BY <1>2 DEF SyncEffect, SyncMoves
  <2> QED
    BY <1>1, <2>1, RowAnswered
<1>3. CASE OtherStep
  <2>1. /\ UNCHANGED <<hook, contacted>>
        /\ rows' = rows \/ \E m \in Message, l \in Lead : AddRow(m, l)
    BY <1>3 DEF OtherStep, events
  <2> QED
    BY <1>1, <2>1, RowAnswered
<1> QED
  BY <1>2, <1>3, NextCases, HookAnswered

-----------------------------------------------------------------------------
(* Requests one after the other *)

OneAtATime ==
  /\ \A h, k \in Hook : hook[h] # Free /\ hook[k] # Free => h = k
  /\ \A s, k \in Sync : sync[s] # Free /\ sync[k] # Free => s = k
  /\ \A h \in Hook, s \in Sync : hook[h] = Free \/ sync[s] = Free
Singly == ~raced => OneAtATime

LEMMA NotedRace ==
  NoteRace /\ ~raced' => ~raced /\ Quiet
BY Zenon DEF NoteRace

(* Without a race, a request goes on alone, and starts when nothing is in   *)
(* progress.                                                               *)
LEMMA HookAlone ==
  ASSUME TypeOK, NEW h \in Hook, NEW m \in Message, NEW l \in Lead \cup {Nobody},
         HookEffect(h, m, l), Singly, ~raced'
  PROVE  /\ ~raced /\ \A k \in Hook : k # h => hook[k] = Free /\ hook'[k] = Free
         /\ \A s \in Sync : sync[s] = Free /\ sync'[s] = Free
         /\ hook[h] = Free => Quiet
<1>1. OtherHooksStay(h) /\ sync' = sync /\ HookMoves(h, m, l)
  BY DEF HookEffect
<1>2. "check" \in Early /\ "match" \in Early /\ "find" \in Early /\ "create" \in Early
  BY DEF Early
<1>3. "storeOut" \in Late /\ "store" \in Late /\ "emit" \in Late /\ "count" \in Late
  BY DEF Late
<1>4. (NoteRace /\ hook[h] = Free) \/ (raced' = raced /\ hook[h] # Free)
  BY <1>1, <1>2, <1>3, HTFacts DEF HookMoves
<1>5. CASE NoteRace /\ hook[h] = Free
  BY <1>1, <1>5, NotedRace DEF Quiet, OtherHooksStay
<1>6. CASE raced' = raced /\ hook[h] # Free
  BY <1>1, <1>6 DEF Singly, OneAtATime, OtherHooksStay
<1> QED
  BY <1>4, <1>5, <1>6

LEMMA SyncAlone ==
  ASSUME TypeOK, NEW s \in Sync, NEW m \in Message \cup {Nobody}, NEW l \in Lead,
         SyncEffect(s, m, l), Singly, ~raced'
  PROVE  /\ ~raced /\ \A k \in Sync : k # s => sync[k] = Free /\ sync'[k] = Free
         /\ \A h \in Hook : hook[h] = Free /\ hook'[h] = Free
<1>1. OtherSyncsStay(s) /\ hook' = hook /\ SyncMoves(s, m, l)
  BY DEF SyncEffect
<1>2. NoteRace \/ (raced' = raced /\ sync[s] # Free)
  <2>1. \A a, n, list : ST(a, n, l, list) # Free
    BY DEF ST, Free
  <2> QED
    BY <1>1, <2>1 DEF SyncMoves
<1>3. CASE NoteRace
  BY <1>1, <1>3, NotedRace DEF Quiet, OtherSyncsStay
<1>4. CASE raced' = raced /\ sync[s] # Free
  BY <1>1, <1>4 DEF Singly, OneAtATime, OtherSyncsStay
<1> QED
  BY <1>2, <1>3, <1>4

LEMMA NextSingly ==
  ASSUME TypeOK, [Next]_vars, Singly
  PROVE  Singly'
<1> SUFFICES ASSUME ~raced' PROVE OneAtATime'
  BY DEF Singly
<1>1. ASSUME NEW h \in Hook, NEW m \in Message, NEW l \in Lead \cup {Nobody}, HookEffect(h, m, l)
      PROVE  OneAtATime'
  BY <1>1, HookAlone DEF OneAtATime
<1>2. ASSUME NEW s \in Sync, NEW m \in Message \cup {Nobody}, NEW l \in Lead, SyncEffect(s, m, l)
      PROVE  OneAtATime'
  BY <1>2, SyncAlone DEF OneAtATime
<1>3. CASE OtherStep
  BY <1>3 DEF OtherStep, budgets, Singly, OneAtATime
<1> QED
  BY <1>1, <1>2, <1>3, NextCases

-----------------------------------------------------------------------------
(* One lead for a contact *)

MetOnce(c) ==
  /\ auto[c] <= 1 /\ (auto[c] > 0 => LeadsOf(c) # {})
  /\ \A h \in Hook, m \in Message :
       hook[h] = HT("create", m, Nobody) /\ ContactOf[m] = c => auto[c] = 0
MetInOrder == ~raced => \A c \in Contact : MetOnce(c)

LEMMA HookMet ==
  ASSUME TypeOK, NEW h \in Hook, NEW m \in Message, NEW l \in Lead \cup {Nobody},
         HookEffect(h, m, l), Singly, MetInOrder
  PROVE  MetInOrder'
<1> SUFFICES ASSUME ~raced', NEW c \in Contact PROVE MetOnce(c)'
  BY DEF MetInOrder
<1>1. /\ ~raced /\ HookMoves(h, m, l) /\ MetOnce(c) /\ auto[c] \in Nat
      /\ \A k \in Hook : k # h => hook'[k] = Free
  BY HookAlone DEF HookEffect, MetInOrder, TypeOK
<1>2. "create" \in Early /\ "match" \in Early /\ "find" \in Early /\ "check" \in Early
  BY DEF Early
<1>3. \A a \in Late : a # "create"
  BY DEF Late
<1>4. contact' = contact => (LeadsOf(c)' = LeadsOf(c))
  BY DEF LeadsOf
<1>5. CASE /\ hook[h] = HT("create", m, Nobody) /\ l \in Lead /\ contact[l] = Nobody
           /\ hook'[h] = HT("store", m, l)
           /\ contact' = [contact EXCEPT ![l] = ContactOf[m]]
           /\ auto' = [auto EXCEPT ![ContactOf[m]] = @ + 1]
  <2>1. \A k \in Hook, n \in Message : hook'[k] # HT("create", n, Nobody)
    <3>1. "store" \in Late
      BY DEF Late
    <3>2. \A n \in Message : hook'[h] # HT("create", n, Nobody)
      BY <1>2, <1>5, <3>1, HTFacts
    <3>3. \A n \in Message : Free # HT("create", n, Nobody)
      BY <1>2, HTFacts
    <3> QED
      BY <1>1, <3>2, <3>3
  <2>2. CASE c = ContactOf[m]
    <3>1. auto[c] = 0 /\ auto'[c] = 1
      BY <1>1, <1>5, <2>2 DEF MetOnce, TypeOK
    <3>2. l \in LeadsOf(c)'
      BY <1>5, <2>2 DEF LeadsOf, TypeOK
    <3> QED
      BY <2>1, <3>1, <3>2 DEF MetOnce
  <2>3. CASE c # ContactOf[m]
    <3>1. auto'[c] = auto[c]
      BY <1>5, <2>3 DEF TypeOK
    <3>2. LeadsOf(c) \subseteq LeadsOf(c)'
      BY <1>5, InboundAssumption DEF LeadsOf, TypeOK
    <3> QED
      BY <1>1, <2>1, <3>1, <3>2 DEF MetOnce
  <2> QED
    BY <2>2, <2>3
<1>6. CASE /\ hook[h] = HT("find", m, Nobody) /\ LeadsOf(ContactOf[m]) = {}
           /\ hook'[h] = HT("create", m, Nobody) /\ contact' = contact /\ auto' = auto
  <2>1. ContactOf[m] = c => auto[c] = 0
    BY <1>1, <1>6 DEF MetOnce
  <2>2. \A k \in Hook, n \in Message : hook'[k] = HT("create", n, Nobody) => n = m
    BY <1>1, <1>2, <1>6, HTFacts
  <2> QED
    BY <1>1, <1>4, <1>6, <2>1, <2>2 DEF MetOnce
<1>7. CASE /\ contact' = contact /\ auto' = auto
           /\ \A n \in Message : hook'[h] # HT("create", n, Nobody)
  <2>1. \A k \in Hook, n \in Message : hook'[k] # HT("create", n, Nobody)
    BY <1>1, <1>2, <1>7, HTFacts
  <2> QED
    BY <1>1, <1>4, <1>7, <2>1 DEF MetOnce
<1>8. \/ hook'[h] = Free
      \/ \E a \in {"check", "match", "find"} : hook'[h] = HT(a, m, Nobody)
      \/ \E a \in Late : l \in Lead /\ hook'[h] = HT(a, m, l)
      => \A n \in Message : hook'[h] # HT("create", n, Nobody)
  BY <1>2, <1>3, HTFacts
<1> QED
  <2>1. \/ hook'[h] = Free
        \/ \E a \in {"check", "match", "find"} : hook'[h] = HT(a, m, Nobody)
        \/ \E a \in Late : l \in Lead /\ hook'[h] = HT(a, m, l)
        \/ hook[h] = HT("find", m, Nobody) /\ hook'[h] = HT("create", m, Nobody)
             /\ LeadsOf(ContactOf[m]) = {}
    <3>1. CASE hook'[h] = HT(IF m \in Incoming THEN "find" ELSE "check", m, Nobody)
      BY <3>1
    <3>2. CASE hook'[h] = (IF Stored(m) THEN Free ELSE HT("match", m, Nobody))
      BY <3>2
    <3> QED
      BY <1>1, <3>1, <3>2 DEF HookMoves, Late
  <2>2. \/ contact' = contact /\ auto' = auto
        \/ /\ hook[h] = HT("create", m, Nobody) /\ l \in Lead /\ contact[l] = Nobody
           /\ hook'[h] = HT("store", m, l)
           /\ contact' = [contact EXCEPT ![l] = ContactOf[m]]
           /\ auto' = [auto EXCEPT ![ContactOf[m]] = @ + 1]
    BY <1>1 DEF HookMoves, events
  <2> QED
    BY <1>5, <1>6, <1>7, <1>8, <2>1, <2>2

LEMMA NextMet ==
  ASSUME TypeOK, [Next]_vars, Singly, MetInOrder
  PROVE  MetInOrder'
<1>1. ASSUME NEW s \in Sync, NEW m \in Message \cup {Nobody}, NEW l \in Lead, SyncEffect(s, m, l)
      PROVE  MetInOrder'
  <2>1. ~raced' => ~raced
    BY <1>1, SyncAlone
  <2> QED
    BY <1>1, <2>1 DEF SyncEffect, MetInOrder, MetOnce, LeadsOf
<1>2. CASE OtherStep
  <2>1. UNCHANGED <<hook, auto, raced>>
    BY <1>2 DEF OtherStep, events, budgets
  <2>2. \A c \in Contact : LeadsOf(c) \subseteq LeadsOf(c)'
    BY <1>2, InboundAssumption DEF OtherStep, LeadsOf, TypeOK
  <2> QED
    BY <2>1, <2>2 DEF MetInOrder, MetOnce
<1> QED
  BY <1>1, <1>2, NextCases, HookMet

-----------------------------------------------------------------------------
(* Outgoing messages *)

(* The rows the CRM recorded for its own send of m. *)
Recorded(m) == IF m \in fromCrm /\ sending[m] = Nobody THEN 1 ELSE 0

(* Only the CRM has stored m for the lead, and somebody is about to. *)
Matching(h, m) ==
  \E k \in Lead \cup {Nobody} : hook[h] \in {HT("match", m, k), HT("storeOut", m, k)}
Listed(s, m, l) ==
  sync[s] # Free /\ sync[s].at # "existing" /\ sync[s].lead = l /\ m \in sync[s].list
Missing(m, l) == (\E h \in Hook : Matching(h, m)) \/ (\E s \in Sync : Listed(s, m, l))

StoredOnce(m, l) ==
  /\ rows[m][l] <= Recorded(m) + 1
  /\ Missing(m, l) => rows[m][l] <= Recorded(m)
OutInOrder == ~raced => \A m \in Message \ Incoming, l \in Lead : StoredOnce(m, l)

LEMMA RecordedType ==
  ASSUME NEW m
  PROVE  Recorded(m) \in {0, 1}
BY DEF Recorded

LEMMA MatchingAt ==
  ASSUME NEW h \in Hook, NEW m \in Message
  PROVE  /\ hook[h] = Free => ~Matching(h, m)
         /\ hook'[h] = Free => ~Matching(h, m)'
         /\ \A a \in Early \cup Late, n \in Message, l \in Lead \cup {Nobody} :
              /\ hook[h] = HT(a, n, l) => (Matching(h, m) <=> a \in {"match", "storeOut"} /\ n = m)
              /\ hook'[h] = HT(a, n, l) => (Matching(h, m)' <=> a \in {"match", "storeOut"} /\ n = m)
<1>1. "match" \in Early \cup Late /\ "storeOut" \in Early \cup Late
  BY DEF Early, Late
<1>2. /\ hook[h] = Free => ~Matching(h, m)
      /\ hook'[h] = Free => ~Matching(h, m)'
  BY <1>1, HTFacts DEF Matching
<1>3. ASSUME NEW a \in Early \cup Late, NEW n \in Message, NEW l \in Lead \cup {Nobody}
      PROVE  /\ hook[h] = HT(a, n, l) => (Matching(h, m) <=> a \in {"match", "storeOut"} /\ n = m)
             /\ hook'[h] = HT(a, n, l) => (Matching(h, m)' <=> a \in {"match", "storeOut"} /\ n = m)
  BY <1>1, HTFacts DEF Matching
<1> QED
  BY <1>2, <1>3

LEMMA HookStoredOnce ==
  ASSUME TypeOK, NEW h \in Hook, NEW n \in Message, NEW k \in Lead \cup {Nobody},
         HookEffect(h, n, k), Singly, MessagesAreKnown, OutInOrder
  PROVE  OutInOrder'
<1> SUFFICES ASSUME ~raced', NEW m \in Message \ Incoming, NEW l \in Lead
             PROVE  StoredOnce(m, l)'
  BY DEF OutInOrder
<1>1. /\ StoredOnce(m, l) /\ Recorded(m)' = Recorded(m) /\ HookMoves(h, n, k)
      /\ rows[m][l] \in Nat /\ Recorded(m) \in {0, 1}
  BY HookAlone, RecordedType DEF HookEffect, OutInOrder, Recorded, TypeOK
<1>2. Missing(m, l)' <=> Matching(h, m)'
  BY HookAlone, MatchingAt DEF Missing, Listed
<1>3. Matching(h, m) => Missing(m, l)
  BY DEF Missing
<1>4. /\ "check" \in Early \cup Late /\ "match" \in Early \cup Late /\ "find" \in Early \cup Late
      /\ "create" \in Early \cup Late /\ "storeOut" \in Early \cup Late
      /\ "store" \in Early \cup Late /\ "emit" \in Early \cup Late /\ "count" \in Early \cup Late
  BY DEF Early, Late
<1>5. CASE rows' = rows /\ (Matching(h, m)' => Matching(h, m) \/ rows[m][l] = 0)
  BY <1>1, <1>2, <1>3, <1>5 DEF StoredOnce
<1>6. CASE k \in Lead /\ hook[h] = HT("storeOut", n, k) /\ hook'[h] = Free /\ AddRow(n, k)
  <2>1. ~Missing(m, l)'
    BY <1>2, <1>6, MatchingAt
  <2>2. CASE n = m /\ k = l
    <3>1. Missing(m, l) /\ rows'[m][l] = rows[m][l] + 1
      BY <1>3, <1>4, <1>6, <2>2, MatchingAt, AddRowType
    <3> QED
      BY <1>1, <2>1, <3>1 DEF StoredOnce
  <2>3. CASE n # m \/ k # l
    <3>1. rows'[m][l] = rows[m][l]
      BY <1>6, <2>3, AddRowType
    <3> QED
      BY <1>1, <2>1, <3>1 DEF StoredOnce
  <2> QED
    BY <2>2, <2>3
<1>7. CASE k \in Lead /\ hook[h] = HT("store", n, k) /\ hook'[h] = HT("emit", n, k) /\ AddRow(n, k)
  <2>1. n # m
    BY <1>4, <1>7, KnownHTs
  <2>2. rows'[m][l] = rows[m][l] /\ ~Missing(m, l)'
    BY <1>2, <1>4, <1>7, <2>1, MatchingAt, AddRowType
  <2> QED
    BY <1>1, <2>2 DEF StoredOnce
<1>8. CASE rows' = rows /\ hook[h] = HT("check", n, Nobody)
           /\ hook'[h] = IF Stored(n) THEN Free ELSE HT("match", n, Nobody)
  <2>1. ~Stored(m) => rows[m][l] = 0
    BY <1>1 DEF Stored
  <2>2. Matching(h, m)' => ~Stored(m)
    BY <1>4, <1>8, MatchingAt
  <2> QED
    BY <1>5, <1>8, <2>1, <2>2
<1>9. CASE rows' = rows /\ hook'[h] = HT(IF n \in Incoming THEN "find" ELSE "check", n, Nobody)
  <2>1. ~Matching(h, m)'
    BY <1>4, <1>9, MatchingAt
  <2> QED
    BY <1>5, <1>9, <2>1
<1>10. CASE rows' = rows /\ hook[h] = HT("match", n, Nobody) /\ hook'[h] = HT("storeOut", n, k)
  <2>1. Matching(h, m)' => Matching(h, m)
    BY <1>4, <1>10, MatchingAt
  <2> QED
    BY <1>5, <1>10, <2>1
<1>11. CASE rows' = rows /\ (hook'[h] = Free \/ \E a \in {"create", "store", "count"} : hook'[h] = HT(a, n, k)
                             \/ hook'[h] = HT("create", n, Nobody))
  <2>1. ~Matching(h, m)'
    BY <1>4, <1>11, MatchingAt
  <2> QED
    BY <1>5, <1>11, <2>1
<1> QED
  BY <1>1, <1>6, <1>7, <1>8, <1>9, <1>10, <1>11 DEF HookMoves

LEMMA SyncStoredOnce ==
  ASSUME TypeOK, NEW s \in Sync, NEW n \in Message \cup {Nobody}, NEW k \in Lead,
         SyncEffect(s, n, k), Singly, OutInOrder
  PROVE  OutInOrder'
<1> SUFFICES ASSUME ~raced', NEW m \in Message \ Incoming, NEW l \in Lead
             PROVE  StoredOnce(m, l)'
  BY DEF OutInOrder
<1>1. /\ StoredOnce(m, l) /\ Recorded(m)' = Recorded(m) /\ SyncMoves(s, n, k)
      /\ rows[m][l] \in Nat /\ Recorded(m) \in {0, 1}
  <2>1. ~raced
    BY SyncAlone
  <2>2. UNCHANGED <<fromCrm, sending>> /\ SyncMoves(s, n, k)
    BY DEF SyncEffect
  <2>3. Recorded(m)' = Recorded(m)
    BY <2>2 DEF Recorded
  <2> QED
    BY <2>1, <2>2, <2>3, RecordedType DEF OutInOrder, TypeOK
<1>2. Missing(m, l)' <=> Listed(s, m, l)'
  BY SyncAlone, MatchingAt DEF Missing, Listed
<1>3. Listed(s, m, l) => Missing(m, l)
  BY DEF Missing
<1>4. \A a \in {"existing", "store", "emit"}, x \in Message \cup {Nobody}, y \in Lead, list \in SUBSET Message :
        /\ sync[s] = ST(a, x, y, list) => (Listed(s, m, l) <=> a # "existing" /\ y = l /\ m \in list)
        /\ sync'[s] = ST(a, x, y, list) => (Listed(s, m, l)' <=> a # "existing" /\ y = l /\ m \in list)
  <2> SUFFICES ASSUME NEW a \in {"existing", "store", "emit"}, NEW x \in Message \cup {Nobody},
                      NEW y \in Lead, NEW list \in SUBSET Message
               PROVE  /\ sync[s] = ST(a, x, y, list) =>
                           (Listed(s, m, l) <=> a # "existing" /\ y = l /\ m \in list)
                      /\ sync'[s] = ST(a, x, y, list) =>
                           (Listed(s, m, l)' <=> a # "existing" /\ y = l /\ m \in list)
    OBVIOUS
  <2> DEFINE t == ST(a, x, y, list)
  <2>1. t # Free /\ t.at = a /\ t.lead = y /\ t.list = list
    BY DEF ST, Free
  <2> HIDE DEF t
  <2>2. sync[s] = t => (Listed(s, m, l) <=> a # "existing" /\ y = l /\ m \in list)
    BY <2>1 DEF Listed
  <2>3. sync'[s] = t => (Listed(s, m, l)' <=> a # "existing" /\ y = l /\ m \in list)
    BY <2>1 DEF Listed
  <2> QED
    BY <2>2, <2>3 DEF t
<1>5. CASE rows' = rows /\ (Listed(s, m, l)' => Listed(s, m, l) \/ rows[m][l] = 0)
  BY <1>1, <1>2, <1>3, <1>5 DEF StoredOnce
<1>6. CASE Begun(s, k) /\ rows' = rows
  <2>1. sync'[s].at = "existing"
    BY <1>6 DEF Begun, ST
  <2> QED
    BY <1>5, <1>6, <2>1 DEF Listed
<1>7. ASSUME NEW x \in Message \cup {Nobody}, NEW list \in SUBSET Message, rows' = rows,
             sync[s] = ST("existing", x, k, list),
             sync'[s] = ST("store", x, k, {y \in list : rows[y][k] = 0})
      PROVE  StoredOnce(m, l)'
  <2> DEFINE new == {y \in list : rows[y][k] = 0}
  <2>1. new \in SUBSET Message /\ sync'[s] = ST("store", x, k, new) /\ (m \in new => rows[m][k] = 0)
    BY <1>7
  <2> HIDE DEF new
  <2>2. Listed(s, m, l)' => rows[m][l] = 0
    BY <1>4, <2>1
  <2> QED
    BY <1>5, <1>7, <2>2
<1>8. ASSUME NEW x \in Message \cup {Nobody}, NEW list \in SUBSET Message, n \in list, AddRow(n, k),
             sync[s] = ST("store", x, k, list),
             sync'[s] = ST(IF n \in Incoming THEN "emit" ELSE "store", n, k, list \ {n})
      PROVE  StoredOnce(m, l)'
  <2>1. PICK a \in {"emit", "store"} : sync'[s] = ST(a, n, k, list \ {n})
    BY <1>8
  <2>2. Listed(s, m, l)' <=> k = l /\ m \in list \ {n}
    BY <1>4, <2>1
  <2>3. Listed(s, m, l) <=> k = l /\ m \in list
    BY <1>4, <1>8
  <2>4. CASE n = m /\ k = l
    <3>1. Missing(m, l) /\ ~Missing(m, l)' /\ rows'[m][l] = rows[m][l] + 1
      BY <1>2, <1>3, <1>8, <2>2, <2>3, <2>4, AddRowType
    <3> QED
      BY <1>1, <3>1 DEF StoredOnce
  <2>5. CASE n # m \/ k # l
    <3>1. rows'[m][l] = rows[m][l] /\ (Missing(m, l)' => Missing(m, l))
      BY <1>2, <1>3, <1>8, <2>2, <2>3, <2>5, AddRowType
    <3> QED
      BY <1>1, <3>1 DEF StoredOnce
  <2> QED
    BY <2>4, <2>5
<1>9. ASSUME NEW list \in SUBSET Message, n \in Message, rows' = rows,
             sync[s] = ST("emit", n, k, list), sync'[s] = ST("store", n, k, list)
      PROVE  StoredOnce(m, l)'
  <2>1. Listed(s, m, l)' <=> Listed(s, m, l)
    BY <1>4, <1>9
  <2> QED
    BY <1>5, <1>9, <2>1
<1>10. CASE sync'[s] = Free /\ rows' = rows
  BY <1>5, <1>10 DEF Listed
<1> QED
  BY <1>1, <1>6, <1>7, <1>8, <1>9, <1>10 DEF SyncMoves

LEMMA OtherStoredOnce ==
  ASSUME TypeOK, OtherStep, MessagesAreKnown, OutInOrder
  PROVE  OutInOrder'
<1> SUFFICES ASSUME ~raced', NEW m \in Message \ Incoming, NEW l \in Lead
             PROVE  StoredOnce(m, l)'
  BY DEF OutInOrder
<1>1. UNCHANGED <<hook, sync>> /\ StoredOnce(m, l) /\ rows[m][l] \in Nat /\ Recorded(m) \in {0, 1}
  BY RecordedType DEF OtherStep, budgets, OutInOrder, TypeOK
<1>2. Missing(m, l)' <=> Missing(m, l)
  BY <1>1 DEF Missing, Matching, Listed
<1>3. CASE UNCHANGED <<fromCrm, sending, rows>>
  BY <1>1, <1>2, <1>3 DEF StoredOnce, Recorded
<1>4. ASSUME NEW n \in Message \ Incoming, NEW k \in Lead, n \notin provider,
             fromCrm' = fromCrm \cup {n}, sending' = [sending EXCEPT ![n] = k], rows' = rows
      PROVE  StoredOnce(m, l)'
  <2>1. Recorded(m)' = Recorded(m)
    BY <1>4, InboundAssumption DEF Recorded, TypeOK
  <2> QED
    BY <1>1, <1>2, <1>4, <2>1 DEF StoredOnce
<1>5. ASSUME NEW n \in Message, NEW k \in Lead, sending[n] = k, AddRow(n, k),
             sending' = [sending EXCEPT ![n] = Nobody], UNCHANGED fromCrm
      PROVE  StoredOnce(m, l)'
  <2>1. CASE n = m
    <3>1. Recorded(m) = 0 /\ Recorded(m)' = 1
      BY <1>5, <2>1, InboundAssumption DEF Recorded, TypeOK, MessagesAreKnown, KnownMessage
    <3>2. rows'[m][l] \in {rows[m][l], rows[m][l] + 1}
      BY <1>5, <2>1, AddRowType
    <3> QED
      BY <1>1, <1>2, <3>1, <3>2 DEF StoredOnce
  <2>2. CASE n # m
    <3>1. Recorded(m)' = Recorded(m) /\ rows'[m][l] = rows[m][l]
      BY <1>5, <2>2, AddRowType DEF Recorded, TypeOK
    <3> QED
      BY <1>1, <1>2, <3>1 DEF StoredOnce
  <2> QED
    BY <2>1, <2>2
<1> QED
  BY <1>3, <1>4, <1>5 DEF OtherStep

LEMMA NextStoredOnce ==
  ASSUME TypeOK, [Next]_vars, Singly, MessagesAreKnown, OutInOrder
  PROVE  OutInOrder'
BY NextCases, HookStoredOnce, SyncStoredOnce, OtherStoredOnce

-----------------------------------------------------------------------------
(* The first answer is announced *)

Announced(l) == HasInbound(l) =>
  \/ contacted[l] = 1
  \/ IsFirst(l) /\ \E h \in Hook : Counting(h, l)
FirstInOrder ==
  ~raced /\ failures = 0 /\ syncs = 0 =>
    (\A s \in Sync : sync[s] = Free) /\ \A l \in Lead : Announced(l)

LEMMA AnnouncedKept ==
  ASSUME NEW x \in Lead, Announced(x), HasInbound(x)' <=> HasInbound(x), IsFirst(x)' <=> IsFirst(x),
         contacted'[x] = contacted[x], \A k \in Hook : Counting(k, x) => Counting(k, x)'
  PROVE  Announced(x)'
BY DEF Announced

LEMMA HookFirst ==
  ASSUME TypeOK, NEW h \in Hook, NEW m \in Message, NEW l \in Lead \cup {Nobody},
         HookEffect(h, m, l), MessagesAreKnown, AnswersAreCounted, Singly, FirstInOrder
  PROVE  FirstInOrder'
<1> SUFFICES ASSUME ~raced', failures' = 0, syncs' = 0
             PROVE  (\A s \in Sync : sync'[s] = Free) /\ \A l_1 \in Lead : Announced(l_1)'
  BY DEF FirstInOrder
<1>1. /\ HookMoves(h, m, l) /\ ~raced /\ syncs' = syncs /\ sync' = sync
      /\ \A k \in Hook : k # h => hook[k] = Free /\ hook'[k] = Free
  BY HookAlone DEF HookEffect
<1>2. failures = 0 /\ failures' # failures + 1
  BY <1>1 DEF HookMoves, TypeOK
<1>3. SUFFICES ASSUME NEW x \in Lead PROVE Announced(x)'
  BY <1>1, <1>2 DEF FirstInOrder
<1>4. Announced(x) /\ Answered(x) /\ contacted[x] \in Nat
  BY <1>1, <1>2 DEF FirstInOrder, AnswersAreCounted, TypeOK
<1>5. \A k \in Hook : k # h => ~Counting(k, x) /\ ~Counting(k, x)'
  BY <1>1, CountingAt
<1>6. rows' = rows => (HasInbound(x)' <=> HasInbound(x)) /\ (IsFirst(x)' <=> IsFirst(x))
  BY DEF HasInbound, IsFirst
<1>7. CASE rows' = rows /\ contacted' = contacted /\ (Counting(h, x) => Counting(h, x)')
  BY <1>4, <1>5, <1>6, <1>7, AnnouncedKept
<1>8. CASE \/ hook[h] = Free
           \/ \E a \in Early, k \in Lead \cup {Nobody} : hook[h] = HT(a, m, k)
  <2>1. ~Counting(h, x)
    BY <1>8, CountingAt DEF Early
  <2>2. rows' = rows /\ contacted' = contacted
    <3>1. \A a \in Early, b \in Late, k, j \in Lead \cup {Nobody} : HT(a, m, k) # HT(b, m, j)
      BY HTFacts DEF Early, Late
    <3>2. \A b \in Late, j \in Lead \cup {Nobody} : HT(b, m, j) # Free
      BY HTFacts
    <3> QED
      BY <1>1, <1>2, <1>8, <3>1, <3>2 DEF HookMoves, events, Late
  <2> QED
    BY <1>7, <2>1, <2>2
<1>9. CASE l \in Lead /\ hook[h] = HT("storeOut", m, l) /\ AddRow(m, l) /\ contacted' = contacted
  <2>1. m \notin Incoming /\ ~Counting(h, x)
    BY <1>9, KnownHTs, CountingAt DEF Late
  <2>2. (HasInbound(x)' <=> HasInbound(x)) /\ (IsFirst(x)' <=> IsFirst(x))
    BY <1>9, <2>1, RowAdded
  <2> QED
    BY <1>4, <1>5, <1>9, <2>1, <2>2, AnnouncedKept
<1>10. CASE l \in Lead /\ hook[h] = HT("store", m, l) /\ hook'[h] = HT("emit", m, l)
            /\ AddRow(m, l) /\ contacted' = contacted
  <2>1. m \in Incoming /\ ~Counting(h, x) /\ (Counting(h, x)' <=> x = l)
    BY <1>10, KnownHTs, CountingAt DEF Late
  <2>2. CASE x # l
    <3>1. (HasInbound(x)' <=> HasInbound(x)) /\ (IsFirst(x)' <=> IsFirst(x))
      BY <1>10, <2>2, RowAdded
    <3> QED
      BY <1>4, <1>5, <1>10, <2>1, <3>1, AnnouncedKept
  <2>3. CASE x = l
    <3>1. ~HasInbound(x) => IsFirst(x)'
      BY <1>10, <2>1, <2>3, RowAdded
    <3>2. HasInbound(x) => contacted'[x] = 1
      BY <1>4, <1>5, <1>10, <2>1 DEF Announced
    <3> QED
      BY <2>1, <2>3, <3>1, <3>2 DEF Announced
  <2> QED
    BY <2>2, <2>3
<1>11. CASE l \in Lead /\ hook[h] = HT("emit", m, l) /\ hook'[h] = HT("count", m, l)
            /\ rows' = rows /\ contacted' = contacted
  <2>1. Counting(h, x) => Counting(h, x)'
    BY <1>11, CountingAt DEF Late
  <2> QED
    BY <1>7, <1>11, <2>1
<1>12. CASE /\ l \in Lead /\ hook[h] = HT("count", m, l) /\ hook'[h] = Free /\ rows' = rows
            /\ contacted' = IF IsFirst(l) THEN [contacted EXCEPT ![l] = @ + 1] ELSE contacted
  <2>1. Counting(h, x) <=> x = l
    BY <1>12, CountingAt DEF Late
  <2>2. CASE x = l /\ IsFirst(l)
    <3>1. contacted[x] # 1 /\ contacted[x] <= 1
      BY <1>4, <2>1, <2>2 DEF Answered
    <3>2. contacted'[x] = contacted[x] + 1
      BY <1>12, <2>2 DEF TypeOK
    <3> QED
      BY <1>4, <3>1, <3>2 DEF Announced
  <2>3. CASE x # l \/ ~IsFirst(l)
    <3>1. contacted'[x] = contacted[x]
      BY <1>12, <2>3 DEF TypeOK
    <3>2. HasInbound(x) => contacted[x] = 1
      BY <1>4, <1>5, <2>1, <2>3 DEF Announced
    <3> QED
      BY <1>6, <1>12, <3>1, <3>2 DEF Announced
  <2> QED
    BY <2>2, <2>3
<1> QED
  BY <1>1, <1>2, <1>8, <1>9, <1>10, <1>11, <1>12 DEF HookMoves, events, Early

LEMMA NextFirst ==
  ASSUME TypeOK, [Next]_vars, MessagesAreKnown, AnswersAreCounted, Singly, FirstInOrder
  PROVE  FirstInOrder'
<1>1. ASSUME UNCHANGED <<hook, sync, rows, contacted, raced, failures, syncs>> PROVE FirstInOrder'
  BY <1>1 DEF FirstInOrder, Announced, Counting, HasInbound, IsFirst
<1>2. ASSUME NEW s \in Sync, NEW m \in Message \cup {Nobody}, NEW l \in Lead, SyncEffect(s, m, l)
      PROVE  FirstInOrder'
  <2> SUFFICES ASSUME ~raced', failures' = 0, syncs' = 0 PROVE FALSE
    BY DEF FirstInOrder
  <2>1. ~raced /\ SyncMoves(s, m, l)
    BY <1>2, SyncAlone DEF SyncEffect
  <2>2. syncs = 0 /\ failures = 0 /\ syncs' # syncs + 1 /\ failures' # failures + 1
    BY <2>1 DEF SyncMoves, TypeOK
  <2>3. sync[s] = Free
    BY <2>1, <2>2 DEF FirstInOrder
  <2>4. \A a, n, list : ST(a, n, l, list) # Free
    BY DEF ST, Free
  <2> QED
    BY <2>1, <2>2, <2>3, <2>4 DEF SyncMoves
<1>3. CASE OtherStep
  <2>1. UNCHANGED <<hook, sync, contacted, raced, failures, syncs>>
    BY <1>3 DEF OtherStep, events, budgets
  <2>2. CASE rows' = rows
    BY <1>1, <2>1, <2>2
  <2>3. ASSUME NEW m \in Message, NEW l \in Lead, sending[m] = l, AddRow(m, l) PROVE FirstInOrder'
    <3>1. m \notin Incoming
      BY <2>3, InboundAssumption DEF MessagesAreKnown, KnownMessage
    <3>2. \A x \in Lead : (HasInbound(x)' <=> HasInbound(x)) /\ (IsFirst(x)' <=> IsFirst(x))
      BY <2>3, <3>1, RowAdded
    <3>3. \A x \in Lead, k \in Hook : Counting(k, x)' <=> Counting(k, x)
      BY <2>1 DEF Counting
    <3> QED
      BY <2>1, <3>2, <3>3 DEF FirstInOrder, Announced
  <2> QED
    BY <1>3, <2>2, <2>3 DEF OtherStep
<1> QED
  BY <1>2, <1>3, NextCases, HookFirst

-----------------------------------------------------------------------------
(* Rows and their events *)

(* Each row of an incoming message was announced or will be by the request  *)
(* that stored it; no other row is.                                         *)
HookEmits(m, l) == {h \in Hook : hook[h] = HT("emit", m, l)}
SyncEmits(m, l) ==
  {s \in Sync : sync[s] # Free /\ sync[s].at = "emit" /\ sync[s].msg = m /\ sync[s].lead = l}
FollowedAt(m, l) ==
  inbound[m][l] + Cardinality(HookEmits(m, l)) + Cardinality(SyncEmits(m, l))
    = IF m \in Incoming THEN rows[m][l] ELSE 0
EventsFollow == failures = 0 => \A m \in Message, l \in Lead : FollowedAt(m, l)

(* A step of one request moves one element.                                 *)
LEMMA CountMoves ==
  ASSUME NEW D, IsFiniteSet(D), NEW e \in D, NEW S \in SUBSET D, NEW T \in SUBSET D,
         \A k \in D : k # e => (k \in S <=> k \in T)
  PROVE  /\ Cardinality(S) \in Nat /\ Cardinality(T) \in Nat
         /\ Cardinality(T) + (IF e \in S THEN 1 ELSE 0) = Cardinality(S) + (IF e \in T THEN 1 ELSE 0)
<1>1. /\ IsFiniteSet(S) /\ Cardinality(S) \in Nat
      /\ IsFiniteSet(T) /\ Cardinality(T) \in Nat
  BY FS_Subset, FS_CardinalityType
<1>2. CASE e \in S <=> e \in T
  <2>1. S = T
    BY <1>2
  <2> QED
    BY <1>1, <1>2, <2>1
<1>3. CASE e \in S /\ e \notin T
  <2>1. T = S \ {e}
    BY <1>3
  <2>2. Cardinality(T) = Cardinality(S) - 1
    BY <1>1, <1>3, <2>1, FS_RemoveElement
  <2> QED
    BY <1>1, <1>3, <2>2
<1>4. CASE e \notin S /\ e \in T
  <2>1. T = S \cup {e}
    BY <1>4
  <2>2. Cardinality(T) = Cardinality(S) + 1
    BY <1>1, <1>4, <2>1, FS_AddElement
  <2> QED
    BY <1>1, <1>4, <2>2
<1> QED
  BY <1>2, <1>3, <1>4

LEMMA EmitsCount ==
  ASSUME NEW m, NEW l
  PROVE  /\ Cardinality(HookEmits(m, l)) \in Nat /\ Cardinality(SyncEmits(m, l)) \in Nat
         /\ Cardinality(HookEmits(m, l))' \in Nat /\ Cardinality(SyncEmits(m, l))' \in Nat
<1>1. /\ HookEmits(m, l) \subseteq Hook /\ SyncEmits(m, l) \subseteq Sync
      /\ HookEmits(m, l)' \subseteq Hook /\ SyncEmits(m, l)' \subseteq Sync
  BY DEF HookEmits, SyncEmits
<1> QED
  BY <1>1, FS_Subset, FS_CardinalityType, InboundAssumption

LEMMA EmitsStay ==
  ASSUME NEW m, NEW l
  PROVE  /\ hook' = hook => Cardinality(HookEmits(m, l))' = Cardinality(HookEmits(m, l))
         /\ sync' = sync => Cardinality(SyncEmits(m, l))' = Cardinality(SyncEmits(m, l))
<1>1. /\ hook' = hook => HookEmits(m, l)' = HookEmits(m, l)
      /\ sync' = sync => SyncEmits(m, l)' = SyncEmits(m, l)
  BY DEF HookEmits, SyncEmits
<1> QED
  BY <1>1

LEMMA HookEmitsMove ==
  ASSUME NEW h \in Hook, OtherHooksStay(h), NEW m, NEW l
  PROVE  Cardinality(HookEmits(m, l))' + (IF hook[h] = HT("emit", m, l) THEN 1 ELSE 0)
           = Cardinality(HookEmits(m, l)) + (IF hook'[h] = HT("emit", m, l) THEN 1 ELSE 0)
<1> DEFINE S == HookEmits(m, l)
           T == {k \in Hook : hook'[k] = HT("emit", m, l)}
<1>1. HookEmits(m, l)' = T
  BY DEF HookEmits
<1>2. /\ S \in SUBSET Hook /\ T \in SUBSET Hook
      /\ \A k \in Hook : k # h => (k \in S <=> k \in T)
      /\ h \in S <=> hook[h] = HT("emit", m, l)
      /\ h \in T <=> hook'[h] = HT("emit", m, l)
  BY DEF HookEmits, OtherHooksStay
<1> HIDE DEF S, T
<1>3. Cardinality(T) + (IF h \in S THEN 1 ELSE 0) = Cardinality(S) + (IF h \in T THEN 1 ELSE 0)
  BY <1>2, CountMoves, InboundAssumption
<1>4. Cardinality(HookEmits(m, l))' = Cardinality(T)
  BY <1>1
<1> QED
  BY <1>2, <1>3, <1>4 DEF S

(* Whether the request is to announce message m of lead l.                  *)
Emitting(s, m, l) ==
  sync[s] # Free /\ sync[s].at = "emit" /\ sync[s].msg = m /\ sync[s].lead = l

LEMMA SyncEmitsMove ==
  ASSUME NEW s \in Sync, OtherSyncsStay(s), NEW m, NEW l
  PROVE  Cardinality(SyncEmits(m, l))' + (IF Emitting(s, m, l) THEN 1 ELSE 0)
           = Cardinality(SyncEmits(m, l)) + (IF Emitting(s, m, l)' THEN 1 ELSE 0)
<1> DEFINE S == SyncEmits(m, l)
           T == {k \in Sync : Emitting(k, m, l)'}
<1>1. SyncEmits(m, l)' = T
  BY DEF SyncEmits, Emitting
<1>2. /\ S \in SUBSET Sync /\ T \in SUBSET Sync
      /\ \A k \in Sync : k # s => (k \in S <=> k \in T)
      /\ s \in S <=> Emitting(s, m, l)
      /\ s \in T <=> Emitting(s, m, l)'
  BY DEF SyncEmits, OtherSyncsStay, Emitting
<1> HIDE DEF S, T
<1>3. Cardinality(T) + (IF s \in S THEN 1 ELSE 0) = Cardinality(S) + (IF s \in T THEN 1 ELSE 0)
  BY <1>2, CountMoves, InboundAssumption
<1>4. Cardinality(SyncEmits(m, l))' = Cardinality(T)
  BY <1>1
<1> QED
  BY <1>2, <1>3, <1>4 DEF S

LEMMA HookEvents ==
  ASSUME TypeOK, NEW h \in Hook, NEW m \in Message, NEW l \in Lead \cup {Nobody},
         HookEffect(h, m, l), MessagesAreKnown, EventsFollow
  PROVE  EventsFollow'
<1> SUFFICES ASSUME failures' = 0, NEW y \in Message, NEW x \in Lead PROVE FollowedAt(y, x)'
  BY DEF EventsFollow
<1>1. HookMoves(h, m, l) /\ OtherHooksStay(h) /\ sync' = sync
  BY DEF HookEffect
<1>2. failures = 0 /\ failures' # failures + 1
  BY <1>1 DEF HookMoves, TypeOK, events
<1>3. PICK H2 \in Nat : H2 = Cardinality(HookEmits(y, x))'
  BY EmitsCount
<1> DEFINE H == Cardinality(HookEmits(y, x))
           E == Cardinality(SyncEmits(y, x))
<1>4. /\ H \in Nat /\ E \in Nat /\ inbound[y][x] \in Nat /\ rows[y][x] \in Nat
      /\ Cardinality(SyncEmits(y, x))' = E
      /\ H2 + (IF hook[h] = HT("emit", y, x) THEN 1 ELSE 0)
           = H + (IF hook'[h] = HT("emit", y, x) THEN 1 ELSE 0)
      /\ inbound[y][x] + H + E = IF y \in Incoming THEN rows[y][x] ELSE 0
  BY <1>1, <1>2, <1>3, EmitsCount, EmitsStay, HookEmitsMove DEF TypeOK, EventsFollow, FollowedAt
<1>5. inbound'[y][x] + H2 + E = (IF y \in Incoming THEN rows'[y][x] ELSE 0) => FollowedAt(y, x)'
  BY <1>3, <1>4 DEF FollowedAt
<1> HIDE DEF H, E
<1>6. /\ Free # HT("emit", y, x)
      /\ \A a \in (Early \cup Late) \ {"emit"}, n \in Message, k \in Lead \cup {Nobody} :
           HT(a, n, k) # HT("emit", y, x)
      /\ HT("emit", m, l) = HT("emit", y, x) <=> m = y /\ l = x
  <2>1. "emit" \in Early \cup Late
    BY DEF Late
  <2> QED
    BY <2>1, HTFacts
<1>7. CASE /\ UNCHANGED <<rows, inbound>>
           /\ hook[h] # HT("emit", y, x) /\ hook'[h] # HT("emit", y, x)
  BY <1>4, <1>5, <1>7
<1>8. CASE l \in Lead /\ hook[h] = HT("storeOut", m, l) /\ hook'[h] = Free /\ AddRow(m, l)
            /\ inbound' = inbound
  <2>1. m \notin Incoming
    BY <1>8, KnownHTs DEF Late
  <2>2. y \in Incoming => rows'[y][x] = rows[y][x]
    BY <1>8, <2>1, AddRowType
  <2>3. hook[h] # HT("emit", y, x) /\ hook'[h] # HT("emit", y, x)
    BY <1>6, <1>8 DEF Late
  <2> QED
    BY <1>4, <1>5, <1>8, <2>2, <2>3
<1>9. CASE l \in Lead /\ hook[h] = HT("store", m, l) /\ hook'[h] = HT("emit", m, l) /\ AddRow(m, l)
            /\ inbound' = inbound
  <2>1. m \in Incoming
    BY <1>9, KnownHTs DEF Late
  <2>2. rows'[y][x] = IF m = y /\ l = x THEN rows[y][x] + 1 ELSE rows[y][x]
    BY <1>9, AddRowType
  <2>3. hook[h] # HT("emit", y, x) /\ (hook'[h] = HT("emit", y, x) <=> m = y /\ l = x)
    BY <1>6, <1>9 DEF Late
  <2> QED
    BY <1>4, <1>5, <1>9, <2>1, <2>2, <2>3
<1>10. CASE l \in Lead /\ hook[h] = HT("emit", m, l) /\ hook'[h] = HT("count", m, l)
            /\ inbound' = [inbound EXCEPT ![m][l] = @ + 1] /\ rows' = rows
  <2>2. inbound'[y][x] = IF m = y /\ l = x THEN inbound[y][x] + 1 ELSE inbound[y][x]
    BY <1>10, EmitType
  <2>3. (hook[h] = HT("emit", y, x) <=> m = y /\ l = x) /\ hook'[h] # HT("emit", y, x)
    BY <1>6, <1>10 DEF Late
  <2> QED
    BY <1>4, <1>5, <1>10, <2>2, <2>3
<1>11. CASE \/ hook[h] = Free
            \/ \E a \in (Early \cup Late) \ {"emit"}, k \in Lead \cup {Nobody} : hook[h] = HT(a, m, k)
  <2>1. hook[h] # HT("emit", y, x)
    BY <1>6, <1>11
  <2> QED
    <3>1. CASE hook'[h] = Free /\ UNCHANGED <<rows, inbound>>
      BY <1>6, <1>7, <2>1, <3>1
    <3>2. ASSUME NEW a \in (Early \cup Late) \ {"emit"}, NEW k \in Lead \cup {Nobody},
                 hook'[h] = HT(a, m, k), UNCHANGED <<rows, inbound>>
          PROVE  FollowedAt(y, x)'
      BY <1>6, <1>7, <2>1, <3>2
    <3> QED
      BY <1>1, <1>2, <1>8, <1>9, <1>10, <3>1, <3>2 DEF HookMoves, events, Early, Late
<1> QED
  BY <1>1, <1>2, <1>10, <1>11 DEF HookMoves, events, Early, Late

LEMMA EmittingAt ==
  ASSUME NEW s, NEW y, NEW x
  PROVE  /\ sync[s] = Free => ~Emitting(s, y, x)
         /\ sync'[s] = Free => ~Emitting(s, y, x)'
         /\ \A a, n, l, list :
              /\ sync[s] = ST(a, n, l, list) => (Emitting(s, y, x) <=> a = "emit" /\ n = y /\ l = x)
              /\ sync'[s] = ST(a, n, l, list) => (Emitting(s, y, x)' <=> a = "emit" /\ n = y /\ l = x)
<1>1. \A a, n, l, list :
        /\ ST(a, n, l, list) # Free /\ ST(a, n, l, list).at = a
        /\ ST(a, n, l, list).msg = n /\ ST(a, n, l, list).lead = l
  BY DEF ST, Free
<1> QED
  BY <1>1 DEF Emitting

LEMMA SyncEvents ==
  ASSUME TypeOK, NEW s \in Sync, NEW m \in Message \cup {Nobody}, NEW l \in Lead,
         SyncEffect(s, m, l), MessagesAreKnown, EventsFollow
  PROVE  EventsFollow'
<1> SUFFICES ASSUME failures' = 0, NEW y \in Message, NEW x \in Lead PROVE FollowedAt(y, x)'
  BY DEF EventsFollow
<1>1. SyncMoves(s, m, l) /\ OtherSyncsStay(s) /\ hook' = hook /\ KnownSync(s)
  BY DEF SyncEffect, MessagesAreKnown
<1>2. failures = 0 /\ failures' # failures + 1
  BY <1>1 DEF SyncMoves, TypeOK
<1>3. PICK E2 \in Nat : E2 = Cardinality(SyncEmits(y, x))'
  BY EmitsCount
<1> DEFINE H == Cardinality(HookEmits(y, x))
           E == Cardinality(SyncEmits(y, x))
<1>4. /\ H \in Nat /\ E \in Nat /\ inbound[y][x] \in Nat /\ rows[y][x] \in Nat
      /\ Cardinality(HookEmits(y, x))' = H
      /\ E2 + (IF Emitting(s, y, x) THEN 1 ELSE 0) = E + (IF Emitting(s, y, x)' THEN 1 ELSE 0)
      /\ inbound[y][x] + H + E = IF y \in Incoming THEN rows[y][x] ELSE 0
  BY <1>1, <1>2, <1>3, EmitsCount, EmitsStay, SyncEmitsMove DEF TypeOK, EventsFollow, FollowedAt
<1>5. inbound'[y][x] + H + E2 = (IF y \in Incoming THEN rows'[y][x] ELSE 0) => FollowedAt(y, x)'
  BY <1>3, <1>4 DEF FollowedAt
<1> HIDE DEF H, E
<1>6. CASE UNCHANGED <<rows, inbound>> /\ ~Emitting(s, y, x) /\ ~Emitting(s, y, x)'
  BY <1>4, <1>5, <1>6
<1>7. CASE /\ sync[s] = Free /\ UNCHANGED <<rows, inbound>>
           /\ Begun(s, l)
  <2>1. PICK list \in SUBSET Message : sync'[s] = ST("existing", Nobody, l, list)
    BY <1>7 DEF Begun
  <2> QED
    BY <1>6, <1>7, <2>1, EmittingAt
<1>8. ASSUME NEW n \in Message \cup {Nobody}, NEW list \in SUBSET Message, UNCHANGED <<rows, inbound>>,
             sync[s] = ST("existing", n, l, list),
             sync'[s] = ST("store", n, l, {k \in list : rows[k][l] = 0})
      PROVE  FollowedAt(y, x)'
  <2> DEFINE new == {k \in list : rows[k][l] = 0}
  <2>1. sync'[s] = ST("store", n, l, new)
    BY <1>8
  <2> HIDE DEF new
  <2> QED
    BY <1>6, <1>8, <2>1, EmittingAt
<1>9. ASSUME NEW n \in Message \cup {Nobody}, NEW list \in SUBSET Message, m \in list,
             sync[s] = ST("store", n, l, list), AddRow(m, l), inbound' = inbound,
             sync'[s] = ST(IF m \in Incoming THEN "emit" ELSE "store", m, l, list \ {m})
      PROVE  FollowedAt(y, x)'
  <2>1. ~Emitting(s, y, x) /\ (Emitting(s, y, x)' <=> m \in Incoming /\ m = y /\ l = x)
    <3>1. CASE m \in Incoming
      <4>1. sync'[s] = ST("emit", m, l, list \ {m})
        BY <1>9, <3>1
      <4> QED
        BY <1>9, <3>1, <4>1, EmittingAt
    <3>2. CASE m \notin Incoming
      <4>1. sync'[s] = ST("store", m, l, list \ {m})
        BY <1>9, <3>2
      <4> QED
        BY <1>9, <3>2, <4>1, EmittingAt
    <3> QED
      BY <3>1, <3>2
  <2>2. rows'[y][x] = IF m = y /\ l = x THEN rows[y][x] + 1 ELSE rows[y][x]
    BY <1>9, AddRowType
  <2> QED
    BY <1>4, <1>5, <1>9, <2>1, <2>2
<1>10. ASSUME NEW list \in SUBSET Message, m \in Message, rows' = rows,
              sync[s] = ST("emit", m, l, list), sync'[s] = ST("store", m, l, list),
              inbound' = [inbound EXCEPT ![m][l] = @ + 1]
       PROVE  FollowedAt(y, x)'
  <2>1. (Emitting(s, y, x) <=> m = y /\ l = x) /\ ~Emitting(s, y, x)'
    BY <1>10, EmittingAt
  <2>2. inbound'[y][x] = IF m = y /\ l = x THEN inbound[y][x] + 1 ELSE inbound[y][x]
    BY <1>10, EmitType
  <2> QED
    BY <1>4, <1>5, <1>10, <2>1, <2>2
<1>11. CASE SyncAt(s, "store") /\ sync'[s] = Free /\ UNCHANGED <<rows, inbound>>
  <2>1. ~Emitting(s, y, x) /\ ~Emitting(s, y, x)'
    BY <1>11, EmittingAt DEF SyncAt, Emitting
  <2> QED
    BY <1>6, <1>11, <2>1
<1> QED
  BY <1>1, <1>2, <1>7, <1>8, <1>9, <1>10, <1>11 DEF SyncMoves

LEMMA OtherEvents ==
  ASSUME TypeOK, OtherStep, MessagesAreKnown, EventsFollow
  PROVE  EventsFollow'
<1> SUFFICES ASSUME failures' = 0, NEW y \in Message, NEW x \in Lead PROVE FollowedAt(y, x)'
  BY DEF EventsFollow
<1>1. UNCHANGED <<hook, sync, inbound>> /\ FollowedAt(y, x)
  BY DEF OtherStep, events, budgets, EventsFollow
<1>2. y \in Incoming => rows'[y][x] = rows[y][x]
  <2>1. ASSUME NEW m \in Message, NEW l \in Lead, sending[m] = l, AddRow(m, l)
        PROVE  y \in Incoming => rows'[y][x] = rows[y][x]
    <3>1. m \notin Incoming
      BY <2>1, InboundAssumption DEF MessagesAreKnown, KnownMessage
    <3> QED
      BY <2>1, <3>1, AddRowType
  <2> QED
    BY <2>1 DEF OtherStep
<1> QED
  BY <1>1, <1>2, EmitsStay DEF FollowedAt

LEMMA NextEvents ==
  ASSUME TypeOK, [Next]_vars, MessagesAreKnown, EventsFollow
  PROVE  EventsFollow'
BY NextCases, HookEvents, SyncEvents, OtherEvents

-----------------------------------------------------------------------------
(* The theorems *)

LEMMA InitOrder ==
  ASSUME Init
  PROVE  /\ TypeOK /\ MessagesAreKnown /\ AnswersAreCounted /\ Singly /\ MetInOrder
         /\ OutInOrder /\ FirstInOrder /\ EventsFollow
<1>1. TypeOK
  BY InitTypeOK
<1>2. MessagesAreKnown /\ Singly
  BY DEF Init, MessagesAreKnown, KnownHook, KnownSync, KnownMessage, Singly, OneAtATime
<1>3. \A l \in Lead : ~HasInbound(l) /\ contacted[l] = 0
  BY InboundAssumption DEF Init, HasInbound
<1>4. \A l \in Lead, h \in Hook : ~Counting(h, l)
  BY CountingAt DEF Init
<1>5. AnswersAreCounted /\ FirstInOrder
  BY <1>3, <1>4 DEF Init, AnswersAreCounted, Answered, FirstInOrder, Announced
<1>6. MetInOrder
  BY DEF Init, MetInOrder, MetOnce
<1>7. OutInOrder
  <2>1. \A m \in Message, l \in Lead : ~Missing(m, l) /\ rows[m][l] = 0
    BY MatchingAt DEF Init, Missing, Listed
  <2> QED
    BY <2>1, RecordedType DEF OutInOrder, StoredOnce
<1>8. ASSUME NEW m \in Message, NEW l \in Lead PROVE FollowedAt(m, l)
  <2>1. HookEmits(m, l) = {} /\ SyncEmits(m, l) = {}
    <3>1. HT("emit", m, l) # Free
      BY DEF HT, Free
    <3> QED
      BY <3>1 DEF Init, HookEmits, SyncEmits
  <2>2. Cardinality(HookEmits(m, l)) = 0 /\ Cardinality(SyncEmits(m, l)) = 0
    BY <2>1, FS_EmptySet
  <2> QED
    BY <2>2 DEF Init, FollowedAt
<1> QED
  BY <1>1, <1>2, <1>5, <1>6, <1>7, <1>8 DEF EventsFollow

LEMMA OrderMeetsOnce ==
  ASSUME TypeOK, MetInOrder, AnswersAreCounted, FirstInOrder
  PROVE  ContactsAreMetOnce
<1>1. OneAutoLead
  BY DEF OneAutoLead, MetInOrder, MetOnce
<1>2. ContactedAtMostOnce
  BY DEF ContactedAtMostOnce, AnswersAreCounted, Answered
<1>3. FirstContactIsAnnounced
  <2>1. Quiet => \A l \in Lead, h \in Hook : ~Counting(h, l)
    BY CountingAt DEF Quiet
  <2> QED
    BY <2>1 DEF FirstContactIsAnnounced, FirstInOrder, Announced
<1> QED
  BY <1>1, <1>2, <1>3 DEF ContactsAreMetOnce

LEMMA OrderAnnouncesRows ==
  ASSUME TypeOK, OutInOrder, EventsFollow
  PROVE  RowsAreAnnounced
<1>1. EveryRowIsAnnounced
  <2> SUFFICES ASSUME Quiet, failures = 0, NEW m \in Message, NEW l \in Lead
               PROVE  inbound[m][l] = IF m \in Incoming THEN rows[m][l] ELSE 0
    BY DEF EveryRowIsAnnounced
  <2>1. HookEmits(m, l) = {} /\ SyncEmits(m, l) = {}
    BY HTFacts DEF Quiet, HookEmits, SyncEmits, Late
  <2>2. Cardinality(HookEmits(m, l)) = 0 /\ Cardinality(SyncEmits(m, l)) = 0
    BY <2>1, FS_EmptySet
  <2>3. FollowedAt(m, l) /\ inbound[m][l] \in Nat
    BY DEF EventsFollow, TypeOK
  <2> QED
    BY <2>2, <2>3 DEF FollowedAt
<1>2. OutgoingIsStoredOnce
  <2> SUFFICES ASSUME ~raced, NEW m \in Message \ Incoming, NEW l \in Lead
               PROVE  rows[m][l] <= IF m \in fromCrm THEN 2 ELSE 1
    BY DEF OutgoingIsStoredOnce
  <2>1. rows[m][l] <= Recorded(m) + 1 /\ rows[m][l] \in Nat
    BY DEF OutInOrder, StoredOnce, TypeOK
  <2>2. Recorded(m) \in {0, 1} /\ (m \notin fromCrm => Recorded(m) = 0)
    BY DEF Recorded
  <2> QED
    BY <2>1, <2>2
<1> QED
  BY <1>1, <1>2 DEF RowsAreAnnounced

(* A contact becomes one lead through the webhook, and a lead's first answer *)
(* is announced, unless two requests were in progress at once; it is never   *)
(* announced twice, whatever races, repeats or fails: who counts the rows    *)
(* counts after storing one, so no two requests both count one row.          *)
THEOREM ContactsMetOnce == Spec => []ContactsAreMetOnce
<1> DEFINE Inv == /\ TypeOK /\ MessagesAreKnown /\ AnswersAreCounted /\ Singly
                  /\ MetInOrder /\ FirstInOrder
<1>1. Init => Inv
  BY InitOrder
<1>2. Inv /\ [Next]_vars => Inv'
  BY NextTypeOK, NextKnown, NextAnswered, NextSingly, NextMet, NextFirst
<1>3. Inv => ContactsAreMetOnce
  BY OrderMeetsOnce
<1> HIDE DEF Inv
<1> QED
  BY <1>1, <1>2, <1>3, PTL DEF Spec

(* Failures aside, each row of an incoming message is announced once and no  *)
(* row of an outgoing one, whatever races; and a lead has one row of an      *)
(* outgoing message beside the CRM's own, unless two requests were in        *)
(* progress at once.                                                         *)
THEOREM RowsAnnounced == Spec => []RowsAreAnnounced
<1> DEFINE Inv == TypeOK /\ MessagesAreKnown /\ Singly /\ OutInOrder /\ EventsFollow
<1>1. Init => Inv
  BY InitOrder
<1>2. Inv /\ [Next]_vars => Inv'
  BY NextTypeOK, NextKnown, NextSingly, NextStoredOnce, NextEvents
<1>3. Inv => RowsAreAnnounced
  BY OrderAnnouncesRows
<1> HIDE DEF Inv
<1> QED
  BY <1>1, <1>2, <1>3, PTL DEF Spec
=============================================================================
