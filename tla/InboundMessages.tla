-------------------------- MODULE InboundMessages --------------------------
(***************************************************************************)
(* How WhatsApp messages enter the CRM: the webhook of the provider        *)
(* (WebhooksController.handleMessageUpsert), which delivers each message   *)
(* at least once and several at a time; MessagesService.syncInbound, which *)
(* fetches what the webhook missed; and the CRM's own sends, whose row     *)
(* gets the provider's id only after the provider has the message, while   *)
(* the provider echoes it to the webhook.                                  *)
(*                                                                         *)
(* Nothing in the database makes a phone or a provider id unique: all of   *)
(* it rests on reads before writes.  Each statement is a step.             *)
(***************************************************************************)
EXTENDS Naturals, FiniteSets

CONSTANTS
  Contact,        \* phone numbers
  Message,        \* the provider's message ids
  ContactOf,      \* the contact of a message
  Incoming,       \* messages written by the contact; the agent's are the rest
  Lead,           \* identifiers for leads
  Nobody,         \* the contact of an identifier not in use
  Hook,           \* webhook requests in progress
  Sync,           \* syncInbound requests in progress
  MaxDeliveries,  \* bound: deliveries of one message
  MaxSyncs,       \* bound: syncInbound requests
  MaxFailures     \* bound: requests that end with an error or a crash

ASSUME InboundAssumption ==
  /\ ContactOf \in [Message -> Contact] /\ Nobody \notin Contact \cup Lead
  /\ Incoming \subseteq Message
  /\ IsFiniteSet(Hook) /\ IsFiniteSet(Sync)
  /\ MaxDeliveries \in Nat /\ MaxSyncs \in Nat /\ MaxFailures \in Nat

VARIABLES
  contact,     \* the phone of each lead in use
  source,      \* whether the WHATSAPP_INBOUND source is enabled
  provider,    \* messages the provider has
  fromCrm,     \* those the CRM sent; the rest were typed on a phone
  deliveries,  \* webhook deliveries of a message so far
  sending,     \* leads whose CRM send of a message is not yet recorded
  rows,        \* rows with the message's provider id, per lead
  hook, sync,  \* per request, the statement it is at
  auto,        \* history: leads the webhook created, per contact
  inbound,     \* history: message.inbound events, per message and lead
  contacted,   \* history: lead.contacted events, per lead
  raced,       \* history: two requests were in progress at once
  syncs, failures

network == <<provider, fromCrm>>
events  == <<auto, inbound, contacted>>
budgets == <<raced, syncs, failures>>
vars == <<contact, source, network, deliveries, sending, rows, hook, sync,
          events, budgets>>

Free == [at |-> "free"]
HookTask ==
  [at : {"check", "match", "find", "create"}, msg : Message, lead : {Nobody}] \cup
  [at : {"storeOut", "store", "emit", "count"}, msg : Message, lead : Lead]
SyncTask ==
  [at : {"existing", "store"}, lead : Lead, list : SUBSET Message,
   msg : Message \cup {Nobody}] \cup
  [at : {"emit"}, lead : Lead, list : SUBSET Message, msg : Message]

-----------------------------------------------------------------------------
(* Helpers *)

LeadsOf(c) == {l \in Lead : contact[l] = c}
Unused == {l \in Lead : contact[l] = Nobody}

Stored(m) == \E l \in Lead : rows[m][l] > 0

HasInbound(l) == \E m \in Incoming : rows[m][l] > 0

AddRow(m, l) == rows' = [rows EXCEPT ![m][l] = @ + 1]

HookGoto(h, label, l) ==
  hook' = [hook EXCEPT ![h] = [@ EXCEPT !.at = label, !.lead = l]]
HookEnds(h) == hook' = [hook EXCEPT ![h] = Free]
HookAt(h, label) == hook[h] # Free /\ hook[h].at = label

Quiet == (\A h \in Hook : hook[h] = Free) /\ (\A s \in Sync : sync[s] = Free)
NoteRace == raced' = (raced \/ ~Quiet)

SyncAt(s, label) == sync[s] # Free /\ sync[s].at = label

-----------------------------------------------------------------------------
Init ==
  /\ contact = [l \in Lead |-> Nobody]
  /\ source \in BOOLEAN
  /\ provider = {} /\ fromCrm = {}
  /\ deliveries = [m \in Message |-> 0]
  /\ sending = [m \in Message |-> Nobody]
  /\ rows = [m \in Message |-> [l \in Lead |-> 0]]
  /\ hook = [h \in Hook |-> Free]
  /\ sync = [s \in Sync |-> Free]
  /\ auto = [c \in Contact |-> 0]
  /\ inbound = [m \in Message |-> [l \in Lead |-> 0]]
  /\ contacted = [l \in Lead |-> 0]
  /\ raced = FALSE /\ syncs = 0 /\ failures = 0

-----------------------------------------------------------------------------
(* The provider, the CRM's senders and its other handlers *)

(* The contact writes, or the agent does on the phone. *)
Write(m) ==
  /\ m \notin provider
  /\ provider' = provider \cup {m}
  /\ UNCHANGED <<contact, source, fromCrm, deliveries, sending, rows, hook, sync, events, budgets>>

(* MessagesService.send, sendWhatsApp: first the provider, then the row. *)
Post(m, l) ==
  /\ m \notin provider \cup Incoming /\ contact[l] = ContactOf[m]
  /\ provider' = provider \cup {m}
  /\ fromCrm' = fromCrm \cup {m}
  /\ sending' = [sending EXCEPT ![m] = l]
  /\ UNCHANGED <<contact, source, deliveries, rows, hook, sync, events, budgets>>

Record(m) ==
  /\ sending[m] # Nobody
  /\ AddRow(m, sending[m])
  /\ sending' = [sending EXCEPT ![m] = Nobody]
  /\ UNCHANGED <<contact, source, network, deliveries, hook, sync, events, budgets>>

(* LeadsService.create, which asks for no free phone. *)
AddLead(l, c) ==
  /\ l \in Unused
  /\ contact' = [contact EXCEPT ![l] = c]
  /\ UNCHANGED <<source, network, deliveries, sending, rows, hook, sync, events, budgets>>

ToggleSource ==
  /\ source' = ~source
  /\ UNCHANGED <<contact, network, deliveries, sending, rows, hook, sync, events, budgets>>

-----------------------------------------------------------------------------
(* WebhooksController.handleMessageUpsert *)

Deliver(h, m) ==
  /\ hook[h] = Free /\ m \in provider /\ deliveries[m] < MaxDeliveries
  /\ deliveries' = [deliveries EXCEPT ![m] = @ + 1]
  /\ hook' = [hook EXCEPT ![h] = [at |-> IF m \in Incoming THEN "find" ELSE "check",
                                  msg |-> m, lead |-> Nobody]]
  /\ NoteRace
  /\ UNCHANGED <<contact, source, network, sending, rows, sync, events, syncs, failures>>

(* fromMe: "If already stored by the CRM when it sent the message, skip" *)
Known_Never(m) == FALSE
Known(m) == Stored(m)

CheckEcho(h) ==
  /\ HookAt(h, "check")
  /\ IF Known(hook[h].msg) THEN HookEnds(h) ELSE HookGoto(h, "match", Nobody)
  /\ UNCHANGED <<contact, source, network, deliveries, sending, rows, sync, events, budgets>>

MatchLead_Unchecked(h) ==
  /\ HookAt(h, "match")
  /\ HookGoto(h, "storeOut",
       LET found == LeadsOf(ContactOf[hook[h].msg])
       IN  IF found = {} THEN Nobody ELSE CHOOSE l \in found : TRUE)
  /\ UNCHANGED <<contact, source, network, deliveries, sending, rows, sync, events, budgets>>

(* fromMe: no lead is created for it. *)
MatchLead(h) ==
  /\ HookAt(h, "match")
  /\ LET found == LeadsOf(ContactOf[hook[h].msg])
     IN  IF found = {} THEN HookEnds(h)
         ELSE \E l \in found : HookGoto(h, "storeOut", l)
  /\ UNCHANGED <<contact, source, network, deliveries, sending, rows, sync, events, budgets>>

StoreOut(h) ==
  /\ HookAt(h, "storeOut")
  /\ AddRow(hook[h].msg, hook[h].lead)
  /\ HookEnds(h)
  /\ UNCHANGED <<contact, source, network, deliveries, sending, sync, events, budgets>>

Found_Recent(c) == {}
Found(c) == LeadsOf(c)

FindLead(h) ==
  /\ HookAt(h, "find")
  /\ LET found == Found(ContactOf[hook[h].msg])
     IN  IF found = {} THEN HookGoto(h, "create", Nobody)
         ELSE \E l \in found : HookGoto(h, "store", l)
  /\ UNCHANGED <<contact, source, network, deliveries, sending, rows, sync, events, budgets>>

(* Only with an enabled source; lead.created and lead.assigned follow. *)
CreateLead(h) ==
  /\ HookAt(h, "create")
  /\ LET c == ContactOf[hook[h].msg]
     IN  IF ~source THEN HookEnds(h) /\ UNCHANGED <<contact, auto>>
         ELSE \E l \in Unused :
                /\ contact' = [contact EXCEPT ![l] = c]
                /\ auto' = [auto EXCEPT ![c] = @ + 1]
                /\ HookGoto(h, "store", l)
  /\ UNCHANGED <<source, network, deliveries, sending, rows, sync, inbound,
                 contacted, budgets>>

(* Nothing looks for the message's provider id. *)
StoreIn(h) ==
  /\ HookAt(h, "store")
  /\ AddRow(hook[h].msg, hook[h].lead)
  /\ HookGoto(h, "emit", hook[h].lead)
  /\ UNCHANGED <<contact, source, network, deliveries, sending, sync, events, budgets>>

EmitInbound(h) ==
  /\ HookAt(h, "emit")
  /\ inbound' = [inbound EXCEPT ![hook[h].msg][hook[h].lead] = @ + 1]
  /\ HookGoto(h, "count", hook[h].lead)
  /\ UNCHANGED <<contact, source, network, deliveries, sending, rows, sync,
                 auto, contacted, budgets>>

(* inboundCount === 1 *)
IsFirst_OrMore(l) == HasInbound(l)
IsFirst_Before(l) == ~HasInbound(l)
IsFirst(l) ==
  \E m \in Incoming : rows[m][l] = 1 /\ \A k \in Incoming \ {m} : rows[k][l] = 0

CountInbound(h) ==
  /\ HookAt(h, "count")
  /\ contacted' = IF IsFirst(hook[h].lead)
                  THEN [contacted EXCEPT ![hook[h].lead] = @ + 1] ELSE contacted
  /\ HookEnds(h)
  /\ UNCHANGED <<contact, source, network, deliveries, sending, rows, sync,
                 auto, inbound, budgets>>

(* An exception is logged and the provider is answered all the same. *)
HookFails(h) ==
  /\ hook[h] # Free /\ failures < MaxFailures
  /\ failures' = failures + 1
  /\ HookEnds(h)
  /\ UNCHANGED <<contact, source, network, deliveries, sending, rows, sync, events, raced, syncs>>

HandleMessageUpsert(h) ==
  \/ CheckEcho(h) \/ MatchLead(h) \/ StoreOut(h) \/ FindLead(h) \/ CreateLead(h)
  \/ StoreIn(h) \/ EmitInbound(h) \/ CountInbound(h) \/ HookFails(h)

-----------------------------------------------------------------------------
(* MessagesService.syncInbound *)

(* EvolutionProvider.fetchMessages: two hundred of the contact's messages,  *)
(* or none when the provider does not answer.                               *)
Fetched(c) == SUBSET {m \in provider : ContactOf[m] = c}

FetchMessages(s, l) ==
  /\ sync[s] = Free /\ contact[l] # Nobody
  /\ syncs < MaxSyncs /\ syncs' = syncs + 1
  /\ \E list \in Fetched(contact[l]) :
       sync' = [sync EXCEPT ![s] =
         [at |-> "existing", lead |-> l, msg |-> Nobody, list |-> list]]
  /\ NoteRace
  /\ UNCHANGED <<contact, source, network, deliveries, sending, rows, hook, events, failures>>

(* existingIds: the ids stored for this lead *)
ExistingIds(s) ==
  /\ SyncAt(s, "existing")
  /\ sync' = [sync EXCEPT ![s] =
       [@ EXCEPT !.at = "store",
                 !.list = {m \in sync[s].list : rows[m][sync[s].lead] = 0}]]
  /\ UNCHANGED <<contact, source, network, deliveries, sending, rows, hook, events, budgets>>

(* Only an incoming message is an event. *)
Emits_Always(m) == TRUE
Emits(m) == m \in Incoming

ImportMessage(s, m) ==
  /\ SyncAt(s, "store") /\ m \in sync[s].list
  /\ AddRow(m, sync[s].lead)
  /\ sync' = [sync EXCEPT ![s] =
       [@ EXCEPT !.list = sync[s].list \ {m}, !.msg = m,
                 !.at = IF Emits(m) THEN "emit" ELSE "store"]]
  /\ UNCHANGED <<contact, source, network, deliveries, sending, hook, events, budgets>>

EmitImported(s) ==
  /\ SyncAt(s, "emit")
  /\ inbound' = [inbound EXCEPT ![sync[s].msg][sync[s].lead] = @ + 1]
  /\ sync' = [sync EXCEPT ![s].at = "store"]
  /\ UNCHANGED <<contact, source, network, deliveries, sending, rows, hook,
                 auto, contacted, budgets>>

SyncEnds(s) ==
  /\ sync[s] # Free
  /\ \/ SyncAt(s, "store") /\ sync[s].list = {} /\ UNCHANGED failures
     \/ failures < MaxFailures /\ failures' = failures + 1
  /\ sync' = [sync EXCEPT ![s] = Free]
  /\ UNCHANGED <<contact, source, network, deliveries, sending, rows, hook, events, raced, syncs>>

-----------------------------------------------------------------------------
Next ==
  \/ \E m \in Message : Write(m) \/ Record(m) \/ \E l \in Lead : Post(m, l)
  \/ \E l \in Lead, c \in Contact : AddLead(l, c)
  \/ ToggleSource
  \/ \E h \in Hook : HandleMessageUpsert(h) \/ \E m \in Message : Deliver(h, m)
  \/ \E s \in Sync :
       \/ \E l \in Lead : FetchMessages(s, l)
       \/ ExistingIds(s) \/ EmitImported(s) \/ SyncEnds(s)
       \/ \E m \in Message : ImportMessage(s, m)

Spec == Init /\ [][Next]_vars

-----------------------------------------------------------------------------
(* Properties *)

(* The state has its shape. *)
TypeOK ==
  /\ contact \in [Lead -> Contact \cup {Nobody}]
  /\ source \in BOOLEAN
  /\ fromCrm \subseteq provider /\ provider \subseteq Message
  /\ deliveries \in [Message -> Nat]
  /\ sending \in [Message -> Lead \cup {Nobody}]
  /\ rows \in [Message -> [Lead -> Nat]]
  /\ hook \in [Hook -> HookTask \cup {Free}]
  /\ sync \in [Sync -> SyncTask \cup {Free}]
  /\ auto \in [Contact -> Nat]
  /\ inbound \in [Message -> [Lead -> Nat]] /\ contacted \in [Lead -> Nat]
  /\ raced \in BOOLEAN /\ syncs \in Nat /\ failures \in Nat

(* "Find or create lead by phone": the webhook creates at most one lead    *)
(* for a contact, unless two requests were in progress at once.            *)
OneAutoLead == ~raced => \A c \in Contact : auto[c] <= 1

(* "fires when the client responds for the first time": a lead whose       *)
(* first message came through the webhook has had its lead.contacted,      *)
(* failures and requests in progress at once aside.                        *)
FirstContactIsAnnounced ==
  Quiet /\ ~raced /\ failures = 0 /\ syncs = 0 =>
    \A l \in Lead : HasInbound(l) => contacted[l] = 1

(* ... and whatever interleaves, repeats or fails, never has it twice.     *)
ContactedAtMostOnce == \A l \in Lead : contacted[l] <= 1

(* Failures aside, the rules and the AI see every row of an incoming       *)
(* message once and no outgoing one, whichever way it came in and whatever *)
(* interleaves.                                                            *)
EveryRowIsAnnounced ==
  Quiet /\ failures = 0 =>
    \A m \in Message, l \in Lead :
      inbound[m][l] = IF m \in Incoming THEN rows[m][l] ELSE 0

(* "skip to avoid duplicates": however often an outgoing message is        *)
(* delivered and synced, a lead gets one row of it beside the one the CRM  *)
(* records for its own send, unless two requests were in progress at once. *)
OutgoingIsStoredOnce ==
  ~raced => \A m \in Message \ Incoming, l \in Lead :
              rows[m][l] <= IF m \in fromCrm THEN 2 ELSE 1

(* A contact becomes one lead, whose first answer is announced, and        *)
(* announced once (OneAutoLead, FirstContactIsAnnounced,                   *)
(* ContactedAtMostOnce).                                                   *)
ContactsAreMetOnce == OneAutoLead /\ FirstContactIsAnnounced /\ ContactedAtMostOnce

(* Each message is stored and announced as often as it was sent            *)
(* (EveryRowIsAnnounced, OutgoingIsStoredOnce).                            *)
RowsAreAnnounced == EveryRowIsAnnounced /\ OutgoingIsStoredOnce
=============================================================================
