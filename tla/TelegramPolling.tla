---------------------------- MODULE TelegramPolling ----------------------------
(* TelegramProvider: one poller of getUpdates in the API.  The offset lives in  *)
(* memory only and moves before each handler; asking with an offset is what     *)
(* tells Telegram that everything before it has been taken.                     *)
EXTENDS Integers, Sequences, FiniteSets

CONSTANTS Updates,        \* the updates that arrive: [kind, user], by update_id
          MaxTgFaults     \* bound: restarts and failing statements

Ids == DOMAIN Updates
Users == {Updates[n].user : n \in Ids}

ASSUME TelegramAssumption ==
  /\ MaxTgFaults \in Nat /\ Len(Updates) \in Nat /\ Ids = 1..Len(Updates)
  /\ \A n \in Ids : Updates[n].kind \in {"start", "text"}

VARIABLES
  arrived, confirmed,     \* updates Telegram has, and those it will not deliver again
  last, batch,            \* lastUpdateId and the updates in hand, both in memory
  at,                     \* the step of the handler of update last
  bound,                  \* telegramChatId of the channel is set
  leads, announced,       \* leads created, lead.created emitted
  stored, contacted,      \* rows by update, in order; users with a lead.contacted event
  ended,                  \* updates whose handler came to an end, well or not
  restarts, tgFaults

telegramVars == <<arrived, confirmed, last, batch, at, bound, leads, announced, stored, contacted,
                  ended, restarts, tgFaults>>
botApi == <<arrived, confirmed>>
data == <<bound, leads, announced, stored, contacted>>
budgets == <<restarts, tgFaults>>

Steps == {"poll", "next", "channel", "lead", "created", "message", "inbound"}

TelegramInit ==
  /\ arrived = 0 /\ confirmed = 0 /\ last = 0 /\ batch = <<>> /\ at = "poll"
  /\ bound = FALSE /\ leads = {} /\ announced = <<>> /\ stored = <<>> /\ contacted = <<>>
  /\ ended = {} /\ restarts = 0 /\ tgFaults = 0

\* somebody writes to the bot
Arrive ==
  /\ arrived < Len(Updates) /\ arrived' = arrived + 1
  /\ UNCHANGED <<confirmed, last, batch, at, data, ended, budgets>>

\* getUpdates?offset=last+1
GetUpdates ==
  /\ at = "poll" /\ arrived > (IF last > confirmed THEN last ELSE confirmed)
  /\ confirmed' = IF last > confirmed THEN last ELSE confirmed
  /\ batch' = [n \in 1..(arrived - confirmed') |-> confirmed' + n] /\ at' = "next"
  /\ UNCHANGED <<arrived, last, data, ended, budgets>>

\* the offset moves, then the update is handled
Offset_OfBatch(n) == batch[Len(batch)]
Offset(n) == n
Take ==
  /\ at = "next" /\ batch # <<>>
  /\ last' = Offset(Head(batch)) /\ at' = "channel"
  /\ UNCHANGED <<botApi, batch, data, ended, budgets>>
EndBatch ==
  /\ at = "next" /\ batch = <<>> /\ at' = "poll" /\ UNCHANGED <<botApi, last, batch, data, ended, budgets>>

Current == Updates[Head(batch)]
NextUpdate == batch' = Tail(batch) /\ at' = "next" /\ ended' = ended \cup {Head(batch)}
Keep == UNCHANGED <<botApi, last, budgets>>

\* /start: the link is checked, and the channel of its user found or created
StartCommand ==
  /\ at = "channel" /\ Current.kind = "start" /\ bound' = TRUE /\ NextUpdate
  /\ UNCHANGED <<leads, announced, stored, contacted>> /\ Keep

\* a text for a chat no connected channel has is left alone
FindChannel ==
  /\ at = "channel" /\ Current.kind = "text"
  /\ IF bound THEN at' = "lead" /\ UNCHANGED <<batch, ended>> ELSE NextUpdate
  /\ UNCHANGED data /\ Keep

\* the lead of the sender, created when there is none
FindLead ==
  /\ at = "lead" /\ leads' = leads \cup {Current.user}
  /\ at' = IF Current.user \in leads THEN "message" ELSE "created"
  /\ UNCHANGED <<batch, ended, bound, announced, stored, contacted>> /\ Keep

\* a new sender is left alone when there is no enabled TELEGRAM_INBOUND source
LeaveSender ==
  /\ at = "lead" /\ Current.user \notin leads /\ NextUpdate /\ UNCHANGED data /\ Keep

\* event log, lead.created, and lead.assigned for the owner of the channel
EmitCreated ==
  /\ at = "created" /\ announced' = Append(announced, Current.user) /\ at' = "message"
  /\ UNCHANGED <<batch, ended, bound, leads, stored, contacted>> /\ Keep

StoreMessage ==
  /\ at = "message" /\ stored' = Append(stored, Head(batch)) /\ at' = "inbound"
  /\ UNCHANGED <<batch, ended, bound, leads, announced, contacted>> /\ Keep

\* event log, message.inbound, and lead.contacted when the row is the first
RowsOf(u) == {n \in DOMAIN stored : Updates[stored[n]].user = u}
IsFirst_OrLater(u) == Cardinality(RowsOf(u)) >= 1
IsFirst(u) == Cardinality(RowsOf(u)) = 1
EmitInbound ==
  /\ at = "inbound" /\ NextUpdate
  /\ contacted' = IF IsFirst(Current.user) THEN Append(contacted, Current.user) ELSE contacted
  /\ UNCHANGED <<bound, leads, announced, stored>> /\ Keep

TgFault == tgFaults < MaxTgFaults /\ tgFaults' = tgFaults + 1

\* the handler catches what its statements throw: the update is given up
HandlerFails ==
  /\ TgFault /\ at \in Steps \ {"poll", "next"} /\ NextUpdate
  /\ UNCHANGED <<botApi, last, data, restarts>>
\* /start answers an error by a message; when that fails too the loop over the
\* batch ends, and the rest is asked for again
StartEscapes ==
  /\ TgFault /\ at = "channel" /\ Current.kind = "start" /\ ended' = ended \cup {Head(batch)}
  /\ batch' = <<>> /\ at' = "poll" /\ UNCHANGED <<botApi, last, data, restarts>>
\* the API restarts: the offset is 0 again
Restart ==
  /\ TgFault /\ last' = 0 /\ batch' = <<>> /\ at' = "poll" /\ restarts' = restarts + 1
  /\ UNCHANGED <<botApi, data, ended>>

TelegramNext ==
  \/ Arrive \/ GetUpdates \/ Take \/ EndBatch \/ StartCommand \/ FindChannel \/ FindLead \/ LeaveSender
  \/ EmitCreated \/ StoreMessage \/ EmitInbound \/ HandlerFails \/ StartEscapes \/ Restart

-----------------------------------------------------------------------------
(* Properties.                                                                  *)

TelegramTypeOK ==
  /\ confirmed \in 0..arrived /\ last \in 0..arrived /\ at \in Steps /\ tgFaults \in 0..MaxTgFaults
  /\ leads \subseteq Users /\ ended \subseteq Ids /\ Len(stored) <= Len(Updates) * (1 + MaxTgFaults)

\* Telegram is told that an update was taken only when its handler has come to an
\* end: no restart and no error that leaves the loop over a batch loses one
\* (telegram.provider.ts:117).
ConfirmedIsHandled == 1..confirmed \subseteq ended

\* A text is stored again only by a restart; a lead is announced, and found to have
\* answered, once at most; and without a restart the rows are in the order sent.
Times(x, s) == Cardinality({k \in DOMAIN s : s[k] = x})
RepeatedOnlyByRestart ==
  /\ \A n \in Ids : Times(n, stored) <= 1 + restarts
  /\ \A u \in Users : Times(u, announced) <= 1 /\ Times(u, contacted) <= 1
  /\ restarts = 0 => \A j, k \in DOMAIN stored : j < k => stored[j] < stored[k]
=============================================================================
