---------------------------- MODULE MCConnections ----------------------------
(* The two kinds of channel, in one run: they share no state, so a behaviour  *)
(* is one of the first kind or one of the second.                             *)
EXTENDS WhatsAppChannel, TelegramPolling

VARIABLE part
vars == <<part, channelVars, telegramVars>>

Update(kind, user) == [kind |-> kind, user |-> user]
\* a text before the chat is bound, the binding, and two senders
FourUpdates == <<Update("text", 1), Update("start", 0), Update("text", 1), Update("text", 2)>>

Init == part \in {"whatsapp", "telegram"} /\ ChannelInit /\ TelegramInit
Next ==
  \/ part = "whatsapp" /\ ChannelNext /\ UNCHANGED <<part, telegramVars>>
  \/ part = "telegram" /\ TelegramNext /\ UNCHANGED <<part, channelVars>>
Spec == Init /\ [][Next]_vars /\ ChannelFairness

TypeOK == ChannelTypeOK /\ TelegramTypeOK

\* A channel shown as connected is, and what was taken from Telegram was handled, and
\* handled once (ConnectedIsOpen, ConfirmedIsHandled, RepeatedOnlyByRestart).
ChannelsAreTrue ==
  IF part = "whatsapp" THEN ConnectedIsOpen ELSE ConfirmedIsHandled /\ RepeatedOnlyByRestart
=============================================================================
