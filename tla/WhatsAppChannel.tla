---------------------------- MODULE WhatsAppChannel ----------------------------
(* The WhatsApp channel of one user: the row in the database, the instance at   *)
(* the Evolution API, and everybody who writes the row: the channels page with  *)
(* its QR poll, the connect, disconnect and reset requests, the connection      *)
(* webhook, the administrator, and the sweep of stuck channels.                 *)
(*                                                                              *)
(* Every one of them reads first and writes by id later, so what it writes may  *)
(* be out of date; the instance keeps its name when the row is created anew.    *)
EXTENDS Integers, FiniteSets

CONSTANTS MaxMoves,      \* bound: what users and phones do
          MaxFaults      \* bound: requests that fail and events that get lost

ASSUME ChannelAssumption == MaxMoves \in Nat /\ MaxFaults \in Nat

Status == {"CONNECTING", "CONNECTED", "DISCONNECTED", "ERROR"}
Device == {"none", "close", "connecting", "open"}
Request == {"connect", "poll", "disconnect", "reset", "webhook", "sweep"}

VARIABLES
  row,          \* the channel: [gen, status, inst, old], or NoRow
  device,       \* the instance at the Evolution API
  events,       \* connection.update events on their way
  req,          \* what each request knows: [pc, gen, ...]
  polling,      \* the page asks for the QR every five seconds
  lost, late,   \* an event was lost; a status was written that no longer held
  moves, faults

channelVars == <<row, device, events, req, polling, lost, late, moves, faults>>
ghosts == <<lost, late>>
budget == <<moves, faults>>

NoRow == [gen |-> 0, status |-> "NONE", inst |-> FALSE, old |-> FALSE]
Done == [pc |-> "idle"]
Exists == row # NoRow

\* newStatus in handleConnectionUpdate
StatusOf_IgnoresClose(s) == IF s = "connecting" THEN "CONNECTING" ELSE "CONNECTED"
StatusOf(s) == CASE s = "open" -> "CONNECTED" [] s \in {"close", "none"} -> "DISCONNECTED"
                 [] OTHER -> "CONNECTING"

Written_Unchecked(gen, status, inst) == [row EXCEPT !.status = status, !.inst = @ \/ inst, !.old = FALSE]
\* channelsService.updateStatus: the row by id, or NotFound; @updatedAt makes it young
Written(gen, status, inst) ==
  IF row.gen = gen /\ Exists THEN [row EXCEPT !.status = status, !.inst = @ \/ inst, !.old = FALSE]
  ELSE row
Writes(gen, status, inst) == row' = Written(gen, status, inst)

\* Evolution announces each change of the instance
Becomes(d) == device' = d /\ events' = IF d = device THEN events ELSE events \cup {d}
Same == UNCHANGED <<device, events>>

Goto(r, pc) == req' = [req EXCEPT ![r] = [@ EXCEPT !.pc = pc]]
Return(r) == req' = [req EXCEPT ![r] = Done]
Enter(r, rec) == req[r] = Done /\ req' = [req EXCEPT ![r] = rec]

Move == moves < MaxMoves /\ moves' = moves + 1 /\ UNCHANGED faults
Fault == faults < MaxFaults /\ faults' = faults + 1 /\ UNCHANGED moves

\* a user without a channel, or with one that works
Paired == [gen |-> 1, status |-> "CONNECTED", inst |-> TRUE, old |-> FALSE]
ChannelInit ==
  /\ row \in {NoRow, Paired} /\ device = IF row = NoRow THEN "none" ELSE "open"
  /\ events = {} /\ req = [r \in Request |-> Done] /\ polling = FALSE
  /\ lost = FALSE /\ late = FALSE /\ moves = 0 /\ faults = 0

-----------------------------------------------------------------------------
(* connectWhatsApp.                                                             *)

\* the row of the user, created when there is none; gen numbers the rows
Connect ==
  /\ Move
  /\ row' = IF Exists THEN row ELSE [gen |-> moves + 2, status |-> "CONNECTING", inst |-> FALSE, old |-> FALSE]
  /\ Enter("connect", [pc |-> "create", gen |-> row'.gen])
  /\ Same /\ UNCHANGED <<polling, ghosts>>

\* healthCheck and createInstance; an instance of this name is used again
CreateInstance ==
  /\ req["connect"].pc = "create" /\ Goto("connect", "status")
  /\ IF device = "none" THEN Becomes("connecting") ELSE Same
  /\ UNCHANGED <<row, polling, ghosts, budget>>

\* CONNECTING, whatever the status was, and the name of the instance; without the
\* row there is a NotFound and the page sees an error
SetConnecting ==
  LET gen == req["connect"].gen IN
  /\ req["connect"].pc = "status" /\ Writes(gen, "CONNECTING", TRUE)
  /\ IF row.gen = gen THEN Goto("connect", "qr") ELSE Return("connect")
  /\ Same /\ UNCHANGED <<polling, ghosts, budget>>

\* getQrCode starts the pairing of a closed instance; the page begins to poll
GetQr(r) == IF device = "close" THEN Becomes("connecting") ELSE Same
ConnectQr ==
  /\ req["connect"].pc = "qr" /\ GetQr("connect") /\ Return("connect") /\ polling' = TRUE
  /\ UNCHANGED <<row, ghosts, budget>>

\* the API does not answer: ERROR, and the page does not poll
ConnectFails ==
  /\ Fault /\ req["connect"].pc \in {"create", "status"}
  /\ Writes(req["connect"].gen, "ERROR", FALSE) /\ Return("connect")
  /\ Same /\ UNCHANGED <<polling, ghosts>>

-----------------------------------------------------------------------------
(* getWhatsAppQr, asked by the page.                                            *)

Polled_Touched == IF Exists THEN [row EXCEPT !.old = FALSE] ELSE row
Polled == row
Poll ==
  /\ polling /\ row' = Polled
  /\ Enter("poll", [pc |-> IF row.inst THEN "state" ELSE "answer", gen |-> row.gen,
                    status |-> row.status, shown |-> row.status])
  /\ Same /\ UNCHANGED <<polling, ghosts, budget>>

\* getConnectionState: open is CONNECTED; else the QR, which pairs a closed instance
IsOpen_AsStored(p) == p.status = "CONNECTED"
IsOpen(p) == device = "open"
PollState ==
  LET p == req["poll"] IN
  /\ p.pc = "state"
  /\ IF IsOpen(p)
     THEN /\ req' = [req EXCEPT !["poll"] = [p EXCEPT !.shown = "CONNECTED",
                                              !.pc = IF p.status = "CONNECTED" THEN "answer" ELSE "write"]]
          /\ Same
     ELSE Goto("poll", "answer") /\ GetQr("poll")
  /\ UNCHANGED <<row, polling, ghosts, budget>>

\* what throws is caught: the QR is asked for, and the page is shown what was stored
Caught ==
  /\ req' = [req EXCEPT !["poll"] = [@ EXCEPT !.pc = "answer", !.shown = req["poll"].status]]
  /\ GetQr("poll") /\ UNCHANGED <<row, late>>
PollWrite ==
  LET p == req["poll"] IN
  /\ p.pc = "write" /\ UNCHANGED <<polling, lost, budget>>
  /\ IF row.gen = p.gen THEN /\ Goto("poll", "answer") /\ Writes(p.gen, "CONNECTED", FALSE)
                             /\ late' = (late \/ device # "open") /\ Same
     ELSE Caught

\* the page stops when it is shown CONNECTED
PollAnswer ==
  /\ req["poll"].pc = "answer" /\ polling' = (polling /\ req["poll"].shown # "CONNECTED")
  /\ Return("poll") /\ Same /\ UNCHANGED <<row, ghosts, budget>>

\* an error of the state or of the write is caught; one of the QR is ignored by the page, which polls again
PollFails ==
  /\ Fault /\ UNCHANGED <<row, polling, ghosts>>
  /\ \/ req["poll"].pc \in {"state", "write"} /\ Caught
     \/ req["poll"].pc = "answer" /\ Return("poll") /\ Same

-----------------------------------------------------------------------------
(* disconnectWhatsApp, resetWhatsApp, and the administrator's disconnect.       *)

Ask(r) ==
  /\ Move /\ r \in {"disconnect", "reset"} /\ Exists
  /\ Enter(r, [pc |-> IF row.inst THEN "instance" ELSE "row", gen |-> row.gen])
  /\ polling' = FALSE /\ Same /\ UNCHANGED <<row, ghosts>>

\* logoutInstance or deleteInstance
LeaveInstance(r) ==
  /\ r \in {"disconnect", "reset"} /\ req[r].pc = "instance" /\ Goto(r, "row")
  /\ CASE device = "none" -> Same
       [] r = "disconnect" -> Becomes("close")
       [] OTHER -> Becomes("none")
  /\ UNCHANGED <<row, polling, ghosts, budget>>
\* whose failure is ignored
LeaveFails(r) ==
  /\ Fault /\ r \in {"disconnect", "reset"} /\ req[r].pc = "instance" /\ Goto(r, "row")
  /\ Same /\ UNCHANGED <<row, polling, ghosts>>

LeaveRow(r) ==
  /\ r \in {"disconnect", "reset"} /\ req[r].pc = "row" /\ Return(r)
  /\ IF r = "disconnect" THEN Writes(req[r].gen, "DISCONNECTED", FALSE)
     ELSE row' = IF row.gen = req[r].gen THEN NoRow ELSE row
  /\ Same /\ UNCHANGED <<polling, ghosts, budget>>

\* channels/:id/disconnect writes the row alone
AdminDisconnect ==
  /\ Move /\ Exists /\ Writes(row.gen, "DISCONNECTED", FALSE)
  /\ Same /\ UNCHANGED <<req, polling, ghosts>>
\* and DELETE channels/:id deletes it, the instance left as it is
AdminDelete ==
  /\ Move /\ Exists /\ row' = NoRow
  /\ Same /\ UNCHANGED <<req, polling, ghosts>>

-----------------------------------------------------------------------------
(* The phone, the webhook and the sweep.                                        *)

Scan == Move /\ device = "connecting" /\ Becomes("open") /\ UNCHANGED <<row, req, polling, ghosts>>
LogOut == Move /\ device = "open" /\ Becomes("close") /\ UNCHANGED <<row, req, polling, ghosts>>

\* handleConnectionUpdate finds the channel by the name of the instance
Webhook ==
  \E e \in events :
    /\ events' = events \ {e} /\ UNCHANGED device
    /\ Enter("webhook", IF row.inst THEN [pc |-> "write", gen |-> row.gen, state |-> e] ELSE Done)
    /\ UNCHANGED <<row, polling, ghosts, budget>>
WebhookWrite ==
  LET e == req["webhook"].state IN
  /\ req["webhook"].pc = "write" /\ Return("webhook")
  /\ Writes(req["webhook"].gen, StatusOf(e), FALSE) /\ late' = (late \/ device # e)
  /\ Same /\ UNCHANGED <<polling, lost, budget>>
\* an event that never arrives, or whose handler throws: the answer is received: true
EventLost ==
  /\ Fault /\ lost' = TRUE /\ UNCHANGED <<row, device, polling, late>>
  /\ \/ \E e \in events : events' = events \ {e} /\ UNCHANGED req
     \/ req["webhook"].pc = "write" /\ Return("webhook") /\ UNCHANGED events

\* fifteen minutes without a write
Age ==
  /\ row.status = "CONNECTING" /\ ~row.old /\ row' = [row EXCEPT !.old = TRUE]
  /\ UNCHANGED <<device, events, req, polling, ghosts, budget>>
\* the channels found are disconnected by id
Sweep ==
  /\ row.status = "CONNECTING" /\ row.old /\ Enter("sweep", [pc |-> "write", gen |-> row.gen])
  /\ Same /\ UNCHANGED <<row, polling, ghosts, budget>>
SweepWrite ==
  /\ req["sweep"].pc = "write" /\ Return("sweep") /\ Writes(req["sweep"].gen, "DISCONNECTED", FALSE)
  /\ Same /\ UNCHANGED <<polling, ghosts, budget>>

Serve ==
  \/ CreateInstance \/ SetConnecting \/ ConnectQr \/ PollState \/ PollWrite \/ PollAnswer
  \/ \E r \in Request : LeaveInstance(r) \/ LeaveRow(r)
  \/ WebhookWrite \/ SweepWrite
ChannelNext ==
  \/ Connect \/ Poll \/ Serve \/ ConnectFails \/ PollFails \/ AdminDisconnect \/ AdminDelete
  \/ \E r \in Request : Ask(r) \/ LeaveFails(r)
  \/ Scan \/ LogOut \/ Webhook \/ EventLost \/ Age \/ Sweep

\* requests are answered, the page keeps its interval, the cron runs
ChannelFairness ==
  /\ WF_channelVars(CreateInstance) /\ WF_channelVars(SetConnecting) /\ WF_channelVars(ConnectQr)
  /\ WF_channelVars(Poll) /\ WF_channelVars(PollState) /\ WF_channelVars(PollWrite) /\ WF_channelVars(PollAnswer)
  /\ WF_channelVars(Age) /\ WF_channelVars(Sweep) /\ WF_channelVars(SweepWrite)

-----------------------------------------------------------------------------
(* Properties.                                                                  *)

ChannelTypeOK ==
  /\ row.status \in Status \cup {"NONE"} /\ row.gen \in 0..MaxMoves + 1 /\ (row.status = "NONE" <=> row.gen = 0)
  /\ device \in Device /\ events \subseteq Device /\ polling \in BOOLEAN
  /\ \A r \in Request : req[r].pc \in {"idle", "create", "status", "qr", "state", "write", "answer", "instance", "row"}
  /\ moves \in 0..MaxMoves /\ faults \in 0..MaxFaults

\* With nothing on its way, a channel shown as CONNECTED has an open instance,
\* unless an event was lost or a writer was overtaken by a change of the instance
\* (webhooks.controller.ts:358, :181): no other order of connect, poll, disconnect,
\* reset, webhook and sweep leaves a connection that is not there.
ConnectedIsOpen ==
  (events = {} /\ (\A r \in Request : req[r] = Done) /\ ~lost /\ ~late /\ row.status = "CONNECTED")
    => device = "open"

\* A pairing that succeeds while the page polls is noticed, events or no events
\* (webhooks.controller.ts:175), unless it is undone or the page stops first.
OpenIsNoticed ==
  (polling /\ device = "open" /\ row.inst)
    ~> (row.status = "CONNECTED" \/ ~polling \/ device # "open" \/ ~row.inst)

\* No channel stays in CONNECTING for ever (stuck-channel.scheduler.ts:8), while
\* the page goes on polling included.
ConnectingEnds == []<>(row.status # "CONNECTING")

\* A pairing comes to an end, and when it succeeded the page learns of it
\* (OpenIsNoticed, ConnectingEnds).
PairingEnds == OpenIsNoticed /\ ConnectingEnds
=============================================================================
