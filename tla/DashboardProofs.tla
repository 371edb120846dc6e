-------------------------- MODULE DashboardProofs ---------------------------
(* Proofs about channels and the dashboard.  A WhatsApp channel shown as       *)
(* connected has an open instance, and what Telegram was told to forget was    *)
(* handled, each row once but for restarts, for any updates and any number of  *)
(* moves and faults.  Sessions, commissions, the sources of leads, videos and  *)
(* pages, each alone and as the run composes them, for any people, amounts,    *)
(* jobs and requests in progress; and the functions of slots, scores, hours    *)
(* and conditions, for any inputs.                                             *)
EXTENDS MCConnections, MCDashboard, FiniteSetTheorems, WellFoundedInduction, TLAPS

-----------------------------------------------------------------------------
(* WhatsApp: shapes *)

RowType == [gen : Nat, status : Status \cup {"NONE"}, inst : BOOLEAN, old : BOOLEAN]
PollCall == [pc : {"state", "write", "answer"}, gen : Nat,
             status : Status \cup {"NONE"}, shown : Status \cup {"NONE"}]
HookCall == [pc : {"write"}, gen : Nat, state : Device]
PlainCall == [pc : {"create", "status", "qr", "instance", "row", "write"}, gen : Nat]
CallOf(r) == IF r = "poll" THEN PollCall ELSE IF r = "webhook" THEN HookCall ELSE PlainCall

RequestsAreTyped == /\ req = [r \in Request |-> req[r]]
                    /\ \A r \in Request : req[r] \in CallOf(r) \cup {Done}

\* Rows are numbered by the move that made them, so that a request made for an
\* earlier row never has the number of a later one.
RowsAreNumbered ==
  /\ row \in RowType /\ (row.gen = 0 <=> row = NoRow) /\ (row.status = "NONE" <=> row.gen = 0)
  /\ row.gen <= moves + 1
  /\ \A r \in Request : req[r] # Done => req[r].gen <= moves + 1

\* Whoever writes CONNECTED found the name of an instance in the row it writes.
Names(r) == req[r].pc \in {"state", "write"}
InstanceIsNamed ==
  /\ row.status = "CONNECTED" => row.inst
  /\ \A r \in {"poll", "webhook"} :
       Names(r) => req[r].gen # 0 /\ (req[r].gen = row.gen => row.inst)

\* The instance of a connected channel that is no longer open has said so, and the
\* event is on its way or about to be written to this row.
ChangeIsAnnounced ==
  row.status = "CONNECTED" /\ ~lost /\ ~late /\ device # "open"
    => \/ device \in events
       \/ /\ req["webhook"].pc = "write" /\ req["webhook"].state = device
          /\ req["webhook"].gen = row.gen

MovesAreCounted ==
  /\ device \in Device /\ events \subseteq Device /\ polling \in BOOLEAN
  /\ lost \in BOOLEAN /\ late \in BOOLEAN
  /\ moves \in 0..MaxMoves /\ faults \in 0..MaxFaults

ChannelShape == RequestsAreTyped /\ RowsAreNumbered /\ InstanceIsNamed /\ MovesAreCounted

-----------------------------------------------------------------------------
(* What a step does to the row, to a request and to the instance *)

NewRow == [gen |-> moves + 2, status |-> "CONNECTING", inst |-> FALSE, old |-> FALSE]
RowStep ==
  \/ row' = row
  \/ row' = NoRow
  \/ row' = NewRow /\ moves' = moves + 1
  \/ /\ row # NoRow /\ row' \in RowType /\ row'.gen = row.gen
     /\ row'.status \in Status /\ (row.inst => row'.inst)
     /\ row'.status = "CONNECTED" => row'.inst

Asks(r, c) ==
  /\ req' = [req EXCEPT ![r] = c] /\ c \in CallOf(r) \cup {Done}
  /\ c # Done =>
       \/ /\ req[r] # Done /\ c.gen = req[r].gen
          /\ r \in {"poll", "webhook"} /\ c.pc \in {"state", "write"} => Names(r)
       \/ /\ c.gen = row'.gen
          /\ r \in {"poll", "webhook"} /\ c.pc \in {"state", "write"} => row'.inst /\ row'.gen # 0
RequestStep == req' = req \/ \E r \in Request : \E c : Asks(r, c)

InstanceStep ==
  \/ device' = device /\ events' \subseteq events
  \/ device' \in Device /\ events' = events \cup {device'}
CountStep ==
  /\ polling' \in BOOLEAN /\ lost' \in BOOLEAN /\ late' \in BOOLEAN
  /\ moves' \in 0..MaxMoves /\ faults' \in 0..MaxFaults /\ moves' >= moves

LEMMA ChannelStepKeepsShape ==
  ASSUME ChannelShape, RowStep, RequestStep, InstanceStep, CountStep
  PROVE  ChannelShape'
<1>0. moves \in Nat /\ moves' \in Nat /\ moves' >= moves /\ row \in RowType
  BY ChannelAssumption DEF ChannelShape, MovesAreCounted, CountStep, RowsAreNumbered
<1>1. MovesAreCounted'
  BY DEF ChannelShape, MovesAreCounted, InstanceStep, CountStep
<1>2. RequestsAreTyped'
  <2>1. CASE req' = req
    BY <2>1 DEF ChannelShape, RequestsAreTyped
  <2>2. CASE \E r \in Request : \E c : Asks(r, c)
    BY <2>2 DEF ChannelShape, RequestsAreTyped, Asks
  <2> QED
    BY <2>1, <2>2 DEF RequestStep
<1>3. /\ row' \in RowType /\ (row'.gen = 0 <=> row' = NoRow) /\ (row'.status = "NONE" <=> row'.gen = 0)
      /\ row'.gen <= moves' + 1
  <2>1. CASE row' = row
    BY <1>0, <2>1 DEF ChannelShape, RowsAreNumbered, RowType
  <2>2. CASE row' = NoRow
    <3>1. NoRow \in RowType /\ NoRow.gen = 0 /\ NoRow.status = "NONE"
      BY DEF NoRow, RowType
    <3>2. row' \in RowType /\ row'.gen = 0 /\ row'.status = "NONE"
      BY <2>2, <3>1
    <3>3. row'.gen <= moves' + 1
      <4>1. 0 <= moves' + 1
        <5>1. \A m \in Nat : 0 <= m + 1
          OBVIOUS
        <5> QED
          BY <1>0, <5>1
      <4>2. row'.gen = 0
        BY <3>2
      <4> QED
        BY <4>1, <4>2
    <3> QED
      BY <2>2, <3>2, <3>3
  <2>3. CASE row' = NewRow /\ moves' = moves + 1
    BY <1>0, <2>3 DEF NewRow, NoRow, RowType, Status
  <2>4. CASE row # NoRow /\ row' \in RowType /\ row'.gen = row.gen /\ row'.status \in Status
    <3>1. row.gen # 0 /\ row'.gen # 0 /\ row.gen <= moves + 1 /\ row'.status # "NONE"
      BY <2>4 DEF ChannelShape, RowsAreNumbered, Status
    <3> QED
      BY <1>0, <2>4, <3>1 DEF NoRow, RowType
  <2> QED
    BY <2>1, <2>2, <2>3, <2>4 DEF RowStep
<1>4. ASSUME NEW r \in Request, req[r] # Done PROVE req[r].gen \in Nat /\ req[r].gen <= moves + 1
  BY <1>4 DEF ChannelShape, RequestsAreTyped, RowsAreNumbered, CallOf, PollCall, HookCall, PlainCall
<1>5. ASSUME NEW r \in Request, req'[r] # Done PROVE req'[r].gen <= moves' + 1
  <2>1. CASE req' = req
    BY <1>0, <1>4, <1>5, <2>1
  <2>2. ASSUME NEW q \in Request, NEW c, Asks(q, c) PROVE req'[r].gen <= moves' + 1
    <3>1. CASE r = q
      <4>1. req'[r] = c
        BY <2>2, <3>1 DEF ChannelShape, RequestsAreTyped, Asks
      <4>2. (req[q] # Done /\ c.gen = req[q].gen) \/ c.gen = row'.gen
        BY <1>5, <2>2, <4>1 DEF Asks
      <4> QED
        BY <1>0, <1>3, <1>4, <4>1, <4>2
    <3>2. CASE r # q
      <4>1. req'[r] = req[r]
        BY <2>2, <3>2 DEF ChannelShape, RequestsAreTyped, Asks
      <4> QED
        BY <1>0, <1>4, <1>5, <4>1
    <3> QED
      BY <3>1, <3>2
  <2> QED
    BY <2>1, <2>2 DEF RequestStep
<1>6. row'.status = "CONNECTED" => row'.inst
  BY DEF ChannelShape, InstanceIsNamed, RowStep, NoRow, NewRow
<1>7. ASSUME NEW g \in Nat, g # 0, g <= moves + 1, g = row.gen => row.inst, g = row'.gen
      PROVE  row'.inst
  <2>1. CASE row' = NewRow /\ moves' = moves + 1
    BY <1>0, <1>7, <2>1 DEF NewRow
  <2>2. CASE row' = NoRow
    BY <1>7, <2>2 DEF NoRow
  <2> QED
    BY <1>7, <2>1, <2>2 DEF RowStep
<1>8. ASSUME NEW r \in {"poll", "webhook"}, Names(r)'
      PROVE  req'[r].gen # 0 /\ (req'[r].gen = row'.gen => row'.inst)
  <2>0. r \in Request /\ (Names(r) => req[r].gen # 0 /\ (req[r].gen = row.gen => row.inst))
    BY DEF ChannelShape, InstanceIsNamed, Request
  <2>1. req[r].pc \in {"state", "write"} => req[r] # Done
    BY DEF Done
  <2>2. ASSUME Names(r), req'[r].gen = req[r].gen
        PROVE  req'[r].gen # 0 /\ (req'[r].gen = row'.gen => row'.inst)
    BY <1>4, <1>7, <2>0, <2>1, <2>2 DEF Names
  <2>3. CASE req' = req
    BY <1>8, <2>2, <2>3 DEF Names
  <2>4. ASSUME NEW q \in Request, NEW c, Asks(q, c)
        PROVE  req'[r].gen # 0 /\ (req'[r].gen = row'.gen => row'.inst)
    <3>1. CASE r = q
      <4>1. req'[r] = c /\ c.pc \in {"state", "write"}
        BY <1>8, <2>4, <3>1 DEF ChannelShape, RequestsAreTyped, Asks, Names
      <4>2. c # Done
        BY <4>1 DEF Done
      <4>3. (c.gen = req[q].gen /\ Names(q)) \/ (c.gen = row'.gen /\ row'.inst /\ row'.gen # 0)
        BY <2>4, <3>1, <4>1, <4>2 DEF Asks
      <4> QED
        BY <2>2, <3>1, <4>1, <4>3
    <3>2. CASE r # q
      <4>1. req'[r] = req[r]
        BY <2>0, <2>4, <3>2 DEF ChannelShape, RequestsAreTyped, Asks
      <4> QED
        BY <1>8, <2>2, <4>1 DEF Names
    <3> QED
      BY <3>1, <3>2
  <2> QED
    BY <2>3, <2>4 DEF RequestStep
<1> QED
  BY <1>1, <1>2, <1>3, <1>5, <1>6, <1>8 DEF ChannelShape, RowsAreNumbered, InstanceIsNamed

-----------------------------------------------------------------------------
(* WhatsApp: the steps *)

\* What everybody but the webhook leaves as it is: an instance that changes says so,
\* and CONNECTED is written only while the instance is open, or late.
InstanceCalm ==
  \/ device' = device /\ events' = events
  \/ device' \in Device /\ events' = events \cup {device'}
Calm ==
  /\ InstanceCalm /\ req'["webhook"] = req["webhook"]
  /\ (lost => lost') /\ (late => late')
  /\ row'.status = "CONNECTED" =>
       \/ row.status = "CONNECTED" /\ row'.gen = row.gen
       \/ device = "open" /\ device' = "open"
       \/ late'
Served == RowStep /\ RequestStep /\ CountStep /\ Calm

LEMMA CalmAnnounces ==
  ASSUME ChangeIsAnnounced, Calm
  PROVE  ChangeIsAnnounced'
BY DEF ChangeIsAnnounced, Calm, InstanceCalm

LEMMA WrittenStep ==
  ASSUME row \in RowType, NEW gen, NEW status \in Status, NEW inst \in BOOLEAN,
         Writes(gen, status, inst),
         status = "CONNECTED" => (row.gen = gen => row.inst)
  PROVE  /\ RowStep /\ row'.gen = row.gen
         /\ row'.status = row.status \/ row'.status = status
<1>1. CASE row' = row
  BY <1>1 DEF RowStep
<1>2. CASE row.gen = gen /\ row # NoRow /\ row' = [row EXCEPT !.status = status, !.inst = @ \/ inst, !.old = FALSE]
  <2>1. row' = [gen |-> row.gen, status |-> status, inst |-> (row.inst \/ inst), old |-> FALSE]
    BY <1>2 DEF RowType
  <2>2. row'.gen = row.gen /\ row'.status = status /\ (row'.inst <=> (row.inst \/ inst))
    BY <2>1
  <2>3. row' \in RowType
    BY <2>1 DEF RowType
  <2> QED
    BY <1>2, <2>2, <2>3 DEF RowStep
<1> QED
  BY <1>1, <1>2 DEF Writes, Written, Exists

LEMMA ReturnStep ==
  ASSUME NEW r \in Request, Return(r)
  PROVE  RequestStep
<1>1. Asks(r, Done)
  BY DEF Return, Asks
<1> QED
  BY <1>1 DEF RequestStep

LEMMA GotoStep ==
  ASSUME NEW r \in Request, NEW pc, Goto(r, pc), req[r] \in CallOf(r),
         [req[r] EXCEPT !.pc = pc] \in CallOf(r),
         r \in {"poll", "webhook"} /\ pc \in {"state", "write"} => Names(r)
  PROVE  RequestStep
<1> DEFINE c == [req[r] EXCEPT !.pc = pc]
<1>1. c.gen = req[r].gen /\ c.pc = pc
  BY DEF CallOf, PollCall, HookCall, PlainCall
<1>2. req[r] # Done
  BY DEF CallOf, PollCall, HookCall, PlainCall, Done
<1>3. Asks(r, c)
  BY <1>1, <1>2 DEF Goto, Asks
<1> QED
  BY <1>3 DEF RequestStep

LEMMA EnterStep ==
  ASSUME NEW r \in Request, NEW c \in CallOf(r), Enter(r, c), c.gen = row'.gen,
         r \in {"poll", "webhook"} /\ c.pc \in {"state", "write"} => row'.inst /\ row'.gen # 0
  PROVE  RequestStep
<1>1. Asks(r, c)
  BY DEF Enter, Asks
<1> QED
  BY <1>1 DEF RequestStep

\* The webhook's request is changed by the webhook alone.
LEMMA HookIsKept ==
  ASSUME RequestsAreTyped, NEW r \in Request \ {"webhook"}, NEW c, req' = [req EXCEPT ![r] = c]
  PROVE  req'["webhook"] = req["webhook"]
<1>1. "webhook" \in Request
  BY DEF Request
<1> QED
  BY <1>1 DEF RequestsAreTyped

LEMMA CallsAreTyped ==
  ASSUME RequestsAreTyped, NEW r \in Request, req[r].pc # "idle"
  PROVE  req[r] \in CallOf(r)
<1>1. req[r] # Done
  BY DEF Done
<1> QED
  BY <1>1 DEF RequestsAreTyped

LEMMA PlainMoves ==
  ASSUME NEW c \in PlainCall, NEW pc \in {"create", "status", "qr", "instance", "row", "write"}
  PROVE  [c EXCEPT !.pc = pc] \in PlainCall
BY DEF PlainCall

LEMMA PollMoves ==
  ASSUME NEW c \in PollCall, NEW pc \in {"state", "write", "answer"}
  PROVE  /\ [c EXCEPT !.pc = pc] \in PollCall
         /\ [c EXCEPT !.shown = "CONNECTED", !.pc = pc] \in PollCall
BY DEF PollCall, Status

LEMMA CountsOfSteps ==
  ASSUME MovesAreCounted
  PROVE  /\ UNCHANGED <<polling, ghosts, budget>> => CountStep
         /\ Move /\ UNCHANGED <<polling, ghosts>> => CountStep
         /\ Fault /\ UNCHANGED <<polling, ghosts>> => CountStep
<1>1. moves \in 0..MaxMoves /\ faults \in 0..MaxFaults /\ MaxMoves \in Nat /\ MaxFaults \in Nat
  BY ChannelAssumption DEF MovesAreCounted
<1>2. ASSUME NEW m \in 0..MaxMoves, m < MaxMoves PROVE m + 1 \in 0..MaxMoves /\ m + 1 >= m
  BY <1>1, <1>2
<1>3. ASSUME NEW m \in 0..MaxFaults, m < MaxFaults PROVE m + 1 \in 0..MaxFaults
  BY <1>1, <1>3
<1>4. moves >= moves
  BY <1>1
<1>5. ASSUME Move PROVE moves' \in 0..MaxMoves /\ moves' >= moves /\ faults' = faults
  BY <1>1, <1>2, <1>5 DEF Move
<1>6. ASSUME Fault PROVE faults' \in 0..MaxFaults /\ moves' = moves
  BY <1>1, <1>3, <1>6 DEF Fault
<1>7. polling \in BOOLEAN /\ lost \in BOOLEAN /\ late \in BOOLEAN
  BY DEF MovesAreCounted
<1>8. UNCHANGED <<polling, ghosts>> => polling' \in BOOLEAN /\ lost' \in BOOLEAN /\ late' \in BOOLEAN
  BY <1>7 DEF ghosts
<1> QED
  BY <1>1, <1>4, <1>5, <1>6, <1>8 DEF CountStep, budget

LEMMA RequestNames ==
  /\ "connect" \in Request \ {"webhook"} /\ "poll" \in Request \ {"webhook"}
  /\ "disconnect" \in Request \ {"webhook"} /\ "reset" \in Request \ {"webhook"}
  /\ "sweep" \in Request \ {"webhook"} /\ "webhook" \in Request
BY DEF Request

LEMMA ServedStep ==
  ASSUME RowStep, RequestStep, CountStep, InstanceCalm, req'["webhook"] = req["webhook"],
         lost => lost', late => late',
         row'.status = "CONNECTED" => row.status = "CONNECTED" /\ row'.gen = row.gen
  PROVE  Served
BY DEF Served, Calm

LEMMA ConnectServed ==
  ASSUME ChannelShape, Connect
  PROVE  Served
<1> DEFINE c == [pc |-> "create", gen |-> row'.gen]
<1>0. row \in RowType /\ moves \in Nat
  BY ChannelAssumption DEF ChannelShape, RowsAreNumbered, MovesAreCounted
<1>1. row' = row \/ (row' = NewRow /\ moves' = moves + 1)
  BY DEF Connect, NewRow, Move
<1>2. RowStep
  BY <1>1 DEF RowStep
<1>3. row'.gen \in Nat
  BY <1>0, <1>1 DEF RowType, NewRow
<1>4. c \in CallOf("connect")
  BY <1>3 DEF CallOf, PlainCall
<1>5. Enter("connect", c)
  BY DEF Connect
<1>6. RequestStep
  BY <1>4, <1>5, EnterStep, RequestNames
<1>7. CountStep
  BY CountsOfSteps DEF Connect, ChannelShape
<1>8. InstanceCalm /\ UNCHANGED ghosts
  BY DEF Connect, Same, InstanceCalm
<1>9. req'["webhook"] = req["webhook"]
  BY <1>5, HookIsKept, RequestNames DEF ChannelShape, Enter
<1>10. row'.status = "CONNECTED" => row.status = "CONNECTED" /\ row'.gen = row.gen
  BY <1>1 DEF NewRow
<1> QED
  BY <1>2, <1>6, <1>7, <1>8, <1>9, <1>10, ServedStep DEF ghosts

LEMMA BecomesCalm ==
  ASSUME NEW d \in Device, Becomes(d)
  PROVE  InstanceCalm
BY DEF Becomes, InstanceCalm

LEMMA ConnectProceeds ==
  ASSUME ChannelShape, CreateInstance \/ SetConnecting \/ ConnectQr \/ ConnectFails
  PROVE  Served
<1>0. row \in RowType /\ RequestsAreTyped /\ "connect" \in Request /\ polling \in BOOLEAN
  BY RequestNames DEF ChannelShape, RowsAreNumbered, MovesAreCounted
<1>1. req["connect"].pc # "idle" /\ req["connect"] \in CallOf("connect")
  BY <1>0, CallsAreTyped DEF CreateInstance, SetConnecting, ConnectQr, ConnectFails
<1>2. req["connect"] \in PlainCall
  BY <1>1 DEF CallOf
<1>3. ASSUME NEW pc \in {"status", "qr"}, Goto("connect", pc) PROVE RequestStep
  <2>1. [req["connect"] EXCEPT !.pc = pc] \in CallOf("connect")
    BY <1>2, <1>3, PlainMoves DEF CallOf
  <2> QED
    BY <1>0, <1>1, <1>3, <2>1, GotoStep
<1>4. ASSUME NEW pc, Goto("connect", pc) \/ Return("connect") PROVE req'["webhook"] = req["webhook"]
  BY <1>0, <1>4, HookIsKept, RequestNames DEF Goto, Return
<1>5. CASE CreateInstance
  <2>1. RequestStep /\ req'["webhook"] = req["webhook"]
    BY <1>3, <1>4, <1>5 DEF CreateInstance
  <2>2. InstanceCalm
    BY <1>5, BecomesCalm DEF CreateInstance, Same, InstanceCalm, Device
  <2>3. CountStep /\ RowStep /\ UNCHANGED ghosts /\ row' = row
    BY <1>5, CountsOfSteps DEF CreateInstance, ChannelShape, RowStep
  <2> QED
    BY <2>1, <2>2, <2>3, ServedStep DEF ghosts
<1>6. CASE SetConnecting
  <2>1. RequestStep /\ req'["webhook"] = req["webhook"]
    BY <1>0, <1>3, <1>4, <1>6, ReturnStep DEF SetConnecting
  <2>2. InstanceCalm /\ CountStep /\ UNCHANGED ghosts
    BY <1>6, CountsOfSteps DEF SetConnecting, Same, InstanceCalm, ChannelShape
  <2>3. Writes(req["connect"].gen, "CONNECTING", TRUE)
    BY <1>6 DEF SetConnecting
  <2>4. RowStep /\ row'.gen = row.gen /\ (row'.status = row.status \/ row'.status = "CONNECTING")
    BY <1>0, <2>3, WrittenStep DEF Status
  <2> QED
    BY <2>1, <2>2, <2>4, ServedStep DEF ghosts
<1>7. CASE ConnectQr
  <2>1. RequestStep /\ req'["webhook"] = req["webhook"]
    BY <1>0, <1>4, <1>7, ReturnStep DEF ConnectQr
  <2>2. InstanceCalm
    BY <1>7, BecomesCalm DEF ConnectQr, GetQr, Same, InstanceCalm, Device
  <2>3. UNCHANGED <<row, ghosts, budget>> /\ polling' = TRUE
    BY <1>7 DEF ConnectQr
  <2>4. RowStep
    BY <2>3 DEF RowStep
  <2>5. CountStep
    BY <2>3, ChannelAssumption DEF CountStep, ghosts, budget, ChannelShape, MovesAreCounted
  <2> QED
    BY <2>1, <2>2, <2>3, <2>4, <2>5, ServedStep DEF ghosts
<1>8. CASE ConnectFails
  <2>1. RequestStep /\ req'["webhook"] = req["webhook"]
    BY <1>0, <1>4, <1>8, ReturnStep DEF ConnectFails
  <2>2. InstanceCalm /\ CountStep /\ UNCHANGED ghosts
    BY <1>8, CountsOfSteps DEF ConnectFails, Same, InstanceCalm, ChannelShape
  <2>3. Writes(req["connect"].gen, "ERROR", FALSE)
    BY <1>8 DEF ConnectFails
  <2>4. RowStep /\ row'.gen = row.gen /\ (row'.status = row.status \/ row'.status = "ERROR")
    BY <1>0, <2>3, WrittenStep DEF Status
  <2> QED
    BY <2>1, <2>2, <2>4, ServedStep DEF ghosts
<1> QED
  BY <1>5, <1>6, <1>7, <1>8

LEMMA PollServed ==
  ASSUME ChannelShape, Poll
  PROVE  Served
<1> DEFINE c == [pc |-> IF row.inst THEN "state" ELSE "answer", gen |-> row.gen,
                 status |-> row.status, shown |-> row.status]
<1>0. /\ row \in RowType /\ (row.gen = 0 <=> row = NoRow) /\ RequestsAreTyped /\ MovesAreCounted
      /\ "poll" \in Request
  BY RequestNames DEF ChannelShape, RowsAreNumbered
<1>1. row' = row /\ Enter("poll", c) /\ Same /\ UNCHANGED <<polling, ghosts, budget>>
  BY DEF Poll, Polled
<1>2. row.gen \in Nat /\ row.status \in Status \cup {"NONE"}
  BY <1>0 DEF RowType
<1>3. c \in PollCall
  BY <1>2 DEF PollCall
<1>4. c \in CallOf("poll")
  BY <1>3 DEF CallOf
<1>5. c.pc \in {"state", "write"} => row.inst /\ row.gen # 0
  <2>1. CASE row.inst
    BY <1>0, <2>1 DEF NoRow
  <2>2. CASE ~row.inst
    BY <2>2
  <2> QED
    BY <2>1, <2>2
<1>6. c.gen = row.gen
  OBVIOUS
<1> HIDE DEF c
<1>7. RequestStep
  BY <1>0, <1>1, <1>4, <1>5, <1>6, EnterStep
<1>8. RowStep /\ CountStep /\ InstanceCalm /\ UNCHANGED ghosts
  BY <1>0, <1>1, CountsOfSteps DEF RowStep, Same, InstanceCalm
<1>9. req'["webhook"] = req["webhook"]
  BY <1>0, <1>1, HookIsKept, RequestNames DEF Enter
<1> QED
  BY <1>1, <1>7, <1>8, <1>9, ServedStep DEF ghosts

LEMMA PollProceeds ==
  ASSUME ChannelShape, PollState \/ PollWrite \/ PollAnswer \/ PollFails
  PROVE  Served
<1>0. /\ row \in RowType /\ RequestsAreTyped /\ "poll" \in Request /\ MovesAreCounted
      /\ polling \in BOOLEAN
  BY RequestNames DEF ChannelShape, RowsAreNumbered, MovesAreCounted
<1>1. req["poll"].pc # "idle" /\ req["poll"] \in CallOf("poll")
  BY <1>0, CallsAreTyped DEF PollState, PollWrite, PollAnswer, PollFails
<1>2. req["poll"] \in PollCall
  BY <1>1 DEF CallOf
<1>3. ASSUME NEW pc \in {"state", "write", "answer"}, Goto("poll", pc), pc = "answer"
      PROVE RequestStep
  <2>1. [req["poll"] EXCEPT !.pc = pc] \in CallOf("poll")
    BY <1>2, <1>3, PollMoves DEF CallOf
  <2> QED
    BY <1>0, <1>1, <1>3, <2>1, GotoStep
<1>4. ASSUME NEW c, req' = [req EXCEPT !["poll"] = c] PROVE req'["webhook"] = req["webhook"]
  BY <1>0, <1>4, HookIsKept, RequestNames
<1>10. ASSUME Caught, req["poll"].pc \in {"state", "write"}
       PROVE  RequestStep /\ req'["webhook"] = req["webhook"] /\ InstanceCalm /\ row' = row /\ late' = late
  <2> DEFINE c == [req["poll"] EXCEPT !.pc = "answer", !.shown = req["poll"].status]
  <2>1. c \in CallOf("poll") /\ c.gen = req["poll"].gen
    BY <1>2 DEF CallOf, PollCall
  <2>2. req' = [req EXCEPT !["poll"] = c] /\ GetQr("poll") /\ row' = row /\ late' = late
    BY <1>10 DEF Caught
  <2>3. Names("poll") /\ req["poll"] # Done
    BY <1>1, <1>10 DEF Names, Done
  <2> HIDE DEF c
  <2>4. Asks("poll", c)
    BY <2>1, <2>2, <2>3 DEF Asks
  <2>5. RequestStep
    BY <1>0, <2>4 DEF RequestStep
  <2>6. InstanceCalm
    BY <2>2, BecomesCalm DEF GetQr, Same, InstanceCalm, Device
  <2> QED
    BY <1>4, <2>2, <2>5, <2>6
<1>5. CASE PollState
  <2>0. row' = row /\ UNCHANGED <<polling, ghosts, budget>> /\ req["poll"].pc = "state"
    BY <1>5 DEF PollState
  <2>1. RowStep /\ CountStep /\ UNCHANGED ghosts
    BY <1>0, <2>0, CountsOfSteps DEF RowStep
  <2>2. CASE IsOpen(req["poll"])
    <3>1. PICK pc \in {"answer", "write"} :
            req' = [req EXCEPT !["poll"] = [req["poll"] EXCEPT !.shown = "CONNECTED", !.pc = pc]]
      BY <1>5, <2>2 DEF PollState
    <3> DEFINE c == [req["poll"] EXCEPT !.shown = "CONNECTED", !.pc = pc]
    <3>2. c \in CallOf("poll")
      BY <1>2, PollMoves DEF CallOf
    <3>3. c.gen = req["poll"].gen
      BY <1>2 DEF PollCall
    <3>4. Names("poll") /\ req["poll"] # Done
      BY <1>1, <2>0 DEF Names, Done
    <3>5. req' = [req EXCEPT !["poll"] = c]
      BY <3>1
    <3> HIDE DEF c
    <3>6. Asks("poll", c)
      BY <3>2, <3>3, <3>4, <3>5 DEF Asks
    <3>7. RequestStep
      BY <1>0, <3>6 DEF RequestStep
    <3>8. InstanceCalm
      BY <1>5, <2>2 DEF PollState, Same, InstanceCalm
    <3> QED
      BY <1>4, <2>0, <2>1, <3>5, <3>7, <3>8, ServedStep DEF ghosts
  <2>3. CASE ~IsOpen(req["poll"])
    <3>1. Goto("poll", "answer") /\ GetQr("poll")
      BY <1>5, <2>3 DEF PollState
    <3>2. InstanceCalm
      BY <3>1, BecomesCalm DEF GetQr, Same, InstanceCalm, Device
    <3>3. RequestStep /\ req'["webhook"] = req["webhook"]
      BY <1>3, <1>4, <3>1 DEF Goto
    <3> QED
      BY <2>0, <2>1, <3>2, <3>3, ServedStep DEF ghosts
  <2> QED
    BY <2>2, <2>3
<1>6. CASE PollWrite
  <2>1. CASE row.gen = req["poll"].gen
    <3>1. /\ Goto("poll", "answer") /\ Writes(req["poll"].gen, "CONNECTED", FALSE)
          /\ late' = (late \/ device # "open") /\ Same /\ UNCHANGED <<polling, lost, budget>>
          /\ req["poll"].pc = "write"
      BY <1>6, <2>1 DEF PollWrite
    <3>2. RequestStep /\ req'["webhook"] = req["webhook"]
      BY <1>3, <1>4, <3>1 DEF Goto
    <3>3. req["poll"].gen = row.gen => row.inst
      BY <3>1 DEF ChannelShape, InstanceIsNamed, Names
    <3>4. RowStep /\ row'.gen = row.gen
      BY <1>0, <3>1, <3>3, WrittenStep DEF Status
    <3>5. CountStep
      BY <1>0, <3>1, ChannelAssumption DEF CountStep, budget, MovesAreCounted
    <3>6. InstanceCalm /\ device' = device
      BY <3>1 DEF Same, InstanceCalm
    <3>7. row'.status = "CONNECTED" => \/ row.status = "CONNECTED" /\ row'.gen = row.gen
                                       \/ device = "open" /\ device' = "open"
                                       \/ late'
      BY <3>1, <3>6
    <3> QED
      BY <3>1, <3>2, <3>4, <3>5, <3>6, <3>7 DEF Served, Calm
  <2>2. CASE row.gen # req["poll"].gen
    <3>1. Caught /\ req["poll"].pc = "write" /\ UNCHANGED <<polling, lost, budget>>
      BY <1>6, <2>2 DEF PollWrite
    <3>2. RequestStep /\ req'["webhook"] = req["webhook"] /\ InstanceCalm /\ row' = row /\ late' = late
      BY <1>10, <3>1
    <3>3. RowStep /\ CountStep /\ UNCHANGED ghosts
      BY <1>0, <3>1, <3>2, CountsOfSteps DEF RowStep, ghosts
    <3> QED
      BY <3>2, <3>3, ServedStep DEF ghosts
  <2> QED
    BY <2>1, <2>2
<1>7. CASE PollAnswer
  <2>1. /\ Return("poll") /\ Same /\ UNCHANGED <<row, ghosts, budget>>
        /\ polling' = (polling /\ req["poll"].shown # "CONNECTED")
    BY <1>7 DEF PollAnswer
  <2>2. RequestStep /\ req'["webhook"] = req["webhook"]
    BY <1>0, <1>4, <2>1, ReturnStep DEF Return
  <2>3. polling' \in BOOLEAN
    BY <2>1
  <2>4. RowStep /\ InstanceCalm
    BY <2>1 DEF RowStep, Same, InstanceCalm
  <2>5. CountStep
    BY <1>0, <2>1, <2>3, ChannelAssumption DEF CountStep, ghosts, budget, MovesAreCounted
  <2> QED
    BY <2>1, <2>2, <2>4, <2>5, ServedStep DEF ghosts
<1>8. CASE PollFails
  <2>1. Fault /\ UNCHANGED <<row, polling, ghosts>>
    BY <1>8 DEF PollFails
  <2>2. RequestStep /\ req'["webhook"] = req["webhook"] /\ InstanceCalm
    <3>1. CASE req["poll"].pc \in {"state", "write"} /\ Caught
      BY <1>10, <3>1
    <3>2. CASE req["poll"].pc = "answer" /\ Return("poll") /\ Same
      BY <1>0, <1>4, <3>2, ReturnStep DEF Return, Same, InstanceCalm
    <3> QED
      BY <1>8, <3>1, <3>2 DEF PollFails
  <2>3. RowStep /\ CountStep
    BY <1>0, <2>1, CountsOfSteps DEF RowStep
  <2> QED
    BY <2>1, <2>2, <2>3, ServedStep DEF ghosts
<1> QED
  BY <1>5, <1>6, <1>7, <1>8

LEMMA LeaveServed ==
  ASSUME ChannelShape, NEW r \in Request, Ask(r) \/ LeaveInstance(r) \/ LeaveFails(r) \/ LeaveRow(r)
  PROVE  Served
<1>0. /\ row \in RowType /\ RequestsAreTyped /\ MovesAreCounted /\ r \in {"disconnect", "reset"}
      /\ r \in Request \ {"webhook"} /\ r # "poll"
  <2>1. r \in {"disconnect", "reset"}
    BY DEF Ask, LeaveInstance, LeaveFails, LeaveRow
  <2> QED
    BY <2>1, RequestNames DEF ChannelShape, RowsAreNumbered
<1>1. ASSUME NEW c, req' = [req EXCEPT ![r] = c] PROVE req'["webhook"] = req["webhook"]
  BY <1>0, <1>1, HookIsKept
<1>2. ASSUME Goto(r, "row"), req[r].pc = "instance" PROVE RequestStep /\ req'["webhook"] = req["webhook"]
  <2>1. req[r] \in PlainCall
    BY <1>0, <1>2, CallsAreTyped DEF CallOf
  <2>2. [req[r] EXCEPT !.pc = "row"] \in PlainCall
    BY <2>1, PlainMoves
  <2> QED
    BY <1>0, <1>1, <1>2, <2>1, <2>2, GotoStep DEF Goto, CallOf
<1>3. CASE Ask(r)
  <2> DEFINE c == [pc |-> IF row.inst THEN "instance" ELSE "row", gen |-> row.gen]
  <2>1. /\ Enter(r, c) /\ Move /\ polling' = FALSE /\ Same /\ UNCHANGED <<row, ghosts>>
    BY <1>3 DEF Ask
  <2>2. c \in CallOf(r)
    BY <1>0 DEF PlainCall, RowType, CallOf
  <2>3. c.gen = row.gen
    OBVIOUS
  <2> HIDE DEF c
  <2>4. RequestStep /\ req'["webhook"] = req["webhook"]
    BY <1>0, <1>1, <2>1, <2>2, <2>3, EnterStep DEF Enter
  <2>5. moves' \in 0..MaxMoves /\ moves' >= moves /\ faults' = faults
    <3>1. \A m \in 0..MaxMoves : m < MaxMoves => m + 1 \in 0..MaxMoves /\ m + 1 >= m
      BY ChannelAssumption
    <3> QED
      BY <1>0, <2>1, <3>1 DEF Move, MovesAreCounted
  <2>6. CountStep
    BY <1>0, <2>1, <2>5 DEF CountStep, ghosts, MovesAreCounted
  <2>7. RowStep /\ InstanceCalm
    BY <2>1 DEF RowStep, Same, InstanceCalm
  <2> QED
    BY <2>1, <2>4, <2>6, <2>7, ServedStep DEF ghosts
<1>4. CASE LeaveInstance(r)
  <2>1. Goto(r, "row") /\ req[r].pc = "instance" /\ UNCHANGED <<row, polling, ghosts, budget>>
    BY <1>4 DEF LeaveInstance
  <2>2. Same \/ Becomes("close") \/ Becomes("none")
    BY <1>4 DEF LeaveInstance
  <2>3. InstanceCalm
    BY <2>2, BecomesCalm DEF Same, InstanceCalm, Device
  <2>4. RowStep /\ CountStep
    BY <1>0, <2>1, CountsOfSteps DEF RowStep
  <2> QED
    BY <1>2, <2>1, <2>3, <2>4, ServedStep DEF ghosts
<1>5. CASE LeaveFails(r)
  <2>1. Goto(r, "row") /\ req[r].pc = "instance" /\ UNCHANGED <<row, polling, ghosts>> /\ Same /\ Fault
    BY <1>5 DEF LeaveFails
  <2>2. RowStep /\ CountStep /\ InstanceCalm
    BY <1>0, <2>1, CountsOfSteps DEF RowStep, Same, InstanceCalm
  <2> QED
    BY <1>2, <2>1, <2>2, ServedStep DEF ghosts
<1>6. CASE LeaveRow(r)
  <2>1. /\ Return(r) /\ Same /\ UNCHANGED <<polling, ghosts, budget>>
        /\ \/ Writes(req[r].gen, "DISCONNECTED", FALSE)
           \/ row' = NoRow \/ row' = row
    BY <1>6 DEF LeaveRow
  <2>2. RequestStep /\ req'["webhook"] = req["webhook"]
    BY <1>0, <1>1, <2>1, ReturnStep DEF Return
  <2>3. InstanceCalm /\ CountStep
    BY <1>0, <2>1, CountsOfSteps DEF Same, InstanceCalm
  <2>4. RowStep /\ (row'.status = "CONNECTED" => row.status = "CONNECTED" /\ row'.gen = row.gen)
    <3>1. CASE Writes(req[r].gen, "DISCONNECTED", FALSE)
      <4>1. RowStep /\ row'.gen = row.gen /\ (row'.status = row.status \/ row'.status = "DISCONNECTED")
        BY <1>0, <3>1, WrittenStep DEF Status
      <4> QED
        BY <4>1
    <3>2. CASE row' = NoRow \/ row' = row
      BY <3>2 DEF RowStep, NoRow
    <3> QED
      BY <2>1, <3>1, <3>2
  <2> QED
    BY <2>1, <2>2, <2>3, <2>4, ServedStep DEF ghosts
<1> QED
  BY <1>3, <1>4, <1>5, <1>6

LEMMA SweepServed ==
  ASSUME ChannelShape, Age \/ Sweep \/ SweepWrite
  PROVE  Served
<1>0. /\ row \in RowType /\ RequestsAreTyped /\ MovesAreCounted /\ "sweep" \in Request
      /\ (row.status = "NONE" <=> row.gen = 0)
  BY RequestNames DEF ChannelShape, RowsAreNumbered
<1>1. ASSUME NEW c, req' = [req EXCEPT !["sweep"] = c] PROVE req'["webhook"] = req["webhook"]
  BY <1>0, <1>1, HookIsKept, RequestNames
<1>2. CASE Age
  <2>1. /\ row.status = "CONNECTING" /\ row' = [row EXCEPT !.old = TRUE]
        /\ UNCHANGED <<device, events, req, polling, ghosts, budget>>
    BY <1>2 DEF Age
  <2>2. /\ row'.gen = row.gen /\ row'.status = "CONNECTING" /\ row'.inst = row.inst /\ row' \in RowType
    BY <1>0, <2>1 DEF RowType
  <2>3. RowStep
    BY <2>1, <2>2 DEF RowStep, Status, NoRow
  <2>4. CountStep /\ RequestStep /\ InstanceCalm
    BY <1>0, <2>1, CountsOfSteps DEF RequestStep, InstanceCalm
  <2> QED
    BY <2>1, <2>2, <2>3, <2>4, ServedStep DEF ghosts
<1>3. CASE Sweep
  <2> DEFINE c == [pc |-> "write", gen |-> row.gen]
  <2>1. Enter("sweep", c) /\ Same /\ UNCHANGED <<row, polling, ghosts, budget>>
    BY <1>3 DEF Sweep
  <2>2. c \in CallOf("sweep") /\ c.gen = row.gen
    BY <1>0 DEF CallOf, PlainCall, RowType
  <2> HIDE DEF c
  <2>3. RequestStep /\ req'["webhook"] = req["webhook"]
    BY <1>0, <1>1, <2>1, <2>2, EnterStep DEF Enter
  <2>4. CountStep /\ RowStep /\ InstanceCalm
    BY <1>0, <2>1, CountsOfSteps DEF RowStep, Same, InstanceCalm
  <2> QED
    BY <2>1, <2>3, <2>4, ServedStep DEF ghosts
<1>4. CASE SweepWrite
  <2>1. /\ Return("sweep") /\ Same /\ UNCHANGED <<polling, ghosts, budget>>
        /\ Writes(req["sweep"].gen, "DISCONNECTED", FALSE)
    BY <1>4 DEF SweepWrite
  <2>2. RequestStep /\ req'["webhook"] = req["webhook"]
    BY <1>0, <1>1, <2>1, ReturnStep DEF Return
  <2>3. InstanceCalm /\ CountStep
    BY <1>0, <2>1, CountsOfSteps DEF Same, InstanceCalm
  <2>4. RowStep /\ row'.gen = row.gen /\ (row'.status = row.status \/ row'.status = "DISCONNECTED")
    BY <1>0, <2>1, WrittenStep DEF Status
  <2> QED
    BY <2>1, <2>2, <2>3, <2>4, ServedStep DEF ghosts
<1> QED
  BY <1>2, <1>3, <1>4

LEMMA AdminServed ==
  ASSUME ChannelShape, AdminDisconnect \/ AdminDelete \/ Scan \/ LogOut
  PROVE  Served
<1>0. row \in RowType /\ MovesAreCounted
  BY DEF ChannelShape, RowsAreNumbered
<1>1. Move /\ UNCHANGED <<req, polling, ghosts>>
  BY DEF AdminDisconnect, AdminDelete, Scan, LogOut
<1>2. CountStep /\ RequestStep
  BY <1>0, <1>1, CountsOfSteps DEF RequestStep
<1>3. Same \/ Becomes("open") \/ Becomes("close")
  BY DEF AdminDisconnect, AdminDelete, Scan, LogOut
<1>4. InstanceCalm
  BY <1>3, BecomesCalm DEF Same, InstanceCalm, Device
<1>5. Writes(row.gen, "DISCONNECTED", FALSE) \/ row' = NoRow \/ row' = row
  BY DEF AdminDisconnect, AdminDelete, Scan, LogOut
<1>6. RowStep /\ (row'.status = "CONNECTED" => row.status = "CONNECTED" /\ row'.gen = row.gen)
  <2>1. CASE Writes(row.gen, "DISCONNECTED", FALSE)
    <3>1. RowStep /\ row'.gen = row.gen /\ (row'.status = row.status \/ row'.status = "DISCONNECTED")
      BY <1>0, <2>1, WrittenStep DEF Status
    <3> QED
      BY <3>1
  <2>2. CASE row' = NoRow \/ row' = row
    BY <2>2 DEF RowStep, NoRow
  <2> QED
    BY <1>5, <2>1, <2>2
<1> QED
  BY <1>1, <1>2, <1>4, <1>6, ServedStep DEF ghosts

LEMMA StatusOfEvents ==
  ASSUME NEW e \in Device
  PROVE  /\ StatusOf(e) \in Status /\ (e # "open" => StatusOf(e) # "CONNECTED")
<1>1. CASE e = "open"
  BY <1>1 DEF StatusOf, Status
<1>2. CASE e \in {"close", "none"}
  <2>1. StatusOf(e) = "DISCONNECTED"
    BY <1>2 DEF StatusOf
  <2> QED
    BY <2>1 DEF Status
<1>3. CASE e = "connecting"
  <2>1. StatusOf(e) = "CONNECTING"
    BY <1>3 DEF StatusOf
  <2> QED
    BY <2>1 DEF Status
<1> QED
  BY <1>1, <1>2, <1>3 DEF Device

\* The webhook takes an event into its request, or writes what it took.
LEMMA WebhookStep ==
  ASSUME ChannelShape, ChangeIsAnnounced, Webhook \/ WebhookWrite
  PROVE  RowStep /\ RequestStep /\ InstanceStep /\ CountStep /\ ChangeIsAnnounced'
<1>0. /\ row \in RowType /\ RequestsAreTyped /\ MovesAreCounted /\ "webhook" \in Request
      /\ (row.gen = 0 <=> row = NoRow) /\ (row.status = "CONNECTED" => row.inst)
  BY RequestNames DEF ChannelShape, RowsAreNumbered, InstanceIsNamed
<1>1. ASSUME NEW e \in events, events' = events \ {e}, UNCHANGED device,
             Enter("webhook", IF row.inst THEN [pc |-> "write", gen |-> row.gen, state |-> e] ELSE Done),
             UNCHANGED <<row, polling, ghosts, budget>>
      PROVE  RowStep /\ RequestStep /\ InstanceStep /\ CountStep /\ ChangeIsAnnounced'
  <2>1. RowStep /\ InstanceStep /\ CountStep
    BY <1>0, <1>1, CountsOfSteps DEF RowStep, InstanceStep
  <2>2. req["webhook"].pc = "idle"
    BY <1>1 DEF Enter, Done
  <2>3. CASE row.inst
    <3> DEFINE c == [pc |-> "write", gen |-> row.gen, state |-> e]
    <3>1. c \in HookCall
      BY <1>0, <1>1 DEF HookCall, RowType, MovesAreCounted
    <3>2. c \in CallOf("webhook")
      BY <3>1 DEF CallOf
    <3>3. c.gen = row.gen /\ c.state = e /\ c.pc = "write"
      OBVIOUS
    <3>4. Enter("webhook", c)
      BY <1>1, <2>3
    <3> HIDE DEF c
    <3>5. row.gen # 0
      BY <1>0, <2>3 DEF NoRow
    <3>6. RequestStep
      BY <1>0, <1>1, <2>3, <3>2, <3>3, <3>4, <3>5, EnterStep
    <3>7. req'["webhook"] = c
      BY <1>0, <3>4 DEF Enter, RequestsAreTyped
    <3>8. ChangeIsAnnounced'
      BY <1>1, <2>2, <3>3, <3>7 DEF ChangeIsAnnounced, ghosts
    <3> QED
      BY <2>1, <3>6, <3>8
  <2>4. CASE ~row.inst
    <3>1. Asks("webhook", Done)
      BY <1>1, <2>4 DEF Enter, Asks
    <3>2. RequestStep
      BY <1>0, <3>1 DEF RequestStep
    <3>3. ChangeIsAnnounced'
      BY <1>0, <1>1, <2>4 DEF ChangeIsAnnounced
    <3> QED
      BY <2>1, <3>2, <3>3
  <2> QED
    BY <2>3, <2>4
<1>2. CASE WebhookWrite
  <2> DEFINE e == req["webhook"].state
             g == req["webhook"].gen
  <2>1. /\ req["webhook"].pc = "write" /\ Return("webhook") /\ Writes(g, StatusOf(e), FALSE)
        /\ late' = (late \/ device # e) /\ Same /\ UNCHANGED <<polling, lost, budget>>
    BY <1>2 DEF WebhookWrite
  <2>2. req["webhook"] \in CallOf("webhook")
    BY <1>0, <2>1, CallsAreTyped
  <2>3. e \in Device
    BY <2>2 DEF CallOf, HookCall
  <2>4. g = row.gen => row.inst
    BY <2>1 DEF ChannelShape, InstanceIsNamed, Names
  <2> HIDE DEF e, g
  <2>5. RowStep /\ row'.gen = row.gen
    BY <1>0, <2>1, <2>3, <2>4, WrittenStep, StatusOfEvents
  <2>6. RequestStep
    BY <1>0, <2>1, ReturnStep
  <2>7. InstanceStep
    BY <2>1 DEF Same, InstanceStep
  <2>8. late' \in BOOLEAN
    BY <2>1
  <2>9. CountStep
    BY <1>0, <2>1, <2>8, ChannelAssumption DEF CountStep, budget, MovesAreCounted
  <2>10. ASSUME row'.status = "CONNECTED", ~lost', ~late', device' # "open"
         PROVE  device' \in events'
    <3>1. device = e /\ ~late /\ ~lost /\ device' = device /\ events' = events /\ e # "open"
      BY <2>1, <2>10 DEF Same
    <3>2. StatusOf(e) # "CONNECTED"
      BY <2>3, <3>1, StatusOfEvents
    <3>3. CASE row.gen = g /\ row # NoRow
      <4>1. row' = [row EXCEPT !.status = StatusOf(e), !.inst = @ \/ FALSE, !.old = FALSE]
        BY <2>1, <3>3 DEF Writes, Written, Exists
      <4>2. row'.status = StatusOf(e)
        BY <1>0, <4>1 DEF RowType
      <4> QED
        BY <2>10, <3>2, <4>2
    <3>4. CASE ~(row.gen = g /\ row # NoRow)
      <4>1. row' = row
        BY <2>1, <3>4 DEF Writes, Written, Exists
      <4>2. row # NoRow /\ row.status = "CONNECTED"
        BY <2>10, <4>1 DEF NoRow
      <4>3. g # row.gen
        BY <3>4, <4>2
      <4>4. req["webhook"].gen # row.gen
        BY <4>3 DEF g
      <4> QED
        BY <2>10, <3>1, <4>2, <4>4 DEF ChangeIsAnnounced
    <3> QED
      BY <3>3, <3>4
  <2>11. ChangeIsAnnounced'
    BY <2>10 DEF ChangeIsAnnounced
  <2> QED
    BY <2>5, <2>6, <2>7, <2>9, <2>11
<1> QED
  BY <1>1, <1>2 DEF Webhook

LEMMA EventLostStep ==
  ASSUME ChannelShape, EventLost
  PROVE  RowStep /\ RequestStep /\ InstanceStep /\ CountStep /\ ChangeIsAnnounced'
<1>1. /\ Fault /\ lost' = TRUE /\ UNCHANGED <<row, device, polling, late>>
      /\ events' \subseteq events /\ (UNCHANGED req \/ Return("webhook"))
  BY DEF EventLost
<1>2. RequestStep
  BY <1>1, ReturnStep, RequestNames DEF RequestStep
<1>3. ChangeIsAnnounced'
  BY <1>1 DEF ChangeIsAnnounced
<1>4. faults' \in 0..MaxFaults /\ moves' = moves
  <2>1. \A f \in 0..MaxFaults : f < MaxFaults => f + 1 \in 0..MaxFaults
    BY ChannelAssumption
  <2> QED
    BY <1>1, <2>1 DEF Fault, ChannelShape, MovesAreCounted
<1>5. CountStep
  BY <1>1, <1>4, ChannelAssumption DEF CountStep, ChannelShape, MovesAreCounted
<1> QED
  BY <1>1, <1>2, <1>3, <1>5 DEF RowStep, InstanceStep

ChannelInv == ChannelShape /\ ChangeIsAnnounced

LEMMA ChannelSteps ==
  ASSUME ChannelInv, ChannelNext
  PROVE  ChannelInv'
<1>1. ASSUME Served PROVE ChannelInv'
  <2>1. InstanceStep
    BY <1>1 DEF Served, Calm, InstanceCalm, InstanceStep
  <2> QED
    BY <1>1, <2>1, ChannelStepKeepsShape, CalmAnnounces DEF Served, ChannelInv
<1>2. CASE Connect \/ CreateInstance \/ SetConnecting \/ ConnectQr \/ ConnectFails
  BY <1>1, <1>2, ConnectServed, ConnectProceeds DEF ChannelInv
<1>3. CASE Poll \/ PollState \/ PollWrite \/ PollAnswer \/ PollFails
  BY <1>1, <1>3, PollServed, PollProceeds DEF ChannelInv
<1>4. ASSUME NEW r \in Request, Ask(r) \/ LeaveInstance(r) \/ LeaveFails(r) \/ LeaveRow(r)
      PROVE  ChannelInv'
  BY <1>1, <1>4, LeaveServed DEF ChannelInv
<1>5. CASE Age \/ Sweep \/ SweepWrite
  BY <1>1, <1>5, SweepServed DEF ChannelInv
<1>6. CASE AdminDisconnect \/ AdminDelete \/ Scan \/ LogOut
  BY <1>1, <1>6, AdminServed DEF ChannelInv
<1>7. CASE Webhook \/ WebhookWrite \/ EventLost
  <2>1. RowStep /\ RequestStep /\ InstanceStep /\ CountStep /\ ChangeIsAnnounced'
    BY <1>7, WebhookStep, EventLostStep DEF ChannelInv
  <2> QED
    BY <2>1, ChannelStepKeepsShape DEF ChannelInv
<1> QED
  BY <1>2, <1>3, <1>4, <1>5, <1>6, <1>7 DEF ChannelNext, Serve

LEMMA ChannelStarts ==
  ASSUME ChannelInit
  PROVE  ChannelInv
<1>0. MaxMoves \in Nat /\ MaxFaults \in Nat
  BY ChannelAssumption
<1>1. MovesAreCounted
  <2>1. device \in {"none", "open"} /\ events = {} /\ polling = FALSE
    BY DEF ChannelInit
  <2>2. lost = FALSE /\ late = FALSE
    BY DEF ChannelInit
  <2>3. moves \in 0..MaxMoves /\ faults \in 0..MaxFaults
    BY <1>0 DEF ChannelInit
  <2> QED
    BY <2>1, <2>2, <2>3 DEF MovesAreCounted, Device
<1>2. req = [r \in Request |-> Done]
  BY DEF ChannelInit
<1>3. RequestsAreTyped
  BY <1>2 DEF RequestsAreTyped
<1>4. row \in RowType /\ (row.gen = 0 <=> row = NoRow) /\ (row.status = "NONE" <=> row.gen = 0)
  <2>1. CASE row = NoRow
    BY <2>1 DEF NoRow, RowType
  <2>2. CASE row = Paired
    BY <2>2 DEF Paired, NoRow, RowType, Status
  <2> QED
    BY <2>1, <2>2 DEF ChannelInit
<1>5. row.gen <= moves + 1
  BY DEF ChannelInit, NoRow, Paired
<1>6. RowsAreNumbered
  BY <1>2, <1>4, <1>5 DEF RowsAreNumbered
<1>7. row.status = "CONNECTED" => row.inst
  BY DEF ChannelInit, NoRow, Paired
<1>8. InstanceIsNamed
  BY <1>2, <1>7 DEF InstanceIsNamed, Names, Done, Request
<1>9. ChangeIsAnnounced
  BY DEF ChannelInit, ChangeIsAnnounced, NoRow
<1> QED
  BY <1>1, <1>3, <1>6, <1>8, <1>9 DEF ChannelInv, ChannelShape

LEMMA ChannelHolds ==
  ASSUME ChannelInv
  PROVE  ChannelTypeOK /\ ConnectedIsOpen
<1>0. MaxMoves \in Nat
  BY ChannelAssumption
<1>1. row.status \in Status \cup {"NONE"} /\ (row.status = "NONE" <=> row.gen = 0)
  BY DEF ChannelInv, ChannelShape, RowsAreNumbered, RowType
<1>2. row.gen \in Nat /\ row.gen <= moves + 1 /\ moves \in 0..MaxMoves
  BY DEF ChannelInv, ChannelShape, RowsAreNumbered, MovesAreCounted, RowType
<1>3. row.gen \in 0..MaxMoves + 1
  BY <1>0, <1>2
<1>4. ASSUME NEW r \in Request
      PROVE req[r].pc \in {"idle", "create", "status", "qr", "state", "write", "answer", "instance", "row"}
  BY DEF ChannelInv, ChannelShape, RequestsAreTyped, CallOf, PollCall, HookCall, PlainCall, Done
<1>5. ChannelTypeOK
  BY <1>1, <1>3, <1>4 DEF ChannelTypeOK, ChannelInv, ChannelShape, MovesAreCounted
<1>6. ConnectedIsOpen
  <2>1. req["webhook"] = Done => req["webhook"].pc # "write"
    BY DEF Done
  <2> QED
    BY <2>1, RequestNames DEF ConnectedIsOpen, ChannelInv, ChangeIsAnnounced
<1> QED
  BY <1>5, <1>6

-----------------------------------------------------------------------------
(* Telegram: the place of the poller *)

Top == IF last > confirmed THEN last ELSE confirmed
Handling == at \notin {"poll", "next"}
\* The updates whose handler is behind, and those whose row would be stored.
Past == IF Handling THEN last - 1 ELSE Top
RowsKept == IF at = "inbound" THEN Past + 1 ELSE Past

\* The batch continues where the handlers stand; whatever is behind has ended, and
\* Telegram was never told of more.
BatchInOrder ==
  /\ arrived \in 0..Len(Updates) /\ confirmed \in 0..arrived /\ last \in 0..arrived /\ at \in Steps
  /\ batch \in Seq(Nat) /\ \A k \in 1..Len(batch) : batch[k] = Past + k
  /\ Past + Len(batch) <= arrived /\ confirmed <= Past
  /\ (at = "poll" => batch = <<>>) /\ (Handling => batch # <<>>)
  /\ 1..Past \subseteq ended /\ ended \subseteq Ids
  /\ restarts \in 0..tgFaults /\ tgFaults \in 0..MaxTgFaults

LEMMA UpdatesAreNumbered ==
  /\ MaxTgFaults \in Nat /\ Len(Updates) \in Nat /\ Ids = 1..Len(Updates)
  /\ \A n \in Ids : Updates[n].user \in Users
BY TelegramAssumption DEF Users

LEMMA PlaceFacts ==
  ASSUME BatchInOrder
  PROVE  /\ Past \in Nat /\ RowsKept \in Nat /\ Past <= RowsKept /\ RowsKept <= Past + 1
         /\ arrived \in Nat /\ confirmed \in Nat /\ last \in Nat /\ Len(Updates) \in Nat
         /\ Len(batch) \in Nat /\ Past + Len(batch) <= Len(Updates) /\ RowsKept <= Len(Updates)
         /\ batch # <<>> => /\ Len(batch) >= 1 /\ Head(batch) = Past + 1 /\ Head(batch) \in Ids
         /\ Handling => batch # <<>> /\ last = Past + 1 /\ Head(batch) = last
         /\ ~Handling => Past = Top
<1>0. Len(Updates) \in Nat /\ Ids = 1..Len(Updates)
  BY UpdatesAreNumbered
<1>1. arrived \in Nat /\ confirmed \in Nat /\ last \in Nat /\ arrived <= Len(Updates)
  BY <1>0 DEF BatchInOrder
<1>2. Past \in Int
  BY <1>1 DEF Past, Top
<1>3. Past \in Nat
  BY <1>1, <1>2 DEF BatchInOrder
<1>4. batch \in Seq(Nat) /\ Len(batch) \in Nat
  BY DEF BatchInOrder
<1>5. ASSUME batch # <<>> PROVE Len(batch) >= 1 /\ Head(batch) = Past + 1
  <2>1. Len(batch) >= 1 /\ Head(batch) = batch[1]
    BY <1>4, <1>5
  <2> QED
    BY <1>3, <1>4, <2>1 DEF BatchInOrder
<1>6. Past + Len(batch) <= Len(Updates)
  BY <1>0, <1>1, <1>3, <1>4 DEF BatchInOrder
<1>7. Handling => batch # <<>>
  BY DEF BatchInOrder
<1>8. Handling => last = Past + 1
  BY <1>1 DEF Past
<1>9. at = "inbound" => Handling
  BY DEF Handling
<1>10. RowsKept \in Nat /\ Past <= RowsKept /\ RowsKept <= Past + 1 /\ RowsKept <= Len(Updates)
  <2>1. CASE at = "inbound"
    BY <1>0, <1>3, <1>4, <1>5, <1>6, <1>7, <1>9, <2>1 DEF RowsKept
  <2>2. CASE at # "inbound"
    BY <1>0, <1>3, <1>4, <1>6, <2>2 DEF RowsKept
  <2> QED
    BY <2>1, <2>2
<1>11. batch # <<>> => Head(batch) \in Ids
  BY <1>0, <1>3, <1>4, <1>5, <1>6
<1>12. ~Handling => Past = Top
  BY DEF Past
<1> QED
  BY <1>0, <1>1, <1>3, <1>4, <1>5, <1>6, <1>7, <1>8, <1>10, <1>11, <1>12

-----------------------------------------------------------------------------
(* Telegram: the kinds of steps *)

\* The handler of the update in hand goes on.
Goes(a) ==
  /\ Handling /\ a \notin {"poll", "next"} /\ a \in Steps /\ at' = a
  /\ UNCHANGED <<arrived, confirmed, last, batch, ended, restarts, tgFaults>>
\* It comes to an end, with or without an error.
Ends ==
  /\ Handling /\ NextUpdate /\ UNCHANGED <<arrived, confirmed, last, restarts>>
  /\ tgFaults' \in {tgFaults, tgFaults + 1} /\ tgFaults' \in 0..MaxTgFaults

LEMMA GoesInOrder ==
  ASSUME BatchInOrder, NEW a, Goes(a)
  PROVE  /\ BatchInOrder' /\ Past' = Past /\ Handling' /\ (a # "inbound" => RowsKept' = Past)
         /\ (a = "inbound" => RowsKept' = Past + 1)
<1>1. Handling' /\ Past' = Past
  BY DEF Goes, Handling, Past
<1>2. BatchInOrder'
  BY <1>1 DEF BatchInOrder, Goes, Handling
<1> QED
  BY <1>1, <1>2 DEF RowsKept, Goes

LEMMA EndsInOrder ==
  ASSUME BatchInOrder, Ends
  PROVE  BatchInOrder' /\ Past' = Past + 1 /\ ~Handling' /\ RowsKept' = Past'
<1>0. /\ Past \in Nat /\ Past + Len(batch) <= Len(Updates) /\ Len(batch) \in Nat /\ Len(batch) >= 1
      /\ arrived \in Nat /\ confirmed \in Nat /\ last \in Nat
      /\ last = Past + 1 /\ Head(batch) = Past + 1 /\ Head(batch) \in Ids /\ batch # <<>>
  BY PlaceFacts DEF Ends
<1>1. /\ at' = "next" /\ batch' = Tail(batch) /\ ended' = ended \cup {Past + 1}
      /\ arrived' = arrived /\ confirmed' = confirmed /\ last' = last /\ restarts' = restarts
  BY <1>0 DEF Ends, NextUpdate
<1>2. ~Handling' /\ confirmed <= Past
  BY <1>1 DEF Handling, BatchInOrder
<1>3. Past' = Past + 1
  <2>1. Past' = IF last > confirmed THEN last ELSE confirmed
    BY <1>1, <1>2 DEF Past, Top
  <2> QED
    BY <1>0, <1>2, <2>1
<1>4. RowsKept' = Past'
  BY <1>1 DEF RowsKept
<1>5. batch \in Seq(Nat) /\ \A k \in 1..Len(batch) : batch[k] = Past + k
  BY DEF BatchInOrder
<1>6. /\ Tail(batch) \in Seq(Nat) /\ Len(Tail(batch)) = Len(batch) - 1
      /\ \A k \in 1..Len(Tail(batch)) : Tail(batch)[k] = batch[k + 1]
  BY <1>0, <1>5
<1>7. \A k \in 1..Len(Tail(batch)) : Tail(batch)[k] = Past + 1 + k
  BY <1>0, <1>5, <1>6
<1>8. Past + 1 + Len(Tail(batch)) <= arrived /\ confirmed <= Past + 1
  BY <1>0, <1>6 DEF BatchInOrder
<1>9. 1..(Past + 1) \subseteq ended \cup {Past + 1} /\ ended \cup {Past + 1} \subseteq Ids
  BY <1>0 DEF BatchInOrder
<1>10. restarts' \in 0..tgFaults' /\ tgFaults' \in 0..MaxTgFaults
  BY <1>1, UpdatesAreNumbered DEF Ends, BatchInOrder
<1>11. at' \in Steps
  BY <1>1 DEF Steps
<1>12. arrived' \in 0..Len(Updates) /\ confirmed' \in 0..arrived' /\ last' \in 0..arrived'
  BY <1>1 DEF BatchInOrder
<1>13. batch' \in Seq(Nat) /\ \A k \in 1..Len(batch') : batch'[k] = Past' + k
  BY <1>1, <1>3, <1>6, <1>7
<1>14. Past' + Len(batch') <= arrived' /\ confirmed' <= Past'
  BY <1>1, <1>3, <1>8
<1>15. 1..Past' \subseteq ended' /\ ended' \subseteq Ids
  BY <1>1, <1>3, <1>9
<1>16. at' # "poll"
  BY <1>1
<1>17. BatchInOrder'
  BY <1>2, <1>10, <1>11, <1>12, <1>13, <1>14, <1>15, <1>16 DEF BatchInOrder
<1> QED
  BY <1>2, <1>3, <1>4, <1>17

\* A fetch asks for what follows Top, and Telegram forgets what precedes it.
LEMMA CountingUp ==
  ASSUME NEW c \in Nat, NEW m \in Nat
  PROVE  /\ [n \in 1..m |-> c + n] \in Seq(Nat) /\ Len([n \in 1..m |-> c + n]) = m
         /\ \A k \in 1..m : [n \in 1..m |-> c + n][k] = c + k
OBVIOUS

LEMMA FetchInOrder ==
  ASSUME BatchInOrder, GetUpdates
  PROVE  BatchInOrder' /\ Past' = Past /\ RowsKept' = RowsKept /\ ~Handling /\ ~Handling'
<1>0. /\ Past \in Nat /\ arrived \in Nat /\ confirmed \in Nat /\ last \in Nat /\ ~Handling
      /\ Past = Top /\ Past < arrived
  BY PlaceFacts DEF GetUpdates, Handling, Top
<1>1. /\ confirmed' = Past /\ at' = "next" /\ at = "poll"
      /\ UNCHANGED <<arrived, last, data, ended, budgets>>
      /\ batch' = [n \in 1..(arrived - confirmed') |-> confirmed' + n]
  BY <1>0 DEF GetUpdates, Top
<1> DEFINE m == arrived - Past
<1>2. m \in Nat /\ Past + m <= arrived
  BY <1>0
<1>3. batch' = [n \in 1..m |-> Past + n]
  BY <1>1
<1> HIDE DEF m
<1>4. batch' \in Seq(Nat) /\ Len(batch') = m /\ \A k \in 1..Len(batch') : batch'[k] = Past + k
  BY <1>0, <1>2, <1>3, CountingUp
<1>5. last <= Past
  BY <1>0 DEF Top
<1>6. ~Handling' /\ Past' = Past /\ RowsKept' = RowsKept
  <2>1. ~Handling'
    BY <1>1 DEF Handling
  <2>2. Past' = IF last > Past THEN last ELSE Past
    BY <1>1, <2>1 DEF Past, Top
  <2>3. Past' = Past
    BY <1>0, <1>5, <2>2
  <2> QED
    BY <1>1, <2>1, <2>3 DEF RowsKept
<1>7. arrived' \in 0..Len(Updates) /\ confirmed' \in 0..arrived' /\ last' \in 0..arrived' /\ at' \in Steps
  BY <1>0, <1>1 DEF BatchInOrder, Steps
<1>8. Past' + Len(batch') <= arrived' /\ confirmed' <= Past'
  BY <1>0, <1>1, <1>2, <1>4, <1>6
<1>9. /\ 1..Past' \subseteq ended' /\ ended' \subseteq Ids
      /\ restarts' \in 0..tgFaults' /\ tgFaults' \in 0..MaxTgFaults
  BY <1>1, <1>6 DEF BatchInOrder, budgets
<1>10. at' # "poll"
  BY <1>1
<1>11. BatchInOrder'
  BY <1>4, <1>6, <1>7, <1>8, <1>9, <1>10 DEF BatchInOrder
<1> QED
  BY <1>0, <1>6, <1>11

LEMMA TakeInOrder ==
  ASSUME BatchInOrder, Take
  PROVE  BatchInOrder' /\ Past' = Past /\ RowsKept' = RowsKept /\ ~Handling /\ Handling'
<1>0. Past \in Nat /\ batch # <<>> /\ Head(batch) = Past + 1 /\ Len(batch) >= 1 /\ Len(batch) \in Nat
  BY PlaceFacts DEF Take
<1>1. /\ last' = Past + 1 /\ at' = "channel" /\ at = "next" /\ UNCHANGED <<botApi, batch, data, ended, budgets>>
  BY <1>0 DEF Take, Offset
<1>2. ~Handling /\ Handling' /\ Past' = Past /\ RowsKept' = RowsKept
  <2>1. ~Handling /\ Handling'
    BY <1>1 DEF Handling
  <2>2. Past' = last' - 1
    BY <2>1 DEF Past
  <2>3. Past' = Past
    BY <1>0, <1>1, <2>2
  <2> QED
    BY <1>1, <2>1, <2>3 DEF RowsKept
<1>3. Past + 1 <= arrived /\ arrived \in Nat
  <2>1. arrived \in Nat
    BY PlaceFacts
  <2> QED
    BY <1>0, <2>1 DEF BatchInOrder
<1>4. last' \in 0..arrived'
  <2>1. Past + 1 \in 0..arrived
    BY <1>0, <1>3
  <2> QED
    BY <1>1, <2>1 DEF botApi
<1>5. BatchInOrder'
  BY <1>0, <1>1, <1>2, <1>4 DEF BatchInOrder, botApi, budgets, Steps
<1> QED
  BY <1>2, <1>5

LEMMA ArriveInOrder ==
  ASSUME BatchInOrder, Arrive
  PROVE  BatchInOrder' /\ Past' = Past /\ RowsKept' = RowsKept /\ (Handling <=> Handling')
<1>0. arrived \in Nat /\ confirmed \in Nat /\ last \in Nat /\ Past \in Nat /\ Len(batch) \in Nat /\ Len(Updates) \in Nat
  BY PlaceFacts
<1>1. arrived < Len(Updates) /\ arrived' = arrived + 1 /\ UNCHANGED <<confirmed, last, batch, at, data, ended, budgets>>
  BY DEF Arrive
<1>2. (Handling <=> Handling') /\ Past' = Past /\ RowsKept' = RowsKept
  BY <1>1 DEF Handling, Past, Top, RowsKept
<1>3. /\ arrived + 1 \in 0..Len(Updates) /\ confirmed \in 0..(arrived + 1) /\ last \in 0..(arrived + 1)
      /\ Past + Len(batch) <= arrived + 1
  BY <1>0, <1>1 DEF BatchInOrder
<1>4. /\ arrived' \in 0..Len(Updates) /\ confirmed' \in 0..arrived' /\ last' \in 0..arrived'
      /\ Past' + Len(batch') <= arrived'
  BY <1>1, <1>2, <1>3
<1>5. BatchInOrder'
  BY <1>1, <1>2, <1>4 DEF BatchInOrder, budgets
<1> QED
  BY <1>2, <1>5

LEMMA EndBatchInOrder ==
  ASSUME BatchInOrder, EndBatch
  PROVE  BatchInOrder' /\ Past' = Past /\ RowsKept' = RowsKept /\ ~Handling /\ ~Handling'
<1>1. at = "next" /\ batch = <<>> /\ at' = "poll" /\ UNCHANGED <<botApi, last, batch, data, ended, budgets>>
  BY DEF EndBatch
<1>2. ~Handling /\ ~Handling'
  BY <1>1 DEF Handling
<1>3. Past' = Past /\ RowsKept' = RowsKept
  BY <1>1, <1>2 DEF Past, Top, RowsKept, botApi
<1>4. BatchInOrder'
  BY <1>1, <1>2, <1>3 DEF BatchInOrder, botApi, budgets, Steps
<1> QED
  BY <1>2, <1>3, <1>4

LEMMA EscapeInOrder ==
  ASSUME BatchInOrder, StartEscapes
  PROVE  BatchInOrder' /\ Past' = Past + 1 /\ RowsKept' = Past' /\ ~Handling'
<1>0. /\ at = "channel" /\ TgFault /\ ended' = ended \cup {Head(batch)} /\ batch' = <<>> /\ at' = "poll"
      /\ UNCHANGED <<botApi, last, data, restarts>>
  BY DEF StartEscapes
<1>1. Handling /\ ~Handling'
  BY <1>0 DEF Handling
<1>2. /\ Past \in Nat /\ Past + Len(batch) <= Len(Updates) /\ Len(batch) \in Nat /\ Len(batch) >= 1
      /\ arrived \in Nat /\ confirmed \in Nat /\ last \in Nat
      /\ last = Past + 1 /\ Head(batch) = Past + 1 /\ Head(batch) \in Ids
  BY <1>1, PlaceFacts
<1>3. Past' = Past + 1 /\ RowsKept' = Past'
  <2>1. Past' = IF last > confirmed THEN last ELSE confirmed
    BY <1>0, <1>1 DEF Past, Top, botApi
  <2>2. confirmed <= Past
    BY DEF BatchInOrder
  <2> QED
    BY <1>0, <1>2, <2>1, <2>2 DEF RowsKept
<1>4. 1..(Past + 1) \subseteq ended \cup {Past + 1} /\ ended \cup {Past + 1} \subseteq Ids
  BY <1>2 DEF BatchInOrder
<1>5. 1..Past' \subseteq ended' /\ ended' \subseteq Ids
  BY <1>0, <1>2, <1>3, <1>4
<1>6. Past + 1 <= arrived /\ confirmed <= Past + 1
  BY <1>2 DEF BatchInOrder
<1>7. batch' \in Seq(Nat) /\ Len(batch') = 0 /\ \A k \in 1..Len(batch') : batch'[k] = Past' + k
  BY <1>0
<1>8. Past' + Len(batch') <= arrived' /\ confirmed' <= Past'
  <2>1. Past + 1 + 0 <= arrived
    BY <1>2, <1>6
  <2> QED
    BY <1>0, <1>3, <1>6, <1>7, <2>1 DEF botApi
<1>9. tgFaults' \in 0..MaxTgFaults /\ restarts' \in 0..tgFaults'
  <2>1. ASSUME NEW f \in 0..MaxTgFaults, NEW r \in 0..f, f < MaxTgFaults
        PROVE  f + 1 \in 0..MaxTgFaults /\ r \in 0..(f + 1)
    BY <2>1, UpdatesAreNumbered
  <2> QED
    BY <1>0, <2>1 DEF TgFault, BatchInOrder
<1>10. arrived' \in 0..Len(Updates) /\ confirmed' \in 0..arrived' /\ last' \in 0..arrived' /\ at' \in Steps
  BY <1>0 DEF BatchInOrder, botApi, Steps
<1>11. BatchInOrder'
  BY <1>0, <1>1, <1>5, <1>7, <1>8, <1>9, <1>10 DEF BatchInOrder
<1> QED
  BY <1>1, <1>3, <1>11

\* After a restart the poller stands where Telegram does.
LEMMA RestartInOrder ==
  ASSUME BatchInOrder, Restart
  PROVE  /\ BatchInOrder' /\ Past' = confirmed /\ RowsKept' = Past' /\ ~Handling'
         /\ restarts' = restarts + 1
<1>0. /\ TgFault /\ last' = 0 /\ batch' = <<>> /\ at' = "poll" /\ restarts' = restarts + 1
      /\ UNCHANGED <<botApi, data, ended>>
  BY DEF Restart
<1>1. /\ arrived \in Nat /\ confirmed \in Nat /\ Past \in Nat /\ confirmed <= Past /\ confirmed <= arrived
  BY PlaceFacts DEF BatchInOrder
<1>2. ~Handling'
  BY <1>0 DEF Handling
<1>3. Past' = confirmed /\ RowsKept' = Past'
  <2>1. Past' = IF 0 > confirmed THEN 0 ELSE confirmed
    BY <1>0, <1>2 DEF Past, Top, botApi
  <2> QED
    BY <1>0, <1>1, <2>1 DEF RowsKept
<1>4. 1..confirmed \subseteq ended
  BY <1>1 DEF BatchInOrder
<1>5. tgFaults' \in 0..MaxTgFaults /\ restarts' \in 0..tgFaults'
  <2>1. ASSUME NEW f \in 0..MaxTgFaults, NEW r \in 0..f, f < MaxTgFaults
        PROVE  f + 1 \in 0..MaxTgFaults /\ r + 1 \in 0..(f + 1)
    BY <2>1, UpdatesAreNumbered
  <2> QED
    BY <1>0, <2>1 DEF TgFault, BatchInOrder
<1>6. arrived' \in 0..Len(Updates) /\ confirmed' \in 0..arrived' /\ last' \in 0..arrived' /\ at' \in Steps
  BY <1>0, <1>1 DEF BatchInOrder, botApi, Steps
<1>7. batch' \in Seq(Nat) /\ Len(batch') = 0 /\ \A k \in 1..Len(batch') : batch'[k] = Past' + k
  BY <1>0
<1>8. Past' + Len(batch') <= arrived' /\ confirmed' <= Past'
  <2>1. confirmed + 0 <= arrived /\ confirmed <= confirmed
    BY <1>1
  <2> QED
    BY <1>0, <1>3, <1>7, <2>1 DEF botApi
<1>9. 1..Past' \subseteq ended' /\ ended' \subseteq Ids
  BY <1>0, <1>3, <1>4 DEF BatchInOrder
<1>10. BatchInOrder'
  BY <1>0, <1>2, <1>5, <1>6, <1>7, <1>8, <1>9 DEF BatchInOrder
<1> QED
  BY <1>0, <1>2, <1>3, <1>10

-----------------------------------------------------------------------------
(* Telegram: counting in sequences *)

\* One more element is one more place or none.
LEMMA OneMorePlace ==
  ASSUME NEW n \in Nat, NEW S \in SUBSET (1..n), NEW T, T = S \/ T = S \cup {n + 1}
  PROVE  /\ Cardinality(S) \in Nat /\ Cardinality(T) \in Nat
         /\ (T = S => Cardinality(T) = Cardinality(S))
         /\ (T = S \cup {n + 1} => Cardinality(T) = Cardinality(S) + 1)
<1>1. IsFiniteSet(1..n)
  BY FS_Interval
<1>2. IsFiniteSet(S) /\ Cardinality(S) \in Nat
  BY <1>1, FS_Subset, FS_CardinalityType
<1>3. n + 1 \notin S
  OBVIOUS
<1>4. Cardinality(S \cup {n + 1}) = Cardinality(S) + 1
  BY <1>2, <1>3, FS_AddElement
<1>5. Cardinality(T) \in Nat
  <2>1. CASE T = S
    BY <1>2, <2>1
  <2>2. CASE T = S \cup {n + 1}
    <3>1. Cardinality(T) = Cardinality(S) + 1
      BY <1>4, <2>2
    <3> QED
      BY <1>2, <3>1
  <2> QED
    BY <2>1, <2>2
<1>6. T = S => Cardinality(T) = Cardinality(S)
  OBVIOUS
<1>7. T = S \cup {n + 1} => Cardinality(T) = Cardinality(S) + 1
  BY <1>4
<1> QED
  BY <1>2, <1>5, <1>6, <1>7

RowsIn(s, u) == {k \in DOMAIN s : Updates[s[k]].user = u}

LEMMA TimesAppended ==
  ASSUME NEW S, NEW s \in Seq(S), NEW y \in S, NEW x
  PROVE  /\ Times(x, s) \in Nat
         /\ Times(x, Append(s, y)) = Times(x, s) + (IF x = y THEN 1 ELSE 0)
<1> DEFINE A == {k \in DOMAIN s : s[k] = x}
           B == {k \in DOMAIN Append(s, y) : Append(s, y)[k] = x}
<1>1. /\ Len(s) \in Nat /\ DOMAIN s = 1..Len(s) /\ DOMAIN Append(s, y) = 1..(Len(s) + 1)
      /\ \A k \in 1..Len(s) : Append(s, y)[k] = s[k]
      /\ Append(s, y)[Len(s) + 1] = y
  OBVIOUS
<1>2. A \in SUBSET (1..Len(s))
  BY <1>1
<1>3. x # y => B = A
  BY <1>1
<1>4. x = y => B = A \cup {Len(s) + 1}
  BY <1>1
<1>5. Times(x, s) = Cardinality(A) /\ Times(x, Append(s, y)) = Cardinality(B)
  BY DEF Times
<1> HIDE DEF A, B
<1>6. /\ Cardinality(A) \in Nat
      /\ (B = A => Cardinality(B) = Cardinality(A))
      /\ (B = A \cup {Len(s) + 1} => Cardinality(B) = Cardinality(A) + 1)
  BY <1>1, <1>2, <1>3, <1>4, OneMorePlace
<1> QED
  BY <1>3, <1>4, <1>5, <1>6

LEMMA RowsAppended ==
  ASSUME NEW s \in Seq(Ids), NEW y \in Ids, NEW u
  PROVE  /\ Cardinality(RowsIn(s, u)) \in Nat
         /\ Cardinality(RowsIn(Append(s, y), u)) =
              Cardinality(RowsIn(s, u)) + (IF Updates[y].user = u THEN 1 ELSE 0)
<1> DEFINE A == RowsIn(s, u)
           B == RowsIn(Append(s, y), u)
<1>1. /\ Len(s) \in Nat /\ DOMAIN s = 1..Len(s) /\ DOMAIN Append(s, y) = 1..(Len(s) + 1)
      /\ \A k \in 1..Len(s) : Append(s, y)[k] = s[k]
      /\ Append(s, y)[Len(s) + 1] = y
  OBVIOUS
<1>2. A \in SUBSET (1..Len(s))
  BY <1>1 DEF RowsIn
<1>3. Updates[y].user # u => B = A
  BY <1>1 DEF RowsIn
<1>4. Updates[y].user = u => B = A \cup {Len(s) + 1}
  BY <1>1 DEF RowsIn
<1> HIDE DEF A, B
<1>5. /\ Cardinality(A) \in Nat
      /\ (B = A => Cardinality(B) = Cardinality(A))
      /\ (B = A \cup {Len(s) + 1} => Cardinality(B) = Cardinality(A) + 1)
  BY <1>1, <1>2, <1>3, <1>4, OneMorePlace
<1>6. /\ Cardinality(A) \in Nat
      /\ Cardinality(B) = Cardinality(A) + (IF Updates[y].user = u THEN 1 ELSE 0)
  BY <1>3, <1>4, <1>5
<1> QED
  BY <1>6 DEF A, B

LEMMA NothingCounted ==
  /\ \A x : Times(x, <<>>) = 0
  /\ \A u : Cardinality(RowsIn(<<>>, u)) = 0
<1>1. \A x : {k \in DOMAIN <<>> : <<>>[k] = x} = {}
  OBVIOUS
<1>2. \A u : RowsIn(<<>>, u) = {}
  BY DEF RowsIn
<1> QED
  BY <1>1, <1>2, FS_EmptySet DEF Times

-----------------------------------------------------------------------------
(* Telegram: the rows *)

\* With r restarts and the rows up to k stored in this life: each row at most once
\* in a life, and in the order sent in the first.
RowsAt(s, r, k) ==
  /\ s \in Seq(Ids) /\ Len(s) <= Len(Updates) * r + k
  /\ \A n \in Ids : Times(n, s) <= r + (IF n <= k THEN 1 ELSE 0)
  /\ r = 0 => /\ \A j \in 1..Len(s) : s[j] <= k
              /\ \A j \in 1..Len(s) : \A i \in 1..Len(s) : j < i => s[j] < s[i]
RowsInOrder == RowsAt(stored, restarts, RowsKept)

LEMMA TimesIsNat ==
  ASSUME NEW S, NEW s \in Seq(S), NEW x
  PROVE  Times(x, s) \in Nat
<1> DEFINE A == {k \in DOMAIN s : s[k] = x}
<1>1. Len(s) \in Nat /\ A \in SUBSET (1..Len(s))
  OBVIOUS
<1>2. Times(x, s) = Cardinality(A)
  BY DEF Times
<1> HIDE DEF A
<1> QED
  BY <1>1, <1>2, OneMorePlace

LEMMA RowsLater ==
  ASSUME NEW s, NEW r \in Nat, NEW k \in Nat, NEW l \in Nat, RowsAt(s, r, k), k <= l
  PROVE  RowsAt(s, r, l)
<1>0. Len(Updates) \in Nat /\ Ids = 1..Len(Updates)
  BY UpdatesAreNumbered
<1>1. Len(s) \in Nat /\ \A j \in 1..Len(s) : s[j] \in Nat
  BY <1>0 DEF RowsAt
<1>2. Len(Updates) * r \in Nat
  BY <1>0
<1>3. Len(s) <= Len(Updates) * r + l
  BY <1>1, <1>2 DEF RowsAt
<1>4. \A n \in Ids : Times(n, s) <= r + (IF n <= l THEN 1 ELSE 0)
  <2> TAKE n \in Ids
  <2>1. Times(n, s) \in Nat /\ Times(n, s) <= r + (IF n <= k THEN 1 ELSE 0) /\ n \in Nat
    BY <1>0, TimesIsNat DEF RowsAt
  <2> QED
    BY <2>1
<1>5. r = 0 => \A j \in 1..Len(s) : s[j] <= l
  BY <1>1 DEF RowsAt
<1> QED
  BY <1>3, <1>4, <1>5 DEF RowsAt

LEMMA RowsAfterRestart ==
  ASSUME NEW s, NEW r \in Nat, NEW k \in Nat, NEW l \in Nat, RowsAt(s, r, k), k <= Len(Updates)
  PROVE  RowsAt(s, r + 1, l)
<1>0. Len(Updates) \in Nat /\ Ids = 1..Len(Updates)
  BY UpdatesAreNumbered
<1>1. Len(s) \in Nat /\ Len(Updates) * r \in Nat /\ Len(Updates) * (r + 1) = Len(Updates) * r + Len(Updates)
  BY <1>0 DEF RowsAt
<1>2. Len(s) <= Len(Updates) * (r + 1) + l
  BY <1>0, <1>1 DEF RowsAt
<1>3. \A n \in Ids : Times(n, s) <= r + 1 + (IF n <= l THEN 1 ELSE 0)
  <2> TAKE n \in Ids
  <2>1. Times(n, s) \in Nat /\ Times(n, s) <= r + (IF n <= k THEN 1 ELSE 0) /\ n \in Nat
    BY <1>0, TimesIsNat DEF RowsAt
  <2> QED
    BY <2>1
<1> QED
  BY <1>2, <1>3 DEF RowsAt

LEMMA RowsStored ==
  ASSUME NEW s, NEW r \in Nat, NEW k \in Nat, RowsAt(s, r, k), k + 1 \in Ids
  PROVE  RowsAt(Append(s, k + 1), r, k + 1)
<1> DEFINE t == Append(s, k + 1)
<1>0. Len(Updates) \in Nat /\ Ids = 1..Len(Updates)
  BY UpdatesAreNumbered
<1>1. /\ s \in Seq(Ids) /\ Len(s) \in Nat /\ t \in Seq(Ids) /\ Len(t) = Len(s) + 1
      /\ \A j \in 1..Len(s) : t[j] = s[j] /\ s[j] \in Nat
      /\ t[Len(s) + 1] = k + 1
  BY <1>0 DEF RowsAt
<1>2. Len(Updates) * r \in Nat
  BY <1>0
<1>3. Len(t) <= Len(Updates) * r + (k + 1)
  BY <1>1, <1>2 DEF RowsAt
<1>4. \A n \in Ids : Times(n, t) <= r + (IF n <= k + 1 THEN 1 ELSE 0)
  <2> TAKE n \in Ids
  <2>1. Times(n, s) \in Nat /\ Times(n, s) <= r + (IF n <= k THEN 1 ELSE 0) /\ n \in Nat
    BY <1>0, TimesIsNat DEF RowsAt
  <2>2. Times(n, t) = Times(n, s) + (IF n = k + 1 THEN 1 ELSE 0)
    BY <1>1, TimesAppended
  <2> QED
    BY <2>1, <2>2
<1>5. ASSUME r = 0
      PROVE  /\ \A j \in 1..Len(t) : t[j] <= k + 1
             /\ \A j \in 1..Len(t) : \A i \in 1..Len(t) : j < i => t[j] < t[i]
  <2>1. /\ \A j \in 1..Len(s) : s[j] <= k
        /\ \A j \in 1..Len(s) : \A i \in 1..Len(s) : j < i => s[j] < s[i]
    BY <1>5 DEF RowsAt
  <2> HIDE DEF t
  <2> QED
    BY <1>1, <2>1
<1> QED
  BY <1>1, <1>3, <1>4, <1>5 DEF RowsAt

-----------------------------------------------------------------------------
(* Telegram: the senders *)

\* Who is announced is a lead; the one in hand at "created" is not announced yet, and
\* a sender counted as having answered has a row besides the one being counted.
MetAt(ld, an, ct, s, a, u) ==
  /\ ld \subseteq Users /\ an \in Seq(Users) /\ ct \in Seq(Users)
  /\ \A k \in 1..Len(an) : an[k] \in ld
  /\ (a = "created" => u \in ld /\ Times(u, an) = 0)
  /\ \A v \in Users :
       /\ Times(v, an) <= 1 /\ Times(v, ct) <= 1
       /\ Times(v, ct) = 1 => Cardinality(RowsIn(s, v)) > (IF a = "inbound" /\ u = v THEN 1 ELSE 0)
SendersMetOnce == MetAt(leads, announced, contacted, stored, at, Current.user)

LEMMA RowsAreCounted ==
  ASSUME NEW s \in Seq(Ids), NEW v
  PROVE  Cardinality(RowsIn(s, v)) \in Nat
<1>1. Len(s) \in Nat /\ RowsIn(s, v) \in SUBSET (1..Len(s))
  BY DEF RowsIn
<1> QED
  BY <1>1, OneMorePlace

LEMMA MetElsewhere ==
  ASSUME NEW ld, NEW an, NEW ct, NEW s \in Seq(Ids), NEW a, NEW u, MetAt(ld, an, ct, s, a, u),
         NEW b, b # "created", b # "inbound", NEW w
  PROVE  MetAt(ld, an, ct, s, b, w)
<1>1. ASSUME NEW v \in Users, Times(v, ct) = 1 PROVE Cardinality(RowsIn(s, v)) > 0
  <2>1. Cardinality(RowsIn(s, v)) > (IF a = "inbound" /\ u = v THEN 1 ELSE 0)
    BY <1>1 DEF MetAt
  <2> QED
    BY <2>1, RowsAreCounted
<1> QED
  BY <1>1 DEF MetAt

LEMMA MetCreated ==
  ASSUME NEW ld, NEW an, NEW ct, NEW s \in Seq(Ids), NEW a, NEW u \in Users,
         MetAt(ld, an, ct, s, a, u), u \notin ld
  PROVE  MetAt(ld \cup {u}, an, ct, s, "created", u)
<1>1. an \in Seq(Users) /\ \A k \in 1..Len(an) : an[k] # u
  BY DEF MetAt
<1>2. {k \in DOMAIN an : an[k] = u} = {}
  BY <1>1
<1>3. Times(u, an) = 0
  BY <1>2, FS_EmptySet DEF Times
<1>4. ASSUME NEW v \in Users, Times(v, ct) = 1 PROVE Cardinality(RowsIn(s, v)) > 0
  <2>1. Cardinality(RowsIn(s, v)) > (IF a = "inbound" /\ u = v THEN 1 ELSE 0)
    BY <1>4 DEF MetAt
  <2> QED
    BY <2>1, RowsAreCounted
<1> QED
  BY <1>3, <1>4 DEF MetAt

LEMMA MetAnnounced ==
  ASSUME NEW ld, NEW an, NEW ct, NEW s \in Seq(Ids), NEW u \in Users,
         MetAt(ld, an, ct, s, "created", u)
  PROVE  MetAt(ld, Append(an, u), ct, s, "message", u)
<1> DEFINE bn == Append(an, u)
<1>1. /\ an \in Seq(Users) /\ Len(an) \in Nat /\ bn \in Seq(Users) /\ Len(bn) = Len(an) + 1
      /\ \A k \in 1..Len(an) : bn[k] = an[k]
      /\ bn[Len(an) + 1] = u
  BY DEF MetAt
<1>2. ASSUME NEW v \in Users PROVE Times(v, bn) <= 1
  <2>1. Times(v, an) \in Nat /\ Times(v, bn) = Times(v, an) + (IF v = u THEN 1 ELSE 0)
    BY <1>1, TimesAppended
  <2>2. Times(v, an) <= 1 /\ Times(u, an) = 0
    BY DEF MetAt
  <2>3. CASE v = u
    BY <2>1, <2>2, <2>3
  <2>4. CASE v # u
    BY <2>1, <2>2, <2>4
  <2> QED
    BY <2>3, <2>4
<1>3. \A k \in 1..Len(bn) : bn[k] \in ld
  <2> HIDE DEF bn
  <2>1. u \in ld /\ \A k \in 1..Len(an) : an[k] \in ld
    BY DEF MetAt
  <2> QED
    BY <1>1, <2>1
<1>4. \A v \in Users : Times(v, ct) = 1 => Cardinality(RowsIn(s, v)) > 0
  BY DEF MetAt
<1> QED
  BY <1>1, <1>2, <1>3, <1>4 DEF MetAt

LEMMA MetStored ==
  ASSUME NEW ld, NEW an, NEW ct, NEW s \in Seq(Ids), NEW n \in Ids,
         MetAt(ld, an, ct, s, "message", Updates[n].user)
  PROVE  MetAt(ld, an, ct, Append(s, n), "inbound", Updates[n].user)
<1>1. ASSUME NEW v \in Users, Times(v, ct) = 1
      PROVE  Cardinality(RowsIn(Append(s, n), v)) > (IF Updates[n].user = v THEN 1 ELSE 0)
  <2>1. Cardinality(RowsIn(s, v)) > 0 /\ Cardinality(RowsIn(s, v)) \in Nat
    BY <1>1, RowsAreCounted DEF MetAt
  <2>2. Cardinality(RowsIn(Append(s, n), v)) = Cardinality(RowsIn(s, v)) + (IF Updates[n].user = v THEN 1 ELSE 0)
    BY RowsAppended
  <2>3. PICK c \in Nat : c = Cardinality(RowsIn(s, v))
    BY <2>1
  <2>4. c + (IF Updates[n].user = v THEN 1 ELSE 0) > (IF Updates[n].user = v THEN 1 ELSE 0)
    BY <2>1, <2>3
  <2> QED
    BY <2>2, <2>3, <2>4
<1> QED
  BY <1>1 DEF MetAt

LEMMA MetAnswered ==
  ASSUME NEW ld, NEW an, NEW ct, NEW s \in Seq(Ids), NEW u \in Users,
         MetAt(ld, an, ct, s, "inbound", u), Cardinality(RowsIn(s, u)) = 1
  PROVE  MetAt(ld, an, Append(ct, u), s, "next", u)
<1> DEFINE dt == Append(ct, u)
<1>1. ct \in Seq(Users) /\ dt \in Seq(Users)
  BY DEF MetAt
<1>2. Times(u, ct) = 0
  <2>1. Times(u, ct) \in Nat /\ Times(u, ct) <= 1
    BY <1>1, TimesIsNat DEF MetAt
  <2>2. Times(u, ct) # 1
    BY DEF MetAt
  <2> QED
    BY <2>1, <2>2
<1>3. ASSUME NEW v \in Users
      PROVE  Times(v, dt) <= 1 /\ (Times(v, dt) = 1 => Cardinality(RowsIn(s, v)) > 0)
  <2>1. Times(v, ct) \in Nat /\ Times(v, dt) = Times(v, ct) + (IF v = u THEN 1 ELSE 0)
    BY <1>1, TimesAppended
  <2>2. CASE v = u
    BY <1>2, <2>1, <2>2
  <2>3. CASE v # u
    <3>1. Times(v, dt) = Times(v, ct)
      BY <2>1, <2>3
    <3> QED
      BY <2>3, <3>1 DEF MetAt
  <2> QED
    BY <2>2, <2>3
<1> QED
  BY <1>1, <1>3 DEF MetAt

-----------------------------------------------------------------------------
(* Telegram: every step *)

TelegramInv == BatchInOrder /\ RowsInOrder /\ SendersMetOnce

\* A step that stores no row keeps the rows in order as long as the poller does not
\* go back.
LEMMA RowsStay ==
  ASSUME RowsInOrder, restarts \in Nat, RowsKept \in Nat, RowsKept' \in Nat, RowsKept <= RowsKept',
         UNCHANGED <<stored, restarts>>
  PROVE  RowsInOrder'
BY RowsLater DEF RowsInOrder

LEMMA SendersStay ==
  ASSUME SendersMetOnce, stored \in Seq(Ids), UNCHANGED <<leads, announced, contacted, stored>>,
         at' \notin {"created", "inbound"}
  PROVE  SendersMetOnce'
<1>1. MetAt(leads, announced, contacted, stored, at', Current'.user)
  BY MetElsewhere DEF SendersMetOnce
<1> QED
  BY <1>1 DEF SendersMetOnce

LEMMA CurrentIsKnown ==
  ASSUME BatchInOrder, batch # <<>>
  PROVE  Head(batch) \in Ids /\ Current.user \in Users /\ Current.user = Updates[Head(batch)].user
BY PlaceFacts, UpdatesAreNumbered DEF Current

LEMMA PollerSteps ==
  ASSUME TelegramInv, Arrive \/ GetUpdates \/ Take \/ EndBatch \/ StartEscapes
  PROVE  TelegramInv'
<1>0. /\ BatchInOrder /\ RowsInOrder /\ SendersMetOnce /\ stored \in Seq(Ids) /\ restarts \in Nat
      /\ Past \in Nat /\ RowsKept \in Nat /\ RowsKept <= Past + 1
  BY PlaceFacts, UpdatesAreNumbered DEF TelegramInv, RowsInOrder, RowsAt, BatchInOrder
<1>1. BatchInOrder' /\ (RowsKept' = RowsKept \/ RowsKept' = Past + 1)
  BY <1>0, ArriveInOrder, FetchInOrder, TakeInOrder, EndBatchInOrder, EscapeInOrder
<1>2. UNCHANGED <<stored, restarts, leads, announced, contacted>>
  BY DEF Arrive, GetUpdates, Take, EndBatch, StartEscapes, data, budgets
<1>3. RowsInOrder'
  <2>1. RowsKept' \in Nat /\ RowsKept <= RowsKept'
    BY <1>0, <1>1
  <2> QED
    BY <1>0, <1>2, <2>1, RowsStay
<1>4. SendersMetOnce'
  <2>1. CASE Arrive
    BY <1>0, <2>1 DEF Arrive, data, SendersMetOnce, Current
  <2>2. CASE GetUpdates \/ Take \/ EndBatch \/ StartEscapes
    <3>1. at' \notin {"created", "inbound"}
      BY <2>2 DEF GetUpdates, Take, EndBatch, StartEscapes
    <3> QED
      BY <1>0, <1>2, <3>1, SendersStay
  <2> QED
    BY <2>1, <2>2
<1> QED
  BY <1>1, <1>3, <1>4 DEF TelegramInv

LEMMA RestartStep ==
  ASSUME TelegramInv, Restart
  PROVE  TelegramInv'
<1>0. /\ BatchInOrder /\ RowsInOrder /\ SendersMetOnce /\ stored \in Seq(Ids) /\ restarts \in Nat
      /\ RowsKept \in Nat /\ RowsKept <= Len(Updates) /\ confirmed \in Nat
  BY PlaceFacts, UpdatesAreNumbered DEF TelegramInv, RowsInOrder, RowsAt, BatchInOrder
<1>1. /\ BatchInOrder' /\ RowsKept' = confirmed /\ restarts' = restarts + 1
      /\ at' = "poll" /\ UNCHANGED <<stored, leads, announced, contacted>>
  BY <1>0, RestartInOrder DEF Restart, data
<1>2. RowsAt(stored, restarts + 1, confirmed)
  BY <1>0, RowsAfterRestart DEF RowsInOrder
<1>3. RowsInOrder'
  BY <1>1, <1>2 DEF RowsInOrder
<1>4. SendersMetOnce'
  BY <1>0, <1>1, SendersStay
<1> QED
  BY <1>1, <1>3, <1>4 DEF TelegramInv

LEMMA HandlerSteps ==
  ASSUME TelegramInv,
         StartCommand \/ FindChannel \/ FindLead \/ LeaveSender \/ EmitCreated \/ StoreMessage \/ EmitInbound \/ HandlerFails
  PROVE  TelegramInv'
<1>0. /\ BatchInOrder /\ RowsInOrder /\ SendersMetOnce /\ stored \in Seq(Ids) /\ restarts \in Nat
      /\ Past \in Nat /\ RowsKept \in Nat /\ Past <= RowsKept /\ RowsKept <= Past + 1
  BY PlaceFacts, UpdatesAreNumbered DEF TelegramInv, RowsInOrder, RowsAt, BatchInOrder
<1>1. Handling
  BY DEF Handling, StartCommand, FindChannel, FindLead, LeaveSender, EmitCreated, StoreMessage, EmitInbound, HandlerFails, Steps
<1>2. /\ Head(batch) \in Ids /\ Head(batch) = Past + 1 /\ Current.user \in Users
      /\ Current.user = Updates[Head(batch)].user
  BY <1>0, <1>1, PlaceFacts, CurrentIsKnown
<1>3. tgFaults \in 0..MaxTgFaults
  BY <1>0 DEF BatchInOrder
<1>4. ASSUME Ends, UNCHANGED <<leads, announced, contacted, stored>> PROVE TelegramInv'
  <2>1. BatchInOrder' /\ RowsKept' = Past + 1
    BY <1>0, <1>4, EndsInOrder
  <2>2. RowsKept' \in Nat /\ RowsKept <= RowsKept' /\ restarts' = restarts
    BY <1>0, <1>4, <2>1 DEF Ends
  <2>3. RowsInOrder'
    BY <1>0, <1>4, <2>2, RowsStay
  <2>4. at' = "next"
    BY <1>4 DEF Ends, NextUpdate
  <2>5. SendersMetOnce'
    BY <1>0, <1>4, <2>4, SendersStay
  <2> QED
    BY <2>1, <2>3, <2>5 DEF TelegramInv
<1>5. ASSUME NEW a, Goes(a), a # "inbound", at # "inbound", UNCHANGED stored
      PROVE  BatchInOrder' /\ RowsInOrder'
  <2>1. BatchInOrder' /\ RowsKept' = Past /\ RowsKept = Past
    BY <1>0, <1>5, GoesInOrder DEF RowsKept
  <2>2. RowsInOrder'
    BY <1>0, <1>5, <2>1, RowsStay DEF Goes
  <2> QED
    BY <2>1, <2>2
<1>6. ASSUME NEW a, Goes(a) PROVE Current' = Current /\ at' = a
  BY <1>6 DEF Goes, Current
<1>7. CASE StartCommand
  <2>1. Ends
    BY <1>1, <1>3, <1>7 DEF StartCommand, Keep, Ends, botApi, budgets
  <2> QED
    BY <1>4, <1>7, <2>1 DEF StartCommand
<1>8. CASE FindChannel
  <2>1. UNCHANGED <<leads, announced, contacted, stored>>
    BY <1>8 DEF FindChannel, data
  <2>2. CASE bound
    <3>1. Goes("lead") /\ at = "channel"
      BY <1>1, <1>8, <2>2 DEF FindChannel, Keep, Goes, botApi, budgets, Steps
    <3>2. SendersMetOnce'
      BY <1>0, <1>6, <2>1, <3>1, SendersStay
    <3> QED
      BY <1>5, <2>1, <3>1, <3>2 DEF TelegramInv
  <2>3. CASE ~bound
    <3>1. Ends
      BY <1>1, <1>3, <1>8, <2>3 DEF FindChannel, Keep, Ends, botApi, budgets
    <3> QED
      BY <1>4, <2>1, <3>1
  <2> QED
    BY <2>2, <2>3
<1>9. CASE FindLead
  <2>1. at = "lead" /\ UNCHANGED <<announced, contacted, stored>> /\ leads' = leads \cup {Current.user}
    BY <1>9 DEF FindLead
  <2>2. CASE Current.user \in leads
    <3>1. Goes("message")
      BY <1>1, <1>9, <2>2 DEF FindLead, Keep, Goes, botApi, budgets, Steps
    <3>2. leads' = leads
      BY <2>1, <2>2
    <3>3. SendersMetOnce'
      BY <1>0, <1>6, <2>1, <3>1, <3>2, SendersStay
    <3> QED
      BY <1>5, <2>1, <3>1, <3>3 DEF TelegramInv
  <2>3. CASE Current.user \notin leads
    <3>1. Goes("created")
      BY <1>1, <1>9, <2>3 DEF FindLead, Keep, Goes, botApi, budgets, Steps
    <3>2. MetAt(leads \cup {Current.user}, announced, contacted, stored, "created", Current.user)
      BY <1>0, <1>2, <2>3, MetCreated DEF SendersMetOnce
    <3>3. SendersMetOnce'
      BY <1>6, <2>1, <3>1, <3>2 DEF SendersMetOnce
    <3> QED
      BY <1>5, <2>1, <3>1, <3>3 DEF TelegramInv
  <2> QED
    BY <2>2, <2>3
<1>14. CASE LeaveSender
  <2>1. Ends
    BY <1>1, <1>3, <1>14 DEF LeaveSender, Keep, Ends, botApi, budgets
  <2> QED
    BY <1>4, <1>14, <2>1 DEF LeaveSender, data
<1>10. CASE EmitCreated
  <2>1. /\ at = "created" /\ announced' = Append(announced, Current.user)
        /\ UNCHANGED <<leads, contacted, stored>>
    BY <1>10 DEF EmitCreated
  <2>2. Goes("message")
    BY <1>1, <1>10 DEF EmitCreated, Keep, Goes, botApi, budgets, Steps
  <2>3. MetAt(leads, Append(announced, Current.user), contacted, stored, "message", Current.user)
    BY <1>0, <1>2, <2>1, MetAnnounced DEF SendersMetOnce
  <2>4. SendersMetOnce'
    BY <1>6, <2>1, <2>2, <2>3 DEF SendersMetOnce
  <2> QED
    BY <1>5, <2>1, <2>2, <2>4 DEF TelegramInv
<1>11. CASE StoreMessage
  <2>1. /\ at = "message" /\ stored' = Append(stored, Head(batch))
        /\ UNCHANGED <<leads, announced, contacted>>
    BY <1>11 DEF StoreMessage
  <2>2. Goes("inbound")
    BY <1>1, <1>11 DEF StoreMessage, Keep, Goes, botApi, budgets, Steps
  <2>3. BatchInOrder' /\ RowsKept' = Past + 1 /\ RowsKept = Past
    BY <1>0, <2>1, <2>2, GoesInOrder DEF RowsKept
  <2>4. RowsAt(Append(stored, Past + 1), restarts, Past + 1)
    BY <1>0, <1>2, <2>3, RowsStored DEF RowsInOrder
  <2>5. RowsInOrder'
    BY <1>2, <2>1, <2>2, <2>3, <2>4 DEF RowsInOrder, Goes
  <2>6. MetAt(leads, announced, contacted, Append(stored, Head(batch)), "inbound", Current.user)
    <3>1. MetAt(leads, announced, contacted, stored, "message", Updates[Head(batch)].user)
      BY <1>0, <1>2, <2>1 DEF SendersMetOnce
    <3> QED
      BY <1>0, <1>2, <3>1, MetStored
  <2>7. SendersMetOnce'
    BY <1>6, <2>1, <2>2, <2>6 DEF SendersMetOnce
  <2> QED
    BY <2>3, <2>5, <2>7 DEF TelegramInv
<1>12. CASE EmitInbound
  <2>1. at = "inbound" /\ UNCHANGED <<leads, announced, stored>>
    BY <1>12 DEF EmitInbound
  <2>2. Ends
    BY <1>1, <1>3, <1>12 DEF EmitInbound, Keep, Ends, botApi, budgets
  <2>3. CASE IsFirst(Current.user)
    <3>1. contacted' = Append(contacted, Current.user)
      BY <1>12, <2>3 DEF EmitInbound
    <3>2. Cardinality(RowsIn(stored, Current.user)) = 1
      BY <2>3 DEF IsFirst, RowsOf, RowsIn
    <3>3. MetAt(leads, announced, Append(contacted, Current.user), stored, "next", Current.user)
      BY <1>0, <1>2, <2>1, <3>2, MetAnswered DEF SendersMetOnce
    <3>4. MetAt(leads, announced, Append(contacted, Current.user), stored, "next", Current'.user)
      BY <1>0, <3>3, MetElsewhere
    <3>5. at' = "next"
      BY <2>2 DEF Ends, NextUpdate
    <3>6. SendersMetOnce'
      BY <2>1, <3>1, <3>4, <3>5 DEF SendersMetOnce
    <3>7. BatchInOrder' /\ RowsKept' = Past + 1
      BY <1>0, <2>2, EndsInOrder
    <3>8. RowsKept' \in Nat /\ RowsKept <= RowsKept' /\ restarts' = restarts
      BY <1>0, <2>2, <3>7 DEF Ends
    <3>9. RowsInOrder'
      BY <1>0, <2>1, <3>8, RowsStay
    <3> QED
      BY <3>6, <3>7, <3>9 DEF TelegramInv
  <2>4. CASE ~IsFirst(Current.user)
    <3>1. contacted' = contacted
      BY <1>12, <2>4 DEF EmitInbound
    <3> QED
      BY <1>4, <2>1, <2>2, <3>1
  <2> QED
    BY <2>3, <2>4
<1>13. CASE HandlerFails
  <2>1. TgFault /\ NextUpdate /\ UNCHANGED <<botApi, last, data, restarts>>
    BY <1>13 DEF HandlerFails
  <2>2. tgFaults' = tgFaults + 1 /\ tgFaults' \in 0..MaxTgFaults
    <3>1. \A f \in 0..MaxTgFaults : f < MaxTgFaults => f + 1 \in 0..MaxTgFaults
      BY UpdatesAreNumbered
    <3> QED
      BY <1>3, <2>1, <3>1 DEF TgFault
  <2>3. Ends
    BY <1>1, <2>1, <2>2 DEF Ends, botApi
  <2> QED
    BY <1>4, <2>1, <2>3 DEF data
<1> QED
  BY <1>7, <1>8, <1>9, <1>10, <1>11, <1>12, <1>13, <1>14

LEMMA TelegramSteps ==
  ASSUME TelegramInv, TelegramNext
  PROVE  TelegramInv'
BY PollerSteps, RestartStep, HandlerSteps DEF TelegramNext

LEMMA TelegramStarts ==
  ASSUME TelegramInit
  PROVE  TelegramInv
<1>0. /\ arrived = 0 /\ confirmed = 0 /\ last = 0 /\ batch = <<>> /\ at = "poll" /\ leads = {}
      /\ announced = <<>> /\ stored = <<>> /\ contacted = <<>> /\ ended = {}
      /\ restarts = 0 /\ tgFaults = 0 /\ Len(Updates) \in Nat /\ MaxTgFaults \in Nat
  BY UpdatesAreNumbered DEF TelegramInit
<1>1. ~Handling
  BY <1>0 DEF Handling
<1>2. Past = 0 /\ RowsKept = 0
  BY <1>0, <1>1 DEF Past, Top, RowsKept
<1>3. BatchInOrder
  BY <1>0, <1>1, <1>2 DEF BatchInOrder, Steps
<1>4. RowsAt(<<>>, 0, 0)
  <2>1. Len(Updates) * 0 = 0
    BY <1>0
  <2>2. \A n \in Ids : Times(n, <<>>) <= 0 + (IF n <= 0 THEN 1 ELSE 0)
    BY NothingCounted, UpdatesAreNumbered
  <2> QED
    BY <2>1, <2>2 DEF RowsAt
<1>5. RowsInOrder
  BY <1>0, <1>2, <1>4 DEF RowsInOrder
<1>6. MetAt({}, <<>>, <<>>, <<>>, "poll", Current.user)
  BY NothingCounted DEF MetAt
<1>7. SendersMetOnce
  BY <1>0, <1>6 DEF SendersMetOnce
<1> QED
  BY <1>3, <1>5, <1>7 DEF TelegramInv

LEMMA TelegramHolds ==
  ASSUME TelegramInv
  PROVE  TelegramTypeOK /\ ConfirmedIsHandled /\ RepeatedOnlyByRestart
<1>0. /\ BatchInOrder /\ RowsInOrder /\ SendersMetOnce /\ restarts \in Nat /\ tgFaults \in Nat
      /\ restarts <= tgFaults /\ tgFaults <= MaxTgFaults /\ MaxTgFaults \in Nat
      /\ Past \in Nat /\ RowsKept \in Nat /\ RowsKept <= Len(Updates) /\ Len(Updates) \in Nat
      /\ confirmed \in Nat /\ confirmed <= Past
  BY PlaceFacts, UpdatesAreNumbered DEF TelegramInv, BatchInOrder
<1>1. stored \in Seq(Ids) /\ Len(stored) \in Nat
  BY <1>0 DEF RowsInOrder, RowsAt
<1>2. Len(stored) <= Len(Updates) * (1 + MaxTgFaults)
  <2>1. ASSUME NEW n \in Nat, NEW r \in Nat, NEW f \in Nat, r <= f PROVE n * r + n <= n * (1 + f)
    <3>1. PICK d \in Nat : f = r + d
      <4>1. f - r \in Nat /\ f = r + (f - r)
        BY <2>1
      <4> QED
        BY <4>1
    <3>2. n * (1 + f) = n + n * r + n * d /\ n * d \in Nat /\ n * r \in Nat
      BY <3>1
    <3> QED
      BY <3>2
  <2>2. Len(Updates) * restarts + Len(Updates) <= Len(Updates) * (1 + MaxTgFaults)
    BY <1>0, <2>1
  <2>3. Len(stored) <= Len(Updates) * restarts + RowsKept
    BY <1>0 DEF RowsInOrder, RowsAt
  <2>4. Len(Updates) * restarts \in Nat /\ Len(Updates) * (1 + MaxTgFaults) \in Nat
    BY <1>0
  <2>5. PICK a \in Nat, b \in Nat : a = Len(Updates) * restarts /\ b = Len(Updates) * (1 + MaxTgFaults)
    BY <2>4
  <2>6. Len(stored) <= b
    BY <1>0, <1>1, <2>2, <2>3, <2>5
  <2> QED
    BY <2>5, <2>6
<1>3. TelegramTypeOK
  BY <1>0, <1>2 DEF TelegramTypeOK, BatchInOrder, SendersMetOnce, MetAt
<1>4. ConfirmedIsHandled
  BY <1>0 DEF ConfirmedIsHandled, BatchInOrder
<1>5. \A n \in Ids : Times(n, stored) <= 1 + restarts
  <2> TAKE n \in Ids
  <2>1. Times(n, stored) \in Nat /\ Times(n, stored) <= restarts + (IF n <= RowsKept THEN 1 ELSE 0)
    BY <1>0, <1>1, TimesIsNat DEF RowsInOrder, RowsAt
  <2> QED
    BY <1>0, <2>1
<1>6. \A u \in Users : Times(u, announced) <= 1 /\ Times(u, contacted) <= 1
  BY <1>0 DEF SendersMetOnce, MetAt
<1>7. restarts = 0 => \A j, k \in DOMAIN stored : j < k => stored[j] < stored[k]
  BY <1>0, <1>1 DEF RowsInOrder, RowsAt
<1> QED
  BY <1>3, <1>4, <1>5, <1>6, <1>7 DEF RepeatedOnlyByRestart

-----------------------------------------------------------------------------
(* Both kinds of channel *)

ConnectionsInv == ChannelInv /\ TelegramInv

LEMMA ChannelKept ==
  ASSUME ChannelInv, UNCHANGED channelVars
  PROVE  ChannelInv'
BY DEF ChannelInv, ChannelShape, RequestsAreTyped, RowsAreNumbered, InstanceIsNamed, MovesAreCounted,
       ChangeIsAnnounced, Names, channelVars, ghosts, budget

LEMMA TelegramKept ==
  ASSUME TelegramInv, UNCHANGED telegramVars
  PROVE  TelegramInv'
<1>1. UNCHANGED <<arrived, confirmed, last, batch, at, leads, announced, stored, contacted, ended,
                  restarts, tgFaults>>
  BY DEF telegramVars
<1>2. BatchInOrder' /\ RowsKept' = RowsKept
  BY <1>1 DEF TelegramInv, BatchInOrder, Past, Top, Handling, RowsKept
<1>3. RowsInOrder' /\ SendersMetOnce'
  BY <1>1, <1>2 DEF TelegramInv, RowsInOrder, SendersMetOnce, Current
<1> QED
  BY <1>2, <1>3 DEF TelegramInv

LEMMA ConnectionsInvariant == Spec => []ConnectionsInv
<1>1. Init => ConnectionsInv
  BY ChannelStarts, TelegramStarts DEF Init, ConnectionsInv
<1>2. ConnectionsInv /\ [Next]_vars => ConnectionsInv'
  <2> SUFFICES ASSUME ConnectionsInv, [Next]_vars PROVE ConnectionsInv'
    OBVIOUS
  <2>1. \/ UNCHANGED <<channelVars, telegramVars>>
        \/ ChannelNext /\ UNCHANGED telegramVars
        \/ TelegramNext /\ UNCHANGED channelVars
    BY DEF Next, vars
  <2>2. ChannelNext => ChannelInv'
    BY ChannelSteps DEF ConnectionsInv
  <2>3. TelegramNext => TelegramInv'
    BY TelegramSteps DEF ConnectionsInv
  <2> QED
    BY <2>1, <2>2, <2>3, ChannelKept, TelegramKept DEF ConnectionsInv
<1> QED
  BY <1>1, <1>2, PTL DEF Spec

\* Rows, requests, events and the poller's memory are well formed, for any number of
\* moves, faults and restarts and any updates of the bot.
THEOREM ConnectionsTypeCorrect == Spec => []TypeOK
<1>1. ConnectionsInv => TypeOK
  BY ChannelHolds, TelegramHolds DEF ConnectionsInv, TypeOK
<1> QED
  BY <1>1, ConnectionsInvariant, PTL

\* A channel shown as connected has an open instance once nothing is on its way,
\* unless an event was lost or a write was late (webhooks.controller.ts:181, :358); an
\* update Telegram was told to forget came to the end of its handler, and is stored
\* again by a restart only (telegram.provider.ts:117).
THEOREM ChannelsHold == Spec => []ChannelsAreTrue
<1>1. ConnectionsInv => ChannelsAreTrue
  BY ChannelHolds, TelegramHolds DEF ConnectionsInv, ChannelsAreTrue
<1> QED
  BY <1>1, ConnectionsInvariant, PTL

-----------------------------------------------------------------------------
(* The session of a browser *)

SessionSpec == SessionInit /\ [][SessionNext]_sessionVars

Anyone == People \cup {NoOne}
CallKinds == {"none", "restore", "login", "handler", "timer"}

PageRecord == [phase : {"closed", "loading", "ready"}, user : Anyone, owner : Anyone,
               fresh : BOOLEAN, timer : BOOLEAN]
CallRecord == [kind : CallKinds, user : Anyone]

(* What the entry, the tabs and their calls may be. *)
SessionShape ==
  /\ storage \in [user : Anyone, fresh : BOOLEAN]
  /\ storage = NoEntry \/ storage.user \in People
  /\ tab \in [Tabs -> PageRecord] /\ tabCalls \in [Tabs -> [Numbers -> CallRecord]]
  /\ \A t \in Tabs : \A n \in Numbers : tabCalls[t][n].kind # "none" => tabCalls[t][n].user \in People
  /\ barred \subseteq People /\ disturbed \subseteq Tabs /\ left \in BOOLEAN
  /\ sessionMoves \in Nat

(* An undisturbed tab: its calls are for its person, and one that restores  *)
(* or logs in is the only one of a tab that has none yet.                   *)
Alone(t, n) == \A m \in Numbers : m # n => tabCalls[t][m].kind = "none"
CallFits(t, n) ==
  /\ tabCalls[t][n].kind = "restore" => tab[t].phase = "loading" /\ tab[t].user = NoOne /\ Alone(t, n)
  /\ tabCalls[t][n].kind = "login" => tab[t].phase = "ready" /\ tab[t].user = NoOne /\ Alone(t, n)
  /\ tabCalls[t][n].kind \in {"handler", "timer"} =>
       tab[t].user # NoOne /\ tabCalls[t][n].user = tab[t].user
TabIsWhole(t) ==
  /\ tab[t].user = tab[t].owner
  /\ tab[t].timer => tab[t].user # NoOne
  /\ tab[t].user # NoOne => tab[t].phase = "ready" /\ storage.user \in {NoOne, tab[t].user}
  /\ tab[t].phase = "loading" => \E n \in Numbers : tabCalls[t][n].kind = "restore"
  /\ \A n \in Numbers : CallFits(t, n)

SessionInv ==
  /\ SessionShape
  /\ \A t \in Tabs \ disturbed : TabIsWhole(t)

(* A tab that a step leaves alone stays whole, unless it sees the session   *)
(* of another person.                                                       *)
LEMMA OtherTab ==
  ASSUME NEW s \in Tabs, TabIsWhole(s), tab'[s] = tab[s], tabCalls'[s] = tabCalls[s],
         tab[s].user = NoOne \/ storage'.user \in {NoOne, tab[s].user}
  PROVE  TabIsWhole(s)'
BY DEF TabIsWhole, CallFits, Alone

LEMMA NotStranger ==
  ASSUME NEW S, Disturbs(S), NEW s \in Tabs \ disturbed'
  PROVE  /\ s \notin disturbed /\ s \notin S
         /\ tab'[s].user = NoOne \/ storage'.user \in {NoOne, tab'[s].user}
BY DEF Disturbs, Strangers

(* The shape, one action at a time. *)
LEMMA EntryShape ==
  /\ NoEntry \in [user : Anyone, fresh : BOOLEAN]
  /\ \A u \in People : Entry(u) \in [user : Anyone, fresh : BOOLEAN] /\ Entry(u).user = u
BY DEF NoEntry, Entry, Anyone

LEMMA PageShape ==
  ASSUME NEW phase \in {"closed", "loading", "ready"}
  PROVE  /\ Page(phase) \in PageRecord
         /\ Page(phase).user = NoOne /\ Page(phase).owner = NoOne /\ Page(phase).timer = FALSE
         /\ Page(phase).phase = phase
BY DEF Page, PageRecord, Anyone

LEMMA NoCallsShape ==
  /\ NoTabCall \in CallRecord /\ NoCalls \in [Numbers -> CallRecord]
  /\ \A n \in Numbers : NoCalls[n].kind = "none" /\ NoCalls[n] = NoTabCall
BY DEF NoTabCall, NoCalls, CallRecord, CallKinds, Anyone

LEMMA MoveCounts ==
  ASSUME sessionMoves \in Nat, SessionMove
  PROVE  sessionMoves' \in Nat /\ sessionMoves' # sessionMoves
BY DEF SessionMove

(* The page loads. *)
LEMMA OpenWhole ==
  ASSUME SessionAssumption, SessionInv, NEW t \in Tabs, Open(t)
  PROVE  SessionInv'
<1>1. SessionShape /\ \A s \in Tabs \ disturbed : TabIsWhole(s)
  BY DEF SessionInv
<1>2. /\ storage \in [user : Anyone, fresh : BOOLEAN]
      /\ storage = NoEntry \/ storage.user \in People
      /\ tab \in [Tabs -> PageRecord] /\ tabCalls \in [Tabs -> [Numbers -> CallRecord]]
      /\ \A s \in Tabs : \A n \in Numbers : tabCalls[s][n].kind # "none" => tabCalls[s][n].user \in People
      /\ barred \subseteq People /\ disturbed \subseteq Tabs /\ left \in BOOLEAN
      /\ sessionMoves \in Nat
  BY <1>1 DEF SessionShape
<1>3. /\ storage' = storage /\ barred' = barred /\ left' = left
      /\ disturbed' = disturbed \ {t}
      /\ sessionMoves' \in Nat
  BY <1>2, MoveCounts DEF Open
<1> DEFINE loaded == [Page("ready") EXCEPT !.user = storage.user, !.owner = storage.user,
                                     !.fresh = storage.fresh, !.timer = storage.fresh]
           restoring == [NoCalls EXCEPT ![1] = [kind |-> "restore", user |-> storage.user]]
<1>4. ASSUME NEW s \in Tabs \ disturbed', s # t,
             tab'[s] = tab[s], tabCalls'[s] = tabCalls[s]
      PROVE  TabIsWhole(s)'
  <2>1. TabIsWhole(s)
    BY <1>1, <1>3, <1>4
  <2>2. tab[s].user = NoOne \/ storage'.user \in {NoOne, tab[s].user}
    BY <1>3, <2>1 DEF TabIsWhole
  <2> QED
    BY <1>4, <2>1, <2>2, OtherTab
<1>5. CASE storage = NoEntry \/ storage.fresh
  <2>1. tab' = [tab EXCEPT ![t] = loaded] /\ tabCalls' = [tabCalls EXCEPT ![t] = NoCalls]
    BY <1>5 DEF Open
  <2>2. /\ loaded \in PageRecord
        /\ loaded.user = storage.user /\ loaded.owner = storage.user
        /\ loaded.timer = storage.fresh /\ loaded.phase = "ready"
    BY <1>2 DEF Page, PageRecord, Anyone
  <2>3. storage.fresh => storage.user # NoOne
    BY <1>2 DEF NoEntry, SessionAssumption
  <2>4. /\ tab'[t] = loaded /\ tabCalls'[t] = NoCalls
        /\ \A s \in Tabs : s # t => tab'[s] = tab[s] /\ tabCalls'[s] = tabCalls[s]
    BY <1>2, <2>1
  <2>5. TabIsWhole(t)'
    <3>1. \A n \in Numbers : tabCalls'[t][n].kind = "none"
      BY <2>4, NoCallsShape
    <3>2. \A n \in Numbers : CallFits(t, n)'
      BY <3>1 DEF CallFits
    <3>3. /\ tab'[t].user = storage.user /\ tab'[t].owner = storage.user
          /\ tab'[t].phase = "ready" /\ (tab'[t].timer => tab'[t].user # NoOne)
      BY <2>2, <2>3, <2>4
    <3> QED
      BY <1>3, <3>2, <3>3 DEF TabIsWhole
  <2>6. SessionShape'
    BY <1>2, <1>3, <2>1, <2>2, <2>4, NoCallsShape DEF SessionShape
  <2> QED
    BY <1>1, <1>3, <1>4, <2>4, <2>5, <2>6 DEF SessionInv
<1>6. CASE ~(storage = NoEntry \/ storage.fresh)
  <2>1. tab' = [tab EXCEPT ![t] = Page("loading")] /\ tabCalls' = [tabCalls EXCEPT ![t] = restoring]
    BY <1>6 DEF Open
  <2>2. 1 \in Numbers
    BY DEF Numbers, SessionAssumption
  <2>3. /\ restoring \in [Numbers -> CallRecord]
        /\ restoring[1].kind = "restore" /\ restoring[1].user = storage.user
        /\ \A n \in Numbers : n # 1 => restoring[n].kind = "none"
    BY <1>2, <2>2, NoCallsShape DEF CallRecord, CallKinds
  <2> HIDE DEF restoring
  <2>4. /\ tab'[t] = Page("loading") /\ tabCalls'[t] = restoring
        /\ \A s \in Tabs : s # t => tab'[s] = tab[s] /\ tabCalls'[s] = tabCalls[s]
    BY <1>2, <2>1
  <2>5. TabIsWhole(t)'
    <3>1. /\ tab'[t].user = NoOne /\ tab'[t].owner = NoOne /\ tab'[t].timer = FALSE
          /\ tab'[t].phase = "loading"
      BY <2>4, PageShape
    <3>2. /\ tabCalls'[t][1].kind = "restore"
          /\ \A n \in Numbers : n # 1 => tabCalls'[t][n].kind = "none"
      BY <2>3, <2>4
    <3>3. ASSUME NEW n \in Numbers PROVE CallFits(t, n)'
      BY <2>2, <3>1, <3>2 DEF CallFits, Alone
    <3> QED
      BY <2>2, <3>1, <3>2, <3>3 DEF TabIsWhole
  <2>6. /\ tab' \in [Tabs -> PageRecord] /\ tabCalls' \in [Tabs -> [Numbers -> CallRecord]]
    <3>1. Page("loading") \in PageRecord
      BY PageShape
    <3> QED
      BY <1>2, <2>1, <2>3, <3>1
  <2>7. \A s \in Tabs : \A n \in Numbers : tabCalls'[s][n].kind # "none" => tabCalls'[s][n].user \in People
    BY <1>2, <1>6, <2>3, <2>4
  <2>8. SessionShape'
    BY <1>2, <1>3, <2>6, <2>7 DEF SessionShape
  <2> QED
    BY <1>1, <1>3, <1>4, <2>4, <2>5, <2>8 DEF SessionInv
<1> QED
  BY <1>5, <1>6

(* A step of one tab. *)
LEMMA OneTab ==
  ASSUME SessionInv, SessionShape', NEW t \in Tabs,
         \A s \in Tabs : s # t => tab'[s] = tab[s] /\ tabCalls'[s] = tabCalls[s],
         \A s \in Tabs \ disturbed' : s # t =>
           s \notin disturbed /\ (tab'[s].user = NoOne \/ storage'.user \in {NoOne, tab'[s].user}),
         t \notin disturbed' => TabIsWhole(t)'
  PROVE  SessionInv'
<1>1. ASSUME NEW s \in Tabs \ disturbed', s # t PROVE TabIsWhole(s)'
  <2>1. /\ tab'[s] = tab[s] /\ tabCalls'[s] = tabCalls[s] /\ TabIsWhole(s)
        /\ tab[s].user = NoOne \/ storage'.user \in {NoOne, tab[s].user}
    BY <1>1 DEF SessionInv
  <2> QED
    BY <2>1, OtherTab
<1> QED
  BY <1>1 DEF SessionInv

(* Facts every step of a tab starts from. *)
LEMMA SessionFacts ==
  ASSUME SessionInv
  PROVE  /\ SessionShape
         /\ \A s \in Tabs \ disturbed : TabIsWhole(s)
         /\ storage \in [user : Anyone, fresh : BOOLEAN]
         /\ storage = NoEntry \/ storage.user \in People
         /\ tab \in [Tabs -> PageRecord] /\ tabCalls \in [Tabs -> [Numbers -> CallRecord]]
         /\ \A s \in Tabs : \A n \in Numbers : tabCalls[s][n].kind # "none" => tabCalls[s][n].user \in People
         /\ barred \subseteq People /\ disturbed \subseteq Tabs /\ left \in BOOLEAN
         /\ sessionMoves \in Nat
BY DEF SessionInv, SessionShape

LEMMA DisturbsShape ==
  ASSUME NEW S \in SUBSET Tabs, disturbed \subseteq Tabs, Disturbs(S)
  PROVE  disturbed' \subseteq Tabs
BY DEF Disturbs, Strangers

(* A call of a tab begins. *)
LEMMA BeginsCalls ==
  ASSUME tabCalls \in [Tabs -> [Numbers -> CallRecord]], NEW t \in Tabs, NEW n \in Numbers,
         NEW kind \in CallKinds, NEW u \in People, Begins(t, n, kind, u),
         \A s \in Tabs : \A m \in Numbers : tabCalls[s][m].kind # "none" => tabCalls[s][m].user \in People
  PROVE  /\ tabCalls' \in [Tabs -> [Numbers -> CallRecord]]
         /\ \A s \in Tabs : \A m \in Numbers : tabCalls'[s][m].kind # "none" => tabCalls'[s][m].user \in People
         /\ \A s \in Tabs : s # t => tabCalls'[s] = tabCalls[s]
         /\ tabCalls[t][n].kind = "none"
         /\ tabCalls'[t][n].kind = kind /\ tabCalls'[t][n].user = u
         /\ \A m \in Numbers : m # n => tabCalls'[t][m] = tabCalls[t][m]
<1> DEFINE new == [kind |-> kind, user |-> u]
<1>1. new \in CallRecord /\ new.kind = kind /\ new.user = u
  BY DEF CallRecord, Anyone
<1>2. tabCalls' = [tabCalls EXCEPT ![t][n] = new] /\ tabCalls[t][n].kind = "none"
  BY DEF Begins
<1> HIDE DEF new
<1>3. /\ tabCalls' \in [Tabs -> [Numbers -> CallRecord]]
      /\ \A s \in Tabs : s # t => tabCalls'[s] = tabCalls[s]
      /\ tabCalls'[t][n] = new
      /\ \A m \in Numbers : m # n => tabCalls'[t][m] = tabCalls[t][m]
  BY <1>1, <1>2
<1>4. \A s \in Tabs : \A m \in Numbers : tabCalls'[s][m].kind # "none" => tabCalls'[s][m].user \in People
  <2> SUFFICES ASSUME NEW s \in Tabs, NEW m \in Numbers, tabCalls'[s][m].kind # "none"
               PROVE  tabCalls'[s][m].user \in People
    OBVIOUS
  <2>1. CASE s = t /\ m = n
    BY <1>1, <1>3, <2>1
  <2>2. CASE ~(s = t /\ m = n)
    <3>1. tabCalls'[s][m] = tabCalls[s][m]
      BY <1>3, <2>2
    <3> QED
      BY <3>1
  <2> QED
    BY <2>1, <2>2
<1> QED
  BY <1>1, <1>2, <1>3, <1>4

(* The calls of a tab are dropped, or one of them ends. *)
LEMMA DropCalls ==
  ASSUME tabCalls \in [Tabs -> [Numbers -> CallRecord]], NEW t \in Tabs,
         tabCalls' = [tabCalls EXCEPT ![t] = NoCalls],
         \A s \in Tabs : \A m \in Numbers : tabCalls[s][m].kind # "none" => tabCalls[s][m].user \in People
  PROVE  /\ tabCalls' \in [Tabs -> [Numbers -> CallRecord]]
         /\ \A s \in Tabs : \A m \in Numbers : tabCalls'[s][m].kind # "none" => tabCalls'[s][m].user \in People
         /\ \A s \in Tabs : s # t => tabCalls'[s] = tabCalls[s]
         /\ \A m \in Numbers : tabCalls'[t][m].kind = "none"
<1>1. /\ NoCalls \in [Numbers -> CallRecord]
      /\ \A n \in Numbers : NoCalls[n].kind = "none"
  BY NoCallsShape
<1>2. /\ tabCalls'[t] = NoCalls
      /\ \A s \in Tabs : s # t => tabCalls'[s] = tabCalls[s]
      /\ tabCalls' \in [Tabs -> [Numbers -> CallRecord]]
  BY <1>1
<1> QED
  BY <1>1, <1>2

LEMMA OverCalls ==
  ASSUME tabCalls \in [Tabs -> [Numbers -> CallRecord]], NEW t \in Tabs, NEW n \in Numbers,
         Over(t, n),
         \A s \in Tabs : \A m \in Numbers : tabCalls[s][m].kind # "none" => tabCalls[s][m].user \in People
  PROVE  /\ tabCalls' \in [Tabs -> [Numbers -> CallRecord]]
         /\ \A s \in Tabs : \A m \in Numbers : tabCalls'[s][m].kind # "none" => tabCalls'[s][m].user \in People
         /\ \A s \in Tabs : s # t => tabCalls'[s] = tabCalls[s]
         /\ tabCalls'[t][n].kind = "none"
         /\ \A m \in Numbers : m # n => tabCalls'[t][m] = tabCalls[t][m]
<1>1. NoTabCall \in CallRecord /\ NoTabCall.kind = "none"
  BY NoCallsShape DEF NoTabCall
<1>2. tabCalls' = [tabCalls EXCEPT ![t][n] = NoTabCall]
  BY DEF Over
<1>3. /\ tabCalls' \in [Tabs -> [Numbers -> CallRecord]]
      /\ \A s \in Tabs : s # t => tabCalls'[s] = tabCalls[s]
      /\ tabCalls'[t][n] = NoTabCall
      /\ \A m \in Numbers : m # n => tabCalls'[t][m] = tabCalls[t][m]
  BY <1>1, <1>2
<1>4. \A s \in Tabs : \A m \in Numbers : tabCalls'[s][m].kind # "none" => tabCalls'[s][m].user \in People
  <2> SUFFICES ASSUME NEW s \in Tabs, NEW m \in Numbers, tabCalls'[s][m].kind # "none"
               PROVE  tabCalls'[s][m].user \in People
    OBVIOUS
  <2>1. ~(s = t /\ m = n)
    BY <1>1, <1>3
  <2>2. tabCalls'[s][m] = tabCalls[s][m]
    BY <1>3, <2>1
  <2> QED
    BY <2>2
<1> QED
  BY <1>1, <1>3, <1>4

(* The tab that leaves, with its calls: nothing of it is left. *)
LEMMA LeavesWhole ==
  ASSUME SessionAssumption, SessionInv, NEW t \in Tabs, LogsOut(t),
         tabCalls' = [tabCalls EXCEPT ![t] = NoCalls],
         Disturbs({}), barred' = barred, left' = left, sessionMoves' \in Nat
  PROVE  SessionInv'
<1>1. tab' = [tab EXCEPT ![t] = Page("closed")] /\ storage' = NoEntry
  BY DEF LogsOut
<1>2. Page("closed") \in PageRecord /\ Page("closed").user = NoOne /\ Page("closed").owner = NoOne
      /\ Page("closed").timer = FALSE /\ Page("closed").phase = "closed"
  BY PageShape
<1>3. /\ tab' \in [Tabs -> PageRecord] /\ tab'[t] = Page("closed")
      /\ \A s \in Tabs : s # t => tab'[s] = tab[s]
  BY <1>1, <1>2, SessionFacts
<1>4. /\ tabCalls' \in [Tabs -> [Numbers -> CallRecord]]
      /\ \A s \in Tabs : \A m \in Numbers : tabCalls'[s][m].kind # "none" => tabCalls'[s][m].user \in People
      /\ \A s \in Tabs : s # t => tabCalls'[s] = tabCalls[s]
      /\ \A m \in Numbers : tabCalls'[t][m].kind = "none"
  BY SessionFacts, DropCalls
<1>5. disturbed' \subseteq Tabs
  BY SessionFacts, DisturbsShape
<1>6. SessionShape'
  <2>1. NoEntry \in [user : Anyone, fresh : BOOLEAN]
    BY EntryShape
  <2> QED
    BY <1>1, <1>3, <1>4, <1>5, <2>1, SessionFacts DEF SessionShape
<1>7. TabIsWhole(t)'
  BY <1>2, <1>3, <1>4 DEF TabIsWhole, CallFits
<1>8. \A s \in Tabs \ disturbed' : s # t =>
        s \notin disturbed /\ (tab'[s].user = NoOne \/ storage'.user \in {NoOne, tab'[s].user})
  BY NotStranger
<1> QED
  BY <1>1, <1>3, <1>4, <1>6, <1>7, <1>8, OneTab

LEMMA UnauthorizedWhole ==
  ASSUME SessionAssumption, SessionInv, NEW t \in Tabs, NEW n \in Numbers, Unauthorized(t, n)
  PROVE  SessionInv'
<1>1. /\ tab[t].phase = "ready" /\ tab[t].owner # NoOne
      /\ Disturbs({}) /\ barred' = barred /\ left' = left /\ sessionMoves' = sessionMoves
  BY DEF Unauthorized
<1>2. CASE storage = NoEntry
  BY <1>1, <1>2, LeavesWhole, SessionFacts DEF Unauthorized
<1>3. CASE storage # NoEntry
  <2>1. Begins(t, n, "handler", storage.user) /\ tab' = tab /\ storage' = storage
    BY <1>3 DEF Unauthorized
  <2>2. storage.user \in People
    BY <1>3, SessionFacts
  <2>3. /\ tabCalls' \in [Tabs -> [Numbers -> CallRecord]]
        /\ \A s \in Tabs : \A m \in Numbers : tabCalls'[s][m].kind # "none" => tabCalls'[s][m].user \in People
        /\ \A s \in Tabs : s # t => tabCalls'[s] = tabCalls[s]
        /\ tabCalls[t][n].kind = "none"
        /\ tabCalls'[t][n].kind = "handler" /\ tabCalls'[t][n].user = storage.user
        /\ \A m \in Numbers : m # n => tabCalls'[t][m] = tabCalls[t][m]
    BY <2>1, <2>2, SessionFacts, BeginsCalls DEF CallKinds
  <2>4. disturbed' \subseteq Tabs
    BY <1>1, SessionFacts, DisturbsShape
  <2>5. SessionShape'
    BY <1>1, <2>1, <2>3, <2>4, SessionFacts DEF SessionShape
  <2>6. ASSUME t \notin disturbed' PROVE TabIsWhole(t)'
    <3>1. t \notin disturbed /\ (tab[t].user = NoOne \/ storage.user \in {NoOne, tab[t].user})
      BY <1>1, <2>1, <2>6, NotStranger
    <3>2. TabIsWhole(t) /\ tab[t].user # NoOne
      BY <1>1, <3>1, SessionFacts DEF TabIsWhole
    <3>3. storage.user = tab[t].user
      BY <2>2, <3>1, <3>2 DEF SessionAssumption
    <3>4. \A m \in Numbers : tabCalls[t][m].kind \notin {"restore", "login"}
      BY <3>2 DEF TabIsWhole, CallFits
    <3>5. ASSUME NEW m \in Numbers PROVE CallFits(t, m)'
      <4>1. CASE m = n
        BY <2>1, <2>3, <3>2, <3>3, <4>1 DEF CallFits
      <4>2. CASE m # n
        <5>1. tabCalls'[t][m] = tabCalls[t][m] /\ CallFits(t, m)
          BY <2>3, <3>2, <4>2 DEF TabIsWhole
        <5> QED
          BY <2>1, <3>4, <5>1 DEF CallFits
      <4> QED
        BY <4>1, <4>2
    <3> QED
      BY <1>1, <2>1, <3>2, <3>5 DEF TabIsWhole
  <2>7. \A s \in Tabs \ disturbed' : s # t =>
          s \notin disturbed /\ (tab'[s].user = NoOne \/ storage'.user \in {NoOne, tab'[s].user})
    BY <1>1, NotStranger
  <2> QED
    BY <1>1, <2>1, <2>3, <2>5, <2>6, <2>7, OneTab, SessionFacts
<1> QED
  BY <1>2, <1>3

LEMMA TimerWhole ==
  ASSUME SessionAssumption, SessionInv, NEW t \in Tabs, NEW n \in Numbers, TimerFires(t, n)
  PROVE  SessionInv'
<1>1. /\ tab[t].timer /\ tab' = [tab EXCEPT ![t].timer = FALSE]
      /\ storage' = storage /\ barred' = barred /\ left' = left /\ disturbed' = disturbed
      /\ sessionMoves' = sessionMoves
  BY DEF TimerFires
<1>2. /\ tab' \in [Tabs -> PageRecord] /\ \A s \in Tabs : s # t => tab'[s] = tab[s]
      /\ tab'[t].user = tab[t].user /\ tab'[t].owner = tab[t].owner
      /\ tab'[t].phase = tab[t].phase /\ tab'[t].timer = FALSE
  BY <1>1, SessionFacts DEF PageRecord
<1>3. \A s \in Tabs \ disturbed' : s # t =>
        s \notin disturbed /\ (tab'[s].user = NoOne \/ storage'.user \in {NoOne, tab'[s].user})
  <2> SUFFICES ASSUME NEW s \in Tabs \ disturbed', s # t
               PROVE  s \notin disturbed /\ (tab'[s].user = NoOne \/ storage'.user \in {NoOne, tab'[s].user})
    OBVIOUS
  <2>1. TabIsWhole(s)
    BY <1>1, SessionFacts
  <2> QED
    BY <1>1, <1>2, <2>1 DEF TabIsWhole
<1>4. CASE storage = NoEntry
  <2>1. tabCalls' = tabCalls
    BY <1>4 DEF TimerFires
  <2>2. SessionShape'
    BY <1>1, <1>2, <2>1, SessionFacts DEF SessionShape
  <2>3. ASSUME t \notin disturbed' PROVE TabIsWhole(t)'
    <3>1. TabIsWhole(t)
      BY <1>1, <2>3, SessionFacts
    <3> QED
      BY <1>1, <1>2, <2>1, <3>1 DEF TabIsWhole, CallFits, Alone
  <2> QED
    BY <1>1, <1>2, <1>3, <2>1, <2>2, <2>3, OneTab, SessionFacts
<1>5. CASE storage # NoEntry
  <2>1. Begins(t, n, "timer", storage.user)
    BY <1>5 DEF TimerFires
  <2>2. storage.user \in People
    BY <1>5, SessionFacts
  <2>3. /\ tabCalls' \in [Tabs -> [Numbers -> CallRecord]]
        /\ \A s \in Tabs : \A m \in Numbers : tabCalls'[s][m].kind # "none" => tabCalls'[s][m].user \in People
        /\ \A s \in Tabs : s # t => tabCalls'[s] = tabCalls[s]
        /\ tabCalls[t][n].kind = "none"
        /\ tabCalls'[t][n].kind = "timer" /\ tabCalls'[t][n].user = storage.user
        /\ \A m \in Numbers : m # n => tabCalls'[t][m] = tabCalls[t][m]
    BY <2>1, <2>2, SessionFacts, BeginsCalls DEF CallKinds
  <2>4. SessionShape'
    BY <1>1, <1>2, <2>3, SessionFacts DEF SessionShape
  <2>5. ASSUME t \notin disturbed' PROVE TabIsWhole(t)'
    <3>1. TabIsWhole(t)
      BY <1>1, <2>5, SessionFacts
    <3>2. tab[t].user # NoOne /\ storage.user \in {NoOne, tab[t].user}
      BY <1>1, <3>1 DEF TabIsWhole
    <3>3. storage.user = tab[t].user
      BY <2>2, <3>2 DEF SessionAssumption
    <3>4. \A m \in Numbers : tabCalls[t][m].kind \notin {"restore", "login"}
      BY <3>1, <3>2 DEF TabIsWhole, CallFits
    <3>5. ASSUME NEW m \in Numbers PROVE CallFits(t, m)'
      <4>1. CASE m = n
        BY <1>2, <2>3, <3>2, <3>3, <4>1 DEF CallFits
      <4>2. CASE m # n
        <5>1. tabCalls'[t][m] = tabCalls[t][m] /\ CallFits(t, m)
          BY <2>3, <3>1, <4>2 DEF TabIsWhole
        <5> QED
          BY <1>2, <3>4, <5>1 DEF CallFits
      <4> QED
        BY <4>1, <4>2
    <3>6. tab[t].phase = "ready" /\ tab[t].user = tab[t].owner
      BY <3>1, <3>2 DEF TabIsWhole
    <3> QED
      BY <1>1, <1>2, <3>2, <3>5, <3>6 DEF TabIsWhole
  <2> QED
    BY <1>1, <1>2, <1>3, <2>3, <2>4, <2>5, OneTab, SessionFacts
<1> QED
  BY <1>4, <1>5

LEMMA AnswersWhole ==
  ASSUME SessionAssumption, SessionInv, NEW t \in Tabs, NEW n \in Numbers, Answers200(t, n)
  PROVE  SessionInv'
<1> DEFINE c == tabCalls[t][n]
<1>1. /\ c.kind # "none" /\ storage' = Entry(c.user)
      /\ tab' = [tab EXCEPT ![t] = Renewed(tab[t], c)]
      /\ Over(t, n) /\ Disturbs({}) /\ left' \in BOOLEAN /\ barred' = barred /\ sessionMoves' = sessionMoves
  BY DEF Answers200
<1>2. c.user \in People /\ c.kind \in CallKinds
  BY <1>1, SessionFacts DEF CallRecord
<1>3. storage' \in [user : Anyone, fresh : BOOLEAN] /\ storage'.user = c.user
  BY <1>1, <1>2, EntryShape
<1>4. /\ Renewed(tab[t], c) \in PageRecord
      /\ Renewed(tab[t], c).owner = c.user /\ Renewed(tab[t], c).phase = "ready"
      /\ Renewed(tab[t], c).user = (IF c.kind \in {"restore", "login"} THEN c.user ELSE tab[t].user)
  <2>1. tab[t] \in PageRecord /\ c.user \in Anyone
    BY <1>2, SessionFacts DEF Anyone
  <2> QED
    BY <2>1 DEF Renewed, PageRecord
<1> HIDE DEF c
<1>5. /\ tab' \in [Tabs -> PageRecord] /\ \A s \in Tabs : s # t => tab'[s] = tab[s]
      /\ tab'[t].owner = c.user /\ tab'[t].phase = "ready"
      /\ tab'[t].user = (IF c.kind \in {"restore", "login"} THEN c.user ELSE tab[t].user)
  BY <1>1, <1>4, SessionFacts
<1>6. /\ tabCalls' \in [Tabs -> [Numbers -> CallRecord]]
      /\ \A s \in Tabs : \A m \in Numbers : tabCalls'[s][m].kind # "none" => tabCalls'[s][m].user \in People
      /\ \A s \in Tabs : s # t => tabCalls'[s] = tabCalls[s]
      /\ tabCalls'[t][n].kind = "none"
      /\ \A m \in Numbers : m # n => tabCalls'[t][m] = tabCalls[t][m]
  BY <1>1, SessionFacts, OverCalls
<1>7. disturbed' \subseteq Tabs
  BY <1>1, SessionFacts, DisturbsShape
<1>8. SessionShape'
  BY <1>1, <1>2, <1>3, <1>5, <1>6, <1>7, SessionFacts DEF SessionShape
<1>9. ASSUME t \notin disturbed' PROVE TabIsWhole(t)'
  <2>1. t \notin disturbed
    BY <1>1, <1>9, NotStranger
  <2>2. TabIsWhole(t) /\ CallFits(t, n)
    BY <2>1, SessionFacts DEF TabIsWhole
  <2>3. c.user # NoOne
    BY <1>2 DEF SessionAssumption
  <2>4. tab'[t].user = c.user
    BY <1>1, <1>2, <1>5, <2>2 DEF CallFits, CallKinds, c
  <2>5. ASSUME NEW m \in Numbers PROVE CallFits(t, m)'
    <3>1. CASE m = n
      BY <1>6, <3>1 DEF CallFits
    <3>2. CASE m # n /\ c.kind \in {"restore", "login"}
      <4>1. tabCalls'[t][m].kind = "none"
        BY <1>6, <2>2, <3>2 DEF CallFits, Alone, c
      <4> QED
        BY <4>1 DEF CallFits
    <3>3. CASE m # n /\ c.kind \in {"handler", "timer"}
      <4>1. tabCalls'[t][m] = tabCalls[t][m] /\ CallFits(t, m) /\ tab[t].user = c.user
        BY <1>6, <2>2, <3>3 DEF TabIsWhole, CallFits, c
      <4> QED
        BY <2>3, <2>4, <4>1 DEF CallFits
    <3> QED
      BY <1>1, <1>2, <3>1, <3>2, <3>3 DEF CallKinds, c
  <2> QED
    BY <1>3, <1>5, <2>3, <2>4, <2>5 DEF TabIsWhole
<1>10. \A s \in Tabs \ disturbed' : s # t =>
         s \notin disturbed /\ (tab'[s].user = NoOne \/ storage'.user \in {NoOne, tab'[s].user})
  BY <1>1, NotStranger
<1> QED
  BY <1>1, <1>5, <1>6, <1>8, <1>9, <1>10, OneTab

LEMMA FailedWhole ==
  ASSUME SessionAssumption, SessionInv, NEW t \in Tabs, NEW n \in Numbers, CallFailed(t, n)
  PROVE  SessionInv'
<1> DEFINE c == tabCalls[t][n]
<1>1. /\ c.kind # "none" /\ c.kind \in CallKinds
      /\ sessionMoves' \in Nat
      /\ Disturbs({}) /\ barred' = barred /\ left' = left
  <2>1. sessionMoves' = sessionMoves \/ SessionMove
    BY DEF CallFailed
  <2>2. c \in CallRecord
    BY SessionFacts
  <2> QED
    BY <2>1, <2>2, SessionFacts, MoveCounts DEF CallFailed, CallRecord
<1>2. disturbed' \subseteq Tabs
  BY <1>1, SessionFacts, DisturbsShape
<1>3. \A s \in Tabs \ disturbed' : s # t =>
        s \notin disturbed /\ (tab'[s].user = NoOne \/ storage'.user \in {NoOne, tab'[s].user})
  BY <1>1, NotStranger
<1>4. ASSUME Over(t, n)
      PROVE  /\ tabCalls' \in [Tabs -> [Numbers -> CallRecord]]
             /\ \A s \in Tabs : \A m \in Numbers : tabCalls'[s][m].kind # "none" => tabCalls'[s][m].user \in People
             /\ \A s \in Tabs : s # t => tabCalls'[s] = tabCalls[s]
             /\ tabCalls'[t][n].kind = "none"
             /\ \A m \in Numbers : m # n => tabCalls'[t][m] = tabCalls[t][m]
  BY <1>4, SessionFacts, OverCalls
<1>5. CASE c.kind = "login"
  <2>1. Over(t, n) /\ tab' = tab /\ storage' = storage
    BY <1>5 DEF CallFailed
  <2>2. SessionShape'
    BY <1>1, <1>2, <1>4, <2>1, SessionFacts DEF SessionShape
  <2>3. ASSUME t \notin disturbed' PROVE TabIsWhole(t)'
    <3>1. TabIsWhole(t)
      BY <1>1, <2>3, NotStranger, SessionFacts
    <3>2. CallFits(t, n)
      BY <3>1 DEF TabIsWhole
    <3>3. tab[t].user = NoOne /\ tab[t].phase = "ready" /\ Alone(t, n)
      BY <1>5, <3>2 DEF CallFits
    <3>4. \A m \in Numbers : tabCalls'[t][m].kind = "none"
      BY <1>4, <2>1, <3>3 DEF Alone
    <3> QED
      BY <2>1, <3>1, <3>3, <3>4 DEF TabIsWhole, CallFits
  <2> QED
    BY <1>1, <1>3, <1>4, <2>1, <2>2, <2>3, OneTab, SessionFacts
<1>6. CASE c.kind = "restore"
  <2>1. Over(t, n) /\ tab' = [tab EXCEPT ![t].phase = "ready"] /\ storage' = NoEntry
    BY <1>6 DEF CallFailed
  <2>2. /\ tab' \in [Tabs -> PageRecord] /\ \A s \in Tabs : s # t => tab'[s] = tab[s]
        /\ tab'[t].user = tab[t].user /\ tab'[t].owner = tab[t].owner
        /\ tab'[t].phase = "ready" /\ tab'[t].timer = tab[t].timer
    BY <2>1, SessionFacts DEF PageRecord
  <2>3. SessionShape'
    <3>1. storage' \in [user : Anyone, fresh : BOOLEAN]
      BY <2>1, EntryShape
    <3> QED
      BY <1>1, <1>2, <1>4, <2>1, <2>2, <3>1, SessionFacts DEF SessionShape
  <2>4. ASSUME t \notin disturbed' PROVE TabIsWhole(t)'
    <3>1. TabIsWhole(t)
      BY <1>1, <2>4, NotStranger, SessionFacts
    <3>2. CallFits(t, n)
      BY <3>1 DEF TabIsWhole
    <3>3. tab[t].user = NoOne /\ Alone(t, n)
      BY <1>6, <3>2 DEF CallFits
    <3>4. \A m \in Numbers : tabCalls'[t][m].kind = "none"
      BY <1>4, <2>1, <3>3 DEF Alone
    <3> QED
      BY <2>2, <3>1, <3>3, <3>4 DEF TabIsWhole, CallFits
  <2> QED
    BY <1>3, <1>4, <2>1, <2>2, <2>3, <2>4, OneTab
<1>7. CASE c.kind \notin {"login", "restore"}
  <2>1. LogsOut(t) /\ tabCalls' = [tabCalls EXCEPT ![t] = NoCalls]
    BY <1>7 DEF CallFailed
  <2> QED
    BY <1>1, <2>1, LeavesWhole
<1> QED
  BY <1>5, <1>6, <1>7

LEMMA LoginWhole ==
  ASSUME SessionAssumption, SessionInv, NEW t \in Tabs, NEW n \in Numbers, NEW u \in People,
         Login(t, n, u)
  PROVE  SessionInv'
<1>1. /\ tab[t].phase = "ready" /\ tab[t].user = NoOne
      /\ \A m \in Numbers : tabCalls[t][m].kind # "login"
      /\ Begins(t, n, "login", u)
      /\ storage' = storage /\ tab' = tab /\ barred' = barred /\ left' = left /\ disturbed' = disturbed
  BY DEF Login
<1>2. sessionMoves' \in Nat
  BY SessionFacts, MoveCounts DEF Login
<1>3. /\ tabCalls' \in [Tabs -> [Numbers -> CallRecord]]
      /\ \A s \in Tabs : \A m \in Numbers : tabCalls'[s][m].kind # "none" => tabCalls'[s][m].user \in People
      /\ \A s \in Tabs : s # t => tabCalls'[s] = tabCalls[s]
      /\ tabCalls[t][n].kind = "none"
      /\ tabCalls'[t][n].kind = "login" /\ tabCalls'[t][n].user = u
      /\ \A m \in Numbers : m # n => tabCalls'[t][m] = tabCalls[t][m]
  BY <1>1, SessionFacts, BeginsCalls DEF CallKinds
<1>4. SessionShape'
  BY <1>1, <1>2, <1>3, SessionFacts DEF SessionShape
<1>5. ASSUME t \notin disturbed' PROVE TabIsWhole(t)'
  <2>1. TabIsWhole(t)
    BY <1>1, <1>5, SessionFacts
  <2>2. ASSUME NEW m \in Numbers, m # n PROVE tabCalls[t][m].kind = "none"
    <3>1. CallFits(t, m) /\ tabCalls[t][m].kind \in CallKinds
      BY <2>1, SessionFacts DEF TabIsWhole, CallRecord
    <3> QED
      BY <1>1, <3>1 DEF CallFits, CallKinds
  <2>3. \A m \in Numbers : m # n => tabCalls'[t][m].kind = "none"
    BY <1>3, <2>2
  <2>4. ASSUME NEW m \in Numbers PROVE CallFits(t, m)'
    BY <1>1, <1>3, <2>3 DEF CallFits, Alone
  <2> QED
    BY <1>1, <2>1, <2>4 DEF TabIsWhole
<1>6. ASSUME NEW s \in Tabs \ disturbed', s # t
      PROVE  s \notin disturbed /\ (tab'[s].user = NoOne \/ storage'.user \in {NoOne, tab'[s].user})
  <2>1. TabIsWhole(s)
    BY <1>1, <1>6, SessionFacts
  <2> QED
    BY <1>1, <1>6, <2>1 DEF TabIsWhole
<1> QED
  BY <1>1, <1>3, <1>4, <1>5, <1>6, OneTab, SessionFacts

LEMMA LogoutWhole ==
  ASSUME SessionAssumption, SessionInv, NEW t \in Tabs, Logout(t)
  PROVE  SessionInv'
<1> DEFINE S == IF Busy(t) = {} THEN {} ELSE {t}
<1>1. /\ storage' = NoEntry /\ tab' = [tab EXCEPT ![t] = Page("ready")]
      /\ Disturbs(S) /\ tabCalls' = tabCalls /\ barred' = barred
      /\ left' \in BOOLEAN
  BY DEF Logout, AfterLogout
<1>2. sessionMoves' \in Nat
  BY SessionFacts, MoveCounts DEF Logout
<1>3. Page("ready") \in PageRecord /\ Page("ready").user = NoOne /\ Page("ready").owner = NoOne
      /\ Page("ready").timer = FALSE /\ Page("ready").phase = "ready"
  BY PageShape
<1>4. /\ tab' \in [Tabs -> PageRecord] /\ tab'[t] = Page("ready")
      /\ \A s \in Tabs : s # t => tab'[s] = tab[s]
  BY <1>1, <1>3, SessionFacts
<1>5. disturbed' \subseteq Tabs
  BY <1>1, SessionFacts, DisturbsShape
<1>6. SessionShape'
  <2>1. NoEntry \in [user : Anyone, fresh : BOOLEAN]
    BY EntryShape
  <2> QED
    BY <1>1, <1>2, <1>4, <1>5, <2>1, SessionFacts DEF SessionShape
<1>7. ASSUME t \notin disturbed' PROVE TabIsWhole(t)'
  <2>1. t \notin S
    BY <1>1, <1>7, NotStranger
  <2>2. \A m \in Numbers : tabCalls'[t][m].kind = "none"
    BY <1>1, <2>1 DEF Busy
  <2> QED
    BY <1>3, <1>4, <2>2 DEF TabIsWhole, CallFits
<1>8. \A s \in Tabs \ disturbed' : s # t =>
        s \notin disturbed /\ (tab'[s].user = NoOne \/ storage'.user \in {NoOne, tab'[s].user})
  BY <1>1, NotStranger
<1> QED
  BY <1>1, <1>4, <1>6, <1>7, <1>8, OneTab

LEMMA OutsideSessionWhole ==
  ASSUME SessionAssumption, SessionInv, TimePasses \/ \E u \in People : Bar(u)
  PROVE  SessionInv'
<1>1. sessionMoves' \in Nat
  BY SessionFacts, MoveCounts DEF TimePasses, Bar
<1>2. CASE TimePasses
  <2>1. /\ storage' = [storage EXCEPT !.fresh = FALSE]
        /\ tab' = [t \in Tabs |-> [tab[t] EXCEPT !.fresh = FALSE]]
        /\ tabCalls' = tabCalls /\ barred' = barred /\ left' = left /\ disturbed' = disturbed
    BY <1>2 DEF TimePasses
  <2>2. /\ storage' \in [user : Anyone, fresh : BOOLEAN] /\ storage'.user = storage.user
        /\ storage = NoEntry => storage' = NoEntry
    <3>1. /\ storage \in [user : Anyone, fresh : BOOLEAN]
      BY SessionFacts
    <3>2. storage' \in [user : Anyone, fresh : BOOLEAN] /\ storage'.user = storage.user /\ storage'.fresh = FALSE
      BY <2>1, <3>1
    <3>3. ASSUME storage = NoEntry PROVE storage' = NoEntry
      <4>1. storage.user = NoOne
        BY <3>3 DEF NoEntry
      <4>2. storage' = [user |-> storage'.user, fresh |-> storage'.fresh]
        BY <3>2
      <4> QED
        BY <3>2, <4>1, <4>2 DEF NoEntry
    <3> QED
      BY <3>2, <3>3
  <2>3. \A t \in Tabs : /\ tab'[t] \in PageRecord /\ tab'[t].user = tab[t].user
                         /\ tab'[t].owner = tab[t].owner /\ tab'[t].phase = tab[t].phase
                         /\ tab'[t].timer = tab[t].timer
    <3>1. tab \in [Tabs -> PageRecord]
      BY SessionFacts
    <3> QED
      BY <2>1, <3>1 DEF PageRecord
  <2>4. SessionShape'
    <3>1. tab' \in [Tabs -> PageRecord]
      BY <2>1, <2>3
    <3> QED
      BY <1>1, <2>1, <2>2, <3>1, SessionFacts DEF SessionShape
  <2>5. ASSUME NEW s \in Tabs \ disturbed' PROVE TabIsWhole(s)'
    <3>1. TabIsWhole(s)
      BY <2>1, SessionFacts
    <3> QED
      BY <2>1, <2>2, <2>3, <3>1 DEF TabIsWhole, CallFits, Alone
  <2> QED
    BY <2>1, <2>2, <2>4, <2>5, SessionFacts DEF SessionInv
<1>3. ASSUME NEW u \in People, Bar(u) PROVE SessionInv'
  <2>1. /\ UNCHANGED <<storage, tab, tabCalls, left, disturbed>> /\ barred' = barred \cup {u}
    BY <1>3 DEF Bar
  <2>2. SessionShape'
    BY <1>1, <2>1, SessionFacts DEF SessionShape
  <2>3. ASSUME NEW s \in Tabs \ disturbed' PROVE TabIsWhole(s)'
    <3>1. TabIsWhole(s)
      BY <2>1, SessionFacts
    <3> QED
      BY <2>1, <3>1 DEF TabIsWhole, CallFits, Alone
  <2> QED
    BY <2>1, <2>2, <2>3, SessionFacts DEF SessionInv
<1> QED
  BY <1>2, <1>3

LEMMA SessionInitWhole ==
  ASSUME SessionAssumption, SessionInit
  PROVE  SessionInv
<1>1. /\ storage = NoEntry /\ tab = [t \in Tabs |-> Page("closed")] /\ tabCalls = [t \in Tabs |-> NoCalls]
      /\ barred = {} /\ left = FALSE /\ disturbed = {} /\ sessionMoves = 0
  BY DEF SessionInit
<1>2. Page("closed") \in PageRecord /\ Page("closed").user = NoOne /\ Page("closed").owner = NoOne
      /\ Page("closed").timer = FALSE /\ Page("closed").phase = "closed"
  BY PageShape
<1>3. NoCalls \in [Numbers -> CallRecord] /\ \A n \in Numbers : NoCalls[n].kind = "none"
  BY NoCallsShape
<1>4. SessionShape
  BY <1>1, <1>2, <1>3, EntryShape DEF SessionShape
<1>5. \A t \in Tabs : TabIsWhole(t)
  BY <1>1, <1>2, <1>3 DEF TabIsWhole, CallFits
<1> QED
  BY <1>1, <1>4, <1>5 DEF SessionInv

LEMMA SessionNextWhole ==
  ASSUME SessionAssumption, SessionInv, [SessionNext]_sessionVars
  PROVE  SessionInv'
<1>1. CASE UNCHANGED sessionVars
  <2>1. UNCHANGED <<storage, tab, tabCalls, barred, left, disturbed, sessionMoves>>
    BY <1>1 DEF sessionVars
  <2>2. ASSUME NEW s \in Tabs \ disturbed' PROVE TabIsWhole(s)'
    <3>1. TabIsWhole(s)
      BY <2>1, SessionFacts
    <3> QED
      BY <2>1, <3>1 DEF TabIsWhole, CallFits, Alone
  <2>3. SessionShape'
    BY <2>1, SessionFacts DEF SessionShape
  <2> QED
    BY <2>1, <2>2, <2>3, SessionFacts DEF SessionInv
<1>2. CASE SessionNext
  BY <1>2, OpenWhole, LogoutWhole, UnauthorizedWhole, TimerWhole, AnswersWhole, FailedWhole,
     LoginWhole, OutsideSessionWhole DEF SessionNext
<1> QED
  BY <1>1, <1>2

(* A session that was left stays left: nothing is stored, and no call but a *)
(* login is under way that could store it again.                            *)
LeftIsOver ==
  left => /\ storage = NoEntry
          /\ \A t \in Tabs : \A n \in Numbers : tabCalls[t][n].kind \in {"none", "login"}

(* A step that begins no call, or a login, and stores nothing. *)
LEMMA LeftStays ==
  ASSUME LeftIsOver, left' => left, storage' = storage \/ storage' = NoEntry,
         \A t \in Tabs : \A n \in Numbers : tabCalls'[t][n].kind \in {tabCalls[t][n].kind, "none", "login"}
  PROVE  LeftIsOver'
BY DEF LeftIsOver

LEMMA LeftIsOverNext ==
  ASSUME SessionAssumption, SessionInv, LeftIsOver, SessionNext
  PROVE  LeftIsOver'
<1>1. ASSUME NEW t \in Tabs, Open(t) PROVE LeftIsOver'
  <2>1. storage' = storage /\ left' = left
    BY <1>1 DEF Open
  <2>2. ASSUME left PROVE \A s \in Tabs : \A n \in Numbers : tabCalls'[s][n].kind \in {"none", "login"}
    <3>1. storage = NoEntry
      BY <2>2 DEF LeftIsOver
    <3>2. tabCalls' = [tabCalls EXCEPT ![t] = NoCalls]
      BY <1>1, <3>1 DEF Open
    <3>3. /\ \A m \in Numbers : tabCalls'[t][m].kind = "none"
          /\ \A s \in Tabs : s # t => tabCalls'[s] = tabCalls[s]
      BY <3>2, SessionFacts, DropCalls
    <3> QED
      BY <2>2, <3>3 DEF LeftIsOver
  <2> QED
    BY <2>1, <2>2 DEF LeftIsOver
<1>2. ASSUME NEW t \in Tabs, Logout(t) PROVE LeftIsOver'
  <2>1. storage' = NoEntry /\ left' = (\A s \in Tabs : Busy(s) = {}) /\ tabCalls' = tabCalls
    BY <1>2 DEF Logout, AfterLogout
  <2>2. ASSUME left', NEW s \in Tabs, NEW n \in Numbers PROVE tabCalls[s][n].kind = "none"
    BY <2>1, <2>2 DEF Busy
  <2> QED
    BY <2>1, <2>2 DEF LeftIsOver
<1>3. ASSUME NEW t \in Tabs, NEW n \in Numbers, Unauthorized(t, n) PROVE LeftIsOver'
  <2>1. left' = left
    BY <1>3 DEF Unauthorized
  <2>2. CASE storage = NoEntry
    <3>1. storage' = NoEntry /\ tabCalls' = [tabCalls EXCEPT ![t] = NoCalls]
      BY <1>3, <2>2 DEF Unauthorized, LogsOut
    <3>2. /\ \A m \in Numbers : tabCalls'[t][m].kind = "none"
          /\ \A s \in Tabs : s # t => tabCalls'[s] = tabCalls[s]
      BY <3>1, SessionFacts, DropCalls
    <3> QED
      BY <2>1, <3>1, <3>2, LeftStays
  <2> QED
    BY <2>1, <2>2 DEF LeftIsOver
<1>4. ASSUME NEW t \in Tabs, NEW n \in Numbers, TimerFires(t, n) PROVE LeftIsOver'
  <2>1. left' = left /\ storage' = storage /\ (storage = NoEntry => tabCalls' = tabCalls)
    BY <1>4 DEF TimerFires
  <2> QED
    BY <2>1 DEF LeftIsOver
<1>5. ASSUME NEW t \in Tabs, NEW n \in Numbers, Answers200(t, n) PROVE LeftIsOver'
  <2>1. tabCalls[t][n].kind # "none" /\ left' = (left /\ tabCalls[t][n].kind # "login")
    BY <1>5 DEF Answers200
  <2> QED
    BY <2>1 DEF LeftIsOver
<1>6. ASSUME NEW t \in Tabs, NEW n \in Numbers, CallFailed(t, n) PROVE LeftIsOver'
  <2>1. left' = left /\ tabCalls[t][n].kind # "none"
    BY <1>6 DEF CallFailed
  <2>2. CASE tabCalls[t][n].kind = "login"
    <3>1. storage' = storage /\ Over(t, n)
      BY <1>6, <2>2 DEF CallFailed
    <3>2. /\ \A s \in Tabs : s # t => tabCalls'[s] = tabCalls[s]
          /\ tabCalls'[t][n].kind = "none"
          /\ \A m \in Numbers : m # n => tabCalls'[t][m] = tabCalls[t][m]
      BY <3>1, SessionFacts, OverCalls
    <3> QED
      BY <2>1, <3>1, <3>2, LeftStays
  <2> QED
    BY <2>1, <2>2 DEF LeftIsOver
<1>7. ASSUME NEW t \in Tabs, NEW n \in Numbers, NEW u \in People, Login(t, n, u) PROVE LeftIsOver'
  <2>1. storage' = storage /\ left' = left /\ Begins(t, n, "login", u) /\ "login" \in CallKinds
    BY <1>7 DEF Login, CallKinds
  <2>2. /\ \A s \in Tabs : s # t => tabCalls'[s] = tabCalls[s]
        /\ tabCalls'[t][n].kind = "login"
        /\ \A m \in Numbers : m # n => tabCalls'[t][m] = tabCalls[t][m]
    BY <2>1, SessionFacts, BeginsCalls
  <2> QED
    BY <2>1, <2>2, LeftStays
<1>8. ASSUME TimePasses PROVE LeftIsOver'
  <2>1. left' = left /\ tabCalls' = tabCalls /\ storage' = [storage EXCEPT !.fresh = FALSE]
    BY <1>8 DEF TimePasses
  <2>2. [NoEntry EXCEPT !.fresh = FALSE] = NoEntry
    <3>1. PICK f \in BOOLEAN : f = FALSE
      OBVIOUS
    <3>2. NoEntry = [user |-> NoOne, fresh |-> f]
      BY Zenon, <3>1 DEF NoEntry
    <3>3. [NoEntry EXCEPT !.fresh = f] = NoEntry
      BY <3>2
    <3> QED
      BY Zenon, <3>1, <3>3
  <2> QED
    BY <2>1, <2>2 DEF LeftIsOver
<1>9. ASSUME NEW u \in People, Bar(u) PROVE LeftIsOver'
  BY <1>9 DEF Bar, LeftIsOver
<1> QED
  BY <1>1, <1>2, <1>3, <1>4, <1>5, <1>6, <1>7, <1>8, <1>9 DEF SessionNext

(* A tab shows the person its requests are made for, and waits only for the *)
(* call that restores its session; a session that was left, with no call    *)
(* under way, is stored again by a login only, whatever the tabs that are   *)
(* still open do: for any tabs, people, calls and failures.                 *)
THEOREM SessionStaysWhole ==
  ASSUME SessionAssumption
  PROVE  SessionSpec => []SessionIsWhole
<1>1. SessionInit => SessionInv /\ LeftIsOver
  BY SessionInitWhole DEF SessionInit, LeftIsOver
<1>2. SessionInv /\ LeftIsOver /\ [SessionNext]_sessionVars => (SessionInv /\ LeftIsOver)'
  <2> SUFFICES ASSUME SessionInv, LeftIsOver, [SessionNext]_sessionVars PROVE SessionInv' /\ LeftIsOver'
    OBVIOUS
  <2>1. UNCHANGED sessionVars => LeftIsOver'
    BY DEF LeftIsOver, sessionVars
  <2> QED
    BY <2>1, SessionNextWhole, LeftIsOverNext
<1>3. SessionInv /\ LeftIsOver => SessionIsWhole
  <2> SUFFICES ASSUME SessionInv, LeftIsOver PROVE SessionIsWhole
    OBVIOUS
  <2>1. ASSUME NEW t \in Tabs \ disturbed
        PROVE  /\ tab[t].user = tab[t].owner
               /\ (tab[t].phase = "loading" <=> \E n \in Numbers : tabCalls[t][n].kind = "restore")
    <3>1. TabIsWhole(t)
      BY SessionFacts
    <3> QED
      BY <3>1 DEF TabIsWhole, CallFits
  <2> QED
    BY <2>1 DEF SessionIsWhole, LeftIsOver
<1> QED
  BY <1>1, <1>2, <1>3, PTL DEF SessionSpec

-----------------------------------------------------------------------------
(* Commissions *)

DealSpec == DealInit /\ [][DealNext]_dealVars

ShareRow == [total : Int, agent : Int, business : Int]
DealRow == [status : Statuses, amount : Nat, pct : Nat, split : Nat, shares : ShareRow]
RuleRow == [pct : Nat \cup {-1}, split : Nat \cup {-1}]
StatusChange == [status : {"PAID", "CANCELLED"}]
EditChange == [amount : Nat, pct : Nat, split : Nat]
ChangeRow == StatusChange \cup [split : Nat] \cup [pct : Nat] \cup EditChange
Queries == {"totals", "statuses", "agents"}

(* What rows, rules and forms may be; an update remembers the row it read, and  *)
(* the preview that it shows is of the numbers that it gives.                   *)
DealShape ==
  /\ deals \in [Deals -> DealRow \cup {NoDeal}] /\ ruleNow \in RuleRow /\ ruleShown \in RuleRow
  /\ dealForm \in [of : Deals \cup {"new", "none"}, amount : Nat, pct : Nat, split : Nat]
  /\ previewed = [d \in Deals |-> previewed[d]]
  /\ summary = [left |-> summary.left, totals |-> summary.totals, statuses |-> summary.statuses,
                agents |-> summary.agents, moved |-> summary.moved]
  /\ summary.left \subseteq Queries /\ summary.moved \in BOOLEAN
UpdateFits(u) ==
  /\ u.of \in Deals /\ u.read \in DealRow /\ u.change \in ChangeRow
  /\ u.preview # NoPreview =>
       u.change \in EditChange /\ u.preview = Shares(u.change.amount, u.change.pct, u.change.split)
UpdatesFit == \A u \in updates : UpdateFits(u)

(* The queries that were answered since the last change of a row agree with the *)
(* rows there are.                                                              *)
DealsTotal == SumOf(TotalOf, Uncancelled)
AnswersAreNew ==
  ~summary.moved /\ summary.left # {} =>
    /\ "totals" \notin summary.left => summary.totals = DealsTotal
    /\ "statuses" \notin summary.left => summary.statuses = Cardinality(Live)
    /\ "agents" \notin summary.left => summary.agents = <<Cardinality(Live), DealsTotal>>
DealInv == DealShape /\ UpdatesFit /\ SharesAddUp /\ AnswersAreNew /\ SummaryAgrees

-----------------------------------------------------------------------------

LEMMA SharesAreNumbers ==
  ASSUME NEW amount \in Nat, NEW pct \in Nat, NEW split \in Nat
  PROVE  Shares(amount, pct, split) \in ShareRow
<1>1. \A n \in Int : Rounded(n) \in Int
  BY DEF Rounded
<1>2. amount * pct \in Int
  OBVIOUS
<1> DEFINE total == Rounded(amount * pct)
           agent == Rounded(total * split)
<1>3. total \in Int
  BY <1>1, <1>2
<1>4. total * split \in Int
  BY <1>3
<1>5. agent \in Int
  BY <1>1, <1>4
<1>6. Shares(amount, pct, split) = [total |-> total, agent |-> agent, business |-> total - agent]
  BY DEF Shares
<1> HIDE DEF total, agent
<1> QED
  BY <1>3, <1>5, <1>6 DEF ShareRow

LEMMA LiveRows ==
  ASSUME DealShape, NEW d \in Live
  PROVE  d \in Deals /\ deals[d] \in DealRow /\ deals[d] # NoDeal
BY DEF DealShape, Live

LEMMA NoDealIsNoRow == NoDeal \notin DealRow
<1> SUFFICES ASSUME NoDeal \in DealRow PROVE FALSE
  OBVIOUS
<1>1. NoDeal.status \in Statuses
  BY DEF DealRow
<1> QED
  BY <1>1 DEF NoDeal, Statuses

(* The row an update writes: it has the shares of the numbers it shows, and those *)
(* its form previewed.                                                           *)
LEMMA UpdatedRow ==
  ASSUME NEW u, UpdateFits(u), NEW rec \in DealRow, rec.shares = Shares(rec.amount, rec.pct, rec.split)
  PROVE  /\ Updated(u, rec) \in DealRow
         /\ Updated(u, rec).shares = Shares(Updated(u, rec).amount, Updated(u, rec).pct, Updated(u, rec).split)
         /\ "status" \in DOMAIN u.change => Updated(u, rec).shares = rec.shares
         /\ u.preview # NoPreview => "status" \notin DOMAIN u.change /\ Updated(u, rec).shares = u.preview
<1> DEFINE amount == Field(u.change, u.read, "amount")
           pct == Field(u.change, u.read, "pct")
           split == Field(u.change, u.read, "split")
<1>0. u.read \in DealRow /\ u.change \in ChangeRow
  BY DEF UpdateFits
<1>1. CASE "status" \in DOMAIN u.change
  <2>1. u.change \in StatusChange
    BY <1>0, <1>1 DEF ChangeRow, EditChange, StatusChange
  <2>2. Updated(u, rec) = [rec EXCEPT !.status = u.change.status]
    BY <1>1 DEF Updated
  <2>3. u.change.status \in Statuses /\ u.change \notin EditChange
    BY <2>1 DEF StatusChange, EditChange, Statuses
  <2>4. /\ Updated(u, rec) \in DealRow /\ Updated(u, rec).shares = rec.shares /\ Updated(u, rec).amount = rec.amount
        /\ Updated(u, rec).pct = rec.pct /\ Updated(u, rec).split = rec.split
    BY <2>2, <2>3 DEF DealRow
  <2> QED
    BY <2>3, <2>4 DEF UpdateFits
<1>2. CASE "status" \notin DOMAIN u.change
  <2>1. u.change \in [split : Nat] \cup [pct : Nat] \cup EditChange
    BY <1>0, <1>2 DEF ChangeRow, StatusChange
  <2>2. amount \in Nat /\ pct \in Nat /\ split \in Nat
    <3>1. CASE u.change \in EditChange
      BY <3>1 DEF Field, EditChange
    <3>2. CASE u.change \in [split : Nat]
      BY <1>0, <3>2 DEF Field, DealRow
    <3>3. CASE u.change \in [pct : Nat]
      BY <1>0, <3>3 DEF Field, DealRow
    <3> QED
      BY <2>1, <3>1, <3>2, <3>3
  <2>3. u.change \in EditChange => amount = u.change.amount /\ pct = u.change.pct /\ split = u.change.split
    BY DEF Field, EditChange
  <2>4. Updated(u, rec) = [rec EXCEPT !.amount = amount, !.pct = pct, !.split = split, !.shares = Shares(amount, pct, split)]
    BY <1>2 DEF Updated
  <2> HIDE DEF amount, pct, split
  <2>5. Shares(amount, pct, split) \in ShareRow
    BY <2>2, SharesAreNumbers
  <2>6. /\ Updated(u, rec) \in DealRow /\ Updated(u, rec).shares = Shares(amount, pct, split)
        /\ Updated(u, rec).amount = amount /\ Updated(u, rec).pct = pct /\ Updated(u, rec).split = split
    BY <2>2, <2>4, <2>5 DEF DealRow
  <2> QED
    BY <1>2, <2>3, <2>6 DEF UpdateFits
<1> QED
  BY <1>1, <1>2

-----------------------------------------------------------------------------
(* Each step by what it changes. *)

OneRow(d) == /\ deals' \in [Deals -> DealRow \cup {NoDeal}] /\ previewed' = [c \in Deals |-> previewed'[c]]
             /\ \A c \in Deals \ {d} : deals'[c] = deals[c] /\ previewed'[c] = previewed[c]
MovedOn == /\ summary' = [left |-> summary'.left, totals |-> summary'.totals, statuses |-> summary'.statuses,
                          agents |-> summary'.agents, moved |-> summary'.moved]
           /\ summary'.left = summary.left /\ summary'.totals = summary.totals /\ summary'.statuses = summary.statuses
           /\ summary'.agents = summary.agents /\ summary'.moved \in BOOLEAN /\ (summary.moved => summary'.moved)
           /\ (summary.left # {} => summary'.moved)

LEMMA MovedRows ==
  ASSUME DealShape, NEW rows, Moves(rows)
  PROVE  MovedOn /\ deals' = rows
<1>1. summary' = [summary EXCEPT !.moved = summary.moved \/ summary.left # {}] /\ deals' = rows
  BY DEF Moves
<1> QED
  BY <1>1 DEF DealShape, MovedOn

LEMMA MovedSummary ==
  ASSUME DealShape, AnswersAreNew, SummaryAgrees, MovedOn
  PROVE  AnswersAreNew' /\ SummaryAgrees' /\ summary'.left \subseteq Queries /\ summary'.moved \in BOOLEAN
BY DEF DealShape, AnswersAreNew, SummaryAgrees, MovedOn

LEMMA SameSummary ==
  ASSUME AnswersAreNew, SummaryAgrees, deals' = deals, summary' = summary
  PROVE  AnswersAreNew' /\ SummaryAgrees'
<1>1. DealsTotal' = DealsTotal
  BY DEF DealsTotal, TotalOf, Uncancelled, Live, SumOf, MapThenSumSet, MapThenFoldSet
<1> QED
  BY <1>1 DEF AnswersAreNew, SummaryAgrees, Live

LEMMA CreatedDeal ==
  ASSUME DealAssumption, DealShape, NEW d \in Deals, CreateDeal(d)
  PROVE  /\ OneRow(d) /\ MovedOn /\ deals'[d] \in DealRow
         /\ deals'[d].shares = Shares(deals'[d].amount, deals'[d].pct, deals'[d].split)
         /\ previewed'[d] # NoPreview => deals'[d].shares = previewed'[d]
         /\ dealForm' = NoForm /\ UNCHANGED <<ruleNow, ruleShown, updates>>
<1> DEFINE f == dealForm
           pct == Given(f.pct, ruleNow.pct)
           split == Given(f.split, ruleNow.split)
           rec == Row0(f.amount, pct, split)
<1>1. /\ pct # -1 /\ split # -1 /\ Moves([deals EXCEPT ![d] = rec])
      /\ previewed' = [previewed EXCEPT ![d] = IF 0 \in {f.pct, f.split} THEN NoPreview ELSE Preview(f)]
      /\ dealForm' = NoForm /\ UNCHANGED <<ruleNow, ruleShown, updates>>
  BY DEF CreateDeal
<1>2. f.amount \in Nat /\ pct \in Nat /\ split \in Nat
  BY <1>1 DEF DealShape, Given, RuleRow
<1>3. 0 \notin {f.pct, f.split} => pct = f.pct /\ split = f.split
  BY DEF Given
<1> HIDE DEF pct, split
<1>4. Shares(f.amount, pct, split) \in ShareRow
  BY <1>2, SharesAreNumbers
<1>5. rec \in DealRow /\ rec.shares = Shares(rec.amount, rec.pct, rec.split) /\ rec.shares = Shares(f.amount, pct, split)
  BY <1>2, <1>4 DEF Row0, DealRow, Statuses
<1> HIDE DEF rec
<1>6. MovedOn /\ deals' = [deals EXCEPT ![d] = rec]
  BY <1>1, MovedRows
<1>7. deals'[d] = rec /\ OneRow(d)
  BY <1>1, <1>5, <1>6 DEF DealShape, OneRow
<1>8. previewed'[d] # NoPreview => previewed'[d] = Shares(f.amount, pct, split)
  BY <1>1, <1>3 DEF DealShape, Preview
<1> QED
  BY <1>1, <1>5, <1>6, <1>7, <1>8

LEMMA WrittenUpdate ==
  ASSUME DealAssumption, DealInv, NEW u \in updates, WriteUpdate(u)
  PROVE  /\ updates' \subseteq updates /\ UNCHANGED <<ruleNow, ruleShown, dealForm>>
         /\ \/ UNCHANGED <<deals, summary, previewed>>
            \/ /\ OneRow(u.of) /\ MovedOn /\ u.of \in Deals
               /\ deals'[u.of].shares = Shares(deals'[u.of].amount, deals'[u.of].pct, deals'[u.of].split)
               /\ previewed'[u.of] # NoPreview => deals'[u.of].shares = previewed'[u.of]
<1>0. /\ DealShape /\ SharesAddUp /\ UpdateFits(u) /\ updates' \subseteq updates
      /\ UNCHANGED <<ruleNow, ruleShown, dealForm>>
  BY DEF DealInv, UpdatesFit, WriteUpdate
<1>1. CASE u.of \notin Live
  BY <1>0, <1>1 DEF WriteUpdate
<1>2. CASE u.of \in Live
  <2> DEFINE rec == deals[u.of]
  <2>1. rec \in DealRow /\ u.of \in Deals
    BY <1>0, <1>2, LiveRows
  <2>2. rec.shares = Shares(rec.amount, rec.pct, rec.split) /\ (previewed[u.of] # NoPreview => rec.shares = previewed[u.of])
    BY <1>0, <1>2 DEF SharesAddUp
  <2>3. /\ Moves([deals EXCEPT ![u.of] = Updated(u, rec)])
        /\ previewed' = IF "status" \in DOMAIN u.change THEN previewed ELSE [previewed EXCEPT ![u.of] = u.preview]
    BY <1>2 DEF WriteUpdate
  <2>4. MovedOn /\ deals' = [deals EXCEPT ![u.of] = Updated(u, rec)]
    BY <1>0, <2>3, MovedRows
  <2> HIDE DEF rec
  <2>5. /\ Updated(u, rec) \in DealRow
        /\ Updated(u, rec).shares = Shares(Updated(u, rec).amount, Updated(u, rec).pct, Updated(u, rec).split)
        /\ "status" \in DOMAIN u.change => Updated(u, rec).shares = rec.shares
        /\ u.preview # NoPreview => "status" \notin DOMAIN u.change /\ Updated(u, rec).shares = u.preview
    BY <1>0, <2>1, <2>2, UpdatedRow
  <2>6. deals'[u.of] = Updated(u, rec)
    BY <1>0, <2>1, <2>4 DEF DealShape
  <2>7. OneRow(u.of)
    BY <1>0, <2>1, <2>3, <2>4, <2>5 DEF DealShape, OneRow
  <2>8. previewed'[u.of] # NoPreview => Updated(u, rec).shares = previewed'[u.of]
    <3>1. CASE "status" \in DOMAIN u.change
      BY <2>2, <2>3, <2>5, <3>1
    <3>2. CASE "status" \notin DOMAIN u.change
      <4>1. previewed'[u.of] = u.preview
        BY <1>0, <2>1, <2>3, <3>2 DEF DealShape
      <4> QED
        BY <2>5, <4>1
    <3> QED
      BY <3>1, <3>2
  <2> QED
    BY <1>0, <2>1, <2>4, <2>5, <2>6, <2>7, <2>8
<1> QED
  BY <1>1, <1>2

-----------------------------------------------------------------------------
(* The invariant. *)

LEMMA SharesStay ==
  ASSUME DealShape, SharesAddUp, NEW d \in Deals, OneRow(d),
         \/ deals'[d] = NoDeal
         \/ /\ deals'[d].shares = Shares(deals'[d].amount, deals'[d].pct, deals'[d].split)
            /\ previewed'[d] # NoPreview => deals'[d].shares = previewed'[d]
  PROVE  SharesAddUp'
<1> SUFFICES ASSUME NEW c \in Live'
             PROVE  /\ deals'[c].shares = Shares(deals'[c].amount, deals'[c].pct, deals'[c].split)
                    /\ previewed'[c] # NoPreview => deals'[c].shares = previewed'[c]
  BY DEF SharesAddUp
<1>1. c \in Deals /\ deals'[c] # NoDeal
  BY DEF Live
<1>2. CASE c = d
  BY <1>1, <1>2
<1>3. CASE c # d
  <2>1. deals'[c] = deals[c] /\ previewed'[c] = previewed[c] /\ c \in Live
    BY <1>1, <1>3 DEF OneRow, Live
  <2> QED
    BY <2>1 DEF SharesAddUp
<1> QED
  BY <1>2, <1>3

(* A row is written: the shapes of the rest stay, and updates at most end. *)
LEMMA RowWritten ==
  ASSUME DealInv, NEW d \in Deals, OneRow(d), MovedOn, updates' \subseteq updates,
         UNCHANGED <<ruleNow, ruleShown>>, dealForm' \in {dealForm, NoForm},
         \/ deals'[d] = NoDeal
         \/ /\ deals'[d].shares = Shares(deals'[d].amount, deals'[d].pct, deals'[d].split)
            /\ previewed'[d] # NoPreview => deals'[d].shares = previewed'[d]
  PROVE  DealInv'
<1>1. DealShape /\ UpdatesFit /\ SharesAddUp /\ AnswersAreNew /\ SummaryAgrees
  BY DEF DealInv
<1>2. SharesAddUp' /\ AnswersAreNew' /\ SummaryAgrees' /\ summary'.left \subseteq Queries /\ summary'.moved \in BOOLEAN
  BY <1>1, SharesStay, MovedSummary
<1>3. NoForm \in [of : Deals \cup {"new", "none"}, amount : Nat, pct : Nat, split : Nat]
  BY DEF NoForm
<1>4. DealShape'
  BY <1>1, <1>2, <1>3 DEF DealShape, OneRow, MovedOn
<1>5. UpdatesFit'
  BY <1>1 DEF UpdatesFit, UpdateFits
<1> QED
  BY <1>2, <1>4, <1>5 DEF DealInv

(* Nothing is written: rows, previews and the summary stay. *)
LEMMA NothingWritten ==
  ASSUME DealInv, UNCHANGED <<deals, previewed, summary>>, ruleNow' \in RuleRow, ruleShown' \in RuleRow,
         dealForm' \in [of : Deals \cup {"new", "none"}, amount : Nat, pct : Nat, split : Nat], UpdatesFit'
  PROVE  DealInv'
<1>1. DealShape /\ SharesAddUp /\ AnswersAreNew /\ SummaryAgrees
  BY DEF DealInv
<1>2. AnswersAreNew' /\ SummaryAgrees'
  BY <1>1, SameSummary
<1>3. SharesAddUp'
  BY <1>1 DEF SharesAddUp, Live
<1>4. DealShape'
  BY <1>1 DEF DealShape
<1> QED
  BY <1>2, <1>3, <1>4 DEF DealInv

LEMMA RulesChange ==
  ASSUME DealAssumption, DealInv,
         DeleteRule \/ \E pct \in Percentages, split \in Percentages : UpsertRule(pct, split)
  PROVE  DealInv'
<1>1. DealShape /\ UpdatesFit
  BY DEF DealInv
<1>2. NoRule \in RuleRow /\ \A pct, split \in Percentages : [pct |-> pct, split |-> split] \in RuleRow
  BY DEF NoRule, RuleRow, DealAssumption
<1>3. UNCHANGED <<deals, dealForm, updates, previewed, summary>>
  BY DEF DeleteRule, UpsertRule
<1>4. ruleNow' \in RuleRow /\ ruleShown' \in {ruleShown, ruleNow'}
  BY <1>2 DEF DeleteRule, UpsertRule
<1>5. UpdatesFit'
  BY <1>1, <1>3 DEF UpdatesFit, UpdateFits
<1>6. ruleShown' \in RuleRow
  BY <1>1, <1>4 DEF DealShape
<1>7. dealForm' \in [of : Deals \cup {"new", "none"}, amount : Nat, pct : Nat, split : Nat]
  BY <1>1, <1>3 DEF DealShape
<1> QED
  BY <1>3, <1>4, <1>5, <1>6, <1>7, NothingWritten

LEMMA FormsOpen ==
  ASSUME DealAssumption, DealInv, OpenNew \/ \E d \in Deals : OpenEdit(d)
  PROVE  DealInv'
<1>1. DealShape /\ UpdatesFit
  BY DEF DealInv
<1>2. UNCHANGED <<deals, ruleNow, ruleShown, updates, previewed, summary>>
  BY DEF OpenNew, OpenEdit
<1>3. dealForm' \in [of : Deals \cup {"new", "none"}, amount : Nat, pct : Nat, split : Nat]
  <2>1. CASE OpenNew
    <3>1. PICK a \in Amounts, p \in Percentages \cup ({ruleShown.pct} \ {-1}), s \in Percentages \cup ({ruleShown.split} \ {-1}) :
            dealForm' = [of |-> "new", amount |-> a, pct |-> p, split |-> s]
      BY <2>1 DEF OpenNew
    <3>2. a \in Nat /\ p \in Nat /\ s \in Nat
      BY <1>1 DEF DealShape, RuleRow, DealAssumption
    <3> QED
      BY <3>1, <3>2
  <2>2. ASSUME NEW d \in Deals, OpenEdit(d)
        PROVE  dealForm' \in [of : Deals \cup {"new", "none"}, amount : Nat, pct : Nat, split : Nat]
    <3>1. PICK a \in Amounts, r \in Percentages \cup {deals[d].pct}, s \in Percentages \cup {deals[d].split} :
            dealForm' = [of |-> d, amount |-> a, pct |-> r, split |-> s]
      BY <2>2 DEF OpenEdit
    <3>2. deals[d] \in DealRow
      BY <1>1, <2>2, LiveRows DEF OpenEdit
    <3>3. a \in Nat /\ r \in Nat /\ s \in Nat
      BY <3>2 DEF DealRow, DealAssumption
    <3> QED
      BY <3>1, <3>3
  <2> QED
    BY <2>1, <2>2
<1>4. UpdatesFit'
  BY <1>1, <1>2 DEF UpdatesFit, UpdateFits
<1>5. ruleNow' \in RuleRow /\ ruleShown' \in RuleRow
  BY <1>1, <1>2 DEF DealShape
<1> QED
  BY <1>2, <1>3, <1>4, <1>5, NothingWritten

LEMMA UpdatesBegin ==
  ASSUME DealAssumption, DealInv, SubmitEdit \/ \E d \in Deals, change \in Changes : BeginUpdate(d, change)
  PROVE  DealInv'
<1>1. DealShape /\ UpdatesFit
  BY DEF DealInv
<1>2. UNCHANGED <<deals, ruleNow, ruleShown, previewed, summary>>
  BY DEF SubmitEdit, BeginUpdate
<1>3. dealForm' \in [of : Deals \cup {"new", "none"}, amount : Nat, pct : Nat, split : Nat]
  BY <1>1 DEF SubmitEdit, BeginUpdate, DealShape, NoForm
<1>4. UpdatesFit'
  <2>1. CASE SubmitEdit
    <3> DEFINE f == dealForm
               c == [amount |-> f.amount, pct |-> f.pct, split |-> f.split]
               u == [of |-> f.of, read |-> deals[f.of], preview |-> Preview(f), change |-> c]
    <3>1. updates' = updates \cup {u} /\ f.of \in Live
      BY <2>1 DEF SubmitEdit
    <3>2. c \in EditChange /\ c \in ChangeRow /\ c.amount = f.amount /\ c.pct = f.pct /\ c.split = f.split
      BY <1>1 DEF DealShape, EditChange, ChangeRow
    <3>3. f.of \in Deals /\ deals[f.of] \in DealRow
      BY <1>1, <3>1, LiveRows
    <3>4. Preview(f) = Shares(c.amount, c.pct, c.split)
      BY <3>2 DEF Preview
    <3> HIDE DEF c
    <3>5. UpdateFits(u)
      BY <3>2, <3>3, <3>4 DEF UpdateFits
    <3> HIDE DEF u
    <3> QED
      BY <1>1, <3>1, <3>5 DEF UpdatesFit
  <2>2. ASSUME NEW d \in Deals, NEW change \in Changes, BeginUpdate(d, change) PROVE UpdatesFit'
    <3> DEFINE u == [of |-> d, change |-> change, read |-> deals[d], preview |-> NoPreview]
    <3>1. updates' = updates \cup {u} /\ d \in Live
      BY <2>2 DEF BeginUpdate
    <3>2. deals[d] \in DealRow
      BY <1>1, <3>1, LiveRows
    <3>3. change \in ChangeRow
      <4>1. CASE change \in StatusChange
        BY <4>1 DEF ChangeRow
      <4>2. CASE change \in [split : Percentages]
        BY <4>2 DEF ChangeRow, DealAssumption
      <4>3. CASE change \in [pct : Percentages]
        BY <4>3 DEF ChangeRow, DealAssumption
      <4> QED
        BY <4>1, <4>2, <4>3 DEF Changes, StatusChange
    <3>4. UpdateFits(u)
      BY <3>2, <3>3 DEF UpdateFits
    <3> HIDE DEF u
    <3> QED
      BY <1>1, <3>1, <3>4 DEF UpdatesFit
  <2> QED
    BY <2>1, <2>2
<1>5. ruleNow' \in RuleRow /\ ruleShown' \in RuleRow
  BY <1>1, <1>2 DEF DealShape
<1> QED
  BY <1>2, <1>3, <1>4, <1>5, NothingWritten

LEMMA RowsAreWritten ==
  ASSUME DealAssumption, DealInv,
         (\E d \in Deals : CreateDeal(d) \/ RemoveDeal(d)) \/ (\E u \in updates : WriteUpdate(u))
  PROVE  DealInv'
<1>1. DealShape /\ UpdatesFit
  BY DEF DealInv
<1>2. ASSUME NEW d \in Deals, CreateDeal(d) PROVE DealInv'
  BY <1>1, <1>2, CreatedDeal, RowWritten
<1>3. ASSUME NEW d \in Deals, RemoveDeal(d) PROVE DealInv'
  <2>1. /\ Moves([deals EXCEPT ![d] = NoDeal]) /\ previewed' = [previewed EXCEPT ![d] = NoPreview]
        /\ dealForm' \in {dealForm, NoForm} /\ UNCHANGED <<ruleNow, ruleShown, updates>>
    BY <1>3 DEF RemoveDeal
  <2>2. MovedOn /\ deals' = [deals EXCEPT ![d] = NoDeal]
    BY <1>1, <2>1, MovedRows
  <2>3. OneRow(d) /\ deals'[d] = NoDeal
    BY <1>1, <2>1, <2>2 DEF DealShape, OneRow
  <2> QED
    BY <2>1, <2>2, <2>3, RowWritten
<1>4. ASSUME NEW u \in updates, WriteUpdate(u) PROVE DealInv'
  <2>1. CASE UNCHANGED <<deals, summary, previewed>>
    <3>1. updates' \subseteq updates /\ UNCHANGED <<ruleNow, ruleShown, dealForm>>
      BY <1>4, WrittenUpdate
    <3>2. UpdatesFit'
      BY <1>1, <3>1 DEF UpdatesFit, UpdateFits
    <3> QED
      BY <1>1, <2>1, <3>1, <3>2, NothingWritten DEF DealShape
  <2>2. CASE ~UNCHANGED <<deals, summary, previewed>>
    BY <1>4, <2>2, WrittenUpdate, RowWritten
  <2> QED
    BY <2>1, <2>2
<1> QED
  BY <1>2, <1>3, <1>4

LEMMA SummariesAreAsked ==
  ASSUME DealAssumption, DealInv, AskSummary \/ \E query \in Queries : Query(query)
  PROVE  DealInv'
<1>1. DealShape /\ UpdatesFit /\ SharesAddUp /\ AnswersAreNew /\ SummaryAgrees
  BY DEF DealInv
<1>2. UNCHANGED <<deals, ruleNow, ruleShown, dealForm, updates, previewed>>
  BY DEF AskSummary, Query
<1>3. SharesAddUp' /\ UpdatesFit'
  BY <1>1, <1>2 DEF SharesAddUp, Live, UpdatesFit, UpdateFits
<1>4. DealsTotal' = DealsTotal /\ Live' = Live
  BY <1>2 DEF DealsTotal, TotalOf, Uncancelled, Live, SumOf, MapThenSumSet, MapThenFoldSet
<1> DEFINE IsSummary == summary' = [left |-> summary'.left, totals |-> summary'.totals, statuses |-> summary'.statuses,
                                    agents |-> summary'.agents, moved |-> summary'.moved]
<1>5. CASE AskSummary
  <2>1. summary' = [NoSummary EXCEPT !.left = {"totals", "statuses", "agents"}]
    BY <1>5 DEF AskSummary
  <2>2. IsSummary /\ summary'.left = Queries /\ summary'.moved \in BOOLEAN
    BY <2>1 DEF NoSummary, Queries
  <2>3. DealShape'
    BY <1>1, <1>2, <2>2 DEF DealShape
  <2>4. AnswersAreNew' /\ SummaryAgrees'
    BY <2>2 DEF AnswersAreNew, SummaryAgrees, Queries
  <2> QED
    BY <1>3, <2>3, <2>4 DEF DealInv
<1>6. ASSUME NEW query \in Queries, Query(query) PROVE DealInv'
  <2>1. query \in summary.left /\ summary' = [Queried(query) EXCEPT !.left = Queried(query).left \ {query}]
    BY <1>6 DEF Query
  <2>2. CASE query = "totals"
    <3>1. Queried(query) = [summary EXCEPT !.totals = DealsTotal]
      BY <2>2 DEF Queried, DealsTotal
    <3>2. /\ IsSummary /\ summary'.left = summary.left \ {"totals"} /\ summary'.totals = DealsTotal
          /\ summary'.statuses = summary.statuses /\ summary'.agents = summary.agents /\ summary'.moved = summary.moved
      BY <1>1, <2>1, <2>2, <3>1 DEF DealShape
    <3>3. DealShape'
      BY <1>1, <1>2, <3>2 DEF DealShape
    <3>4. AnswersAreNew' /\ SummaryAgrees'
      BY <1>1, <1>4, <2>1, <2>2, <3>2 DEF AnswersAreNew, SummaryAgrees, DealShape, Queries
    <3> QED
      BY <1>3, <3>3, <3>4 DEF DealInv
  <2>3. CASE query = "statuses"
    <3>1. Queried(query) = [summary EXCEPT !.statuses = Cardinality(Live)]
      BY <2>3 DEF Queried
    <3>2. /\ IsSummary /\ summary'.left = summary.left \ {"statuses"} /\ summary'.statuses = Cardinality(Live)
          /\ summary'.totals = summary.totals /\ summary'.agents = summary.agents /\ summary'.moved = summary.moved
      BY <1>1, <2>1, <2>3, <3>1 DEF DealShape
    <3>3. DealShape'
      BY <1>1, <1>2, <3>2 DEF DealShape
    <3>4. AnswersAreNew' /\ SummaryAgrees'
      BY <1>1, <1>4, <2>1, <2>3, <3>2 DEF AnswersAreNew, SummaryAgrees, DealShape, Queries
    <3> QED
      BY <1>3, <3>3, <3>4 DEF DealInv
  <2>4. CASE query = "agents"
    <3>1. Queried(query) = [summary EXCEPT !.agents = <<Cardinality(Live), DealsTotal>>]
      BY <2>4 DEF Queried, DealsTotal
    <3>2. /\ IsSummary /\ summary'.left = summary.left \ {"agents"} /\ summary'.agents = <<Cardinality(Live), DealsTotal>>
          /\ summary'.totals = summary.totals /\ summary'.statuses = summary.statuses /\ summary'.moved = summary.moved
      BY <1>1, <2>1, <2>4, <3>1 DEF DealShape
    <3>3. DealShape'
      BY <1>1, <1>2, <3>2 DEF DealShape
    <3>4. AnswersAreNew' /\ SummaryAgrees'
      BY <1>1, <1>4, <2>1, <2>4, <3>2 DEF AnswersAreNew, SummaryAgrees, DealShape, Queries
    <3> QED
      BY <1>3, <3>3, <3>4 DEF DealInv
  <2> QED
    BY <2>2, <2>3, <2>4 DEF Queries
<1> QED
  BY <1>5, <1>6

LEMMA DealsStart ==
  ASSUME DealAssumption, DealInit
  PROVE  DealInv
<1>1. PICK most \in Percentages : \A p \in Percentages : p <= most
  BY DEF DealAssumption
<1>2. Max(Percentages) \in Percentages
  <2>1. \A p \in Percentages : most >= p
    BY <1>1 DEF DealAssumption
  <2> QED
    BY <1>1, <2>1 DEF Max
<1>3. ruleNow \in RuleRow /\ ruleShown = ruleNow
  <2>1. PICK best : best = Max(Percentages)
    OBVIOUS
  <2>2. best \in Nat /\ ruleNow \in {[pct |-> -1, split |-> -1], [pct |-> best, split |-> best]} /\ ruleShown = ruleNow
    BY <1>2, <2>1 DEF DealInit, NoRule, DealAssumption
  <2> QED
    BY <2>2 DEF RuleRow
<1>4. /\ deals = [d \in Deals |-> NoDeal] /\ dealForm = NoForm /\ updates = {}
      /\ previewed = [d \in Deals |-> NoPreview] /\ summary = NoSummary
  BY DEF DealInit
<1>5. DealShape
  BY <1>3, <1>4 DEF DealShape, NoForm, NoSummary, Queries
<1>6. Live = {}
  BY <1>4 DEF Live
<1> QED
  BY <1>4, <1>5, <1>6 DEF DealInv, UpdatesFit, SharesAddUp, AnswersAreNew, SummaryAgrees, NoSummary

LEMMA DealsHold ==
  ASSUME DealAssumption
  PROVE  DealSpec => []DealInv
<1>1. DealInit => DealInv
  BY DealsStart
<1>2. DealInv /\ [DealNext]_dealVars => DealInv'
  <2>1. ASSUME DealInv, DealNext PROVE DealInv'
    BY <2>1, RulesChange, FormsOpen, UpdatesBegin, RowsAreWritten, SummariesAreAsked DEF DealNext, Queries
  <2>2. ASSUME DealInv, UNCHANGED dealVars PROVE DealInv'
    <3>1. UNCHANGED <<deals, ruleNow, ruleShown, dealForm, updates, previewed, summary>>
      BY <2>2 DEF dealVars
    <3>2. UpdatesFit'
      BY <2>2, <3>1 DEF DealInv, UpdatesFit, UpdateFits
    <3>3. /\ ruleNow' \in RuleRow /\ ruleShown' \in RuleRow
          /\ dealForm' \in [of : Deals \cup {"new", "none"}, amount : Nat, pct : Nat, split : Nat]
      BY <2>2, <3>1 DEF DealInv, DealShape
    <3> QED
      BY <2>2, <3>1, <3>2, <3>3, NothingWritten
  <2> QED
    BY <2>1, <2>2
<1> QED
  BY <1>1, <1>2, PTL DEF DealSpec

\* Rows, forms and queries of commissions are always of their types.
THEOREM DealsTypeCorrect ==
  ASSUME DealAssumption
  PROVE  DealSpec => []DealTypeOK
<1>1. ASSUME DealInv PROVE DealTypeOK
  <2>1. DealShape
    BY <1>1 DEF DealInv
  <2>2. \A d \in Live : deals[d] \in DealRow
    BY <2>1, LiveRows
  <2> QED
    BY <2>1, <2>2 DEF DealTypeOK, DealShape, DealRow, Queries
<1> QED
  BY <1>1, DealsHold, PTL

\* The shares of a commission are those of the amount and percentages it shows and those its form
\* previewed, and the parts of a summary agree unless a row was written between its queries
\* (commissions.service.ts:204, :229, page.tsx:588).
THEOREM DealsStayAdded ==
  ASSUME DealAssumption
  PROVE  DealSpec => []DealsAddUp
<1>1. DealInv => DealsAddUp
  BY DEF DealInv, DealsAddUp
<1> QED
  BY <1>1, DealsHold, PTL

-----------------------------------------------------------------------------
(* Where leads come from: the sources of Meta and their wizard *)

MetaSpec == MetaInit /\ [][MetaNext]_metaVars

Forms == FbPages \cup {EveryForm}
WizardRecord == [open : BOOLEAN, step : {"idle", "granting", "page", "form", "confirm"},
                 page : FbPages \cup {NoPage}, form : Forms \cup {NoPage},
                 forms : FbPages \cup {NoPage}, loading : BOOLEAN]
ConnectRecord == [step : {"none", "sent", "read", "refused", "subscribed", "written"},
                  page : FbPages \cup {NoPage}, form : Forms \cup {NoPage}, token : Nat]

(* What the wizard, its request and the sources may be; a request names a page *)
(* and a form, and tokens are those of grants.                                  *)
WizardShape ==
  /\ wizard \in WizardRecord /\ fetches \subseteq FbPages \cup {"pages"} /\ strayed \in BOOLEAN
  /\ wizard.step \in {"form", "confirm"} => wizard.page \in FbPages
  /\ wizard.step = "confirm" => wizard.form \in Forms
ConnectShape ==
  /\ connecting \in ConnectRecord
  /\ (connecting.step = "none" <=> connecting = NoConnect)
  /\ connecting.step # "none" => connecting.page \in FbPages /\ connecting.form \in Forms
TokenShape ==
  /\ grants \in Nat /\ metaToken \in 0..grants /\ connecting.token \in 0..grants
  /\ metaSources \in [SourceKeys -> [token : Nat, enabled : BOOLEAN]]
  /\ \A k \in SourceKeys : metaSources[k].token \in 0..grants

(* Unless it strayed, the wizard waits for one answer at a time, during which  *)
(* nothing can be chosen, so that the forms it shows are those of its page.    *)
OneAnswer ==
  /\ fetches # {} => connecting.step = "none"
  /\ \A x, y \in fetches : x = y
  /\ fetches # {} \/ connecting.step # "none" => wizard.loading
FormsMatch ==
  /\ wizard.step = "form" =>
       fetches \subseteq {wizard.page} /\ (wizard.forms = wizard.page \/ fetches # {})
  /\ wizard.step = "confirm" =>
       fetches = {} /\ wizard.forms = wizard.page /\ wizard.form \in {wizard.page, EveryForm}
  /\ connecting.step # "none" => connecting.form \in {connecting.page, EveryForm}
SourcesMatch == \A k \in SourceKeys : metaSources[k] # NoSource => k[2] \in {k[1], EveryForm}

(* The page of a source was subscribed, or failed to be; so was that of the    *)
(* request by the time it writes, and what it wrote has its token.             *)
PagesAreAsked ==
  /\ connecting.step \in {"subscribed", "written"} => connecting.page \in subscribed \cup unsubscribed
  /\ \A k \in SourceKeys : metaSources[k] # NoSource => k[1] \in subscribed \cup unsubscribed
TokensAreCurrent ==
  \A k \in SourceKeys :
    metaSources[k] # NoSource /\ connecting.step = "written" /\ k = <<connecting.page, connecting.form>>
      => metaSources[k].token = connecting.token

MetaInv ==
  /\ WizardShape /\ ConnectShape /\ TokenShape /\ PagesAreAsked /\ TokensAreCurrent
  /\ ~strayed => OneAnswer /\ FormsMatch /\ SourcesMatch

(* Four steps that have two outcomes, each by what it leaves behind. *)
LEMMA OpenedWizard ==
  ASSUME WizardShape, OpenWizard
  PROVE  /\ wizard' \in WizardRecord /\ wizard'.step \in {"idle", "page"}
         /\ wizard'.loading = (knows \/ wizard.loading)
         /\ fetches' \in {fetches, fetches \cup {"pages"}} /\ (~knows => fetches' = fetches)
         /\ strayed' = (strayed \/ Waiting) /\ connecting' = connecting
<1>1. CASE knows
  <2>1. wizard' = [open |-> TRUE, step |-> "page", page |-> NoPage, form |-> NoPage,
                      forms |-> NoPage, loading |-> TRUE]
    BY <1>1 DEF OpenWizard, Fresh
  <2> QED
    BY <1>1, <2>1 DEF OpenWizard, WizardRecord
<1>2. CASE ~knows
  <2>1. wizard' = [open |-> TRUE, step |-> "idle", page |-> NoPage, form |-> NoPage,
                      forms |-> NoPage, loading |-> wizard.loading]
    BY <1>2 DEF OpenWizard, Fresh
  <2> QED
    BY <1>2, <2>1 DEF OpenWizard, WizardRecord, WizardShape
<1> QED
  BY <1>1, <1>2

LEMMA HeardWizard ==
  ASSUME WizardShape, Hear
  PROVE  /\ wizard' \in WizardRecord /\ wizard'.step \in {"idle", "page"}
         /\ wizard'.loading = (granting = "granted" \/ wizard.loading)
         /\ fetches' \in {fetches, fetches \cup {"pages"}} /\ (granting # "granted" => fetches' = fetches)
         /\ strayed' = (strayed \/ (granting = "granted" /\ Waiting)) /\ connecting' = connecting
<1>1. CASE granting = "granted"
  <2>1. wizard' = [wizard EXCEPT !.step = "page", !.loading = TRUE]
    BY <1>1 DEF Hear
  <2> QED
    BY <1>1, <2>1 DEF Hear, WizardRecord, WizardShape
<1>2. CASE granting # "granted"
  <2>1. wizard' = [wizard EXCEPT !.step = "idle"]
    BY <1>2 DEF Hear
  <2> QED
    BY <1>2, <2>1 DEF Hear, WizardRecord, WizardShape
<1> QED
  BY <1>1, <1>2

LEMMA ArrivedForms ==
  ASSUME WizardShape, NEW p \in FbPages, NEW ok \in BOOLEAN, FormsArrive(p, ok)
  PROVE  /\ wizard' \in WizardRecord /\ wizard'.page = wizard.page /\ wizard'.form = wizard.form
         /\ ~wizard'.loading /\ p \in fetches /\ fetches' = fetches \ {p} /\ strayed' = strayed /\ connecting' = connecting
         /\ ok => wizard'.step = wizard.step /\ wizard'.forms = p
         /\ ~ok => wizard'.step = "page"
<1>1. CASE ok
  <2>1. wizard' = [wizard EXCEPT !.forms = p, !.loading = FALSE]
    BY <1>1 DEF FormsArrive
  <2> QED
    BY <1>1, <2>1 DEF FormsArrive, WizardRecord, WizardShape
<1>2. CASE ~ok
  <2>1. wizard' = [wizard EXCEPT !.step = "page", !.loading = FALSE]
    BY <1>2 DEF FormsArrive
  <2> QED
    BY <1>2, <2>1 DEF FormsArrive, WizardRecord, WizardShape
<1> QED
  BY <1>1, <1>2

LEMMA ReadConnect ==
  ASSUME ConnectShape, TokenShape, NEW ok \in BOOLEAN, ConnectReads(ok)
  PROVE  /\ connecting.step = "sent" /\ connecting'.step \in {"read", "refused"}
         /\ connecting' \in ConnectRecord /\ connecting'.page = connecting.page
         /\ connecting'.form = connecting.form /\ connecting'.token = metaToken
<1>1. connecting \in ConnectRecord /\ metaToken \in Nat
  BY DEF ConnectShape, TokenShape
<1> DEFINE step == IF ok /\ metaToken # 0 THEN "read" ELSE "refused"
<1>2. connecting' = [connecting EXCEPT !.step = step, !.token = metaToken] /\ connecting.step = "sent"
  BY DEF ConnectReads
<1>3. step \in {"read", "refused"}
  OBVIOUS
<1> HIDE DEF step
<1> QED
  BY <1>1, <1>2, <1>3 DEF ConnectRecord

(* A request that fails as it writes leaves the sources, or one that it created. *)
LEMMA FailedConnect ==
  ASSUME ConnectShape, TokenShape, ConnectBreaks
  PROVE  /\ connecting.step = "subscribed" /\ connecting' \in ConnectRecord /\ connecting'.step = "refused"
         /\ connecting'.page = connecting.page /\ connecting'.form = connecting.form
         /\ connecting'.token = connecting.token
         /\ metaSources' \in [SourceKeys -> [token : Nat, enabled : BOOLEAN]]
         /\ \A j \in SourceKeys : \/ metaSources'[j] = metaSources[j]
                                  \/ j = <<connecting.page, connecting.form>> /\ metaSources'[j].token = connecting.token
         /\ UNCHANGED <<knows, metaToken, grants, subscribed, unsubscribed, wizard, granting, fetches, strayed>>
<1> DEFINE k == <<connecting.page, connecting.form>>
<1>1. /\ connecting \in ConnectRecord /\ connecting.token \in Nat
      /\ metaSources \in [SourceKeys -> [token : Nat, enabled : BOOLEAN]]
  BY DEF ConnectShape, TokenShape, ConnectRecord
<1>2. connecting' = [connecting EXCEPT !.step = "refused"] /\ connecting.step = "subscribed"
  BY DEF ConnectBreaks
<1>3. \/ metaSources' = metaSources
      \/ metaSources' = [metaSources EXCEPT ![k] = Connected(metaSources[k], connecting.token)]
  BY DEF ConnectBreaks
<1>4. /\ Connected(metaSources[k], connecting.token) \in [token : Nat, enabled : BOOLEAN]
      /\ Connected(metaSources[k], connecting.token).token = connecting.token
  BY <1>1 DEF Connected
<1>5. /\ metaSources' \in [SourceKeys -> [token : Nat, enabled : BOOLEAN]]
      /\ \A j \in SourceKeys : \/ metaSources'[j] = metaSources[j]
                               \/ j = k /\ metaSources'[j].token = connecting.token
  <2> HIDE DEF k
  <2> QED
    BY <1>1, <1>3, <1>4
<1> QED
  BY <1>1, <1>2, <1>5 DEF ConnectBreaks, ConnectRecord

(* Changing a source leaves the others, and its token unless it is deleted. *)
LEMMA SourceChanged ==
  ASSUME TokenShape, NEW k \in SourceKeys, ChangeSource(k)
  PROVE  /\ metaSources' \in [SourceKeys -> [token : Nat, enabled : BOOLEAN]]
         /\ \A j \in SourceKeys : metaSources'[j] # NoSource =>
              metaSources[j] # NoSource /\ metaSources'[j].token = metaSources[j].token
         /\ \A j \in SourceKeys : metaSources'[j].token \in {0, metaSources[j].token}
         /\ metaSources[k] # NoSource
         /\ UNCHANGED <<knows, metaToken, grants, subscribed, unsubscribed, wizard, granting, fetches, connecting, strayed>>
<1>1. CASE metaSources' = [metaSources EXCEPT ![k] = NoSource]
  BY <1>1 DEF TokenShape, ChangeSource, NoSource
<1>2. CASE metaSources' = [metaSources EXCEPT ![k].enabled = ~metaSources[k].enabled]
  BY <1>2 DEF TokenShape, ChangeSource, NoSource
<1> QED
  BY <1>1, <1>2 DEF ChangeSource

LEMMA WizardStays ==
  ASSUME WizardAssumption, MetaInv, MetaNext
  PROVE  WizardShape'
<1> USE WizardAssumption DEF MetaInv, WizardMove, WizardFault, tenantVars, wizardLimits,
    WizardShape, WizardRecord, Forms, Fresh, ChangePage, Waiting
<1>1. ASSUME OpenWizard PROVE WizardShape'
  BY <1>1, OpenedWizard
<1>2. ASSUME CloseWizard PROVE WizardShape'
  BY <1>2 DEF CloseWizard
<1>3. ASSUME StartOAuth PROVE WizardShape'
  BY <1>3 DEF StartOAuth
<1>4. ASSUME Hear PROVE WizardShape'
  BY <1>4, HeardWizard
<1>5. ASSUME WindowCloses PROVE WizardShape'
  BY <1>5 DEF WindowCloses
<1>6. ASSUME GoBack PROVE WizardShape'
  BY <1>6 DEF GoBack
<1>7. ASSUME SelectForm PROVE WizardShape'
  BY <1>7 DEF SelectForm
<1>8. ASSUME Confirm PROVE WizardShape'
  BY <1>8 DEF Confirm
<1>9. ASSUME NEW ok \in BOOLEAN, ConnectReads(ok) PROVE WizardShape'
  BY <1>9 DEF ConnectReads
<1>10. ASSUME ConnectWrites PROVE WizardShape'
  BY <1>10 DEF ConnectWrites
<1>11. ASSUME ConnectAnswered PROVE WizardShape'
  BY <1>11 DEF ConnectAnswered
<1>12. ASSUME DisconnectPage PROVE WizardShape'
  BY <1>12 DEF DisconnectPage
<1>13. ASSUME NEW ok \in BOOLEAN, HandleCallback(ok) PROVE WizardShape'
  BY <1>13 DEF HandleCallback
<1>14. ASSUME NEW ok \in BOOLEAN, PagesArrive(ok) PROVE WizardShape'
  BY <1>14 DEF PagesArrive
<1>15. ASSUME NEW ok \in BOOLEAN, Subscribe(ok) PROVE WizardShape'
  BY <1>15 DEF Subscribe
<1>16. ASSUME NEW p \in FbPages, SelectPage(p) PROVE WizardShape'
  BY <1>16 DEF SelectPage
<1>17. ASSUME NEW p \in FbPages, NEW ok \in BOOLEAN, FormsArrive(p, ok) PROVE WizardShape'
  BY <1>17, ArrivedForms
<1>18. ASSUME NEW k \in SourceKeys, ChangeSource(k) PROVE WizardShape'
  BY <1>18 DEF ChangeSource
<1>19. ASSUME ConnectBreaks PROVE WizardShape'
  BY <1>19 DEF ConnectBreaks
<1> HIDE DEF MetaInv, WizardShape
<1> QED
  BY <1>1, <1>2, <1>3, <1>4, <1>5, <1>6, <1>7, <1>8, <1>9, <1>10, <1>11, <1>12,
    <1>13, <1>14, <1>15, <1>16, <1>17, <1>18, <1>19 DEF MetaNext

LEMMA ConnectStays ==
  ASSUME WizardAssumption, MetaInv, MetaNext
  PROVE  ConnectShape'
<1> USE WizardAssumption DEF MetaInv, WizardMove, WizardFault, tenantVars, wizardLimits,
    WizardShape, ConnectShape, TokenShape, WizardRecord, ConnectRecord, Forms,
    NoConnect
<1>1. ASSUME OpenWizard PROVE ConnectShape'
  BY <1>1 DEF OpenWizard
<1>2. ASSUME CloseWizard PROVE ConnectShape'
  BY <1>2 DEF CloseWizard
<1>3. ASSUME StartOAuth PROVE ConnectShape'
  BY <1>3 DEF StartOAuth
<1>4. ASSUME Hear PROVE ConnectShape'
  BY <1>4 DEF Hear
<1>5. ASSUME WindowCloses PROVE ConnectShape'
  BY <1>5 DEF WindowCloses
<1>6. ASSUME GoBack PROVE ConnectShape'
  BY <1>6 DEF GoBack
<1>7. ASSUME SelectForm PROVE ConnectShape'
  BY <1>7 DEF SelectForm
<1>8. ASSUME Confirm PROVE ConnectShape'
  BY <1>8 DEF Confirm
<1>9. ASSUME NEW ok \in BOOLEAN, ConnectReads(ok) PROVE ConnectShape'
  BY <1>9, ReadConnect
<1>10. ASSUME ConnectWrites PROVE ConnectShape'
  BY <1>10 DEF ConnectWrites
<1>11. ASSUME ConnectAnswered PROVE ConnectShape'
  BY <1>11 DEF ConnectAnswered
<1>12. ASSUME DisconnectPage PROVE ConnectShape'
  BY <1>12 DEF DisconnectPage
<1>13. ASSUME NEW ok \in BOOLEAN, HandleCallback(ok) PROVE ConnectShape'
  BY <1>13 DEF HandleCallback
<1>14. ASSUME NEW ok \in BOOLEAN, PagesArrive(ok) PROVE ConnectShape'
  BY <1>14 DEF PagesArrive
<1>15. ASSUME NEW ok \in BOOLEAN, Subscribe(ok) PROVE ConnectShape'
  BY <1>15 DEF Subscribe
<1>16. ASSUME NEW p \in FbPages, SelectPage(p) PROVE ConnectShape'
  BY <1>16 DEF SelectPage
<1>17. ASSUME NEW p \in FbPages, NEW ok \in BOOLEAN, FormsArrive(p, ok) PROVE ConnectShape'
  BY <1>17 DEF FormsArrive
<1>18. ASSUME NEW k \in SourceKeys, ChangeSource(k) PROVE ConnectShape'
  BY <1>18 DEF ChangeSource
<1>19. ASSUME ConnectBreaks PROVE ConnectShape'
  BY <1>19, FailedConnect
<1> HIDE DEF MetaInv, WizardShape, ConnectShape, TokenShape
<1> QED
  BY <1>1, <1>2, <1>3, <1>4, <1>5, <1>6, <1>7, <1>8, <1>9, <1>10, <1>11, <1>12,
    <1>13, <1>14, <1>15, <1>16, <1>17, <1>18, <1>19 DEF MetaNext

LEMMA TokensStay ==
  ASSUME WizardAssumption, MetaInv, MetaNext
  PROVE  TokenShape'
<1>18. ASSUME NEW k \in SourceKeys, ChangeSource(k) PROVE TokenShape'
  BY <1>18, SourceChanged DEF MetaInv, TokenShape
<1> USE WizardAssumption DEF MetaInv, WizardMove, WizardFault, tenantVars, wizardLimits,
    TokenShape, ConnectShape, ConnectRecord, NoConnect, NoSource, Connected
<1>1. ASSUME OpenWizard PROVE TokenShape'
  BY <1>1 DEF OpenWizard
<1>2. ASSUME CloseWizard PROVE TokenShape'
  BY <1>2 DEF CloseWizard
<1>3. ASSUME StartOAuth PROVE TokenShape'
  BY <1>3 DEF StartOAuth
<1>4. ASSUME Hear PROVE TokenShape'
  BY <1>4 DEF Hear
<1>5. ASSUME WindowCloses PROVE TokenShape'
  BY <1>5 DEF WindowCloses
<1>6. ASSUME GoBack PROVE TokenShape'
  BY <1>6 DEF GoBack
<1>7. ASSUME SelectForm PROVE TokenShape'
  BY <1>7 DEF SelectForm
<1>8. ASSUME Confirm PROVE TokenShape'
  BY <1>8 DEF Confirm
<1>9. ASSUME NEW ok \in BOOLEAN, ConnectReads(ok) PROVE TokenShape'
  BY <1>9, ReadConnect DEF ConnectReads
<1>10. ASSUME ConnectWrites PROVE TokenShape'
  BY <1>10 DEF ConnectWrites
<1>11. ASSUME ConnectAnswered PROVE TokenShape'
  BY <1>11 DEF ConnectAnswered
<1>12. ASSUME DisconnectPage PROVE TokenShape'
  BY <1>12 DEF DisconnectPage
<1>13. ASSUME NEW ok \in BOOLEAN, HandleCallback(ok) PROVE TokenShape'
  BY <1>13 DEF HandleCallback
<1>14. ASSUME NEW ok \in BOOLEAN, PagesArrive(ok) PROVE TokenShape'
  BY <1>14 DEF PagesArrive
<1>15. ASSUME NEW ok \in BOOLEAN, Subscribe(ok) PROVE TokenShape'
  BY <1>15 DEF Subscribe
<1>16. ASSUME NEW p \in FbPages, SelectPage(p) PROVE TokenShape'
  BY <1>16 DEF SelectPage
<1>17. ASSUME NEW p \in FbPages, NEW ok \in BOOLEAN, FormsArrive(p, ok) PROVE TokenShape'
  BY <1>17 DEF FormsArrive
<1>19. ASSUME ConnectBreaks PROVE TokenShape'
  BY <1>19, FailedConnect
<1> HIDE DEF MetaInv, TokenShape, ConnectShape
<1> QED
  BY <1>1, <1>2, <1>3, <1>4, <1>5, <1>6, <1>7, <1>8, <1>9, <1>10, <1>11, <1>12,
    <1>13, <1>14, <1>15, <1>16, <1>17, <1>18, <1>19 DEF MetaNext

LEMMA AnswersStay ==
  ASSUME WizardAssumption, MetaInv, MetaNext
  PROVE  ~strayed' => OneAnswer'
<1> USE WizardAssumption DEF MetaInv, WizardMove, WizardFault, tenantVars, wizardLimits,
    WizardShape, ConnectShape, OneAnswer, WizardRecord, ConnectRecord, NoConnect,
    Fresh, Waiting, ChangePage
<1>1. ASSUME OpenWizard PROVE ~strayed' => OneAnswer'
  BY <1>1, OpenedWizard
<1>2. ASSUME CloseWizard PROVE ~strayed' => OneAnswer'
  BY <1>2 DEF CloseWizard
<1>3. ASSUME StartOAuth PROVE ~strayed' => OneAnswer'
  BY <1>3 DEF StartOAuth
<1>4. ASSUME Hear PROVE ~strayed' => OneAnswer'
  BY <1>4, HeardWizard
<1>5. ASSUME WindowCloses PROVE ~strayed' => OneAnswer'
  BY <1>5 DEF WindowCloses
<1>6. ASSUME GoBack PROVE ~strayed' => OneAnswer'
  BY <1>6 DEF GoBack
<1>7. ASSUME SelectForm PROVE ~strayed' => OneAnswer'
  BY <1>7 DEF SelectForm
<1>8. ASSUME Confirm PROVE ~strayed' => OneAnswer'
  BY <1>8 DEF Confirm
<1>9. ASSUME NEW ok \in BOOLEAN, ConnectReads(ok) PROVE ~strayed' => OneAnswer'
  BY <1>9 DEF ConnectReads
<1>10. ASSUME ConnectWrites PROVE ~strayed' => OneAnswer'
  BY <1>10 DEF ConnectWrites
<1>11. ASSUME ConnectAnswered PROVE ~strayed' => OneAnswer'
  BY <1>11 DEF ConnectAnswered
<1>12. ASSUME DisconnectPage PROVE ~strayed' => OneAnswer'
  BY <1>12 DEF DisconnectPage
<1>13. ASSUME NEW ok \in BOOLEAN, HandleCallback(ok) PROVE ~strayed' => OneAnswer'
  BY <1>13 DEF HandleCallback
<1>14. ASSUME NEW ok \in BOOLEAN, PagesArrive(ok) PROVE ~strayed' => OneAnswer'
  BY <1>14 DEF PagesArrive
<1>15. ASSUME NEW ok \in BOOLEAN, Subscribe(ok) PROVE ~strayed' => OneAnswer'
  BY <1>15 DEF Subscribe
<1>16. ASSUME NEW p \in FbPages, SelectPage(p) PROVE ~strayed' => OneAnswer'
  BY <1>16 DEF SelectPage
<1>17. ASSUME NEW p \in FbPages, NEW ok \in BOOLEAN, FormsArrive(p, ok) PROVE ~strayed' => OneAnswer'
  BY <1>17, ArrivedForms
<1>18. ASSUME NEW k \in SourceKeys, ChangeSource(k) PROVE ~strayed' => OneAnswer'
  BY <1>18 DEF ChangeSource
<1>19. ASSUME ConnectBreaks PROVE ~strayed' => OneAnswer'
  BY <1>19 DEF ConnectBreaks
<1> HIDE DEF MetaInv, WizardShape, ConnectShape, OneAnswer
<1> QED
  BY <1>1, <1>2, <1>3, <1>4, <1>5, <1>6, <1>7, <1>8, <1>9, <1>10, <1>11, <1>12,
    <1>13, <1>14, <1>15, <1>16, <1>17, <1>18, <1>19 DEF MetaNext

LEMMA FormsStay ==
  ASSUME WizardAssumption, MetaInv, MetaNext
  PROVE  ~strayed' => FormsMatch'
<1> USE WizardAssumption DEF MetaInv, WizardMove, WizardFault, tenantVars, wizardLimits,
    WizardShape, ConnectShape, OneAnswer, FormsMatch, WizardRecord, ConnectRecord,
    NoConnect, Fresh, Waiting, ChangePage, Forms
<1>1. ASSUME OpenWizard PROVE ~strayed' => FormsMatch'
  BY <1>1, OpenedWizard
<1>2. ASSUME CloseWizard PROVE ~strayed' => FormsMatch'
  BY <1>2 DEF CloseWizard
<1>3. ASSUME StartOAuth PROVE ~strayed' => FormsMatch'
  BY <1>3 DEF StartOAuth
<1>4. ASSUME Hear PROVE ~strayed' => FormsMatch'
  BY <1>4, HeardWizard
<1>5. ASSUME WindowCloses PROVE ~strayed' => FormsMatch'
  BY <1>5 DEF WindowCloses
<1>6. ASSUME GoBack PROVE ~strayed' => FormsMatch'
  BY <1>6 DEF GoBack
<1>7. ASSUME SelectForm PROVE ~strayed' => FormsMatch'
  BY <1>7 DEF SelectForm
<1>8. ASSUME Confirm PROVE ~strayed' => FormsMatch'
  BY <1>8 DEF Confirm
<1>9. ASSUME NEW ok \in BOOLEAN, ConnectReads(ok) PROVE ~strayed' => FormsMatch'
  BY <1>9 DEF ConnectReads
<1>10. ASSUME ConnectWrites PROVE ~strayed' => FormsMatch'
  BY <1>10 DEF ConnectWrites
<1>11. ASSUME ConnectAnswered PROVE ~strayed' => FormsMatch'
  BY <1>11 DEF ConnectAnswered
<1>12. ASSUME DisconnectPage PROVE ~strayed' => FormsMatch'
  BY <1>12 DEF DisconnectPage
<1>13. ASSUME NEW ok \in BOOLEAN, HandleCallback(ok) PROVE ~strayed' => FormsMatch'
  BY <1>13 DEF HandleCallback
<1>14. ASSUME NEW ok \in BOOLEAN, PagesArrive(ok) PROVE ~strayed' => FormsMatch'
  BY <1>14 DEF PagesArrive
<1>15. ASSUME NEW ok \in BOOLEAN, Subscribe(ok) PROVE ~strayed' => FormsMatch'
  BY <1>15 DEF Subscribe
<1>16. ASSUME NEW p \in FbPages, SelectPage(p) PROVE ~strayed' => FormsMatch'
  BY <1>16 DEF SelectPage
<1>17. ASSUME NEW p \in FbPages, NEW ok \in BOOLEAN, FormsArrive(p, ok) PROVE ~strayed' => FormsMatch'
  BY <1>17, ArrivedForms
<1>18. ASSUME NEW k \in SourceKeys, ChangeSource(k) PROVE ~strayed' => FormsMatch'
  BY <1>18 DEF ChangeSource
<1>19. ASSUME ConnectBreaks PROVE ~strayed' => FormsMatch'
  BY <1>19 DEF ConnectBreaks
<1> HIDE DEF MetaInv, WizardShape, ConnectShape, OneAnswer, FormsMatch
<1> QED
  BY <1>1, <1>2, <1>3, <1>4, <1>5, <1>6, <1>7, <1>8, <1>9, <1>10, <1>11, <1>12,
    <1>13, <1>14, <1>15, <1>16, <1>17, <1>18, <1>19 DEF MetaNext

LEMMA SourcesStay ==
  ASSUME WizardAssumption, MetaInv, MetaNext
  PROVE  ~strayed' => SourcesMatch'
<1>18. ASSUME NEW k \in SourceKeys, ChangeSource(k) PROVE ~strayed' => SourcesMatch'
  BY <1>18, SourceChanged DEF MetaInv, SourcesMatch, TokenShape
<1> USE WizardAssumption DEF MetaInv, WizardMove, WizardFault, tenantVars, wizardLimits,
    WizardShape, ConnectShape, TokenShape, FormsMatch, SourcesMatch, ConnectRecord,
    NoConnect, NoSource, Forms, SourceKeys
<1>1. ASSUME OpenWizard PROVE ~strayed' => SourcesMatch'
  BY <1>1 DEF OpenWizard
<1>2. ASSUME CloseWizard PROVE ~strayed' => SourcesMatch'
  BY <1>2 DEF CloseWizard
<1>3. ASSUME StartOAuth PROVE ~strayed' => SourcesMatch'
  BY <1>3 DEF StartOAuth
<1>4. ASSUME Hear PROVE ~strayed' => SourcesMatch'
  BY <1>4 DEF Hear
<1>5. ASSUME WindowCloses PROVE ~strayed' => SourcesMatch'
  BY <1>5 DEF WindowCloses
<1>6. ASSUME GoBack PROVE ~strayed' => SourcesMatch'
  BY <1>6 DEF GoBack
<1>7. ASSUME SelectForm PROVE ~strayed' => SourcesMatch'
  BY <1>7 DEF SelectForm
<1>8. ASSUME Confirm PROVE ~strayed' => SourcesMatch'
  BY <1>8 DEF Confirm
<1>9. ASSUME NEW ok \in BOOLEAN, ConnectReads(ok) PROVE ~strayed' => SourcesMatch'
  BY <1>9 DEF ConnectReads
<1>10. ASSUME ConnectWrites PROVE ~strayed' => SourcesMatch'
  BY <1>10 DEF ConnectWrites
<1>11. ASSUME ConnectAnswered PROVE ~strayed' => SourcesMatch'
  BY <1>11 DEF ConnectAnswered
<1>12. ASSUME DisconnectPage PROVE ~strayed' => SourcesMatch'
  BY <1>12 DEF DisconnectPage
<1>13. ASSUME NEW ok \in BOOLEAN, HandleCallback(ok) PROVE ~strayed' => SourcesMatch'
  BY <1>13 DEF HandleCallback
<1>14. ASSUME NEW ok \in BOOLEAN, PagesArrive(ok) PROVE ~strayed' => SourcesMatch'
  BY <1>14 DEF PagesArrive
<1>15. ASSUME NEW ok \in BOOLEAN, Subscribe(ok) PROVE ~strayed' => SourcesMatch'
  BY <1>15 DEF Subscribe
<1>16. ASSUME NEW p \in FbPages, SelectPage(p) PROVE ~strayed' => SourcesMatch'
  BY <1>16 DEF SelectPage
<1>17. ASSUME NEW p \in FbPages, NEW ok \in BOOLEAN, FormsArrive(p, ok) PROVE ~strayed' => SourcesMatch'
  BY <1>17 DEF FormsArrive
<1>19. ASSUME ConnectBreaks PROVE ~strayed' => SourcesMatch'
  BY <1>19, FailedConnect
<1> HIDE DEF MetaInv, WizardShape, ConnectShape, TokenShape, FormsMatch,
    SourcesMatch, SourceKeys
<1> QED
  BY <1>1, <1>2, <1>3, <1>4, <1>5, <1>6, <1>7, <1>8, <1>9, <1>10, <1>11, <1>12,
    <1>13, <1>14, <1>15, <1>16, <1>17, <1>18, <1>19 DEF MetaNext

LEMMA PagesStay ==
  ASSUME WizardAssumption, MetaInv, MetaNext
  PROVE  PagesAreAsked'
<1>18. ASSUME NEW k \in SourceKeys, ChangeSource(k) PROVE PagesAreAsked'
  BY <1>18, SourceChanged DEF MetaInv, PagesAreAsked, TokenShape
<1> USE WizardAssumption DEF MetaInv, WizardMove, WizardFault, tenantVars, wizardLimits,
    ConnectShape, TokenShape, PagesAreAsked, ConnectRecord, NoConnect, NoSource,
    Connected, Forms, SourceKeys
<1>1. ASSUME OpenWizard PROVE PagesAreAsked'
  BY <1>1 DEF OpenWizard
<1>2. ASSUME CloseWizard PROVE PagesAreAsked'
  BY <1>2 DEF CloseWizard
<1>3. ASSUME StartOAuth PROVE PagesAreAsked'
  BY <1>3 DEF StartOAuth
<1>4. ASSUME Hear PROVE PagesAreAsked'
  BY <1>4 DEF Hear
<1>5. ASSUME WindowCloses PROVE PagesAreAsked'
  BY <1>5 DEF WindowCloses
<1>6. ASSUME GoBack PROVE PagesAreAsked'
  BY <1>6 DEF GoBack
<1>7. ASSUME SelectForm PROVE PagesAreAsked'
  BY <1>7 DEF SelectForm
<1>8. ASSUME Confirm PROVE PagesAreAsked'
  BY <1>8 DEF Confirm
<1>9. ASSUME NEW ok \in BOOLEAN, ConnectReads(ok) PROVE PagesAreAsked'
  BY <1>9 DEF ConnectReads
<1>10. ASSUME ConnectWrites PROVE PagesAreAsked'
  BY <1>10 DEF ConnectWrites
<1>11. ASSUME ConnectAnswered PROVE PagesAreAsked'
  BY <1>11 DEF ConnectAnswered
<1>12. ASSUME DisconnectPage PROVE PagesAreAsked'
  BY <1>12 DEF DisconnectPage
<1>13. ASSUME NEW ok \in BOOLEAN, HandleCallback(ok) PROVE PagesAreAsked'
  BY <1>13 DEF HandleCallback
<1>14. ASSUME NEW ok \in BOOLEAN, PagesArrive(ok) PROVE PagesAreAsked'
  BY <1>14 DEF PagesArrive
<1>15. ASSUME NEW ok \in BOOLEAN, Subscribe(ok) PROVE PagesAreAsked'
  BY <1>15 DEF Subscribe
<1>16. ASSUME NEW p \in FbPages, SelectPage(p) PROVE PagesAreAsked'
  BY <1>16 DEF SelectPage
<1>17. ASSUME NEW p \in FbPages, NEW ok \in BOOLEAN, FormsArrive(p, ok) PROVE PagesAreAsked'
  BY <1>17 DEF FormsArrive
<1>19. ASSUME ConnectBreaks PROVE PagesAreAsked'
  BY <1>19, FailedConnect
<1> HIDE DEF MetaInv, ConnectShape, TokenShape, PagesAreAsked, SourceKeys
<1> QED
  BY <1>1, <1>2, <1>3, <1>4, <1>5, <1>6, <1>7, <1>8, <1>9, <1>10, <1>11, <1>12,
    <1>13, <1>14, <1>15, <1>16, <1>17, <1>18, <1>19 DEF MetaNext

LEMMA CurrentStays ==
  ASSUME WizardAssumption, MetaInv, MetaNext
  PROVE  TokensAreCurrent'
<1>9. ASSUME NEW ok \in BOOLEAN, ConnectReads(ok) PROVE TokensAreCurrent'
  BY <1>9, ReadConnect DEF MetaInv, TokensAreCurrent
<1>18. ASSUME NEW k \in SourceKeys, ChangeSource(k) PROVE TokensAreCurrent'
  BY <1>18, SourceChanged DEF MetaInv, TokensAreCurrent, TokenShape
<1> USE WizardAssumption DEF MetaInv, WizardMove, WizardFault, tenantVars, wizardLimits,
    ConnectShape, TokenShape, TokensAreCurrent, ConnectRecord, NoConnect, NoSource,
    Connected, Forms, SourceKeys
<1>1. ASSUME OpenWizard PROVE TokensAreCurrent'
  BY <1>1 DEF OpenWizard
<1>2. ASSUME CloseWizard PROVE TokensAreCurrent'
  BY <1>2 DEF CloseWizard
<1>3. ASSUME StartOAuth PROVE TokensAreCurrent'
  BY <1>3 DEF StartOAuth
<1>4. ASSUME Hear PROVE TokensAreCurrent'
  BY <1>4 DEF Hear
<1>5. ASSUME WindowCloses PROVE TokensAreCurrent'
  BY <1>5 DEF WindowCloses
<1>6. ASSUME GoBack PROVE TokensAreCurrent'
  BY <1>6 DEF GoBack
<1>7. ASSUME SelectForm PROVE TokensAreCurrent'
  BY <1>7 DEF SelectForm
<1>8. ASSUME Confirm PROVE TokensAreCurrent'
  BY <1>8 DEF Confirm
<1>10. ASSUME ConnectWrites PROVE TokensAreCurrent'
  BY <1>10 DEF ConnectWrites
<1>11. ASSUME ConnectAnswered PROVE TokensAreCurrent'
  BY <1>11 DEF ConnectAnswered
<1>12. ASSUME DisconnectPage PROVE TokensAreCurrent'
  BY <1>12 DEF DisconnectPage
<1>13. ASSUME NEW ok \in BOOLEAN, HandleCallback(ok) PROVE TokensAreCurrent'
  BY <1>13 DEF HandleCallback
<1>14. ASSUME NEW ok \in BOOLEAN, PagesArrive(ok) PROVE TokensAreCurrent'
  BY <1>14 DEF PagesArrive
<1>15. ASSUME NEW ok \in BOOLEAN, Subscribe(ok) PROVE TokensAreCurrent'
  BY <1>15 DEF Subscribe
<1>16. ASSUME NEW p \in FbPages, SelectPage(p) PROVE TokensAreCurrent'
  BY <1>16 DEF SelectPage
<1>17. ASSUME NEW p \in FbPages, NEW ok \in BOOLEAN, FormsArrive(p, ok) PROVE TokensAreCurrent'
  BY <1>17 DEF FormsArrive
<1>19. ASSUME ConnectBreaks PROVE TokensAreCurrent'
  BY <1>19, FailedConnect
<1> HIDE DEF MetaInv, ConnectShape, TokenShape, TokensAreCurrent, SourceKeys
<1> QED
  BY <1>1, <1>2, <1>3, <1>4, <1>5, <1>6, <1>7, <1>8, <1>9, <1>10, <1>11, <1>12,
    <1>13, <1>14, <1>15, <1>16, <1>17, <1>18, <1>19 DEF MetaNext

LEMMA MetaStarts ==
  ASSUME WizardAssumption, MetaInit
  PROVE  MetaInv
<1>1. \A k \in SourceKeys : metaSources[k] = NoSource
  BY DEF MetaInit
<1>2. WizardShape /\ ConnectShape
  BY DEF MetaInit, WizardShape, WizardRecord, ConnectShape, ConnectRecord, Fresh, NoConnect, Forms
<1>3. TokenShape
  BY DEF MetaInit, TokenShape, NoConnect, NoSource
<1>4. OneAnswer /\ FormsMatch /\ SourcesMatch /\ PagesAreAsked /\ TokensAreCurrent
  BY <1>1 DEF MetaInit, OneAnswer, FormsMatch, SourcesMatch, PagesAreAsked, TokensAreCurrent, Fresh, NoConnect
<1> QED
  BY <1>2, <1>3, <1>4 DEF MetaInv

LEMMA MetaInvariant == ASSUME WizardAssumption PROVE MetaSpec => []MetaInv
<1>1. MetaInit => MetaInv
  BY MetaStarts
<1>2. MetaInv /\ [MetaNext]_metaVars => MetaInv'
  <2> SUFFICES ASSUME MetaInv, [MetaNext]_metaVars PROVE MetaInv'
    OBVIOUS
  <2>1. CASE MetaNext
    BY <2>1, WizardStays, ConnectStays, TokensStay, AnswersStay, FormsStay, SourcesStay, PagesStay,
       CurrentStays DEF MetaInv
  <2>2. CASE UNCHANGED metaVars
    BY <2>2 DEF metaVars, MetaInv, WizardShape, ConnectShape, TokenShape, OneAnswer, FormsMatch,
       SourcesMatch, PagesAreAsked, TokensAreCurrent
  <2> QED
    BY <2>1, <2>2
<1> QED
  BY <1>1, <1>2, PTL DEF MetaSpec

(* Type correctness of the wizard: its steps, and tokens that were granted. *)
THEOREM SourcesTypeCorrect == ASSUME WizardAssumption PROVE MetaSpec => []MetaTypeOK
<1>1. MetaInv => MetaTypeOK
  BY DEF MetaInv, MetaTypeOK, WizardShape, WizardRecord, TokenShape
<1> QED
  BY <1>1, MetaInvariant, PTL

(* A source that was connected names a form of its page unless the wizard was opened again or heard   *)
(* of a grant while it waited (lead-sources/page.tsx:281); its page was subscribed or failed to be,   *)
(* and its token is that of its last connection, for any pages and any number of moves and faults.    *)
THEOREM SourcesStayWired == ASSUME WizardAssumption PROVE MetaSpec => []SourcesAreWired
<1>1. MetaInv => SourcesAreWired
  BY DEF MetaInv, SourcesAreWired, SourcesMatch, PagesAreAsked, TokensAreCurrent, WizardShape
<1> QED
  BY <1>1, MetaInvariant, PTL

-----------------------------------------------------------------------------
(* The videos of a property *)

ReelSpec == ReelInit /\ [][ReelNext]_reelVars

Phases == {"none", "narrating", "bundling", "rendering", "done", "error", "not_found"}
RoundRecord == [changed : BOOLEAN, found : [Jobs -> Phases], left : SUBSET Jobs]

(* What is shown, and what a round has found, is behind the jobs: a video that  *)
(* is said to be done is there.                                                 *)
Behind(list) ==
  \A j \in Jobs : (list[j] = "done" => j \in videos) /\ Place(list[j]) <= Place(reels[j])
ReelShape ==
  /\ reels \in [Jobs -> Phases] /\ listed \in [Jobs -> Phases] /\ rounds \subseteq RoundRecord
  /\ videos \subseteq Jobs /\ begun \in 0..MaxRounds /\ entangled \in BOOLEAN
RoundsAskForWork == \A r \in rounds : \A j \in r.left : UnderWay(r.found[j])
(* A round that is alone has found nothing older than what is shown. *)
RoundsGoForward ==
  ~entangled => /\ \A r, s \in rounds : r = s
                /\ \A r \in rounds : \A j \in Jobs : Place(listed[j]) <= Place(r.found[j])
ReelInv ==
  /\ ReelShape /\ RoundsAskForWork /\ RoundsGoForward
  /\ \A j \in Jobs : reels[j] = "done" => j \in videos
  /\ Behind(listed) /\ \A r \in rounds : Behind(r.found)

LEMMA PlaceOfPhase ==
  ASSUME NEW phase \in Phases
  PROVE  /\ Place(phase) \in 0..4 /\ (phase \in {"done", "error", "not_found"} => Place(phase) = 4)
         /\ (phase = "none" => Place(phase) = 0) /\ (phase = "narrating" => Place(phase) = 1)
         /\ (phase = "bundling" => Place(phase) = 2) /\ (phase = "rendering" => Place(phase) = 3)
         /\ (UnderWay(phase) <=> phase \in {"narrating", "bundling", "rendering"})
BY DEF Phases, Place, UnderWay

-----------------------------------------------------------------------------
(* Jobs go forward. *)

JobsGoOn ==
  /\ PageSame /\ reels' \in [Jobs -> Phases] /\ videos \subseteq videos' /\ videos' \subseteq Jobs
  /\ \A j \in Jobs : Place(reels[j]) <= Place(reels'[j]) /\ (reels'[j] = "done" => j \in videos')

LEMMA OneJobGoesOn ==
  ASSUME ReelInv, NEW j \in Jobs, NEW phase \in Phases, Enters(j, phase), Place(reels[j]) <= Place(phase),
         PageSame, videos \subseteq videos', videos' \subseteq Jobs, phase = "done" => j \in videos'
  PROVE  JobsGoOn
<1>1. reels' = [reels EXCEPT ![j] = phase] /\ reels \in [Jobs -> Phases]
  BY DEF Enters, ReelInv, ReelShape
<1>2. reels' \in [Jobs -> Phases]
  BY <1>1
<1>3. ASSUME NEW k \in Jobs PROVE Place(reels[k]) <= Place(reels'[k]) /\ (reels'[k] = "done" => k \in videos')
  <2>1. CASE k = j
    BY <1>1, <2>1
  <2>2. CASE k # j
    <3>1. reels'[k] = reels[k] /\ reels[k] \in Phases
      BY <1>1, <2>2
    <3>2. Place(reels[k]) \in 0..4
      BY <3>1, PlaceOfPhase
    <3> QED
      BY <3>1, <3>2 DEF ReelInv
  <2> QED
    BY <2>1, <2>2
<1> QED
  BY <1>2, <1>3 DEF JobsGoOn

LEMMA JobsStep ==
  ASSUME ReelInv, \/ ForgetReels
                  \/ \E j \in Jobs : StartReel(j) \/ Narrate(j) \/ Bundle(j) \/ FinishRender(j) \/ RenderFails(j)
  PROVE  JobsGoOn
<1>1. reels \in [Jobs -> Phases] /\ videos \subseteq Jobs /\ \A j \in Jobs : reels[j] \in Phases
  BY DEF ReelInv, ReelShape
<1>2. "none" \in Phases /\ "narrating" \in Phases /\ "bundling" \in Phases /\ "rendering" \in Phases
      /\ "done" \in Phases /\ "error" \in Phases /\ "not_found" \in Phases
  BY DEF Phases
<1>3. CASE ForgetReels
  <2>1. reels' = [j \in Jobs |-> IF reels[j] = "none" THEN "none" ELSE "not_found"] /\ videos' = videos /\ PageSame
    BY <1>3 DEF ForgetReels
  <2>2. ASSUME NEW j \in Jobs PROVE Place(reels[j]) <= Place(reels'[j]) /\ reels'[j] # "done"
    <3>1. Place(reels[j]) \in 0..4 /\ Place("not_found") = 4
      BY <1>1, <1>2, PlaceOfPhase
    <3>2. CASE reels[j] = "none"
      BY <2>1, <3>1, <3>2
    <3>3. CASE reels[j] # "none"
      BY <2>1, <3>1, <3>3
    <3> QED
      BY <3>2, <3>3
  <2>3. reels' \in [Jobs -> Phases]
    BY <1>2, <2>1
  <2> QED
    BY <1>1, <2>1, <2>2, <2>3 DEF JobsGoOn
<1>4. CASE \E j \in Jobs : StartReel(j) \/ Narrate(j) \/ Bundle(j) \/ FinishRender(j) \/ RenderFails(j)
  <2>1. PICK j \in Jobs : StartReel(j) \/ Narrate(j) \/ Bundle(j) \/ FinishRender(j) \/ RenderFails(j)
    BY <1>4
  <2>2. Place("none") = 0 /\ Place("narrating") = 1 /\ Place("bundling") = 2 /\ Place("rendering") = 3
        /\ Place("done") = 4 /\ Place("error") = 4 /\ Place(reels[j]) \in 0..4
    BY <1>1, <1>2, PlaceOfPhase
  <2>3. CASE StartReel(j)
    BY <1>1, <1>2, <2>2, <2>3, OneJobGoesOn DEF StartReel
  <2>4. CASE Narrate(j)
    BY <1>1, <1>2, <2>2, <2>4, OneJobGoesOn DEF Narrate
  <2>5. CASE Bundle(j)
    BY <1>1, <1>2, <2>2, <2>5, OneJobGoesOn DEF Bundle
  <2>6. CASE FinishRender(j)
    BY <1>1, <1>2, <2>2, <2>6, OneJobGoesOn DEF FinishRender, Filed
  <2>7. CASE RenderFails(j)
    BY <1>1, <1>2, <2>2, <2>7, OneJobGoesOn DEF RenderFails
  <2> QED
    BY <2>1, <2>3, <2>4, <2>5, <2>6, <2>7
<1> QED
  BY <1>3, <1>4

LEMMA JobsKeep ==
  ASSUME ReelInv, JobsGoOn
  PROVE  ReelInv' /\ listed' = listed
<1>1. UNCHANGED <<listed, rounds, begun, entangled>>
  BY DEF JobsGoOn, PageSame
<1>2. ReelShape' /\ RoundsAskForWork' /\ RoundsGoForward'
  BY <1>1 DEF ReelInv, ReelShape, RoundsAskForWork, RoundsGoForward, JobsGoOn
<1>3. ASSUME NEW list \in [Jobs -> Phases], Behind(list),
             NEW j \in Jobs
      PROVE  (list[j] = "done" => j \in videos') /\ Place(list[j]) <= Place(reels'[j])
  <2>1. Place(list[j]) \in 0..4 /\ Place(reels[j]) \in 0..4 /\ Place(reels'[j]) \in 0..4
    BY PlaceOfPhase DEF ReelInv, ReelShape, JobsGoOn
  <2> QED
    BY <1>3, <2>1 DEF Behind, JobsGoOn
<1>4. Behind(listed)'
  BY <1>1, <1>3 DEF ReelInv, ReelShape, Behind
<1>5. ASSUME NEW r \in rounds' PROVE Behind(r.found)'
  <2>1. r \in rounds /\ r.found \in [Jobs -> Phases] /\ Behind(r.found)
    BY <1>1, <1>5 DEF ReelInv, ReelShape, RoundRecord
  <2> QED
    BY <1>3, <2>1 DEF Behind
<1> QED
  BY <1>1, <1>2, <1>4, <1>5 DEF ReelInv, JobsGoOn

-----------------------------------------------------------------------------
(* The page: a load, and rounds that begin, go on and end. *)

ShowsOn == \A j \in Jobs : ~entangled' /\ listed'[j] # "none" => Place(listed[j]) <= Place(listed'[j])

LEMMA ListIsLoaded ==
  ASSUME ReelInv, LoadJobs
  PROVE  ReelInv' /\ ShowsOn
<1>1. /\ listed' = [j \in Jobs |-> IF reels[j] = "not_found" THEN "none" ELSE reels[j]]
      /\ entangled' = (entangled \/ rounds # {}) /\ UNCHANGED <<reels, videos, rounds, begun>>
  BY DEF LoadJobs
<1>2. reels \in [Jobs -> Phases] /\ "none" \in Phases
  BY DEF ReelInv, ReelShape, Phases
<1>3. ASSUME NEW j \in Jobs
      PROVE  /\ listed'[j] \in Phases /\ (listed'[j] = "done" => j \in videos) /\ Place(listed'[j]) <= Place(reels[j])
             /\ (listed'[j] # "none" => Place(listed[j]) <= Place(listed'[j]))
  <2>1. Place(reels[j]) \in 0..4 /\ Place("none") = 0
    BY <1>2, PlaceOfPhase
  <2>2. CASE reels[j] = "not_found"
    <3>1. listed'[j] = "none"
      BY <1>1, <2>2
    <3> QED
      BY <1>2, <2>1, <3>1
  <2>3. CASE reels[j] # "not_found"
    <3>1. listed'[j] = reels[j]
      BY <1>1, <2>3
    <3> QED
      BY <1>2, <2>1, <3>1 DEF ReelInv, Behind
  <2> QED
    BY <2>2, <2>3
<1>4. listed' \in [Jobs -> Phases]
  BY <1>1, <1>2
<1>5. ReelShape' /\ RoundsAskForWork'
  BY <1>1, <1>4 DEF ReelInv, ReelShape, RoundsAskForWork
<1>6. RoundsGoForward'
  BY <1>1 DEF RoundsGoForward
<1>7. Behind(listed)' /\ \A r \in rounds' : Behind(r.found)'
  BY <1>1, <1>3 DEF ReelInv, Behind
<1> QED
  BY <1>1, <1>3, <1>5, <1>6, <1>7 DEF ReelInv, ShowsOn

LEMMA RoundBegins ==
  ASSUME ReelAssumption, ReelInv, BeginRound
  PROVE  ReelInv' /\ listed' = listed
<1> DEFINE new == [changed |-> FALSE, found |-> listed, left |-> ToAsk]
<1>1. /\ rounds' = rounds \cup {new} /\ begun < MaxRounds /\ begun' = begun + 1
      /\ entangled' = (entangled \/ rounds # {}) /\ UNCHANGED <<reels, videos, listed>>
  BY DEF BeginRound, Captured
<1>2. new \in RoundRecord /\ new.found = listed /\ \A j \in new.left : j \in Jobs /\ UnderWay(listed[j])
  BY DEF RoundRecord, ToAsk, ReelInv, ReelShape
<1> HIDE DEF new
<1>3. begun' \in 0..MaxRounds
  <2>1. begun \in 0..MaxRounds /\ MaxRounds \in Nat
    BY DEF ReelInv, ReelShape, ReelAssumption
  <2> QED
    BY <1>1, <2>1
<1>4. ReelShape' /\ RoundsAskForWork'
  BY <1>1, <1>2, <1>3 DEF ReelInv, ReelShape, RoundsAskForWork
<1>5. RoundsGoForward'
  <2>1. ASSUME NEW j \in Jobs PROVE Place(listed[j]) <= Place(listed[j])
    <3>1. Place(listed[j]) \in 0..4
      BY PlaceOfPhase DEF ReelInv, ReelShape
    <3> QED
      BY <3>1
  <2> QED
    BY <1>1, <1>2, <2>1 DEF RoundsGoForward
<1>6. Behind(listed)' /\ \A r \in rounds' : Behind(r.found)'
  BY <1>1, <1>2 DEF ReelInv, Behind
<1> QED
  BY <1>1, <1>4, <1>5, <1>6 DEF ReelInv

(* A round goes on as s: it has found what it had, or where a job is now. *)
GoesOnAs(r, s) ==
  /\ r \in rounds /\ s \in RoundRecord /\ s.left \subseteq r.left
  /\ \A k \in Jobs : s.found[k] = r.found[k] \/ (s.found[k] = reels[k] /\ k \notin s.left)
  /\ rounds' = (rounds \ {r}) \cup {s} /\ UNCHANGED <<reels, videos, listed, begun, entangled>>

LEMMA RoundGoesOn ==
  ASSUME ReelInv, NEW r, NEW s, GoesOnAs(r, s)
  PROVE  ReelInv' /\ listed' = listed
<1>1. UNCHANGED <<reels, videos, listed, begun, entangled>> /\ rounds' = (rounds \ {r}) \cup {s} /\ r \in rounds /\ s \in RoundRecord
  BY DEF GoesOnAs
<1>2. ReelShape'
  BY <1>1 DEF ReelInv, ReelShape
<1>3. \A j \in s.left : UnderWay(s.found[j])
  BY DEF GoesOnAs, ReelInv, RoundsAskForWork, RoundRecord
<1>4. RoundsAskForWork'
  BY <1>1, <1>3 DEF ReelInv, RoundsAskForWork
<1>5. ASSUME ~entangled, NEW j \in Jobs PROVE Place(listed[j]) <= Place(s.found[j])
  BY <1>1, <1>5 DEF GoesOnAs, ReelInv, RoundsGoForward, Behind
<1>6. RoundsGoForward'
  BY <1>1, <1>5 DEF ReelInv, RoundsGoForward
<1>7. Behind(s.found)
  <2>1. ASSUME NEW j \in Jobs PROVE Place(reels[j]) <= Place(reels[j])
    <3>1. Place(reels[j]) \in 0..4
      BY PlaceOfPhase DEF ReelInv, ReelShape
    <3> QED
      BY <3>1
  <2> QED
    BY <1>1, <2>1 DEF GoesOnAs, ReelInv, Behind
<1>8. Behind(listed)' /\ \A q \in rounds' : Behind(q.found)'
  BY <1>1, <1>7 DEF ReelInv, Behind
<1> QED
  BY <1>1, <1>2, <1>4, <1>6, <1>8 DEF ReelInv

LEMMA StatusIsAsked ==
  ASSUME ReelInv, NEW r \in rounds, NEW j \in Jobs, AskStatus(r, j) \/ AskFails(r, j)
  PROVE  ReelInv' /\ listed' = listed
<1>1. r \in RoundRecord /\ r.found \in [Jobs -> Phases] /\ reels[j] \in Phases /\ reels \in [Jobs -> Phases]
  BY DEF ReelInv, ReelShape, RoundRecord
<1>2. CASE AskStatus(r, j)
  <2> DEFINE s == [r EXCEPT !.found[j] = reels[j], !.changed = @ \/ reels[j] # r.found[j], !.left = @ \ {j}]
  <2>1. s.found = [r.found EXCEPT ![j] = reels[j]] /\ s.left = r.left \ {j}
    BY <1>1 DEF RoundRecord
  <2>3. s \in RoundRecord
    <3>1. [r.found EXCEPT ![j] = reels[j]] \in [Jobs -> Phases]
      BY <1>1
    <3>2. r.changed \in BOOLEAN /\ r.left \ {j} \in SUBSET Jobs
      BY <1>1 DEF RoundRecord
    <3>3. PICK c \in BOOLEAN : c <=> (r.changed \/ reels[j] # r.found[j])
      OBVIOUS
    <3>4. [r EXCEPT !.found = [r.found EXCEPT ![j] = reels[j]], !.changed = c, !.left = r.left \ {j}] \in RoundRecord
      BY <1>1, <3>1, <3>2, <3>3 DEF RoundRecord
    <3>5. s = [r EXCEPT !.found = [r.found EXCEPT ![j] = reels[j]], !.changed = c, !.left = r.left \ {j}]
      BY <1>1, <3>2, <3>3 DEF RoundRecord
    <3> QED
      BY <3>4, <3>5
  <2>4. s.left \subseteq r.left /\ j \notin s.left
    BY <2>1
  <2>5. ASSUME NEW k \in Jobs PROVE s.found[k] = r.found[k] \/ (s.found[k] = reels[k] /\ k \notin s.left)
    BY <1>1, <2>1, <2>4
  <2>6. rounds' = (rounds \ {r}) \cup {s} /\ UNCHANGED <<reels, videos, listed, begun, entangled>>
    BY <1>2 DEF AskStatus
  <2> HIDE DEF s
  <2> QED
    BY <2>3, <2>4, <2>5, <2>6, RoundGoesOn DEF GoesOnAs
<1>3. CASE AskFails(r, j)
  <2> DEFINE s == [r EXCEPT !.left = @ \ {j}]
  <2>1. s \in RoundRecord /\ s.left \subseteq r.left /\ s.found = r.found
    BY <1>1 DEF RoundRecord
  <2>2. rounds' = (rounds \ {r}) \cup {s} /\ UNCHANGED <<reels, videos, listed, begun, entangled>>
    BY <1>3 DEF AskFails
  <2> HIDE DEF s
  <2> QED
    BY <2>1, <2>2, RoundGoesOn DEF GoesOnAs
<1> QED
  BY <1>2, <1>3

LEMMA RoundEnds ==
  ASSUME ReelInv, NEW r \in rounds, EndRound(r)
  PROVE  ReelInv' /\ ShowsOn
<1>1. /\ rounds' = rounds \ {r} /\ listed' = (IF r.changed THEN r.found ELSE listed)
      /\ UNCHANGED <<reels, videos, begun, entangled>>
  BY DEF EndRound
<1>2. listed' = r.found \/ listed' = listed
  BY <1>1
<1>3. r.found \in [Jobs -> Phases] /\ Behind(r.found)
  BY DEF ReelInv, ReelShape, RoundRecord
<1>4. listed' \in [Jobs -> Phases] /\ Behind(listed)'
  BY <1>1, <1>2, <1>3 DEF ReelInv, ReelShape, Behind
<1>5. ReelShape' /\ RoundsAskForWork'
  BY <1>1, <1>4 DEF ReelInv, ReelShape, RoundsAskForWork
<1>6. ~entangled => rounds' = {}
  BY <1>1 DEF ReelInv, RoundsGoForward
<1>7. RoundsGoForward'
  BY <1>1, <1>6 DEF RoundsGoForward
<1>8. ASSUME NEW j \in Jobs, ~entangled' PROVE Place(listed[j]) <= Place(listed'[j])
  <2>1. Place(listed[j]) \in 0..4
    BY PlaceOfPhase DEF ReelInv, ReelShape
  <2> QED
    BY <1>1, <1>2, <1>8, <2>1 DEF ReelInv, RoundsGoForward
<1>9. \A q \in rounds' : Behind(q.found)'
  BY <1>1 DEF ReelInv, Behind
<1> QED
  BY <1>1, <1>4, <1>5, <1>7, <1>8, <1>9 DEF ReelInv, ShowsOn

-----------------------------------------------------------------------------
(* The invariant. *)

LEMMA ReelsBegin ==
  ASSUME ReelAssumption, ReelInit
  PROVE  ReelInv
<1>1. "none" \in Phases /\ Place("none") = 0
  BY PlaceOfPhase DEF Phases
<1>2. /\ reels = [j \in Jobs |-> "none"] /\ listed = [j \in Jobs |-> "none"] /\ rounds = {}
      /\ videos = {} /\ begun = 0 /\ entangled = FALSE
  BY DEF ReelInit
<1>3. reels \in [Jobs -> Phases] /\ listed \in [Jobs -> Phases] /\ \A j \in Jobs : reels[j] = "none" /\ listed[j] = "none"
  <2> DEFINE none == [j \in Jobs |-> "none"]
  <2>1. none \in [Jobs -> Phases] /\ \A j \in Jobs : none[j] = "none"
    BY <1>1
  <2>2. reels = none /\ listed = none
    BY <1>2
  <2> HIDE DEF none
  <2> QED
    BY <2>1, <2>2
<1>4. ReelShape
  <2>1. rounds = {} /\ videos = {} /\ begun = 0 /\ entangled = FALSE /\ MaxRounds \in Nat
    BY <1>2 DEF ReelAssumption
  <2>2. begun \in 0..MaxRounds
    BY <2>1
  <2>3. rounds \subseteq RoundRecord /\ videos \subseteq Jobs
    BY <2>1
  <2>4. entangled \in BOOLEAN
    BY <2>1
  <2> QED
    BY <1>3, <2>2, <2>3, <2>4 DEF ReelShape
<1>5. RoundsAskForWork /\ RoundsGoForward
  BY <1>2 DEF RoundsAskForWork, RoundsGoForward
<1> QED
  BY <1>1, <1>2, <1>3, <1>4, <1>5 DEF ReelInv, Behind

LEMMA ReelsGoOn ==
  ASSUME ReelAssumption, ReelInv, ReelNext
  PROVE  ReelInv' /\ ShowsOn
<1>1. ASSUME ReelInv', listed' = listed PROVE ShowsOn
  <2>1. ASSUME NEW j \in Jobs PROVE Place(listed[j]) \in 0..4
    BY PlaceOfPhase DEF ReelInv, ReelShape
  <2> QED
    BY <1>1, <2>1 DEF ShowsOn
<1>2. CASE ForgetReels \/ \E j \in Jobs : StartReel(j) \/ Narrate(j) \/ Bundle(j) \/ FinishRender(j) \/ RenderFails(j)
  BY <1>1, <1>2, JobsStep, JobsKeep
<1>3. CASE LoadJobs
  BY <1>3, ListIsLoaded
<1>4. CASE BeginRound
  BY <1>1, <1>4, RoundBegins
<1>5. CASE \E r \in rounds : EndRound(r) \/ \E j \in Jobs : AskStatus(r, j) \/ AskFails(r, j)
  BY <1>1, <1>5, RoundEnds, StatusIsAsked
<1> QED
  BY <1>2, <1>3, <1>4, <1>5 DEF ReelNext

LEMMA ReelsHold ==
  ASSUME ReelAssumption
  PROVE  ReelSpec => []ReelInv
<1>1. ReelInit => ReelInv
  BY ReelsBegin
<1>2. ReelInv /\ [ReelNext]_reelVars => ReelInv'
  <2>1. ASSUME ReelInv, UNCHANGED reelVars PROVE ReelInv'
    BY <2>1 DEF reelVars, ReelInv, ReelShape, RoundsAskForWork, RoundsGoForward, Behind
  <2> QED
    BY <2>1, ReelsGoOn
<1> QED
  BY <1>1, <1>2, PTL DEF ReelSpec

\* A job the page shows as done has its file, and the page never runs ahead of the
\* job, whatever rounds of questions, loads of the list and restarts overlap.
THEOREM ReelsAreTrue ==
  ASSUME ReelAssumption
  PROVE  ReelSpec => [](ReelTypeOK /\ ShownJobIsTrue)
<1>1. ReelInv => ReelTypeOK /\ ShownJobIsTrue
  <2>1. ASSUME ReelInv, NEW r \in rounds PROVE r.left \subseteq {j \in Jobs : UnderWay(r.found[j])}
    BY <2>1 DEF ReelInv, ReelShape, RoundRecord, RoundsAskForWork
  <2>2. ASSUME ReelInv, NEW j \in Jobs PROVE Place(reels[j]) \in 0..4 /\ Place(listed[j]) \in 0..4
    BY <2>2, PlaceOfPhase DEF ReelInv, ReelShape
  <2> QED
    BY <2>1, <2>2 DEF ReelInv, ReelShape, ReelTypeOK, ShownJobIsTrue, Behind
<1> QED
  BY <1>1, ReelsHold, PTL

\* Nor does a job fall behind what the page showed of it, as long as no two rounds,
\* and no round and load, overlapped.
THEOREM ReelsGoForward ==
  ASSUME ReelAssumption
  PROVE  ReelSpec => ShownGoesForward
<1>1. ReelInv /\ [ReelNext]_reelVars => [ShowsOn]_reelVars
  BY ReelsGoOn
<1>2. [ShowsOn]_reelVars => [\A j \in Jobs : ~entangled' /\ listed'[j] # "none" => Place(listed[j]) <= Place(listed'[j])]_reelVars
  BY DEF ShowsOn
<1> QED
  BY <1>1, <1>2, ReelsHold, PTL DEF ReelSpec, ShownGoesForward

-----------------------------------------------------------------------------
(* The pages of the dashboard *)

PageSpec == PageInit /\ [][PageNext]_pageVars

RowRecord == [text : Nat, flag : BOOLEAN, turns : Nat]
LoadRecord == [step : {"none", "sent", "read"}, filter : {1, 2}, row : RowRecord]
WriteRecord == [kind : {"none", "save", "late", "now", "patch"}, step : {"none", "sent", "done"},
                filter : {1, 2}, row : RowRecord, flagged : BOOLEAN, edited : BOOLEAN]
FormRecord == [open : BOOLEAN, row : RowRecord, edited : BOOLEAN]
Slots == 1..MaxRequests

(* What the proofs use of a page: what follows a saved form, and that a form    *)
(* that writes what differs is always open, on a page that changes no row.      *)
PageFits(p) ==
  /\ p.saved \in {"load", "patch"} /\ p.inline \in BOOLEAN
  /\ p.form = "diff" => p.inline /\ p.saved = "load" /\ p.buttons \subseteq {"late"}

LEMMA ListsFit ==
  ASSUME NEW f, f # "diff", NEW b, NEW h
  PROVE  /\ PageFits(List(f, b)) /\ PageFits(Filtered(List(f, b)))
         /\ PageFits([List(f, b) EXCEPT !.hides = h]) /\ PageFits([Filtered(List(f, b)) EXCEPT !.hides = h])
         /\ PageFits([Filtered(List(f, b)) EXCEPT !.saved = "patch"])
         /\ PageFits([List(f, b) EXCEPT !.polls = TRUE, !.hides = h])
<1>1. PageFits(List(f, b))
  BY DEF PageFits, List
<1>2. PageFits(Filtered(List(f, b)))
  BY DEF PageFits, List, Filtered
<1>3. PageFits([List(f, b) EXCEPT !.hides = h])
  BY DEF PageFits, List
<1>4. PageFits([Filtered(List(f, b)) EXCEPT !.hides = h])
  BY DEF PageFits, List, Filtered
<1>5. PageFits([Filtered(List(f, b)) EXCEPT !.saved = "patch"])
  BY DEF PageFits, List, Filtered
<1>6. PageFits([List(f, b) EXCEPT !.polls = TRUE, !.hides = h])
  BY DEF PageFits, List
<1> QED
  BY <1>1, <1>2, <1>3, <1>4, <1>5, <1>6

LEMMA InlinesFit ==
  ASSUME NEW f, NEW b, NEW h
  PROVE  /\ f # "diff" \/ b \subseteq {"late"} => PageFits(Inline(f, b, h))
         /\ f # "diff" => PageFits([Inline(f, b, h) EXCEPT !.saved = "patch"])
<1>1. Inline(f, b, h).saved = "load" /\ Inline(f, b, h).inline = TRUE
      /\ Inline(f, b, h).form = f /\ Inline(f, b, h).buttons = b
  BY DEF Inline, List
<1>2. f # "diff" => PageFits([Inline(f, b, h) EXCEPT !.saved = "patch"])
  BY DEF PageFits, Inline, List
<1> QED
  BY <1>1, <1>2 DEF PageFits

LEMMA PagesFit == \A p \in Pages : PageFits(p)
<1>1. /\ PageFits(LeadsPage) /\ PageFits(MessagesPage) /\ PageFits(VisitsPage) /\ PageFits(QueuedActionsPage)
      /\ PageFits(TemplatesPage) /\ PageFits(RulesPage) /\ PageFits(PropertiesPage) /\ PageFits(LeadSourcesPage)
      /\ PageFits(SettingsPage) /\ PageFits(CommissionsList) /\ PageFits(ReportsPage)
  BY ListsFit DEF LeadsPage, MessagesPage, VisitsPage, QueuedActionsPage, TemplatesPage, RulesPage, PropertiesPage,
    LeadSourcesPage, SettingsPage, CommissionsList, ReportsPage
<1>2. /\ PageFits(TagsPage) /\ PageFits(StagesPage) /\ PageFits(FollowUpsPage) /\ PageFits(CustomFieldsPage)
      /\ PageFits(CommissionRulesTab)
  BY ListsFit DEF TagsPage, StagesPage, FollowUpsPage, CustomFieldsPage, CommissionRulesTab
<1>3. /\ PageFits(PipelinePage) /\ PageFits(MercadoLibrePage) /\ PageFits(PreferencesPanel)
      /\ PageFits(AgentPerformancePage) /\ PageFits(QueuedMessageModal)
  BY ListsFit DEF PipelinePage, MercadoLibrePage, PreferencesPanel, AgentPerformancePage, QueuedMessageModal
<1>4. PageFits(ConversationPage) /\ PageFits(DashboardLayout)
  BY ListsFit DEF ConversationPage, DashboardLayout
<1>5. PageFits(AiAgentPage) /\ PageFits(AvailabilityPage) /\ PageFits(ProfilePage) /\ PageFits(LeadDetailPage)
  BY InlinesFit DEF AiAgentPage, AvailabilityPage, ProfilePage, LeadDetailPage
<1> QED
  BY <1>1, <1>2, <1>3, <1>4, <1>5 DEF Pages
-----------------------------------------------------------------------------
(* The invariant *)

NoLoads == \A m \in Slots : loads[m].step = "none"
NoWrites == \A m \in Slots : writes[m].kind = "none"
(* A load made alone will show what the API has; a write made alone finds and   *)
(* leaves the page showing it, but for the change it makes.                     *)
LoadFits(n) == loads[n].filter = filter /\ (loads[n].step = "read" => loads[n].row = server)
WriteFits(n) ==
  /\ writes[n].filter = filter /\ shown.filter = filter
  /\ writes[n].step = "sent" => shown.row = IF writes[n].kind = "now" THEN Stored(writes[n]) ELSE server
  /\ writes[n].step = "done" => server = Stored(writes[n]) /\ (writes[n].kind = "now" => shown.row = server)
OneByOne ==
  ~excused =>
    /\ NoLoads /\ NoWrites => shown.filter = filter /\ shown.row = server
    /\ \A n \in Slots : loads[n].step # "none" =>
         LoadFits(n) /\ NoWrites /\ \A m \in Slots \ {n} : loads[m].step = "none"
    /\ \A n \in Slots : writes[n].kind # "none" =>
         WriteFits(n) /\ NoLoads /\ \A m \in Slots \ {n} : writes[m].kind = "none"

(* The turns of a row tell its flag, unless its user changed it in a form. *)
Told(given) == given.flag <=> given.turns % 2 = 0
RowsAreTold ==
  /\ Told(server) /\ Told(shown.row) /\ (form.edited \/ Told(form.row))
  /\ \A n \in Slots : Told(loads[n].row)
  /\ \A n \in Slots : writes[n].kind = "save" => writes[n].edited \/ Told(writes[n].row)
(* A form that writes what differs has the row shown, until its user changes it. *)
FormsAreFilled ==
  /\ page.inline => form.open
  /\ page.form = "diff" /\ ~form.edited => form.row = shown.row
  /\ \A n \in Slots : writes[n].kind = "save" /\ writes[n].flagged /\ ~writes[n].edited => page.form = "whole"

PageTypes ==
  /\ page \in Pages /\ server \in RowRecord /\ filter \in {1, 2} /\ shown \in [filter : {1, 2}, row : RowRecord]
  /\ waiting \in BOOLEAN /\ loads \in [Slots -> LoadRecord] /\ writes \in [Slots -> WriteRecord] /\ form \in FormRecord
  /\ excused \in BOOLEAN /\ pageMoves \in Nat
  /\ \A n \in Slots : writes[n].kind \in {"none", "save"} \cup page.buttons
  /\ \A n \in Slots : writes[n].kind = "none" <=> writes[n].step = "none"
  /\ waiting => \E n \in Slots : loads[n].step # "none"

PageInv == PageTypes /\ OneByOne /\ RowsAreTold /\ FormsAreFilled

LEMMA Turning ==
  ASSUME NEW t \in Nat
  PROVE  t + 1 \in Nat /\ ((t + 1) % 2 = 0 <=> ~(t % 2 = 0))
OBVIOUS

(* What a write stores: a row whose turns tell its flag, the same if it is      *)
(* stored again, and the row that was pressed where it was the one there is.    *)
LEMMA StoredRow ==
  ASSUME PageTypes, NEW w \in WriteRecord
  PROVE  /\ Stored(w) \in RowRecord /\ (Told(server) => Told(Stored(w)))
         /\ (Stored(w).flag # server.flag => w.flagged /\ w.row.flag # server.flag)
         /\ (w.kind = "save" => Stored(w).text = w.row.text) /\ (w.kind # "save" => Stored(w).text = server.text)
         /\ (w.flagged => Stored(w).flag = w.row.flag) /\ (~w.flagged => Stored(w).flag = server.flag)
<1>1. server \in RowRecord /\ w.row \in RowRecord /\ w.flagged \in BOOLEAN
  BY DEF PageTypes, WriteRecord
<1>2. /\ Stored(w).text = (IF w.kind = "save" THEN w.row.text ELSE server.text)
      /\ Stored(w).flag = (IF w.flagged THEN w.row.flag ELSE server.flag)
      /\ Stored(w).turns = (IF w.flagged /\ w.row.flag # server.flag THEN server.turns + 1 ELSE server.turns)
      /\ Stored(w) = [text |-> Stored(w).text, flag |-> Stored(w).flag, turns |-> Stored(w).turns]
  BY DEF Stored
<1>3. /\ server.text \in Nat /\ server.flag \in BOOLEAN /\ server.turns \in Nat
      /\ w.row.text \in Nat /\ w.row.flag \in BOOLEAN
  BY <1>1 DEF RowRecord
<1>4. Stored(w).text \in Nat /\ Stored(w).flag \in BOOLEAN /\ Stored(w).turns \in Nat
  BY <1>2, <1>3
<1>5. Stored(w) \in RowRecord
  BY <1>2, <1>4 DEF RowRecord
<1>6. ASSUME Told(server) PROVE Told(Stored(w))
  <2>1. CASE w.flagged /\ w.row.flag # server.flag
    BY <1>2, <1>3, <1>6, <2>1, Turning DEF Told
  <2>2. CASE ~(w.flagged /\ w.row.flag # server.flag)
    BY <1>2, <1>3, <1>6, <2>2 DEF Told
  <2> QED
    BY <2>1, <2>2
<1> QED
  BY <1>2, <1>3, <1>5, <1>6

LEMMA StoredAgain ==
  ASSUME PageTypes, NEW w \in WriteRecord, server' = Stored(w)
  PROVE  Stored(w)' = server'
<1>1. /\ server' \in RowRecord
      /\ (w.kind = "save" => server'.text = w.row.text) /\ (w.flagged => server'.flag = w.row.flag)
  BY StoredRow
<1>2. server' = [text |-> server'.text, flag |-> server'.flag, turns |-> server'.turns]
  BY <1>1 DEF RowRecord
<1>3. Stored(w)' = [text |-> IF w.kind = "save" THEN w.row.text ELSE server'.text,
                    flag |-> IF w.flagged THEN w.row.flag ELSE server'.flag,
                    turns |-> IF w.flagged /\ w.row.flag # server'.flag THEN server'.turns + 1 ELSE server'.turns]
  BY DEF Stored
<1>4. (IF w.kind = "save" THEN w.row.text ELSE server'.text) = server'.text
  BY <1>1
<1>5. (IF w.flagged THEN w.row.flag ELSE server'.flag) = server'.flag
  BY <1>1
<1>6. (IF w.flagged /\ w.row.flag # server'.flag THEN server'.turns + 1 ELSE server'.turns) = server'.turns
  BY <1>1
<1> QED
  BY <1>2, <1>3, <1>4, <1>5, <1>6

Pressed(given) == [given EXCEPT !.flag = ~@, !.turns = @ + 1]

LEMMA PressedRow ==
  ASSUME NEW given \in RowRecord
  PROVE  /\ Pressed(given) \in RowRecord /\ (Told(given) => Told(Pressed(given)))
         /\ Pressed(given).text = given.text /\ Pressed(given).turns = given.turns + 1 /\ Pressed(given).flag # given.flag
<1>1. given.text \in Nat /\ given.flag \in BOOLEAN /\ given.turns \in Nat /\ given.turns + 1 \in Nat
  BY Turning DEF RowRecord
<1>2. PICK flag \in BOOLEAN : flag = ~given.flag
  OBVIOUS
<1>3. Pressed(given) = [given EXCEPT !.flag = flag, !.turns = given.turns + 1]
  BY <1>1, <1>2 DEF Pressed, RowRecord
<1>4. /\ Pressed(given) \in RowRecord /\ Pressed(given).flag = flag
      /\ Pressed(given).text = given.text /\ Pressed(given).turns = given.turns + 1
  BY <1>1, <1>3 DEF RowRecord
<1>5. (flag <=> ~given.flag) /\ flag # given.flag
  BY <1>1, <1>2
<1> QED
  BY <1>1, <1>4, <1>5, Turning DEF Told

LEMMA PressStores ==
  ASSUME PageTypes, NEW w \in WriteRecord, w.kind # "save", w.flagged, w.row = Pressed(server)
  PROVE  Stored(w) = w.row
<1>1. server \in RowRecord /\ w.row \in RowRecord
  BY DEF PageTypes, WriteRecord
<1>2. w.row.text = server.text /\ w.row.flag # server.flag /\ w.row.turns = server.turns + 1
  BY <1>1, PressedRow
<1>3. w.row = [text |-> w.row.text, flag |-> w.row.flag, turns |-> w.row.turns]
  BY <1>1 DEF RowRecord
<1> QED
  BY <1>2, <1>3 DEF Stored

-----------------------------------------------------------------------------
(* A load that begins *)

LEMMA LoadBegins ==
  ASSUME PageTypes, writes' \in [Slots -> WriteRecord], NEW f \in {1, 2}, NEW wanted, Loads(f, wanted, writes')
  PROVE  \E n \in Slots :
           /\ loads[n].step = "none"
           /\ loads'[n].step = "sent" /\ loads'[n].filter = f /\ Told(loads'[n].row)
           /\ \A m \in Slots \ {n} : loads'[m] = loads[m]
           /\ loads' \in [Slots -> LoadRecord] /\ waiting' = TRUE
           /\ excused' \in BOOLEAN
           /\ ~excused' => /\ \A m \in Slots : loads[m].step = "none" /\ writes'[m].kind = "none"
                           /\ ~(excused /\ f # wanted)
<1>1. loads \in [Slots -> LoadRecord] /\ DOMAIN loads = Slots /\ DOMAIN writes' = Slots
  BY DEF PageTypes
<1> DEFINE new == [NoRead EXCEPT !.step = "sent", !.filter = f]
<1>2. PICK n \in Slots : loads[n].step = "none" /\ loads' = [loads EXCEPT ![n] = new]
  BY <1>1 DEF Loads, Unused
<1>3. NoRead \in LoadRecord /\ Told(NoRead.row)
  BY DEF NoRead, LoadRecord, RowRecord, Told
<1>4. new.step = "sent" /\ new.filter = f /\ new.row = NoRead.row
  BY <1>3 DEF LoadRecord
<1>5. new \in LoadRecord /\ Told(new.row)
  BY <1>3, <1>4 DEF LoadRecord
<1>6. waiting' = TRUE /\ excused' = (InFlight(loads, writes') # {} \/ (excused /\ f # wanted))
  BY DEF Loads
<1>7. InFlight(loads, writes') = {} => \A m \in Slots : loads[m].step = "none" /\ writes'[m].kind = "none"
  BY <1>1 DEF InFlight
<1>8. /\ loads' \in [Slots -> LoadRecord] /\ loads'[n] = new /\ \A m \in Slots \ {n} : loads'[m] = loads[m]
  BY <1>1, <1>2, <1>5
<1>9. excused' \in BOOLEAN
  BY <1>6
<1>10. ~excused' => InFlight(loads, writes') = {} /\ ~(excused /\ f # wanted)
  BY <1>6
<1> HIDE DEF new
<1>11. loads'[n].step = "sent" /\ loads'[n].filter = f /\ Told(loads'[n].row)
  BY <1>4, <1>5, <1>8
<1> QED
  BY <1>2, <1>6, <1>7, <1>8, <1>9, <1>10, <1>11

(* What a load that begins leaves in order, whatever it comes after. *)
LEMMA LoadInOrder ==
  ASSUME PageTypes, writes' \in [Slots -> WriteRecord], NEW f \in {1, 2}, Loads(f, filter', writes'),
         ~excused => f = filter'
  PROVE  /\ OneByOne' /\ loads' \in [Slots -> LoadRecord] /\ waiting' = TRUE /\ excused' \in BOOLEAN
         /\ \E n \in Slots : loads'[n].step # "none"
         /\ (\A n \in Slots : Told(loads[n].row)) => \A n \in Slots : Told(loads'[n].row)
<1>1. PICK n \in Slots :
        /\ loads[n].step = "none"
        /\ loads'[n].step = "sent" /\ loads'[n].filter = f /\ Told(loads'[n].row)
        /\ \A m \in Slots \ {n} : loads'[m] = loads[m]
        /\ loads' \in [Slots -> LoadRecord] /\ waiting' = TRUE /\ excused' \in BOOLEAN
        /\ ~excused' => /\ \A m \in Slots : loads[m].step = "none" /\ writes'[m].kind = "none"
                        /\ ~(excused /\ f # filter')
  BY LoadBegins
<1>2. ASSUME ~excused' PROVE /\ f = filter' /\ ~NoLoads' /\ NoWrites' /\ LoadFits(n)'
                             /\ \A m \in Slots \ {n} : loads'[m].step = "none"
  BY <1>1, <1>2 DEF NoLoads, NoWrites, LoadFits
<1>3. OneByOne'
  BY <1>1, <1>2 DEF OneByOne, NoLoads, NoWrites, Slots
<1> QED
  BY <1>1, <1>3

-----------------------------------------------------------------------------
(* Loads: each step keeps the invariant. *)

LEMMA FilterChanges ==
  ASSUME PageInv, NEW f \in {1, 2}, SetFilter(f)
  PROVE  PageInv'
<1>1. /\ filter' = f /\ Loads(f, filter', writes') /\ UNCHANGED <<page, server, shown, writes, form>>
      /\ pageMoves' = pageMoves + 1
  BY DEF SetFilter, PageMove
<1>2. writes' \in [Slots -> WriteRecord] /\ PageTypes /\ pageMoves' \in Nat
  BY <1>1 DEF PageInv, PageTypes
<1>3. /\ OneByOne' /\ loads' \in [Slots -> LoadRecord] /\ waiting' = TRUE /\ excused' \in BOOLEAN
      /\ \E n \in Slots : loads'[n].step # "none"
      /\ (\A n \in Slots : Told(loads[n].row)) => \A n \in Slots : Told(loads'[n].row)
  BY <1>1, <1>2, LoadInOrder
<1>4. PageTypes'
  BY <1>1, <1>2, <1>3 DEF PageTypes
<1>5. RowsAreTold' /\ FormsAreFilled'
  BY <1>1, <1>3 DEF PageInv, RowsAreTold, FormsAreFilled, Told
<1> QED
  BY <1>3, <1>4, <1>5 DEF PageInv

LEMMA PagesPoll ==
  ASSUME PageInv, PollPage
  PROVE  PageInv'
<1>1. /\ Loads(filter, filter', writes') /\ UNCHANGED <<page, server, filter, shown, writes, form>>
      /\ pageMoves' = pageMoves + 1
  BY DEF PollPage, PageMove
<1>2. writes' \in [Slots -> WriteRecord] /\ PageTypes /\ pageMoves' \in Nat /\ filter \in {1, 2} /\ filter' = filter
  BY <1>1 DEF PageInv, PageTypes
<1>3. /\ OneByOne' /\ loads' \in [Slots -> LoadRecord] /\ waiting' = TRUE /\ excused' \in BOOLEAN
      /\ \E n \in Slots : loads'[n].step # "none"
      /\ (\A n \in Slots : Told(loads[n].row)) => \A n \in Slots : Told(loads'[n].row)
  BY <1>1, <1>2, LoadInOrder
<1>4. PageTypes'
  BY <1>1, <1>2, <1>3 DEF PageTypes
<1>5. RowsAreTold' /\ FormsAreFilled'
  BY <1>1, <1>3 DEF PageInv, RowsAreTold, FormsAreFilled, Told
<1> QED
  BY <1>3, <1>4, <1>5 DEF PageInv

LEMMA LoadReads ==
  ASSUME PageInv, NEW n \in Slots, Reads(n)
  PROVE  PageInv'
<1>1. /\ loads[n].step = "sent" /\ loads' = [loads EXCEPT ![n].step = "read", ![n].row = server]
      /\ UNCHANGED <<page, server, filter, shown, waiting, writes, form, excused, pageMoves>>
  BY DEF Reads, pageLimits
<1>2. PageTypes /\ loads \in [Slots -> LoadRecord] /\ server \in RowRecord
  BY DEF PageInv, PageTypes
<1>3. /\ loads' \in [Slots -> LoadRecord] /\ \A m \in Slots \ {n} : loads'[m] = loads[m]
      /\ loads'[n].step = "read" /\ loads'[n].row = server /\ loads'[n].filter = loads[n].filter
  BY <1>1, <1>2 DEF LoadRecord
<1>4. \A m \in Slots : loads'[m].step = "none" <=> loads[m].step = "none"
  BY <1>1, <1>3
<1>5. PageTypes'
  BY <1>1, <1>2, <1>3, <1>4 DEF PageTypes
<1>6. (NoLoads' <=> NoLoads) /\ (NoWrites' <=> NoWrites)
  BY <1>1, <1>4 DEF NoLoads, NoWrites
<1>7. \A m \in Slots : LoadFits(m) => LoadFits(m)'
  BY <1>1, <1>3 DEF LoadFits
<1>8. \A m \in Slots : WriteFits(m) => WriteFits(m)'
  BY <1>1 DEF WriteFits, Stored
<1>9. OneByOne'
  BY <1>1, <1>4, <1>6, <1>7, <1>8 DEF PageInv, OneByOne
<1>10. RowsAreTold' /\ FormsAreFilled'
  BY <1>1, <1>3 DEF PageInv, RowsAreTold, FormsAreFilled, Told
<1> QED
  BY <1>5, <1>9, <1>10 DEF PageInv

LEMMA LoadIsAnswered ==
  ASSUME PageInv, NEW n \in Slots, LoadArrives(n)
  PROVE  PageInv'
<1>1. /\ loads[n].step = "read" /\ loads' = [loads EXCEPT ![n] = NoRead] /\ waiting' = FALSE
      /\ shown' = [filter |-> loads[n].filter, row |-> loads[n].row]
      /\ form' = (IF page.inline THEN FormOf(loads[n].row) ELSE form)
      /\ UNCHANGED <<page, server, filter, writes, excused, pageMoves>>
  BY DEF LoadArrives, pageLimits
<1>2. PageTypes /\ loads \in [Slots -> LoadRecord] /\ loads[n] \in LoadRecord /\ page.inline \in BOOLEAN /\ PageFits(page)
  BY PagesFit DEF PageInv, PageTypes, PageFits
<1>3. NoRead \in LoadRecord /\ NoRead.step = "none" /\ Told(NoRead.row)
  BY DEF NoRead, LoadRecord, RowRecord, Told
<1>4. /\ loads' \in [Slots -> LoadRecord] /\ loads'[n] = NoRead
      /\ \A m \in Slots \ {n} : loads'[m] = loads[m]
  BY <1>1, <1>2, <1>3
<1>5. loads[n].row \in RowRecord /\ loads[n].filter \in {1, 2} /\ shown'.filter = loads[n].filter /\ shown'.row = loads[n].row
  BY <1>1, <1>2 DEF LoadRecord
<1>6. shown' \in [filter : {1, 2}, row : RowRecord]
  BY <1>1, <1>5
<1>7. /\ ~page.inline => form' = form
      /\ page.inline => form'.open /\ form'.row = loads[n].row /\ ~form'.edited /\ form' \in FormRecord
  BY <1>1, <1>2, <1>5 DEF FormOf, FormRecord
<1>8. PageTypes'
  BY <1>1, <1>2, <1>4, <1>6, <1>7 DEF PageTypes
<1>9. OneByOne'
  <2>1. ASSUME ~excused PROVE /\ loads[n].filter = filter /\ loads[n].row = server /\ NoWrites
                              /\ \A m \in Slots \ {n} : loads[m].step = "none"
    BY <1>1, <2>1 DEF PageInv, OneByOne, LoadFits
  <2>2. ASSUME ~excused PROVE NoLoads' /\ NoWrites' /\ shown'.filter = filter' /\ shown'.row = server'
    BY <1>1, <1>3, <1>4, <1>5, <2>1, <2>2 DEF NoLoads, NoWrites
  <2> QED
    BY <1>1, <2>2 DEF OneByOne, NoLoads, NoWrites
<1>10. RowsAreTold'
  <2>1. Told(loads[n].row)
    BY DEF PageInv, RowsAreTold
  <2>2. form'.edited \/ Told(form'.row)
    BY <1>7, <2>1 DEF PageInv, RowsAreTold
  <2> QED
    BY <1>1, <1>3, <1>4, <1>5, <2>1, <2>2 DEF PageInv, RowsAreTold, Told
<1>11. FormsAreFilled'
  BY <1>1, <1>2, <1>5, <1>7 DEF PageInv, FormsAreFilled, PageFits
<1> QED
  BY <1>8, <1>9, <1>10, <1>11 DEF PageInv

LEMMA LoadIsLost ==
  ASSUME PageInv, NEW n \in Slots, LoadFails(n)
  PROVE  PageInv'
<1>1. /\ loads' = [loads EXCEPT ![n] = NoRead] /\ waiting' = FALSE /\ excused' = TRUE
      /\ UNCHANGED <<page, server, filter, shown, writes, form, pageMoves>>
  BY DEF LoadFails, PageFault
<1>2. PageTypes /\ loads \in [Slots -> LoadRecord]
  BY DEF PageInv, PageTypes
<1>3. NoRead \in LoadRecord /\ NoRead.step = "none" /\ Told(NoRead.row)
  BY DEF NoRead, LoadRecord, RowRecord, Told
<1>4. /\ loads' \in [Slots -> LoadRecord] /\ loads'[n] = NoRead
      /\ \A m \in Slots \ {n} : loads'[m] = loads[m]
  BY <1>1, <1>2, <1>3
<1>5. PageTypes' /\ OneByOne'
  BY <1>1, <1>2, <1>4 DEF PageTypes, OneByOne
<1>6. RowsAreTold' /\ FormsAreFilled'
  BY <1>1, <1>3, <1>4 DEF PageInv, RowsAreTold, FormsAreFilled, Told
<1> QED
  BY <1>5, <1>6 DEF PageInv

-----------------------------------------------------------------------------
(* Forms and buttons *)

LEMMA FormOpens ==
  ASSUME PageInv, OpenForm \/ EditFlag
  PROVE  PageInv'
<1>1. UNCHANGED <<page, server, filter, shown, waiting, loads, writes, excused, pageMoves>>
  BY DEF OpenForm, EditFlag, pageLimits
<1>2. PageTypes /\ form \in FormRecord /\ shown.row \in RowRecord
  BY DEF PageInv, PageTypes
<1>3. CASE OpenForm
  <2>1. form' = FormOf(shown.row)
    BY <1>3 DEF OpenForm
  <2>2. form'.open /\ form'.row = shown.row /\ ~form'.edited /\ form' \in FormRecord
    BY <1>2, <2>1 DEF FormOf, FormRecord
  <2>3. PageTypes' /\ OneByOne'
    BY <1>1, <1>2, <2>2 DEF PageInv, PageTypes, OneByOne, NoLoads, NoWrites, LoadFits, WriteFits, Stored
  <2>4. RowsAreTold' /\ FormsAreFilled'
    BY <1>1, <2>2 DEF PageInv, RowsAreTold, FormsAreFilled, Told
  <2> QED
    BY <2>3, <2>4 DEF PageInv
<1>4. CASE EditFlag
  <2>1. form.open /\ form' = [form EXCEPT !.row.flag = ~@, !.edited = TRUE]
    BY <1>4 DEF EditFlag
  <2>2. PICK flag \in BOOLEAN : flag = ~form.row.flag
    OBVIOUS
  <2>3. form.row \in RowRecord /\ form.row.flag \in BOOLEAN
    BY <1>2 DEF FormRecord, RowRecord
  <2>4. [form.row EXCEPT !.flag = flag] \in RowRecord
    BY <2>2, <2>3 DEF RowRecord
  <2>5. form' = [form EXCEPT !.row = [form.row EXCEPT !.flag = flag], !.edited = TRUE]
    BY <1>2, <2>1, <2>2, <2>3 DEF FormRecord
  <2>6. form' \in FormRecord /\ form'.open /\ form'.edited
    BY <1>2, <2>1, <2>4, <2>5 DEF FormRecord
  <2>7. PageTypes' /\ OneByOne'
    BY <1>1, <1>2, <2>6 DEF PageInv, PageTypes, OneByOne, NoLoads, NoWrites, LoadFits, WriteFits, Stored
  <2>8. RowsAreTold' /\ FormsAreFilled'
    BY <1>1, <2>6 DEF PageInv, RowsAreTold, FormsAreFilled, Told
  <2> QED
    BY <2>7, <2>8 DEF PageInv
<1> QED
  BY <1>3, <1>4

LEMMA WriteBegins ==
  ASSUME PageInv, NEW w \in WriteRecord, w.kind # "none", w.step = "sent", w.filter = filter,
         w.kind \in {"save"} \cup page.buttons, Begin(w),
         UNCHANGED <<page, server, filter, waiting, loads, form>>, pageMoves' \in Nat,
         shown' \in [filter : {1, 2}, row : RowRecord], shown'.filter = shown.filter, Told(shown'.row),
         shown.row = server => shown'.row = IF w.kind = "now" THEN Stored(w) ELSE server,
         w.kind = "save" => w.edited \/ Told(w.row),
         w.kind = "save" /\ w.flagged /\ ~w.edited => page.form = "whole",
         page.form = "diff" => shown' = shown
  PROVE  PageInv'
<1>1. PageTypes /\ writes \in [Slots -> WriteRecord] /\ DOMAIN writes = Slots /\ DOMAIN loads = Slots /\ excused \in BOOLEAN
  BY DEF PageInv, PageTypes
<1>2. PICK n \in Slots : writes[n].kind = "none" /\ writes' = [writes EXCEPT ![n] = w]
  BY <1>1 DEF Begin, Unused
<1>3. /\ writes' \in [Slots -> WriteRecord] /\ writes'[n] = w
      /\ \A m \in Slots \ {n} : writes'[m] = writes[m]
  BY <1>1, <1>2
<1>4. excused' = (excused \/ InFlight(loads, writes) # {})
  BY DEF Begin
<1>5. excused' \in BOOLEAN /\ (~excused' => ~excused /\ InFlight(loads, writes) = {})
  BY <1>4
<1>6. ~excused' => ~excused /\ NoLoads /\ NoWrites
  BY <1>1, <1>5 DEF InFlight, NoLoads, NoWrites
<1>7. PageTypes'
  BY <1>1, <1>3, <1>5 DEF PageTypes
<1>8. OneByOne'
  <2>1. SUFFICES ASSUME ~excused' PROVE OneByOne'
    BY DEF OneByOne
  <2>2. shown.filter = filter /\ shown.row = server
    BY <1>6, <2>1 DEF PageInv, OneByOne
  <2>3. NoLoads' /\ (\A m \in Slots \ {n} : writes'[m].kind = "none") /\ ~NoWrites'
    BY <1>3, <1>6, <2>1 DEF NoLoads, NoWrites
  <2>4. Stored(w)' = Stored(w)
    BY DEF Stored
  <2>5. WriteFits(n)'
    BY <1>3, <2>2, <2>4 DEF WriteFits
  <2> QED
    BY <1>3, <2>3, <2>5 DEF OneByOne, NoLoads
<1>9. RowsAreTold' /\ FormsAreFilled'
  BY <1>3 DEF PageInv, RowsAreTold, FormsAreFilled, Told
<1> QED
  BY <1>7, <1>8, <1>9 DEF PageInv

LEMMA FormIsSaved ==
  ASSUME PageInv, Save
  PROVE  PageInv'
<1> DEFINE given == [form.row EXCEPT !.text = pageMoves']
           flagged == page.form = "whole" \/ (page.form = "diff" /\ form.row.flag # shown.row.flag)
           w == [kind |-> "save", step |-> "sent", filter |-> filter, row |-> given, flagged |-> flagged, edited |-> form.edited]
<1>1. /\ Begin(w) /\ UNCHANGED <<page, server, filter, shown, waiting, loads, form>> /\ pageMoves' = pageMoves + 1
  BY DEF Save, PageMove
<1>2. /\ PageTypes /\ form \in FormRecord /\ filter \in {1, 2} /\ pageMoves' \in Nat
      /\ shown \in [filter : {1, 2}, row : RowRecord]
  BY <1>1 DEF PageInv, PageTypes
<1>3. form.row \in RowRecord /\ form.edited \in BOOLEAN
  BY <1>2 DEF FormRecord
<1>4. given \in RowRecord /\ given.flag = form.row.flag /\ given.turns = form.row.turns
  BY <1>2, <1>3 DEF RowRecord
<1>5. flagged \in BOOLEAN /\ (flagged /\ ~form.edited => page.form = "whole")
  BY DEF PageInv, FormsAreFilled
<1> HIDE DEF given, flagged
<1>6. w \in WriteRecord /\ w.kind = "save" /\ w.step = "sent" /\ w.filter = filter /\ w.row = given
      /\ w.flagged = flagged /\ w.edited = form.edited
  BY <1>2, <1>3, <1>4, <1>5 DEF WriteRecord
<1> HIDE DEF w
<1>7. Told(shown.row) /\ (w.edited \/ Told(w.row))
  BY <1>4, <1>6 DEF PageInv, RowsAreTold, Told
<1> QED
  BY <1>1, <1>2, <1>5, <1>6, <1>7, WriteBegins

LEMMA ButtonIsPressed ==
  ASSUME PageInv, NEW kind \in {"late", "now", "patch"}, Press(kind)
  PROVE  PageInv'
<1> DEFINE w == [NoWrite EXCEPT !.kind = kind, !.step = "sent", !.filter = filter, !.row = Pressed(shown.row), !.flagged = TRUE]
<1>1. /\ Begin(w) /\ UNCHANGED <<page, server, filter, waiting, loads, form>> /\ pageMoves' = pageMoves + 1
      /\ shown' = (IF kind = "now" THEN [shown EXCEPT !.row = Pressed(shown.row)] ELSE shown) /\ kind \in page.buttons
  BY DEF Press, PageMove, Pressed
<1>2. /\ PageTypes /\ filter \in {1, 2} /\ pageMoves' \in Nat
      /\ shown \in [filter : {1, 2}, row : RowRecord] /\ PageFits(page) /\ server \in RowRecord
  BY <1>1, PagesFit DEF PageInv, PageTypes
<1>3. Pressed(shown.row) \in RowRecord /\ Told(shown.row) /\ Told(Pressed(shown.row))
  BY <1>2, PressedRow DEF PageInv, RowsAreTold
<1>4. NoWrite \in WriteRecord
  BY DEF NoWrite, NoRead, WriteRecord, RowRecord
<1>5. w \in WriteRecord /\ w.kind = kind /\ w.step = "sent" /\ w.filter = filter /\ w.row = Pressed(shown.row) /\ w.flagged
  BY <1>2, <1>3, <1>4 DEF WriteRecord
<1> HIDE DEF w
<1>6. ASSUME shown.row = server PROVE Stored(w) = Pressed(shown.row)
  BY <1>2, <1>5, <1>6, PressStores
<1>7. /\ shown' \in [filter : {1, 2}, row : RowRecord] /\ shown'.filter = shown.filter
      /\ shown'.row = (IF kind = "now" THEN Pressed(shown.row) ELSE shown.row)
  <2>1. CASE kind = "now"
    BY <1>1, <1>2, <1>3, <2>1
  <2>2. CASE kind # "now"
    BY <1>1, <1>2, <2>2
  <2> QED
    BY <2>1, <2>2
<1>8. Told(shown'.row) /\ (shown.row = server => shown'.row = IF w.kind = "now" THEN Stored(w) ELSE server)
  BY <1>3, <1>5, <1>6, <1>7
<1>9. page.form = "diff" => kind = "late" /\ shown' = shown
  BY <1>1, <1>2 DEF PageFits
<1> QED
  BY <1>1, <1>2, <1>5, <1>7, <1>8, <1>9, WriteBegins

-----------------------------------------------------------------------------
(* Writes: stored, answered, lost; and those of others. *)

LEMMA WriteApplies ==
  ASSUME PageInv, NEW n \in Slots, Applies(n)
  PROVE  PageInv'
<1>1. /\ writes[n].step = "sent" /\ server' = Stored(writes[n]) /\ writes' = [writes EXCEPT ![n].step = "done"]
      /\ UNCHANGED <<page, filter, shown, waiting, loads, form, excused, pageMoves>>
  BY DEF Applies, pageLimits
<1>2. PageTypes /\ writes \in [Slots -> WriteRecord] /\ writes[n] \in WriteRecord /\ writes[n].kind # "none"
  BY <1>1 DEF PageInv, PageTypes
<1>3. /\ writes' \in [Slots -> WriteRecord] /\ writes'[n].step = "done" /\ writes'[n].kind = writes[n].kind
      /\ writes'[n].filter = writes[n].filter /\ writes'[n].row = writes[n].row
      /\ writes'[n].flagged = writes[n].flagged /\ writes'[n].edited = writes[n].edited
      /\ \A m \in Slots \ {n} : writes'[m] = writes[m]
  BY <1>1, <1>2 DEF WriteRecord
<1>4. server' \in RowRecord /\ Told(server')
  BY <1>1, <1>2, StoredRow DEF PageInv, RowsAreTold
<1>5. PageTypes'
  BY <1>1, <1>2, <1>3, <1>4 DEF PageTypes
<1>6. OneByOne'
  <2>1. SUFFICES ASSUME ~excused PROVE OneByOne'
    BY <1>1 DEF OneByOne
  <2>2. WriteFits(n) /\ NoLoads /\ \A m \in Slots \ {n} : writes[m].kind = "none"
    BY <1>2, <2>1 DEF PageInv, OneByOne
  <2>3. Stored(writes[n])' = server'
    <3>1. PICK w \in WriteRecord : w = writes[n]
      BY <1>2
    <3>2. Stored(w)' = server'
      BY <1>1, <1>2, <3>1, StoredAgain
    <3> QED
      BY <1>3, <3>1, <3>2 DEF Stored
  <2>4. WriteFits(n)'
    BY <1>1, <1>3, <2>2, <2>3 DEF WriteFits
  <2>5. NoLoads' /\ ~NoWrites' /\ \A m \in Slots \ {n} : writes'[m].kind = "none"
    BY <1>1, <1>2, <1>3, <2>2 DEF NoLoads, NoWrites
  <2> QED
    BY <2>4, <2>5 DEF OneByOne, NoLoads
<1>7. RowsAreTold' /\ FormsAreFilled'
  BY <1>1, <1>3, <1>4 DEF PageInv, RowsAreTold, FormsAreFilled, Told
<1> QED
  BY <1>5, <1>6, <1>7 DEF PageInv

(* What a page begins with. *)
LEMMA BlankRow ==
  NoRead \in LoadRecord /\ NoRead.row \in RowRecord /\ Told(NoRead.row) /\ NoRead.step = "none" /\ NoRead.filter = 1
<1>1. /\ NoRead.row = [text |-> 0, flag |-> TRUE, turns |-> 0] /\ NoRead.step = "none" /\ NoRead.filter = 1
      /\ NoRead = [step |-> "none", filter |-> 1, row |-> NoRead.row]
  BY DEF NoRead
<1>2. NoRead.row \in RowRecord /\ NoRead.row.flag = TRUE /\ NoRead.row.turns = 0
  BY <1>1 DEF RowRecord
<1>3. Told(NoRead.row)
  BY <1>2 DEF Told
<1>4. NoRead \in LoadRecord
  BY <1>1, <1>2 DEF LoadRecord
<1> QED
  BY <1>1, <1>2, <1>3, <1>4

LEMMA FilledForm ==
  ASSUME NEW given \in RowRecord
  PROVE  /\ FormOf(given) \in FormRecord /\ FormOf(given).row = given /\ FormOf(given).open = TRUE
         /\ FormOf(given).edited = FALSE
BY DEF FormOf, FormRecord

LEMMA ClosedForm ==
  Closed \in FormRecord /\ Closed.row = NoRead.row /\ Told(Closed.row) /\ ~Closed.edited
<1>1. PICK given \in RowRecord : given = NoRead.row
  BY BlankRow
<1>2. /\ Closed = [FormOf(given) EXCEPT !.open = FALSE]
      /\ FormOf(given) \in FormRecord /\ FormOf(given).row = given /\ FormOf(given).edited = FALSE
  BY <1>1, FilledForm DEF Closed
<1>3. Closed \in FormRecord /\ Closed.row = given /\ Closed.edited = FALSE
  BY <1>2 DEF FormRecord
<1> QED
  BY <1>1, <1>3, BlankRow

(* What a write that ends leaves. *)
LEMMA WriteEnds ==
  ASSUME PageInv, NEW n \in Slots, writes' = Kept(n)
  PROVE  /\ writes' \in [Slots -> WriteRecord] /\ writes'[n] = NoWrite
         /\ NoWrite.kind = "none" /\ NoWrite.step = "none"
         /\ \A m \in Slots \ {n} : writes'[m] = writes[m]
         /\ ~excused /\ writes[n].kind # "none" => NoLoads /\ NoWrites'
<1>1. writes \in [Slots -> WriteRecord]
  BY DEF PageInv, PageTypes
<1>2. NoWrite \in WriteRecord /\ NoWrite.kind = "none" /\ NoWrite.step = "none"
  BY DEF NoWrite, NoRead, WriteRecord, RowRecord
<1>3. writes' \in [Slots -> WriteRecord] /\ writes'[n] = NoWrite /\ \A m \in Slots \ {n} : writes'[m] = writes[m]
  BY <1>1, <1>2 DEF Kept
<1>4. ~excused /\ writes[n].kind # "none" => NoLoads /\ NoWrites'
  BY <1>2, <1>3 DEF PageInv, OneByOne, NoWrites
<1> QED
  BY <1>2, <1>3, <1>4

LEMMA WriteIsAnswered ==
  ASSUME PageInv, NEW n \in Slots, Answered200(n)
  PROVE  PageInv'
<1> DEFINE w == writes[n]  then == Follows(w)
<1>1. /\ w.step = "done" /\ writes' = Kept(n)
      /\ form' = (IF w.kind = "save" /\ ~page.inline THEN Closed ELSE form)
      /\ UNCHANGED <<page, server, filter, pageMoves>>
  BY DEF Answered200, pageLimits
<1>2. /\ then = "load" => Loads(w.filter, filter, writes') /\ UNCHANGED shown
      /\ then # "load" => /\ excused' = (excused \/ InFlight(loads, writes') # {}) /\ UNCHANGED <<loads, waiting>>
                          /\ shown' = IF then = "patch" THEN [shown EXCEPT !.row = Stored(w)] ELSE shown
  BY <1>1 DEF Answered200
<1>3. /\ PageTypes /\ w \in WriteRecord /\ w.filter \in {1, 2} /\ w.kind # "none" /\ PageFits(page) /\ filter \in {1, 2}
      /\ w.kind \in {"save", "late", "now", "patch"} /\ w.kind \in {"save"} \cup page.buttons
      /\ shown \in [filter : {1, 2}, row : RowRecord] /\ form \in FormRecord /\ loads \in [Slots -> LoadRecord] /\ excused \in BOOLEAN
  BY <1>1, PagesFit DEF PageInv, PageTypes, WriteRecord
<1>4. /\ writes' \in [Slots -> WriteRecord] /\ writes'[n].kind = "none" /\ writes'[n].step = "none"
      /\ \A m \in Slots \ {n} : writes'[m] = writes[m]
      /\ ~excused => NoLoads /\ NoWrites'
  BY <1>1, <1>3, WriteEnds
<1>5. ~excused => /\ w.filter = filter /\ shown.filter = filter /\ server = Stored(w)
                  /\ (w.kind = "now" => shown.row = server)
  BY <1>1, <1>3 DEF PageInv, OneByOne, WriteFits
<1>6. /\ w.kind = "save" => then = page.saved
      /\ w.kind = "late" => then = "load"
      /\ w.kind = "patch" => then = "patch"
      /\ w.kind = "now" => then = "none"
  BY DEF Follows
<1>7. then = "none" => w.kind = "now"
  BY <1>3, <1>6 DEF PageFits
<1>8. page.form = "diff" => then = "load" /\ page.inline
  BY <1>3, <1>6 DEF PageFits
<1>9. /\ form' \in FormRecord /\ (page.inline => form' = form) /\ (form'.edited \/ Told(form'.row))
  BY <1>1, <1>3, ClosedForm DEF PageInv, RowsAreTold
<1>10. Stored(w) \in RowRecord /\ Told(Stored(w))
  BY <1>3, StoredRow DEF PageInv, RowsAreTold
<1> HIDE DEF w, then
<1>11. \A m \in Slots : writes'[m].kind # "none" => writes'[m] = writes[m]
  BY <1>4
<1>12. CASE then = "load"
  <2>1. Loads(w.filter, filter', writes') /\ UNCHANGED shown /\ filter' = filter
    BY <1>1, <1>2, <1>12
  <2>2. /\ OneByOne' /\ loads' \in [Slots -> LoadRecord] /\ waiting' = TRUE /\ excused' \in BOOLEAN
        /\ \E m \in Slots : loads'[m].step # "none"
        /\ (\A m \in Slots : Told(loads[m].row)) => \A m \in Slots : Told(loads'[m].row)
    BY <1>1, <1>3, <1>4, <1>5, <2>1, LoadInOrder
  <2>3. PageTypes'
    BY <1>1, <1>3, <1>4, <1>9, <2>1, <2>2 DEF PageTypes
  <2>4. RowsAreTold'
    BY <1>1, <1>9, <1>11, <2>1, <2>2 DEF PageInv, RowsAreTold, Told
  <2>5. FormsAreFilled'
    BY <1>1, <1>8, <1>9, <1>11, <2>1 DEF PageInv, FormsAreFilled
  <2> QED
    BY <2>2, <2>3, <2>4, <2>5 DEF PageInv
<1>13. CASE then # "load"
  <2>1. /\ excused' = (excused \/ InFlight(loads, writes') # {}) /\ loads' = loads /\ waiting' = waiting
        /\ shown' = IF then = "patch" THEN [shown EXCEPT !.row = Stored(w)] ELSE shown
    BY <1>2, <1>13
  <2>2. /\ shown' \in [filter : {1, 2}, row : RowRecord] /\ shown'.filter = shown.filter
        /\ shown'.row = IF then = "patch" THEN Stored(w) ELSE shown.row
    BY <1>3, <1>10, <2>1
  <2>3. excused' \in BOOLEAN /\ (~excused' => ~excused)
    BY <1>3, <2>1
  <2>4. PageTypes'
    BY <1>1, <1>3, <1>4, <1>9, <2>1, <2>2, <2>3 DEF PageTypes
  <2>5. OneByOne'
    <3>1. ASSUME ~excused' PROVE NoLoads' /\ NoWrites' /\ shown'.filter = filter' /\ shown'.row = server'
      <4>1. NoLoads' /\ NoWrites'
        BY <1>4, <2>1, <2>3, <3>1 DEF NoLoads
      <4>2. then = "patch" \/ w.kind = "now"
        BY <1>3, <1>6, <1>7, <1>13 DEF PageFits
      <4> QED
        BY <1>1, <1>5, <1>6, <2>2, <2>3, <3>1, <4>1, <4>2
    <3> QED
      BY <3>1 DEF OneByOne, NoLoads, NoWrites
  <2>6. RowsAreTold'
    BY <1>1, <1>9, <1>10, <1>11, <2>1, <2>2 DEF PageInv, RowsAreTold, Told
  <2>7. FormsAreFilled'
    BY <1>1, <1>8, <1>9, <1>11, <1>13 DEF PageInv, FormsAreFilled
  <2> QED
    BY <2>4, <2>5, <2>6, <2>7 DEF PageInv
<1> QED
  BY <1>12, <1>13

LEMMA WriteIsLost ==
  ASSUME PageInv, NEW n \in Slots, WriteFails(n)
  PROVE  PageInv'
<1> DEFINE w == writes[n]
<1>1. /\ w.kind # "none" /\ writes' = Kept(n)
      /\ UNCHANGED <<page, server, filter, shown, form, pageMoves>>
  BY DEF WriteFails, PageFault
<1>2. /\ w.kind = "now" => Loads(w.filter, filter, writes')
      /\ w.kind # "now" => excused' = (excused \/ w.step = "done") /\ UNCHANGED <<loads, waiting>>
  BY <1>1 DEF WriteFails
<1>3. /\ PageTypes /\ w \in WriteRecord /\ w.filter \in {1, 2} /\ w.step \in {"sent", "done"}
      /\ loads \in [Slots -> LoadRecord] /\ excused \in BOOLEAN
  BY <1>1 DEF PageInv, PageTypes, WriteRecord
<1>4. /\ writes' \in [Slots -> WriteRecord] /\ writes'[n].kind = "none" /\ writes'[n].step = "none"
      /\ \A m \in Slots \ {n} : writes'[m] = writes[m]
      /\ ~excused => NoLoads /\ NoWrites'
  BY <1>1, <1>3, WriteEnds
<1>5. ~excused => /\ w.filter = filter /\ shown.filter = filter
                  /\ (w.step = "sent" /\ w.kind # "now" => shown.row = server)
  BY <1>1, <1>3 DEF PageInv, OneByOne, WriteFits
<1> HIDE DEF w
<1>6. \A m \in Slots : writes'[m].kind # "none" => writes'[m] = writes[m]
  BY <1>4
<1>7. FormsAreFilled'
  BY <1>1, <1>6 DEF PageInv, FormsAreFilled
<1>8. CASE w.kind = "now"
  <2>1. Loads(w.filter, filter', writes') /\ filter' = filter
    BY <1>1, <1>2, <1>8
  <2>2. /\ OneByOne' /\ loads' \in [Slots -> LoadRecord] /\ waiting' = TRUE /\ excused' \in BOOLEAN
        /\ \E m \in Slots : loads'[m].step # "none"
        /\ (\A m \in Slots : Told(loads[m].row)) => \A m \in Slots : Told(loads'[m].row)
    BY <1>1, <1>3, <1>4, <1>5, <2>1, LoadInOrder
  <2>3. PageTypes'
    BY <1>1, <1>3, <1>4, <2>2 DEF PageTypes
  <2>4. RowsAreTold'
    BY <1>1, <1>6, <2>2 DEF PageInv, RowsAreTold, Told
  <2> QED
    BY <1>7, <2>2, <2>3, <2>4 DEF PageInv
<1>9. CASE w.kind # "now"
  <2>1. excused' = (excused \/ w.step = "done") /\ loads' = loads /\ waiting' = waiting
    BY <1>2, <1>9
  <2>2. excused' \in BOOLEAN /\ (~excused' => ~excused /\ w.step = "sent")
    BY <1>3, <2>1
  <2>3. PageTypes'
    BY <1>1, <1>3, <1>4, <2>1, <2>2 DEF PageTypes
  <2>4. OneByOne'
    <3>1. ASSUME ~excused' PROVE NoLoads' /\ NoWrites' /\ shown'.filter = filter' /\ shown'.row = server'
      BY <1>1, <1>4, <1>5, <1>9, <2>1, <2>2, <3>1 DEF NoLoads
    <3> QED
      BY <3>1 DEF OneByOne, NoLoads, NoWrites
  <2>5. RowsAreTold'
    BY <1>1, <1>6, <2>1 DEF PageInv, RowsAreTold, Told
  <2> QED
    BY <1>7, <2>3, <2>4, <2>5 DEF PageInv
<1> QED
  BY <1>8, <1>9

LEMMA OthersWrite ==
  ASSUME PageInv, NEW flag \in BOOLEAN, Foreign(flag)
  PROVE  PageInv'
<1> DEFINE turns == IF flag = server.flag THEN server.turns ELSE server.turns + 1
<1>1. /\ excused' = TRUE /\ server' = [text |-> pageMoves', flag |-> flag, turns |-> turns] /\ pageMoves' = pageMoves + 1
      /\ UNCHANGED <<page, filter, shown, waiting, loads, writes, form>>
  BY DEF Foreign, PageMove
<1>2. PageTypes /\ server \in RowRecord /\ pageMoves' \in Nat /\ Told(server)
  BY <1>1 DEF PageInv, PageTypes, RowsAreTold
<1>3. server.turns \in Nat /\ server.flag \in BOOLEAN
  BY <1>2 DEF RowRecord
<1>4. turns \in Nat /\ (flag <=> turns % 2 = 0)
  <2>1. CASE flag = server.flag
    BY <1>2, <1>3, <2>1 DEF Told
  <2>2. CASE flag # server.flag
    BY <1>2, <1>3, <2>2, Turning DEF Told
  <2> QED
    BY <2>1, <2>2
<1> HIDE DEF turns
<1>5. server' \in RowRecord /\ Told(server')
  BY <1>1, <1>2, <1>4 DEF RowRecord, Told
<1>6. PageTypes' /\ OneByOne'
  BY <1>1, <1>2, <1>5 DEF PageTypes, OneByOne
<1>7. RowsAreTold' /\ FormsAreFilled'
  BY <1>1, <1>5 DEF PageInv, RowsAreTold, FormsAreFilled, Told
<1> QED
  BY <1>6, <1>7 DEF PageInv

-----------------------------------------------------------------------------
(* From the first load on. *)

LEMMA PagesBegin ==
  ASSUME PageAssumption, PageInit
  PROVE  PageInv
<1> DEFINE first == [NoRead EXCEPT !.step = "sent"]
<1>1. MaxRequests \in Nat /\ 1 \in Slots /\ Slots \subseteq Nat
  BY DEF PageAssumption, Slots
<1>2. first \in LoadRecord /\ first.step = "sent" /\ first.filter = 1 /\ first.row = NoRead.row
  BY BlankRow DEF LoadRecord
<1>3. /\ page \in Pages /\ server = NoRead.row /\ filter = 1 /\ shown = [filter |-> 1, row |-> NoRead.row]
      /\ waiting = TRUE /\ excused = FALSE /\ pageMoves = 0
      /\ loads = [n \in Slots |-> IF n = 1 THEN first ELSE NoRead]
      /\ writes = [n \in Slots |-> NoWrite] /\ form = IF page.inline THEN FormOf(NoRead.row) ELSE Closed
  BY DEF PageInit, Slots
<1> HIDE DEF first
<1>4. NoWrite \in WriteRecord /\ NoWrite.kind = "none" /\ NoWrite.step = "none"
  BY DEF NoWrite, NoRead, WriteRecord, RowRecord
<1>5. /\ loads \in [Slots -> LoadRecord] /\ loads[1] = first
      /\ \A m \in Slots \ {1} : loads[m] = NoRead
  BY <1>1, <1>2, <1>3, BlankRow
<1>6. writes \in [Slots -> WriteRecord] /\ \A m \in Slots : writes[m].kind = "none" /\ writes[m].step = "none"
  BY <1>3, <1>4
<1>7. /\ form \in FormRecord /\ form.row = NoRead.row /\ ~form.edited
      /\ (page.inline => form.open)
  BY <1>3, BlankRow, FilledForm, ClosedForm
<1>8. shown \in [filter : {1, 2}, row : RowRecord] /\ shown.filter = 1 /\ shown.row = NoRead.row
  BY <1>3, BlankRow
<1>9. PageTypes
  BY <1>1, <1>2, <1>3, <1>5, <1>6, <1>7, <1>8, BlankRow DEF PageTypes
<1>10. OneByOne
  BY <1>1, <1>2, <1>3, <1>5, <1>6, BlankRow DEF OneByOne, NoLoads, NoWrites, LoadFits
<1>11. RowsAreTold
  <2>1. \A n \in Slots : Told(loads[n].row)
    BY <1>2, <1>5, BlankRow
  <2> QED
    BY <1>3, <1>6, <1>7, <1>8, <2>1, BlankRow DEF RowsAreTold
<1>12. FormsAreFilled
  BY <1>6, <1>7, <1>8 DEF FormsAreFilled
<1> QED
  BY <1>9, <1>10, <1>11, <1>12 DEF PageInv

LEMMA PagesGoOn ==
  ASSUME PageInv, [PageNext]_pageVars
  PROVE  PageInv'
<1>1. ASSUME NEW n \in Slots, Reads(n) \/ LoadArrives(n) \/ LoadFails(n) PROVE PageInv'
  BY <1>1, LoadReads, LoadIsAnswered, LoadIsLost
<1>2. ASSUME NEW n \in Slots, Applies(n) \/ Answered200(n) \/ WriteFails(n) PROVE PageInv'
  BY <1>2, WriteApplies, WriteIsAnswered, WriteIsLost
<1>3. CASE UNCHANGED pageVars
  BY <1>3 DEF PageInv, PageTypes, OneByOne, RowsAreTold, FormsAreFilled, NoLoads, NoWrites, LoadFits, WriteFits,
    Told, Stored, pageVars
<1> QED
  BY <1>1, <1>2, <1>3, FilterChanges, PagesPoll, FormOpens, FormIsSaved, ButtonIsPressed, OthersWrite
  DEF PageNext, Slots

LEMMA PagesHold ==
  ASSUME PageAssumption
  PROVE  PageSpec => []PageInv
<1>1. PageInit => PageInv
  BY PagesBegin
<1>2. PageInv /\ [PageNext]_pageVars => PageInv'
  BY PagesGoOn
<1> QED
  BY <1>1, <1>2, PTL DEF PageSpec

(* A page shows what the API has, for the filter that is set, when nothing is   *)
(* under way, unless requests overlapped, one failed or others wrote since it   *)
(* last loaded alone (ShownIsCurrent); and it waits only for a load.            *)
THEOREM PagesAreCurrent ==
  ASSUME PageAssumption
  PROVE  PageSpec => [](PageTypeOK /\ ShownIsCurrent)
<1>1. PageInv => PageTypeOK
  BY DEF PageInv, PageTypes, FormsAreFilled, PageTypeOK
<1>2. ASSUME PageInv PROVE ShownIsCurrent
  <2>1. SUFFICES ASSUME InFlight(loads, writes) = {}, ~excused PROVE shown = [filter |-> filter, row |-> server]
    BY DEF ShownIsCurrent
  <2>2. /\ shown \in [filter : {1, 2}, row : RowRecord] /\ loads \in [Slots -> LoadRecord]
        /\ writes \in [Slots -> WriteRecord]
    BY <1>2 DEF PageInv, PageTypes
  <2>3. NoLoads /\ NoWrites
    BY <2>1, <2>2 DEF InFlight, NoLoads, NoWrites
  <2>4. shown.filter = filter /\ shown.row = server
    BY <1>2, <2>1, <2>3 DEF PageInv, OneByOne
  <2> QED
    BY <2>2, <2>4
<1>3. PageInv => PageTypeOK /\ ShownIsCurrent
  BY <1>1, <1>2
<1> QED
  BY <1>3, PagesHold, PTL

LEMMA StepUndoesNothing ==
  ASSUME PageInv, [PageNext]_pageVars, NEW n \in Slots,
         writes[n].kind = "save", writes[n].step = "sent", writes'[n].step = "done", server'.flag # server.flag
  PROVE  writes[n].edited \/ (page.form = "whole" /\ writes[n].row.turns # server.turns)
<1>1. PageTypes /\ writes \in [Slots -> WriteRecord] /\ server \in RowRecord
  BY DEF PageInv, PageTypes
<1>2. server' # server /\ writes' # writes
  OBVIOUS
<1>3. PICK m \in Slots : Applies(m)
  <2>1. ~ UNCHANGED pageVars
    BY <1>2 DEF pageVars
  <2>2. \A f \in {1, 2} : ~SetFilter(f)
    BY <1>2 DEF SetFilter
  <2>3. ~PollPage /\ ~OpenForm /\ ~EditFlag /\ ~Save /\ \A kind : ~Press(kind)
    BY <1>2 DEF PollPage, OpenForm, EditFlag, Save, Press
  <2>4. \A m : ~Reads(m) /\ ~LoadArrives(m) /\ ~LoadFails(m) /\ ~Answered200(m) /\ ~WriteFails(m)
    BY <1>2 DEF Reads, LoadArrives, LoadFails, Answered200, WriteFails
  <2>5. \A flag : ~Foreign(flag)
    BY <1>2 DEF Foreign
  <2> QED
    BY <2>1, <2>2, <2>3, <2>4, <2>5 DEF PageNext, Slots
<1>4. n = m
  BY <1>1, <1>3 DEF Applies
<1>5. PICK w \in WriteRecord : w = writes[n]
  BY <1>1
<1>6. server' = Stored(w)
  BY <1>3, <1>4, <1>5 DEF Applies
<1>7. w.flagged /\ w.row.flag # server.flag
  BY <1>1, <1>5, <1>6, StoredRow
<1>8. ASSUME ~w.edited PROVE page.form = "whole" /\ w.row.turns # server.turns
  <2>1. page.form = "whole"
    BY <1>5, <1>7, <1>8 DEF PageInv, FormsAreFilled
  <2>2. Told(w.row) /\ Told(server)
    BY <1>5, <1>8 DEF PageInv, RowsAreTold
  <2>3. w.row.flag \in BOOLEAN /\ server.flag \in BOOLEAN
    BY <1>1 DEF WriteRecord, RowRecord
  <2>4. w.row.turns # server.turns
    BY <1>7, <2>2, <2>3 DEF Told
  <2> QED
    BY <2>1, <2>4
<1> QED
  BY <1>5, <1>8

(* A saved form changes a field its user did not touch only where the whole     *)
(* form is written back and the field changed since the form was filled         *)
(* (NothingIsUndone).                                                           *)
THEOREM NothingTurnsUndone ==
  ASSUME PageAssumption
  PROVE  PageSpec => NothingIsUndone
<1>1. ASSUME PageInv, [PageNext]_pageVars
      PROVE  [\A n \in DOMAIN writes :
                writes[n].kind = "save" /\ writes[n].step = "sent" /\ writes'[n].step = "done"
                  /\ server'.flag # server.flag =>
                  writes[n].edited \/ (page.form = "whole" /\ writes[n].row.turns # server.turns)]_pageVars
  <2>1. DOMAIN writes = Slots
    BY <1>1 DEF PageInv, PageTypes
  <2> QED
    BY <1>1, <2>1, StepUndoesNothing
<1> QED
  BY <1>1, PagesHold, PTL DEF PageSpec, NothingIsUndone

-----------------------------------------------------------------------------
(* The dashboard as the run composes it *)

(* The run takes one part at a time: its steps are those of each part, or leave *)
(* that part alone.                                                             *)

LEMMA SessionOfDashboard == DashboardSpec => SessionSpec
<1>1. DashboardInit => SessionInit
  BY DEF DashboardInit
<1>2. [DashboardNext]_dashboardVars => [SessionNext]_sessionVars
  BY DEF DashboardNext, dashboardVars
<1> QED
  BY <1>1, <1>2, PTL DEF DashboardSpec, SessionSpec

LEMMA PagesOfDashboard == DashboardSpec => PageSpec
<1>1. DashboardInit => PageInit
  BY DEF DashboardInit
<1>2. [DashboardNext]_dashboardVars => [PageNext]_pageVars
  BY DEF DashboardNext, dashboardVars
<1> QED
  BY <1>1, <1>2, PTL DEF DashboardSpec, PageSpec

LEMMA DealsOfDashboard == DashboardSpec => DealSpec
<1>1. DashboardInit => DealInit
  BY DEF DashboardInit
<1>2. [DashboardNext]_dashboardVars => [DealNext]_dealVars
  BY DEF DashboardNext, dashboardVars
<1> QED
  BY <1>1, <1>2, PTL DEF DashboardSpec, DealSpec

LEMMA SourcesOfDashboard == DashboardSpec => MetaSpec
<1>1. DashboardInit => MetaInit
  BY DEF DashboardInit
<1>2. [DashboardNext]_dashboardVars => [MetaNext]_metaVars
  BY DEF DashboardNext, dashboardVars
<1> QED
  BY <1>1, <1>2, PTL DEF DashboardSpec, MetaSpec

LEMMA ReelsOfDashboard == DashboardSpec => ReelSpec
<1>1. DashboardInit => ReelInit
  BY DEF DashboardInit
<1>2. [DashboardNext]_dashboardVars => [ReelNext]_reelVars
  BY DEF DashboardNext, dashboardVars
<1> QED
  BY <1>1, <1>2, PTL DEF DashboardSpec, ReelSpec

LEMMA SessionTypeCorrect ==
  ASSUME SessionAssumption
  PROVE  SessionSpec => []SessionTypeOK
<1>1. SessionInit => SessionInv
  BY SessionInitWhole
<1>2. SessionInv /\ [SessionNext]_sessionVars => SessionInv'
  BY SessionNextWhole
<1>3. ASSUME SessionInv PROVE SessionTypeOK
  <2>1. storage.user \in Anyone /\ \A t \in Tabs : tab[t] \in PageRecord
    BY <1>3, SessionFacts
  <2>2. \A t \in Tabs : tab[t].phase \in {"closed", "loading", "ready"} /\ tab[t].owner \in Anyone
    BY <2>1 DEF PageRecord
  <2> QED
    BY <1>3, <2>1, <2>2, SessionFacts DEF SessionTypeOK, Anyone
<1> QED
  BY <1>1, <1>2, <1>3, PTL DEF SessionSpec

DashboardAssumption == SessionAssumption /\ PageAssumption /\ DealAssumption /\ WizardAssumption /\ ReelAssumption

(* What the run checks of the dashboard's state holds for every value of its    *)
(* bounds: the types of every part (DashboardTypeOK), that a page and a list of *)
(* videos show what the API has (PagesAreTrue), a session whole in every tab    *)
(* (SessionIsWhole), sources wired to the pages they ask (SourcesAreWired), and *)
(* commissions that add up (DealsAddUp).                                        *)
THEOREM DashboardIsTrue ==
  ASSUME DashboardAssumption
  PROVE  DashboardSpec => [](DashboardTypeOK /\ PagesAreTrue /\ SessionIsWhole /\ SourcesAreWired /\ DealsAddUp)
<1> DEFINE TopicOK == /\ topic \in {"session", "pages", "deals", "meta", "reels", "functions"}
                      /\ topic = "functions" => FunctionTypeOK
<1>1. DashboardInit => TopicOK
  BY DEF DashboardInit, FunctionInit, FunctionTypeOK, SlotQuestions, ScoreQuestions, HourQuestions, ConditionQuestions
<1>2. TopicOK /\ [DashboardNext]_dashboardVars => TopicOK'
  BY DEF DashboardNext, dashboardVars, FunctionTypeOK
<1>3. DashboardSpec => []TopicOK
  BY <1>1, <1>2, PTL DEF DashboardSpec
<1>4. DashboardSpec => [](SessionTypeOK /\ SessionIsWhole)
  BY SessionOfDashboard, SessionTypeCorrect, SessionStaysWhole, PTL DEF DashboardAssumption
<1>5. DashboardSpec => [](PageTypeOK /\ ShownIsCurrent)
  BY PagesOfDashboard, PagesAreCurrent, PTL DEF DashboardAssumption
<1>6. DashboardSpec => [](DealTypeOK /\ DealsAddUp)
  BY DealsOfDashboard, DealsTypeCorrect, DealsStayAdded, PTL DEF DashboardAssumption
<1>7. DashboardSpec => [](MetaTypeOK /\ SourcesAreWired)
  BY SourcesOfDashboard, SourcesTypeCorrect, SourcesStayWired, PTL DEF DashboardAssumption
<1>8. DashboardSpec => [](ReelTypeOK /\ ShownJobIsTrue)
  BY ReelsOfDashboard, ReelsAreTrue, PTL DEF DashboardAssumption
<1>9. TopicOK /\ SessionTypeOK /\ PageTypeOK /\ DealTypeOK /\ MetaTypeOK /\ ReelTypeOK => DashboardTypeOK
  BY DEF DashboardTypeOK
<1>10. ShownIsCurrent /\ ShownJobIsTrue => PagesAreTrue
  BY DEF PagesAreTrue
<1> QED
  BY <1>3, <1>4, <1>5, <1>6, <1>7, <1>8, <1>9, <1>10, PTL

(* What each part of the dashboard keeps is of its types: sessions, pages,       *)
(* commissions, sources, videos and questions (DashboardTypeOK).                 *)
THEOREM DashboardTypeCorrect ==
  ASSUME DashboardAssumption
  PROVE  DashboardSpec => []DashboardTypeOK
BY DashboardIsTrue, PTL

(* No step of the dashboard undoes what another user wrote, or shows a video    *)
(* going back (StepsAreKept).                                                   *)
THEOREM DashboardStepsAreKept ==
  ASSUME DashboardAssumption
  PROVE  DashboardSpec => StepsAreKept
<1>1. DashboardSpec => NothingIsUndone
  BY PagesOfDashboard, NothingTurnsUndone, PTL DEF DashboardAssumption
<1>2. DashboardSpec => ShownGoesForward
  BY ReelsOfDashboard, ReelsGoForward, PTL DEF DashboardAssumption
<1> QED
  BY <1>1, <1>2 DEF StepsAreKept

-----------------------------------------------------------------------------
LEMMA LeastNumber ==
  ASSUME NEW S \in SUBSET Nat, S # {}
  PROVE  \E m \in S : \A y \in S : ~(y < m)
<1>1. PICK m \in S : \A y \in S : ~(<<y, m>> \in OpToRel(<, Nat))
  BY NatLessThanWellFounded, WFMin
<1> QED
  BY <1>1 DEF OpToRel

-----------------------------------------------------------------------------
(* Days and hours *)

LEMMA Divided ==
  ASSUME NEW n \in Nat, NEW d \in Nat \ {0}
  PROVE  /\ n \div d \in Nat /\ n % d \in Nat /\ n % d < d
         /\ n = d * (n \div d) + (n % d)
OBVIOUS

LEMMA Quotient ==
  ASSUME NEW d \in Nat \ {0}, NEW q \in Nat, NEW r \in Nat, r < d
  PROVE  (d * q + r) \div d = q /\ (d * q + r) % d = r
<1> DEFINE n == d * q + r
<1>1. n \in Nat
  OBVIOUS
<1>2. PICK p \in Nat, s \in Nat : p = n \div d /\ s = n % d /\ s < d /\ n = d * p + s
  BY <1>1, Divided
<1>3. d * p + s = d * q + r
  BY <1>2
<1>4. p = q
  <2>1. ASSUME p < q PROVE FALSE
    <3>1. PICK e \in Nat : q = p + 1 + e
      <4>1. q - p - 1 \in Nat /\ q = p + 1 + (q - p - 1)
        BY <2>1
      <4> QED
        BY <4>1
    <3>2. d * q = d * p + d + d * e
      BY <3>1
    <3>3. d * e \in Nat /\ d * p \in Nat
      OBVIOUS
    <3> QED
      BY <1>2, <1>3, <3>2, <3>3
  <2>2. ASSUME q < p PROVE FALSE
    <3>1. PICK e \in Nat : p = q + 1 + e
      <4>1. p - q - 1 \in Nat /\ p = q + 1 + (p - q - 1)
        BY <2>2
      <4> QED
        BY <4>1
    <3>2. d * p = d * q + d + d * e
      BY <3>1
    <3>3. d * e \in Nat /\ d * q \in Nat
      OBVIOUS
    <3> QED
      BY <1>2, <1>3, <3>2, <3>3
  <2> QED
    BY <2>1, <2>2
<1>5. s = r
  BY <1>3, <1>4
<1> QED
  BY <1>2, <1>4, <1>5

LEMMA DayFacts == Day \in Nat \ {0} /\ Day = Hour * HoursADay /\ Hour = 2 /\ HoursADay \in Nat \ {0} /\ DaysAhead \in Nat \ {0}
BY FunctionAssumption DEF Day, Hour

LEMMA Distributed ==
  \A d, p, q \in Nat : /\ d * p \in Nat /\ d * (p + q) = d * p + d * q
                       /\ p <= q => d * p <= d * q
                       /\ p < q => d * p + d <= d * q
<1> SUFFICES ASSUME NEW d \in Nat, NEW p \in Nat, NEW q \in Nat
             PROVE  /\ d * p \in Nat /\ d * (p + q) = d * p + d * q
                    /\ p <= q => d * p <= d * q
                    /\ p < q => d * p + d <= d * q
  OBVIOUS
<1>1. d * p \in Nat /\ d * (p + q) = d * p + d * q
  OBVIOUS
<1>2. ASSUME p <= q PROVE d * p <= d * q
  <2>1. PICK e \in Nat : q = p + e
    <3>1. q - p \in Nat /\ q = p + (q - p)
      BY <1>2
    <3> QED
      BY <3>1
  <2>2. d * q = d * p + d * e /\ d * e \in Nat
    BY <2>1
  <2> QED
    BY <2>2, <1>1
<1>3. ASSUME p < q PROVE d * p + d <= d * q
  <2>1. PICK e \in Nat : q = p + 1 + e
    <3>1. q - p - 1 \in Nat /\ q = p + 1 + (q - p - 1)
      BY <1>3
    <3> QED
      BY <3>1
  <2>2. d * q = d * p + d + d * e /\ d * e \in Nat
    BY <2>1
  <2> QED
    BY <2>2, <1>1
<1> QED
  BY <1>1, <1>2, <1>3

(* A time is a day and what has passed of it. *)
LEMMA MidnightIs ==
  ASSUME NEW t \in Nat
  PROVE  /\ t \div Day \in Nat /\ t % Day \in 0..(Day - 1)
         /\ Midnight(t) = Day * (t \div Day) /\ Midnight(t) \in Nat
         /\ t = Midnight(t) + (t % Day)
<1>1. PICK q \in Nat, r \in Nat : q = t \div Day /\ r = t % Day /\ r < Day /\ t = Day * q + r
  BY Divided, DayFacts
<1>2. Day * q \in Nat
  BY DayFacts
<1>3. Midnight(t) = t - r
  BY <1>1 DEF Midnight
<1>4. Midnight(t) = Day * q
  BY <1>1, <1>2, <1>3
<1> QED
  BY <1>1, <1>2, <1>4, DayFacts

LEMMA TimeOfDay ==
  ASSUME NEW q \in Nat, NEW r \in Nat, r < Day
  PROVE  /\ Day * q + r \in Nat /\ (Day * q + r) \div Day = q /\ (Day * q + r) % Day = r
         /\ Midnight(Day * q + r) = Day * q
<1>1. Day * q + r \in Nat /\ Day * q \in Nat
  BY DayFacts
<1>2. (Day * q + r) \div Day = q /\ (Day * q + r) % Day = r
  BY DayFacts, Quotient
<1>3. Midnight(Day * q + r) = Day * q
  BY <1>1, <1>2 DEF Midnight
<1> QED
  BY <1>1, <1>2, <1>3

LEMMA WholeDays ==
  ASSUME NEW q \in Nat
  PROVE  Day * q \in Nat /\ (Day * q) \div Day = q /\ (Day * q) % Day = 0 /\ Midnight(Day * q) = Day * q
<1>1. Day * q \in Nat /\ Day * q + 0 = Day * q
  BY DayFacts
<1>2. (Day * q + 0) \div Day = q /\ (Day * q + 0) % Day = 0 /\ Midnight(Day * q + 0) = Day * q
  <2>1. 0 \in Nat /\ 0 < Day
    BY DayFacts
  <2> QED
    BY <2>1, TimeOfDay
<1> QED
  BY <1>1, <1>2

LEMMA HalfHours ==
  ASSUME NEW t \in Nat
  PROVE  t \div Hour \in Nat /\ t % Hour \in {0, 1} /\ t = Hour * (t \div Hour) + (t % Hour)
<1>1. Hour \in Nat \ {0} /\ Hour = 2
  BY DayFacts
<1>2. t \div Hour \in Nat /\ t % Hour \in Nat /\ t % Hour < 2 /\ t = Hour * (t \div Hour) + (t % Hour)
  BY <1>1, Divided
<1> QED
  BY <1>2

-----------------------------------------------------------------------------
(* Slots *)

SlotOf(d, h) == [start |-> Day * d + Hour * h, end |-> Day * d + Hour * (h + 1)]
IsAvailable(a) == a.days \in SUBSET Nat /\ a.start \in Nat /\ a.end \in 0..Day
AreVisits(visits) == \A v \in visits : v.start \in Nat /\ v.end \in Nat

(* The slots the worker looks at on the days from q on. *)
GridOf(a, q) == {SlotOf(e[1], e[2]) : e \in {e \in (q..(q + DaysAhead - 1)) \X HoursFrom(a) : e[1] \in a.days}}

LEMMA HoursOfDay ==
  ASSUME NEW a, IsAvailable(a), NEW h \in HoursFrom(a)
  PROVE  /\ h \in Nat /\ a.start \div Hour <= h /\ Hour * (h + 1) <= a.end /\ Hour * (h + 1) <= Day
         /\ a.start % Hour = 0 => a.start <= Hour * h
         /\ h < HoursADay
<1>1. a.start \in Nat /\ a.end \in Nat /\ a.end <= Day
  BY DayFacts DEF IsAvailable
<1>2. PICK m \in Nat, x \in Nat : m = a.start \div Hour /\ x = a.start % Hour /\ a.start = 2 * m + x
  <2>1. /\ a.start \div Hour \in Nat /\ a.start % Hour \in Nat
        /\ a.start = Hour * (a.start \div Hour) + (a.start % Hour)
    BY <1>1, DayFacts, Divided
  <2> QED
    BY <2>1, DayFacts
<1>3. PICK n \in Nat, y \in Nat : n = a.end \div Hour /\ y = a.end % Hour /\ a.end = 2 * n + y
  <2>1. /\ a.end \div Hour \in Nat /\ a.end % Hour \in Nat
        /\ a.end = Hour * (a.end \div Hour) + (a.end % Hour)
    BY <1>1, DayFacts, Divided
  <2> QED
    BY <2>1, DayFacts
<1>4. h \in m..(n - 1)
  BY <1>2, <1>3 DEF HoursFrom
<1>5. h \in Nat /\ m <= h /\ 2 * (h + 1) <= a.end
  BY <1>3, <1>4
<1> QED
  BY <1>1, <1>2, <1>5, DayFacts

LEMMA WorkerSlotsAre ==
  ASSUME NEW a, IsAvailable(a), NEW visits, NEW now \in Nat
  PROVE  WorkerSlots(a, visits, now) =
           {s \in GridOf(a, now \div Day) :
              s.start > now /\ \A v \in Seen(visits, Midnight(now), Midnight(now) + Day * DaysAhead) : ~Meets(s, v)}
<1> DEFINE from == Midnight(now)
           q == now \div Day
           Grid == {[start |-> from + Day * k + Hour * h, end |-> from + Day * k + Hour * (h + 1)]
                      : k \in {k \in 0..DaysAhead - 1 : from \div Day + k \in a.days}, h \in HoursFrom(a)}
<1>1. q \in Nat /\ from = Day * q /\ from \in Nat /\ from \div Day = q
  <2>1. q \in Nat /\ from = Day * q /\ from \in Nat
    BY MidnightIs
  <2>2. (Day * q) \div Day = q
    BY <2>1, WholeDays
  <2> QED
    BY <2>1, <2>2
<1>2. ASSUME NEW k \in Nat, NEW h \in HoursFrom(a)
      PROVE  [start |-> from + Day * k + Hour * h, end |-> from + Day * k + Hour * (h + 1)] = SlotOf(q + k, h)
  <2>1. Day * (q + k) = Day * q + Day * k
    BY <1>1, DayFacts, Distributed
  <2> QED
    BY <1>1, <2>1 DEF SlotOf
<1> HIDE DEF from, q
<1>3. ASSUME NEW s \in Grid PROVE s \in GridOf(a, q)
  <2>1. PICK k \in 0..DaysAhead - 1, h \in HoursFrom(a) :
          /\ from \div Day + k \in a.days
          /\ s = [start |-> from + Day * k + Hour * h, end |-> from + Day * k + Hour * (h + 1)]
    BY <1>3
  <2>2. s = SlotOf(q + k, h) /\ q + k \in q..(q + DaysAhead - 1) /\ q + k \in a.days
    BY <1>1, <1>2, <2>1, DayFacts
  <2>3. <<q + k, h>> \in {e \in (q..(q + DaysAhead - 1)) \X HoursFrom(a) : e[1] \in a.days}
    BY <2>1, <2>2
  <2> QED
    BY <2>2, <2>3 DEF GridOf
<1>4. ASSUME NEW s \in GridOf(a, q) PROVE s \in Grid
  <2>1. PICK d \in q..(q + DaysAhead - 1), h \in HoursFrom(a) : d \in a.days /\ s = SlotOf(d, h)
    BY <1>4 DEF GridOf
  <2>2. PICK k \in 0..DaysAhead - 1 : d = q + k
    <3>1. d - q \in 0..DaysAhead - 1 /\ d = q + (d - q)
      BY <1>1, <2>1, DayFacts
    <3> QED
      BY <3>1
  <2>3. s = [start |-> from + Day * k + Hour * h, end |-> from + Day * k + Hour * (h + 1)]
    BY <1>2, <2>1, <2>2, DayFacts
  <2> QED
    BY <1>1, <2>1, <2>2, <2>3
<1>5. Grid = GridOf(a, q)
  BY <1>3, <1>4
<1> HIDE DEF Grid
<1>6. WorkerSlots(a, visits, now) =
        {s \in Grid : s.start > now /\ \A v \in Seen(visits, from, from + Day * DaysAhead) : ~Meets(s, v)}
  BY DEF WorkerSlots, from, Grid
<1> QED
  BY <1>5, <1>6 DEF from, q

LEMMA SlotOfDay ==
  ASSUME NEW a, IsAvailable(a), NEW d \in Nat, NEW h \in HoursFrom(a), NEW q \in Nat, d < q
  PROVE  /\ SlotOf(d, h).start = Day * d + Hour * h /\ SlotOf(d, h).start \in Nat
         /\ SlotOf(d, h).end = SlotOf(d, h).start + Hour /\ SlotOf(d, h).end \in Nat
         /\ Day * d <= SlotOf(d, h).start
         /\ SlotOf(d, h).end <= Day * q /\ SlotOf(d, h).start < Day * q
         /\ SlotOf(d, h).end % Day <= a.end
<1>1. h \in Nat /\ Hour * (h + 1) <= a.end /\ Hour * (h + 1) <= Day /\ Hour * (h + 1) = Hour * h + Hour
  BY HoursOfDay, DayFacts
<1>2. Day * d \in Nat /\ Day * d + Day <= Day * q /\ Day * q \in Nat
  BY Distributed, DayFacts
<1>3. Hour * h \in Nat /\ Hour = 2 /\ Day \in Nat /\ a.end \in Nat
  BY <1>1, DayFacts DEF IsAvailable
<1>4. SlotOf(d, h).start = Day * d + Hour * h /\ SlotOf(d, h).end = Day * d + (Hour * h + Hour)
  BY <1>1 DEF SlotOf
<1>5. (Day * d + (Hour * h + Hour)) % Day <= a.end
  <2>1. PICK r \in Nat : r = Hour * h + Hour /\ r <= a.end /\ r <= Day
    BY <1>1, <1>3
  <2>2. CASE r < Day
    <3>1. (Day * d + r) % Day = r
      BY <2>2, TimeOfDay
    <3> QED
      BY <2>1, <3>1
  <2>3. CASE r = Day
    <3>1. Day * d + r = Day * (d + 1) /\ d + 1 \in Nat
      BY <2>3, DayFacts, Distributed
    <3>2. (Day * (d + 1)) % Day = 0
      BY <3>1, WholeDays
    <3> QED
      BY <2>1, <3>1, <3>2, <1>3
  <2> QED
    BY <2>1, <2>2, <2>3, <1>3
<1>6. PICK x \in Nat, y \in Nat, z \in Nat : x = Day * d /\ y = Hour * h /\ z = Day * q
  BY <1>2, <1>3
<1>7. x + (y + 2) <= z /\ x + y < z /\ x + y \in Nat /\ x + (y + 2) = (x + y) + 2 /\ x <= x + y
  BY <1>1, <1>2, <1>3, <1>6
<1> QED
  BY <1>3, <1>4, <1>5, <1>6, <1>7

(* The slots of the API that begin within the worker's days are the worker's, *)
(* where the agent begins at a full hour.                                     *)
LEMMA ApiSlotsAre ==
  ASSUME NEW a, IsAvailable(a), a.start % Hour = 0, NEW visits, NEW now \in Nat,
         NEW from, from = Midnight(now), NEW to, to = from + Day * DaysAhead
  PROVE  {s \in ApiSlots(a, visits, now, from, to) : s.start > now /\ s.start < to} =
           {s \in GridOf(a, now \div Day) : s.start > now /\ \A v \in Seen(visits, from, to) : ~Meets(s, v)}
<1> DEFINE q == now \div Day
           Days == {from + Day * k : k \in {k \in 0..((to - from) \div Day) : from \div Day + k \in a.days}}
           ApiGrid == UNION {{[start |-> Midnight(d) + (IF h = a.start \div Hour THEN a.start ELSE Hour * h),
                             end |-> Midnight(d) + Hour * (h + 1)] : h \in HoursFrom(a)} : d \in Days}
<1>1. q \in Nat /\ from = Day * q /\ from \in Nat /\ from \div Day = q
  <2>1. q \in Nat /\ from = Day * q /\ from \in Nat
    BY MidnightIs
  <2>2. (Day * q) \div Day = q
    BY <2>1, WholeDays
  <2> QED
    BY <2>1, <2>2
<1>2. to = Day * (q + DaysAhead) /\ to \in Nat /\ (to - from) \div Day = DaysAhead
  <2>1. Day * (q + DaysAhead) = Day * q + Day * DaysAhead /\ Day * DaysAhead \in Nat
    BY <1>1, DayFacts, Distributed
  <2>2. to - from = Day * DaysAhead /\ to = Day * (q + DaysAhead) /\ to \in Nat
    BY <1>1, <2>1
  <2>3. (Day * DaysAhead) \div Day = DaysAhead
    BY WholeDays, DayFacts
  <2> QED
    BY <2>2, <2>3
<1> HIDE DEF q
<1>3. a.start = Hour * (a.start \div Hour)
  <2>1. a.start \in Nat /\ a.start = Hour * (a.start \div Hour) + (a.start % Hour) /\ a.start \div Hour \in Nat
    <3>1. a.start \in Nat
      BY DEF IsAvailable
    <3> QED
      BY <3>1, HalfHours
  <2>2. PICK x \in Nat, y \in Nat : x = a.start \div Hour /\ y = a.start % Hour /\ a.start = Hour * x + y /\ y = 0
    BY <2>1
  <2> QED
    BY <2>2, DayFacts
<1>4. ASSUME NEW k \in Nat, NEW h \in HoursFrom(a)
      PROVE  [start |-> Midnight(from + Day * k) + (IF h = a.start \div Hour THEN a.start ELSE Hour * h),
              end |-> Midnight(from + Day * k) + Hour * (h + 1)] = SlotOf(q + k, h)
  <2>1. from + Day * k = Day * (q + k) /\ q + k \in Nat
    BY <1>1, DayFacts, Distributed
  <2>2. Midnight(Day * (q + k)) = Day * (q + k)
    BY <2>1, WholeDays
  <2>3. (IF h = a.start \div Hour THEN a.start ELSE Hour * h) = Hour * h
    BY <1>3
  <2> QED
    BY <2>1, <2>2, <2>3 DEF SlotOf
<1>5. ApiGrid = {SlotOf(e[1], e[2]) : e \in {e \in (q..(q + DaysAhead)) \X HoursFrom(a) : e[1] \in a.days}}
  <2> DEFINE E == {e \in (q..(q + DaysAhead)) \X HoursFrom(a) : e[1] \in a.days}
             T(k, h) == [start |-> Midnight(from + Day * k) + (IF h = a.start \div Hour THEN a.start ELSE Hour * h),
                         end |-> Midnight(from + Day * k) + Hour * (h + 1)]
  <2>1. ApiGrid = UNION {{T(k, h) : h \in HoursFrom(a)} : k \in {k \in 0..DaysAhead : q + k \in a.days}}
    BY <1>1, <1>2
  <2>2. \A k \in 0..DaysAhead : \A h \in HoursFrom(a) : T(k, h) = SlotOf(q + k, h)
    BY <1>4, DayFacts
  <2> HIDE DEF T, ApiGrid, q
  <2>3. ASSUME NEW s \in ApiGrid PROVE \E e \in E : s = SlotOf(e[1], e[2])
    <3>1. PICK k \in 0..DaysAhead, h \in HoursFrom(a) : q + k \in a.days /\ s = T(k, h)
      BY <2>1, <2>3
    <3>2. q + k \in q..(q + DaysAhead) /\ s = SlotOf(q + k, h)
      BY <1>1, <2>2, <3>1, DayFacts
    <3>3. <<q + k, h>> \in E
      BY <3>1, <3>2
    <3> QED
      BY <3>2, <3>3
  <2>4. ASSUME NEW e \in E PROVE SlotOf(e[1], e[2]) \in ApiGrid
    <3>1. PICK d \in q..(q + DaysAhead), h \in HoursFrom(a) : e = <<d, h>> /\ d \in a.days
      BY <2>4
    <3>2. PICK k \in 0..DaysAhead : d = q + k
      <4>1. d - q \in 0..DaysAhead /\ d = q + (d - q)
        BY <1>1, <3>1, DayFacts
      <4> QED
        BY <4>1
    <3>3. SlotOf(d, h) = T(k, h) /\ q + k \in a.days
      BY <2>2, <3>1, <3>2
    <3>4. T(k, h) \in ApiGrid
      BY <2>1, <3>3
    <3> QED
      BY <3>1, <3>3, <3>4
  <2> QED
    BY <2>3, <2>4
<1> HIDE DEF ApiGrid, q
<1>6. ApiSlots(a, visits, now, from, to) = {s \in ApiGrid : s.start >= now /\ \A v \in Seen(visits, from, to) : ~Meets(s, v)}
  BY DEF ApiSlots, ApiGrid
<1>7. ASSUME NEW s PROVE s \in ApiGrid /\ s.start < to <=> s \in GridOf(a, q)
  <2>1. ASSUME s \in ApiGrid, s.start < to PROVE s \in GridOf(a, q)
    <3>1. PICK d \in q..(q + DaysAhead), h \in HoursFrom(a) : d \in a.days /\ s = SlotOf(d, h)
      BY <1>5, <2>1
    <3>2. d \in Nat /\ d < q + DaysAhead + 1 /\ q + DaysAhead + 1 \in Nat
      BY <1>1, <3>1, DayFacts
    <3>3. Day * d <= s.start /\ s.start \in Nat /\ Day * d \in Nat
      BY <3>1, <3>2, SlotOfDay, DayFacts, Distributed
    <3>4. d # q + DaysAhead
      BY <1>2, <2>1, <3>3
    <3>5. d \in q..(q + DaysAhead - 1)
      BY <1>1, <3>1, <3>4, DayFacts
    <3>6. <<d, h>> \in {e \in (q..(q + DaysAhead - 1)) \X HoursFrom(a) : e[1] \in a.days}
      BY <3>1, <3>5
    <3> QED
      BY <3>1, <3>6 DEF GridOf
  <2>2. ASSUME s \in GridOf(a, q) PROVE s \in ApiGrid /\ s.start < to
    <3>1. PICK d \in q..(q + DaysAhead - 1), h \in HoursFrom(a) : d \in a.days /\ s = SlotOf(d, h)
      BY <2>2 DEF GridOf
    <3>2. d \in Nat /\ d < q + DaysAhead /\ q + DaysAhead \in Nat /\ d \in q..(q + DaysAhead)
      BY <1>1, <3>1, DayFacts
    <3>3. s.start < Day * (q + DaysAhead)
      BY <3>1, <3>2, SlotOfDay
    <3>4. <<d, h>> \in {e \in (q..(q + DaysAhead)) \X HoursFrom(a) : e[1] \in a.days}
      BY <3>1, <3>2
    <3> QED
      BY <1>2, <1>5, <3>1, <3>3, <3>4
  <2> QED
    BY <2>1, <2>2
<1>8. ASSUME NEW s \in GridOf(a, q), s.start > now PROVE s.start >= now
  <2>1. PICK d \in q..(q + DaysAhead - 1), h \in HoursFrom(a) : d \in a.days /\ s = SlotOf(d, h)
    BY <1>8 DEF GridOf
  <2>2. d \in Nat /\ d < q + DaysAhead /\ q + DaysAhead \in Nat
    BY <1>1, <2>1, DayFacts
  <2>3. s.start \in Nat
    BY <2>1, <2>2, SlotOfDay
  <2> QED
    BY <1>8, <2>3
<1> QED
  BY <1>6, <1>7, <1>8 DEF q

(* For any availability within a day, visits, and time, the worker offers hours that *)
(* are free, in the future and within the day's work, leaves none of them out, and   *)
(* offers what the API does where the agent begins at a full hour, but for the       *)
(* API's last day (WorkerOffersWhatIsFree).                                          *)
THEOREM WorkerOffersAnyFree ==
  ASSUME question.kind = "slots" =>
           IsAvailable(question.a) /\ AreVisits(question.visits) /\ question.now \in Nat
  PROVE  WorkerOffersWhatIsFree
<1> SUFFICES ASSUME question.kind = "slots" PROVE WorkerOffersWhatIsFree
  BY DEF WorkerOffersWhatIsFree
<1> DEFINE a == question.a
           now == question.now
           visits == question.visits
           from == Midnight(now)
           to == from + Day * DaysAhead
           q == now \div Day
           offered == WorkerSlots(a, visits, now)
           Blocked(s) == \E v \in visits : v.start >= from /\ Meets(s, v)
<1>1. IsAvailable(a) /\ AreVisits(visits) /\ now \in Nat
  OBVIOUS
<1>2. q \in Nat /\ from = Day * q /\ from \in Nat /\ now % Day \in 0..(Day - 1) /\ now = from + (now % Day)
  BY <1>1, MidnightIs
<1>4. offered = {s \in GridOf(a, q) : s.start > now /\ \A v \in Seen(visits, from, to) : ~Meets(s, v)}
  BY <1>1, WorkerSlotsAre
<1> HIDE DEF a, now, visits, from, q, offered
<1>3. to = Day * (q + DaysAhead) /\ to \in Nat
  <2>1. Day * (q + DaysAhead) = Day * q + Day * DaysAhead /\ Day * DaysAhead \in Nat
    BY <1>2, DayFacts, Distributed
  <2> QED
    BY <1>2, <2>1
<1> HIDE DEF to
<1>5. ASSUME NEW s \in offered PROVE ~Blocked(s) /\ s.start > now /\ s.end % Day <= a.end
  <2>1. s \in GridOf(a, q) /\ s.start > now /\ \A v \in Seen(visits, from, to) : ~Meets(s, v)
    BY <1>4, <1>5
  <2>2. PICK d \in q..(q + DaysAhead - 1), h \in HoursFrom(a) : d \in a.days /\ s = SlotOf(d, h)
    BY <2>1 DEF GridOf
  <2>3. d \in Nat /\ d < q + DaysAhead /\ q + DaysAhead \in Nat
    BY <1>2, <2>2, DayFacts
  <2>4. s.end \in Nat /\ s.end <= to /\ s.end % Day <= a.end
    BY <1>1, <1>3, <2>2, <2>3, SlotOfDay
  <2>5. ASSUME NEW v \in visits, v.start >= from, Meets(s, v) PROVE FALSE
    <3>1. v.start \in Nat /\ v.start < s.end
      BY <1>1, <2>4, <2>5 DEF AreVisits, Meets
    <3>2. v \in Seen(visits, from, to)
      BY <1>2, <1>3, <2>4, <2>5, <3>1 DEF Seen
    <3> QED
      BY <2>1, <2>5, <3>2
  <2> QED
    BY <2>1, <2>4, <2>5
<1>6. ASSUME NEW t \in (now + 1)..(to - 1), t % Hour = 0, (t \div Day) \in a.days, t % Day >= a.start,
             (t % Day) + Hour <= a.end, ~Blocked([start |-> t, end |-> t + Hour])
      PROVE  [start |-> t, end |-> t + Hour] \in offered
  <2> DEFINE d == t \div Day
             r == t % Day
             h == r \div Hour
             s == [start |-> t, end |-> t + Hour]
  <2>1. t \in Nat /\ now < t /\ t < to
    BY <1>1, <1>3, <1>6
  <2>2. d \in Nat /\ r \in 0..(Day - 1) /\ t = Day * d + r
    BY <2>1, MidnightIs
  <2>3. h \in Nat /\ r = Hour * h
    <3>1. PICK x \in Nat, y \in Nat : x = r \div Hour /\ y = r % Hour /\ r = Hour * x + y
      <4>1. r \in Nat
        BY <2>2
      <4>2. r \div Hour \in Nat /\ r % Hour \in Nat /\ r = Hour * (r \div Hour) + (r % Hour) /\ r % Hour < Hour
        BY <4>1, DayFacts, Divided
      <4> QED
        BY <4>2
    <3>2. y < 2
      BY <2>2, <3>1, DayFacts, Divided
    <3>3. PICK z \in Nat : z = t \div Hour /\ t = Hour * z
      <4>1. t \div Hour \in Nat /\ t = Hour * (t \div Hour) + (t % Hour)
        BY <2>1, DayFacts, Divided
      <4>2. PICK z \in Nat, u \in Nat : z = t \div Hour /\ u = 0 /\ t = Hour * z + u
        BY <1>6, <4>1
      <4> QED
        BY <4>2, DayFacts
    <3>4. PICK w \in Nat : w = HoursADay * d /\ Day * d = 2 * w
      <4>1. HoursADay * d \in Nat /\ Day * d = 2 * (HoursADay * d)
        BY <2>2, DayFacts
      <4> QED
        BY <4>1
    <3>5. 2 * z = 2 * w + (2 * x + y)
      BY <2>2, <3>1, <3>3, <3>4, DayFacts
    <3>6. y = 0
      BY <3>2, <3>5
    <3> QED
      BY <3>1, <3>6, DayFacts
  <2>4. h \in HoursFrom(a)
    <3>1. a.start \in Nat /\ a.end \in Nat
      BY <1>1, DayFacts DEF IsAvailable
    <3>2. /\ a.start \div Hour \in Nat /\ a.start % Hour \in Nat /\ a.start = Hour * (a.start \div Hour) + (a.start % Hour)
          /\ a.end \div Hour \in Nat /\ a.end % Hour \in Nat /\ a.end % Hour < Hour
          /\ a.end = Hour * (a.end \div Hour) + (a.end % Hour)
      BY <3>1, DayFacts, Divided
    <3>3. PICK m \in Nat, x \in Nat, n \in Nat, y \in Nat :
            m = a.start \div Hour /\ n = a.end \div Hour /\ a.start = 2 * m + x /\ a.end = 2 * n + y /\ y < 2
      BY <3>2, DayFacts
    <3>4. PICK g \in Nat : g = h /\ r = 2 * g
      BY <2>3, DayFacts
    <3>5. 2 * g >= 2 * m + x /\ 2 * g + 2 <= 2 * n + y
      BY <1>6, <3>3, <3>4, DayFacts
    <3>6. m <= g /\ g <= n - 1
      BY <3>3, <3>5
    <3> QED
      BY <3>3, <3>4, <3>6 DEF HoursFrom
  <2>5. d \in q..(q + DaysAhead - 1)
    <3>1. Day * q <= t /\ t < Day * (q + DaysAhead) /\ Day * d <= t /\ t < Day * d + Day
      BY <1>1, <1>2, <1>3, <2>1, <2>2, DayFacts
    <3>2. q + DaysAhead \in Nat /\ Day * q \in Nat /\ Day * d \in Nat /\ Day * (q + DaysAhead) \in Nat
      BY <1>2, <2>2, DayFacts, Distributed
    <3>3. ~(d < q)
      <4>1. d < q => Day * d + Day <= Day * q
        BY <1>2, <2>2, DayFacts, Distributed
      <4> QED
        BY <2>1, <3>1, <3>2, <4>1, DayFacts
    <3>4. ~(q + DaysAhead <= d)
      <4>1. q + DaysAhead <= d => Day * (q + DaysAhead) <= Day * d
        BY <2>2, <3>2, DayFacts, Distributed
      <4> QED
        BY <2>1, <3>1, <3>2, <4>1
    <3> QED
      BY <1>2, <2>2, <3>3, <3>4, DayFacts
  <2>6. s = SlotOf(d, h)
    <3>1. t = Day * d + Hour * h /\ Hour * (h + 1) = Hour * h + Hour /\ Day * d \in Nat /\ Hour * h \in Nat
      BY <2>2, <2>3, DayFacts, Distributed
    <3>2. t + Hour = Day * d + Hour * (h + 1)
      BY <3>1, DayFacts
    <3> QED
      BY <3>1, <3>2 DEF SlotOf
  <2>7. s \in GridOf(a, q)
    <3>1. <<d, h>> \in {e \in (q..(q + DaysAhead - 1)) \X HoursFrom(a) : e[1] \in a.days}
      BY <1>6, <2>4, <2>5
    <3> QED
      BY <2>6, <3>1 DEF GridOf
  <2>8. \A v \in Seen(visits, from, to) : ~Meets(s, v)
    <3>1. \A v \in Seen(visits, from, to) : v \in visits /\ v.start >= from
      BY <1>1, <1>2 DEF Seen, AreVisits
    <3> QED
      BY <1>6, <3>1
  <2> QED
    BY <1>4, <2>1, <2>7, <2>8
<1>7. a.start % Hour = 0 => offered = {s \in ApiSlots(a, visits, now, from, to) : s.start > now /\ s.start < to}
  BY <1>1, <1>4, ApiSlotsAre DEF from, to, q
<1> QED
  BY <1>5, <1>6, <1>7 DEF WorkerOffersWhatIsFree, a, now, visits, from, to, offered

-----------------------------------------------------------------------------
(* Working hours *)

AreHours(schedule) ==
  \A e \in schedule : e.day \in 0..6 /\ e.from \in Nat /\ e.to \in Nat /\ e.from < e.to /\ e.to <= Day

LEMMA EarliestIs ==
  ASSUME NEW times \in SUBSET Nat, times # {}
  PROVE  Earliest(times) \in times /\ \A u \in times : Earliest(times) <= u
<1>1. PICK m \in times : \A u \in times : ~(u < m)
  BY LeastNumber
<1>2. \A u \in times : m <= u
  BY <1>1
<1> QED
  BY <1>2 DEF Earliest

(* Days of the week are counted from Sunday. *)
LEMMA WeekdayIs ==
  ASSUME NEW n \in Nat, NEW r \in Nat, r < Day
  PROVE  DayOfWeek(Day * n + r) = n % 7
<1>1. PICK w \in Nat, d \in Nat : w = n \div 7 /\ d = n % 7 /\ d < 7 /\ n = 7 * w + d
  BY Divided
<1>2. Week \in Nat \ {0} /\ Week = 7 * Day /\ Day \in Nat \ {0}
  BY DayFacts DEF Week
<1>3. Day * n = Week * w + Day * d
  <2>1. Day * n = Day * (7 * w) + Day * d
    BY <1>1, <1>2, Distributed
  <2>2. Day * (7 * w) = Week * w
    BY <1>2
  <2> QED
    BY <2>1, <2>2
<1>4. Day * d \in Nat /\ Day * d + Day <= Week /\ Week * w \in Nat
  <2>1. Day * d + Day <= Day * 7
    BY <1>1, <1>2, Distributed
  <2> QED
    BY <1>2, <2>1
<1>5. PICK x \in Nat : x = Day * d + r /\ x < Week
  BY <1>4, <1>2
<1>6. Day * n + r = Week * w + x
  BY <1>3, <1>4, <1>5
<1>7. (Week * w + x) % Week = x
  BY <1>2, <1>5, Quotient
<1>8. x \div Day = d
  BY <1>5, TimeOfDay
<1> QED
  BY <1>1, <1>6, <1>7, <1>8 DEF DayOfWeek

LEMMA WithinIs ==
  ASSUME NEW schedule, NEW n \in Nat, NEW r \in Nat, r < Day
  PROVE  Within(schedule, Day * n + r) <=>
           schedule = {} \/ \E e \in schedule : e.day = n % 7 /\ e.from <= r /\ r < e.to
BY WeekdayIs, TimeOfDay DEF Within

LEMMA StartsAre ==
  ASSUME NEW schedule, AreHours(schedule), NEW n \in Nat, NEW k \in Nat
  PROVE  /\ StartsOn(schedule, (n % 7) + k) = {e.from : e \in {e \in schedule : e.day = (n + k) % 7}}
         /\ StartsOn(schedule, (n % 7) + k) \in SUBSET Nat
<1>1. ((n % 7) + k) % 7 = (n + k) % 7
  OBVIOUS
<1> QED
  BY <1>1 DEF StartsOn, AreHours

(* What is deferred outside the hours is deferred to the first moment inside them, for *)
(* any hours of a week and any time (NextStartIsOpening).                              *)
THEOREM NextStartIsAnyOpening ==
  ASSUME question.kind = "hours" => AreHours(question.schedule) /\ question.now \in Nat
  PROVE  NextStartIsOpening
<1> SUFFICES ASSUME NEW s, NEW t \in Nat, AreHours(s), ~Within(s, t)
             PROVE  /\ NextStart(s, t) > t /\ Within(s, NextStart(s, t))
                    /\ \A u \in t..(NextStart(s, t) - 1) : ~Within(s, u)
  BY DEF NextStartIsOpening
<1> DEFINE n == t \div Day
           r == t % Day
           later == LaterToday(s, t)
           on(k) == StartsOn(s, (n % 7) + k)
           next == {k \in 1..7 : on(k) # {}}
<1>1. n \in Nat /\ r \in Nat /\ r < Day /\ t = Day * n + r /\ Midnight(t) = Day * n /\ Day * n \in Nat
  BY MidnightIs, DayFacts
<1> HIDE DEF n, r
<1>2. DayOfWeek(t) = n % 7 /\ n % 7 \in 0..6
  BY <1>1, WeekdayIs
<1>3. /\ \A k \in Nat : on(k) = {e.from : e \in {e \in s : e.day = (n + k) % 7}} /\ on(k) \in SUBSET Nat
      /\ StartsOn(s, n % 7) = {e.from : e \in {e \in s : e.day = n % 7}}
  <2>1. \A k \in Nat : on(k) = {e.from : e \in {e \in s : e.day = (n + k) % 7}} /\ on(k) \in SUBSET Nat
    BY <1>1, StartsAre
  <2>2. (n % 7) % 7 = n % 7
    BY <1>1
  <2> QED
    BY <2>1, <2>2 DEF StartsOn
<1>4. later = {f \in {e.from : e \in {e \in s : e.day = n % 7}} : f > r} /\ later \in SUBSET Nat
  BY <1>2, <1>3 DEF LaterToday, AreHours, r
<1>5. s # {} /\ \A e \in s : ~(e.day = n % 7 /\ e.from <= r /\ r < e.to)
  BY <1>1, WithinIs
<1>6. NextStart(s, t) = IF later # {} THEN Day * n + Earliest(later)
                        ELSE IF next = {} THEN NoStart
                        ELSE Day * n + Day * Earliest(next) + Earliest(on(Earliest(next)))
  BY <1>1, <1>2 DEF NextStart
<1> HIDE DEF later, on, next
<1> PICK z : z = NextStart(s, t)
  OBVIOUS
\* nothing is open on the day from r to the first start after it
<1>7. ASSUME NEW x \in Nat, r <= x, x < Day, Within(s, Day * n + x)
      PROVE  \E f \in later : f <= x
  <2>1. PICK e \in s : e.day = n % 7 /\ e.from <= x /\ x < e.to
    BY <1>1, <1>5, <1>7, WithinIs
  <2>2. e.from \in Nat /\ e.to \in Nat
    BY DEF AreHours
  <2>3. e.from > r
    BY <1>1, <1>5, <1>7, <2>1, <2>2
  <2>4. e.from \in later
    BY <1>4, <2>1, <2>3
  <2> QED
    BY <2>1, <2>4
<1>8. ASSUME later # {}
      PROVE  z > t /\ Within(s, z) /\ \A u \in t..(z - 1) : ~Within(s, u)
  <2>1. PICK f \in later : f = Earliest(later) /\ \A g \in later : f <= g
    BY <1>4, <1>8, EarliestIs
  <2>2. PICK e \in s : e.day = n % 7 /\ e.from = f /\ f > r
    BY <1>4, <2>1
  <2>3. f \in Nat /\ f < e.to /\ e.to \in Nat /\ f < Day
    BY <2>2, DayFacts DEF AreHours
  <2>4. z = Day * n + f
    BY <1>6, <1>8, <2>1
  <2>5. z > t
    BY <1>1, <2>2, <2>3, <2>4
  <2>6. Within(s, z)
    BY <1>1, <2>2, <2>3, <2>4, WithinIs
  <2>7. ASSUME NEW u \in t..(z - 1) PROVE ~Within(s, u)
    <3>1. PICK x \in Nat : u = Day * n + x /\ r <= x /\ x < f
      <4>1. u - Day * n \in Nat /\ u = Day * n + (u - Day * n) /\ r <= u - Day * n /\ u - Day * n < f
        BY <1>1, <2>3, <2>4
      <4> QED
        BY <4>1
    <3>2. x < Day
      BY <2>3, <3>1, DayFacts
    <3>3. \A g \in later : ~(g <= x)
      BY <1>4, <2>1, <2>3, <3>1
    <3>4. ~Within(s, Day * n + x)
      BY <1>7, <3>1, <3>2, <3>3
    <3> QED
      BY Zenon, <3>1, <3>4
  <2> QED
    BY <2>5, <2>6, <2>7
<1>9. ASSUME later = {}
      PROVE  z > t /\ Within(s, z) /\ \A u \in t..(z - 1) : ~Within(s, u)
  <2>1. next # {} /\ next \in SUBSET Nat
    <3>1. PICK e \in s : e.day \in 0..6
      BY <1>5 DEF AreHours
    <3>2. PICK k \in 1..7 : (n + k) % 7 = e.day
      <4>1. PICK d \in 0..6 : d = n % 7
        BY <1>2
      <4>2. \A c \in 0..6 : (n + (c - d)) % 7 = c /\ (n + (c - d + 7)) % 7 = c
        BY <1>1, <4>1
      <4>3. CASE d < e.day
        <5>1. e.day - d \in 1..7 /\ (n + (e.day - d)) % 7 = e.day
          BY <3>1, <4>2, <4>3
        <5> QED
          BY <5>1
      <4>4. CASE ~(d < e.day)
        <5>1. e.day - d + 7 \in 1..7 /\ (n + (e.day - d + 7)) % 7 = e.day
          BY <3>1, <4>2, <4>4
        <5> QED
          BY <5>1
      <4> QED
        BY <4>3, <4>4
    <3>3. e.from \in on(k)
      BY <1>3, <3>2
    <3> QED
      BY <3>2, <3>3 DEF next
  <2>2. PICK k \in next : k = Earliest(next) /\ \A j \in next : k <= j
    BY <2>1, EarliestIs
  <2>3. k \in 1..7 /\ on(k) # {} /\ on(k) \in SUBSET Nat
    <3>1. k \in 1..7 /\ on(k) # {}
      BY <2>2 DEF next
    <3> QED
      BY <1>3, <3>1
  <2>4. PICK f \in on(k) : f = Earliest(on(k)) /\ \A g \in on(k) : f <= g
    BY <2>3, EarliestIs
  <2>5. PICK e \in s : e.day = (n + k) % 7 /\ e.from = f
    BY <1>3, <2>3, <2>4
  <2>6. f \in Nat /\ f < e.to /\ e.to \in Nat /\ f < Day
    BY <2>5, DayFacts DEF AreHours
  <2>7. n + k \in Nat /\ Day * (n + k) = Day * n + Day * k /\ Day * (n + k) \in Nat /\ Day * k \in Nat
    <3>1. n \in Nat /\ k \in Nat /\ n + k \in Nat /\ Day \in Nat
      BY <1>1, <2>3, DayFacts
    <3> QED
      BY Zenon, <3>1, Distributed
  <2>8. z = Day * (n + k) + f
    <3>1. z = Day * n + Day * Earliest(next) + Earliest(on(Earliest(next)))
      BY Zenon, <1>6, <1>9, <2>1
    <3>2. z = Day * n + Day * k + f
      BY Zenon, <2>2, <2>4, <3>1
    <3> QED
      BY <2>6, <2>7, <3>2
  <2>9. z > t
    <3>1. Day * n + Day <= Day * (n + k)
      BY <1>1, <2>3, <2>7, DayFacts, Distributed
    <3> QED
      BY <1>1, <2>6, <2>7, <2>8, <3>1, DayFacts
  <2>10. Within(s, z)
    BY <2>5, <2>6, <2>7, <2>8, WithinIs
  <2>11. ASSUME NEW u \in t..(z - 1), Within(s, u) PROVE FALSE
    <3>1. u \in Nat /\ t <= u /\ u < Day * (n + k) + f
      BY <2>6, <2>7, <2>8, <2>11
    <3>2. PICK m \in Nat, x \in Nat : m = u \div Day /\ x = u % Day /\ x < Day /\ u = Day * m + x
      BY <3>1, DayFacts, Divided
    <3>3. Day * m \in Nat /\ (m < n => Day * m + Day <= Day * n) /\ (n + k < m => Day * (n + k) + Day <= Day * m)
      BY <1>1, <2>7, <3>2, DayFacts, Distributed
    <3>4. ~(m < n)
      BY <1>1, <3>1, <3>2, <3>3, DayFacts
    <3>5. ~(n + k < m)
      BY <2>6, <2>7, <3>1, <3>2, <3>3, DayFacts
    <3>6. m # n
      <4> SUFFICES ASSUME m = n PROVE FALSE
        OBVIOUS
      <4>1. r <= x
        BY <1>1, <3>1, <3>2
      <4> QED
        BY <1>7, <1>9, <2>11, <3>2, <4>1
    <3>7. PICK j \in 1..7 : m = n + j /\ j <= k
      <4>1. m - n \in 1..7 /\ m = n + (m - n) /\ m - n <= k
        BY <1>1, <2>3, <3>2, <3>4, <3>5, <3>6
      <4> QED
        BY <4>1
    <3>8. PICK c \in s : c.day = m % 7 /\ c.from <= x /\ x < c.to
      BY <1>5, <2>11, <3>2, WithinIs
    <3>9. c.from \in on(j)
      BY <1>3, <3>7, <3>8
    <3>10. j = k
      <4>1. j \in next
        BY <3>7, <3>9 DEF next
      <4> QED
        BY <2>2, <2>3, <3>7, <4>1
    <3>11. f <= c.from /\ c.from \in Nat
      BY <2>4, <3>9, <3>10 DEF AreHours
    <3>12. x < f
      BY <2>6, <2>7, <3>1, <3>2, <3>7, <3>10
    <3> QED
      BY <2>6, <3>2, <3>8, <3>11, <3>12
  <2> QED
    BY <2>9, <2>10, <2>11
<1> QED
  BY <1>8, <1>9

-----------------------------------------------------------------------------
(* Conditions *)

IsValue(v) ==
  \/ \E word, upper : v = Text(word, upper)
  \/ \E n \in Int : v = Num(n)

LEMMA ValueIs ==
  ASSUME NEW v, IsValue(v) \/ v = Absent
  PROVE  /\ v.type \in {"text", "num", "missing"}
         /\ v.type = "text" => v = Text(v.word, v.upper) /\ Lower(v) = Text(v.word, FALSE)
         /\ v.type # "text" => Lower(v) = v
         /\ v.type = "num" => v.n \in Int /\ v = Num(v.n)
         /\ v.type = "missing" => v = Absent
BY DEF IsValue, Text, Num, Absent, Lower

LEMMA NumberIs ==
  ASSUME NEW v, IsValue(v) \/ v = Absent
  PROVE  Number(v) # NaN => Number(v).n \in Int
<1>1. CASE v.type = "num"
  BY <1>1, ValueIs DEF Number
<1>2. CASE v.type = "text"
  BY <1>2 DEF Number, Num
<1>3. CASE v.type = "missing"
  BY <1>3 DEF Number
<1> QED
  BY <1>1, <1>2, <1>3, ValueIs

LEMMA EqualIs ==
  ASSUME NEW x, IsValue(x) \/ x = Absent, NEW v, IsValue(v) \/ v = Absent
  PROVE  Equal(x, v) <=> Lower(x) = Lower(v)
<1>1. CASE x.type = "text" /\ v.type = "text"
  BY <1>1 DEF Equal
<1>2. CASE x.type # "text" /\ v.type # "text"
  <2>1. Lower(x) = x /\ Lower(v) = v
    BY <1>2, ValueIs
  <2> QED
    BY <1>2, <2>1 DEF Equal
<1>3. CASE x.type # v.type
  <2>1. Lower(x).type = x.type /\ Lower(v).type = v.type
    BY ValueIs DEF Text
  <2> QED
    BY <1>3, <2>1 DEF Equal
<1> QED
  BY <1>1, <1>2, <1>3

LEMMA FailsIs ==
  ASSUME NEW x, NEW v
  PROVE  /\ ConditionFails("eq", x, v) <=> ~Equal(x, v)
         /\ ConditionFails("neq", x, v) <=> Equal(x, v)
         /\ ConditionFails("gt", x, v) <=> Number(x) # NaN /\ Number(v) # NaN /\ Number(x).n <= Number(v).n
         /\ ConditionFails("gte", x, v) <=> Number(x) # NaN /\ Number(v) # NaN /\ Number(x).n < Number(v).n
         /\ ConditionFails("lt", x, v) <=> Number(x) # NaN /\ Number(v) # NaN /\ Number(x).n >= Number(v).n
         /\ ConditionFails("lte", x, v) <=> Number(x) # NaN /\ Number(v) # NaN /\ Number(x).n > Number(v).n
         /\ ConditionFails("contains", x, v) <=> ~(x.type = "text" /\ Includes(x.word, Word(v)))
         /\ ConditionFails("not_contains", x, v) <=> x.type = "text" /\ Includes(x.word, Word(v))
BY DEF ConditionFails

(* What a condition says, with its opposite. *)
LEMMA HoldsIs ==
  ASSUME NEW x, NEW v, NEW op
  PROVE  EvaluateCondition(Op(op, v), x) = ~ConditionFails(op, x, v)
BY DEF EvaluateCondition, Op

LEMMA OppositeIs ==
  Opposite("eq") = "neq" /\ Opposite("gt") = "lte" /\ Opposite("gte") = "lt" /\ Opposite("contains") = "not_contains"
BY DEF Opposite

LEMMA ConditionOpposes ==
  ASSUME NEW x, IsValue(x) \/ x = Absent, NEW v, IsValue(v),
         NEW op \in {"eq", "gt", "gte", "contains"}
  PROVE  /\ op \in {"gt", "gte"} /\ NaN \in {Number(v), Number(x)} =>
              ~ConditionFails(op, x, v) /\ ~ConditionFails(Opposite(op), x, v)
         /\ ~(op \in {"gt", "gte"} /\ NaN \in {Number(v), Number(x)}) =>
              (ConditionFails(op, x, v) <=> ~ConditionFails(Opposite(op), x, v))
<1>1. CASE op = "eq"
  BY <1>1, FailsIs, OppositeIs
<1>2. CASE op = "contains"
  BY <1>2, FailsIs, OppositeIs
<1>3. CASE op = "gt"
  <2>1. Number(x) # NaN /\ Number(v) # NaN => (Number(x).n <= Number(v).n <=> ~(Number(x).n > Number(v).n))
    BY NumberIs
  <2> QED
    BY <1>3, <2>1, FailsIs, OppositeIs
<1>4. CASE op = "gte"
  <2>1. Number(x) # NaN /\ Number(v) # NaN => (Number(x).n < Number(v).n <=> ~(Number(x).n >= Number(v).n))
    BY NumberIs
  <2> QED
    BY <1>4, <2>1, FailsIs, OppositeIs
<1> QED
  BY <1>1, <1>2, <1>3, <1>4

(* A condition and its opposite never agree but where a comparison is not of numbers,  *)
(* and a value, a list of it and `equals' say the same, for any words and any numbers  *)
(* (ConditionsAreConsistent).                                                          *)
THEOREM AnyConditionIsConsistent ==
  ASSUME question.kind = "condition" =>
           /\ question.op \in {"eq", "gt", "gte", "contains"}
           /\ IsValue(question.value)
           /\ IsValue(question.ctx) \/ question.ctx = Absent
  PROVE  ConditionsAreConsistent
<1> SUFFICES ASSUME NEW op \in {"eq", "gt", "gte", "contains"}, NEW v, IsValue(v), NEW x, IsValue(x) \/ x = Absent
             PROVE  /\ IF op \in {"gt", "gte"} /\ NaN \in {Number(v), Number(x)}
                       THEN EvaluateCondition(Op(op, v), x) /\ EvaluateCondition(Op(Opposite(op), v), x)
                       ELSE EvaluateCondition(Op(op, v), x) # EvaluateCondition(Op(Opposite(op), v), x)
                    /\ EvaluateCondition(Op("eq", v), x) = EvaluateCondition([form |-> "plain", value |-> v], x)
                    /\ EvaluateCondition(Op("eq", v), x) = EvaluateCondition([form |-> "list", values |-> {v}], x)
  BY DEF ConditionsAreConsistent
<1>1. /\ EvaluateCondition(Op(op, v), x) = ~ConditionFails(op, x, v)
      /\ EvaluateCondition(Op(Opposite(op), v), x) = ~ConditionFails(Opposite(op), x, v)
      /\ EvaluateCondition(Op("eq", v), x) = ~ConditionFails("eq", x, v)
  BY Zenon, HoldsIs
<1>2. EvaluateCondition([form |-> "plain", value |-> v], x) = Equal(x, v)
  BY DEF EvaluateCondition
<1> DEFINE among == Lower(x) \in {Lower(w) : w \in {v}}
<1>3. EvaluateCondition([form |-> "list", values |-> {v}], x) = among
  BY DEF EvaluateCondition
<1>4. ConditionFails("eq", x, v) <=> ~Equal(x, v)
  BY FailsIs
<1>5. (among <=> Equal(x, v)) /\ among \in BOOLEAN
  BY EqualIs
<1> HIDE DEF among
<1>6. Equal(x, v) \in BOOLEAN
  BY DEF Equal
<1>7. /\ op \in {"gt", "gte"} /\ NaN \in {Number(v), Number(x)} =>
           ~ConditionFails(op, x, v) /\ ~ConditionFails(Opposite(op), x, v)
      /\ ~(op \in {"gt", "gte"} /\ NaN \in {Number(v), Number(x)}) =>
           (ConditionFails(op, x, v) <=> ~ConditionFails(Opposite(op), x, v))
  BY ConditionOpposes
<1>8. (~ConditionFails("eq", x, v)) = Equal(x, v)
  BY Zenon, <1>4, <1>6
<1>9. among = Equal(x, v)
  BY <1>5, <1>6
<1>10. ~(op \in {"gt", "gte"} /\ NaN \in {Number(v), Number(x)}) =>
         (~ConditionFails(op, x, v)) # (~ConditionFails(Opposite(op), x, v))
  BY Zenon, <1>7
<1>11. IF op \in {"gt", "gte"} /\ NaN \in {Number(v), Number(x)}
       THEN EvaluateCondition(Op(op, v), x) /\ EvaluateCondition(Op(Opposite(op), v), x)
       ELSE EvaluateCondition(Op(op, v), x) # EvaluateCondition(Op(Opposite(op), v), x)
  BY Zenon, <1>1, <1>7, <1>10
<1>12. /\ EvaluateCondition(Op("eq", v), x) = EvaluateCondition([form |-> "plain", value |-> v], x)
       /\ EvaluateCondition(Op("eq", v), x) = EvaluateCondition([form |-> "list", values |-> {v}], x)
  BY Zenon, <1>1, <1>2, <1>3, <1>8, <1>9
<1> QED
  BY Zenon, <1>11, <1>12

-----------------------------------------------------------------------------
(* Scores *)

ScoredLeads ==
  [email : BOOLEAN, phone : BOOLEAN, messages : Nat, inbound : Nat, visits : Nat, status : LeadStatuses,
   age : Nat, profile : BOOLEAN, intent : BOOLEAN, tags : Nat]
FactorNames ==
  {"email", "phone", "messages", "inbound", "visits", "status", "recency", "profile", "intent", "tags"}

(* What a configuration may be: numbers, some of the statuses, and a list of brackets. *)
IsConfig(c) ==
  /\ c.email \in Int /\ c.phone \in Int /\ c.messages \in Int /\ c.inbound \in Int /\ c.visit \in Int
  /\ c.visits \in Int /\ c.profile \in Int /\ c.intent \in Int /\ c.tags \in Int /\ c.hot \in Int /\ c.warm \in Int
  /\ \A s \in DOMAIN c.status : c.status[s] \in Int
  /\ DOMAIN c.brackets \in SUBSET Nat
  /\ \A i \in DOMAIN c.brackets : c.brackets[i][1] \in Int /\ c.brackets[i][2] \in Int

LEMMA LeastGrows ==
  ASSUME NEW m \in Nat, NEW k \in Nat, NEW n \in Nat, m <= k
  PROVE  Least(m, n) <= Least(k, n) /\ Least(n, m) <= Least(n, k)
BY DEF Least

LEMMA DefaultIs ==
  /\ DefaultConfig.email = 5 /\ DefaultConfig.phone = 5 /\ DefaultConfig.messages = 20
  /\ DefaultConfig.inbound = 10 /\ DefaultConfig.visit = 3 /\ DefaultConfig.visits = 5
  /\ DefaultConfig.profile = 5 /\ DefaultConfig.intent = 5 /\ DefaultConfig.tags = 5
  /\ DefaultConfig.hot = 60 /\ DefaultConfig.warm = 30
BY DEF DefaultConfig

LEMMA DefaultStatusIs ==
  DefaultConfig.status = [s \in LeadStatuses |-> DefaultStatus(s)]
BY DEF DefaultConfig

LEMMA StatusPointsIs ==
  ASSUME NEW s \in LeadStatuses
  PROVE  StatusPoints(DefaultConfig, s) \in 0..15
<1>1. /\ DefaultStatus("NEW") = 0 /\ DefaultStatus("CONTACTED") = 3 /\ DefaultStatus("QUALIFIED") = 7
      /\ DefaultStatus("VISIT") = 10 /\ DefaultStatus("NEGOTIATION") = 13 /\ DefaultStatus("WON") = 15
      /\ DefaultStatus("LOST") = 2
  BY DEF DefaultStatus
<1>2. DefaultStatus(s) \in 0..15
  BY <1>1 DEF LeadStatuses
<1>3. StatusPoints(DefaultConfig, s) = DefaultStatus(s)
  BY DefaultStatusIs DEF StatusPoints
<1> QED
  BY <1>2, <1>3

LEMMA BracketsAre ==
  /\ DOMAIN DefaultConfig.brackets = 1..5
  /\ DefaultConfig.brackets[1][1] = 1 /\ DefaultConfig.brackets[1][2] = 15
  /\ DefaultConfig.brackets[2][1] = 3 /\ DefaultConfig.brackets[2][2] = 12
  /\ DefaultConfig.brackets[3][1] = 7 /\ DefaultConfig.brackets[3][2] = 8
  /\ DefaultConfig.brackets[4][1] = 14 /\ DefaultConfig.brackets[4][2] = 4
  /\ DefaultConfig.brackets[5][1] = 30 /\ DefaultConfig.brackets[5][2] = 2
<1>1. DefaultConfig.brackets = <<<<1, 15>>, <<3, 12>>, <<7, 8>>, <<14, 4>>, <<30, 2>>>>
  BY DEF DefaultConfig
<1> QED
  BY <1>1

(* The default is a configuration. *)
LEMMA DefaultFits == IsConfig(DefaultConfig)
<1>1. \A s \in LeadStatuses : DefaultConfig.status[s] \in Int
  <2>1. \A s \in LeadStatuses : StatusPoints(DefaultConfig, s) \in Int
    BY StatusPointsIs
  <2> QED
    BY <2>1, DefaultStatusIs DEF StatusPoints
<1>2. DOMAIN DefaultConfig.status = LeadStatuses
  BY DefaultStatusIs
<1>3. ASSUME NEW i \in 1..5
      PROVE  DefaultConfig.brackets[i][1] \in Int /\ DefaultConfig.brackets[i][2] \in Int
  <2>1. i = 1 \/ i = 2 \/ i = 3 \/ i = 4 \/ i = 5
    OBVIOUS
  <2> QED
    BY <2>1, BracketsAre
<1> QED
  BY <1>1, <1>2, <1>3, DefaultIs, BracketsAre DEF IsConfig

(* The points of the first bracket above an age. *)
LEMMA BracketCounts ==
  ASSUME NEW l, l.messages # 0, l.age \in Nat, NEW i \in 1..5, l.age < DefaultConfig.brackets[i][1],
         \A j \in 1..5 : l.age < DefaultConfig.brackets[j][1] => i <= j
  PROVE  RecencyPoints(DefaultConfig, l) = DefaultConfig.brackets[i][2]
<1> DEFINE S == Above(DefaultConfig, l)
<1>1. S = {j \in 1..5 : l.age < DefaultConfig.brackets[j][1]}
  BY BracketsAre DEF Above
<1>2. S \in SUBSET Nat /\ i \in S /\ \A j \in S : i <= j
  BY <1>1
<1> HIDE DEF S
<1>3. PICK e \in S : e = Earliest(S) /\ \A j \in S : e <= j
  BY <1>2, EarliestIs
<1>4. e = i
  BY <1>2, <1>3
<1> QED
  BY <1>2, <1>3, <1>4 DEF RecencyPoints, S

LEMMA WorkerRecencyIs ==
  ASSUME NEW l, l.messages \in Nat, l.age \in Nat
  PROVE  /\ l.messages = 0 \/ l.age >= 30 => WorkerRecency(l) = 0
         /\ l.messages # 0 /\ l.age < 1 => WorkerRecency(l) = 15
         /\ l.messages # 0 /\ l.age >= 1 /\ l.age < 3 => WorkerRecency(l) = 12
         /\ l.messages # 0 /\ l.age >= 3 /\ l.age < 7 => WorkerRecency(l) = 8
         /\ l.messages # 0 /\ l.age >= 7 /\ l.age < 14 => WorkerRecency(l) = 4
         /\ l.messages # 0 /\ l.age >= 14 /\ l.age < 30 => WorkerRecency(l) = 2
BY DEF WorkerRecency

(* The default brackets of the API and those of the worker give the same points. *)
LEMMA RecenciesAgree ==
  ASSUME NEW l, l.messages \in Nat, l.age \in Nat
  PROVE  RecencyPoints(DefaultConfig, l) = WorkerRecency(l) /\ WorkerRecency(l) \in 0..15
<1> DEFINE above(i) == l.age < DefaultConfig.brackets[i][1]
<1>1. /\ above(1) <=> l.age < 1
      /\ above(2) <=> l.age < 3
      /\ above(3) <=> l.age < 7
      /\ above(4) <=> l.age < 14
      /\ above(5) <=> l.age < 30
  BY BracketsAre
<1>2. ASSUME l.messages # 0, NEW i \in 1..5, above(i), \A j \in 1..5 : above(j) => i <= j
      PROVE  RecencyPoints(DefaultConfig, l) = DefaultConfig.brackets[i][2]
  BY <1>2, BracketCounts
<1>3. \A j \in 1..5 : j = 1 \/ j = 2 \/ j = 3 \/ j = 4 \/ j = 5
  OBVIOUS
<1>4. CASE l.messages = 0 \/ l.age >= 30
  <2>1. l.messages = 0 \/ Above(DefaultConfig, l) = {}
    BY <1>1, <1>3, <1>4, BracketsAre DEF Above
  <2> QED
    BY <1>4, <2>1, WorkerRecencyIs DEF RecencyPoints
<1> HIDE DEF above
<1>5. CASE l.messages # 0 /\ l.age < 1
  <2>1. above(1) /\ \A j \in 1..5 : above(j) => 1 <= j
    BY <1>1, <1>5
  <2> QED
    BY <1>2, <1>5, <2>1, BracketsAre, WorkerRecencyIs
<1>6. CASE l.messages # 0 /\ l.age >= 1 /\ l.age < 3
  <2>1. above(2) /\ ~above(1)
    BY <1>1, <1>6
  <2>2. \A j \in 1..5 : above(j) => 2 <= j
    BY <1>3, <2>1
  <2> QED
    BY <1>2, <1>6, <2>1, <2>2, BracketsAre, WorkerRecencyIs
<1>7. CASE l.messages # 0 /\ l.age >= 3 /\ l.age < 7
  <2>1. above(3) /\ ~above(1) /\ ~above(2)
    BY <1>1, <1>7
  <2>2. \A j \in 1..5 : above(j) => 3 <= j
    BY <1>3, <2>1
  <2> QED
    BY <1>2, <1>7, <2>1, <2>2, BracketsAre, WorkerRecencyIs
<1>8. CASE l.messages # 0 /\ l.age >= 7 /\ l.age < 14
  <2>1. above(4) /\ ~above(1) /\ ~above(2) /\ ~above(3)
    BY <1>1, <1>8
  <2>2. \A j \in 1..5 : above(j) => 4 <= j
    BY <1>3, <2>1
  <2> QED
    BY <1>2, <1>8, <2>1, <2>2, BracketsAre, WorkerRecencyIs
<1>9. CASE l.messages # 0 /\ l.age >= 14 /\ l.age < 30
  <2>1. above(5) /\ ~above(1) /\ ~above(2) /\ ~above(3) /\ ~above(4)
    BY <1>1, <1>9
  <2>2. \A j \in 1..5 : above(j) => 5 <= j
    BY <1>3, <2>1
  <2> QED
    BY <1>2, <1>9, <2>1, <2>2, BracketsAre, WorkerRecencyIs
<1> QED
  BY <1>4, <1>5, <1>6, <1>7, <1>8, <1>9

(* The points of any list of brackets are a number. *)
LEMMA RecencyIsNumber ==
  ASSUME NEW c, NEW l, IsConfig(c)
  PROVE  RecencyPoints(c, l) \in Int
<1> DEFINE S == Above(c, l)
<1>1. S \subseteq DOMAIN c.brackets /\ S \in SUBSET Nat
  BY DEF Above, IsConfig
<1>2. CASE l.messages = 0 \/ S = {}
  BY <1>2 DEF RecencyPoints
<1>3. CASE ~(l.messages = 0 \/ S = {})
  <2>1. RecencyPoints(c, l) = c.brackets[Earliest(S)][2]
    BY <1>3 DEF RecencyPoints
  <2>2. Earliest(S) \in S
    <3> HIDE DEF S
    <3> QED
      BY <1>1, <1>3, EarliestIs
  <2> QED
    BY <1>1, <2>1, <2>2 DEF IsConfig
<1> QED
  BY <1>2, <1>3

(* A sum taken name by name, in any order, is the sum of the ten factors. *)
Summed(factors, it) ==
  it = [s \in SUBSET DOMAIN factors |->
          IF s = {} THEN 0
          ELSE factors[CHOOSE f \in s : TRUE] + it[s \ {CHOOSE f \in s : TRUE}]]
Term(factors, s, k) == IF k \in s THEN factors[k] ELSE 0
SumOver(factors, s) ==
  Term(factors, s, "email") + Term(factors, s, "phone") + Term(factors, s, "messages") + Term(factors, s, "inbound")
  + Term(factors, s, "visits") + Term(factors, s, "status") + Term(factors, s, "recency") + Term(factors, s, "profile")
  + Term(factors, s, "intent") + Term(factors, s, "tags")

LEMMA TermLess ==
  ASSUME NEW factors \in [FactorNames -> Int], NEW s \in SUBSET FactorNames, NEW x \in s
  PROVE  SumOver(factors, s) = factors[x] + SumOver(factors, s \ {x})
<1>1. \A k \in FactorNames : Term(factors, s, k) \in Int /\ Term(factors, s \ {x}, k) \in Int
  BY DEF Term
<1>2. Term(factors, s, x) = factors[x] /\ Term(factors, s \ {x}, x) = 0 /\ factors[x] \in Int
  BY DEF Term
<1>3. \A k \in FactorNames : k # x => Term(factors, s, k) = Term(factors, s \ {x}, k)
  BY DEF Term
<1>4. ASSUME NEW k \in FactorNames, x = k
      PROVE  SumOver(factors, s) = factors[x] + SumOver(factors, s \ {x})
  <2>1. \A j \in FactorNames \ {x} : \E n \in Int : Term(factors, s, j) = n /\ Term(factors, s \ {x}, j) = n
    BY <1>1, <1>3
  <2> HIDE DEF FactorNames
  <2> QED
    BY <1>1, <1>2, <1>3, <1>4 DEF SumOver, FactorNames
<1> QED
  BY <1>4

LEMMA SumOverNone ==
  ASSUME NEW factors
  PROVE  SumOver(factors, {}) = 0
BY DEF SumOver, Term

LEMMA SumExists ==
  ASSUME NEW factors \in [FactorNames -> Int]
  PROVE  \E it : Summed(factors, it)
<1> DEFINE g == [s \in SUBSET FactorNames |-> SumOver(factors, s)]
<1>1. ASSUME NEW s \in SUBSET FactorNames
      PROVE  SumOver(factors, s) =
               IF s = {} THEN 0 ELSE factors[CHOOSE f \in s : TRUE] + g[s \ {CHOOSE f \in s : TRUE}]
  <2>1. CASE s = {}
    BY <2>1, SumOverNone
  <2>2. CASE s # {}
    <3>1. PICK x \in s : x = CHOOSE f \in s : TRUE
      BY <2>2
    <3>2. s \ {x} \in SUBSET FactorNames
      OBVIOUS
    <3>3. g[s \ {x}] = SumOver(factors, s \ {x})
      BY <3>2
    <3> QED
      BY <2>2, <3>1, <3>3, TermLess
  <2> QED
    BY <2>1, <2>2
<1>2. DOMAIN factors = FactorNames
  OBVIOUS
<1>3. Summed(factors, g)
  BY <1>1, <1>2 DEF Summed
<1> QED
  BY <1>3

LEMMA SumIs ==
  ASSUME NEW factors \in [FactorNames -> Int], NEW it, Summed(factors, it)
  PROVE  it[FactorNames] = SumOver(factors, FactorNames)
<1>1. DOMAIN factors = FactorNames
  OBVIOUS
<1>2. \A s \in SUBSET FactorNames :
        it[s] = IF s = {} THEN 0 ELSE factors[CHOOSE f \in s : TRUE] + it[s \ {CHOOSE f \in s : TRUE}]
  BY <1>1 DEF Summed
<1>3. IsFiniteSet(FactorNames)
  <2>1. IsFiniteSet({}) /\ \A S, x : IsFiniteSet(S) => IsFiniteSet(S \cup {x})
    BY FS_EmptySet, FS_AddElement
  <2>2. IsFiniteSet((({} \cup {"email"}) \cup {"phone"}) \cup {"messages"})
    BY Zenon, <2>1
  <2>3. IsFiniteSet((((({} \cup {"email"}) \cup {"phone"}) \cup {"messages"}) \cup {"inbound"}) \cup {"visits"})
    BY Zenon, <2>1, <2>2
  <2>4. IsFiniteSet({"email", "phone", "messages", "inbound", "visits"})
    <3>1. ((((({} \cup {"email"}) \cup {"phone"}) \cup {"messages"}) \cup {"inbound"}) \cup {"visits"})
            = {"email", "phone", "messages", "inbound", "visits"}
      OBVIOUS
    <3> QED
      BY Zenon, <2>3, <3>1
  <2> DEFINE five == {"email", "phone", "messages", "inbound", "visits"}
  <2>5. FactorNames = (((((five \cup {"status"}) \cup {"recency"}) \cup {"profile"}) \cup {"intent"}) \cup {"tags"})
    BY DEF FactorNames
  <2>6. IsFiniteSet(five)
    BY Zenon, <2>4
  <2> HIDE DEF five
  <2>7. IsFiniteSet(((five \cup {"status"}) \cup {"recency"}) \cup {"profile"})
    BY Zenon, <2>1, <2>6
  <2>8. IsFiniteSet(((((five \cup {"status"}) \cup {"recency"}) \cup {"profile"}) \cup {"intent"}) \cup {"tags"})
    BY Zenon, <2>1, <2>7
  <2> QED
    BY Zenon, <2>5, <2>8
<1> DEFINE wrong == {s \in SUBSET FactorNames : it[s] # SumOver(factors, s)}
<1>4. \A s \in SUBSET FactorNames : IsFiniteSet(s) /\ Cardinality(s) \in Nat
  BY <1>3, FS_Subset, FS_CardinalityType
<1>5. SUFFICES ASSUME wrong # {} PROVE FALSE
  OBVIOUS
<1>6. PICK m \in {Cardinality(s) : s \in wrong} : \A n \in {Cardinality(s) : s \in wrong} : ~(n < m)
  <2>1. {Cardinality(s) : s \in wrong} \in SUBSET Nat /\ {Cardinality(s) : s \in wrong} # {}
    BY <1>4, <1>5
  <2> QED
    BY <2>1, LeastNumber
<1>7. PICK s \in wrong : m = Cardinality(s)
  BY <1>6
<1>8. s \in SUBSET FactorNames /\ it[s] # SumOver(factors, s)
  BY <1>7
<1>9. s # {}
  BY <1>2, <1>8, SumOverNone
<1>10. PICK x \in s : x = CHOOSE f \in s : TRUE
  BY <1>9
<1>11. it[s] = factors[x] + it[s \ {x}]
  BY <1>2, <1>8, <1>9, <1>10
<1>12. s \ {x} \in wrong
  <2>1. s \ {x} \in SUBSET FactorNames
    BY <1>8
  <2>2. SumOver(factors, s) = factors[x] + SumOver(factors, s \ {x})
    BY <1>8, <1>10, TermLess
  <2>3. it[s \ {x}] # SumOver(factors, s \ {x})
    BY Zenon, <1>8, <1>11, <2>2
  <2> QED
    BY <2>1, <2>3
<1>13. Cardinality(s \ {x}) = Cardinality(s) - 1 /\ Cardinality(s) \in Nat
  BY <1>4, <1>8, <1>10, FS_RemoveElement
<1>14. Cardinality(s \ {x}) \in {Cardinality(u) : u \in wrong} /\ Cardinality(s \ {x}) < m
  BY <1>7, <1>12, <1>13
<1> QED
  BY <1>6, <1>14

LEMMA TotalIs ==
  ASSUME NEW factors \in [FactorNames -> Int]
  PROVE  Total(factors) =
           factors["email"] + factors["phone"] + factors["messages"] + factors["inbound"] + factors["visits"]
           + factors["status"] + factors["recency"] + factors["profile"] + factors["intent"] + factors["tags"]
<1>1. \E it : Summed(factors, it)
  BY SumExists
<1> DEFINE it == CHOOSE it : Summed(factors, it)
<1>2. Summed(factors, it)
  BY <1>1
<1>3. Total(factors) = it[DOMAIN factors]
  BY DEF Total, MapThenFoldSet, Summed
<1> HIDE DEF it
<1>4. Total(factors) = SumOver(factors, FactorNames)
  BY <1>2, <1>3, SumIs
<1> QED
  BY <1>4 DEF SumOver, Term, FactorNames

(* The ten terms of a score; by default their sum is a score, never above 100. *)
ScoreTerms(c, l) ==
  Points(l.email, c.email) + Points(l.phone, c.phone) + Least(l.messages, c.messages) + Least(l.inbound, c.inbound)
  + (Least(l.visits, c.visits) * c.visit) + StatusPoints(c, l.status) + RecencyPoints(c, l)
  + Points(l.profile, c.profile) + Points(l.intent, c.intent) + Least(l.tags, c.tags)

LEMMA TermsAreNumbers ==
  ASSUME NEW c, IsConfig(c), NEW l \in ScoredLeads
  PROVE  /\ Points(l.email, c.email) \in Int /\ Points(l.phone, c.phone) \in Int
         /\ Least(l.messages, c.messages) \in Int /\ Least(l.inbound, c.inbound) \in Int
         /\ (Least(l.visits, c.visits) * c.visit) \in Int /\ StatusPoints(c, l.status) \in Int
         /\ RecencyPoints(c, l) \in Int /\ Points(l.profile, c.profile) \in Int
         /\ Points(l.intent, c.intent) \in Int /\ Least(l.tags, c.tags) \in Int
<1>1. /\ l.email \in BOOLEAN /\ l.phone \in BOOLEAN /\ l.messages \in Nat /\ l.inbound \in Nat /\ l.visits \in Nat
      /\ l.profile \in BOOLEAN /\ l.intent \in BOOLEAN /\ l.tags \in Nat
  BY DEF ScoredLeads
<1>2. \A given \in BOOLEAN : \A n \in Int : Points(given, n) \in Int
  BY DEF Points
<1>3. \A m \in Nat : \A n \in Int : Least(m, n) \in Int
  BY DEF Least
<1>4. \A m, n \in Int : (m * n) \in Int
  OBVIOUS
<1>5. StatusPoints(c, l.status) \in Int
  BY DEF StatusPoints, IsConfig
<1>6. /\ c.email \in Int /\ c.phone \in Int /\ c.messages \in Int /\ c.inbound \in Int /\ c.visit \in Int
      /\ c.visits \in Int /\ c.profile \in Int /\ c.intent \in Int /\ c.tags \in Int
  BY DEF IsConfig
<1> QED
  BY <1>1, <1>2, <1>3, <1>4, <1>5, <1>6, RecencyIsNumber

LEMMA TermsAre ==
  ASSUME NEW l \in ScoredLeads
  PROVE  /\ Points(l.email, 5) \in 0..5 /\ Points(l.phone, 5) \in 0..5 /\ Least(l.messages, 20) \in 0..20
         /\ Least(l.inbound, 10) \in 0..10 /\ Least(l.visits, 5) \in 0..5
         /\ StatusPoints(DefaultConfig, l.status) \in 0..15
         /\ WorkerRecency(l) \in 0..15 /\ RecencyPoints(DefaultConfig, l) = WorkerRecency(l)
         /\ Points(l.profile, 5) \in 0..5 /\ Points(l.intent, 5) \in 0..5 /\ Least(l.tags, 5) \in 0..5
<1>1. /\ l.email \in BOOLEAN /\ l.phone \in BOOLEAN /\ l.messages \in Nat /\ l.inbound \in Nat /\ l.visits \in Nat
      /\ l.status \in LeadStatuses /\ l.age \in Nat /\ l.profile \in BOOLEAN /\ l.intent \in BOOLEAN /\ l.tags \in Nat
  BY DEF ScoredLeads
<1>2. \A given \in BOOLEAN : Points(given, 5) \in 0..5
  BY DEF Points
<1>3. \A m \in Nat : Least(m, 20) \in 0..20 /\ Least(m, 10) \in 0..10 /\ Least(m, 5) \in 0..5
  BY DEF Least
<1>4. WorkerRecency(l) \in 0..15 /\ RecencyPoints(DefaultConfig, l) = WorkerRecency(l)
  BY <1>1, RecenciesAgree
<1> QED
  BY <1>1, <1>2, <1>3, <1>4, StatusPointsIs

LEMMA ScoreIsItsTerms ==
  ASSUME NEW c, IsConfig(c), NEW l \in ScoredLeads
  PROVE  /\ ScoreTerms(c, l) \in Int
         /\ ApiScore(c, l) = Clamped(ScoreTerms(c, l))
         /\ Total(Factors(c, l)) = ScoreTerms(c, l)
         /\ Breakdown(c, l) = Least(100, ScoreTerms(c, l))
<1>1. ScoreTerms(c, l) \in Int
  BY TermsAreNumbers DEF ScoreTerms
<1>2. ApiScore(c, l) = Clamped(ScoreTerms(c, l))
  BY Zenon DEF ApiScore, ScoreLead, ScoreTerms
<1> DEFINE factors == Factors(c, l)
<1>3. factors \in [FactorNames -> Int]
  <2>1. DOMAIN factors = FactorNames
    BY DEF Factors, FactorNames
  <2>2. \A f \in FactorNames : factors[f] \in Int
    BY TermsAreNumbers DEF Factors, FactorNames
  <2>3. factors = [f \in FactorNames |-> factors[f]]
    BY DEF Factors, FactorNames
  <2> QED
    BY <2>1, <2>2, <2>3
<1>4. /\ factors["email"] = Points(l.email, c.email) /\ factors["phone"] = Points(l.phone, c.phone)
      /\ factors["messages"] = Least(l.messages, c.messages) /\ factors["inbound"] = Least(l.inbound, c.inbound)
      /\ factors["visits"] = Least(l.visits, c.visits) * c.visit /\ factors["status"] = StatusPoints(c, l.status)
      /\ factors["recency"] = RecencyPoints(c, l) /\ factors["profile"] = Points(l.profile, c.profile)
      /\ factors["intent"] = Points(l.intent, c.intent) /\ factors["tags"] = Least(l.tags, c.tags)
  BY DEF Factors
<1> HIDE DEF factors
<1>5. Total(factors) = ScoreTerms(c, l)
  BY Zenon, <1>3, <1>4, TotalIs DEF ScoreTerms
<1>6. Breakdown(c, l) = Least(100, ScoreTerms(c, l))
  BY Zenon, <1>5 DEF Breakdown, factors
<1> QED
  BY Zenon, <1>1, <1>2, <1>5, <1>6 DEF factors

LEMMA DefaultScore ==
  ASSUME NEW l \in ScoredLeads
  PROVE  /\ ScoreTerms(DefaultConfig, l) \in 0..100
         /\ ScoreTerms(DefaultConfig, l) =
              Points(l.email, 5) + Points(l.phone, 5) + Least(l.messages, 20) + Least(l.inbound, 10)
              + (Least(l.visits, 5) * 3) + StatusPoints(DefaultConfig, l.status) + WorkerRecency(l)
              + Points(l.profile, 5) + Points(l.intent, 5) + Least(l.tags, 5)
         /\ ApiScore(DefaultConfig, l) = ScoreTerms(DefaultConfig, l)
         /\ WorkerScore(l) = ScoreTerms(DefaultConfig, l)
<1>1. ScoreTerms(DefaultConfig, l) =
        Points(l.email, 5) + Points(l.phone, 5) + Least(l.messages, 20) + Least(l.inbound, 10)
        + (Least(l.visits, 5) * 3) + StatusPoints(DefaultConfig, l.status) + WorkerRecency(l)
        + Points(l.profile, 5) + Points(l.intent, 5) + Least(l.tags, 5)
  <2>1. RecencyPoints(DefaultConfig, l) = WorkerRecency(l)
    BY TermsAre
  <2> QED
    BY Zenon, <2>1, DefaultIs DEF ScoreTerms
<1>2. ScoreTerms(DefaultConfig, l) \in 0..100
  BY <1>1, TermsAre
<1>3. Clamped(ScoreTerms(DefaultConfig, l)) = ScoreTerms(DefaultConfig, l)
  BY <1>2 DEF Clamped, Least
<1>4. ApiScore(DefaultConfig, l) = ScoreTerms(DefaultConfig, l)
  BY <1>3, ScoreIsItsTerms, DefaultFits
<1>5. WorkerScore(l) = ApiScore(DefaultConfig, l)
  <2>1. RecencyPoints(DefaultConfig, l) = WorkerRecency(l)
    BY TermsAre
  <2> QED
    BY Zenon, <2>1 DEF WorkerScore, ApiScore
<1> QED
  BY Zenon, <1>1, <1>2, <1>4, <1>5

(* A lead with at least as much of everything scores at least as much. *)
LEMMA ScoreGrows ==
  ASSUME NEW l \in ScoredLeads, NEW m \in ScoredLeads,
         l.email => m.email, m.phone = l.phone, l.messages <= m.messages, l.inbound <= m.inbound,
         l.visits <= m.visits, m.status = l.status, WorkerRecency(l) <= WorkerRecency(m),
         l.profile => m.profile, m.intent = l.intent, l.tags <= m.tags
  PROVE  /\ WorkerScore(m) >= WorkerScore(l)
         /\ Warmth(DefaultConfig, WorkerScore(m)) >= Warmth(DefaultConfig, WorkerScore(l))
<1>1. /\ Points(l.email, 5) <= Points(m.email, 5) /\ Points(l.profile, 5) <= Points(m.profile, 5)
  BY DEF Points
<1>2. /\ Least(l.messages, 20) <= Least(m.messages, 20) /\ Least(l.inbound, 10) <= Least(m.inbound, 10)
      /\ Least(l.visits, 5) <= Least(m.visits, 5) /\ Least(l.tags, 5) <= Least(m.tags, 5)
  BY LeastGrows DEF ScoredLeads
<1>3. ScoreTerms(DefaultConfig, l) <= ScoreTerms(DefaultConfig, m)
  <2>1. Points(m.phone, 5) = Points(l.phone, 5) /\ Points(m.intent, 5) = Points(l.intent, 5)
        /\ StatusPoints(DefaultConfig, m.status) = StatusPoints(DefaultConfig, l.status)
    BY Zenon
  <2>2. Least(l.visits, 5) * 3 <= Least(m.visits, 5) * 3
    BY <1>2, TermsAre
  <2>3. /\ Points(l.email, 5) \in Nat /\ Points(l.phone, 5) \in Nat /\ Least(l.messages, 20) \in Nat
        /\ Least(l.inbound, 10) \in Nat /\ Least(l.visits, 5) \in Nat /\ StatusPoints(DefaultConfig, l.status) \in Nat
        /\ WorkerRecency(l) \in Nat /\ Points(l.profile, 5) \in Nat /\ Points(l.intent, 5) \in Nat
        /\ Least(l.tags, 5) \in Nat
    BY TermsAre
  <2>4. /\ Points(m.email, 5) \in Nat /\ Least(m.messages, 20) \in Nat /\ Least(m.inbound, 10) \in Nat
        /\ Least(m.visits, 5) \in Nat /\ WorkerRecency(m) \in Nat /\ Points(m.profile, 5) \in Nat
        /\ Least(m.tags, 5) \in Nat
    BY TermsAre
  <2> QED
    BY <1>1, <1>2, <2>1, <2>2, <2>3, <2>4, DefaultScore
<1>4. \A x, y \in Nat : x <= y => Warmth(DefaultConfig, x) <= Warmth(DefaultConfig, y)
  BY DefaultIs DEF Warmth
<1>5. /\ WorkerScore(l) \in Nat /\ WorkerScore(m) \in Nat /\ WorkerScore(l) <= WorkerScore(m)
  BY <1>3, DefaultScore
<1>6. \A x \in Nat : Warmth(DefaultConfig, x) \in Nat
  BY DEF Warmth
<1> QED
  BY <1>4, <1>5, <1>6

LEMMA AddedScores ==
  ASSUME NEW l \in ScoredLeads, NEW m \in Added(l)
  PROVE  /\ m \in ScoredLeads /\ (l.email => m.email) /\ m.phone = l.phone /\ l.messages = m.messages
         /\ l.inbound = m.inbound /\ l.visits <= m.visits /\ m.status = l.status /\ m.age = l.age
         /\ (l.profile => m.profile) /\ m.intent = l.intent /\ l.tags <= m.tags
<1>1. CASE m = [l EXCEPT !.email = TRUE]
  <2> PICK given \in BOOLEAN : given = TRUE
    OBVIOUS
  <2>1. m = [l EXCEPT !.email = given]
    BY Zenon, <1>1
  <2>2. m \in ScoredLeads
    BY <2>1 DEF ScoredLeads
  <2>3. /\ m.phone = l.phone /\ l.messages = m.messages /\ l.inbound = m.inbound
        /\ l.visits <= m.visits /\ m.status = l.status /\ m.age = l.age /\ m.intent = l.intent /\ l.tags <= m.tags
    BY <2>1 DEF ScoredLeads
  <2>4. m.email = TRUE /\ m.profile = l.profile
    BY <1>1 DEF ScoredLeads
  <2> QED
    BY Zenon, <2>3, <2>4, <2>2
<1>2. CASE m = [l EXCEPT !.profile = TRUE]
  <2> PICK given \in BOOLEAN : given = TRUE
    OBVIOUS
  <2>1. m = [l EXCEPT !.profile = given]
    BY Zenon, <1>2
  <2>2. m \in ScoredLeads
    BY <2>1 DEF ScoredLeads
  <2>3. /\ m.phone = l.phone /\ l.messages = m.messages /\ l.inbound = m.inbound
        /\ l.visits <= m.visits /\ m.status = l.status /\ m.age = l.age /\ m.intent = l.intent /\ l.tags <= m.tags
    BY <2>1 DEF ScoredLeads
  <2>4. m.profile = TRUE /\ m.email = l.email
    BY <1>2 DEF ScoredLeads
  <2> QED
    BY Zenon, <2>3, <2>4, <2>2
<1>3. CASE m = [l EXCEPT !.visits = @ + 1]
  BY <1>3 DEF ScoredLeads
<1>4. CASE m = [l EXCEPT !.tags = @ + 1]
  BY <1>4 DEF ScoredLeads
<1> QED
  BY <1>1, <1>2, <1>3, <1>4 DEF Added

LEMMA MessageScores ==
  ASSUME NEW l \in ScoredLeads, NEW ofLead \in BOOLEAN, NEW m \in NewMessage(l, ofLead)
  PROVE  /\ m \in ScoredLeads /\ m.email = l.email /\ m.phone = l.phone /\ m.messages = l.messages + 1
         /\ m.visits = l.visits /\ m.status = l.status /\ m.age = 0
         /\ m.profile = l.profile /\ m.intent = l.intent /\ m.tags = l.tags
         /\ m.inbound < l.inbound => l.messages >= CountedMessages /\ ~ofLead
<1>1. PICK n \in -1..1 : m = [l EXCEPT !.messages = @ + 1, !.age = 0, !.inbound = @ + n]
  BY DEF NewMessage
<1>2. m.inbound - l.inbound \in IF l.messages < CountedMessages THEN {IF ofLead THEN 1 ELSE 0}
                                ELSE IF ofLead THEN {0, 1} ELSE {-1, 0}
  BY DEF NewMessage
<1>3. m.inbound \in 0..Least(m.messages, CountedMessages)
  BY DEF NewMessage
<1>4. l.inbound \in Nat /\ l.messages \in Nat /\ m.inbound = l.inbound + n
  BY <1>1 DEF ScoredLeads
<1>5. m.inbound \in Nat
  BY <1>1, <1>3, <1>4
<1>6. m \in ScoredLeads
  <2>1. PICK k \in Nat : k = l.inbound + n
    BY <1>4, <1>5
  <2>2. m = [l EXCEPT !.messages = l.messages + 1, !.age = 0, !.inbound = k]
    BY Zenon, <1>1, <2>1
  <2>3. l.messages + 1 \in Nat
    BY <1>4
  <2> QED
    BY <2>2, <2>3 DEF ScoredLeads
<1>7. m.inbound < l.inbound => l.messages >= CountedMessages /\ ~ofLead
  BY <1>2, <1>4, <1>5 DEF CountedMessages
<1> QED
  BY <1>1, <1>6, <1>7 DEF ScoredLeads

(* Without SCORING_CONFIG the API and the worker give any lead one score, at most 100; with any     *)
(* other weights the breakdown has the score and the temperature of the API while the sum is a      *)
(* score; and nothing that is added lowers the worker's but a message of an agent that leaves one   *)
(* of the lead uncounted (ScoresAgree).                                                             *)
THEOREM ScoresOfAnyLeadAgree ==
  ASSUME question.kind = "score" => question.lead \in ScoredLeads /\ IsConfig(question.config)
  PROVE  ScoresAgree
<1> SUFFICES ASSUME NEW l \in ScoredLeads, NEW c, IsConfig(c)
             PROVE  /\ c = DefaultConfig => ApiScore(c, l) = WorkerScore(l) /\ Total(Factors(c, l)) <= 100
                    /\ ApiScore(c, l) \in 0..100
                    /\ Total(Factors(c, l)) >= 0 => Breakdown(c, l) = ApiScore(c, l)
                    /\ Total(Factors(c, l)) \in 0..100 => Warmth(c, Total(Factors(c, l))) = Warmth(c, ApiScore(c, l))
                    /\ \A m \in Added(l) \cup NewMessage(l, TRUE) :
                         /\ WorkerScore(m) >= WorkerScore(l)
                         /\ Warmth(DefaultConfig, WorkerScore(m)) >= Warmth(DefaultConfig, WorkerScore(l))
                    /\ \A m \in NewMessage(l, FALSE) :
                         \/ WorkerScore(m) >= WorkerScore(l)
                         \/ m.inbound < l.inbound /\ l.messages >= CountedMessages
  BY Zenon DEF ScoresAgree
<1>1. /\ c = DefaultConfig => ApiScore(c, l) = WorkerScore(l) /\ Total(Factors(c, l)) <= 100
      /\ ApiScore(c, l) \in 0..100
      /\ Total(Factors(c, l)) >= 0 => Breakdown(c, l) = ApiScore(c, l)
      /\ Total(Factors(c, l)) \in 0..100 => Warmth(c, Total(Factors(c, l))) = Warmth(c, ApiScore(c, l))
  <2>1. PICK sum \in Int : sum = ScoreTerms(c, l)
    BY ScoreIsItsTerms
  <2>2. ApiScore(c, l) = Clamped(sum) /\ Total(Factors(c, l)) = sum /\ Breakdown(c, l) = Least(100, sum)
    BY <2>1, ScoreIsItsTerms
  <2>3. /\ Clamped(sum) \in 0..100
        /\ sum >= 0 => Clamped(sum) = Least(100, sum)
        /\ sum \in 0..100 => Clamped(sum) = sum
    BY DEF Clamped, Least
  <2>4. c = DefaultConfig => ApiScore(c, l) = WorkerScore(l) /\ sum <= 100
    BY <2>1, DefaultScore
  <2> QED
    BY <2>2, <2>3, <2>4
<1>2. l.messages \in Nat /\ l.inbound \in Nat /\ l.visits \in Nat /\ l.tags \in Nat /\ l.age \in Nat
  BY DEF ScoredLeads
<1>3. ASSUME NEW m \in Added(l)
      PROVE  /\ WorkerScore(m) >= WorkerScore(l)
             /\ Warmth(DefaultConfig, WorkerScore(m)) >= Warmth(DefaultConfig, WorkerScore(l))
  <2>1. /\ m \in ScoredLeads /\ (l.email => m.email) /\ m.phone = l.phone /\ l.messages = m.messages
        /\ l.inbound = m.inbound /\ l.visits <= m.visits /\ m.status = l.status /\ m.age = l.age
        /\ (l.profile => m.profile) /\ m.intent = l.intent /\ l.tags <= m.tags
    BY AddedScores
  <2>2. WorkerRecency(m) = WorkerRecency(l)
    <3>1. m.messages \in Nat /\ m.age \in Nat /\ m.messages = l.messages /\ m.age = l.age
      BY <1>2, <2>1
    <3> QED
      BY <1>2, <3>1, WorkerRecencyIs
  <2>3. WorkerRecency(l) <= WorkerRecency(m) /\ l.messages <= m.messages /\ l.inbound <= m.inbound
    BY <1>2, <2>1, <2>2, TermsAre
  <2> QED
    BY <2>1, <2>3, ScoreGrows
<1>4. ASSUME NEW ofLead \in BOOLEAN, NEW m \in NewMessage(l, ofLead)
      PROVE  \/ /\ WorkerScore(m) >= WorkerScore(l)
                /\ Warmth(DefaultConfig, WorkerScore(m)) >= Warmth(DefaultConfig, WorkerScore(l))
             \/ m.inbound < l.inbound /\ l.messages >= CountedMessages /\ ~ofLead
  <2>1. /\ m \in ScoredLeads /\ m.email = l.email /\ m.phone = l.phone /\ m.messages = l.messages + 1
        /\ m.visits = l.visits /\ m.status = l.status /\ m.age = 0
        /\ m.profile = l.profile /\ m.intent = l.intent /\ m.tags = l.tags
        /\ m.inbound < l.inbound => l.messages >= CountedMessages /\ ~ofLead
    BY MessageScores
  <2>2. SUFFICES ASSUME ~(m.inbound < l.inbound)
                 PROVE  /\ WorkerScore(m) >= WorkerScore(l)
                        /\ Warmth(DefaultConfig, WorkerScore(m)) >= Warmth(DefaultConfig, WorkerScore(l))
    BY <2>1
  <2>3. m.inbound \in Nat /\ m.messages \in Nat /\ m.age \in Nat
    BY <2>1 DEF ScoredLeads
  <2>4. WorkerRecency(m) = 15
    BY <1>2, <2>1, <2>3, WorkerRecencyIs
  <2>5. WorkerRecency(l) <= WorkerRecency(m)
    BY <2>4, TermsAre
  <2>6. l.messages <= m.messages /\ l.inbound <= m.inbound /\ l.visits <= m.visits /\ l.tags <= m.tags
    BY <1>2, <2>1, <2>2, <2>3
  <2> QED
    BY <2>1, <2>5, <2>6, ScoreGrows
<1>5. \A m \in NewMessage(l, TRUE) :
        /\ WorkerScore(m) >= WorkerScore(l)
        /\ Warmth(DefaultConfig, WorkerScore(m)) >= Warmth(DefaultConfig, WorkerScore(l))
  BY Zenon, <1>4
<1>6. \A m \in NewMessage(l, FALSE) :
        \/ WorkerScore(m) >= WorkerScore(l)
        \/ m.inbound < l.inbound /\ l.messages >= CountedMessages
  BY Zenon, <1>4
<1> QED
  BY Zenon, <1>1, <1>3, <1>5, <1>6

-----------------------------------------------------------------------------
(* The questions of the run *)

LEMMA SlotQuestionsFit ==
  ASSUME NEW x \in SlotQuestions
  PROVE  IsAvailable(x.a) /\ AreVisits(x.visits) /\ x.now \in Nat
<1>1. x.a \in Availabilities /\ x.now \in {0, 1, Hour + 1, Day}
      /\ x.visits \in {{Visit(t, n)} : t \in 0..(Day * (DaysAhead + 1) - 1), n \in {1, 2}}
                      \cup {{Visit(t, 1), Visit(Day, 1)} : t \in {0, Hour}}
  BY DEF SlotQuestions
<1>2. Day \in Nat /\ Hour = 2 /\ Day >= Hour /\ DaysAhead \in Nat
  <2>1. Day = 2 * HoursADay /\ HoursADay \in Nat \ {0} /\ Hour = 2 /\ DaysAhead \in Nat
    BY DayFacts
  <2> QED
    BY <2>1
<1>3. IsAvailable(x.a)
  <2>1. /\ x.a.days \in {0..DaysAhead, {1}} /\ x.a.start \in {0, 1, Hour} /\ x.a.end \in {Day - Hour, Day - 1, Day}
    BY <1>1 DEF Availabilities
  <2> QED
    BY <1>2, <2>1 DEF IsAvailable
<1>4. AreVisits(x.visits)
  <2>1. \A t \in Nat, n \in {1, 2} : Visit(t, n).start \in Nat /\ Visit(t, n).end \in Nat
    BY <1>2 DEF Visit
  <2>2. CASE x.visits \in {{Visit(t, n)} : t \in 0..(Day * (DaysAhead + 1) - 1), n \in {1, 2}}
    <3>1. PICK t \in 0..(Day * (DaysAhead + 1) - 1), n \in {1, 2} : x.visits = {Visit(t, n)}
      BY <2>2
    <3>2. t \in Nat
      OBVIOUS
    <3> QED
      BY <2>1, <3>1, <3>2 DEF AreVisits
  <2>3. CASE x.visits \in {{Visit(t, 1), Visit(Day, 1)} : t \in {0, Hour}}
    <3>1. PICK t \in {0, Hour} : x.visits = {Visit(t, 1), Visit(Day, 1)}
      BY <2>3
    <3> QED
      BY <1>2, <2>1, <3>1 DEF AreVisits
  <2> QED
    BY <1>1, <2>2, <2>3
<1>5. x.now \in Nat
  BY <1>1, <1>2
<1> QED
  BY <1>3, <1>4, <1>5

LEMMA HourQuestionsFit ==
  ASSUME HoursADay > 1, NEW x \in HourQuestions
  PROVE  AreHours(x.schedule) /\ x.now \in Nat
<1>1. Day \in Nat /\ Hour = 2 /\ Day >= 4
  <2>1. Day = 2 * HoursADay /\ HoursADay \in Nat \ {0} /\ Hour = 2
    BY DayFacts
  <2> QED
    BY <2>1
<1>2. PICK d \in Entries, e \in Entries : x.schedule = {d, e}
  BY DEF HourQuestions
<1>3. \A c \in Entries : c.day \in 0..6 /\ c.from \in Nat /\ c.to \in Nat /\ c.from < c.to /\ c.to <= Day
  BY <1>1 DEF Entries
<1>4. x.now \in 0..(Week - 1)
  BY DEF HourQuestions
<1> QED
  BY <1>2, <1>3, <1>4 DEF AreHours

LEMMA ConditionQuestionsFit ==
  ASSUME NEW x \in ConditionQuestions
  PROVE  /\ x.op \in {"eq", "gt", "gte", "contains"} /\ IsValue(x.value)
         /\ IsValue(x.ctx) \/ x.ctx = Absent
<1>1. \A word, upper : IsValue(Text(word, upper))
  BY DEF IsValue
<1>2. \A n \in Int : IsValue(Num(n))
  BY DEF IsValue
<1>3. \A v \in Values : IsValue(v)
  <2>1. /\ IsValue(Text("house", FALSE)) /\ IsValue(Text("house", TRUE)) /\ IsValue(Text("use", FALSE))
        /\ IsValue(Text("1", FALSE)) /\ IsValue(Num(0)) /\ IsValue(Num(1))
    <3>1. IsValue(Num(0)) /\ IsValue(Num(1))
      BY <1>2
    <3> QED
      BY Zenon, <1>1, <3>1
  <2> QED
    BY Zenon, <2>1 DEF Values
<1> QED
  BY <1>3 DEF ConditionQuestions

LEMMA LeadQuestionsFit ==
  LeadRows \subseteq ScoredLeads
<1> SUFFICES ASSUME NEW l \in LeadRows PROVE l \in ScoredLeads
  OBVIOUS
<1>1. {"NEW", "WON", "LOST"} \subseteq LeadStatuses /\ CountedMessages = 50
  BY DEF LeadStatuses, CountedMessages
<1>2. l \in [email : BOOLEAN, phone : {TRUE}, messages : {0, 19, 20, CountedMessages, CountedMessages + 1},
              inbound : {0, 9, 11, CountedMessages}, visits : {0, 4, 6}, status : {"NEW", "WON", "LOST"},
              age : {0, 2, 6, 7, 14, 29, 30}, profile : BOOLEAN, intent : {FALSE}, tags : {0, 4, 6}]
  BY DEF LeadRows
<1>3. l = [email |-> l.email, phone |-> l.phone, messages |-> l.messages, inbound |-> l.inbound,
           visits |-> l.visits, status |-> l.status, age |-> l.age, profile |-> l.profile,
           intent |-> l.intent, tags |-> l.tags]
  BY <1>2
<1>4. /\ l.messages \in {0, 19, 20, CountedMessages, CountedMessages + 1} /\ l.inbound \in {0, 9, 11, CountedMessages}
      /\ l.visits \in {0, 4, 6} /\ l.age \in {0, 2, 6, 7, 14, 29, 30} /\ l.tags \in {0, 4, 6}
      /\ l.status \in {"NEW", "WON", "LOST"}
      /\ l.email \in BOOLEAN /\ l.phone \in {TRUE} /\ l.profile \in BOOLEAN /\ l.intent \in {FALSE}
  BY <1>2
<1>5. l.messages \in Nat /\ l.inbound \in Nat /\ l.visits \in Nat /\ l.age \in Nat /\ l.tags \in Nat
  BY <1>1, <1>4
<1>6. l.phone \in BOOLEAN /\ l.intent \in BOOLEAN /\ l.status \in LeadStatuses
  BY <1>1, <1>4
<1> QED
  BY <1>3, <1>4, <1>5, <1>6 DEF ScoredLeads

LEMMA OverridesFit ==
  ASSUME NEW c \in Overrides
  PROVE  IsConfig(c)
<1>1. CASE c = [DefaultConfig EXCEPT !.visit = 15, !.hot = 110]
  <2>1. /\ c.visit = 15 /\ c.hot = 110 /\ c.email = 5 /\ c.phone = 5 /\ c.messages = 20 /\ c.inbound = 10
        /\ c.visits = 5 /\ c.profile = 5 /\ c.intent = 5 /\ c.tags = 5 /\ c.warm = 30
        /\ c.status = DefaultConfig.status /\ c.brackets = DefaultConfig.brackets
    BY <1>1 DEF DefaultConfig
  <2> QED
    BY <2>1, DefaultFits DEF IsConfig
<1>2. CASE c = [DefaultConfig EXCEPT !.status = [s \in {"LOST"} |-> -40]]
  <2>1. /\ c.visit = 3 /\ c.hot = 60 /\ c.email = 5 /\ c.phone = 5 /\ c.messages = 20 /\ c.inbound = 10
        /\ c.visits = 5 /\ c.profile = 5 /\ c.intent = 5 /\ c.tags = 5 /\ c.warm = 30
        /\ c.status = [s \in {"LOST"} |-> -40] /\ c.brackets = DefaultConfig.brackets
    BY <1>2 DEF DefaultConfig
  <2>2. \A s \in DOMAIN c.status : c.status[s] \in Int
    BY <2>1
  <2> QED
    BY <2>1, <2>2, DefaultFits DEF IsConfig
<1>3. CASE c = [DefaultConfig EXCEPT !.brackets = <<<<30, 5>>, <<1, 15>>>>, !.messages = 60]
  <2>1. /\ c.visit = 3 /\ c.hot = 60 /\ c.email = 5 /\ c.phone = 5 /\ c.messages = 60 /\ c.inbound = 10
        /\ c.visits = 5 /\ c.profile = 5 /\ c.intent = 5 /\ c.tags = 5 /\ c.warm = 30
        /\ c.status = DefaultConfig.status /\ c.brackets = <<<<30, 5>>, <<1, 15>>>>
    BY <1>3 DEF DefaultConfig
  <2>2. /\ DOMAIN c.brackets = 1..2
        /\ c.brackets[1][1] = 30 /\ c.brackets[1][2] = 5 /\ c.brackets[2][1] = 1 /\ c.brackets[2][2] = 15
    BY <2>1
  <2>3. \A i \in 1..2 : c.brackets[i][1] \in Int /\ c.brackets[i][2] \in Int
    <3>1. \A i \in 1..2 : i = 1 \/ i = 2
      OBVIOUS
    <3> QED
      BY <2>2, <3>1
  <2> QED
    BY <2>1, <2>2, <2>3, DefaultFits DEF IsConfig
<1> QED
  BY <1>1, <1>2, <1>3 DEF Overrides

LEMMA ScoreQuestionsFit ==
  ASSUME NEW x \in ScoreQuestions
  PROVE  x.lead \in ScoredLeads /\ IsConfig(x.config)
<1>1. x.lead \in LeadRows /\ x.config \in Overrides \cup {DefaultConfig}
  BY DEF ScoreQuestions
<1> QED
  BY <1>1, LeadQuestionsFit, OverridesFit, DefaultFits

(* Whatever is asked of the functions, the API and the worker give one answer, but  *)
(* for the scores of an API with weights of its own, and                            *)
(* the right one, for any number of hours of a day, but one, and days ahead; the    *)
(* four theorems above say it of any availability, lead, schedule and condition     *)
(* (FunctionsAgree).                                                                *)
THEOREM FunctionsAnswerAlike ==
  ASSUME HoursADay > 1
  PROVE  DashboardSpec => []FunctionsAgree
<1> DEFINE Asked == topic = "functions" =>
                      question \in SlotQuestions \cup ScoreQuestions
                                   \cup HourQuestions \cup ConditionQuestions
<1>1. DashboardInit => Asked
  BY DEF DashboardInit, FunctionInit
<1>2. Asked /\ [DashboardNext]_dashboardVars => Asked'
  BY DEF DashboardNext, dashboardVars
<1>3. Asked => FunctionsAgree
  <2> SUFFICES ASSUME question \in SlotQuestions \cup ScoreQuestions
                                   \cup HourQuestions \cup ConditionQuestions
               PROVE  WorkerOffersWhatIsFree /\ ScoresAgree /\ NextStartIsOpening /\ ConditionsAreConsistent
    BY DEF FunctionsAgree
  <2>1. /\ question \in SlotQuestions => question.kind = "slots"
        /\ question \in ScoreQuestions => question.kind = "score"
        /\ question \in HourQuestions => question.kind = "hours"
        /\ question \in ConditionQuestions => question.kind = "condition"
    BY DEF SlotQuestions, ScoreQuestions, HourQuestions, ConditionQuestions
  <2>2. /\ question.kind = "slots" => question \in SlotQuestions
        /\ question.kind = "score" => question \in ScoreQuestions
        /\ question.kind = "hours" => question \in HourQuestions
        /\ question.kind = "condition" => question \in ConditionQuestions
    BY <2>1
  <2>3. WorkerOffersWhatIsFree
    BY <2>2, SlotQuestionsFit, WorkerOffersAnyFree
  <2>4. ScoresAgree
    BY <2>2, ScoreQuestionsFit, ScoresOfAnyLeadAgree
  <2>5. NextStartIsOpening
    BY <2>2, HourQuestionsFit, NextStartIsAnyOpening
  <2>6. ConditionsAreConsistent
    BY <2>2, ConditionQuestionsFit, AnyConditionIsConsistent
  <2> QED
    BY <2>3, <2>4, <2>5, <2>6
<1> QED
  BY <1>1, <1>2, <1>3, PTL DEF DashboardSpec
=============================================================================
