----------------------------- MODULE VisitCalendar -----------------------------
(* VisitsService and GoogleCalendarService: the visits of a tenant and their     *)
(* events in the agents' Google calendars.  A request answers without waiting    *)
(* for Google, so the calls it starts run beside later requests and beside each  *)
(* other; each reads the agent's refresh token first and may fail at every step. *)
EXTENDS Integers, FiniteSets

CONSTANTS Visits, Agents, None,
          MaxEdits,       \* bound: requests that change or remove a visit
          MaxTurns,       \* bound: what users and Google do to a connection
          MaxMishaps      \* bound: requests that fail, replies lost, restarts

ASSUME CalendarAssumption ==
  /\ None \notin Agents
  /\ MaxEdits \in Nat /\ MaxTurns \in Nat /\ MaxMishaps \in Nat

VARIABLES
  visit,        \* the row: [at, agent, edition, event]; edition counts what Google shows
  grant,        \* googleCalendarRefreshToken of each agent: a number, 0 for null
  revoked,      \* refresh tokens that Google refuses
  google,       \* the event of each visit: [owner, edition], or NoEvent
  calls,        \* calls under way: [kind, visit, agent, edition, step, token]
  why,          \* reasons why a visit and its event may disagree
  edits, turns, mishaps

calendarVars == <<visit, grant, revoked, google, calls, why, edits, turns, mishaps>>
connection == <<grant, revoked>>
limits == <<edits, turns, mishaps>>

NoEvent == [owner |-> None, edition |-> 0]
Reasons == {"unsent", "overlap", "moved", "missed", "orphaned"}
Row(at, agent, edition, e) == [at |-> at, agent |-> agent, edition |-> edition, event |-> e]
Call(kind, v, row) ==
  [kind |-> kind, visit |-> v, agent |-> row.agent, edition |-> row.edition, step |-> "token", token |-> 0]

CalendarInit ==
  /\ visit = [v \in Visits |-> Row("unborn", None, 0, FALSE)]
  /\ grant = [a \in Agents |-> 0] /\ revoked = {}
  /\ google = [v \in Visits |-> NoEvent]
  /\ calls = {} /\ why = [v \in Visits |-> {}]
  /\ edits = 0 /\ turns = 0 /\ mishaps = 0

CallsOf(v) == {c \in calls : c.visit = v}
Edit == edits < MaxEdits /\ edits' = edits + 1 /\ UNCHANGED <<turns, mishaps>>
Turn == turns < MaxTurns /\ turns' = turns + 1 /\ UNCHANGED <<edits, mishaps>>
Mishap == mishaps < MaxMishaps /\ mishaps' = mishaps + 1 /\ UNCHANGED <<edits, turns>>
Blame(v, reasons) == why' = [why EXCEPT ![v] = @ \cup reasons]

\* create: the event is asked for when there is an agent; nobody waits for it
Create(v, a) ==
  /\ visit[v].at = "unborn" /\ visit' = [visit EXCEPT ![v] = Row("booked", a, 1, FALSE)]
  /\ calls' = IF a = None THEN calls ELSE calls \cup {Call("create", v, visit'[v])}
  /\ Blame(v, IF a = None THEN {"unsent"} ELSE {})
  /\ UNCHANGED <<connection, google, limits>>

\* the visit the AI agrees with a lead: the same row, and no event
CreateByAi(v, a) ==
  /\ visit[v].at = "unborn" /\ visit' = [visit EXCEPT ![v] = Row("booked", a, 1, FALSE)]
  /\ Blame(v, {"unsent"}) /\ UNCHANGED <<connection, google, calls, limits>>

\* what Google can be told of: an event that is known, in the calendar of an agent
Sendable_NoAgent(row) == row.event
Sendable(row) == row.event /\ row.agent # None

\* update: the row returned, with its agent and its event id, is what is sent
SentRow_Before(v, row) == [row EXCEPT !.edition = visit[v].edition]
SentRow(v, row) == row
Update(v, a) ==
  /\ Edit /\ visit[v].at = "booked"
  /\ LET row == [visit[v] EXCEPT !.agent = a, !.edition = @ + 1]
         tells == Sendable(row)
         alone == CallsOf(v) = {}
     IN /\ visit' = [visit EXCEPT ![v] = row]
        /\ calls' = IF tells THEN calls \cup {Call("update", v, SentRow(v, row))} ELSE calls
        /\ why' = [why EXCEPT ![v] =
             IF tells /\ alone /\ google[v].owner = a THEN {}
             ELSE @ \cup (IF alone THEN {} ELSE {"overlap"})
                    \cup (IF a = visit[v].agent THEN {} ELSE {"moved"})]
  /\ UNCHANGED <<connection, google>>

\* remove: the row is read, the deletion of its event started, then the row deleted
Remove(v) ==
  /\ Edit /\ visit[v].at = "booked" /\ ~\E c \in CallsOf(v) : c.kind = "row"
  /\ calls' = calls \cup {[Call("row", v, visit[v]) EXCEPT !.step = "store"]}
                    \cup (IF Sendable(visit[v]) THEN {Call("delete", v, visit[v])} ELSE {})
  /\ Blame(v, IF CallsOf(v) = {} THEN {} ELSE {"overlap"})
  /\ UNCHANGED <<visit, connection, google>>

\* deleting a lead takes its visits along; nobody tells Google of their events
LoseVisits(S) ==
  /\ Edit /\ S # {} /\ \A v \in S : visit[v].at = "booked"
  /\ visit' = [v \in Visits |-> IF v \in S THEN [visit[v] EXCEPT !.at = "gone"] ELSE visit[v]]
  /\ why' = [v \in Visits |-> IF v \in S THEN why[v] \cup {"orphaned"} ELSE why[v]]
  /\ UNCHANGED <<connection, google, calls>>

Ends(c) == calls' = calls \ {c}
Goes(c, d) == calls' = (calls \ {c}) \cup {d}

\* getAccessToken: the stored refresh token, or null
ReadToken(c) ==
  /\ c.step = "token"
  /\ IF grant[c.agent] = 0 THEN Ends(c) /\ Blame(c.visit, {"missed"})
     ELSE Goes(c, [c EXCEPT !.step = "refresh", !.token = grant[c.agent]]) /\ UNCHANGED why
  /\ UNCHANGED <<visit, connection, google, limits>>

\* the token is exchanged; what Google refuses disconnects the user, whatever is stored by now
Refresh(c) ==
  /\ c.step = "refresh"
  /\ IF c.token \in revoked
     THEN /\ grant' = [grant EXCEPT ![c.agent] = 0]
          /\ Ends(c) /\ Blame(c.visit, {"missed"})
     ELSE Goes(c, [c EXCEPT !.step = "request"]) /\ UNCHANGED <<grant, why>>
  /\ UNCHANGED <<visit, revoked, google, limits>>

\* and so does any other answer that is not a token: too many requests, an error of Google
AnswerIsError(c) ==
  /\ Turn /\ c.step = "refresh"
  /\ grant' = [grant EXCEPT ![c.agent] = 0]
  /\ Ends(c) /\ Blame(c.visit, {"missed"})
  /\ UNCHANGED <<visit, revoked, google>>

\* what Google does: an event is found in the calendar of its owner only
Applied(c) ==
  CASE c.kind = "create" -> [google EXCEPT ![c.visit] = [owner |-> c.agent, edition |-> c.edition]]
    [] c.kind # "create" /\ google[c.visit].owner # c.agent -> google
    [] OTHER -> [google EXCEPT ![c.visit] =
                   IF c.kind = "delete" THEN NoEvent ELSE [@ EXCEPT !.edition = c.edition]]

\* POST, PATCH or DELETE; the answer to POST brings the id to be stored
Request(c) ==
  /\ c.step = "request" /\ google' = Applied(c)
  /\ IF c.kind = "create" THEN Goes(c, [c EXCEPT !.step = "store"]) ELSE Ends(c)
  /\ UNCHANGED <<visit, connection, why, limits>>

\* syncCreateToGoogle: the id is written by the id of the row, which may be gone
Store(c) ==
  /\ c.step = "store" /\ c.kind = "create" /\ Ends(c)
  /\ visit' = IF visit[c.visit].at = "booked" THEN [visit EXCEPT ![c.visit].event = TRUE] ELSE visit
  /\ UNCHANGED <<connection, google, why, limits>>

\* remove: an edit that came in between is lost with the row
DeleteRow(c) ==
  /\ c.step = "store" /\ c.kind = "row" /\ Ends(c)
  /\ visit' = [visit EXCEPT ![c.visit].at = "gone"]
  /\ UNCHANGED <<connection, google, why, limits>>

AfterNetworkError_Disconnects(c) == [grant EXCEPT ![c.agent] = 0]
\* a request that throws ends the call with a warning and leaves the user connected
AfterNetworkError(c) == grant
CallFails(c) ==
  /\ Mishap /\ c.kind # "row" /\ Ends(c) /\ Blame(c.visit, {"missed"})
  /\ grant' = IF c.step = "refresh" THEN AfterNetworkError(c) ELSE grant
  /\ UNCHANGED <<visit, revoked, google>>
\* the answer of Google is lost, and createEvent returns null
ReplyLost(c) ==
  /\ Mishap /\ c.step = "request" /\ google' = Applied(c)
  /\ Ends(c) /\ Blame(c.visit, {"missed"}) /\ UNCHANGED <<visit, connection>>
\* the API restarts: what was under way is forgotten
ApiRestart ==
  /\ Mishap /\ calls # {} /\ calls' = {}
  /\ why' = [v \in Visits |-> IF CallsOf(v) = {} THEN why[v] ELSE why[v] \cup {"missed"}]
  /\ UNCHANGED <<visit, connection, google>>

\* handleCallback, disconnect, and an access withdrawn at Google
Callback(a) ==
  /\ Turn /\ grant' = [grant EXCEPT ![a] = turns + 1]
  /\ UNCHANGED <<visit, revoked, google, calls, why>>
Disconnect(a) ==
  /\ Turn /\ grant[a] # 0 /\ grant' = [grant EXCEPT ![a] = 0]
  /\ UNCHANGED <<visit, revoked, google, calls, why>>
Withdraw(a) ==
  /\ Turn /\ grant[a] \notin revoked \cup {0} /\ revoked' = revoked \cup {grant[a]}
  /\ UNCHANGED <<visit, grant, google, calls, why>>

Book == \E v \in Visits, a \in Agents \cup {None} : Create(v, a) \/ CreateByAi(v, a) \/ Update(v, a)
Underway == \E c \in calls :
  ReadToken(c) \/ Refresh(c) \/ AnswerIsError(c) \/ Request(c) \/ Store(c) \/ DeleteRow(c) \/ CallFails(c) \/ ReplyLost(c)
CalendarNext ==
  \/ Book \/ (\E v \in Visits : Remove(v)) \/ (\E S \in SUBSET Visits : LoseVisits(S)) \/ Underway \/ ApiRestart
  \/ \E a \in Agents : Callback(a) \/ Disconnect(a) \/ Withdraw(a)

-----------------------------------------------------------------------------
(* Properties.                                                                  *)

CalendarTypeOK ==
  /\ visit \in [Visits -> [at : {"unborn", "booked", "gone"}, agent : Agents \cup {None},
                           edition : 0..(MaxEdits + 1), event : BOOLEAN]]
  /\ grant \in [Agents -> 0..MaxTurns] /\ revoked \subseteq 1..MaxTurns
  /\ \A v \in Visits : why[v] \subseteq Reasons /\ google[v].owner \in Agents \cup {None}
  /\ \A c \in calls : c.agent = None => c.kind = "row"

\* When nothing of a visit is under way, its event shows the visit as it is, in the
\* calendar of its agent, and a removed visit has none; unless it was never sent, a
\* request overlapped a call, the agent changed, a call failed, or its lead was deleted,
\* which leaves the event at Google (leads.service.ts:292).  An edit made alone for a
\* known event puts everything right again (visits.service.ts:150, 188).
EventAgrees ==
  \A v \in Visits : CallsOf(v) = {} /\ why[v] = {} =>
    google[v] = IF visit[v].at = "booked" THEN [owner |-> visit[v].agent, edition |-> visit[v].edition]
                ELSE NoEvent

\* A connection whose token Google accepts outlives a call that is thrown, a lost answer
\* and a restart: but for its user and an error answered by the token endpoint, only a
\* call that still holds an older token ends it (google-calendar.service.ts:150).
ConnectionIsKept ==
  [][\A a \in Agents : grant[a] \notin revoked \cup {0} /\ grant'[a] = 0 /\ turns' = turns =>
        \E c \in calls : c.agent = a /\ c.token \in revoked /\ c.token < grant[a]]_calendarVars
=============================================================================
