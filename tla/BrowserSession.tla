---------------------------- MODULE BrowserSession ----------------------------
(* AuthProvider: the session of a browser.  Its tabs share one entry of         *)
(* localStorage, and each keeps a user and an access token of its own.  A tab   *)
(* renews the token when it opens, when a timer fires and at every 401, and     *)
(* what comes back is written over whatever is stored by then.                  *)
EXTENDS Integers, FiniteSets

CONSTANTS Tabs, People,
          NoOne,
          RenewalLimit,      \* POST /auth/refresh per minute
          MaxTabCalls,       \* bound: calls under way in a tab
          MaxSessionMoves    \* bound: tabs opened, people coming and going, time passing, failures

ASSUME SessionAssumption ==
  /\ NoOne \notin People /\ RenewalLimit \in Nat \ {0}
  /\ MaxTabCalls \in Nat \ {0} /\ MaxSessionMoves \in Nat

VARIABLES
  storage,      \* the entry: [user, fresh]; fresh until the last minute of its access token
  tab,          \* each tab: [phase, user, owner (of the token), fresh, timer]
  tabCalls,     \* the calls of each tab, by number: [kind, user] as read before the call
  barred,       \* people whose refresh token the API refuses
  renewals,     \* refreshes asked for within the minute
  left,         \* the user logged out, with no call under way in any tab, and nobody logged in since
  disturbed,    \* tabs of one person while another's session is stored, and those left in mid-call
  sessionMoves

sessionVars == <<storage, tab, tabCalls, barred, renewals, left, disturbed, sessionMoves>>

NoEntry == [user |-> NoOne, fresh |-> FALSE]
Entry(u) == [user |-> u, fresh |-> TRUE]
Page(phase) == [phase |-> phase, user |-> NoOne, owner |-> NoOne, fresh |-> FALSE, timer |-> FALSE]
Numbers == 1..MaxTabCalls
NoTabCall == [kind |-> "none", user |-> NoOne]
NoCalls == [n \in Numbers |-> NoTabCall]
Busy(t) == {n \in Numbers : tabCalls[t][n].kind # "none"}

SessionInit ==
  /\ storage = NoEntry /\ tab = [t \in Tabs |-> Page("closed")] /\ tabCalls = [t \in Tabs |-> NoCalls]
  /\ barred = {} /\ renewals = 0 /\ left = FALSE /\ disturbed = {} /\ sessionMoves = 0

SessionMove == sessionMoves < MaxSessionMoves /\ sessionMoves' = sessionMoves + 1
\* counted up to one more than the limit
Renews == renewals' = IF renewals > RenewalLimit THEN renewals ELSE renewals + 1
Begins(t, n, kind, u) ==
  /\ tabCalls[t][n].kind = "none" /\ tabCalls' = [tabCalls EXCEPT ![t][n] = [kind |-> kind, user |-> u]]
Over(t, n) == tabCalls' = [tabCalls EXCEPT ![t][n] = NoTabCall]
\* who sees, after this step, the session of somebody else
Strangers == {s \in Tabs : tab'[s].user # NoOne /\ storage'.user \notin {NoOne, tab'[s].user}}
Disturbs(S) == disturbed' = disturbed \cup S \cup Strangers

\* the page loads: no session, one whose token is still good, or one to be renewed first
Open(t) ==
  /\ SessionMove /\ storage' = storage /\ UNCHANGED <<barred, left>>
  /\ IF storage = NoEntry \/ storage.fresh
     THEN /\ tab' = [tab EXCEPT ![t] =
               [Page("ready") EXCEPT !.user = storage.user, !.owner = storage.user,
                                     !.fresh = storage.fresh, !.timer = storage.fresh]]
          /\ tabCalls' = [tabCalls EXCEPT ![t] = NoCalls] /\ UNCHANGED renewals
     ELSE /\ tab' = [tab EXCEPT ![t] = Page("loading")] /\ Renews
          /\ tabCalls' = [tabCalls EXCEPT ![t] = [NoCalls EXCEPT ![1] = [kind |-> "restore", user |-> storage.user]]]
  /\ disturbed' = disturbed \ {t}

\* logout, and the way to the login page, which loads it anew
LogsOut(t) == tab' = [tab EXCEPT ![t] = Page("closed")] /\ storage' = NoEntry
\* a request of a page was answered with 401: renew, or leave
Unauthorized(t, n) ==
  /\ tab[t].phase = "ready" /\ tab[t].owner # NoOne /\ ~tab[t].fresh
  /\ IF storage = NoEntry
     THEN LogsOut(t) /\ tabCalls' = [tabCalls EXCEPT ![t] = NoCalls] /\ UNCHANGED renewals
     ELSE Begins(t, n, "handler", storage.user) /\ Renews /\ UNCHANGED <<tab, storage>>
  /\ Disturbs({}) /\ UNCHANGED <<barred, left, sessionMoves>>

\* in the last minute; with nothing stored the timer is not set again
TimerFires(t, n) ==
  /\ tab[t].timer /\ ~tab[t].fresh /\ tab' = [tab EXCEPT ![t].timer = FALSE]
  /\ IF storage = NoEntry THEN UNCHANGED <<tabCalls, renewals>>
     ELSE Begins(t, n, "timer", storage.user) /\ Renews
  /\ UNCHANGED <<storage, barred, left, disturbed, sessionMoves>>

\* the answer: what was read before the call is stored again, with a new token
Renewed_TokenOnly(s, c) == [s EXCEPT !.phase = "ready", !.owner = c.user, !.fresh = TRUE, !.timer = TRUE]
Renewed(s, c) ==
  [s EXCEPT !.phase = "ready", !.owner = c.user, !.fresh = TRUE, !.timer = TRUE,
               !.user = IF c.kind \in {"restore", "login"} THEN c.user ELSE @]
Answers200(t, n) ==
  LET c == tabCalls[t][n]
  IN /\ c.kind # "none" /\ c.user \notin barred
     /\ storage' = Entry(c.user) /\ tab' = [tab EXCEPT ![t] = Renewed(@, c)]
     /\ Over(t, n) /\ Disturbs({}) /\ left' = (left /\ c.kind # "login") /\ UNCHANGED <<barred, renewals, sessionMoves>>

\* the call fails: refused, too many in a minute, or no answer
Throttled == renewals > RenewalLimit
Refused401(c) == c.user \in barred
CallFailed(t, n) ==
  LET c == tabCalls[t][n]
  IN /\ c.kind # "none"
     /\ IF Refused401(c) \/ (Throttled /\ c.kind # "login") THEN UNCHANGED sessionMoves ELSE SessionMove
     /\ CASE c.kind = "login" -> Over(t, n) /\ UNCHANGED <<tab, storage>>
          [] c.kind = "restore" -> /\ Over(t, n) /\ storage' = NoEntry
                                   /\ tab' = [tab EXCEPT ![t].phase = "ready"]
          [] OTHER -> LogsOut(t) /\ tabCalls' = [tabCalls EXCEPT ![t] = NoCalls]
     /\ Disturbs({}) /\ UNCHANGED <<barred, renewals, left>>

\* the login page, where nobody is logged in, and the button to leave
Login(t, n, u) ==
  /\ SessionMove /\ tab[t].phase = "ready" /\ tab[t].user = NoOne
  /\ \A m \in Numbers : tabCalls[t][m].kind # "login"
  /\ Begins(t, n, "login", u) /\ UNCHANGED <<storage, tab, barred, renewals, left, disturbed>>
AfterLogout_Kept == storage
AfterLogout == NoEntry
Logout(t) ==
  /\ SessionMove /\ tab[t].user # NoOne /\ storage' = AfterLogout
  /\ tab' = [tab EXCEPT ![t] = Page("ready")]
  /\ Disturbs(IF Busy(t) = {} THEN {} ELSE {t}) /\ left' = (\A s \in Tabs : Busy(s) = {})
  /\ UNCHANGED <<tabCalls, barred, renewals>>

\* the minute is over, and the tokens come to their last one; a person is deactivated
TimePasses ==
  /\ SessionMove /\ storage' = [storage EXCEPT !.fresh = FALSE] /\ renewals' = 0
  /\ tab' = [t \in Tabs |-> [tab[t] EXCEPT !.fresh = FALSE]]
  /\ UNCHANGED <<tabCalls, barred, left, disturbed>>
Bar(u) ==
  /\ SessionMove /\ u \notin barred /\ barred' = barred \cup {u}
  /\ UNCHANGED <<storage, tab, tabCalls, renewals, left, disturbed>>

SessionNext ==
  \/ \E t \in Tabs :
       \/ Open(t) \/ Logout(t)
       \/ \E n \in Numbers : \/ Unauthorized(t, n) \/ TimerFires(t, n) \/ Answers200(t, n) \/ CallFailed(t, n)
                             \/ \E u \in People : Login(t, n, u)
  \/ TimePasses \/ \E u \in People : Bar(u)

-----------------------------------------------------------------------------
(* Properties.                                                                  *)

SessionTypeOK ==
  /\ storage.user \in People \cup {NoOne} /\ barred \subseteq People /\ disturbed \subseteq Tabs
  /\ \A t \in Tabs : tab[t].phase \in {"closed", "loading", "ready"} /\ tab[t].owner \in People \cup {NoOne}

\* A tab shows the person its requests are made for, and waits only while the call that
\* restores its session is under way, unless another's session was stored meanwhile or
\* the user left while a call was under way (auth.tsx:83, :109); a session that was left
\* with no call under way is not stored again, by whatever a tab still does, before a login.
SessionIsWhole ==
  /\ \A t \in Tabs \ disturbed :
       /\ tab[t].user = tab[t].owner
       /\ tab[t].phase = "loading" <=> \E n \in Numbers : tabCalls[t][n].kind = "restore"
  /\ left => storage = NoEntry
=============================================================================
