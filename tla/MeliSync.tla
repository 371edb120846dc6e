------------------------------- MODULE MeliSync -------------------------------
(* MeliService: the MercadoLibre connection of a tenant, and the import of its  *)
(* listings (all of one seller).  Each request to the marketplace exchanges the *)
(* stored refresh token first: the exchange uses the token up, and the new one  *)
(* is stored before the request is made.  Syncs run at once when users ask.     *)
EXTENDS Integers, FiniteSets

CONSTANTS Syncs, Listings, Sellers,   \* sync requests, listings, agents of the tenant
          Nobody,
          MaxMeliMoves,  \* bound: syncs started, and what users and the marketplace do
          MaxMeliFaults  \* bound: requests refused or thrown, and restarts; they count as meliMoves

ASSUME MeliAssumption == Nobody \notin Sellers /\ MaxMeliMoves \in Nat /\ MaxMeliFaults \in Nat

VARIABLES
  stored,       \* meliRefreshToken while meliEnabled: a number, 0 for null
  accepted,     \* the tokens the marketplace would exchange
  issued,       \* tokens issued so far
  upset,        \* the stored token may not be accepted: see StaysConnected
  namesake,     \* the agent whose name matches the seller's, or Nobody
  property,     \* the row of each listing: [there, text, agent, media]
  sync,         \* each sync: what it asks for (goal), its step, and what it has read
  lastSync,     \* meliLastSync is set
  off,          \* the tenant was disconnected at some time
  mixed,        \* rows were assigned or removed while a sync held older ones
  twice,        \* two syncs were importing at once
  meliMoves, meliFaults

meliVars == <<stored, accepted, issued, upset, namesake, property, sync, lastSync, off, mixed,
              twice, meliMoves, meliFaults>>
tokens == <<stored, accepted, issued, upset>>
rowVars == <<property, mixed, off>>
meliLimits == <<meliMoves, meliFaults>>

NoListing == [there |-> FALSE, text |-> "none", agent |-> Nobody, media |-> 0]
NoSync == [goal |-> "idle", step |-> "none", token |-> 0, todo |-> {}, fetched |-> {}, made |-> {},
           agent |-> Nobody, text |-> "full", found |-> FALSE, errors |-> 0, blanks |-> 0]
Exchanging == {p \in Syncs : sync[p].step \in {"exchange", "store"}}
Importing == {p \in Syncs : sync[p].goal \in {"seller", "describe", "find", "write", "attach"}}

MeliInit ==
  /\ stored = 1 /\ accepted = {1} /\ issued = 1 /\ upset = FALSE
  /\ namesake \in Sellers \cup {Nobody}
  /\ property = [l \in Listings |-> NoListing] /\ sync = [p \in Syncs |-> NoSync]
  /\ lastSync = FALSE /\ off = FALSE /\ mixed = FALSE /\ twice = FALSE /\ meliMoves = 0 /\ meliFaults = 0

MeliMove == meliMoves < MaxMeliMoves /\ meliMoves' = meliMoves + 1 /\ UNCHANGED meliFaults
MeliFault ==
  /\ meliMoves < MaxMeliMoves /\ meliMoves' = meliMoves + 1 /\ meliFaults < MaxMeliFaults /\ meliFaults' = meliFaults + 1
Asks(s, goal) == [s EXCEPT !.goal = goal, !.step = "token", !.token = 0]
Works(s, goal) == [s EXCEPT !.goal = goal, !.step = "none", !.token = 0]
SyncGoes(p, s) ==
  /\ sync' = [sync EXCEPT ![p] = s]
  /\ twice' = (twice \/ (s.goal = "seller" /\ Importing \ {p} # {}))

\* the listings in the order of the list: the next one, or the end of the loop
Item(s) == CHOOSE l \in s.todo : TRUE
NextListing(s) == IF s.todo = {} THEN Works(s, "stamp") ELSE Asks([s EXCEPT !.text = "full"], "describe")
\* the catch around the import of one listing
Fails(s) == NextListing([s EXCEPT !.errors = @ + 1, !.todo = @ \ {Item(s)}])

\* POST /meli/sync: a tenant that is not connected gets an empty summary
StartSync(p) ==
  /\ MeliMove /\ sync[p].goal \in {"idle", "done"} /\ stored # 0
  /\ SyncGoes(p, Asks(NoSync, "list")) /\ UNCHANGED <<tokens, namesake, rowVars, lastSync>>

-----------------------------------------------------------------------------
(* apiGet: the token is read, exchanged and stored, then the request is made.   *)

\* what each caller makes of the answer, and of null
Answered(s) ==
  CASE s.goal = "list" -> Asks([s EXCEPT !.todo = Listings], "details")
    [] s.goal = "details" -> Works([s EXCEPT !.fetched = s.todo], "map")
    [] s.goal = "seller" -> NextListing([s EXCEPT !.agent = namesake])
    [] s.goal = "describe" -> Works(s, "find")
    [] OTHER -> Works(s, "done")
Unanswered(s) ==
  LET t == [s EXCEPT !.blanks = IF s.goal = "summary" THEN @ ELSE @ + 1]
  IN CASE s.goal = "list" -> Works(t, "idle")
       [] s.goal = "details" -> Works([t EXCEPT !.todo = {}], "map")
       [] s.goal = "seller" -> NextListing(t)
       [] s.goal = "describe" -> Works([t EXCEPT !.text = "title"], "find")
       [] OTHER -> Works(t, "done")
\* an entry of the details that is not a 200 is left out, without a word
PartlyAnswered(s) ==
  LET kept == s.todo \ {Item(s)}
  IN Works([s EXCEPT !.fetched = kept, !.todo = kept, !.blanks = @ + 1], "map")
\* an exception ends the import of one listing, or the sync
Thrown(s) == IF s.goal = "describe" THEN Fails(s) ELSE Works(s, "idle")

ReadStored(p) ==
  /\ sync[p].step = "token"
  /\ SyncGoes(p, IF stored = 0 THEN Unanswered(sync[p])
                 ELSE [sync[p] EXCEPT !.step = "exchange", !.token = stored])
  /\ upset' = (upset \/ (stored # 0 /\ Exchanging # {}))
  /\ UNCHANGED <<stored, accepted, issued, namesake, rowVars, lastSync, meliLimits>>

\* a token is exchanged for a new one; a refusal disconnects the tenant
Exchange(p) ==
  /\ sync[p].step = "exchange"
  /\ IF sync[p].token \in accepted
     THEN /\ issued' = issued + 1 /\ accepted' = (accepted \ {sync[p].token}) \cup {issued + 1}
          /\ SyncGoes(p, [sync[p] EXCEPT !.step = "store", !.token = issued + 1])
          /\ UNCHANGED <<stored, lastSync, off>>
     ELSE /\ stored' = 0 /\ lastSync' = FALSE /\ off' = TRUE
          /\ SyncGoes(p, Unanswered(sync[p])) /\ UNCHANGED <<issued, accepted>>
  /\ UNCHANGED <<upset, namesake, property, mixed, meliLimits>>

\* any other error answered to the exchange disconnects the tenant as well, whatever
\* the token is still worth
ExchangeErrs(p) ==
  /\ MeliFault /\ sync[p].step = "exchange" /\ stored' = 0 /\ lastSync' = FALSE /\ off' = TRUE
  /\ SyncGoes(p, Unanswered(sync[p])) /\ UNCHANGED <<accepted, issued, upset, namesake, property, mixed>>

\* the new token is stored (a tenant disconnected meanwhile stays so), then the
\* request is made with it: answered, answered in part, refused, or thrown
Rotated_NotKept(p) == stored
Rotated(p) == IF stored = 0 THEN 0 ELSE sync[p].token
StoreAndGet(p) ==
  /\ sync[p].step = "store" /\ stored' = Rotated(p)
  /\ \/ SyncGoes(p, Answered(sync[p])) /\ UNCHANGED meliLimits
     \/ MeliFault /\ SyncGoes(p, Unanswered(sync[p]))
     \/ MeliFault /\ SyncGoes(p, Thrown(sync[p]))
     \/ MeliFault /\ sync[p].goal = "details" /\ SyncGoes(p, PartlyAnswered(sync[p]))
  /\ UNCHANGED <<accepted, issued, upset, namesake, rowVars, lastSync>>

\* the exchange throws before or after it was made, or the new token is not stored
ExchangeThrows(p) ==
  /\ MeliFault /\ sync[p].step \in {"exchange", "store"} /\ SyncGoes(p, Thrown(sync[p]))
  /\ \/ sync[p].step = "exchange" /\ UNCHANGED <<accepted, upset>>
     \/ accepted' = accepted \ {sync[p].token} /\ upset' = TRUE
  /\ UNCHANGED <<stored, issued, namesake, rowVars, lastSync>>

-----------------------------------------------------------------------------
(* The import.                                                                  *)

\* buildSellerAgentMap: an agent some row of the seller has, else its name is asked for
MapSeller(p) ==
  LET taken == {property[l].agent : l \in {k \in Listings : property[k].there}} \ {Nobody}
  IN /\ sync[p].goal = "map"
     /\ IF sync[p].fetched = {} THEN SyncGoes(p, NextListing(sync[p]))
        ELSE IF taken = {} THEN SyncGoes(p, Asks(sync[p], "seller"))
        ELSE \E a \in taken :
               /\ sync' = [sync EXCEPT ![p] = NextListing([sync[p] EXCEPT !.agent = a])]
               /\ twice' = (twice \/ Importing # {})
     /\ UNCHANGED <<tokens, namesake, rowVars, lastSync, meliLimits>>

\* importItem: is there a row of this listing?
FindRow(p) ==
  /\ sync[p].goal = "find"
  /\ SyncGoes(p, Works([sync[p] EXCEPT !.found = property[Item(sync[p])].there], "write"))
  /\ UNCHANGED <<tokens, namesake, rowVars, lastSync, meliLimits>>

\* the row is created or updated, then its media listed.  Creating a row that is there by
\* now breaks the unique key; updating one that was removed finds nothing: both throw.
\* An agent is written when the map has one; a new row has none otherwise.
Written(s, row) == IF s.agent = Nobody THEN row.agent ELSE s.agent
WriteRow(p) ==
  LET s == sync[p]  l == Item(s)  row == property[l]
  IN /\ s.goal = "write"
     /\ IF row.there # s.found THEN SyncGoes(p, Fails(s)) /\ UNCHANGED property
        ELSE /\ property' = [property EXCEPT ![l] = [@ EXCEPT !.there = TRUE, !.text = s.text,
                                                              !.agent = Written(s, row)]]
             /\ SyncGoes(p, Works([s EXCEPT !.found = row.media > 0], "attach"))
     /\ UNCHANGED <<tokens, namesake, mixed, off, lastSync, meliLimits>>

\* syncMedia: the pictures that were not listed; on a row removed meanwhile it throws
Missing_Always(s) == TRUE
Missing(s) == ~s.found
AttachMedia(p) ==
  LET s == sync[p]  l == Item(s)
  IN /\ s.goal = "attach"
     /\ IF Missing(s) /\ ~property[l].there THEN SyncGoes(p, Fails(s)) /\ UNCHANGED property
        ELSE /\ property' = IF Missing(s) THEN [property EXCEPT ![l].media = @ + 1] ELSE property
             /\ SyncGoes(p, NextListing([s EXCEPT !.made = @ \cup {l}, !.todo = @ \ {l}]))
     /\ UNCHANGED <<tokens, namesake, mixed, off, lastSync, meliLimits>>

\* meliLastSync, whatever the outcome and whether connected or not; then the summary
Stamp(p) ==
  /\ sync[p].goal = "stamp" /\ lastSync' = TRUE
  /\ SyncGoes(p, IF sync[p].fetched = {} THEN Works(sync[p], "done") ELSE Asks(sync[p], "summary"))
  /\ UNCHANGED <<tokens, namesake, rowVars, meliLimits>>

-----------------------------------------------------------------------------
(* What happens meanwhile.                                                      *)

\* handleCallback: a new authorization
Connect ==
  /\ MeliMove /\ issued' = issued + 1 /\ accepted' = accepted \cup {issued + 1} /\ stored' = issued + 1
  /\ upset' = (Exchanging # {}) /\ UNCHANGED <<namesake, rowVars, sync, lastSync, twice>>
DisconnectMeli ==
  /\ MeliMove /\ stored # 0 /\ stored' = 0 /\ lastSync' = FALSE /\ off' = TRUE
  /\ UNCHANGED <<accepted, issued, upset, namesake, property, mixed, sync, twice>>
\* the seller withdraws the access at the marketplace
WithdrawAccess ==
  /\ MeliMove /\ accepted # {} /\ accepted' = {} /\ upset' = TRUE
  /\ UNCHANGED <<stored, issued, namesake, rowVars, sync, lastSync, twice>>
\* POST /meli/assign-seller: every row of the seller
AssignSeller(a) ==
  /\ MeliMove /\ mixed' = (Importing # {}) /\ \E l \in Listings : property[l].there
  /\ property' = [l \in Listings |-> IF property[l].there THEN [property[l] EXCEPT !.agent = a] ELSE NoListing]
  /\ UNCHANGED <<tokens, namesake, sync, lastSync, off, twice>>
RemoveProperty(l) ==
  /\ MeliMove /\ property[l].there /\ property' = [property EXCEPT ![l] = NoListing]
  /\ mixed' = (mixed \/ Importing # {}) /\ UNCHANGED <<tokens, namesake, sync, lastSync, off, twice>>
\* the API restarts: the syncs are gone, with the tokens they had not stored
MeliRestart ==
  /\ MeliFault /\ sync' = [p \in Syncs |-> NoSync] /\ twice' = twice
  /\ upset' = (upset \/ \E p \in Syncs : sync[p].step = "store")
  /\ accepted' = accepted \ {sync[p].token : p \in {q \in Syncs : sync[q].step = "store"}}
  /\ UNCHANGED <<stored, issued, namesake, rowVars, lastSync>>

MeliNext ==
  \/ \E p \in Syncs :
       \/ StartSync(p) \/ ReadStored(p) \/ Exchange(p) \/ ExchangeErrs(p) \/ StoreAndGet(p)
       \/ ExchangeThrows(p)
       \/ MapSeller(p) \/ FindRow(p) \/ WriteRow(p) \/ AttachMedia(p) \/ Stamp(p)
  \/ Connect \/ DisconnectMeli \/ WithdrawAccess \/ MeliRestart
  \/ \E a \in Sellers : AssignSeller(a)
  \/ \E l \in Listings : RemoveProperty(l)

-----------------------------------------------------------------------------
(* Properties.                                                                  *)

MeliTypeOK ==
  /\ stored \in 0..issued /\ accepted \subseteq 1..issued
  /\ \A l \in Listings : property[l].there \/ property[l] = NoListing
  /\ \A p \in Syncs : sync[p].made \subseteq sync[p].fetched /\ sync[p].todo \subseteq Listings
  /\ \A p \in Syncs : sync[p].goal \in {"find", "write", "attach"} => sync[p].todo # {}

\* The connection is alive: while no exchange is under way the stored token is one the
\* marketplace accepts, unless two requests exchanged at once, a new token was lost by a
\* failure or a restart, or the access was withdrawn (meli.service.ts:124, :151).
StaysConnected == ~upset /\ Exchanging = {} /\ stored # 0 => stored \in accepted

\* What is imported is right.  A sync that ended without an error or an empty answer
\* imported every listing, and a description gives way to the title only when some answer
\* was empty (meli.service.ts:250); pictures are doubled by two syncs at once only
\* (:353), and the rows of the seller have one agent unless it was assigned, or a row
\* removed, while a sync held an older choice (:330).
ImportIsRight ==
  /\ \A p \in Syncs : sync[p].goal = "done" /\ sync[p].errors = 0 /\ sync[p].blanks = 0 =>
       sync[p].made = Listings
  /\ meliFaults = 0 /\ ~off => \A l \in Listings : property[l].text # "title"
  /\ ~twice => \A l \in Listings : property[l].media <= 1
  /\ ~mixed => \A k, l \in Listings :
       property[k].agent # Nobody /\ property[l].agent # Nobody => property[k].agent = property[l].agent
=============================================================================
