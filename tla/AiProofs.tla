------------------------------ MODULE AiProofs ------------------------------
(***************************************************************************)
(* Proofs about AiConversation, for any messages, starters, requests,      *)
(* attempts and failures.                                                  *)
(***************************************************************************)
EXTENDS AiConversation, FiniteSetTheorems, TLAPS

RT(label, n) == [at |-> label, msg |-> n]
WT(label, n, seen, todo, overtaken) ==
  [at |-> label, msg |-> n, seen |-> seen, todo |-> todo, overtaken |-> overtaken]

LEMMA StatusFacts ==
  /\ Status = {"NEW", "CONTACTED", "QUALIFIED", "NEGOTIATION", "VISIT", "WON", "LOST"}
  /\ Stage \subseteq Status /\ Early \subseteq Status
  /\ \A s \in Status : Order[s] \in 0..6
  /\ Order["NEW"] = 0 /\ Order["CONTACTED"] = 1 /\ Order["QUALIFIED"] = 2
  /\ Order["NEGOTIATION"] = 3 /\ Order["VISIT"] = 4 /\ Order["WON"] = 5 /\ Order["LOST"] = 6
BY DEF Status, Order, Stage, Early

LEMMA RecordFacts ==
  /\ Idle.at = "idle" /\ \A t : t.at # "idle" => t # Idle
  /\ \A a, n : RT(a, n).at = a /\ RT(a, n).msg = n /\ (a # "idle" => RT(a, n) # Idle)
  /\ \A a, n, seen, todo, o :
       /\ WT(a, n, seen, todo, o).at = a /\ WT(a, n, seen, todo, o).msg = n
       /\ WT(a, n, seen, todo, o).seen = seen /\ WT(a, n, seen, todo, o).todo = todo
       /\ WT(a, n, seen, todo, o).overtaken = o
       /\ a # "idle" => WT(a, n, seen, todo, o) # Idle
BY DEF RT, WT, Idle

LEMMA TaskFacts ==
  ASSUME TypeOK
  PROVE  \/ task = Idle /\ task.at = "idle"
         \/ /\ task \in Simple /\ task = RT(task.at, task.msg) /\ task # Idle
            /\ task.at \in {"read", "evaluate", "activate", "create"} /\ task.msg \in Inbound
         \/ /\ task \in Replying /\ task # Idle
            /\ task = WT(task.at, task.msg, task.seen, task.todo, task.overtaken)
            /\ task.at \in {"reply", "work"} /\ task.msg \in Inbound /\ task.seen \in Status
            /\ task.todo \in Seq(Work) /\ task.overtaken \in BOOLEAN
<1>1. task \in Task
  BY DEF TypeOK
<1>2. CASE task = Idle
  BY <1>2 DEF Idle
<1>3. CASE task \in Simple
  BY <1>3 DEF Simple, RT, Idle
<1>4. CASE task \in Replying
  BY <1>4 DEF Replying, WT, Idle
<1> QED
  BY <1>1, <1>2, <1>3, <1>4 DEF Task

LEMMA TaskTypes ==
  ASSUME NEW n \in Inbound, NEW seen \in Status, NEW todo \in Seq(Work), NEW o \in BOOLEAN
  PROVE  /\ \A a \in {"read", "evaluate", "activate", "create"} : RT(a, n) \in Task
         /\ \A a \in {"reply", "work"} : WT(a, n, seen, todo, o) \in Task
         /\ Idle \in Task
<1>1. \A a \in {"read", "evaluate", "activate", "create"} : RT(a, n) \in Simple
  BY DEF RT, Simple
<1>2. \A a \in {"reply", "work"} : WT(a, n, seen, todo, o) \in Replying
  BY DEF WT, Replying
<1> QED
  BY <1>1, <1>2 DEF Task

-----------------------------------------------------------------------------
(* The work of a reply *)

(* It is done in the order of the code, each piece once; a stage is not     *)
(* advanced by a reply that ends the conversation.                          *)
Rank(w) == CASE w = "goalOff" -> 1 [] w = "goalStatus" -> 2 [] w = "lostOff" -> 3
             [] w = "lostStatus" -> 4 [] w \in Stage -> 5 [] w = "visit" -> 6
Only(todo, S) == \A i \in 1..Len(todo) : todo[i] \in S
Within(todo, lo, hi) ==
  /\ todo \in Seq(Work)
  /\ \A i \in 1..Len(todo) : Rank(todo[i]) \in lo..hi
  /\ \A i, j \in 1..Len(todo) : i < j => Rank(todo[i]) < Rank(todo[j])
InTurn(todo) ==
  /\ Within(todo, 1, 6)
  /\ Only(todo, Stage \cup {"visit"}) \/ Only(todo, Work \ Stage)

LEMMA RankFacts ==
  /\ \A w \in Work : Rank(w) \in 1..6
  /\ Rank("goalOff") = 1 /\ Rank("goalStatus") = 2 /\ Rank("lostOff") = 3
  /\ Rank("lostStatus") = 4 /\ Rank("visit") = 6
  /\ \A g \in Stage : Rank(g) = 5
  /\ Work = {"goalOff", "goalStatus", "lostOff", "lostStatus", "visit",
             "QUALIFIED", "NEGOTIATION", "VISIT"}
BY DEF Rank, Work, Stage

LEMMA Concat ==
  ASSUME NEW s \in Seq(Work), NEW t \in Seq(Work)
  PROVE  /\ s \o t \in Seq(Work)
         /\ \A S : Only(s, S) /\ Only(t, S) => Only(s \o t, S)
         /\ \A a, b, c \in Nat : a <= b /\ b <= c /\ Within(s, a, b) /\ Within(t, b + 1, c)
              => Within(s \o t, a, c)
<1>1. /\ s \o t \in Seq(Work) /\ Len(s \o t) = Len(s) + Len(t)
      /\ \A i \in 1..Len(s) : (s \o t)[i] = s[i]
      /\ \A i \in 1..Len(s \o t) : i > Len(s) => (s \o t)[i] = t[i - Len(s)] /\ i - Len(s) \in 1..Len(t)
      /\ Len(s) \in Nat /\ Len(t) \in Nat
  OBVIOUS
<1> DEFINE u == s \o t
<1> HIDE DEF u
<1>2. ASSUME NEW S, Only(s, S), Only(t, S) PROVE Only(s \o t, S)
  <2> SUFFICES ASSUME NEW i \in 1..Len(s \o t) PROVE (s \o t)[i] \in S
    BY DEF Only
  <2>1. CASE i <= Len(s)
    BY <1>1, <1>2, <2>1 DEF Only
  <2>2. CASE i > Len(s)
    BY <1>1, <1>2, <2>2 DEF Only
  <2> QED
    BY <1>1, <2>1, <2>2
<1>3. ASSUME NEW a \in Nat, NEW b \in Nat, NEW c \in Nat, a <= b, b <= c,
             Within(s, a, b), Within(t, b + 1, c)
      PROVE  Within(s \o t, a, c)
  <2>1. \A i \in 1..Len(s \o t) :
          IF i <= Len(s) THEN Rank((s \o t)[i]) \in a..b ELSE Rank((s \o t)[i]) \in (b + 1)..c
    <3> TAKE i \in 1..Len(s \o t)
    <3>1. CASE i <= Len(s)
      BY <1>1, <1>3, <3>1 DEF Within
    <3>2. CASE i > Len(s)
      BY <1>1, <1>3, <3>2 DEF Within
    <3> QED
      BY <1>1, <3>1, <3>2
  <2>2. ASSUME NEW i \in 1..Len(s \o t), NEW j \in 1..Len(s \o t), i < j
        PROVE  Rank((s \o t)[i]) < Rank((s \o t)[j])
    <3>1. CASE j <= Len(s)
      BY <1>1, <1>3, <2>2, <3>1 DEF Within
    <3>2. CASE i > Len(s)
      <4>1. /\ (s \o t)[i] = t[i - Len(s)] /\ (s \o t)[j] = t[j - Len(s)]
            /\ i - Len(s) \in 1..Len(t) /\ j - Len(s) \in 1..Len(t) /\ i - Len(s) < j - Len(s)
        BY <1>1, <2>2, <3>2
      <4> QED
        BY <1>3, <4>1 DEF Within
    <3>3. CASE i <= Len(s) /\ j > Len(s)
      <4>1. Rank((s \o t)[i]) \in a..b /\ Rank((s \o t)[j]) \in (b + 1)..c
        BY <2>1, <3>3
      <4> QED
        BY <1>3, <4>1
    <3> QED
      BY <1>1, <3>1, <3>2, <3>3
  <2>3. \A i \in 1..Len(s \o t) : Rank((s \o t)[i]) \in a..c
    <3> TAKE i \in 1..Len(s \o t)
    <3>1. Rank((s \o t)[i]) \in a..b \/ Rank((s \o t)[i]) \in (b + 1)..c
      BY <2>1
    <3> QED
      BY <1>3, <3>1
  <2> QED
    BY <1>1, <2>2, <2>3 DEF Within
<1> QED
  BY <1>1, <1>2, <1>3

LEMMA TailInTurn ==
  ASSUME NEW todo, InTurn(todo), todo # <<>>
  PROVE  /\ Head(todo) \in Work /\ InTurn(Tail(todo))
         /\ \A i \in 1..Len(Tail(todo)) : Rank(Tail(todo)[i]) > Rank(Head(todo))
         /\ Head(todo) \in Stage => Only(Tail(todo), {"visit"})
         /\ Head(todo) = "lostStatus" => Only(Tail(todo), {"visit"})
         /\ Head(todo) = "goalStatus" => Only(Tail(todo), {"lostOff", "lostStatus", "visit"})
         /\ Head(todo) = "visit" => Tail(todo) = <<>>
         /\ \A S : Only(todo, S) => Head(todo) \in S /\ Only(Tail(todo), S)
<1>1. /\ todo \in Seq(Work) /\ Len(todo) \in Nat /\ Len(todo) >= 1 /\ Head(todo) = todo[1]
      /\ Tail(todo) \in Seq(Work) /\ Len(Tail(todo)) = Len(todo) - 1
      /\ \A i \in 1..Len(Tail(todo)) : Tail(todo)[i] = todo[i + 1] /\ i + 1 \in 1..Len(todo)
      /\ todo[1] \in Work
  BY DEF InTurn, Within
<1>2. \A i \in 1..Len(todo) : todo[i] \in Work /\ Rank(todo[i]) \in 1..6
  BY <1>1 DEF InTurn, Within
<1>3. \A S : Only(todo, S) => Head(todo) \in S /\ Only(Tail(todo), S)
  BY <1>1 DEF Only
<1>4. \A i \in 1..Len(Tail(todo)) : Rank(Tail(todo)[i]) > Rank(Head(todo)) /\ Tail(todo)[i] \in Work
  BY <1>1, <1>2 DEF InTurn, Within
<1>5. InTurn(Tail(todo))
  <2>1. Within(Tail(todo), 1, 6)
    BY <1>1, <1>2 DEF InTurn, Within
  <2> QED
    BY <1>3, <2>1 DEF InTurn
<1>6. Head(todo) \in Stage \/ Head(todo) = "lostStatus" => Only(Tail(todo), {"visit"})
  <2>1. Head(todo) = "lostStatus" => Only(Tail(todo), Work \ Stage)
    <3>1. "lostStatus" \notin Stage \cup {"visit"}
      BY DEF Stage
    <3> QED
      BY <1>3, <3>1 DEF InTurn
  <2> QED
    BY <1>4, <2>1, RankFacts DEF Only, Stage
<1>7. Head(todo) = "goalStatus" => Only(Tail(todo), {"lostOff", "lostStatus", "visit"})
  <2>1. Head(todo) = "goalStatus" => Only(Tail(todo), Work \ Stage)
    <3>1. "goalStatus" \notin Stage \cup {"visit"}
      BY DEF Stage
    <3> QED
      BY <1>3, <3>1 DEF InTurn
  <2> QED
    BY <1>4, <2>1, RankFacts DEF Only, Stage
<1>8. Head(todo) = "visit" => Tail(todo) = <<>>
  <2>1. Head(todo) = "visit" => 1 \notin 1..Len(Tail(todo))
    <3>1. 1 \in 1..Len(Tail(todo)) => Rank(Tail(todo)[1]) \in 1..6
      BY <1>1, <1>4, RankFacts
    <3> QED
      BY <1>4, <3>1, RankFacts
  <2> QED
    BY <1>1, <2>1
<1> QED
  BY <1>1, <1>3, <1>4, <1>5, <1>6, <1>7, <1>8

LEMMA ShortLists ==
  ASSUME NEW a \in Nat, NEW b \in Nat, NEW S
  PROVE  /\ Within(<<>>, a, b) /\ Only(<<>>, S)
         /\ \A v, w \in Work :
              /\ Rank(v) \in a..b /\ Rank(w) \in a..b /\ Rank(v) < Rank(w) => Within(<<v, w>>, a, b)
              /\ v \in S /\ w \in S => Only(<<v, w>>, S)
<1>1. Within(<<>>, a, b) /\ Only(<<>>, S)
  BY DEF Within, Only
<1>2. ASSUME NEW v \in Work, NEW w \in Work
      PROVE  /\ Rank(v) \in a..b /\ Rank(w) \in a..b /\ Rank(v) < Rank(w) => Within(<<v, w>>, a, b)
             /\ v \in S /\ w \in S => Only(<<v, w>>, S)
  <2>1. <<v, w>> \in Seq(Work) /\ Len(<<v, w>>) = 2 /\ <<v, w>>[1] = v /\ <<v, w>>[2] = w
    OBVIOUS
  <2>2. \A i \in 1..Len(<<v, w>>) : i = 1 \/ i = 2
    BY <2>1
  <2> QED
    BY <2>1, <2>2 DEF Within, Only
<1> QED
  BY <1>1, <1>2

LEMMA SingleList ==
  ASSUME NEW a \in Nat, NEW b \in Nat, NEW S, NEW w \in Work, Rank(w) \in a..b, w \in S
  PROVE  Within(<<w>>, a, b) /\ Only(<<w>>, S)
<1>1. <<w>> \in Seq(Work) /\ Len(<<w>>) = 1 /\ <<w>>[1] = w
  OBVIOUS
<1> QED
  BY <1>1 DEF Within, Only

LEMMA PlanInTurn ==
  ASSUME NEW r \in Reply
  PROVE  /\ InTurn(Plan(r))
         /\ r.goal \/ r.lost => Plan(r) # <<>> /\ Head(Plan(r)) \in {"goalOff", "lostOff"}
<1> DEFINE G == When(r.goal, <<"goalOff", "goalStatus">>)
           L == When(r.lost, <<"lostOff", "lostStatus">>)
           A == When(r.stage # "none" /\ ~r.goal /\ ~r.lost, <<r.stage>>)
           V == When(r.cita, <<"visit">>)
<1>1. r.goal \in BOOLEAN /\ r.lost \in BOOLEAN /\ r.cita \in BOOLEAN /\ r.stage \in Stage \cup {"none"}
  BY DEF Reply
<1>2. /\ Within(G, 1, 2) /\ Only(G, Work \ Stage)
      /\ G = IF r.goal THEN <<"goalOff", "goalStatus">> ELSE <<>>
  <2>1. "goalOff" \in Work \ Stage /\ "goalStatus" \in Work \ Stage
    BY DEF Work, Stage
  <2>2. /\ Rank("goalOff") \in 1..2 /\ Rank("goalStatus") \in 1..2
        /\ Rank("goalOff") < Rank("goalStatus")
    BY RankFacts
  <2>3. /\ Within(<<"goalOff", "goalStatus">>, 1, 2) /\ Only(<<"goalOff", "goalStatus">>, Work \ Stage)
        /\ Within(<<>>, 1, 2) /\ Only(<<>>, Work \ Stage)
    BY <2>1, <2>2, ShortLists
  <2> QED
    BY <1>1, <2>3 DEF When
<1>3. /\ Within(L, 3, 4) /\ Only(L, Work \ Stage)
      /\ L = IF r.lost THEN <<"lostOff", "lostStatus">> ELSE <<>>
  <2>1. "lostOff" \in Work \ Stage /\ "lostStatus" \in Work \ Stage
    BY DEF Work, Stage
  <2>2. /\ Rank("lostOff") \in 3..4 /\ Rank("lostStatus") \in 3..4
        /\ Rank("lostOff") < Rank("lostStatus")
    BY RankFacts
  <2>3. /\ Within(<<"lostOff", "lostStatus">>, 3, 4) /\ Only(<<"lostOff", "lostStatus">>, Work \ Stage)
        /\ Within(<<>>, 3, 4) /\ Only(<<>>, Work \ Stage)
    BY <2>1, <2>2, ShortLists
  <2> QED
    BY <1>1, <2>3 DEF When
<1>4. Within(A, 5, 5) /\ Only(A, Stage) /\ (r.goal \/ r.lost \/ r.stage = "none" => A = <<>>)
  <2>1. Stage \subseteq Work
    BY DEF Work
  <2>2. Within(<<>>, 5, 5) /\ Only(<<>>, Stage)
    BY ShortLists
  <2>3. CASE r.stage # "none" /\ ~r.goal /\ ~r.lost
    <3>1. PICK g \in Stage : g = r.stage
      BY <1>1, <2>3
    <3>2. g \in Work /\ Rank(g) = 5 /\ 5 \in 5..5
      BY <2>1, RankFacts
    <3>3. Within(<<g>>, 5, 5) /\ Only(<<g>>, Stage)
      BY <3>2, SingleList
    <3>4. A = <<g>>
      BY <2>3, <3>1 DEF When
    <3> QED
      BY <2>3, <3>3, <3>4
  <2>4. CASE ~(r.stage # "none" /\ ~r.goal /\ ~r.lost)
    BY <2>2, <2>4 DEF When
  <2> QED
    BY <2>3, <2>4
<1>5. Within(V, 6, 6) /\ Only(V, {"visit"})
  <2>1. "visit" \in Work /\ Rank("visit") \in 6..6
    BY RankFacts
  <2>2. /\ Within(<<"visit">>, 6, 6) /\ Only(<<"visit">>, {"visit"})
        /\ Within(<<>>, 6, 6) /\ Only(<<>>, {"visit"})
    BY <2>1, ShortLists, SingleList
  <2>3. V = <<"visit">> \/ V = <<>>
    BY DEF When
  <2> QED
    BY <2>2, <2>3
<1>6. Plan(r) = ((G \o L) \o A) \o V
  BY DEF Plan
<1> HIDE DEF G, L, A, V
<1>7. /\ Within(G \o L, 1, 4) /\ G \o L \in Seq(Work) /\ G \in Seq(Work) /\ L \in Seq(Work)
      /\ A \in Seq(Work) /\ V \in Seq(Work)
  <2>1. G \in Seq(Work) /\ L \in Seq(Work) /\ A \in Seq(Work) /\ V \in Seq(Work)
    BY <1>2, <1>3, <1>4, <1>5 DEF Within
  <2>2. 1 <= 2 /\ 2 <= 4 /\ 2 + 1 = 3
    OBVIOUS
  <2> QED
    BY <1>2, <1>3, <2>1, <2>2, Concat
<1>8. Within((G \o L) \o A, 1, 5) /\ (G \o L) \o A \in Seq(Work)
  <2>1. 1 <= 4 /\ 4 <= 5 /\ 4 + 1 = 5
    OBVIOUS
  <2> QED
    BY <1>4, <1>7, <2>1, Concat
<1>9. Within(((G \o L) \o A) \o V, 1, 6)
  <2>1. 1 <= 5 /\ 5 <= 6 /\ 5 + 1 = 6
    OBVIOUS
  <2> QED
    BY <1>5, <1>7, <1>8, <2>1, Concat
<1>10. CASE r.goal \/ r.lost \/ r.stage = "none"
  <2>1. Only(A, Work \ Stage) /\ Only(V, Work \ Stage)
    BY <1>4, <1>5, <1>10, RankFacts DEF Only, Stage
  <2>2. Only(G \o L, Work \ Stage)
    BY <1>2, <1>3, <1>7, Concat
  <2>3. Only((G \o L) \o A, Work \ Stage)
    BY <1>7, <2>1, <2>2, Concat
  <2>4. Only(((G \o L) \o A) \o V, Work \ Stage)
    BY <1>7, <1>8, <2>1, <2>3, Concat
  <2>5. r.goal \/ r.lost => Plan(r) # <<>> /\ Head(Plan(r)) \in {"goalOff", "lostOff"}
    <3>1. CASE r.goal
      BY <1>2, <1>3, <1>6, <1>7, <3>1
    <3>2. CASE r.lost /\ ~r.goal
      BY <1>2, <1>3, <1>6, <1>7, <3>2
    <3> QED
      BY <3>1, <3>2
  <2> QED
    BY <1>6, <1>9, <2>4, <2>5 DEF InTurn
<1>11. CASE ~r.goal /\ ~r.lost /\ r.stage # "none"
  <2>1. Only(G, Stage \cup {"visit"}) /\ Only(L, Stage \cup {"visit"})
        /\ Only(A, Stage \cup {"visit"}) /\ Only(V, Stage \cup {"visit"})
    BY <1>2, <1>3, <1>4, <1>5, <1>11 DEF Only
  <2>2. Only(G \o L, Stage \cup {"visit"})
    BY <1>7, <2>1, Concat
  <2>3. Only((G \o L) \o A, Stage \cup {"visit"})
    BY <1>7, <2>1, <2>2, Concat
  <2>4. Only(((G \o L) \o A) \o V, Stage \cup {"visit"})
    BY <1>7, <1>8, <2>1, <2>3, Concat
  <2> QED
    BY <1>6, <1>9, <1>11, <2>4 DEF InTurn
<1> QED
  BY <1>10, <1>11

-----------------------------------------------------------------------------
(* What the steps do *)

WorkIsInTurn == At("work") => task.todo # <<>> /\ InTurn(task.todo)

(* The job in hand is the active one, and has an attempt left.              *)
TakenAt(n) ==
  /\ job[n].state = "active" <=> task # Idle /\ task.msg = n
  /\ job[n].state \in {"waiting", "active"} => job[n].attempt < MaxAttempts
JobsAreTaken == \A n \in Inbound : TakenAt(n)

(* The AI begins an answer; or gives up, and the rules are evaluated.       *)
BeginsReply ==
  /\ At("read") /\ active /\ task' = WT("reply", task.msg, status, <<>>, FALSE)
  /\ UNCHANGED <<lead, job, starter, request, history>>
ToRules ==
  /\ task.at \in {"read", "reply", "work"} /\ task' = RT("evaluate", task.msg)
  /\ closed' = (closed /\ ~SwitchingOff)
  /\ UNCHANGED <<lead, job, starter, request, counts, late>>

(* Rules' actions and users.                                                *)
Overtake == IF task.at \in {"reply", "work"} THEN [task EXCEPT !.overtaken = TRUE] ELSE task
RequestEnds(a) == request' = [request EXCEPT ![a] = Idle]
SideSetsStatus ==
  /\ status' \in Status /\ task' = Overtake
  /\ UNCHANGED <<active, late, closed, starter>>
  /\ \/ UNCHANGED request
     \/ \E a \in Agent : request[a].at = "update" /\ RequestEnds(a)
SideActivates ==
  /\ Activate
  /\ \/ UNCHANGED <<task, starter>>
     \/ At("activate") /\ task' = RT("create", task.msg) /\ UNCHANGED starter
     \/ \E s \in Starter : /\ starter[s] = "activate" /\ UNCHANGED task
                           /\ starter' = [starter EXCEPT ![s] = "create"]
SideSwitchesOff ==
  /\ SwitchOff /\ UNCHANGED <<task, starter>>
  /\ \/ UNCHANGED request
     \/ \E a \in Agent : request[a].at = "switch" /\ RequestEnds(a)
SideSends ==
  /\ UNCHANGED <<lead, closed, request>>
  /\ \/ /\ task.at \in {"activate", "create"} /\ task' = RT("evaluate", task.msg)
        /\ late' = IF At("create") THEN Late ELSE late
        /\ UNCHANGED starter
     \/ \E s \in Starter : /\ starter[s] # "idle" /\ UNCHANGED task
                           /\ starter' = [starter EXCEPT ![s] = "idle"]
                           /\ late' = IF starter[s] = "create" THEN Late ELSE late
RequestMoves(a) ==
  \/ /\ request[a] = Idle
     /\ request' = [request EXCEPT ![a] = [at |-> "post", seen |-> active, crossed |-> FALSE]]
  \/ /\ request[a].at = "post" /\ request[a].seen
     /\ request' = [request EXCEPT ![a] = [@ EXCEPT !.at = "switch"]]
  \/ request[a].at = "post" /\ ~request[a].seen /\ RequestEnds(a)
  \/ /\ request[a] = Idle
     /\ \E s \in Status :
          request' = [request EXCEPT ![a] = [at |-> "update", seen |-> status, status |-> s]]
  \/ request[a].at = "update" /\ RequestEnds(a)
  \/ request[a] # Idle /\ failures' = failures + 1 /\ RequestEnds(a)
SidePrepares ==
  /\ UNCHANGED <<lead, late, closed>>
  /\ \/ At("evaluate") /\ task' = RT("activate", task.msg) /\ UNCHANGED <<starter, request>>
     \/ \E s \in Starter : /\ starter[s] = "idle" /\ UNCHANGED <<task, request>>
                           /\ starter' = [starter EXCEPT ![s] = "activate"]
     \/ \E a \in Agent : RequestMoves(a) /\ UNCHANGED <<task, starter>>
     \/ UNCHANGED <<task, starter, request>>
SideStep ==
  /\ UNCHANGED <<job, counts>>
  /\ \/ SideSetsStatus \/ SideActivates \/ SideSwitchesOff \/ SideSends \/ SidePrepares

LEMMA SimpleGoto ==
  ASSUME TypeOK, NEW a, NEW b \in {"read", "evaluate", "activate", "create"}, At(b), Goto(a)
  PROVE  task' = RT(a, task.msg)
<1>1. task = RT(b, task.msg)
  BY TaskFacts, RecordFacts DEF At
<1> QED
  BY <1>1 DEF Goto, RT

LEMMA RulesAreSide ==
  ASSUME TypeOK,
         \/ \E s \in Given : ChangeStatus(s)
         \/ StartInJob \/ ActivateInJob \/ EndStartInJob
         \/ \E s \in Starter : Start(s) \/ ActivateLead(s) \/ EndStart(s)
  PROVE  SideStep
<1>1. ASSUME NEW s \in Given, ChangeStatus(s) PROVE SideStep
  BY <1>1, ConversationAssumption DEF ChangeStatus, SetStatus, SideStep, SideSetsStatus, Overtake, history
<1>2. CASE StartInJob
  BY <1>2, SimpleGoto DEF StartInJob, SideStep, SidePrepares, history
<1>3. CASE ActivateInJob
  BY <1>3, SimpleGoto DEF ActivateInJob, SideStep, SideActivates
<1>4. CASE EndStartInJob
  <2>1. task' = RT("evaluate", task.msg)
    BY <1>4, SimpleGoto DEF EndStartInJob, At
  <2> QED
    BY <1>4, <2>1 DEF EndStartInJob, SideStep, SideSends
<1>5. ASSUME NEW s \in Starter, Start(s) PROVE SideStep
  BY <1>5 DEF Start, SideStep, SidePrepares, history
<1>6. ASSUME NEW s \in Starter, ActivateLead(s) PROVE SideStep
  BY <1>6 DEF ActivateLead, SideStep, SideActivates
<1>7. ASSUME NEW s \in Starter, EndStart(s) PROVE SideStep
  BY <1>7 DEF EndStart, SideStep, SideSends
<1> QED
  BY <1>1, <1>2, <1>3, <1>4, <1>5, <1>6, <1>7

LEMMA UsersAreSide ==
  ASSUME TypeOK, Users
  PROVE  SideStep
<1>1. ASSUME NEW a \in Agent, BeginSend(a) PROVE SideStep
  BY <1>1 DEF BeginSend, SideStep, SidePrepares, RequestMoves, history
<1>2. ASSUME NEW a \in Agent, Posted(a) PROVE SideStep
  <2>1. RequestMoves(a)
    BY <1>2 DEF Posted, TakesOver, RequestMoves, RequestEnds
  <2> QED
    BY <1>2, <2>1 DEF Posted, SideStep, SidePrepares, history
<1>3. ASSUME NEW a \in Agent, SwitchAfterSend(a) PROVE SideStep
  BY <1>3 DEF SwitchAfterSend, SideStep, SideSwitchesOff, RequestEnds
<1>4. ASSUME NEW a \in Agent, WriteUpdate(a) PROVE SideStep
  <2>1. RequestEnds(a) /\ UNCHANGED <<job, starter, history>> /\ request[a].at = "update"
    BY <1>4 DEF WriteUpdate, RequestEnds
  <2>2. CASE request[a].status # request[a].seen
    <3>1. request[a].status \in Status
      BY <2>1 DEF TypeOK, Request, Idle
    <3>2. SetStatus(request[a].status)
      BY <1>4, <2>2 DEF WriteUpdate
    <3>3. SideSetsStatus
      BY <2>1, <3>1, <3>2 DEF SetStatus, SideSetsStatus, Overtake, history
    <3> QED
      BY <2>1, <3>3 DEF SideStep, history
  <2>3. CASE ~(request[a].status # request[a].seen)
    <3>1. UNCHANGED <<lead, task>>
      BY <1>4, <2>3 DEF WriteUpdate
    <3> QED
      BY <2>1, <3>1 DEF SideStep, SidePrepares, RequestMoves, history
  <2> QED
    BY <2>2, <2>3
<1>5. ASSUME NEW a \in Agent, RequestFails(a) PROVE SideStep
  BY <1>5 DEF RequestFails, Fail, SideStep, SidePrepares, RequestMoves, RequestEnds, history
<1>6. ASSUME NEW a \in Agent, NEW s \in Given, BeginUpdate(a, s) PROVE SideStep
  BY <1>6, ConversationAssumption DEF BeginUpdate, SideStep, SidePrepares, RequestMoves, history
<1>7. CASE Toggle
  BY <1>7 DEF Toggle, SideStep, SideActivates, SideSwitchesOff
<1> QED
  BY <1>1, <1>2, <1>3, <1>4, <1>5, <1>6, <1>7 DEF Users

LEMMA StaysClosed ==
  ASSUME TypeOK, closed' = closed, task.at # "work"
  PROVE  closed' = (closed /\ ~SwitchingOff)
<1>1. ~SwitchingOff
  BY DEF SwitchingOff, Doing, At
<1>2. closed \in BOOLEAN
  BY DEF TypeOK
<1> QED
  BY <1>1, <1>2, Zenon

LEMMA NextCases ==
  ASSUME TypeOK, [Next]_vars
  PROVE  \/ \E n \in Inbound : TakeJob(n)
         \/ BeginsReply \/ \E r \in Reply : SendReply(r)
         \/ Deactivate \/ CloseStatus \/ AdvanceStage \/ CreateVisit
         \/ ToRules \/ RulesDone \/ RulesThrow \/ Crash \/ SideStep
<1>1. CASE ReadLead
  <2>1. CASE active
    BY <1>1, <2>1 DEF ReadLead, Answers, BeginsReply, WT
  <2>2. CASE ~active
    <3>1. closed' = (closed /\ ~SwitchingOff)
      BY <1>1, StaysClosed DEF ReadLead, At, history
    <3> QED
      BY <1>1, <2>2, <3>1 DEF ReadLead, Answers, ToRules, Evaluating, RT, At, history
  <2> QED
    BY <2>1, <2>2
<1>2. CASE NoReply
  <2>1. closed' = (closed /\ ~SwitchingOff)
    BY <1>2, StaysClosed DEF NoReply, At, history
  <2> QED
    BY <1>2, <2>1 DEF NoReply, ToRules, Evaluating, RT, At, history
<1>3. CASE ReplyFails
  BY <1>3 DEF ReplyFails, ToRules, Thrown, Evaluating, RT
<1>4. CASE UNCHANGED vars
  BY <1>4 DEF vars, procs, history, SideStep, SidePrepares
<1> QED
  BY <1>1, <1>2, <1>3, <1>4, RulesAreSide, UsersAreSide DEF Next, AutoReply, Rules

-----------------------------------------------------------------------------
(* Types *)

LEMMA GoesOn ==
  ASSUME TypeOK, task.at \in {"reply", "work"}, NEW todo \in Seq(Work), task' = WithWork(task, todo)
  PROVE  IF todo = <<>> THEN task' = RT("evaluate", task.msg)
         ELSE task' = WT("work", task.msg, task.seen, todo, task.overtaken)
<1>1. task = WT(task.at, task.msg, task.seen, task.todo, task.overtaken)
  BY TaskFacts
<1>2. CASE todo = <<>>
  BY <1>2 DEF WithWork, Evaluating, RT
<1>3. CASE todo # <<>>
  <2>1. task' = [task EXCEPT !.at = "work", !.todo = todo]
    BY <1>3 DEF WithWork
  <2> QED
    BY <1>1, <1>3, <2>1 DEF WT
<1> QED
  BY <1>2, <1>3

(* A piece of work is done.                                                 *)
LEMMA WorkContinues ==
  ASSUME TypeOK, WorkIsInTurn, At("work"), Continue
  PROVE  /\ task.todo # <<>> /\ InTurn(task.todo) /\ InTurn(Tail(task.todo)) /\ Tail(task.todo) \in Seq(Work)
         /\ IF Tail(task.todo) = <<>> THEN task' = RT("evaluate", task.msg)
            ELSE task' = WT("work", task.msg, task.seen, Tail(task.todo), task.overtaken)
<1>1. task.todo # <<>> /\ InTurn(task.todo)
  BY DEF WorkIsInTurn
<1>2. InTurn(Tail(task.todo)) /\ Tail(task.todo) \in Seq(Work)
  <2>1. InTurn(Tail(task.todo))
    BY <1>1, TailInTurn
  <2> QED
    BY <2>1 DEF InTurn, Within
<1>3. task' = WithWork(task, Tail(task.todo)) /\ task.at = "work"
  BY DEF Continue, At
<1> QED
  BY <1>1, <1>2, <1>3, GoesOn

LEMMA WorkingSteps ==
  Deactivate \/ CloseStatus \/ AdvanceStage \/ CreateVisit => At("work") /\ Continue
BY DEF Deactivate, CloseStatus, AdvanceStage, CreateVisit, SwitchingOff, Doing

LEMMA Overtaken ==
  ASSUME TypeOK, task' = Overtake
  PROVE  IF task.at \in {"reply", "work"}
         THEN task' = WT(task.at, task.msg, task.seen, task.todo, TRUE)
         ELSE task' = task
<1>1. CASE task.at \in {"reply", "work"}
  <2>1. task = WT(task.at, task.msg, task.seen, task.todo, task.overtaken)
    BY <1>1, TaskFacts
  <2>2. task' = [task EXCEPT !.overtaken = TRUE]
    BY <1>1 DEF Overtake
  <2> QED
    BY <1>1, <2>1, <2>2 DEF WT
<1>2. CASE task.at \notin {"reply", "work"}
  BY <1>2 DEF Overtake
<1> QED
  BY <1>1, <1>2

LEMMA SideTask ==
  ASSUME TypeOK, SideStep
  PROVE  \/ task' = task
         \/ /\ task.at \in {"evaluate", "activate", "create"}
            /\ \E a \in {"evaluate", "activate", "create"} : task' = RT(a, task.msg)
         \/ /\ task.at \in {"reply", "work"}
            /\ task' = WT(task.at, task.msg, task.seen, task.todo, TRUE)
<1>1. CASE SideSetsStatus
  <2>1. task' = Overtake
    BY <1>1 DEF SideSetsStatus
  <2> QED
    BY <2>1, Overtaken
<1> QED
  BY <1>1 DEF SideStep, SideActivates, SideSwitchesOff, SideSends, SidePrepares, At

LEMMA NextTask ==
  ASSUME TypeOK, WorkIsInTurn, [Next]_vars
  PROVE  task' \in Task /\ WorkIsInTurn'
<1>1. task \in Task
  BY DEF TypeOK
<1>2. CASE task' = task
  BY <1>1, <1>2 DEF WorkIsInTurn, At
<1>3. ASSUME NEW a \in {"read", "evaluate", "activate", "create"}, NEW n \in Inbound, task' = RT(a, n)
      PROVE  task' \in Task /\ WorkIsInTurn'
  BY <1>3, RecordFacts DEF WorkIsInTurn, At, Task, Simple, RT
<1>4. ASSUME NEW n \in Inbound, NEW seen \in Status, NEW todo, NEW o \in BOOLEAN,
             \/ InTurn(todo) /\ todo # <<>> /\ task' = WT("work", n, seen, todo, o)
             \/ todo \in Seq(Work) /\ task' = WT("reply", n, seen, todo, o)
      PROVE  task' \in Task /\ WorkIsInTurn'
  <2>1. todo \in Seq(Work)
    BY <1>4 DEF InTurn, Within
  <2> QED
    BY <1>4, <2>1, RecordFacts, TaskTypes DEF WorkIsInTurn, At
<1>5. CASE task' = Idle
  BY <1>5 DEF WorkIsInTurn, At, Idle, Task
<1>6. ASSUME NEW n \in Inbound, TakeJob(n) PROVE task' \in Task /\ WorkIsInTurn'
  BY <1>3, <1>6 DEF TakeJob, RT
<1>7. CASE BeginsReply
  <2>1. task.msg \in Inbound /\ status \in Status /\ <<>> \in Seq(Work)
    BY <1>7, TaskFacts DEF BeginsReply, At, TypeOK
  <2> QED
    BY <1>4, <1>7, <2>1 DEF BeginsReply
<1>8. ASSUME NEW r \in Reply, SendReply(r) PROVE task' \in Task /\ WorkIsInTurn'
  <2>1. task.at = "reply" /\ task' = WithWork(task, Plan(r))
    BY <1>8 DEF SendReply, At
  <2>2. InTurn(Plan(r)) /\ Plan(r) \in Seq(Work)
    BY PlanInTurn DEF InTurn, Within
  <2>3. task.msg \in Inbound /\ task.seen \in Status /\ task.overtaken \in BOOLEAN
    BY <2>1, TaskFacts
  <2>4. IF Plan(r) = <<>> THEN task' = RT("evaluate", task.msg)
        ELSE task' = WT("work", task.msg, task.seen, Plan(r), task.overtaken)
    BY <2>1, <2>2, GoesOn
  <2> QED
    BY <1>3, <1>4, <2>2, <2>3, <2>4
<1>9. CASE Deactivate \/ CloseStatus \/ AdvanceStage \/ CreateVisit
  <2>1. At("work") /\ Continue
    BY <1>9, WorkingSteps
  <2>2. task.msg \in Inbound /\ task.seen \in Status /\ task.overtaken \in BOOLEAN
    BY <2>1, TaskFacts DEF At
  <2> QED
    BY <1>3, <1>4, <2>1, <2>2, WorkContinues
<1>10. CASE ToRules
  <2>1. task.msg \in Inbound
    BY <1>10, TaskFacts DEF ToRules
  <2> QED
    BY <1>3, <1>10, <2>1 DEF ToRules
<1>11. CASE RulesDone \/ RulesThrow \/ Crash
  BY <1>5, <1>11 DEF RulesDone, RulesThrow, Crash
<1>12. CASE SideStep
  <2>1. CASE task.at \in {"evaluate", "activate", "create"}
                /\ \E a \in {"evaluate", "activate", "create"} : task' = RT(a, task.msg)
    <3>1. task.msg \in Inbound
      BY <2>1, TaskFacts
    <3> QED
      BY <1>3, <2>1, <3>1
  <2>2. CASE task.at \in {"reply", "work"}
                /\ task' = WT(task.at, task.msg, task.seen, task.todo, TRUE)
    <3>1. task.msg \in Inbound /\ task.seen \in Status /\ task.todo \in Seq(Work)
      BY <2>2, TaskFacts
    <3>2. task.at = "work" => InTurn(task.todo) /\ task.todo # <<>>
      BY DEF WorkIsInTurn, At
    <3> QED
      BY <1>4, <2>2, <3>1, <3>2
  <2> QED
    BY <1>2, <1>12, <2>1, <2>2, SideTask
<1> QED
  BY <1>6, <1>7, <1>8, <1>9, <1>10, <1>11, <1>12, NextCases

JobRow == [state : {"waiting", "active", "done", "failed"}, attempt : 0..MaxAttempts,
           stalled : BOOLEAN]

LEMMA Settled ==
  ASSUME TypeOK, NEW n \in Inbound, NEW ok \in BOOLEAN, job' = Settle(job, n, ok),
         job[n].attempt < MaxAttempts
  PROVE  /\ job' \in [Inbound -> JobRow] /\ \A k \in Inbound \ {n} : job'[k] = job[k]
         /\ job'[n].state = IF ok THEN "done"
                            ELSE IF job[n].attempt + 1 < MaxAttempts THEN "waiting" ELSE "failed"
         /\ job'[n].attempt = job[n].attempt + (IF ok THEN 0 ELSE 1)
<1>1. job \in [Inbound -> JobRow] /\ MaxAttempts \in Nat
  BY ConversationAssumption DEF TypeOK, JobRow
<1> DEFINE tries == job[n].attempt + (IF ok THEN 0 ELSE 1)
           next == IF ok THEN "done" ELSE IF tries < MaxAttempts THEN "waiting" ELSE "failed"
<1>2. job' = [job EXCEPT ![n].attempt = tries, ![n].state = next]
  BY DEF Settle
<1>3. tries \in 0..MaxAttempts /\ next \in {"waiting", "done", "failed"}
  BY <1>1 DEF JobRow
<1> HIDE DEF tries, next
<1>4. job' \in [Inbound -> JobRow] /\ \A k \in Inbound \ {n} : job'[k] = job[k]
  BY <1>1, <1>2, <1>3 DEF JobRow
<1>5. job'[n].state = next /\ job'[n].attempt = tries
  BY <1>1, <1>2 DEF JobRow
<1> QED
  BY <1>1, <1>4, <1>5 DEF tries, next, JobRow

LEMMA NextJobs ==
  ASSUME TypeOK, JobsAreTaken, [Next]_vars
  PROVE  job' \in [Inbound -> JobRow] /\ JobsAreTaken'
<1>1. job \in [Inbound -> JobRow] /\ MaxAttempts \in Nat
  BY ConversationAssumption DEF TypeOK, JobRow
<1>2. ASSUME job' = job, task' # Idle /\ task # Idle /\ task'.msg = task.msg
      PROVE  job' \in [Inbound -> JobRow] /\ JobsAreTaken'
  BY <1>1, <1>2 DEF JobsAreTaken, TakenAt
<1>3. ASSUME job' = job, task' = task PROVE job' \in [Inbound -> JobRow] /\ JobsAreTaken'
  BY <1>1, <1>3 DEF JobsAreTaken, TakenAt
<1>4. ASSUME NEW n \in Inbound, TakeJob(n) PROVE job' \in [Inbound -> JobRow] /\ JobsAreTaken'
  <2>1. /\ task = Idle /\ task' # Idle /\ task'.msg = n /\ job[n].state = "waiting"
        /\ job' = [job EXCEPT ![n].state = "active"]
    BY <1>4, RecordFacts DEF TakeJob, RT
  <2>2. job' \in [Inbound -> JobRow] /\ job'[n].state = "active" /\ job'[n].attempt = job[n].attempt
        /\ \A k \in Inbound \ {n} : job'[k] = job[k]
    BY <1>1, <2>1 DEF JobRow
  <2> QED
    BY <2>1, <2>2 DEF JobsAreTaken, TakenAt
<1>5. CASE BeginsReply
  <2>1. task' # Idle /\ task # Idle /\ task'.msg = task.msg
    BY <1>5 DEF BeginsReply, At, WT, Idle
  <2> QED
    BY <1>2, <1>5, <2>1 DEF BeginsReply
<1>6. ASSUME NEW r \in Reply, SendReply(r) PROVE job' \in [Inbound -> JobRow] /\ JobsAreTaken'
  <2>1. task.at = "reply" /\ task' = WithWork(task, Plan(r)) /\ Plan(r) \in Seq(Work)
    BY <1>6, PlanInTurn DEF SendReply, At, InTurn, Within
  <2>2. task' # Idle /\ task # Idle /\ task'.msg = task.msg
    <3>1. task' = RT("evaluate", task.msg)
          \/ task' = WT("work", task.msg, task.seen, Plan(r), task.overtaken)
      BY <2>1, GoesOn
    <3> QED
      BY <2>1, <3>1, RecordFacts
  <2> QED
    BY <1>2, <1>6, <2>2 DEF SendReply
<1>7. CASE Deactivate \/ CloseStatus \/ AdvanceStage \/ CreateVisit
  <2>1. task.at = "work" /\ task' = WithWork(task, Tail(task.todo)) /\ UNCHANGED job
    BY <1>7, WorkingSteps DEF Continue, At, Deactivate, CloseStatus, AdvanceStage, CreateVisit
  <2>2. task' # Idle /\ task'.msg = task.msg
    <3>1. CASE Tail(task.todo) = <<>>
      BY <2>1, <3>1, RecordFacts DEF WithWork, Evaluating, RT
    <3>2. CASE Tail(task.todo) # <<>>
      <4>1. task' = [task EXCEPT !.at = "work", !.todo = Tail(task.todo)]
        BY <2>1, <3>2 DEF WithWork
      <4>2. task = WT(task.at, task.msg, task.seen, task.todo, task.overtaken)
        BY <2>1, TaskFacts
      <4>3. task' = WT("work", task.msg, task.seen, Tail(task.todo), task.overtaken)
        BY <4>1, <4>2 DEF WT
      <4> QED
        BY <4>3, RecordFacts
    <3> QED
      BY <3>1, <3>2
  <2>3. task # Idle
    BY <2>1, RecordFacts
  <2> QED
    BY <1>2, <2>1, <2>2, <2>3
<1>8. CASE ToRules
  <2>1. task' # Idle /\ task # Idle /\ task'.msg = task.msg
    BY <1>8, RecordFacts DEF ToRules
  <2> QED
    BY <1>2, <1>8, <2>1 DEF ToRules
<1>9. CASE RulesDone \/ RulesThrow
  <2>1. /\ task' = Idle /\ task.at = "evaluate" /\ task # Idle
        /\ \E ok \in BOOLEAN : job' = Settle(job, task.msg, ok)
    BY <1>9, RecordFacts DEF RulesDone, RulesThrow, At
  <2>2. PICK n \in Inbound : n = task.msg
    BY <2>1, TaskFacts
  <2>3. PICK ok \in BOOLEAN : job' = Settle(job, n, ok)
    BY <2>1, <2>2
  <2>4. job[n].attempt < MaxAttempts /\ job[n].attempt \in Nat
    BY <1>1, <2>1, <2>2 DEF JobsAreTaken, TakenAt, JobRow
  <2>5. /\ job' \in [Inbound -> JobRow] /\ \A k \in Inbound \ {n} : job'[k] = job[k]
        /\ job'[n].state # "active"
        /\ job'[n].state = "waiting" => job'[n].attempt < MaxAttempts
    BY <2>3, <2>4, Settled
  <2> QED
    BY <2>1, <2>2, <2>5 DEF JobsAreTaken, TakenAt
<1>10. CASE Crash
  <2>1. \A n \in Inbound :
          /\ job'[n] = IF job[n].state # "active" THEN job[n]
                       ELSE [job[n] EXCEPT !.state = IF job[n].stalled THEN "failed" ELSE "waiting",
                                           !.stalled = TRUE]
          /\ job[n] \in JobRow
    BY <1>1, <1>10 DEF Crash
  <2>2. \A n \in Inbound : /\ job'[n] \in JobRow /\ job'[n].state # "active"
                           /\ job'[n].attempt = job[n].attempt
                           /\ job'[n].state = "waiting" => job[n].state \in {"waiting", "active"}
    BY <2>1 DEF JobRow
  <2>3. job' \in [Inbound -> JobRow]
    <3>1. job' = [n \in Inbound |-> job'[n]]
      BY <1>10 DEF Crash
    <3> QED
      BY <2>2, <3>1
  <2>4. task' = Idle
    BY <1>10 DEF Crash
  <2> QED
    BY <2>2, <2>3, <2>4 DEF JobsAreTaken, TakenAt
<1>11. CASE SideStep
  <2>1. CASE task' = task
    BY <1>3, <1>11, <2>1 DEF SideStep
  <2>2. CASE task' # task
    <3>1. task' # Idle /\ task # Idle /\ task'.msg = task.msg
      <4>1. CASE task.at \in {"evaluate", "activate", "create"}
                    /\ \E a \in {"evaluate", "activate", "create"} : task' = RT(a, task.msg)
        BY <4>1, RecordFacts
      <4>2. CASE task.at \in {"reply", "work"}
                    /\ task' = WT(task.at, task.msg, task.seen, task.todo, TRUE)
        BY <4>2 DEF WT, Idle
      <4> QED
        BY <1>11, <2>2, <4>1, <4>2, SideTask
    <3> QED
      BY <1>2, <1>11, <3>1 DEF SideStep
  <2> QED
    BY <2>1, <2>2
<1> QED
  BY <1>4, <1>5, <1>6, <1>7, <1>8, <1>9, <1>10, <1>11, NextCases

LEMMA LateType ==
  ASSUME TypeOK
  PROVE  Late \in Nat
BY DEF Late, TypeOK

LEMMA RequestTypes ==
  ASSUME TypeOK, SideStep
  PROVE  request' \in [Agent -> Request]
<1>1. request \in [Agent -> Request] /\ status \in Status /\ active \in BOOLEAN
  BY DEF TypeOK
<1>2. ASSUME NEW a \in Agent, RequestEnds(a) PROVE request' \in [Agent -> Request]
  BY <1>1, <1>2 DEF RequestEnds, Request
<1>3. CASE Activate
  <2>1. \A a \in Agent : request[a].at \in {"post", "switch"} =>
          [request[a] EXCEPT !.crossed = TRUE] \in Request
    BY <1>1 DEF Request, Idle
  <2> QED
    BY <1>1, <1>3, <2>1 DEF Activate
<1>4. ASSUME NEW a \in Agent, RequestMoves(a) PROVE request' \in [Agent -> Request]
  <2>1. [at |-> "post", seen |-> active, crossed |-> FALSE] \in Request
    BY <1>1 DEF Request
  <2>2. \A s \in Status : [at |-> "update", seen |-> status, status |-> s] \in Request
    BY <1>1 DEF Request
  <2>3. request[a].at = "post" => [request[a] EXCEPT !.at = "switch"] \in Request
    BY <1>1 DEF Request, Idle
  <2> QED
    BY <1>1, <1>2, <1>4, <2>1, <2>2, <2>3 DEF RequestMoves
<1> QED
  BY <1>1, <1>2, <1>3, <1>4 DEF SideStep, SideSetsStatus, SideActivates, SideSwitchesOff,
                                SideSends, SidePrepares

LEMMA NextCounts ==
  ASSUME TypeOK, [Next]_vars
  PROVE  /\ replied' \in [Inbound -> Nat] /\ visits' \in [Inbound -> Nat]
         /\ refused' \in [Inbound -> Nat]
<1>1. /\ replied \in [Inbound -> Nat] /\ visits \in [Inbound -> Nat]
      /\ refused \in [Inbound -> Nat]
  BY DEF TypeOK
<1>2. ASSUME NEW f \in [Inbound -> Nat], NEW n \in Inbound
      PROVE  [f EXCEPT ![n] = @ + 1] \in [Inbound -> Nat]
  OBVIOUS
<1>3. ASSUME NEW r \in Reply, SendReply(r)
      PROVE  replied' \in [Inbound -> Nat] /\ UNCHANGED <<visits, refused>>
  <2>1. replied' = [replied EXCEPT ![task.msg] = @ + 1] /\ UNCHANGED <<visits, refused>>
    BY <1>3 DEF SendReply
  <2>2. task.msg \in Inbound
    BY <1>3, TaskFacts DEF SendReply, At
  <2> QED
    BY <1>1, <1>2, <2>1, <2>2
<1>4. CASE CreateVisit
  <2>1. visits' = [visits EXCEPT ![task.msg] = @ + 1] /\ UNCHANGED <<replied, refused>>
    BY <1>4 DEF CreateVisit
  <2>2. task.msg \in Inbound
    BY <1>4, TaskFacts DEF CreateVisit, Doing, At
  <2> QED
    BY <1>1, <1>2, <2>1, <2>2
<1>5. CASE RulesThrow
  <2>1. refused' = [refused EXCEPT ![task.msg] = @ + 1] /\ UNCHANGED <<replied, visits>>
    BY <1>5 DEF RulesThrow
  <2>2. task.msg \in Inbound
    BY <1>5, TaskFacts DEF RulesThrow, At
  <2> QED
    BY <1>1, <1>2, <2>1, <2>2
<1>6. CASE Crash
  <2>1. \A n \in Inbound : refused[n] + (IF job[n].state = "active" THEN 1 ELSE 0) \in Nat
    BY <1>1
  <2>2. /\ refused' = [n \in Inbound |-> refused[n] + (IF job[n].state = "active" THEN 1 ELSE 0)]
        /\ UNCHANGED <<replied, visits>>
    BY <1>6 DEF Crash
  <2>3. refused' \in [Inbound -> Nat]
    BY <2>1, <2>2
  <2> QED
    BY <1>1, <2>2, <2>3
<1>7. CASE \/ \E n \in Inbound : TakeJob(n)
           \/ BeginsReply \/ Deactivate \/ CloseStatus \/ AdvanceStage
  BY <1>1, <1>7 DEF TakeJob, BeginsReply, Deactivate, CloseStatus, AdvanceStage, counts, history
<1>8. CASE ToRules \/ RulesDone \/ SideStep
  BY <1>1, <1>8 DEF ToRules, RulesDone, SideStep, counts
<1>9. CASE \E r \in Reply : SendReply(r)
  BY <1>1, <1>3, <1>9
<1> QED
  BY <1>4, <1>5, <1>6, <1>7, <1>8, <1>9, NextCases

LEMMA NextTypeOK ==
  ASSUME TypeOK, WorkIsInTurn, JobsAreTaken, [Next]_vars
  PROVE  TypeOK' /\ WorkIsInTurn' /\ JobsAreTaken'
<1>1. task' \in Task /\ WorkIsInTurn'
  BY NextTask
<1>2. job' \in [Inbound -> JobRow] /\ JobsAreTaken'
  BY NextJobs
<1>3. \A h \in {replied, visits, refused}' : h \in [Inbound -> Nat]
  BY NextCounts
<1>4. /\ active' \in BOOLEAN /\ status' \in Status /\ late' \in Nat /\ closed' \in BOOLEAN
      /\ starter' \in [Starter -> {"idle", "activate", "create"}] /\ request' \in [Agent -> Request]
  <2>1. /\ active \in BOOLEAN /\ status \in Status /\ late \in Nat /\ closed \in BOOLEAN
        /\ starter \in [Starter -> {"idle", "activate", "create"}] /\ request \in [Agent -> Request]
        /\ Late \in Nat /\ Stage \subseteq Status /\ "VISIT" \in Status /\ "LOST" \in Status
    BY LateType, StatusFacts DEF TypeOK
  <2>2. CASE \/ \E n \in Inbound : TakeJob(n)
             \/ BeginsReply \/ CreateVisit \/ RulesDone \/ RulesThrow
    BY <2>1, <2>2 DEF TakeJob, BeginsReply, CreateVisit, RulesDone, RulesThrow, lead, history, counts
  <2>3. ASSUME NEW r \in Reply, SendReply(r)
        PROVE  /\ UNCHANGED <<lead, starter, request>> /\ late' = Late
               /\ closed' \in BOOLEAN
    BY <2>3, Zenon DEF SendReply
  <2>4. CASE \E r \in Reply : SendReply(r)
    BY <2>1, <2>3, <2>4 DEF lead
  <2>5. CASE Deactivate \/ CloseStatus \/ AdvanceStage
    BY <2>1, <2>5 DEF Deactivate, SwitchOff, CloseStatus, AdvanceStage, lead, history, counts
  <2>6. CASE ToRules \/ Crash
    <3>1. closed' \in BOOLEAN
      <4>1. closed' = (closed /\ ~SwitchingOff)
        BY <2>6 DEF ToRules, Crash
      <4> QED
        BY <4>1, Zenon
    <3>2. UNCHANGED <<lead, request, late>> /\ starter' \in [Starter -> {"idle", "activate", "create"}]
      BY <2>1, <2>6 DEF ToRules, Crash
    <3> QED
      BY <2>1, <3>1, <3>2 DEF lead
  <2>7. CASE SideStep
    <3>1. request' \in [Agent -> Request]
      BY <2>7, RequestTypes
    <3>2. CASE SideSetsStatus \/ SideSwitchesOff
      BY <2>1, <3>1, <3>2 DEF SideSetsStatus, SideSwitchesOff, SwitchOff
    <3>3. CASE SideActivates
      BY <2>1, <3>1, <3>3 DEF SideActivates, Activate
    <3>4. CASE SideSends
      BY <2>1, <3>1, <3>4 DEF SideSends, lead
    <3>5. CASE SidePrepares
      BY <2>1, <3>1, <3>5 DEF SidePrepares, lead
    <3> QED
      BY <2>7, <3>2, <3>3, <3>4, <3>5 DEF SideStep
  <2> QED
    BY <2>2, <2>4, <2>5, <2>6, <2>7, NextCases
<1> QED
  BY <1>1, <1>2, <1>3, <1>4 DEF TypeOK, JobRow

LEMMA InitTypeOK ==
  ASSUME Init
  PROVE  TypeOK /\ WorkIsInTurn /\ JobsAreTaken
<1>1. TypeOK
  <2>1. job \in [Inbound -> JobRow]
    BY ConversationAssumption DEF Init, JobRow
  <2>2. request \in [Agent -> Request] /\ task \in Task
    BY DEF Init, Request, Task
  <2>3. status \in Status
    BY ConversationAssumption DEF Init
  <2>4. \A h \in {replied, visits, refused} : h \in [Inbound -> Nat]
    BY DEF Init
  <2> QED
    BY <2>1, <2>2, <2>3, <2>4 DEF Init, TypeOK, JobRow
<1> QED
  BY <1>1, ConversationAssumption, RecordFacts DEF Init, WorkIsInTurn, JobsAreTaken, TakenAt, At

(* The lead's row, jobs, the reply in hand, starters and requests keep their *)
(* shape: a job never has more attempts than it may, and the work of a reply *)
(* is done in the order of the code.                                         *)
THEOREM ConversationTypeCorrect == Spec => []TypeOK
<1>1. TypeOK /\ WorkIsInTurn /\ JobsAreTaken /\ [Next]_vars => TypeOK' /\ WorkIsInTurn' /\ JobsAreTaken'
  BY NextTypeOK
<1> QED
  BY <1>1, InitTypeOK, PTL DEF Spec

(* A reply goes out: its work is next, or the rules.                        *)
LEMMA ReplySent ==
  ASSUME TypeOK, NEW r \in Reply, SendReply(r)
  PROVE  /\ task.at = "reply" /\ task # Idle /\ task.msg \in Inbound
         /\ \/ Plan(r) = <<>> /\ task' = RT("evaluate", task.msg)
            \/ Plan(r) # <<>> /\ task' = WT("work", task.msg, task.seen, Plan(r), task.overtaken)
<1>1. task.at = "reply" /\ task' = WithWork(task, Plan(r)) /\ Plan(r) \in Seq(Work)
  BY PlanInTurn DEF SendReply, At, InTurn, Within
<1> QED
  BY <1>1, GoesOn, TaskFacts

LEMMA NotWorking ==
  ASSUME task.at # "work"
  PROVE  ~SwitchingOff /\ ~At("work")
BY DEF SwitchingOff, Doing, At

-----------------------------------------------------------------------------
(* Answers are counted *)

(* An attempt has answered once its work has begun, whatever follows.       *)
Spent(n) ==
  \/ job[n].state = "done"
  \/ task # Idle /\ task.msg = n /\ task.at \notin {"read", "reply"}
Pending(n) == At("work") /\ task.msg = n /\ ~Only(task.todo, Work \ {"visit"})
Counted(n) ==
  /\ replied[n] <= refused[n] + (IF Spent(n) THEN 1 ELSE 0)
  /\ visits[n] + (IF Pending(n) THEN 1 ELSE 0) <= replied[n]
RepliesAreCounted == \A n \in Inbound : Counted(n)

CountTypes == \A n \in Inbound : replied[n] \in Nat /\ visits[n] \in Nat /\ refused[n] \in Nat

LEMMA CountsAreTyped ==
  ASSUME TypeOK
  PROVE  CountTypes
BY DEF TypeOK, CountTypes

LEMMA CountKept ==
  ASSUME CountTypes, NEW n \in Inbound, Counted(n), UNCHANGED counts,
         Spent(n) => Spent(n)', Pending(n)' => Pending(n)
  PROVE  Counted(n)'
BY DEF CountTypes, Counted, counts

LEMMA NextCounted ==
  ASSUME TypeOK, WorkIsInTurn, JobsAreTaken, RepliesAreCounted, [Next]_vars, NEW n \in Inbound
  PROVE  Counted(n)'
<1>1. CountTypes /\ Counted(n) /\ TakenAt(n) /\ job \in [Inbound -> JobRow]
  BY CountsAreTyped DEF RepliesAreCounted, JobsAreTaken, TypeOK, JobRow
<1>2. ASSUME NEW m \in Inbound, TakeJob(m) PROVE Counted(n)'
  <2>1. /\ task = Idle /\ task' = RT("read", m) /\ UNCHANGED counts
        /\ job' = [job EXCEPT ![m].state = "active"] /\ job[m].state = "waiting"
    BY <1>2 DEF TakeJob, RT, history, counts
  <2>2. job[n].state = "done" => job'[n].state = "done"
    BY <1>1, <2>1 DEF JobRow
  <2>3. Spent(n) => Spent(n)'
    BY <2>1, <2>2 DEF Spent
  <2>4. ~Pending(n)'
    BY <2>1, RecordFacts DEF Pending, At
  <2> QED
    BY <1>1, <2>1, <2>3, <2>4, CountKept
<1>3. CASE BeginsReply
  <2>1. /\ task.at = "read" /\ task' = WT("reply", task.msg, status, <<>>, FALSE)
        /\ UNCHANGED <<job, counts>>
    BY <1>3 DEF BeginsReply, At, history
  <2>2. Spent(n) => Spent(n)'
    BY <2>1 DEF Spent
  <2>3. ~Pending(n)'
    BY <2>1 DEF Pending, At, WT
  <2> QED
    BY <1>1, <2>1, <2>2, <2>3, CountKept
<1>4. ASSUME NEW r \in Reply, SendReply(r) PROVE Counted(n)'
  <2>1. /\ task.at = "reply" /\ task # Idle /\ task'.msg = task.msg /\ task' # Idle
        /\ task'.at \in {"evaluate", "work"} /\ task.msg \in Inbound
    BY <1>4, ReplySent, RecordFacts
  <2>2. /\ replied' = [replied EXCEPT ![task.msg] = @ + 1] /\ replied \in [Inbound -> Nat]
        /\ UNCHANGED <<job, visits, refused>>
    BY <1>4 DEF SendReply, TypeOK
  <2>3. CASE task.msg = n
    <3>1. replied'[n] = replied[n] + 1
      BY <2>2, <2>3
    <3>2. ~Spent(n) /\ ~Pending(n)
      BY <1>1, <2>1, <2>3 DEF Spent, TakenAt, Pending, At
    <3>3. Spent(n)'
      BY <2>1, <2>3 DEF Spent
    <3>4. \A c \in {0, 1} : visits[n] + c <= replied[n] + 1
      BY <1>1, <3>2 DEF Counted, CountTypes
    <3>5. (IF Pending(n)' THEN 1 ELSE 0) \in {0, 1}
      OBVIOUS
    <3>6. visits'[n] + (IF Pending(n)' THEN 1 ELSE 0) <= replied'[n]
      BY <2>2, <3>1, <3>4, <3>5
    <3>7. replied'[n] <= refused'[n] + 1
      BY <1>1, <2>2, <3>1, <3>2 DEF Counted, CountTypes
    <3> QED
      BY <3>3, <3>6, <3>7 DEF Counted
  <2>4. CASE task.msg # n
    <3>1. replied'[n] = replied[n]
      BY <2>1, <2>2, <2>4
    <3>2. Spent(n) => Spent(n)'
      BY <2>2, <2>4 DEF Spent
    <3>3. ~Pending(n)'
      BY <2>1, <2>4 DEF Pending
    <3> QED
      BY <1>1, <2>2, <3>1, <3>2, <3>3 DEF Counted, CountTypes
  <2> QED
    BY <2>3, <2>4
<1>5. CASE Deactivate \/ CloseStatus \/ AdvanceStage \/ CreateVisit
  <2>1. At("work") /\ Continue
    BY <1>5, WorkingSteps
  <2>2. /\ task # Idle /\ task.msg \in Inbound /\ task.at = "work" /\ task' # Idle
        /\ task'.msg = task.msg /\ task'.at \in {"evaluate", "work"}
        /\ task'.at = "work" => task'.todo = Tail(task.todo) /\ Tail(task.todo) # <<>>
    BY <2>1, WorkContinues, TaskFacts, RecordFacts DEF At
  <2>3. job' = job /\ UNCHANGED <<replied, refused>>
    BY <1>5 DEF Deactivate, CloseStatus, AdvanceStage, CreateVisit, counts, history
  <2>4. Spent(n) => Spent(n)'
    BY <2>2, <2>3 DEF Spent
  <2>5. Pending(n)' => Pending(n) /\ Tail(task.todo) # <<>>
    <3>1. task.todo # <<>> /\ InTurn(task.todo)
      BY <2>1, WorkContinues
    <3>2. \A S : Only(task.todo, S) => Only(Tail(task.todo), S)
      BY <3>1, TailInTurn
    <3> QED
      BY <2>1, <2>2, <3>2 DEF Pending, At
  <2>6. CASE Deactivate \/ CloseStatus \/ AdvanceStage
    <3>1. UNCHANGED visits
      BY <2>6 DEF Deactivate, CloseStatus, AdvanceStage, counts, history
    <3> QED
      BY <1>1, <2>3, <2>4, <2>5, <3>1, CountKept DEF counts
  <2>7. CASE CreateVisit
    <3>1. /\ visits' = [visits EXCEPT ![task.msg] = @ + 1] /\ visits \in [Inbound -> Nat]
          /\ Head(task.todo) = "visit"
      BY <2>7 DEF CreateVisit, Doing, TypeOK
    <3>2. task.todo # <<>> /\ InTurn(task.todo)
      BY <2>1, WorkContinues
    <3>3. Tail(task.todo) = <<>> /\ ~Only(task.todo, Work \ {"visit"})
      BY <3>1, <3>2, TailInTurn
    <3>4. ~Pending(n)'
      BY <2>5, <3>3
    <3>5. CASE task.msg = n
      <4>1. Pending(n) /\ visits'[n] = visits[n] + 1
        BY <2>1, <3>1, <3>3, <3>5 DEF Pending
      <4> QED
        BY <1>1, <2>3, <2>4, <3>4, <4>1 DEF Counted, CountTypes
    <3>6. CASE task.msg # n
      <4>1. visits'[n] = visits[n]
        BY <2>2, <3>1, <3>6
      <4> QED
        BY <1>1, <2>3, <2>4, <3>4, <4>1 DEF Counted, CountTypes
    <3> QED
      BY <3>5, <3>6
  <2> QED
    BY <1>5, <2>6, <2>7
<1>6. CASE ToRules
  <2>1. /\ task.at \in {"read", "reply", "work"} /\ task # Idle
        /\ task' = RT("evaluate", task.msg) /\ UNCHANGED <<job, counts>>
    BY <1>6, RecordFacts DEF ToRules
  <2>2. Spent(n) => Spent(n)'
    BY <2>1, RecordFacts DEF Spent
  <2>3. ~Pending(n)'
    BY <2>1, RecordFacts DEF Pending, At
  <2> QED
    BY <1>1, <2>1, <2>2, <2>3, CountKept
<1>7. CASE RulesDone \/ RulesThrow
  <2>1. /\ task.at = "evaluate" /\ task # Idle /\ task' = Idle /\ task.msg \in Inbound
        /\ UNCHANGED <<replied, visits>>
    BY <1>7, TaskFacts, RecordFacts DEF RulesDone, RulesThrow, At
  <2>2. PICK m \in Inbound : m = task.msg
    BY <2>1
  <2>3. job[m].attempt < MaxAttempts
    BY <2>1, <2>2 DEF JobsAreTaken, TakenAt
  <2>4. ~Pending(n) /\ ~Pending(n)'
    BY <2>1 DEF Pending, At, Idle
  <2>5. CASE RulesDone
    <3>1. job' = Settle(job, m, TRUE) /\ UNCHANGED counts
      BY <2>2, <2>5 DEF RulesDone, counts
    <3>2. (\A k \in Inbound \ {m} : job'[k] = job[k]) /\ job'[m].state = "done"
      BY <2>3, <3>1, Settled
    <3>3. Spent(n) => Spent(n)'
      BY <2>1, <2>2, <3>2 DEF Spent
    <3> QED
      BY <1>1, <2>4, <3>1, <3>3, CountKept
  <2>6. CASE RulesThrow
    <3>1. /\ job' = Settle(job, m, FALSE) /\ refused' = [refused EXCEPT ![m] = @ + 1]
          /\ refused \in [Inbound -> Nat]
      BY <2>2, <2>6 DEF RulesThrow, TypeOK
    <3>2. \A k \in Inbound \ {m} : job'[k] = job[k]
      BY <2>3, <3>1, Settled
    <3>3. CASE n = m
      <4>1. refused'[n] = refused[n] + 1
        BY <3>1, <3>3
      <4> QED
        BY <1>1, <2>1, <2>4, <4>1 DEF Counted, CountTypes
    <3>4. CASE n # m
      <4>1. refused'[n] = refused[n] /\ job'[n] = job[n]
        BY <3>1, <3>2, <3>4
      <4>2. Spent(n) => Spent(n)'
        BY <2>1, <2>2, <3>4, <4>1 DEF Spent
      <4> QED
        BY <1>1, <2>1, <2>4, <4>1, <4>2 DEF Counted, CountTypes
    <3> QED
      BY <3>3, <3>4
  <2> QED
    BY <1>7, <2>5, <2>6
<1>8. CASE Crash
  <2>1. /\ task' = Idle /\ UNCHANGED <<replied, visits>>
        /\ refused'[n] = refused[n] + (IF job[n].state = "active" THEN 1 ELSE 0)
        /\ job[n].state # "active" => job'[n] = job[n]
    BY <1>8 DEF Crash
  <2>2. ~Pending(n)'
    BY <2>1 DEF Pending, At, Idle
  <2>3. CASE job[n].state = "active"
    BY <1>1, <2>1, <2>2, <2>3 DEF Counted, CountTypes
  <2>4. CASE job[n].state # "active"
    <3>1. Spent(n) => Spent(n)'
      BY <1>1, <2>1, <2>4 DEF Spent, TakenAt
    <3> QED
      BY <1>1, <2>1, <2>2, <2>4, <3>1 DEF Counted, CountTypes
  <2> QED
    BY <2>3, <2>4
<1>9. CASE SideStep
  <2>1. job' = job /\ UNCHANGED counts
    BY <1>9 DEF SideStep
  <2>2. CASE task' = task
    BY <1>1, <2>1, <2>2, CountKept DEF Spent, Pending, At
  <2>3. CASE task.at \in {"evaluate", "activate", "create"}
             /\ \E a \in {"evaluate", "activate", "create"} : task' = RT(a, task.msg)
    <3>1. task # Idle /\ task' # Idle /\ task'.msg = task.msg
          /\ task'.at \in {"evaluate", "activate", "create"}
      BY <2>3, RecordFacts
    <3> QED
      BY <1>1, <2>1, <3>1, CountKept DEF Spent, Pending, At
  <2>4. CASE task.at \in {"reply", "work"}
             /\ task' = WT(task.at, task.msg, task.seen, task.todo, TRUE)
    <3>1. task # Idle /\ task' # Idle /\ task'.msg = task.msg
          /\ task'.at = task.at /\ task'.todo = task.todo
      BY <2>4 DEF WT, Idle
    <3> QED
      BY <1>1, <2>1, <3>1, CountKept DEF Spent, Pending, At
  <2> QED
    BY <1>9, <2>2, <2>3, <2>4, SideTask
<1> QED
  BY <1>2, <1>3, <1>4, <1>5, <1>6, <1>7, <1>8, <1>9, NextCases

-----------------------------------------------------------------------------
(* The goodbye and the takeover *)

LEMMA IdleSteps ==
  ASSUME (\E n \in Inbound : TakeJob(n)) \/ RulesDone \/ RulesThrow
  PROVE  task.at \in {"idle", "evaluate"} /\ task'.at \in {"read", "idle"}
<1>1. ASSUME NEW n \in Inbound, TakeJob(n) PROVE task.at = "idle" /\ task'.at = "read"
  BY <1>1, RecordFacts DEF TakeJob
<1>2. CASE RulesDone \/ RulesThrow
  BY <1>2, RecordFacts DEF RulesDone, RulesThrow, At
<1> QED
  BY <1>1, <1>2

LEMMA SideAt ==
  ASSUME TypeOK, SideStep
  PROVE  \/ task'.at = task.at /\ (task.at = "work" => task'.todo = task.todo)
         \/ /\ task.at \in {"evaluate", "activate", "create"}
            /\ task'.at \in {"evaluate", "activate", "create"}
<1>1. CASE task.at \in {"reply", "work"} /\ task' = WT(task.at, task.msg, task.seen, task.todo, TRUE)
  BY <1>1 DEF WT
<1>2. CASE /\ task.at \in {"evaluate", "activate", "create"}
           /\ \E a \in {"evaluate", "activate", "create"} : task' = RT(a, task.msg)
  BY <1>2, RecordFacts
<1> QED
  BY <1>1, <1>2, SideTask

LEMMA NextGoodbye ==
  ASSUME TypeOK, WorkIsInTurn, GoodbyeEndsTheConversation, [Next]_vars
  PROVE  GoodbyeEndsTheConversation'
<1>1. closed /\ ~SwitchingOff => ~active
  BY DEF GoodbyeEndsTheConversation
<1>2. ASSUME UNCHANGED <<active, closed>>, ~SwitchingOff PROVE GoodbyeEndsTheConversation'
  BY <1>1, <1>2 DEF GoodbyeEndsTheConversation
<1>3. CASE (\E n \in Inbound : TakeJob(n)) \/ BeginsReply \/ RulesDone \/ RulesThrow
  <2>1. task.at # "work"
    BY <1>3, IdleSteps DEF BeginsReply, At
  <2>2. UNCHANGED <<active, closed>>
    BY <1>3 DEF TakeJob, BeginsReply, RulesDone, RulesThrow, lead, history
  <2> QED
    BY <1>2, <2>1, <2>2, NotWorking
<1>4. ASSUME NEW r \in Reply, SendReply(r) PROVE GoodbyeEndsTheConversation'
  <2>1. task.at = "reply" /\ ~SwitchingOff
    BY <1>4, NotWorking DEF SendReply, At
  <2>2. active' = active /\ (closed' <=> closed \/ r.goal \/ r.lost)
    BY <1>4 DEF SendReply, lead
  <2>3. r.goal \/ r.lost => SwitchingOff'
    <3>1. r.goal \/ r.lost => Plan(r) # <<>> /\ Head(Plan(r)) \in {"goalOff", "lostOff"}
      BY PlanInTurn
    <3>2. Plan(r) # <<>> => task'.at = "work" /\ task'.todo = Plan(r)
      BY <1>4, ReplySent, RecordFacts
    <3> QED
      BY <3>1, <3>2 DEF SwitchingOff, Doing, At
  <2> QED
    BY <1>1, <2>1, <2>2, <2>3 DEF GoodbyeEndsTheConversation
<1>5. CASE Deactivate
  BY <1>5 DEF Deactivate, SwitchOff, GoodbyeEndsTheConversation
<1>6. CASE CloseStatus \/ AdvanceStage \/ CreateVisit
  <2>1. UNCHANGED <<active, closed>>
    BY <1>6 DEF CloseStatus, AdvanceStage, CreateVisit, lead, history
  <2>2. Head(task.todo) \in {"goalStatus", "lostStatus", "visit"} \cup Stage
    BY <1>6 DEF CloseStatus, AdvanceStage, CreateVisit, Doing
  <2>3. ~SwitchingOff
    BY <2>2 DEF SwitchingOff, Doing, Stage
  <2> QED
    BY <1>2, <2>1, <2>3
<1>7. CASE ToRules \/ Crash
  <2>1. active' = active /\ (closed' <=> closed /\ ~SwitchingOff)
    BY <1>7 DEF ToRules, Crash, lead
  <2> QED
    BY <1>1, <2>1 DEF GoodbyeEndsTheConversation
<1>8. CASE SideStep
  <2>1. CASE SideActivates
    BY <2>1 DEF SideActivates, Activate, GoodbyeEndsTheConversation
  <2>2. CASE SideSwitchesOff
    BY <2>2 DEF SideSwitchesOff, SwitchOff, GoodbyeEndsTheConversation
  <2>3. CASE SideSetsStatus \/ SideSends \/ SidePrepares
    <3>1. UNCHANGED <<active, closed>>
      BY <2>3 DEF SideSetsStatus, SideSends, SidePrepares, lead
    <3>2. SwitchingOff' <=> SwitchingOff
      BY <1>8, SideAt DEF SwitchingOff, Doing, At
    <3> QED
      BY <1>1, <3>1, <3>2 DEF GoodbyeEndsTheConversation
  <2> QED
    BY <1>8, <2>1, <2>2, <2>3 DEF SideStep
<1> QED
  BY <1>3, <1>4, <1>5, <1>6, <1>7, <1>8, NextCases

(* What may still go out once the AI is off: the answer being generated,    *)
(* and the messages the starters are about to create.                       *)
Writing == At("reply") \/ At("create")
Ready == {s \in Starter : starter[s] = "create"}
LateIsBounded ==
  IF active THEN late = 0
  ELSE late + (IF Writing THEN 1 ELSE 0) + Cardinality(Ready) <= 1 + Cardinality(Starter)

LEMMA ReadyIsFinite ==
  /\ IsFiniteSet(Starter) /\ Cardinality(Starter) \in Nat
  /\ \A R : R \subseteq Starter =>
       /\ IsFiniteSet(R) /\ Cardinality(R) \in Nat /\ Cardinality(R) <= Cardinality(Starter)
       /\ \A Q : Q \subseteq R => Cardinality(Q) <= Cardinality(R) /\ Cardinality(Q) \in Nat
       /\ \A s \in R : Cardinality(R \ {s}) = Cardinality(R) - 1
  /\ Cardinality({}) = 0
<1>1. IsFiniteSet(Starter) /\ Cardinality(Starter) \in Nat
  BY ConversationAssumption, FS_CardinalityType
<1>2. ASSUME NEW R, R \subseteq Starter
      PROVE  /\ IsFiniteSet(R) /\ Cardinality(R) \in Nat /\ Cardinality(R) <= Cardinality(Starter)
             /\ \A Q : Q \subseteq R => Cardinality(Q) <= Cardinality(R) /\ Cardinality(Q) \in Nat
             /\ \A s \in R : Cardinality(R \ {s}) = Cardinality(R) - 1
  <2>1. IsFiniteSet(R) /\ Cardinality(R) <= Cardinality(Starter)
    BY <1>1, <1>2, FS_Subset
  <2>2. Cardinality(R) \in Nat
    BY <2>1, FS_CardinalityType
  <2>3. \A Q : Q \subseteq R => Cardinality(Q) <= Cardinality(R) /\ Cardinality(Q) \in Nat
    BY <2>1, FS_Subset, FS_CardinalityType
  <2>4. \A s \in R : Cardinality(R \ {s}) = Cardinality(R) - 1
    BY <2>1, FS_RemoveElement
  <2> QED
    BY <2>1, <2>2, <2>3, <2>4
<1> QED
  BY <1>1, <1>2, FS_EmptySet

LEMMA LateKept ==
  ASSUME TypeOK, LateIsBounded, UNCHANGED <<active, late>>, Writing' => Writing \/ active,
         Ready' \subseteq Ready
  PROVE  LateIsBounded'
<1>1. Ready \subseteq Starter /\ late \in Nat
  BY DEF Ready, TypeOK
<1>2. PICK c \in Nat : c = Cardinality(Ready)
  BY <1>1, ReadyIsFinite
<1>3. PICK d \in Nat : d = Cardinality(Ready') /\ d <= c
  BY <1>1, <1>2, ReadyIsFinite
<1>4. PICK k \in Nat : k = Cardinality(Starter)
  BY ReadyIsFinite
<1>5. Cardinality(Ready)' = d
  BY <1>3
<1>6. CASE active
  BY <1>6 DEF LateIsBounded
<1>7. CASE ~active
  <2>1. late + (IF Writing THEN 1 ELSE 0) + c <= 1 + k
    BY <1>2, <1>4, <1>7 DEF LateIsBounded
  <2>2. late' + (IF Writing' THEN 1 ELSE 0) + d <= 1 + k
    BY <1>1, <1>3, <1>7, <2>1
  <2> QED
    BY <1>4, <1>5, <1>7, <2>2 DEF LateIsBounded
<1> QED
  BY <1>6, <1>7

(* The AI is switched off.                                                  *)
LEMMA LateSwitchedOff ==
  ASSUME TypeOK, LateIsBounded, active' = FALSE, late' = late, Writing' => Writing,
         starter' = starter
  PROVE  LateIsBounded'
<1>1. Ready' = Ready /\ Ready \subseteq Starter /\ late \in Nat
  BY DEF Ready, TypeOK
<1>2. PICK c \in Nat : c = Cardinality(Ready) /\ c <= Cardinality(Starter)
  BY <1>1, ReadyIsFinite
<1>3. PICK k \in Nat : k = Cardinality(Starter)
  BY ReadyIsFinite
<1>4. Cardinality(Ready)' = c
  BY <1>1, <1>2
<1>5. late' + (IF Writing' THEN 1 ELSE 0) + c <= 1 + k
  <2>1. CASE active
    BY <1>1, <1>2, <1>3, <2>1 DEF LateIsBounded
  <2>2. CASE ~active
    BY <1>1, <1>2, <1>3, <2>2 DEF LateIsBounded
  <2> QED
    BY <2>1, <2>2
<1> QED
  BY <1>3, <1>4, <1>5 DEF LateIsBounded

(* A message goes out: the one in hand, or a starter's.                     *)
LEMMA LateSent ==
  ASSUME TypeOK, LateIsBounded, active' = active, late' = Late,
         \/ Writing /\ ~Writing' /\ starter' = starter
         \/ /\ Writing' => Writing
            /\ \E s \in Ready : Ready' = Ready \ {s}
  PROVE  LateIsBounded'
<1>1. Ready \subseteq Starter /\ late \in Nat
  BY DEF Ready, TypeOK
<1>2. PICK c \in Nat : c = Cardinality(Ready)
  BY <1>1, ReadyIsFinite
<1>3. PICK k \in Nat : k = Cardinality(Starter)
  BY ReadyIsFinite
<1>4. CASE active
  BY <1>4 DEF LateIsBounded, Late
<1>5. CASE ~active
  <2>1. late' = late + 1 /\ late + (IF Writing THEN 1 ELSE 0) + c <= 1 + k
    BY <1>2, <1>3, <1>5 DEF LateIsBounded, Late
  <2>2. CASE Writing /\ ~Writing' /\ starter' = starter
    <3>1. Cardinality(Ready)' = c
      BY <1>2, <2>2 DEF Ready
    <3> QED
      BY <1>1, <1>3, <1>5, <2>1, <2>2, <3>1 DEF LateIsBounded
  <2>3. CASE (Writing' => Writing) /\ \E s \in Ready : Ready' = Ready \ {s}
    <3>1. Cardinality(Ready)' = c - 1
      BY <1>1, <1>2, <2>3, ReadyIsFinite
    <3>2. late' + (IF Writing' THEN 1 ELSE 0) + (c - 1) <= 1 + k
      BY <1>1, <2>1, <2>3
    <3> QED
      BY <1>3, <1>5, <3>1, <3>2 DEF LateIsBounded
  <2> QED
    BY <2>2, <2>3
<1> QED
  BY <1>4, <1>5

LEMMA NextLate ==
  ASSUME TypeOK, WorkIsInTurn, LateIsBounded, [Next]_vars
  PROVE  LateIsBounded'
<1>1. CASE (\E n \in Inbound : TakeJob(n)) \/ RulesDone \/ RulesThrow
  <2>1. UNCHANGED <<active, late, starter>>
    BY <1>1 DEF TakeJob, RulesDone, RulesThrow, lead, history
  <2>2. ~Writing'
    BY <1>1, IdleSteps DEF Writing, At
  <2> QED
    BY <2>1, <2>2, LateKept DEF Ready
<1>2. CASE BeginsReply
  BY <1>2, LateKept DEF BeginsReply, lead, history, Ready
<1>3. ASSUME NEW r \in Reply, SendReply(r) PROVE LateIsBounded'
  <2>1. Writing /\ ~Writing'
    BY <1>3, ReplySent, RecordFacts DEF Writing, At
  <2> QED
    BY <1>3, <2>1, LateSent DEF SendReply, lead
<1>4. CASE Deactivate \/ CloseStatus \/ AdvanceStage \/ CreateVisit
  <2>1. ~Writing'
    BY <1>4, WorkingSteps, WorkContinues, RecordFacts DEF Writing, At
  <2>2. CASE Deactivate
    BY <2>1, <2>2, LateSwitchedOff DEF Deactivate, SwitchOff
  <2>3. CASE CloseStatus \/ AdvanceStage \/ CreateVisit
    BY <2>1, <2>3, LateKept DEF CloseStatus, AdvanceStage, CreateVisit, lead, history, Ready
  <2> QED
    BY <1>4, <2>2, <2>3
<1>5. CASE ToRules
  <2>1. ~Writing'
    BY <1>5, RecordFacts DEF ToRules, Writing, At
  <2> QED
    BY <1>5, <2>1, LateKept DEF ToRules, lead, Ready
<1>6. CASE Crash
  <2>1. ~Writing' /\ Ready' = {} /\ UNCHANGED <<active, late>>
    BY <1>6 DEF Crash, Writing, At, Idle, Ready, lead
  <2> QED
    BY <2>1, LateKept
<1>7. CASE SideStep
  <2>1. CASE SideSetsStatus \/ SideSwitchesOff
    <3>1. Writing' => Writing
      <4>1. task'.at = task.at
        <5>1. CASE SideSetsStatus
          BY <5>1, Overtaken, RecordFacts DEF SideSetsStatus, WT
        <5>2. CASE SideSwitchesOff
          BY <5>2 DEF SideSwitchesOff
        <5> QED
          BY <2>1, <5>1, <5>2
      <4> QED
        BY <4>1 DEF Writing, At
    <3>2. CASE SideSetsStatus
      BY <3>1, <3>2, LateKept DEF SideSetsStatus, Ready
    <3>3. CASE SideSwitchesOff
      BY <3>1, <3>3, LateSwitchedOff DEF SideSwitchesOff, SwitchOff
    <3> QED
      BY <2>1, <3>2, <3>3
  <2>2. CASE SideActivates
    BY <2>2 DEF SideActivates, Activate, LateIsBounded
  <2>3. CASE SideSends
    <3>1. CASE /\ task.at \in {"activate", "create"} /\ task' = RT("evaluate", task.msg)
               /\ late' = IF At("create") THEN Late ELSE late
               /\ UNCHANGED starter
      <4>1. ~Writing'
        BY <3>1, RecordFacts DEF Writing, At
      <4> QED
        BY <2>3, <3>1, <4>1, LateSent, LateKept DEF SideSends, lead, Writing, Ready
    <3>2. ASSUME NEW s \in Starter, starter[s] # "idle", UNCHANGED task,
                 starter' = [starter EXCEPT ![s] = "idle"],
                 late' = IF starter[s] = "create" THEN Late ELSE late
          PROVE  LateIsBounded'
      <4>1. Ready' = Ready \ {s}
        BY <3>2 DEF Ready, TypeOK
      <4>2. Writing' <=> Writing
        BY <3>2 DEF Writing, At
      <4>3. active' = active
        BY <2>3 DEF SideSends, lead
      <4>4. CASE starter[s] = "create"
        <5>1. s \in Ready /\ late' = Late
          BY <3>2, <4>4 DEF Ready
        <5> QED
          BY <4>1, <4>2, <4>3, <5>1, LateSent
      <4>5. CASE starter[s] # "create"
        BY <3>2, <4>1, <4>2, <4>3, <4>5, LateKept
      <4> QED
        BY <4>4, <4>5
    <3> QED
      BY <2>3, <3>1, <3>2 DEF SideSends
  <2>4. CASE SidePrepares
    <3>1. Writing' => Writing
      BY <1>7, <2>4, RecordFacts DEF SidePrepares, Writing, At
    <3>2. Ready' \subseteq Ready
      BY <2>4 DEF SidePrepares, Ready, TypeOK
    <3> QED
      BY <2>4, <3>1, <3>2, LateKept DEF SidePrepares, lead
  <2> QED
    BY <1>7, <2>1, <2>2, <2>3, <2>4 DEF SideStep
<1> QED
  BY <1>1, <1>2, <1>3, <1>4, <1>5, <1>6, <1>7, NextCases

-----------------------------------------------------------------------------
(* What the AI writes gives way *)

(* A send that read the AI off, and was not crossed by an activation, finds *)
(* it off when it ends.                                                     *)
RequestIsTrue(a) ==
  request[a].at = "post" /\ ~request[a].crossed /\ ~request[a].seen => ~active
RequestsAreTrue == \A a \in Agent : RequestIsTrue(a)

LEMMA NextRequest ==
  ASSUME TypeOK, RequestsAreTrue, [Next]_vars, NEW a \in Agent
  PROVE  RequestIsTrue(a)'
<1>1. request \in [Agent -> Request] /\ RequestIsTrue(a)
  BY DEF TypeOK, RequestsAreTrue
<1>2. ASSUME request'[a] = request[a], active' => active PROVE RequestIsTrue(a)'
  BY <1>1, <1>2 DEF RequestIsTrue
<1>3. ASSUME request'[a] = Idle PROVE RequestIsTrue(a)'
  BY <1>3, RecordFacts DEF RequestIsTrue
<1>4. ASSUME NEW b \in Agent, RequestEnds(b), active' => active PROVE RequestIsTrue(a)'
  <2>1. CASE a = b
    BY <1>1, <1>3, <1>4, <2>1 DEF RequestEnds
  <2>2. CASE a # b
    BY <1>1, <1>2, <1>4, <2>2 DEF RequestEnds
  <2> QED
    BY <2>1, <2>2
<1>5. CASE \/ \E n \in Inbound : TakeJob(n)
           \/ BeginsReply \/ CloseStatus \/ AdvanceStage \/ CreateVisit
           \/ ToRules \/ RulesDone \/ RulesThrow \/ Crash
  <2>1. UNCHANGED <<request, active>>
    BY <1>5 DEF TakeJob, BeginsReply, CloseStatus, AdvanceStage, CreateVisit,
                ToRules, RulesDone, RulesThrow, Crash, lead
  <2> QED
    BY <1>2, <2>1
<1>12. CASE Deactivate
  BY <1>12 DEF Deactivate, SwitchOff, RequestIsTrue
<1>6. ASSUME NEW r \in Reply, SendReply(r) PROVE RequestIsTrue(a)'
  BY <1>2, <1>6 DEF SendReply, lead
<1>7. CASE SideSetsStatus
  BY <1>2, <1>4, <1>7 DEF SideSetsStatus
<1>8. CASE SideActivates
  <2>1. request'[a] = IF request[a].at \in {"post", "switch"}
                      THEN [request[a] EXCEPT !.crossed = TRUE] ELSE request[a]
    BY <1>8 DEF SideActivates, Activate
  <2>2. request[a].at \in {"post", "switch"} => request'[a].crossed
    BY <1>1, <2>1 DEF Request, Idle
  <2> QED
    BY <2>1, <2>2 DEF RequestIsTrue
<1>9. CASE SideSwitchesOff
  BY <1>9 DEF SideSwitchesOff, SwitchOff, RequestIsTrue
<1>10. CASE SideSends
  BY <1>2, <1>10 DEF SideSends, lead
<1>11. CASE SidePrepares
  <2>1. active' = active
    BY <1>11 DEF SidePrepares, lead
  <2>2. ASSUME NEW b \in Agent, RequestMoves(b) PROVE RequestIsTrue(a)'
    <3>1. CASE RequestEnds(b)
      BY <1>4, <2>1, <3>1
    <3>2. CASE a # b
      <4>1. request'[a] = request[a]
        BY <1>1, <2>2, <3>2 DEF RequestMoves, RequestEnds
      <4> QED
        BY <1>2, <2>1, <4>1
    <3>3. CASE request' = [request EXCEPT ![b] = [at |-> "post", seen |-> active, crossed |-> FALSE]]
               /\ a = b
      <4>1. request'[a] = [at |-> "post", seen |-> active, crossed |-> FALSE]
        BY <1>1, <3>3
      <4> QED
        BY <2>1, <4>1 DEF RequestIsTrue
    <3>4. CASE request[b].seen /\ request' = [request EXCEPT ![b] = [@ EXCEPT !.at = "switch"]]
               /\ request[b].at = "post" /\ a = b
      <4>1. request'[a].at = "switch"
        BY <1>1, <3>4 DEF Request, Idle
      <4> QED
        BY <4>1 DEF RequestIsTrue
    <3>5. CASE a = b /\ \E s \in Status :
            request' = [request EXCEPT ![b] = [at |-> "update", seen |-> status, status |-> s]]
      <4>1. request'[a].at = "update"
        BY <1>1, <3>5
      <4> QED
        BY <4>1 DEF RequestIsTrue
    <3> QED
      BY <2>2, <3>1, <3>2, <3>3, <3>4, <3>5 DEF RequestMoves
  <2> QED
    BY <1>2, <1>11, <2>1, <2>2 DEF SidePrepares
<1> QED
  BY <1>5, <1>6, <1>7, <1>8, <1>9, <1>10, <1>11, <1>12, NextCases DEF SideStep

LEMMA FailuresCounted ==
  ASSUME TypeOK, failures \in Nat, [Next]_vars
  PROVE  failures' \in Nat
<1>1. failures' = failures \/ failures' = failures + 1
  BY DEF Next, AutoReply, Rules, Users, vars, used, Move, Fail, TakeJob, ReadLead, NoReply, SendReply,
         Deactivate, CloseStatus, AdvanceStage, CreateVisit, ReplyFails, RulesDone, RulesThrow,
         ChangeStatus, StartInJob, ActivateInJob, EndStartInJob, Start, ActivateLead, EndStart,
         BeginSend, Posted, SwitchAfterSend, WriteUpdate, RequestFails, BeginUpdate, Toggle, Crash
<1> QED
  BY <1>1

SendStep(a) ==
  request[a].at \in {"post", "switch"} /\ request'[a] = Idle /\ failures' = failures
    => ~active' \/ request[a].crossed

LEMMA NextSend ==
  ASSUME TypeOK, RequestsAreTrue, failures \in Nat, [Next]_vars, NEW a \in Agent
  PROVE  SendStep(a)
<1> SUFFICES ASSUME request[a].at \in {"post", "switch"}, request'[a] = Idle, failures' = failures
             PROVE  ~active' \/ request[a].crossed
  BY DEF SendStep
<1>1. request \in [Agent -> Request] /\ RequestIsTrue(a) /\ request[a] # Idle
  BY RecordFacts DEF TypeOK, RequestsAreTrue
<1>2. request' # request
  BY <1>1
<1>3. CASE SideSetsStatus
  <2>1. PICK b \in Agent : request[b].at = "update" /\ RequestEnds(b)
    BY <1>2, <1>3 DEF SideSetsStatus
  <2>2. a # b
    BY <2>1
  <2> QED
    BY <1>1, <2>1, <2>2 DEF RequestEnds
<1>4. CASE SideActivates
  <2>1. request'[a] = [request[a] EXCEPT !.crossed = TRUE] /\ request[a] \in Request
    BY <1>1, <1>4 DEF SideActivates, Activate
  <2>2. request'[a].at = request[a].at
    BY <2>1 DEF Request, Idle
  <2> QED
    BY <2>2, RecordFacts
<1>5. CASE SideSwitchesOff
  BY <1>5 DEF SideSwitchesOff, SwitchOff
<1>6. CASE SidePrepares
  <2>1. PICK b \in Agent : RequestMoves(b) /\ active' = active
    BY <1>2, <1>6 DEF SidePrepares, lead
  <2>2. a = b
    BY <1>1, <2>1 DEF RequestMoves, RequestEnds
  <2>3. request[a].at = "post" /\ ~request[a].seen /\ RequestEnds(a)
    <3>1. CASE request' = [request EXCEPT ![a] = [@ EXCEPT !.at = "switch"]] /\ request[a].at = "post"
      <4>1. request'[a].at = "switch"
        BY <1>1, <3>1 DEF Request, Idle
      <4> QED
        BY <4>1, RecordFacts
    <3>2. failures' # failures + 1
      OBVIOUS
    <3> QED
      BY <1>1, <2>1, <2>2, <3>1, <3>2 DEF RequestMoves
  <2> QED
    BY <1>1, <2>1, <2>3 DEF RequestIsTrue
<1>7. CASE SideSends
  BY <1>2, <1>7 DEF SideSends
<1>8. CASE \/ \E n \in Inbound : TakeJob(n)
           \/ BeginsReply \/ Deactivate \/ CloseStatus \/ AdvanceStage \/ CreateVisit
           \/ ToRules \/ RulesDone \/ RulesThrow \/ Crash \/ \E r \in Reply : SendReply(r)
  <2>1. UNCHANGED request
    BY <1>8 DEF TakeJob, BeginsReply, Deactivate, CloseStatus, AdvanceStage, CreateVisit,
                ToRules, RulesDone, RulesThrow, Crash, SendReply
  <2> QED
    BY <1>2, <2>1
<1> QED
  BY <1>3, <1>4, <1>5, <1>6, <1>7, <1>8, NextCases DEF SideStep

(* Until another writes it, the lead's status is the one the reply read, or *)
(* what the reply's own work has made of it.                                *)
StatusFollows ==
  /\ At("reply") /\ ~task.overtaken => status = task.seen
  /\ At("work") /\ ~task.overtaken =>
       \/ status = task.seen
       \/ /\ task.seen \in Early /\ status = "VISIT"
          /\ Only(task.todo, {"lostOff", "lostStatus", "visit"})
       \/ Only(task.todo, {"visit"})

(* What the work may do to the status, and what is left of it then.         *)
LEMMA WorkMovesForward ==
  ASSUME TypeOK, WorkIsInTurn, StatusFollows, ~task.overtaken,
         Deactivate \/ CloseStatus \/ AdvanceStage \/ CreateVisit
  PROVE  /\ status' # status => Order[status'] > Order[status]
         /\ \/ status' = task.seen
            \/ /\ task.seen \in Early /\ status' = "VISIT"
               /\ Only(Tail(task.todo), {"lostOff", "lostStatus", "visit"})
            \/ Only(Tail(task.todo), {"visit"})
<1> DEFINE todo == task.todo
<1>1. At("work") /\ Continue /\ todo # <<>> /\ InTurn(todo)
  BY WorkingSteps, WorkContinues
<1>2. /\ Head(todo) \in Stage => Only(Tail(todo), {"visit"})
      /\ Head(todo) = "lostStatus" => Only(Tail(todo), {"visit"})
      /\ Head(todo) = "goalStatus" => Only(Tail(todo), {"lostOff", "lostStatus", "visit"})
      /\ \A S : Only(todo, S) => Head(todo) \in S /\ Only(Tail(todo), S)
  BY <1>1, TailInTurn
<1>3. task.seen \in Status /\ status \in Status /\ task.at = "work"
  BY <1>1, TaskFacts DEF TypeOK, At
<1> HIDE DEF todo
<1>4. \/ status = task.seen
      \/ /\ task.seen \in Early /\ status = "VISIT"
         /\ Head(todo) \in {"lostOff", "lostStatus", "visit"}
         /\ Only(Tail(todo), {"lostOff", "lostStatus", "visit"})
      \/ Head(todo) = "visit" /\ Only(Tail(todo), {"visit"})
  <2>1. \/ status = task.seen
        \/ /\ task.seen \in Early /\ status = "VISIT"
           /\ Only(todo, {"lostOff", "lostStatus", "visit"})
        \/ Only(todo, {"visit"})
    BY <1>1 DEF StatusFollows, todo
  <2> QED
    BY <1>2, <2>1
<1>5. CASE Deactivate \/ CreateVisit
  <2>1. status' = status
    BY <1>5 DEF Deactivate, SwitchOff, CreateVisit, lead
  <2> QED
    BY <1>4, <2>1 DEF todo
<1>6. CASE CloseStatus
  <2>1. /\ Head(todo) \in {"goalStatus", "lostStatus"}
        /\ status' = IF task.seen \notin Early THEN status
                     ELSE IF Head(todo) = "goalStatus" THEN "VISIT" ELSE "LOST"
    BY <1>1, <1>6 DEF CloseStatus, Doing, todo
  <2>2. CASE Head(todo) = "goalStatus"
    <3>1. status = task.seen
      BY <1>4, <2>2
    <3>2. task.seen \in Early => status' = "VISIT" /\ Order[status] \in 0..2
      BY <2>1, <2>2, <3>1, StatusFacts DEF Early
    <3> QED
      BY <1>2, <2>1, <2>2, <3>1, <3>2, StatusFacts DEF todo
  <2>3. CASE Head(todo) = "lostStatus"
    <3>1. status = task.seen \/ (task.seen \in Early /\ status = "VISIT")
      BY <1>4, <2>3
    <3>2. task.seen \in Early => status' = "LOST" /\ Order[status] \in 0..4
      BY <2>1, <2>3, <3>1, StatusFacts DEF Early
    <3> QED
      BY <1>2, <2>1, <2>3, <3>1, <3>2, StatusFacts DEF todo
  <2> QED
    BY <2>1, <2>2, <2>3
<1>7. CASE AdvanceStage
  <2>1. PICK g \in Stage : Head(todo) = g /\ status' = IF Order[g] > Order[task.seen] THEN g ELSE status
    BY <1>7 DEF AdvanceStage, Doing, todo
  <2>2. status = task.seen
    BY <1>4, <2>1 DEF Stage
  <2> QED
    BY <1>2, <2>1, <2>2 DEF todo
<1> QED
  BY <1>5, <1>6, <1>7

LEMMA NextStatus ==
  ASSUME TypeOK, WorkIsInTurn, StatusFollows, [Next]_vars
  PROVE  StatusFollows'
<1>1. ASSUME task'.at \notin {"reply", "work"} PROVE StatusFollows'
  BY <1>1 DEF StatusFollows, At
<1>2. CASE (\E n \in Inbound : TakeJob(n)) \/ RulesDone \/ RulesThrow
  BY <1>1, <1>2, IdleSteps
<1>3. CASE BeginsReply
  <2>1. task'.at = "reply" /\ task'.seen = status /\ status' = status
    BY <1>3 DEF BeginsReply, WT, lead
  <2> QED
    BY <2>1 DEF StatusFollows, At
<1>4. ASSUME NEW r \in Reply, SendReply(r) PROVE StatusFollows'
  <2>1. /\ task.at = "reply" /\ status' = status
        /\ \/ task'.at = "evaluate"
           \/ task'.at = "work" /\ task'.seen = task.seen /\ task'.overtaken = task.overtaken
    BY <1>4, ReplySent, RecordFacts DEF SendReply, lead
  <2> QED
    BY <2>1 DEF StatusFollows, At
<1>5. CASE Deactivate \/ CloseStatus \/ AdvanceStage \/ CreateVisit
  <2>1. \/ task'.at = "evaluate"
        \/ /\ task'.at = "work" /\ task'.seen = task.seen /\ task'.todo = Tail(task.todo)
           /\ task'.overtaken = task.overtaken
    BY <1>5, WorkingSteps, WorkContinues, RecordFacts
  <2>2. CASE task.overtaken
    BY <2>1, <2>2 DEF StatusFollows, At
  <2>3. CASE ~task.overtaken
    BY <1>5, <2>1, <2>3, WorkMovesForward DEF StatusFollows, At
  <2> QED
    BY <2>2, <2>3
<1>6. CASE ToRules
  BY <1>1, <1>6, RecordFacts DEF ToRules
<1>7. CASE Crash
  BY <1>1, <1>7, RecordFacts DEF Crash
<1>8. CASE SideStep
  <2>1. CASE SideSetsStatus
    <3>1. task'.at \in {"reply", "work"} => task'.overtaken
      BY <2>1, Overtaken DEF SideSetsStatus, WT
    <3> QED
      BY <3>1 DEF StatusFollows, At
  <2>2. CASE SideActivates \/ SideSwitchesOff \/ SideSends \/ SidePrepares
    <3>1. status' = status
      BY <2>2 DEF SideActivates, Activate, SideSwitchesOff, SwitchOff, SideSends, SidePrepares, lead
    <3>2. CASE task' = task
      BY <3>1, <3>2 DEF StatusFollows, At
    <3>3. CASE task' # task
      <4>1. task'.at \in {"evaluate", "activate", "create"}
            \/ (task'.at \in {"reply", "work"} /\ task'.overtaken)
        <5>1. CASE task.at \in {"evaluate", "activate", "create"}
                   /\ \E a \in {"evaluate", "activate", "create"} : task' = RT(a, task.msg)
          BY <5>1, RecordFacts
        <5>2. CASE task.at \in {"reply", "work"}
                   /\ task' = WT(task.at, task.msg, task.seen, task.todo, TRUE)
          BY <5>2 DEF WT
        <5> QED
          BY <1>8, <3>3, <5>1, <5>2, SideTask
      <4> QED
        BY <4>1 DEF StatusFollows, At
    <3> QED
      BY <3>2, <3>3
  <2> QED
    BY <1>8, <2>1, <2>2 DEF SideStep
<1> QED
  BY <1>2, <1>3, <1>4, <1>5, <1>6, <1>7, <1>8, NextCases

ForwardStep ==
  /\ status' # status
  /\ At("work") /\ task' # [task EXCEPT !.overtaken = TRUE] /\ ~task.overtaken
  => Order[status'] > Order[status]

LEMMA NextForward ==
  ASSUME TypeOK, WorkIsInTurn, StatusFollows, [Next]_vars
  PROVE  ForwardStep
<1> SUFFICES ASSUME status' # status, At("work"), ~task.overtaken,
                    task' # [task EXCEPT !.overtaken = TRUE]
             PROVE  Order[status'] > Order[status]
  BY DEF ForwardStep
<1>1. CASE Deactivate \/ CloseStatus \/ AdvanceStage \/ CreateVisit
  BY <1>1, WorkMovesForward
<1>2. CASE \/ \E n \in Inbound : TakeJob(n)
           \/ BeginsReply \/ ToRules \/ RulesDone \/ RulesThrow \/ Crash
           \/ \E r \in Reply : SendReply(r)
  BY <1>2 DEF TakeJob, BeginsReply, ToRules, RulesDone, RulesThrow, Crash, SendReply, lead
<1>3. CASE SideStep
  <2>1. CASE SideSetsStatus
    BY <2>1 DEF SideSetsStatus, Overtake, At
  <2>2. CASE SideActivates \/ SideSwitchesOff \/ SideSends \/ SidePrepares
    BY <2>2 DEF SideActivates, Activate, SideSwitchesOff, SwitchOff, SideSends, SidePrepares, lead
  <2> QED
    BY <1>3, <2>1, <2>2 DEF SideStep
<1> QED
  BY <1>1, <1>2, <1>3, NextCases

-----------------------------------------------------------------------------
(* The theorems *)

Turns == TypeOK /\ WorkIsInTurn /\ JobsAreTaken
Answered == RepliesAreCounted /\ GoodbyeEndsTheConversation /\ LateIsBounded

LEMMA InitAnswered ==
  ASSUME Init
  PROVE  Answered
<1>1. RepliesAreCounted
  BY DEF Init, RepliesAreCounted, Counted, Spent, Pending, At, Idle
<1>2. LateIsBounded
  <2>1. Ready = {} /\ ~Writing /\ late = 0
    BY DEF Init, Ready, Writing, At, Idle
  <2>2. Cardinality(Ready) = 0 /\ Cardinality(Starter) \in Nat
    BY <2>1, ReadyIsFinite
  <2> QED
    BY <2>1, <2>2 DEF LateIsBounded
<1> QED
  BY <1>1, <1>2 DEF Init, Answered, GoodbyeEndsTheConversation

LEMMA AnsweredIsInTurn ==
  ASSUME TypeOK, Answered
  PROVE  AnswersInTurn
<1>1. AnsweredOncePerAttempt
  <2> SUFFICES ASSUME NEW n \in Inbound PROVE replied[n] <= 1 + refused[n] /\ visits[n] <= replied[n]
    BY DEF AnsweredOncePerAttempt
  <2>1. CountTypes /\ Counted(n)
    BY CountsAreTyped DEF Answered, RepliesAreCounted
  <2> QED
    BY <2>1 DEF Counted, CountTypes
<1>2. TakeoverStopsTheAi
  <2>1. late \in Nat /\ Ready \subseteq Starter
    BY DEF TypeOK, Ready
  <2>2. PICK c \in Nat : c = Cardinality(Ready)
    BY <2>1, ReadyIsFinite
  <2>3. PICK k \in Nat : k = Cardinality(Starter)
    BY ReadyIsFinite
  <2> QED
    BY <2>1, <2>2, <2>3 DEF Answered, LateIsBounded, TakeoverStopsTheAi
<1> QED
  BY <1>1, <1>2 DEF Answered, AnswersInTurn

(* message.processor.ts:42-77 and rule-engine.service.ts:1039-1100, for any *)
(* number of messages, starters, requests and failures: an attempt of an    *)
(* inbound message's job answers it once and makes at most one visit, a     *)
(* goodbye switches the AI off until somebody activates it, and after it    *)
(* is switched off at most one message of each queue still goes out.        *)
THEOREM AnswersComeInTurn == Spec => []AnswersInTurn
<1>1. Turns /\ Answered /\ [Next]_vars => Turns' /\ Answered'
  <2> SUFFICES ASSUME Turns, Answered, [Next]_vars PROVE Turns' /\ Answered'
    OBVIOUS
  <2>1. Turns'
    BY NextTypeOK DEF Turns
  <2>2. RepliesAreCounted'
    <3> SUFFICES ASSUME NEW n \in Inbound PROVE Counted(n)'
      BY DEF RepliesAreCounted
    <3> QED
      BY NextCounted DEF Turns, Answered
  <2> QED
    BY <2>1, <2>2, NextGoodbye, NextLate DEF Turns, Answered
<1>2. Init => Turns /\ Answered
  BY InitTypeOK, InitAnswered DEF Turns
<1>3. Turns /\ Answered => AnswersInTurn
  BY AnsweredIsInTurn DEF Turns
<1> QED
  BY <1>1, <1>2, <1>3, PTL DEF Spec

GivesWay == RequestsAreTrue /\ StatusFollows /\ failures \in Nat

LEMMA NextGivesWay ==
  ASSUME Turns, GivesWay, [Next]_vars
  PROVE  GivesWay' /\ ForwardStep /\ \A a \in Agent : SendStep(a)
<1>1. RequestsAreTrue'
  <2> SUFFICES ASSUME NEW a \in Agent PROVE RequestIsTrue(a)'
    BY DEF RequestsAreTrue
  <2> QED
    BY NextRequest DEF Turns, GivesWay
<1>2. \A a \in Agent : SendStep(a)
  <2> SUFFICES ASSUME NEW a \in Agent PROVE SendStep(a)
    OBVIOUS
  <2> QED
    BY NextSend DEF Turns, GivesWay
<1> QED
  BY <1>1, <1>2, NextStatus, NextForward, FailuresCounted DEF Turns, GivesWay

(* rule-engine.service.ts:1110 and messages.service.ts:261, for any number  *)
(* of messages, requests and failures: what a reply does to the lead's      *)
(* status only moves it forward unless another wrote it meanwhile, and an   *)
(* agent's send that ends without an error leaves the AI off.               *)
THEOREM TheAiGivesWay == Spec => AiGivesWay
<1>1. Turns /\ GivesWay /\ [Next]_vars => Turns' /\ GivesWay'
  BY NextTypeOK, NextGivesWay DEF Turns
<1>2. Turns /\ GivesWay /\ [Next]_vars
      => /\ [status' # status
               /\ At("work") /\ task' # [task EXCEPT !.overtaken = TRUE] /\ ~task.overtaken
                 => Order[status'] > Order[status]]_vars
         /\ [\A a \in Agent :
               request[a].at \in {"post", "switch"} /\ request'[a] = Idle /\ failures' = failures
                 => ~active' \/ request[a].crossed]_vars
  <2> SUFFICES ASSUME Turns, GivesWay, [Next]_vars
               PROVE  ForwardStep /\ \A a \in Agent : SendStep(a)
    BY DEF ForwardStep, SendStep
  <2> QED
    BY NextGivesWay
<1>3. Init => Turns /\ GivesWay
  <2> SUFFICES ASSUME Init PROVE Turns /\ GivesWay
    OBVIOUS
  <2>1. RequestsAreTrue
    BY DEF Init, RequestsAreTrue, RequestIsTrue, Idle
  <2>2. task.at = "idle" /\ failures = 0
    BY RecordFacts DEF Init
  <2> QED
    BY <2>1, <2>2, InitTypeOK DEF Turns, GivesWay, StatusFollows, At
<1> QED
  BY <1>1, <1>2, <1>3, PTL DEF Spec, AiGivesWay, OnlyForward, SendTakesOver
=============================================================================
