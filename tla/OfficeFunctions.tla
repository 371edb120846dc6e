--------------------------- MODULE OfficeFunctions ---------------------------
(* The pure functions of the API and the worker: free slots of an agent (one     *)
(* version in each program), scores of leads (one in each, and a breakdown),     *)
(* working hours, and conditions of rules.  A behaviour is one question: its     *)
(* inputs, chosen initially.  Times are half hours; a day has HoursADay hours.   *)
EXTENDS Integers, FiniteSets, Folds

CONSTANTS HoursADay,   \* bound: 24 in the code
          DaysAhead    \* bound: what the worker offers, 7 days in the code

ASSUME FunctionAssumption == HoursADay \in Nat \ {0} /\ DaysAhead \in Nat \ {0}

VARIABLE question      \* [kind, ...]: kind is "slots", "score", "hours" or "condition"

-----------------------------------------------------------------------------
(* Slots.  An availability is the same on its days; a visit with no end lasts   *)
(* an hour.                                                                     *)

Hour == 2
Day == Hour * HoursADay
Midnight(t) == t - (t % Day)
HoursFrom(a) == (a.start \div Hour)..(a.end \div Hour - 1)
Visit(start, hours) == [start |-> start, end |-> start + Hour * hours]
Meets(slot, v) == slot.start < v.end /\ slot.end > v.start
Seen(visits, from, to) == {v \in visits : from <= v.start /\ v.start <= to}

\* users.service: every day that begins by `to'; the first slot begins when the agent does
ApiSlots(a, visits, now, from, to) ==
  {s \in UNION {{[start |-> Midnight(d) + (IF h = a.start \div Hour THEN a.start ELSE Hour * h),
                  end |-> Midnight(d) + Hour * (h + 1)] : h \in HoursFrom(a)}
                : d \in {from + Day * k : k \in {k \in 0..((to - from) \div Day) : from \div Day + k \in a.days}}} :
     s.start >= now /\ \A v \in Seen(visits, from, to) : ~Meets(s, v)}

\* ai-agent.service: DaysAhead days from today, whole hours
WorkerSlots(a, visits, now) ==
  LET from == Midnight(now)
  IN {s \in {[start |-> from + Day * k + Hour * h, end |-> from + Day * k + Hour * (h + 1)]
             : k \in {k \in 0..DaysAhead - 1 : from \div Day + k \in a.days}, h \in HoursFrom(a)} :
        s.start > now /\ \A v \in Seen(visits, from, from + Day * DaysAhead) : ~Meets(s, v)}

Availabilities ==
  [days : {0..DaysAhead, {1}}, start : {0, 1, Hour}, end : {Day - Hour, Day - 1, Day}]
SlotQuestions ==
  [kind : {"slots"}, a : Availabilities, now : {0, 1, Hour + 1, Day},
   visits : {{Visit(t, n)} : t \in 0..(Day * (DaysAhead + 1) - 1), n \in {1, 2}}
            \cup {{Visit(t, 1), Visit(Day, 1)} : t \in {0, Hour}}]

-----------------------------------------------------------------------------
(* Scores.  Ages are whole days since the last message.  The API takes its       *)
(* weights from SCORING_CONFIG where that is set, the worker never does.         *)

Least(m, n) == IF m < n THEN m ELSE n
Earliest(times) == CHOOSE t \in times : \A u \in times : t <= u
CountedMessages == 50     \* the messages whose direction is looked at
LeadStatuses == {"NEW", "CONTACTED", "QUALIFIED", "VISIT", "NEGOTIATION", "WON", "LOST"}
DefaultStatus(s) ==
  CASE s = "NEW" -> 0 [] s = "CONTACTED" -> 3 [] s = "QUALIFIED" -> 7 [] s = "VISIT" -> 10
    [] s = "NEGOTIATION" -> 13 [] s = "WON" -> 15 [] s = "LOST" -> 2
DefaultConfig ==
  [email |-> 5, phone |-> 5, messages |-> 20, inbound |-> 10, visit |-> 3, visits |-> 5,
   status |-> [s \in LeadStatuses |-> DefaultStatus(s)],
   brackets |-> <<<<1, 15>>, <<3, 12>>, <<7, 8>>, <<14, 4>>, <<30, 2>>>>,
   profile |-> 5, intent |-> 5, tags |-> 5, hot |-> 60, warm |-> 30]
StatusPoints(c, s) == IF s \in DOMAIN c.status THEN c.status[s] ELSE 0
\* the first bracket of the list above the age counts
Above(c, l) == {i \in DOMAIN c.brackets : l.age < c.brackets[i][1]}
RecencyPoints(c, l) == IF l.messages = 0 \/ Above(c, l) = {} THEN 0 ELSE c.brackets[Earliest(Above(c, l))][2]
Points(given, n) == IF given THEN n ELSE 0

Factors(c, l) ==
  [email |-> Points(l.email, c.email), phone |-> Points(l.phone, c.phone), messages |-> Least(l.messages, c.messages),
   inbound |-> Least(l.inbound, c.inbound), visits |-> Least(l.visits, c.visits) * c.visit,
   status |-> StatusPoints(c, l.status), recency |-> RecencyPoints(c, l), profile |-> Points(l.profile, c.profile),
   intent |-> Points(l.intent, c.intent), tags |-> Least(l.tags, c.tags)]
Total(factors) == MapThenFoldSet(LAMBDA m, n : m + n, 0, LAMBDA f : factors[f], LAMBDA s : CHOOSE f \in s : TRUE, DOMAIN factors)
\* cut off at 100, but not at 0
Breakdown(c, l) == Least(100, Total(Factors(c, l)))
\* the API and the worker add the same terms; the worker has its own brackets in days of 86 400 000 ms
WorkerRecency(l) ==
  IF l.messages = 0 \/ l.age >= 30 THEN 0
  ELSE CASE l.age < 1 -> 15 [] l.age >= 1 /\ l.age < 3 -> 12 [] l.age >= 3 /\ l.age < 7 -> 8
         [] l.age >= 7 /\ l.age < 14 -> 4 [] l.age >= 14 -> 2
Clamped(n) == IF n < 0 THEN 0 ELSE Least(100, n)
ScoreLead(c, l, recency) ==
  Clamped(Points(l.email, c.email) + Points(l.phone, c.phone) + Least(l.messages, c.messages) + Least(l.inbound, c.inbound)
          + (Least(l.visits, c.visits) * c.visit) + StatusPoints(c, l.status) + recency
          + Points(l.profile, c.profile) + Points(l.intent, c.intent) + Least(l.tags, c.tags))
ApiScore(c, l) == ScoreLead(c, l, RecencyPoints(c, l))
WorkerScore(l) == ScoreLead(DefaultConfig, l, WorkerRecency(l))
Warmth(c, score) == IF score >= c.hot THEN 2 ELSE IF score >= c.warm THEN 1 ELSE 0

\* what SCORING_CONFIG may set: more for a visit, less than nothing for a status, brackets in another order
Overrides ==
  {[DefaultConfig EXCEPT !.visit = 15, !.hot = 110], [DefaultConfig EXCEPT !.status = [s \in {"LOST"} |-> -40]],
   [DefaultConfig EXCEPT !.brackets = <<<<30, 5>>, <<1, 15>>>>, !.messages = 60]}
LeadRows ==
  {l \in [email : BOOLEAN, phone : {TRUE}, messages : {0, 19, 20, CountedMessages, CountedMessages + 1}, inbound : {0, 9, 11, CountedMessages},
     visits : {0, 4, 6}, status : {"NEW", "WON", "LOST"}, age : {0, 2, 6, 7, 14, 29, 30}, profile : BOOLEAN,
     intent : {FALSE}, tags : {0, 4, 6}] :
     l.inbound <= Least(l.messages, CountedMessages) /\ (l.messages = 0 => l.age = 0)}
ScoreQuestions ==
  [kind : {"score"}, lead : LeadRows, config : {DefaultConfig}]
  \cup [kind : {"score"}, lead : {l \in LeadRows : l.tags = 0 /\ l.profile}, config : Overrides]
\* what can be added to a lead, and a message of its own or of an agent
Added(l) ==
  {[l EXCEPT !.email = TRUE], [l EXCEPT !.profile = TRUE], [l EXCEPT !.visits = @ + 1], [l EXCEPT !.tags = @ + 1]}
NewMessage(l, ofLead) ==
  {m \in {[l EXCEPT !.messages = @ + 1, !.age = 0, !.inbound = @ + n] : n \in -1..1} :
     /\ m.inbound - l.inbound \in IF l.messages < CountedMessages THEN {IF ofLead THEN 1 ELSE 0}
                                  ELSE IF ofLead THEN {0, 1} ELSE {-1, 0}     \* the oldest one leaves
     /\ m.inbound \in 0..Least(m.messages, CountedMessages)}

-----------------------------------------------------------------------------
(* Working hours: entries [day, from, to] of a week, times counted from Sunday.  *)

Week == 7 * Day
DayOfWeek(t) == (t % Week) \div Day
Within(schedule, t) ==
  schedule = {} \/ \E e \in schedule : e.day = DayOfWeek(t) /\ e.from <= t % Day /\ t % Day < e.to

NoStart == -1
StartsOn(schedule, day) == {e.from : e \in {e \in schedule : e.day = day % 7}}
LaterToday(schedule, t) == {f \in StartsOn(schedule, DayOfWeek(t)) : f > t % Day}
\* a later start of today, or the first start of one of the next days
NextStart_SixDays(schedule, t) ==
  LET next == {k \in 1..6 : StartsOn(schedule, DayOfWeek(t) + k) # {}}
  IN IF LaterToday(schedule, t) # {} THEN Midnight(t) + Earliest(LaterToday(schedule, t))
     ELSE IF next = {} THEN NoStart
     ELSE Midnight(t) + Day * Earliest(next) + Earliest(StartsOn(schedule, DayOfWeek(t) + Earliest(next)))
NextStart(schedule, t) ==
  LET next == {k \in 1..7 : StartsOn(schedule, DayOfWeek(t) + k) # {}}
  IN IF LaterToday(schedule, t) # {} THEN Midnight(t) + Earliest(LaterToday(schedule, t))
     ELSE IF next = {} THEN NoStart
     ELSE Midnight(t) + Day * Earliest(next) + Earliest(StartsOn(schedule, DayOfWeek(t) + Earliest(next)))

Entries == {e \in [day : {0, 1, 6}, from : {0, Hour, Day - 1}, to : {1, Hour + 1, Day}] : e.from < e.to}
HourQuestions == [kind : {"hours"}, schedule : {{d, e} : d \in Entries, e \in Entries}, now : 0..(Week - 1)]

-----------------------------------------------------------------------------
(* Conditions.  A text is a word in either case; a value that is not there is    *)
(* Absent.  Compared as numbers, neither a word nor Absent is any number.      *)

Text(word, upper) == [type |-> "text", word |-> word, upper |-> upper]
Num(n) == [type |-> "num", n |-> n]
Absent == [type |-> "missing"]
NaN == [type |-> "nan"]
Number(v) ==
  CASE v.type = "num" -> v [] v.type = "text" -> (IF v.word = "1" THEN Num(1) ELSE NaN) [] v.type = "missing" -> NaN
Lower(v) == IF v.type = "text" THEN Text(v.word, FALSE) ELSE v
Word(v) == IF v.type = "text" THEN v.word ELSE "number"
Includes(word, piece) == word = piece \/ <<word, piece>> = <<"house", "use">>

Equal(x, y) == IF x.type = "text" /\ y.type = "text" THEN Lower(x) = Lower(y) ELSE x = y
\* the code returns false when the opposite holds, which with NaN never does
ConditionFails(op, x, y) ==
  LET m == Number(x)  n == Number(y)  numbers == m # NaN /\ n # NaN
  IN CASE op = "eq" -> ~Equal(x, y) [] op = "neq" -> Equal(x, y)
       [] op = "gt" -> numbers /\ m.n <= n.n [] op = "gte" -> numbers /\ m.n < n.n
       [] op = "lt" -> numbers /\ m.n >= n.n [] op = "lte" -> numbers /\ m.n > n.n
       [] op = "contains" -> x.type # "text" \/ ~Includes(x.word, Word(y))
       [] op = "not_contains" -> x.type = "text" /\ Includes(x.word, Word(y))
EvaluateCondition(c, x) == CASE c.form = "op" -> ~ConditionFails(c.op, x, c.value)
  [] c.form = "list" -> Lower(x) \in {Lower(v) : v \in c.values}
  [] c.form = "plain" -> Equal(x, c.value)

Values == {Text("house", FALSE), Text("house", TRUE), Text("use", FALSE), Text("1", FALSE), Num(0), Num(1)}
ConditionQuestions ==
  [kind : {"condition"}, op : {"eq", "gt", "gte", "contains"}, value : Values,
   ctx : Values \cup {Absent}]
Opposite(op) == CASE op = "eq" -> "neq" [] op = "gt" -> "lte" [] op = "gte" -> "lt" [] op = "contains" -> "not_contains"
Op(op, v) == [form |-> "op", op |-> op, value |-> v]

-----------------------------------------------------------------------------
FunctionInit ==
  question \in SlotQuestions \cup ScoreQuestions \cup HourQuestions \cup ConditionQuestions

FunctionTypeOK == question.kind \in {"slots", "score", "hours", "condition"}

-----------------------------------------------------------------------------
(* Properties.                                                                  *)

\* What the worker offers is free, in the future and by the end of the day's work, nothing
\* free is left out, and where the agent begins at a full hour the API offers the same,
\* but for its last day (ai-agent.service.ts:463, users.service.ts:252).
WorkerOffersWhatIsFree ==
  question.kind = "slots" =>
    LET a == question.a  now == question.now  from == Midnight(now)  to == from + Day * DaysAhead
        offered == WorkerSlots(a, question.visits, now)
        blocked(s) == \E v \in question.visits : v.start >= from /\ Meets(s, v)
    IN /\ \A s \in offered : ~blocked(s) /\ s.start > now /\ s.end % Day <= a.end
       /\ \A t \in (now + 1)..(to - 1) :
            LET s == [start |-> t, end |-> t + Hour]
            IN t % Hour = 0 /\ (t \div Day) \in a.days /\ t % Day >= a.start /\ (t % Day) + Hour <= a.end /\ ~blocked(s)
               => s \in offered
       /\ a.start % Hour = 0 => offered = {s \in ApiSlots(a, question.visits, now, from, to) : s.start > now /\ s.start < to}

\* The API offers no slot that a visit of the range of days blocks (users.service.ts:203).
OfferedIsUnblocked ==
  question.kind = "slots" =>
    LET from == Midnight(question.now)
    IN \A s \in ApiSlots(question.a, question.visits, question.now, from, from + Day * DaysAhead), v \in question.visits :
         v.start >= from => ~Meets(s, v)

\* The API and the worker give a lead one score, never cut off at 100, unless SCORING_CONFIG gives the API
\* other weights; whatever it gives, the breakdown has the score and the temperature of the API where the sum
\* is a score.  What is added to a lead lowers neither its score by the worker nor its temperature, but for
\* a message of an agent that leaves an older one of the lead uncounted (lead-scoring.service.ts:82, worker 36).
ScoresAgree ==
  question.kind = "score" =>
    LET c == question.config  l == question.lead  sum == Total(Factors(c, l))
        warmth(m) == Warmth(DefaultConfig, WorkerScore(m))
    IN /\ c = DefaultConfig => ApiScore(c, l) = WorkerScore(l) /\ sum <= 100
       /\ ApiScore(c, l) \in 0..100 /\ (sum >= 0 => Breakdown(c, l) = ApiScore(c, l))
       /\ sum \in 0..100 => Warmth(c, sum) = Warmth(c, ApiScore(c, l))
       /\ \A m \in Added(l) \cup NewMessage(l, TRUE) : WorkerScore(m) >= WorkerScore(l) /\ warmth(m) >= warmth(l)
       /\ \A m \in NewMessage(l, FALSE) :
            WorkerScore(m) >= WorkerScore(l) \/ (m.inbound < l.inbound /\ l.messages >= CountedMessages)

\* What is deferred outside the hours is deferred to the first moment inside them
\* (rule-engine.service.ts:1258).
NextStartIsOpening ==
  question.kind = "hours" =>
    LET s == question.schedule  t == question.now  next == NextStart(s, t)
    IN ~Within(s, t) => next > t /\ Within(s, next) /\ \A u \in t..(next - 1) : ~Within(s, u)

\* A condition and its opposite never agree, except where a comparison is not of numbers, when both hold;
\* a value, a list of that value and `equals' say the same (rule-engine.service.ts:351).
ConditionsAreConsistent ==
  question.kind = "condition" =>
    LET v == question.value  x == question.ctx
        holds(c) == EvaluateCondition(c, x)
    IN /\ IF question.op \in {"gt", "gte"} /\ NaN \in {Number(v), Number(x)}
          THEN holds(Op(question.op, v)) /\ holds(Op(Opposite(question.op), v))
          ELSE holds(Op(question.op, v)) # holds(Op(Opposite(question.op), v))
       /\ holds(Op("eq", v)) = holds([form |-> "plain", value |-> v])
       /\ holds(Op("eq", v)) = holds([form |-> "list", values |-> {v}])
=============================================================================
