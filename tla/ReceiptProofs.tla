---------------------------- MODULE ReceiptProofs ----------------------------
(***************************************************************************)
(* What is read in a receipt, for every set of printed dates, of tokens    *)
(* and of answers.  Dates: which match decides, that it is a date, and     *)
(* that it stands there.  The other fields: that the text further down     *)
(* changes little, and that usual amounts are read as they are printed.    *)
(* The answer of the LLM: that it is taken whole or not at all.            *)
(***************************************************************************)
EXTENDS ReceiptText, LlmAnswer, FiniteSetTheorems, SequenceTheorems, TLAPS

-----------------------------------------------------------------------------
(* Dates.                                                                  *)

\* A set of natural numbers that is not empty has a smallest element: the
\* intervals that begin at 0 and end in it are well-founded.
LEMMA MinIsThere ==
  ASSUME NEW S \in SUBSET Nat, S # {}
  PROVE  Min(S) \in S /\ \A k \in S : Min(S) <= k
<1> DEFINE T == {0..k : k \in S}
           R == StrictSubsetOrdering(Nat)
<1>1. PICK x \in T : \A y \in T : <<y, x>> \notin R
  <2>1. IsWellFoundedOn(R, FiniteSubsetsOf(Nat))
    BY FS_StrictSubsetOrderingWellFounded
  <2>2. T \subseteq FiniteSubsetsOf(Nat) /\ T # {}
    <3>1. ASSUME NEW k \in S
          PROVE  0..k \in SUBSET Nat /\ IsFiniteSet(0..k)
      <4>1. 0 \in Int /\ k \in Int
        OBVIOUS
      <4>2. IsFiniteSet(0..k)
        BY <4>1, FS_Interval
      <4> QED BY <4>2
    <3>2. \A k \in S : 0..k \in FiniteSubsetsOf(Nat)
      BY <3>1 DEF FiniteSubsetsOf
    <3> QED BY <3>2
  <2> HIDE DEF R, T
  <2> QED BY <2>1, <2>2, WFMin
<1>2. PICK n \in S : x = 0..n
  OBVIOUS
<1>3. ASSUME NEW k \in S, k < n
      PROVE  FALSE
  <2>1. 0..k \subseteq 0..n /\ 0..k # 0..n
    <3>1. n \in 0..n /\ n \notin 0..k
      BY <1>3
    <3> QED BY <1>3, <3>1
  <2>2. <<0..k, 0..n>> \in R
    BY <2>1 DEF StrictSubsetOrdering
  <2> QED BY <1>1, <1>2, <2>2
<1>4. \A k \in S : n <= k
  BY <1>3
<1> QED BY <1>4 DEF Min

\* The first match of a form is a match of it, and no match comes before it.
LEMMA FirstHit ==
  ASSUME NEW t \in Seq(Mention), NEW f \in Forms, Hits(t, f) # {}
  PROVE  /\ First(Hits(t, f)) \in 1..Len(t)
         /\ t[First(Hits(t, f))].form = f
         /\ Matches(t[First(Hits(t, f))])
         /\ \A i \in Hits(t, f) : First(Hits(t, f)) <= i
<1>1. Hits(t, f) \in SUBSET Nat
  BY DEF Hits
<1>2. First(Hits(t, f)) \in Hits(t, f) /\ \A i \in Hits(t, f) : First(Hits(t, f)) <= i
  BY <1>1, MinIsThere DEF First
<1> QED BY <1>2 DEF Hits

\* Some form of those that have read a date comes first.
LEMMA BestForm ==
  ASSUME NEW t, Successful(t) # {}
  PROVE  /\ Best(t) \in Forms
         /\ TryParse(t, Best(t)) # Null
         /\ \A g \in Successful(t) : Rank(Best(t)) <= Rank(g)
<1> DEFINE F == Successful(t)
<1>1. F \subseteq Forms
  BY DEF Successful
<1>2. /\ Rank("dayMonth") = 1 /\ Rank("monthDay") = 2
      /\ Rank("yearFirst") = 3 /\ Rank("numeric") = 4
  BY DEF Rank
<1>3. \E f \in F : \A g \in F : Rank(f) <= Rank(g)
  <2>0. F # {}
    OBVIOUS
  <2> HIDE DEF F
  <2>1. CASE "dayMonth" \in F
    BY <1>1, <1>2, <2>1 DEF Forms
  <2>2. CASE "dayMonth" \notin F /\ "monthDay" \in F
    BY <1>1, <1>2, <2>2 DEF Forms
  <2>3. CASE "dayMonth" \notin F /\ "monthDay" \notin F /\ "yearFirst" \in F
    BY <1>1, <1>2, <2>3 DEF Forms
  <2>4. CASE "dayMonth" \notin F /\ "monthDay" \notin F /\ "yearFirst" \notin F
    <3>1. F = {"numeric"}
      BY <1>1, <2>0, <2>4, Zenon DEF Forms
    <3> QED BY <1>2, <3>1
  <2> QED BY <2>1, <2>2, <2>3, <2>4
<1>4. Best(t) \in F /\ \A g \in F : Rank(Best(t)) <= Rank(g)
  BY <1>3 DEF Best
<1> QED BY <1>4 DEF Successful

\* What is read is what some match that comes first of its form says.
LEMMA ReadFrom ==
  ASSUME NEW t \in Seq(Mention), ExtractTimestamp(t) # Null
  PROVE  \E i \in 1..Len(t) :
           /\ Matches(t[i])
           /\ ExtractTimestamp(t) = Reading(t[i])
           /\ t[i].form = Best(t)
           /\ \A k \in Hits(t, Best(t)) : i <= k
<1>1. Successful(t) # {}
  BY DEF ExtractTimestamp
<1>2. Best(t) \in Forms /\ TryParse(t, Best(t)) # Null
  BY <1>1, BestForm
<1>3. Hits(t, Best(t)) # {} /\ ExtractTimestamp(t) = Reading(t[First(Hits(t, Best(t)))])
  BY <1>1, <1>2 DEF ExtractTimestamp, TryParse
<1> QED BY <1>2, <1>3, FirstHit

\* The expressions stop after a number of the clock that is there.
LEMMA StopIsThere ==
  ASSUME NEW m \in Mention, Matches(m)
  PROVE  /\ Max(Stops(m)) \in {0, 2, 3}
         /\ Max(Stops(m)) <= Len(m.clock)
<1>1. Stops(m) \subseteq {0, 2, 3} /\ Stops(m) # {}
  BY DEF Stops, Matches
<1>2. \E x \in Stops(m) : \A y \in Stops(m) : x >= y
  <2> DEFINE S == Stops(m)
  <2>1. S \subseteq {0, 2, 3} /\ S # {}
    BY <1>1
  <2> HIDE DEF S
  <2>2. \E x \in S : \A y \in S : x >= y
    <3>1. CASE 3 \in S
      BY <2>1, <3>1
    <3>2. CASE 3 \notin S /\ 2 \in S
      BY <2>1, <3>2
    <3>3. CASE 3 \notin S /\ 2 \notin S
      <4>1. S = {0}
        BY <2>1, <3>3
      <4> QED BY <4>1
    <3> QED BY <3>1, <3>2, <3>3
  <2> QED BY <2>2 DEF S
<1>3. Max(Stops(m)) \in Stops(m)
  BY <1>2 DEF Max
<1> QED BY <1>3 DEF Stops

\* A reading is a day of the calendar and a time of the day.
LEMMA ReadingIsTimestamp ==
  ASSUME NEW m \in Mention, Matches(m), Reading(m) # Null
  PROVE  IsTimestamp(Reading(m))
<1> DEFINE c == ClockRead(m)
<1>1. /\ IsReasonableYMD(m.year, Month(m), Day(m)) /\ IsReasonableClock(c)
      /\ Reading(m) = [date |-> <<m.year, Month(m), Day(m)>>, clock |-> TimeOfDay(c)]
  BY DEF Reading
<1>2. m.year \in 1970..2100 /\ Month(m) \in 1..12 /\ Day(m) \in 1..MonthLength(m.year, Month(m))
  <2>1. /\ m.year \in 1970..2100 /\ Month(m) \in 1..12 /\ Day(m) \in 1..31
        /\ DateUtc(m.year, Month(m), Day(m)) = <<m.year, Month(m), Day(m)>>
    BY <1>1 DEF IsReasonableYMD
  <2> DEFINE len == MonthLength(m.year, Month(m))
  <2>2. len \in Nat
    BY DEF MonthLength
  <2>3. DateUtc(m.year, Month(m), Day(m)) =
          IF Day(m) - len <= 0 THEN <<m.year, Month(m), Day(m)>>
          ELSE IF Month(m) = 12 THEN <<m.year + 1, 1, Day(m) - len>>
          ELSE <<m.year, Month(m) + 1, Day(m) - len>>
    BY DEF DateUtc
  <2> HIDE DEF len
  <2>4. Day(m) - len <= 0
    BY <2>1, <2>2, <2>3
  <2> QED BY <2>1, <2>2, <2>4 DEF len
<1>3. c \in Seq(Nat) /\ Len(c) \in {0, 2, 3}
  <2>1. m.clock \in Seq(Nat)
    BY DEF Mention
  <2> QED BY <2>1, StopIsThere DEF ClockRead
<1>4. /\ TimeOfDay(c)[1] \in 0..23 /\ TimeOfDay(c)[2] \in 0..59 /\ TimeOfDay(c)[3] \in 0..59
  BY <1>1, <1>3 DEF IsReasonableClock, TimeOfDay
<1> QED BY <1>1, <1>2, <1>4 DEF IsTimestamp

\* A reading says nothing that is not printed.
LEMMA ReadingIsPrinted ==
  ASSUME NEW m \in Mention, Matches(m), Reading(m) # Null
  PROVE  Says(m, Reading(m))
<1>1. Reading(m) = [date |-> <<m.year, Month(m), Day(m)>>, clock |-> TimeOfDay(ClockRead(m))]
  BY DEF Reading
<1>2. {Month(m), Day(m)} = {m.first, m.second}
  BY DEF Month, Day
<1>3. \E n \in {0, 2, 3} : n <= Len(m.clock) /\ Reading(m).clock = TimeOfDay(SubSeq(m.clock, 1, n))
  <2> DEFINE n == Max(Stops(m))
  <2>1. n \in {0, 2, 3} /\ n <= Len(m.clock)
    BY StopIsThere
  <2>2. Reading(m).clock = TimeOfDay(SubSeq(m.clock, 1, n))
    BY <1>1 DEF ClockRead
  <2> HIDE DEF n
  <2> QED BY <2>1, <2>2, Zenon
<1>4. Reading(m).date = <<m.year, Month(m), Day(m)>>
  BY <1>1
<1>5. Reading(m).date[1] = m.year /\ {Reading(m).date[2], Reading(m).date[3]} = {m.first, m.second}
  BY <1>2, <1>4
<1> QED BY <1>3, <1>5 DEF Says

\* An expression that has found a date keeps it whatever is added to the text.
LEMMA FirstMatchStays ==
  ASSUME NEW t \in Seq(Mention), NEW m \in Mention, NEW f \in Forms, Hits(t, f) # {}
  PROVE  TryParse(Append(t, m), f) = TryParse(t, f)
<1> DEFINE u == Append(t, m)
           i == First(Hits(t, f))
           j == First(Hits(u, f))
<1>1. u \in Seq(Mention) /\ Len(u) = Len(t) + 1 /\ \A k \in 1..Len(t) : u[k] = t[k]
  OBVIOUS
<1>2. Hits(t, f) = {k \in Hits(u, f) : k <= Len(t)}
  BY <1>1 DEF Hits
<1>3. Hits(u, f) # {}
  BY <1>2
<1>4. i \in 1..Len(t) /\ i \in Hits(t, f) /\ \A k \in Hits(t, f) : i <= k
  BY FirstHit DEF Hits
<1>5. j \in 1..Len(u) /\ j \in Hits(u, f) /\ \A k \in Hits(u, f) : j <= k
  <2> HIDE DEF u
  <2>1. j \in 1..Len(u) /\ u[j].form = f /\ Matches(u[j]) /\ \A k \in Hits(u, f) : j <= k
    BY <1>1, <1>3, FirstHit
  <2> HIDE DEF j
  <2> QED BY <2>1 DEF Hits
<1>6. i = j
  <2> HIDE DEF i, j, u
  <2>1. i \in Hits(u, f) /\ j <= i /\ j <= Len(t)
    BY <1>1, <1>2, <1>4, <1>5
  <2>2. j \in Hits(t, f)
    BY <1>2, <1>5, <2>1
  <2> QED BY <1>4, <1>5, <2>1, <2>2
<1>7. u[j] = t[i]
  BY <1>1, <1>4, <1>6
<1> QED BY <1>3, <1>7 DEF TryParse

\* An expression whose first match is the new date reads that one.
LEMMA NewMatchIsRead ==
  ASSUME NEW t \in Seq(Mention), NEW m \in Mention, NEW f \in Forms, Hits(t, f) = {},
         TryParse(Append(t, m), f) # Null
  PROVE  m.form = f /\ Matches(m) /\ TryParse(Append(t, m), f) = Reading(m)
<1> DEFINE u == Append(t, m)
           j == First(Hits(u, f))
<1>1. u \in Seq(Mention) /\ Len(u) = Len(t) + 1 /\ u[Len(u)] = m /\ \A k \in 1..Len(t) : u[k] = t[k]
  OBVIOUS
<1>2. Hits(u, f) # {} /\ TryParse(u, f) = Reading(u[j])
  BY DEF TryParse
<1>3. j \in 1..Len(u) /\ u[j].form = f /\ Matches(u[j])
  BY <1>1, <1>2, FirstHit
<1>4. j \notin 1..Len(t)
  <2> HIDE DEF j, u
  <2>1. SUFFICES ASSUME j \in 1..Len(t) PROVE FALSE
    OBVIOUS
  <2>2. j \in Hits(t, f)
    BY <1>1, <1>3, <2>1 DEF Hits
  <2> QED BY <2>2
<1>5. u[j] = m
  <2> HIDE DEF j, u
  <2>1. j = Len(u)
    BY <1>1, <1>3, <1>4
  <2> QED BY <1>1, <2>1
<1> QED BY <1>2, <1>3, <1>5

\* No two forms are tried at once.
LEMMA RankInjective ==
  ASSUME NEW f \in Forms, NEW g \in Forms
  PROVE  Rank(f) \in Nat /\ (Rank(f) = Rank(g) => f = g)
BY DEF Forms, Rank

\* A date that changes what a text is read for is the first match of its form,
\* and its form comes before the one that was read.
LEMMA AppendedDate ==
  ASSUME NEW t \in Seq(Mention), NEW m \in Mention,
         ExtractTimestamp(Append(t, m)) # ExtractTimestamp(t)
  PROVE  /\ ExtractTimestamp(Append(t, m)) = Reading(m)
         /\ \A i \in 1..Len(t) : Matches(t[i]) => t[i].form # m.form
         /\ ExtractTimestamp(t) # Null =>
              \E i \in 1..Len(t) : /\ Matches(t[i])
                                   /\ ExtractTimestamp(t) = Reading(t[i])
                                   /\ Rank(m.form) < Rank(t[i].form)
<1> DEFINE u == Append(t, m)
           S == Successful(t)
           U == Successful(u)
<1> HIDE DEF u
<1>1. \A f \in Forms : Hits(t, f) # {} => TryParse(u, f) = TryParse(t, f)
  BY FirstMatchStays DEF u
<1>2. \A f \in Forms : Hits(t, f) = {} => TryParse(t, f) = Null
  BY DEF TryParse
<1>3. \A f \in Forms : Hits(t, f) = {} /\ TryParse(u, f) # Null =>
        m.form = f /\ TryParse(u, f) = Reading(m)
  BY NewMatchIsRead DEF u
<1>4. S \subseteq U /\ S \subseteq Forms /\ U \subseteq Forms
  BY <1>1, <1>2 DEF Successful
<1>5. \A f \in S : TryParse(u, f) = TryParse(t, f)
  BY <1>1, <1>2 DEF Successful
<1>6. ASSUME NEW f \in U, f \notin S
      PROVE  Hits(t, f) = {} /\ m.form = f /\ TryParse(u, f) = Reading(m)
  BY <1>1, <1>3, <1>6 DEF Successful
<1>7. U # {}
  <2>1. CASE U = {}
    BY <1>4, <2>1 DEF ExtractTimestamp, u
  <2> QED BY <2>1
<1>8. Best(u) \in U /\ \A g \in U : Rank(Best(u)) <= Rank(g)
  BY <1>7, BestForm DEF Successful
<1>9. S # {} => Best(t) \in S /\ \A g \in S : Rank(Best(t)) <= Rank(g)
  BY BestForm DEF Successful
<1>10. ExtractTimestamp(u) = TryParse(u, Best(u))
  BY <1>7 DEF ExtractTimestamp
<1>11. Best(u) \notin S
  <2>1. SUFFICES ASSUME Best(u) \in S PROVE FALSE
    OBVIOUS
  <2>2. S # {} /\ Best(t) \in S /\ Best(t) \in U
    BY <1>4, <1>9, <2>1
  <2>3. Rank(Best(u)) <= Rank(Best(t)) /\ Rank(Best(t)) <= Rank(Best(u))
    BY <1>8, <1>9, <2>1, <2>2
  <2>4. Best(t) = Best(u)
    BY <1>4, <2>1, <2>2, <2>3, RankInjective
  <2>5. ExtractTimestamp(t) = TryParse(t, Best(t))
    BY <2>2 DEF ExtractTimestamp
  <2>6. ExtractTimestamp(u) = ExtractTimestamp(t)
    BY <1>5, <1>10, <2>1, <2>4, <2>5
  <2> QED BY <2>6 DEF u
<1>12. Hits(t, m.form) = {} /\ m.form = Best(u) /\ ExtractTimestamp(u) = Reading(m)
  BY <1>6, <1>8, <1>10, <1>11
<1>13. \A i \in 1..Len(t) : Matches(t[i]) => t[i].form # m.form
  BY <1>12 DEF Hits
<1>14. ASSUME ExtractTimestamp(t) # Null
       PROVE  \E i \in 1..Len(t) : /\ Matches(t[i])
                                   /\ ExtractTimestamp(t) = Reading(t[i])
                                   /\ Rank(m.form) < Rank(t[i].form)
  <2>1. PICK i \in 1..Len(t) : /\ Matches(t[i])
                               /\ ExtractTimestamp(t) = Reading(t[i])
                               /\ t[i].form = Best(t)
    BY <1>14, ReadFrom
  <2>2. S # {}
    BY <1>14 DEF ExtractTimestamp
  <2>3. Best(t) \in S /\ Best(t) \in U /\ Best(t) # Best(u)
    BY <1>4, <1>9, <1>11, <2>2
  <2>4. Rank(Best(u)) <= Rank(Best(t)) /\ Rank(Best(u)) # Rank(Best(t))
    BY <1>4, <1>8, <2>3, RankInjective
  <2>5. Rank(Best(u)) \in Nat /\ Rank(Best(t)) \in Nat
    BY <1>4, <1>8, <2>3, RankInjective
  <2>6. Rank(m.form) < Rank(t[i].form)
    BY <1>12, <2>1, <2>4, <2>5
  <2> QED BY <2>1, <2>6
<1> QED BY <1>12, <1>13, <1>14 DEF u

\* The two services read the same date in one print, as far as both read any.
LEMMA PathsAgree ==
  ASSUME NEW m \in Mention, Len(m.clock) \in {0, 2, 3},
         Matches(m), m.mark = "none", Reading(m) # Null, NormalizeTimestamp(m) # Null
  PROVE  Reading(m) = NormalizeTimestamp(m)
<1>1. Reading(m) = [date |-> <<m.year, Month(m), Day(m)>>, clock |-> TimeOfDay(ClockRead(m))]
  BY DEF Reading
<1>2. /\ NormalizeTimestamp(m) = [date |-> PythonDate(m), clock |-> TimeOfDay(m.clock)]
      /\ IsoFormat(m) \/ StrptimeFormat(m)
      /\ IsPythonDate(PythonDate(m))
  BY DEF NormalizeTimestamp
<1>3. m.form \in {"yearFirst", "numeric"} /\ m.first \in Nat /\ m.second \in Nat
  BY <1>2 DEF IsoFormat, StrptimeFormat, Mention
<1>4. PythonDate(m) = <<m.year, Month(m), Day(m)>>
  <2>1. CASE m.form = "yearFirst"
    <3>1. ~DayFirst(m)
      BY <2>1 DEF DayFirst
    <3> QED BY <2>1, <3>1 DEF PythonDate, Month, Day
  <2>2. CASE m.form = "numeric"
    <3>1. PythonDate(m) = <<m.year, m.second, m.first>>
      BY <2>2 DEF PythonDate
    <3>2. m.second <= 12
      <4>1. PythonDate(m)[2] \in 1..12
        BY <1>2 DEF IsPythonDate
      <4>2. PythonDate(m)[2] = m.second
        BY <3>1
      <4> QED BY <4>1, <4>2
    <3>3. DayFirst(m)
      BY <2>2, <3>2 DEF DayFirst
    <3> QED BY <3>1, <3>3 DEF Month, Day
  <2> QED BY <1>3, <2>1, <2>2
<1>5. Len(m.clock) = 0 \/ TakesClock(m)
  <2>1. CASE m.form = "yearFirst"
    BY <2>1 DEF TakesClock
  <2>2. CASE m.form = "numeric"
    <3>1. m.clock = <<>> \/ m.sep = "space"
      BY <1>2, <2>2 DEF IsoFormat, StrptimeFormat
    <3> QED BY <2>2, <3>1 DEF TakesClock
  <2> QED BY <1>3, <2>1, <2>2
<1>6. Len(m.clock) \in Stops(m)
  <2>1. BoundaryAfter(m, Len(m.clock))
    BY DEF BoundaryAfter
  <2>2. Len(m.clock) > 0 => TakesClock(m)
    BY <1>5
  <2> QED BY <2>1, <2>2 DEF Stops
<1>7. Max(Stops(m)) = Len(m.clock)
  <2>1. \A k \in Stops(m) : k \in {0, 2, 3} /\ k <= Len(m.clock)
    BY DEF Stops
  <2>2. Max(Stops(m)) \in Stops(m) /\ \A k \in Stops(m) : Max(Stops(m)) >= k
    <3> DEFINE n == Len(m.clock)
               W == Stops(m)
    <3>1. n \in W /\ \A k \in W : n >= k
      BY <1>6, <2>1
    <3> HIDE DEF n, W
    <3>2. \E x \in W : \A y \in W : x >= y
      BY <3>1
    <3>3. Max(W) \in W /\ \A k \in W : Max(W) >= k
      BY <3>2 DEF Max
    <3> QED BY <3>3 DEF W
  <2> QED BY <1>6, <2>1, <2>2
<1>8. ClockRead(m) = m.clock
  <2>1. m.clock \in Seq(Nat)
    BY DEF Mention
  <2>2. SubSeq(m.clock, 1, Len(m.clock)) = m.clock
    BY <2>1
  <2>3. ClockRead(m) = SubSeq(m.clock, 1, Len(m.clock))
    BY <1>7 DEF ClockRead
  <2> QED BY <2>2, <2>3
<1> QED BY <1>1, <1>2, <1>4, <1>8

-----------------------------------------------------------------------------

\* The timestamp is the one of the text.
DateInv ==
  /\ text \in Seq(Prints)
  /\ Len(text) <= MaxMentions
  /\ timestamp = ExtractTimestamp(text)

\* What is printed can be read, clock and all.
LEMMA PrintsAreMentions ==
  ASSUME NEW t \in Seq(Prints)
  PROVE  /\ t \in Seq(Mention)
         /\ \A i \in 1..Len(t) : t[i] \in Mention /\ Len(t[i].clock) \in {0, 2, 3}
BY DateAssumption

\* The timestamp is always that of the text so far.
LEMMA DateInvariant == DateSpec => []DateInv
<1>1. DateInit => DateInv
  BY DateAssumption DEF DateInit, DateInv
<1>2. DateInv /\ [DateNext]_dateVars => DateInv'
  <2> SUFFICES ASSUME DateInv, [DateNext]_dateVars PROVE DateInv'
    OBVIOUS
  <2>1. ASSUME NEW m \in Prints, Len(text) < MaxMentions, Show(m) PROVE DateInv'
    BY <2>1, DateAssumption DEF DateInv, Show
  <2>2. CASE UNCHANGED dateVars
    BY <2>2 DEF DateInv, dateVars
  <2> QED BY <2>1, <2>2 DEF DateNext
<1> QED BY <1>1, <1>2, PTL DEF DateSpec

\* Whatever the texts, what extractTimestampFromText returns is a day of the
\* calendar and a time of that day (isReasonableYMD, isReasonableClock).
THEOREM DateTypeCorrect == DateSpec => []DateTypeOK
<1>1. DateInv => DateTypeOK
  <2> SUFFICES ASSUME DateInv PROVE DateTypeOK
    OBVIOUS
  <2>1. text \in Seq(Mention)
    BY PrintsAreMentions DEF DateInv
  <2>2. ASSUME timestamp # Null PROVE IsTimestamp(timestamp)
    <3>1. PICK i \in 1..Len(text) : Matches(text[i]) /\ ExtractTimestamp(text) = Reading(text[i])
      BY <2>1, <2>2, ReadFrom DEF DateInv
    <3> QED BY <2>1, <2>2, <3>1, ReadingIsTimestamp DEF DateInv
  <2>3. \A i \in 1..Len(text) : text[i] \in Prints
    BY DEF DateInv
  <2> QED BY <2>2, <2>3 DEF DateTypeOK, DateInv
<1> QED BY <1>1, DateInvariant, PTL

\* Whatever the texts, the timestamp is a day of the calendar made of the numbers
\* of one printed date, its day and month beside its year and the beginning of
\* its clock.
THEOREM TimestampIsPrinted == DateSpec => []ReadsWhatIsPrinted
<1>1. DateInv => ReadsWhatIsPrinted
  <2> SUFFICES ASSUME DateInv, timestamp # Null
               PROVE  /\ IsTimestamp(timestamp)
                      /\ \E i \in 1..Len(text) : Says(text[i], timestamp)
    BY DEF ReadsWhatIsPrinted
  <2>1. text \in Seq(Mention)
    BY PrintsAreMentions DEF DateInv
  <2>2. PICK i \in 1..Len(text) : Matches(text[i]) /\ ExtractTimestamp(text) = Reading(text[i])
    BY <2>1, ReadFrom DEF DateInv
  <2> QED BY <2>1, <2>2, ReadingIsTimestamp, ReadingIsPrinted DEF DateInv
<1> QED BY <1>1, DateInvariant, PTL

\* Whatever the texts, a date further down changes the timestamp only by the
\* order of the four expressions in the ?? chain.
THEOREM EarlierDatesDecide == DateSpec => EarlierTextDecides
<1> DEFINE A == timestamp' # timestamp =>
                  LET m == text'[Len(text')]
                  IN  /\ timestamp' = Reading(m)
                      /\ \A i \in 1..Len(text) : Matches(text[i]) => text[i].form # m.form
                      /\ timestamp # Null =>
                           \E i \in 1..Len(text) :
                             /\ Matches(text[i])
                             /\ timestamp = Reading(text[i])
                             /\ Rank(m.form) < Rank(text[i].form)
<1>1. DateInv /\ [DateNext]_dateVars => [A]_dateVars
  <2> SUFFICES ASSUME DateInv, NEW m \in Prints, Show(m) PROVE A
    BY DEF DateNext
  <2>1. text' = Append(text, m) /\ timestamp' = ExtractTimestamp(Append(text, m))
    BY DEF Show
  <2>2. text \in Seq(Mention) /\ m \in Mention /\ timestamp = ExtractTimestamp(text)
    BY PrintsAreMentions, DateAssumption DEF DateInv
  <2>3. text'[Len(text')] = m
    BY <2>1, <2>2
  <2> QED BY <2>1, <2>2, <2>3, AppendedDate
<1> QED BY <1>1, DateInvariant, PTL DEF DateSpec, EarlierTextDecides

\* Whatever the dates printed, extractTimestampFromText and the Python
\* _normalize_timestamp never read two different ones in one print.
THEOREM PathsDoNotContradict == DateSpec => []PathsNeverContradict
<1>1. DateInv => PathsNeverContradict
  BY PrintsAreMentions, PathsAgree DEF DateInv, PathsNeverContradict
<1> QED BY <1>1, DateInvariant, PTL

-----------------------------------------------------------------------------
(* The other fields of a text.                                             *)

\* Each field is what the text so far gives.
TextInv ==
  /\ lines \in Seq(Token) /\ lines \in Seq(Tokens)
  /\ amount = ExtractAmount(lines)
  /\ transactionId = ExtractTransactionId(lines)
  /\ bankName = ExtractBankName(lines)

\* Every token shown is taken into all of them.
LEMMA TextInvariant == TextSpec => []TextInv
<1>1. TextInit => TextInv
  <2> SUFFICES ASSUME TextInit PROVE TextInv
    OBVIOUS
  <2>1. lines = <<>> /\ 1..Len(lines) = {} /\ lines \in Seq(Token) /\ lines \in Seq(Tokens)
    BY DEF TextInit
  <2>2. Amounts(lines) = {} /\ IdHits(lines) = {} /\ Mentioned(lines) = {}
    BY <2>1 DEF Amounts, IdHits, Mentioned
  <2> QED BY <2>1, <2>2
       DEF TextInit, TextInv, ExtractAmount, ExtractTransactionId, ExtractBankName
<1>2. TextInv /\ [TextNext]_textVars => TextInv'
  <2> SUFFICES ASSUME TextInv, [TextNext]_textVars PROVE TextInv'
    OBVIOUS
  <2>1. ASSUME NEW tok \in Tokens, ShowToken(tok)
        PROVE  TextInv'
    <3>1. lines' \in Seq(Token) /\ lines' \in Seq(Tokens)
      BY <2>1, TextAssumption DEF ShowToken, TextInv
    <3> QED BY <2>1, <3>1 DEF ShowToken, TextInv
  <2>2. CASE UNCHANGED textVars
    BY <2>2 DEF TextInv, textVars
  <2> QED BY <2>1, <2>2 DEF TextNext
<1> QED BY <1>1, <1>2, PTL DEF TextSpec

\* Reading the other fields leaves the date alone: every step of the text is a
\* step of its dates or none, so what is proved of ReceiptDate holds here.
THEOREM TextImplementsDates == TextSpec => DateSpec
<1>1. TextInit => DateInit
  BY DEF TextInit
<1>2. [TextNext]_textVars => [DateNext]_dateVars
  <2> SUFFICES ASSUME [TextNext]_textVars PROVE [DateNext]_dateVars
    OBVIOUS
  <2>1. ASSUME NEW tok \in Tokens, ShowToken(tok)
        PROVE  [DateNext]_dateVars
    <3>1. CASE tok.kind = "date"
      <4>1. tok.date \in Prints
        BY <3>1, TextAssumption DEF Token
      <4> QED BY <2>1, <3>1, <4>1 DEF ShowToken, DateNext
    <3>2. CASE tok.kind # "date"
      BY <2>1, <3>2 DEF ShowToken
    <3> QED BY <3>1, <3>2
  <2>2. CASE UNCHANGED textVars
    BY <2>2 DEF textVars
  <2> QED BY <2>1, <2>2 DEF TextNext
<1> QED BY <1>1, <1>2, PTL DEF TextSpec, DateSpec

-----------------------------------------------------------------------------

\* The first hit stays when hits are added behind it.
LEMMA MinStays ==
  ASSUME NEW S \in SUBSET Nat, NEW T \in SUBSET Nat, S # {}, S \subseteq T,
         \A k \in T \ S : \A i \in S : i <= k
  PROVE  Min(T) = Min(S) /\ Min(S) \in S
<1> DEFINE m == Min(S)
           n == Min(T)
<1>1. m \in S /\ \A k \in S : m <= k
  BY MinIsThere
<1>2. n \in T /\ \A k \in T : n <= k
  <2>1. T # {}
    OBVIOUS
  <2> QED BY <2>1, MinIsThere
<1> HIDE DEF m, n
<1>3. m <= n
  BY <1>1, <1>2
<1>4. n <= m
  BY <1>1, <1>2
<1>5. m \in Nat /\ n \in Nat
  BY <1>1, <1>2
<1>6. n = m /\ m \in S
  BY <1>1, <1>3, <1>4, <1>5
<1> QED BY <1>6 DEF m, n

\* The first amount is found again in a longer text.
LEMMA AmountStays ==
  ASSUME NEW t \in Seq(Token), NEW tok \in Token, ExtractAmount(t) # Null
  PROVE  ExtractAmount(Append(t, tok)) = ExtractAmount(t)
<1> DEFINE u == Append(t, tok)
<1>1. Amounts(t) # {} /\ Amounts(t) \in SUBSET Nat /\ Amounts(u) \in SUBSET Nat
  BY DEF ExtractAmount, Amounts
<1>2. /\ Len(t) \in Nat /\ Len(u) = Len(t) + 1
      /\ \A i \in 1..Len(t) : u[i] = t[i]
  OBVIOUS
<1>3. Amounts(t) \subseteq Amounts(u) /\ \A k \in Amounts(u) \ Amounts(t) : k = Len(u)
  BY <1>2 DEF Amounts
<1>4. Min(Amounts(u)) = Min(Amounts(t)) /\ Min(Amounts(t)) \in Amounts(t)
  <2>1. \A k \in Amounts(u) \ Amounts(t) : \A i \in Amounts(t) : i <= k
    BY <1>2, <1>3 DEF Amounts
  <2> QED BY <1>1, <1>3, <2>1, MinStays
<1>5. u[Min(Amounts(t))] = t[Min(Amounts(t))] /\ Amounts(u) # {}
  BY <1>1, <1>2, <1>3, <1>4 DEF Amounts
<1> HIDE DEF u
<1>6. ExtractAmount(u) = ExtractAmount(t)
  BY <1>1, <1>4, <1>5 DEF ExtractAmount, FirstAmount
<1> QED BY <1>6 DEF u

\* An identifier changes only if the word behind "Reference" was missing.
LEMMA IdentifierStays ==
  ASSUME NEW t \in Seq(Token), NEW tok \in Token, ExtractTransactionId(t) # Null,
         ExtractTransactionId(Append(t, tok)) # ExtractTransactionId(t)
  PROVE  /\ ExtractTransactionId(t) = ERENCE
         /\ t[Len(t)].kind = "label" /\ t[Len(t)].name = "reference"
<1> DEFINE u == Append(t, tok)
           i == Min(IdHits(t))
<1>1. IdHits(t) # {} /\ IdHits(t) \in SUBSET Nat /\ IdHits(u) \in SUBSET Nat
  BY DEF ExtractTransactionId, IdHits
<1>2. /\ Len(t) \in Nat /\ Len(u) = Len(t) + 1
      /\ \A k \in 1..Len(t) : u[k] = t[k]
  OBVIOUS
<1>3. \A k \in 1..Len(t) : FollowedByRun(t, k) => FollowedByRun(u, k) /\ u[k + 1] = t[k + 1]
  BY <1>2 DEF FollowedByRun
<1>4. \A k \in 1..Len(t) : FollowedByRun(u, k) => FollowedByRun(t, k) \/ k = Len(t)
  BY <1>2 DEF FollowedByRun
<1>5. IdHits(t) \subseteq IdHits(u)
  BY <1>2, <1>3 DEF IdHits
<1>6. \A k \in IdHits(u) \ IdHits(t) : k \in {Len(t), Len(u)}
  BY <1>2, <1>4 DEF IdHits
<1>7. Min(IdHits(u)) = i /\ i \in IdHits(t)
  <2>1. \A k \in IdHits(u) \ IdHits(t) : \A j \in IdHits(t) : j <= k
    BY <1>2, <1>6 DEF IdHits
  <2> QED BY <1>1, <1>5, <2>1, MinStays
<1>8. IdHits(u) # {} /\ i \in 1..Len(t) /\ t[i].kind = "label"
      /\ (FollowedByRun(t, i) \/ t[i].name = "reference")
  BY <1>1, <1>5, <1>7 DEF IdHits
<1> HIDE DEF u, i
<1>9. ~FollowedByRun(t, i)
  <2> SUFFICES ASSUME FollowedByRun(t, i) PROVE FALSE
    OBVIOUS
  <2>1. ExtractTransactionId(t) = t[i + 1]
    BY <1>1 DEF ExtractTransactionId, i
  <2>2. ExtractTransactionId(u) = u[i + 1]
    BY <1>3, <1>7, <1>8 DEF ExtractTransactionId
  <2> QED BY <1>3, <1>8, <2>1, <2>2 DEF u
<1>10. ExtractTransactionId(t) = ERENCE
  BY <1>1, <1>9 DEF ExtractTransactionId, i
<1>11. FollowedByRun(u, i)
  <2> SUFFICES ASSUME ~FollowedByRun(u, i) PROVE FALSE
    OBVIOUS
  <2>1. ExtractTransactionId(u) = ERENCE
    BY <1>7, <1>8 DEF ExtractTransactionId
  <2> QED BY <1>10, <2>1 DEF u
<1>12. i = Len(t)
  BY <1>4, <1>8, <1>9, <1>11
<1> QED BY <1>8, <1>9, <1>10, <1>12

\* More text brings names from further up the list only.
LEMMA BankOnlyRises ==
  ASSUME NEW t \in Seq(Token), NEW tok \in Token, ExtractBankName(t) # Null
  PROVE  ExtractBankName(Append(t, tok)).bank <= ExtractBankName(t).bank
<1> DEFINE u == Append(t, tok)
<1>1. Mentioned(t) # {} /\ Mentioned(t) \in SUBSET Nat /\ Mentioned(u) \in SUBSET Nat
  BY DEF ExtractBankName, Mentioned
<1>2. Len(t) \in Nat /\ Len(u) = Len(t) + 1 /\ \A i \in 1..Len(t) : u[i] = t[i]
  OBVIOUS
<1>3. Mentioned(t) \subseteq Mentioned(u)
  BY <1>2 DEF Mentioned
<1> HIDE DEF u
<1>4. Min(Mentioned(u)) <= Min(Mentioned(t))
  BY <1>1, <1>3, MinIsThere
<1>5. /\ ExtractBankName(t) = [bank |-> Min(Mentioned(t))]
      /\ ExtractBankName(u) = [bank |-> Min(Mentioned(u))]
  BY <1>1, <1>3 DEF ExtractBankName
<1>6. ExtractBankName(u).bank <= ExtractBankName(t).bank
  BY <1>4, <1>5
<1> QED BY <1>6 DEF u

\* Two photos of a receipt that differ in their lower lines: which of the fields
\* that make a duplicate may differ, and only how.
THEOREM LaterTextDecidesLittle == TextSpec => LaterTextChangesLittle
<1> DEFINE A == /\ amount # Null => amount' = amount
                /\ transactionId # Null /\ transactionId' # transactionId =>
                     /\ transactionId = ERENCE
                     /\ Last(lines).kind = "label" /\ Last(lines).name = "reference"
                /\ bankName # Null => bankName'.bank <= bankName.bank
<1>1. TextInv /\ [TextNext]_textVars => [A]_textVars
  <2> SUFFICES ASSUME TextInv, NEW tok \in Tokens, ShowToken(tok)
               PROVE  A
    BY DEF TextNext
  <2>1. /\ lines \in Seq(Token) /\ tok \in Token /\ lines' = Append(lines, tok)
        /\ amount = ExtractAmount(lines) /\ amount' = ExtractAmount(Append(lines, tok))
        /\ transactionId = ExtractTransactionId(lines)
        /\ transactionId' = ExtractTransactionId(Append(lines, tok))
        /\ bankName = ExtractBankName(lines) /\ bankName' = ExtractBankName(Append(lines, tok))
    BY TextAssumption DEF TextInv, ShowToken
  <2>2. amount # Null => amount' = amount
    BY <2>1, AmountStays
  <2>3. transactionId # Null /\ transactionId' # transactionId =>
          /\ transactionId = ERENCE
          /\ Last(lines).kind = "label" /\ Last(lines).name = "reference"
    BY <2>1, IdentifierStays DEF Last
  <2>4. bankName # Null => bankName'.bank <= bankName.bank
    BY <2>1, BankOnlyRises
  <2> QED BY <2>2, <2>3, <2>4
<1> QED BY <1>1, TextInvariant, PTL DEF TextSpec, LaterTextChangesLittle

-----------------------------------------------------------------------------
(* Induction, by the smallest counterexample: over numbers, over sequences, *)
(* and along the folds of the library.                                     *)

\* A set of numbers that has 0 and each successor has them all.
LEMMA Counting ==
  ASSUME NEW S \in SUBSET Nat, 0 \in S, \A k \in S : k + 1 \in S
  PROVE  S = Nat
<1> SUFFICES ASSUME S # Nat PROVE FALSE
  OBVIOUS
<1> DEFINE M == Nat \ S
           m == Min(M)
<1>1. m \in M /\ \A k \in M : m <= k
  <2>1. M # {} /\ M \in SUBSET Nat
    OBVIOUS
  <2> HIDE DEF M
  <2> QED BY <2>1, MinIsThere
<1> HIDE DEF m
<1>2. m - 1 \in Nat /\ m - 1 \notin M
  BY <1>1
<1> QED BY <1>1, <1>2

\* A set of sequences that has the empty one and is closed under Append has all.
LEMMA Appending ==
  ASSUME NEW Q, NEW S \in SUBSET Seq(Q), <<>> \in S, \A s \in S, c \in Q : Append(s, c) \in S
  PROVE  S = Seq(Q)
<1> DEFINE N == {n \in Nat : \A s \in Seq(Q) : Len(s) = n => s \in S}
<1>1. 0 \in N
  <2>1. \A s \in Seq(Q) : Len(s) = 0 => s = <<>>
    OBVIOUS
  <2> QED BY <2>1
<1>2. ASSUME NEW n \in N PROVE n + 1 \in N
  <2> SUFFICES ASSUME NEW s \in Seq(Q), Len(s) = n + 1 PROVE s \in S
    OBVIOUS
  <2>1. n \in Nat /\ \A r \in Seq(Q) : Len(r) = n => r \in S
    OBVIOUS
  <2> HIDE DEF N
  <2>2. PICK t \in Seq(Q), c \in Q : s = Append(t, c)
    <3>1. s # <<>>
      BY <2>1
    <3> QED BY <3>1, SequenceEmptyOrAppend
  <2>3. Len(s) = Len(t) + 1 /\ Len(t) \in Nat
    BY <2>2, AppendProperties
  <2>4. Len(t) = n
    BY <2>1, <2>3
  <2> QED BY <2>1, <2>2, <2>4
<1>3. N = Nat
  <2>1. N \in SUBSET Nat
    OBVIOUS
  <2> HIDE DEF N
  <2> QED BY <1>1, <1>2, <2>1, Counting
<1>4. \A s \in Seq(Q) : Len(s) \in N
  <2> HIDE DEF N
  <2> QED BY <1>3
<1> QED BY <1>4

\* The largest of some of the first numbers.
LEMMA MaxIsThere ==
  ASSUME NEW n \in Nat, NEW x \in SUBSET (1..n), x # {}
  PROVE  Max(x) \in x /\ \A k \in x : k <= Max(x)
<1> DEFINE D == {n - k : k \in x}
           m == n - Min(D)
<1>1. Min(D) \in D /\ \A d \in D : Min(D) <= d
  <2>1. \A k \in x : n - k \in Nat
    OBVIOUS
  <2>2. D \in SUBSET Nat /\ D # {}
    BY <2>1
  <2> HIDE DEF D
  <2> QED BY <2>2, MinIsThere
<1>2. m \in x /\ \A k \in x : k <= m
  <2>1. PICK i \in x : Min(D) = n - i
    BY <1>1
  <2>2. m = i
    BY <2>1
  <2>3. \A k \in x : n - k \in D
    OBVIOUS
  <2> HIDE DEF D
  <2> QED BY <1>1, <2>1, <2>2, <2>3
<1> HIDE DEF m
<1> QED BY <1>2 DEF Max

\* The largest of the first numbers is the last of them.
LEMMA MaxOfFirst ==
  ASSUME NEW n \in Nat, NEW x \in SUBSET (1..(n + 1)), n + 1 \in x
  PROVE  Max(x) = n + 1
<1>1. Max(x) \in x /\ \A k \in x : k <= Max(x)
  <2>1. n + 1 \in Nat /\ x # {}
    OBVIOUS
  <2> QED BY <2>1, MaxIsThere
<1>2. Max(x) <= n + 1 /\ n + 1 <= Max(x) /\ Max(x) \in Int
  <2>1. \A k \in x : k \in Int /\ k <= n + 1
    OBVIOUS
  <2> QED BY <1>1, <2>1
<1> QED BY <1>2

\* A function as the folds of the library define it, by what it is of smaller sets.
FoldsTo(f, op, base, s) ==
  /\ f[{}] = base
  /\ \A x \in SUBSET (1..Len(s)) :
       x # {} => f[x] = op[<<f[x \ {Max(x)}], s[Max(x)]>>]

\* There is one.
LEMMA FoldExists ==
  ASSUME NEW T, NEW Q, NEW op \in [T \X Q -> T], NEW base \in T, NEW s \in Seq(Q)
  PROVE  \E f \in [SUBSET (1..Len(s)) -> T] : FoldsTo(f, op, base, s)
<1> DEFINE Good(f, k) == \A x \in SUBSET (1..k) :
             f[x] = IF x = {} THEN base ELSE op[<<f[x \ {Max(x)}], s[Max(x)]>>]
           Has(k) == \E f \in [SUBSET (1..k) -> T] : Good(f, k)
           S == {k \in Nat : k <= Len(s) => Has(k)}
<1>1. 0 \in S
  <2> DEFINE f == [x \in SUBSET (1..0) |-> base]
  <2>1. 1..0 = {}
    OBVIOUS
  <2>2. f \in [SUBSET (1..0) -> T] /\ Good(f, 0)
    BY <2>1
  <2> QED BY <2>2
<1>2. ASSUME NEW k \in Nat, k + 1 <= Len(s), Has(k)
      PROVE  Has(k + 1)
  <2>1. PICK f \in [SUBSET (1..k) -> T] : Good(f, k)
    BY <1>2
  <2> DEFINE g == [x \in SUBSET (1..(k + 1)) |->
                     IF k + 1 \in x THEN op[<<f[x \ {k + 1}], s[k + 1]>>] ELSE f[x]]
  <2>2. \A x \in SUBSET (1..(k + 1)) : /\ x \ {k + 1} \in SUBSET (1..k)
                                      /\ k + 1 \notin x => x \in SUBSET (1..k)
    OBVIOUS
  <2>3. \A x \in SUBSET (1..k) : k + 1 \notin x /\ x \in SUBSET (1..(k + 1))
    OBVIOUS
  <2>4. g \in [SUBSET (1..(k + 1)) -> T]
    <3>1. s[k + 1] \in Q
      BY <1>2, ElementOfSeq
    <3> QED BY <2>2, <3>1
  <2>5. ASSUME NEW x \in SUBSET (1..(k + 1))
        PROVE  g[x] = IF x = {} THEN base ELSE op[<<g[x \ {Max(x)}], s[Max(x)]>>]
    <3>1. CASE k + 1 \in x
      <4>1. Max(x) = k + 1
        BY <3>1, MaxOfFirst
      <4>2. g[x \ {k + 1}] = f[x \ {k + 1}]
        BY <2>2, <2>3
      <4> QED BY <3>1, <4>1, <4>2
    <3>2. CASE k + 1 \notin x
      <4>1. x \in SUBSET (1..k) /\ g[x] = f[x]
        BY <2>2, <3>2
      <4>2. CASE x = {}
        BY <2>1, <4>1, <4>2
      <4>3. CASE x # {}
        <5>1. x \ {Max(x)} \in SUBSET (1..k)
          BY <4>1
        <5>2. g[x \ {Max(x)}] = f[x \ {Max(x)}]
          BY <2>3, <5>1
        <5> QED BY <2>1, <4>1, <4>3, <5>2
      <4> QED BY <4>2, <4>3
    <3> QED BY <3>1, <3>2
  <2>6. Good(g, k + 1)
    BY <2>5
  <2> HIDE DEF Good, g
  <2> QED BY <2>4, <2>6
<1>3. Len(s) \in S
  <2> HIDE DEF Has
  <2>1. S \in SUBSET Nat /\ Len(s) \in Nat
    OBVIOUS
  <2>2. ASSUME NEW k \in S PROVE k + 1 \in S
    <3>1. k \in Nat /\ (k <= Len(s) => Has(k))
      OBVIOUS
    <3>2. k + 1 <= Len(s) => Has(k + 1)
      BY <1>2, <2>1, <3>1
    <3> QED BY <3>1, <3>2
  <2> HIDE DEF S
  <2> QED BY <1>1, <2>1, <2>2, Counting
<1>4. PICK f \in [SUBSET (1..Len(s)) -> T] : Good(f, Len(s))
  <2>1. Has(Len(s))
    <3> HIDE DEF Has
    <3>1. Len(s) <= Len(s)
      OBVIOUS
    <3> QED BY <1>3, <3>1
  <2> QED BY <2>1
<1> QED
  <2>1. f[{}] = base
    BY <1>4
  <2> QED BY <1>4, <2>1 DEF FoldsTo

\* The same where what it is of smaller sets is known to be in T.
FoldsWithin(f, T, op, base, s) ==
  /\ f[{}] = base
  /\ \A x \in SUBSET (1..Len(s)) :
       x # {} /\ f[x \ {Max(x)}] \in T => f[x] = op[<<f[x \ {Max(x)}], s[Max(x)]>>]

\* f is such a function for s, and g one for s with one more element, c.
FoldsOn(f, g, T, Q, op, base, s, c) ==
  /\ op \in [T \X Q -> T] /\ base \in T /\ s \in Seq(Q) /\ c \in Q
  /\ FoldsWithin(f, T, op, base, s)
  /\ FoldsWithin(g, T, op, base, Append(s, c))

\* What a fold makes of a sequence with one more element.
LEMMA FoldOn ==
  ASSUME NEW T, NEW Q, NEW op, NEW base, NEW s, NEW c, NEW F, NEW G,
         FoldsOn(F, G, T, Q, op, base, s, c)
  PROVE  F[1..Len(s)] \in T /\ G[1..(Len(s) + 1)] = op[<<F[1..Len(s)], c>>]
<1> DEFINE n == Len(s)
           S == {k \in Nat : k <= n => F[1..k] \in T /\ G[1..k] = F[1..k]}
<1>1. PICK u : u = Append(s, c)
  OBVIOUS
<1>2. /\ op \in [T \X Q -> T] /\ base \in T /\ s \in Seq(Q) /\ c \in Q
      /\ FoldsWithin(F, T, op, base, s)
      /\ FoldsWithin(G, T, op, base, u)
  BY <1>1 DEF FoldsOn
<1>3. n \in Nat /\ n = Len(s) /\ u[n + 1] = c /\ Len(u) = n + 1
      /\ \A k \in 1..n : s[k] \in Q /\ u[k] = s[k]
  BY <1>1, <1>2
<1>4. /\ F[{}] = base
      /\ \A x \in SUBSET (1..n) :
           x # {} /\ F[x \ {Max(x)}] \in T => F[x] = op[<<F[x \ {Max(x)}], s[Max(x)]>>]
  BY <1>2 DEF FoldsWithin
<1>5. /\ G[{}] = base
      /\ \A x \in SUBSET (1..(n + 1)) :
           x # {} /\ G[x \ {Max(x)}] \in T => G[x] = op[<<G[x \ {Max(x)}], u[Max(x)]>>]
  BY <1>2, <1>3 DEF FoldsWithin
<1> HIDE DEF n
<1>6. ASSUME NEW k \in Nat, k + 1 <= n + 1
      PROVE  /\ 1..(k + 1) \in SUBSET (1..(n + 1)) /\ 1..(k + 1) # {}
             /\ (1..(k + 1)) \ {k + 1} = 1..k /\ Max(1..(k + 1)) = k + 1
  <2>1. /\ 1..(k + 1) \in SUBSET (1..(n + 1)) /\ (1..(k + 1)) \ {k + 1} = 1..k
        /\ k + 1 \in 1..(k + 1)
    BY <1>3, <1>6
  <2>2. Max(1..(k + 1)) = k + 1
    BY <2>1, MaxOfFirst
  <2> QED BY <2>1, <2>2
<1>7. 0 \in S
  <2>1. 1..0 = {}
    OBVIOUS
  <2> QED BY <1>2, <1>4, <1>5, <2>1
<1>8. ASSUME NEW k \in S, k + 1 <= n
      PROVE  F[1..(k + 1)] \in T /\ G[1..(k + 1)] = F[1..(k + 1)]
  <2>1. k \in Nat /\ k + 1 <= n + 1 /\ F[1..k] \in T /\ G[1..k] = F[1..k] /\ k + 1 \in 1..n
    BY <1>3, <1>8
  <2> HIDE DEF S
  <2>2. /\ 1..(k + 1) \in SUBSET (1..(n + 1)) /\ 1..(k + 1) # {}
        /\ (1..(k + 1)) \ {k + 1} = 1..k /\ Max(1..(k + 1)) = k + 1
    BY <1>6, <2>1
  <2>3. 1..(k + 1) \in SUBSET (1..n)
    BY <2>1, <1>3
  <2>4. PICK x : x = 1..(k + 1)
    OBVIOUS
  <2>5. x \in SUBSET (1..(n + 1)) /\ x \in SUBSET (1..n) /\ x # {} /\ x \ {Max(x)} = 1..k
        /\ Max(x) = k + 1
    BY <2>2, <2>3, <2>4
  <2>6. F[x] = op[<<F[1..k], s[k + 1]>>]
    BY <1>4, <2>1, <2>5
  <2>7. G[x] = op[<<F[1..k], s[k + 1]>>]
    <3>1. G[x \ {Max(x)}] \in T
      BY <2>1, <2>5
    <3>2. G[x] = op[<<G[x \ {Max(x)}], u[Max(x)]>>]
      BY <1>5, <2>5, <3>1
    <3> QED BY <1>3, <2>1, <2>5, <3>2
  <2> QED BY <1>2, <1>3, <2>1, <2>4, <2>6, <2>7
<1>9. S = Nat
  <2>1. S \in SUBSET Nat /\ \A k \in S : k + 1 \in S
    BY <1>8
  <2> HIDE DEF S
  <2> QED BY <1>7, <2>1, Counting
<1>10. F[1..n] \in T /\ G[1..n] = F[1..n]
  BY <1>3, <1>9
<1>11. G[1..(n + 1)] = op[<<F[1..n], c>>]
  <2>1. PICK x : x = 1..(n + 1)
    OBVIOUS
  <2>2. x \in SUBSET (1..(n + 1)) /\ x # {} /\ x \ {Max(x)} = 1..n /\ Max(x) = n + 1
    BY <1>3, <1>6, <2>1
  <2>3. G[x \ {Max(x)}] \in T
    BY <1>10, <2>2
  <2>4. G[x] = op[<<G[x \ {Max(x)}], u[Max(x)]>>]
    BY <1>5, <2>2, <2>3
  <2>5. G[x] = op[<<F[1..n], c>>]
    BY <1>3, <1>10, <2>2, <2>4
  <2> QED BY <2>1, <2>5
<1> QED BY <1>3, <1>10, <1>11

-----------------------------------------------------------------------------
(* Amounts.                                                                *)

\* A single number is the least of itself.
LEMMA MinOfOne == \A n \in Nat : Min({n}) = n /\ Cardinality({n}) = 1
<1> TAKE n \in Nat
<1>1. {n} \in SUBSET Nat /\ {n} # {}
  OBVIOUS
<1>2. Min({n}) \in {n}
  BY <1>1, MinIsThere
<1> QED BY <1>2, FS_Singleton

\* The runs of a figure, and the digits that fit in the short ones.
Runs(parts) ==
  /\ parts \in Seq(Part) /\ parts # <<>>
  /\ \A k \in 1..Len(parts) : parts[k].width <= 3 => parts[k].value <= 999

\* Where the point of a usual figure stands, if there is one.
LEMMA PointOfRegular ==
  ASSUME NEW parts, Runs(parts), Regular(parts), Separated(parts, "point") # {}
  PROVE  LET n == Len(parts) IN
         /\ n \in Nat /\ n >= 2 /\ Separated(parts, "point") = {n} /\ parts[n].width <= 2
         /\ n > 2 => parts[1].width <= 3
         /\ \A k \in 2..(n - 1) : parts[k].width = 3
<1>1. PICK n : n = Len(parts)
  OBVIOUS
<1>2. n \in Nat
  BY <1>1 DEF Runs
<1>3. PICK P : P = Separated(parts, "point")
  OBVIOUS
<1>4. P \subseteq 2..n /\ P \subseteq {n} /\ P # {}
  BY <1>1, <1>3 DEF Regular, Separated
<1>5. P = {n} /\ n >= 2 /\ Cardinality(P) = 1
  <2>1. P = {n}
    BY <1>4
  <2>2. n \in 2..n
    BY <1>4, <2>1
  <2> QED BY <1>2, <2>1, <2>2, MinOfOne
<1>6. PICK groups : groups = n - Cardinality(P)
  OBVIOUS
<1>7. /\ groups < n => parts[n].width <= 2
      /\ groups > 1 => parts[1].width <= 3 /\ \A k \in 2..groups : parts[k].width = 3
  BY <1>1, <1>3, <1>6 DEF Regular
<1>8. groups = n - 1
  BY <1>5, <1>6
<1> QED BY <1>1, <1>2, <1>3, <1>5, <1>7, <1>8

\* The regular expression matches a usual figure with cents whole.
LEMMA RegularIsMatched ==
  ASSUME NEW parts, Runs(parts), Regular(parts), Separated(parts, "point") # {}
  PROVE  AmountIn(parts) = PrintedNumber(parts)
<1>1. PICK n : n = Len(parts)
  OBVIOUS
<1>2. /\ n \in Nat /\ n >= 2 /\ Separated(parts, "point") = {n} /\ parts[n].width <= 2
      /\ n > 2 => parts[1].width <= 3
      /\ \A k \in 2..(n - 1) : parts[k].width = 3
      /\ parts \in Seq(Part) /\ \A k \in 1..n : parts[k] \in Part
  BY <1>1, PointOfRegular, ElementOfSeq DEF Runs
<1>3. Min(Separated(parts, "point")) = n
  BY <1>2, MinOfOne
<1>4. GroupsFrom(parts, n - 1) = 1
  <2> DEFINE G == {j \in 1..(n - 1) : \A i \in (j + 1)..(n - 1) : parts[i].width = 3}
  <2>1. 1 \in G
    BY <1>2
  <2>2. G \in SUBSET Nat /\ \A j \in G : 1 <= j
    OBVIOUS
  <2>3. GroupsFrom(parts, n - 1) = Min(G)
    BY DEF GroupsFrom
  <2> HIDE DEF G
  <2>4. Min(G) \in G /\ Min(G) <= 1
    BY <2>1, <2>2, MinIsThere
  <2>5. Min(G) \in Nat /\ 1 <= Min(G)
    BY <2>2, <2>4
  <2> QED BY <2>3, <2>4, <2>5
<1>5. HeadDigits(parts[1], 1 < n - 1) = parts[1]
  <2>1. CASE n > 2
    <3>1. parts[1] \in Part /\ parts[1].width <= 3
      BY <1>2, <2>1
    <3>2. parts[1].value <= 999
      BY <1>1, <1>2, <3>1 DEF Runs
    <3>3. parts[1].value \in Nat /\ parts[1].value % 1000 = parts[1].value
      BY <3>1, <3>2 DEF Part
    <3>4. [parts[1] EXCEPT !.value = parts[1].value % 1000] = parts[1]
      BY <3>1, <3>3 DEF Part
    <3> QED BY <3>4 DEF HeadDigits
  <2>2. CASE ~(n > 2)
    BY <1>2, <2>2 DEF HeadDigits
  <2> QED BY <2>1, <2>2
<1>6. Cents(parts[n]) = parts[n]
  BY <1>2 DEF Cents
<1>7. <<parts[1]>> \o SubSeq(parts, 2, n - 1) \o <<parts[n]>> = parts
  <2>1. PICK m : m = SubSeq(parts, 2, n - 1)
    OBVIOUS
  <2>2. m \in Seq(Part) /\ Len(m) = n - 2 /\ \A i \in 1..(n - 2) : m[i] = parts[i + 1]
    <3>1. 2 \in Int /\ n - 1 \in Int /\ \A i \in 2..(n - 1) : parts[i] \in Part
      BY <1>2
    <3>2. /\ m \in Seq(Part) /\ Len(m) = IF 2 <= n - 1 THEN (n - 1) - 2 + 1 ELSE 0
          /\ \A i \in 1..((n - 1) - 2 + 1) : m[i] = parts[2 + i - 1]
      BY <2>1, <3>1, SubSeqProperties
    <3>3. (n - 1) - 2 + 1 = n - 2 /\ (~(2 <= n - 1) => n - 2 = 0)
          /\ \A i \in 1..(n - 2) : 2 + i - 1 = i + 1
      BY <1>2
    <3> QED BY <3>2, <3>3
  <2>3. PICK h, l : h = <<parts[1]>> /\ l = <<parts[n]>>
    OBVIOUS
  <2>4. /\ h \in Seq(Part) /\ Len(h) = 1 /\ h[1] = parts[1]
        /\ l \in Seq(Part) /\ Len(l) = 1 /\ l[1] = parts[n]
    BY <1>2, <2>3
  <2>5. PICK u : u = h \o m
    OBVIOUS
  <2>6. /\ u \in Seq(Part) /\ Len(u) = n - 1
        /\ \A i \in 1..(n - 1) : u[i] = parts[i]
    <3>1. /\ u \in Seq(Part) /\ Len(u) = Len(h) + Len(m)
          /\ \A i \in 1..(Len(h) + Len(m)) :
               u[i] = IF i <= Len(h) THEN h[i] ELSE m[i - Len(h)]
      <4>1. h \in Seq(Part) /\ m \in Seq(Part)
        BY <2>2, <2>4
      <4>2. /\ h \o m \in Seq(Part) /\ Len(h \o m) = Len(h) + Len(m)
            /\ \A i \in 1..(Len(h) + Len(m)) :
                 (h \o m)[i] = IF i <= Len(h) THEN h[i] ELSE m[i - Len(h)]
        BY <4>1, ConcatProperties
      <4> QED BY <2>5, <4>2
    <3>2. ASSUME NEW i \in 1..(n - 1) PROVE u[i] = parts[i]
      <4>1. u[i] = IF i <= 1 THEN h[i] ELSE m[i - 1]
        BY <1>2, <2>2, <2>4, <3>1
      <4>2. i # 1 => i - 1 \in 1..(n - 2) /\ (i - 1) + 1 = i
        BY <1>2
      <4> QED BY <2>2, <2>4, <4>1, <4>2
    <3> QED BY <1>2, <2>2, <2>4, <3>1, <3>2
  <2>7. PICK v : v = u \o l
    OBVIOUS
  <2>8. v \in Seq(Part) /\ Len(v) = n /\ \A i \in 1..n : v[i] = parts[i]
    <3>1. /\ v \in Seq(Part) /\ Len(v) = Len(u) + Len(l)
          /\ \A i \in 1..(Len(u) + Len(l)) :
               v[i] = IF i <= Len(u) THEN u[i] ELSE l[i - Len(u)]
      BY <2>4, <2>6, <2>7, ConcatProperties
    <3>2. ASSUME NEW i \in 1..n PROVE v[i] = parts[i]
      <4>1. v[i] = IF i <= n - 1 THEN u[i] ELSE l[i - (n - 1)]
        BY <1>2, <2>4, <2>6, <3>1
      <4>2. IF i <= n - 1 THEN i \in 1..(n - 1) ELSE i = n /\ i - (n - 1) = 1
        BY <1>2
      <4> QED BY <2>4, <2>6, <4>1, <4>2
    <3> QED BY <1>2, <2>4, <2>6, <3>1, <3>2
  <2>9. v = parts
    BY <1>1, <1>2, <2>8, SeqEqual
  <2> QED BY <2>1, <2>3, <2>5, <2>7, <2>9
<1>8. AmountIn(parts) = Decimal(Joined(parts), parts[n].width)
  <2>1. 1 + 1 = 2
    OBVIOUS
  <2> QED BY <1>2, <1>3, <1>4, <1>5, <1>6, <1>7, <2>1 DEF AmountIn
<1>9. PrintedNumber(parts) = Decimal(Joined(parts), parts[n].width)
  BY <1>1, <1>2 DEF PrintedNumber
<1> QED BY <1>8, <1>9

\* One run is as wide as it is.
LEMMA WidthOfOne ==
  ASSUME NEW p, p.width \in Nat
  PROVE  Width(<<p>>) = p.width
<1> DEFINE D == SUBSET (1..1)
           Is(f) == f = [x \in D |-> IF x = {} THEN 0
                                    ELSE AddWidth(f[x \ {Max(x)}], <<p>>[Max(x)])]
           F == CHOOSE f : Is(f)
           g == [x \in D |-> IF x = {} THEN 0 ELSE p.width]
<1>1. DOMAIN <<p>> = 1..1
  OBVIOUS
<1>2. Width(<<p>>) = F[1..1]
  BY <1>1 DEF Width, FoldLeft, MapThenFoldSet
<1>3. {} \in D /\ 1..1 \in D /\ 1..1 # {} /\ (1..1) \ {1} = {} /\ \A x \in D : x # {} => x = 1..1
  <2>1. 1..1 = {1}
    OBVIOUS
  <2> QED BY <2>1
<1>4. Max(1..1) = 1
  <2>1. 0 \in Nat /\ 0 + 1 = 1 /\ 1 \in 1..1
    OBVIOUS
  <2> QED BY <2>1, MaxOfFirst
<1>5. Is(g)
  <2>1. ASSUME NEW x \in D
        PROVE  g[x] = IF x = {} THEN 0 ELSE AddWidth(g[x \ {Max(x)}], <<p>>[Max(x)])
    <3>1. CASE x = {}
      BY <3>1
    <3>2. CASE x # {}
      <4>1. x = 1..1 /\ x \ {Max(x)} = {} /\ Max(x) = 1
        BY <1>3, <1>4, <3>2
      <4>2. g[x] = p.width /\ g[{}] = 0 /\ <<p>>[1] = p
        BY <1>3, <3>2
      <4> QED BY <3>2, <4>1, <4>2 DEF AddWidth
    <3> QED BY <3>1, <3>2
  <2> QED BY <2>1
<1>6. Is(F)
  <2> HIDE DEF Is
  <2> QED BY <1>5
<1> HIDE DEF F
<1>7. F[{}] = 0
  BY <1>3, <1>6
<1>8. F[1..1] = AddWidth(F[{}], p)
  <2>1. F[1..1] = AddWidth(F[(1..1) \ {Max(1..1)}], <<p>>[Max(1..1)])
    <3>1. \A x \in D : F[x] = IF x = {} THEN 0
                                ELSE AddWidth(F[x \ {Max(x)}], <<p>>[Max(x)])
      BY <1>6
    <3> HIDE DEF Is, D
    <3> QED BY <1>3, <3>1
  <2> QED BY <1>3, <1>4, <2>1
<1> QED BY <1>2, <1>7, <1>8 DEF AddWidth

\* The Python service reads a usual figure as it is printed, if it has a point or
\* no commas.
LEMMA RegularIsNormalized ==
  ASSUME NEW parts, Runs(parts), Regular(parts),
         Separated(parts, "comma") = {} \/ Separated(parts, "point") # {}
  PROVE  NormalizeAmount(parts) = PrintedNumber(parts)
<1>1. CASE Separated(parts, "point") = {}
  <2>1. Points(parts) = {}
    BY <1>1 DEF Points
  <2>2. Cardinality(Points(parts)) # 1
    BY <2>1, FS_EmptySet
  <2> QED BY <1>1, <2>1, <2>2 DEF NormalizeAmount, PrintedNumber
<1>2. CASE Separated(parts, "point") # {}
  <2>1. PICK n : n = Len(parts)
    OBVIOUS
  <2>2. n \in Nat /\ n >= 2 /\ Points(parts) = {n} /\ parts[n] \in Part
    BY <1>2, <2>1, PointOfRegular, ElementOfSeq DEF Points, Runs
  <2>3. Min(Points(parts)) = n /\ Cardinality(Points(parts)) = 1
    BY <2>2, MinOfOne
  <2>4. SubSeq(parts, n, n) = <<parts[n]>>
    <3>1. n \in Int /\ n - n + 1 = 1 /\ n + 1 - 1 = n /\ \A i \in n..n : parts[i] \in Part
      BY <2>2
    <3>2. PICK u, v : u = SubSeq(parts, n, n) /\ v = <<parts[n]>>
      OBVIOUS
    <3>3. u \in Seq(Part) /\ Len(u) = 1 /\ \A i \in 1..1 : u[i] = parts[n + i - 1]
      BY <3>1, <3>2, SubSeqProperties
    <3>4. v \in Seq(Part) /\ Len(v) = 1 /\ v[1] = parts[n]
      BY <2>2, <3>2
    <3>5. u = v
      BY <3>1, <3>3, <3>4, SeqEqual
    <3> QED BY <3>2, <3>5
  <2>5. Width(SubSeq(parts, n, n)) = parts[n].width
    BY <2>2, <2>4, WidthOfOne DEF Part
  <2> QED BY <1>2, <2>1, <2>2, <2>3, <2>5 DEF NormalizeAmount, PrintedNumber
<1> QED BY <1>1, <1>2

\* Without dates between points, the tokens with an amount are the figures with cents.
LEMMA AmountsAreFigures ==
  ASSUME NEW tok \in Tokens, ~DottedDate(tok)
  PROVE  AmountIn(Figures(tok)) # Null
           <=> tok.kind = "figure" /\ Separated(tok.parts, "point") # {}
<1>1. \A parts : AmountIn(parts) # Null <=> Separated(parts, "point") # {}
  <2>1. \A n, s : Decimal(n, s) # Null
    BY DEF Decimal, Null
  <2> QED BY <2>1 DEF AmountIn
<1>2. Separated(<<>>, "point") = {}
  <2>1. 2..Len(<<>>) = {}
    OBVIOUS
  <2> QED BY <2>1 DEF Separated
<1>3. tok.kind = "figure" => Figures(tok) = tok.parts
  BY DEF Figures
<1>4. tok.kind # "figure" => Figures(tok) = <<>>
  BY DEF Figures, DottedDate
<1> QED BY <1>1, <1>2, <1>3, <1>4

\* The runs of every figure of a text.
LEMMA FiguresAreRuns ==
  ASSUME NEW tok \in Tokens, tok.kind = "figure"
  PROVE  Runs(tok.parts)
<1>1. tok.parts \in Seq(Part)
  BY TextAssumption DEF Token
<1> QED BY <1>1, TextAssumption DEF Runs

\* Where figures are grouped as usual the amount is the number that is printed,
\* whole: no group is lost and no cents.
THEOREM AmountIsAsPrinted == TextSpec => []AmountIsPrinted
<1>1. TextInv => AmountIsPrinted
  <2> SUFFICES ASSUME TextInv,
                      \A i \in 1..Len(lines) : lines[i].kind = "figure" => Regular(lines[i].parts),
                      \A i \in 1..Len(lines) : ~DottedDate(lines[i]),
                      NEW withCents,
                      withCents = {i \in 1..Len(lines) : /\ lines[i].kind = "figure"
                                                        /\ Separated(lines[i].parts, "point") # {}}
               PROVE  amount = IF withCents = {} THEN Null
                               ELSE PrintedNumber(lines[Min(withCents)].parts)
    BY DEF AmountIsPrinted
  <2>1. amount = ExtractAmount(lines) /\ \A i \in 1..Len(lines) : lines[i] \in Tokens
    BY ElementOfSeq DEF TextInv
  <2>2. Amounts(lines) = withCents
    BY <2>1, AmountsAreFigures DEF Amounts
  <2>3. CASE withCents = {}
    BY <2>1, <2>2, <2>3 DEF ExtractAmount
  <2>4. CASE withCents # {}
    <3>1. PICK i : i = Min(withCents)
      OBVIOUS
    <3>2. i \in withCents
      <4>1. withCents \in SUBSET Nat
        OBVIOUS
      <4> QED BY <2>4, <3>1, <4>1, MinIsThere
    <3>3. /\ i \in 1..Len(lines) /\ lines[i].kind = "figure" /\ Regular(lines[i].parts)
          /\ Separated(lines[i].parts, "point") # {} /\ Runs(lines[i].parts)
      BY <2>1, <3>2, FiguresAreRuns
    <3>4. Figures(lines[i]) = lines[i].parts
      BY <3>3 DEF Figures
    <3>5. amount = AmountIn(lines[i].parts)
      BY <2>1, <2>2, <2>4, <3>1, <3>4 DEF ExtractAmount, FirstAmount
    <3> QED BY <2>4, <3>1, <3>3, <3>5, RegularIsMatched
  <2> QED BY <2>3, <2>4
<1> QED BY <1>1, TextInvariant, PTL

\* Both programs read a usual figure alike, unless it has commas and no cents.
THEOREM ProgramsAgreeOnAmounts == TextSpec => []AmountsAgree
<1>1. TextInv => AmountsAgree
  <2> SUFFICES ASSUME TextInv, NEW i \in 1..Len(lines), NEW parts, parts = lines[i].parts,
                      lines[i].kind = "figure", Regular(parts),
                      Separated(parts, "comma") = {} \/ Separated(parts, "point") # {}
               PROVE  /\ NormalizeAmount(parts) = PrintedNumber(parts)
                      /\ AmountIn(parts) \in {Null, PrintedNumber(parts)}
    BY DEF AmountsAgree
  <2>1. Runs(parts)
    BY ElementOfSeq, FiguresAreRuns DEF TextInv
  <2>2. AmountIn(parts) \in {Null, PrintedNumber(parts)}
    BY <2>1, RegularIsMatched DEF AmountIn
  <2> QED BY <2>1, <2>2, RegularIsNormalized
<1> QED BY <1>1, TextInvariant, PTL

-----------------------------------------------------------------------------
(* The reader of json.loads and the scanner, symbol by symbol.             *)

\* What json.loads may be in, and with how many braces open.
Expected ==
  {"object", "firstKey", "key", "restOfKey", "escapedInKey", "colon", "value",
   "restOfText", "escapedInText", "comma", "end", "failure"}

Readers == [expects : Expected, depth : Int]

\* Reading goes on from what has been read.
LEMMA ReadCloses == \A c : \A r \in Readers : Read(r, c) \in Readers
<1>1. \A e \in Expected, d \in Int : Reader(e, d) \in Readers
  BY DEF Reader, Readers
<1>2. /\ Failed \in Readers /\ \A d \in Int : Closed(d) \in Readers
      /\ \A d \in Int :
           {Reader("firstKey", 1), Reader("firstKey", d + 1), Reader("key", d),
            Reader("restOfKey", d), Reader("escapedInKey", d), Reader("colon", d),
            Reader("value", d), Reader("restOfText", d), Reader("escapedInText", d),
            Reader("comma", d)} \subseteq Readers
  BY <1>1 DEF Failed, Closed, Expected
<1>3. \A r \in Readers : r.depth \in Int
  BY DEF Readers
<1> SUFFICES ASSUME NEW r \in Readers, NEW c PROVE Read(r, c) \in Readers
  OBVIOUS
<1> QED BY <1>2, <1>3 DEF Read

\* What it is in after a sequence.
ReadAll(s) == FoldLeft(Read, Reader("object", 0), s)

\* A sequence is read symbol by symbol.
LEMMA ReadOn ==
  /\ ReadAll(<<>>) = Reader("object", 0)
  /\ \A s \in Seq(Symbols) :
       /\ ReadAll(s) \in Readers
       /\ \A c \in Symbols : ReadAll(Append(s, c)) = Read(ReadAll(s), c)
<1> DEFINE b == Reader("object", 0)
           op == [p \in Readers \X Symbols |-> Read(p[1], p[2])]
           Is(f, s) == f = [x \in SUBSET (1..Len(s)) |->
                              IF x = {} THEN b ELSE Read(f[x \ {Max(x)}], s[Max(x)])]
           F(s) == CHOOSE f : Is(f, s)
<1>1. b \in Readers
  BY DEF Reader, Readers, Expected
<1>2. op \in [Readers \X Symbols -> Readers]
  BY ReadCloses
<1>3. \A r \in Readers, c \in Symbols : op[<<r, c>>] = Read(r, c)
  OBVIOUS
<1> HIDE DEF b, op
<1>4. ASSUME NEW s \in Seq(Symbols)
      PROVE  ReadAll(s) = F(s)[1..Len(s)]
  <2>1. DOMAIN s = 1..Len(s)
    OBVIOUS
  <2> QED BY <2>1 DEF ReadAll, FoldLeft, MapThenFoldSet, b
<1>5. ASSUME NEW s \in Seq(Symbols)
      PROVE  FoldsWithin(F(s), Readers, op, b, s)
  <2>1. Len(s) \in Nat
    OBVIOUS
  <2>2. \A x \in SUBSET (1..Len(s)) : x # {} => s[Max(x)] \in Symbols
    BY <2>1, MaxIsThere, ElementOfSeq
  <2>3. PICK f \in [SUBSET (1..Len(s)) -> Readers] : FoldsTo(f, op, b, s)
    BY <1>1, <1>2, FoldExists
  <2>4. \A x \in SUBSET (1..Len(s)) :
          f[x] = IF x = {} THEN b ELSE Read(f[x \ {Max(x)}], s[Max(x)])
    <3>1. \A x \in SUBSET (1..Len(s)) : f[x \ {Max(x)}] \in Readers
      OBVIOUS
    <3> QED BY <1>3, <2>2, <2>3, <3>1 DEF FoldsTo
  <2>5. Is(f, s)
    BY <2>4
  <2>6. Is(F(s), s)
    <3> HIDE DEF Is
    <3> QED BY <2>5
  <2>7. PICK g : g = F(s)
    OBVIOUS
  <2> HIDE DEF F
  <2>8. \A x \in SUBSET (1..Len(s)) :
          g[x] = IF x = {} THEN b ELSE Read(g[x \ {Max(x)}], s[Max(x)])
    BY <2>6, <2>7
  <2>9. g[{}] = b
    BY <2>8
  <2> HIDE DEF Is
  <2>10. \A x \in SUBSET (1..Len(s)) : x # {} /\ g[x \ {Max(x)}] \in Readers
                  => g[x] = op[<<g[x \ {Max(x)}], s[Max(x)]>>]
    BY <1>3, <2>2, <2>8
  <2> QED BY <2>7, <2>9, <2>10 DEF FoldsWithin
<1> HIDE DEF F
<1>6. ASSUME NEW s \in Seq(Symbols), NEW c \in Symbols
      PROVE  ReadAll(s) \in Readers /\ ReadAll(Append(s, c)) = Read(ReadAll(s), c)
  <2>1. Append(s, c) \in Seq(Symbols) /\ Len(Append(s, c)) = Len(s) + 1
    OBVIOUS
  <2>2. FoldsWithin(F(Append(s, c)), Readers, op, b, Append(s, c))
    BY <1>5, <2>1
  <2>3. FoldsWithin(F(s), Readers, op, b, s)
    BY <1>5
  <2>4. F(s)[1..Len(s)] \in Readers
        /\ F(Append(s, c))[1..(Len(s) + 1)] = op[<<F(s)[1..Len(s)], c>>]
    <3>1. PICK f, g : f = F(s) /\ g = F(Append(s, c))
      OBVIOUS
    <3>2. FoldsOn(f, g, Readers, Symbols, op, b, s, c)
      BY <1>1, <1>2, <2>2, <2>3, <3>1 DEF FoldsOn
    <3>3. f[1..Len(s)] \in Readers /\ g[1..(Len(s) + 1)] = op[<<f[1..Len(s)], c>>]
      BY <3>2, FoldOn
    <3> QED BY <3>1, <3>3
  <2> QED BY <1>3, <1>4, <2>1, <2>4
<1>7. ReadAll(<<>>) = b
  <2>1. <<>> \in Seq(Symbols) /\ 1..Len(<<>>) = {}
    OBVIOUS
  <2> QED BY <1>4, <1>5, <2>1 DEF FoldsWithin
<1>8. \A s \in Seq(Symbols) : ReadAll(s) \in Readers
  <2>1. "word" \in Symbols
    BY DEF Symbols
  <2> QED BY <1>6, <2>1
<1> QED BY <1>6, <1>7, <1>8 DEF b

\* What _find_balanced_json_object keeps.
Scanners == [depth : Int, inString : BOOLEAN, escaped : BOOLEAN]

\* The scanner goes on from where it is.
LEMMA ScanCloses == \A c : \A p \in Scanners : Scan(p, c) \in Scanners
<1> SUFFICES ASSUME NEW p \in Scanners, NEW c PROVE Scan(p, c) \in Scanners
  OBVIOUS
<1>1. /\ p.depth \in Int /\ p.inString \in BOOLEAN /\ p.escaped \in BOOLEAN
      /\ p = [depth |-> p.depth, inString |-> p.inString, escaped |-> p.escaped]
  BY DEF Scanners
<1>2. [p EXCEPT !.escaped = FALSE] \in Scanners /\ [p EXCEPT !.escaped = TRUE] \in Scanners
  BY <1>1 DEF Scanners
<1>3. [p EXCEPT !.inString = ~@] \in Scanners
  BY <1>1 DEF Scanners
<1>4. [p EXCEPT !.depth = @ + 1] \in Scanners /\ [p EXCEPT !.depth = @ - 1] \in Scanners
  BY <1>1 DEF Scanners
<1> QED BY <1>1, <1>2, <1>3, <1>4 DEF Scan

\* And scanned so.
LEMMA ScanOn ==
  /\ Scanned(<<>>) = [depth |-> 0, inString |-> FALSE, escaped |-> FALSE]
  /\ \A s \in Seq(Symbols) :
       /\ Scanned(s) \in Scanners
       /\ \A c \in Symbols : Scanned(Append(s, c)) = Scan(Scanned(s), c)
<1> DEFINE b == [depth |-> 0, inString |-> FALSE, escaped |-> FALSE]
           op == [p \in Scanners \X Symbols |-> Scan(p[1], p[2])]
           Is(f, s) == f = [x \in SUBSET (1..Len(s)) |->
                              IF x = {} THEN b ELSE Scan(f[x \ {Max(x)}], s[Max(x)])]
           F(s) == CHOOSE f : Is(f, s)
<1>1. b \in Scanners
  BY DEF Scanners
<1>2. op \in [Scanners \X Symbols -> Scanners]
  BY ScanCloses
<1>3. \A r \in Scanners, c \in Symbols : op[<<r, c>>] = Scan(r, c)
  OBVIOUS
<1> HIDE DEF b, op
<1>4. ASSUME NEW s \in Seq(Symbols)
      PROVE  Scanned(s) = F(s)[1..Len(s)]
  <2>1. DOMAIN s = 1..Len(s)
    OBVIOUS
  <2> QED BY <2>1 DEF Scanned, FoldLeft, MapThenFoldSet, b
<1>5. ASSUME NEW s \in Seq(Symbols)
      PROVE  FoldsWithin(F(s), Scanners, op, b, s)
  <2>1. Len(s) \in Nat
    OBVIOUS
  <2>2. \A x \in SUBSET (1..Len(s)) : x # {} => s[Max(x)] \in Symbols
    BY <2>1, MaxIsThere, ElementOfSeq
  <2>3. PICK f \in [SUBSET (1..Len(s)) -> Scanners] : FoldsTo(f, op, b, s)
    BY <1>1, <1>2, FoldExists
  <2>4. \A x \in SUBSET (1..Len(s)) :
          f[x] = IF x = {} THEN b ELSE Scan(f[x \ {Max(x)}], s[Max(x)])
    <3>1. \A x \in SUBSET (1..Len(s)) : f[x \ {Max(x)}] \in Scanners
      OBVIOUS
    <3> QED BY <1>3, <2>2, <2>3, <3>1 DEF FoldsTo
  <2>5. Is(f, s)
    BY <2>4
  <2>6. Is(F(s), s)
    <3> HIDE DEF Is
    <3> QED BY <2>5
  <2>7. PICK g : g = F(s)
    OBVIOUS
  <2> HIDE DEF F
  <2>8. \A x \in SUBSET (1..Len(s)) :
          g[x] = IF x = {} THEN b ELSE Scan(g[x \ {Max(x)}], s[Max(x)])
    BY <2>6, <2>7
  <2>9. g[{}] = b
    BY <2>8
  <2> HIDE DEF Is
  <2>10. \A x \in SUBSET (1..Len(s)) : x # {} /\ g[x \ {Max(x)}] \in Scanners
                  => g[x] = op[<<g[x \ {Max(x)}], s[Max(x)]>>]
    BY <1>3, <2>2, <2>8
  <2> QED BY <2>7, <2>9, <2>10 DEF FoldsWithin
<1> HIDE DEF F
<1>6. ASSUME NEW s \in Seq(Symbols), NEW c \in Symbols
      PROVE  Scanned(s) \in Scanners /\ Scanned(Append(s, c)) = Scan(Scanned(s), c)
  <2>1. Append(s, c) \in Seq(Symbols) /\ Len(Append(s, c)) = Len(s) + 1
    OBVIOUS
  <2>2. FoldsWithin(F(Append(s, c)), Scanners, op, b, Append(s, c))
    BY <1>5, <2>1
  <2>3. FoldsWithin(F(s), Scanners, op, b, s)
    BY <1>5
  <2>4. F(s)[1..Len(s)] \in Scanners
        /\ F(Append(s, c))[1..(Len(s) + 1)] = op[<<F(s)[1..Len(s)], c>>]
    <3>1. PICK f, g : f = F(s) /\ g = F(Append(s, c))
      OBVIOUS
    <3>2. FoldsOn(f, g, Scanners, Symbols, op, b, s, c)
      BY <1>1, <1>2, <2>2, <2>3, <3>1 DEF FoldsOn
    <3>3. f[1..Len(s)] \in Scanners /\ g[1..(Len(s) + 1)] = op[<<f[1..Len(s)], c>>]
      BY <3>2, FoldOn
    <3> QED BY <3>1, <3>3
  <2> QED BY <1>3, <1>4, <2>1, <2>4
<1>7. Scanned(<<>>) = b
  <2>1. <<>> \in Seq(Symbols) /\ 1..Len(<<>>) = {}
    OBVIOUS
  <2> QED BY <1>4, <1>5, <2>1 DEF FoldsWithin
<1>8. \A s \in Seq(Symbols) : Scanned(s) \in Scanners
  <2>1. "word" \in Symbols
    BY DEF Symbols
  <2> QED BY <1>6, <2>1
<1> QED BY <1>6, <1>7, <1>8 DEF b

\* What is left is a sequence still.
LEMMA DropCloses == \A t \in Seq(Symbols), c \in Symbols : DropFence(t, c) \in Seq(Symbols)
BY DEF DropFence

\* Fences are dropped one by one.
LEMMA DropOn ==
  /\ WithoutFences(<<>>) = <<>>
  /\ \A s \in Seq(Symbols) :
       /\ WithoutFences(s) \in Seq(Symbols)
       /\ \A c \in Symbols : WithoutFences(Append(s, c)) = DropFence(WithoutFences(s), c)
<1> DEFINE b == <<>>
           op == [p \in Seq(Symbols) \X Symbols |-> DropFence(p[1], p[2])]
           Is(f, s) == f = [x \in SUBSET (1..Len(s)) |->
                              IF x = {} THEN b ELSE DropFence(f[x \ {Max(x)}], s[Max(x)])]
           F(s) == CHOOSE f : Is(f, s)
<1>1. b \in Seq(Symbols)
  OBVIOUS
<1>2. op \in [Seq(Symbols) \X Symbols -> Seq(Symbols)]
  BY DropCloses
<1>3. \A r \in Seq(Symbols), c \in Symbols : op[<<r, c>>] = DropFence(r, c)
  OBVIOUS
<1> HIDE DEF b, op
<1>4. ASSUME NEW s \in Seq(Symbols)
      PROVE  WithoutFences(s) = F(s)[1..Len(s)]
  <2>1. DOMAIN s = 1..Len(s)
    OBVIOUS
  <2> QED BY <2>1 DEF WithoutFences, FoldLeft, MapThenFoldSet, b
<1>5. ASSUME NEW s \in Seq(Symbols)
      PROVE  FoldsWithin(F(s), Seq(Symbols), op, b, s)
  <2>1. Len(s) \in Nat
    OBVIOUS
  <2>2. \A x \in SUBSET (1..Len(s)) : x # {} => s[Max(x)] \in Symbols
    BY <2>1, MaxIsThere, ElementOfSeq
  <2>3. PICK f \in [SUBSET (1..Len(s)) -> Seq(Symbols)] : FoldsTo(f, op, b, s)
    BY <1>1, <1>2, FoldExists
  <2>4. \A x \in SUBSET (1..Len(s)) :
          f[x] = IF x = {} THEN b ELSE DropFence(f[x \ {Max(x)}], s[Max(x)])
    <3>1. \A x \in SUBSET (1..Len(s)) : f[x \ {Max(x)}] \in Seq(Symbols)
      OBVIOUS
    <3> QED BY <1>3, <2>2, <2>3, <3>1 DEF FoldsTo
  <2>5. Is(f, s)
    BY <2>4
  <2>6. Is(F(s), s)
    <3> HIDE DEF Is
    <3> QED BY <2>5
  <2>7. PICK g : g = F(s)
    OBVIOUS
  <2> HIDE DEF F
  <2>8. \A x \in SUBSET (1..Len(s)) :
          g[x] = IF x = {} THEN b ELSE DropFence(g[x \ {Max(x)}], s[Max(x)])
    BY <2>6, <2>7
  <2>9. g[{}] = b
    BY <2>8
  <2> HIDE DEF Is
  <2>10. \A x \in SUBSET (1..Len(s)) : x # {} /\ g[x \ {Max(x)}] \in Seq(Symbols)
                  => g[x] = op[<<g[x \ {Max(x)}], s[Max(x)]>>]
    BY <1>3, <2>2, <2>8
  <2> QED BY <2>7, <2>9, <2>10 DEF FoldsWithin
<1> HIDE DEF F
<1>6. ASSUME NEW s \in Seq(Symbols), NEW c \in Symbols
      PROVE  /\ WithoutFences(s) \in Seq(Symbols)
             /\ WithoutFences(Append(s, c)) = DropFence(WithoutFences(s), c)
  <2>1. Append(s, c) \in Seq(Symbols) /\ Len(Append(s, c)) = Len(s) + 1
    OBVIOUS
  <2>2. FoldsWithin(F(Append(s, c)), Seq(Symbols), op, b, Append(s, c))
    BY <1>5, <2>1
  <2>3. FoldsWithin(F(s), Seq(Symbols), op, b, s)
    BY <1>5
  <2>4. F(s)[1..Len(s)] \in Seq(Symbols)
        /\ F(Append(s, c))[1..(Len(s) + 1)] = op[<<F(s)[1..Len(s)], c>>]
    <3>1. PICK f, g : f = F(s) /\ g = F(Append(s, c))
      OBVIOUS
    <3>2. FoldsOn(f, g, Seq(Symbols), Symbols, op, b, s, c)
      BY <1>1, <1>2, <2>2, <2>3, <3>1 DEF FoldsOn
    <3>3. f[1..Len(s)] \in Seq(Symbols) /\ g[1..(Len(s) + 1)] = op[<<f[1..Len(s)], c>>]
      BY <3>2, FoldOn
    <3> QED BY <3>1, <3>3
  <2> QED BY <1>3, <1>4, <2>1, <2>4
<1>7. WithoutFences(<<>>) = b
  <2>1. <<>> \in Seq(Symbols) /\ 1..Len(<<>>) = {}
    OBVIOUS
  <2> QED BY <1>4, <1>5, <2>1 DEF FoldsWithin
<1>8. \A s \in Seq(Symbols) : WithoutFences(s) \in Seq(Symbols)
  <2>1. "word" \in Symbols
    BY DEF Symbols
  <2> QED BY <1>6, <2>1
<1> QED BY <1>6, <1>7, <1>8 DEF b

-----------------------------------------------------------------------------
(* What json.loads accepts, _find_balanced_json_object takes whole.        *)

\* Within quotes, and behind a backslash there.
Open == {"restOfKey", "escapedInKey", "restOfText", "escapedInText"}
Escaping == {"escapedInKey", "escapedInText"}

\* As long as there is no failure the scanner knows what the reader is in.
Follows(p, r) ==
  r.expects # "failure" =>
    /\ p.depth = r.depth
    /\ (p.inString <=> r.expects \in Open)
    /\ (p.escaped <=> r.expects \in Escaping)
    /\ r.expects \in {"object", "end"} => r.depth = 0
    /\ r.expects \notin {"object", "end"} => r.depth >= 1

\* What the scanner is in after one symbol.
LEMMA ScanIs ==
  ASSUME NEW p \in Scanners, NEW c
  PROVE  LET q == Scan(p, c) IN
         /\ p.escaped => q.depth = p.depth /\ (q.inString <=> p.inString) /\ ~q.escaped
         /\ ~p.escaped /\ p.inString =>
              /\ q.depth = p.depth
              /\ (q.inString <=> c # "quote")
              /\ (q.escaped <=> c = "backslash")
         /\ ~p.escaped /\ ~p.inString =>
              /\ ~q.escaped
              /\ (q.inString <=> c = "quote")
              /\ q.depth = IF c = "open" THEN p.depth + 1
                           ELSE IF c = "close" THEN p.depth - 1 ELSE p.depth
<1>1. /\ p.depth \in Int /\ p.inString \in BOOLEAN /\ p.escaped \in BOOLEAN
      /\ p = [depth |-> p.depth, inString |-> p.inString, escaped |-> p.escaped]
  BY DEF Scanners
<1>2. PICK q : q = Scan(p, c)
  OBVIOUS
<1>3. CASE p.escaped
  <2>1. q = [p EXCEPT !.escaped = FALSE]
    BY <1>2, <1>3 DEF Scan
  <2> QED BY <1>1, <1>2, <1>3, <2>1
<1>4. CASE ~p.escaped /\ p.inString
  <2>1. q = IF c = "backslash" THEN [p EXCEPT !.escaped = TRUE]
            ELSE IF c = "quote" THEN [p EXCEPT !.inString = ~@] ELSE p
    BY <1>2, <1>4 DEF Scan
  <2>2. CASE c = "backslash"
    BY <1>1, <1>2, <1>4, <2>1, <2>2
  <2>3. CASE c = "quote"
    BY <1>1, <1>2, <1>4, <2>1, <2>3
  <2>4. CASE c \notin {"backslash", "quote"}
    BY <1>1, <1>2, <1>4, <2>1, <2>4
  <2> QED BY <2>2, <2>3, <2>4
<1>5. CASE ~p.escaped /\ ~p.inString
  <2>1. q = IF c = "quote" THEN [p EXCEPT !.inString = ~@]
            ELSE IF c = "open" THEN [p EXCEPT !.depth = @ + 1]
            ELSE IF c = "close" THEN [p EXCEPT !.depth = @ - 1] ELSE p
    BY <1>2, <1>5 DEF Scan
  <2>2. CASE c = "quote"
    BY <1>1, <1>2, <1>5, <2>1, <2>2
  <2>3. CASE c = "open"
    BY <1>1, <1>2, <1>5, <2>1, <2>3
  <2>4. CASE c = "close"
    BY <1>1, <1>2, <1>5, <2>1, <2>4
  <2>5. CASE c \notin {"quote", "open", "close"}
    BY <1>1, <1>2, <1>5, <2>1, <2>5
  <2> QED BY <2>2, <2>3, <2>4, <2>5
<1> QED BY <1>1, <1>3, <1>4, <1>5

\* One symbol more, and it still knows.
LEMMA StepFollows ==
  ASSUME NEW r \in Readers, NEW p \in Scanners, NEW c \in Symbols, Follows(p, r)
  PROVE  Follows(Scan(p, c), Read(r, c))
<1> DEFINE q == Scan(p, c)
           e == Read(r, c)
<1>1. /\ r.expects \in Expected /\ r.depth \in Int /\ p.depth \in Int
      /\ p.inString \in BOOLEAN /\ p.escaped \in BOOLEAN
  BY DEF Readers, Scanners
<1>2. /\ p.escaped => q.depth = p.depth /\ (q.inString <=> p.inString) /\ ~q.escaped
      /\ ~p.escaped /\ p.inString =>
              /\ q.depth = p.depth
              /\ (q.inString <=> c # "quote")
              /\ (q.escaped <=> c = "backslash")
      /\ ~p.escaped /\ ~p.inString =>
              /\ ~q.escaped
              /\ (q.inString <=> c = "quote")
              /\ q.depth = IF c = "open" THEN p.depth + 1
                           ELSE IF c = "close" THEN p.depth - 1 ELSE p.depth
  BY ScanIs
<1>3. /\ \A x, d : Reader(x, d).expects = x /\ Reader(x, d).depth = d
      /\ Failed.expects = "failure"
      /\ Closed(r.depth).expects = IF r.depth = 1 THEN "end" ELSE "comma"
      /\ Closed(r.depth).depth = r.depth - 1
  BY <1>1 DEF Reader, Failed, Closed
<1> HIDE DEF q, e
<1>4. CASE r.expects \in {"object", "end", "failure"}
  <2>1. e = IF r.expects = "object" /\ c = "open" THEN Reader("firstKey", 1) ELSE Failed
    BY <1>4 DEF e, Read
  <2>2. Follows(q, e)
    BY <1>1, <1>2, <1>3, <1>4, <2>1 DEF Follows, Open, Escaping
  <2> QED BY <2>2 DEF q, e
<1>5. CASE r.expects \in {"firstKey", "key"}
  <2>1. e = IF r.expects = "firstKey" /\ c = "close" THEN Closed(r.depth)
            ELSE IF c = "quote" THEN Reader("restOfKey", r.depth) ELSE Failed
    BY <1>5 DEF e, Read
  <2>2. Follows(q, e)
    BY <1>1, <1>2, <1>3, <1>5, <2>1 DEF Follows, Open, Escaping
  <2> QED BY <2>2 DEF q, e
<1>6. CASE r.expects \in {"restOfKey", "restOfText"}
  <2>1. e = IF c = "quote"
            THEN Reader(IF r.expects = "restOfKey" THEN "colon" ELSE "comma", r.depth)
            ELSE IF c = "backslash"
            THEN Reader(IF r.expects = "restOfKey" THEN "escapedInKey" ELSE "escapedInText",
                        r.depth)
            ELSE r
    BY <1>6 DEF e, Read
  <2>2. Follows(q, e)
    BY <1>1, <1>2, <1>3, <1>6, <2>1 DEF Follows, Open, Escaping
  <2> QED BY <2>2 DEF q, e
<1>7. CASE r.expects \in Escaping
  <2>1. e = IF c \in {"quote", "backslash"}
            THEN Reader(IF r.expects = "escapedInKey" THEN "restOfKey" ELSE "restOfText", r.depth)
            ELSE Failed
    BY <1>7 DEF e, Read, Escaping
  <2>2. Follows(q, e)
    BY <1>1, <1>2, <1>3, <1>7, <2>1 DEF Follows, Open, Escaping
  <2> QED BY <2>2 DEF q, e
<1>8. CASE r.expects \in {"colon", "value"}
  <2>1. e = IF r.expects = "colon"
            THEN IF c = "colon" THEN Reader("value", r.depth) ELSE Failed
            ELSE IF c = "number" THEN Reader("comma", r.depth)
            ELSE IF c = "quote" THEN Reader("restOfText", r.depth)
            ELSE IF c = "open" THEN Reader("firstKey", r.depth + 1) ELSE Failed
    BY <1>8 DEF e, Read
  <2>2. Follows(q, e)
    BY <1>1, <1>2, <1>3, <1>8, <2>1 DEF Follows, Open, Escaping
  <2> QED BY <2>2 DEF q, e
<1>9. CASE r.expects = "comma"
  <2>1. e = IF c = "comma" THEN Reader("key", r.depth)
            ELSE IF c = "close" THEN Closed(r.depth) ELSE Failed
    BY <1>9 DEF e, Read
  <2>2. Follows(q, e)
    BY <1>1, <1>2, <1>3, <1>9, <2>1 DEF Follows, Open, Escaping
  <2> QED BY <2>2 DEF q, e
<1> QED BY <1>1, <1>4, <1>5, <1>6, <1>7, <1>8, <1>9 DEF Expected, Escaping

\* So it does all along a sequence.
LEMMA ScannerFollows == \A s \in Seq(Symbols) : Follows(Scanned(s), ReadAll(s))
<1> DEFINE S == {s \in Seq(Symbols) : Follows(Scanned(s), ReadAll(s))}
<1>1. <<>> \in S
  <2>1. <<>> \in Seq(Symbols)
    OBVIOUS
  <2>2. ReadAll(<<>>) = Reader("object", 0)
        /\ Scanned(<<>>) = [depth |-> 0, inString |-> FALSE, escaped |-> FALSE]
    BY ReadOn, ScanOn
  <2>3. Follows([depth |-> 0, inString |-> FALSE, escaped |-> FALSE], Reader("object", 0))
    BY DEF Follows, Reader, Open, Escaping
  <2> QED BY <2>1, <2>2, <2>3
<1>2. ASSUME NEW s \in S, NEW c \in Symbols
      PROVE  Append(s, c) \in S
  <2>1. s \in Seq(Symbols) /\ Append(s, c) \in Seq(Symbols) /\ Follows(Scanned(s), ReadAll(s))
    OBVIOUS
  <2>2. ReadAll(s) \in Readers /\ ReadAll(Append(s, c)) = Read(ReadAll(s), c)
    BY <2>1, ReadOn
  <2>3. Scanned(s) \in Scanners /\ Scanned(Append(s, c)) = Scan(Scanned(s), c)
    BY <2>1, ScanOn
  <2>4. Follows(Scanned(Append(s, c)), ReadAll(Append(s, c)))
    BY <2>1, <2>2, <2>3, StepFollows
  <2> QED BY <2>1, <2>4
<1>3. S = Seq(Symbols)
  <2>1. S \in SUBSET Seq(Symbols)
    OBVIOUS
  <2> HIDE DEF S
  <2> QED BY <1>1, <1>2, <2>1, Appending
<1> QED BY <1>3

\* After a failure and after the end of an object there is only failure.
LEMMA FailureStays ==
  ASSUME NEW s \in Seq(Symbols), NEW c \in Symbols, ReadAll(s).expects \in {"failure", "end"}
  PROVE  ReadAll(Append(s, c)) = Failed
<1>1. Read(ReadAll(s), c) = Failed
  BY DEF Read
<1> QED BY <1>1, ReadOn

\* The beginning of a sequence, one element longer.
LEMMA PrefixGrows ==
  ASSUME NEW Q, NEW s \in Seq(Q), NEW m \in 1..Len(s), NEW k \in (m - 1)..(Len(s) - 1)
  PROVE  /\ SubSeq(s, m, k + 1) = Append(SubSeq(s, m, k), s[k + 1])
         /\ SubSeq(s, m, k) \in Seq(Q) /\ s[k + 1] \in Q
<1>1. m \in Int /\ k \in Int /\ 1 <= m /\ m <= k + 1 /\ k + 1 <= Len(s) /\ Len(s) \in Nat
  OBVIOUS
<1>2. s[k + 1] \in Q
  BY <1>1, ElementOfSeq
<1>3. /\ SubSeq(s, m, k) \in Seq(Q) /\ Len(SubSeq(s, m, k)) = k - m + 1
      /\ \A i \in 1..(k - m + 1) : SubSeq(s, m, k)[i] = s[m + i - 1]
  BY <1>1, SubSeqProperties
<1>4. /\ SubSeq(s, m, k + 1) \in Seq(Q) /\ Len(SubSeq(s, m, k + 1)) = k - m + 2
      /\ \A i \in 1..(k - m + 2) : SubSeq(s, m, k + 1)[i] = s[m + i - 1]
  BY <1>1, SubSeqProperties
<1>5. PICK t, u : t = SubSeq(s, m, k) /\ u = SubSeq(s, m, k + 1)
  OBVIOUS
<1>6. /\ t \in Seq(Q) /\ Len(t) = k - m + 1 /\ \A i \in 1..(k - m + 1) : t[i] = s[m + i - 1]
      /\ u \in Seq(Q) /\ Len(u) = k - m + 2 /\ \A i \in 1..(k - m + 2) : u[i] = s[m + i - 1]
  BY <1>3, <1>4, <1>5
<1>7. /\ Append(t, s[k + 1]) \in Seq(Q) /\ Len(Append(t, s[k + 1])) = Len(t) + 1
      /\ Append(t, s[k + 1])[Len(t) + 1] = s[k + 1]
      /\ \A i \in 1..Len(t) : Append(t, s[k + 1])[i] = t[i]
  BY <1>2, <1>6, AppendProperties
<1>8. u = Append(t, s[k + 1])
  <2>1. PICK v : v = Append(t, s[k + 1])
    OBVIOUS
  <2>2. v \in Seq(Q) /\ Len(v) = k - m + 2 /\ \A i \in 1..(k - m + 2) : v[i] = s[m + i - 1]
    <3>1. Len(v) = k - m + 2 /\ v \in Seq(Q)
      BY <1>1, <1>6, <1>7, <2>1
    <3>2. ASSUME NEW i \in 1..(k - m + 2) PROVE v[i] = s[m + i - 1]
      <4>1. CASE i = k - m + 2
        <5>1. i = Len(t) + 1 /\ m + i - 1 = k + 1
          BY <1>1, <1>6, <4>1
        <5> QED BY <1>7, <2>1, <5>1
      <4>2. CASE i # k - m + 2
        <5>1. i \in 1..(k - m + 1) /\ i \in 1..Len(t)
          BY <1>1, <1>6, <4>2
        <5> QED BY <1>6, <1>7, <2>1, <5>1
      <4> QED BY <4>1, <4>2
    <3> QED BY <3>1, <3>2
  <2>3. u = v
    BY <1>6, <2>2, SeqEqual
  <2> QED BY <2>1, <2>3
<1> QED BY <1>2, <1>3, <1>5, <1>8

\* A part of one sequence that stands in another.
LEMMA SamePart ==
  ASSUME NEW Q, NEW s \in Seq(Q), NEW t \in Seq(Q), NEW b \in Nat, NEW k \in Nat,
         b + k <= Len(s), k <= Len(t), \A i \in 1..k : s[b + i] = t[i]
  PROVE  SubSeq(s, b + 1, b + k) = SubSeq(t, 1, k)
<1>1. PICK x, y : x = SubSeq(s, b + 1, b + k) /\ y = SubSeq(t, 1, k)
  OBVIOUS
<1>2. /\ x \in Seq(Q) /\ Len(x) = k /\ \A i \in 1..k : x[i] = s[b + i]
      /\ y \in Seq(Q) /\ Len(y) = k /\ \A i \in 1..k : y[i] = t[i]
  <2>1. CASE k = 0
    <3>1. x = <<>> /\ y = <<>>
      BY <1>1, <2>1, SubSeqProperties
    <3> QED BY <2>1, <3>1
  <2>2. CASE k # 0
    <3>1. /\ x \in Seq(Q) /\ Len(x) = (b + k) - (b + 1) + 1
          /\ \A i \in 1..((b + k) - (b + 1) + 1) : x[i] = s[(b + 1) + i - 1]
      <4>1. b + 1 \in Int /\ b + k \in Int /\ b + 1 <= b + k
        BY <2>2
      <4>2. \A i \in (b + 1)..(b + k) : s[i] \in Q
        BY ElementOfSeq
      <4>3. PICK m, n : m = b + 1 /\ n = b + k
        OBVIOUS
      <4>4. /\ SubSeq(s, m, n) \in Seq(Q)
            /\ Len(SubSeq(s, m, n)) = IF m <= n THEN n - m + 1 ELSE 0
            /\ \A i \in 1..(n - m + 1) : SubSeq(s, m, n)[i] = s[m + i - 1]
        BY <4>1, <4>2, <4>3, SubSeqProperties
      <4> QED BY <1>1, <4>1, <4>3, <4>4
    <3>2. /\ y \in Seq(Q) /\ Len(y) = k - 1 + 1
          /\ \A i \in 1..(k - 1 + 1) : y[i] = t[1 + i - 1]
      <4>1. Len(t) \in Nat /\ 1 \in 1..(Len(t) + 1) /\ k \in 0..Len(t)
        BY <2>2
      <4> QED BY <1>1, <4>1, SubSeqProperties
    <3>3. (b + k) - (b + 1) + 1 = k /\ k - 1 + 1 = k
          /\ \A i \in 1..k : (b + 1) + i - 1 = b + i /\ 1 + i - 1 = i
      OBVIOUS
    <3> QED BY <3>1, <3>2, <3>3
  <2> QED BY <2>1, <2>2
<1>3. x = y
  BY <1>2, SeqEqual
<1> QED BY <1>1, <1>3

\* What is read of an object before its end has no failure in it and is no object;
\* it begins with a brace and ends with one that is in no string.
LEMMA PartsOfAnObject ==
  ASSUME NEW a \in Seq(Symbols), IsObject(a)
  PROVE  /\ Len(a) >= 2 /\ a[1] = "open" /\ a[Len(a)] = "close"
         /\ SubSeq(a, 1, Len(a)) = a
         /\ \A k \in 1..(Len(a) - 1) :
              ReadAll(SubSeq(a, 1, k)).expects \notin {"object", "failure", "end"}
         /\ ReadAll(SubSeq(a, 1, Len(a) - 1)).expects \in {"firstKey", "comma"}
<1> DEFINE n == Len(a)
           at(k) == ReadAll(SubSeq(a, 1, k))
<1>1. n \in Nat /\ SubSeq(a, 1, n) = a
  BY SubSeqFull
<1>2. ReadAll(a).expects = "end"
  BY DEF IsObject, ReadAll
<1>3. at(n).expects = "end"
  BY <1>1, <1>2
<1>4. at(0) = Reader("object", 0)
  <2>1. SubSeq(a, 1, 0) = <<>>
    BY SubSeqEmpty
  <2> QED BY <2>1, ReadOn
<1>5. n # 0
  <2> HIDE DEF at, n
  <2>1. Reader("object", 0).expects # "end"
    BY DEF Reader
  <2> QED BY <1>3, <1>4, <2>1
<1>6. ASSUME NEW k \in 0..(n - 1)
      PROVE  /\ SubSeq(a, 1, k) \in Seq(Symbols) /\ at(k) \in Readers
             /\ a[k + 1] \in Symbols /\ at(k + 1) = Read(at(k), a[k + 1])
             /\ at(k).expects \in {"failure", "end"} => at(k + 1) = Failed
  <2>1. 1 \in 1..n /\ k \in (1 - 1)..(n - 1)
    BY <1>1, <1>5
  <2>2. /\ SubSeq(a, 1, k + 1) = Append(SubSeq(a, 1, k), a[k + 1])
        /\ SubSeq(a, 1, k) \in Seq(Symbols) /\ a[k + 1] \in Symbols
    BY <2>1, PrefixGrows
  <2> QED BY <2>2, ReadOn, FailureStays
<1> HIDE DEF at
<1>7. \A k \in 0..(n - 1) : at(k).expects \notin {"failure", "end"}
  <2> SUFFICES ASSUME NEW k \in 0..(n - 1), at(k).expects \in {"failure", "end"} PROVE FALSE
    OBVIOUS
  <2> DEFINE S == {j \in Nat : k + 1 + j <= n => at(k + 1 + j) = Failed}
  <2>1. 0 \in S
    <3>1. at(k + 1) = Failed /\ k + 1 + 0 = k + 1
      BY <1>6
    <3> QED BY <3>1
  <2>2. ASSUME NEW j \in S PROVE j + 1 \in S
    <3>1. CASE k + 1 + (j + 1) <= n
      <4>1. PICK i : i = k + 1 + j
        OBVIOUS
      <4>2. i \in 0..(n - 1) /\ at(i) = Failed /\ k + 1 + (j + 1) = i + 1
        BY <1>1, <3>1, <4>1
      <4>3. at(i + 1) = Failed
        BY <1>6, <4>2 DEF Failed, Reader
      <4> QED BY <4>2, <4>3
    <3> QED BY <3>1
  <2>3. S = Nat
    <3>1. S \in SUBSET Nat
      OBVIOUS
    <3> HIDE DEF S
    <3> QED BY <2>1, <2>2, <3>1, Counting
  <2>4. PICK j : j = n - k - 1
    OBVIOUS
  <2>5. j \in S /\ k + 1 + j = n
    <3> HIDE DEF S
    <3> QED BY <1>1, <2>3, <2>4
  <2>6. at(n) = Failed
    <3> HIDE DEF n
    <3>1. k + 1 + j <= n => at(k + 1 + j) = Failed
      BY <2>5
    <3>2. n <= n
      BY <1>1
    <3> QED BY <2>5, <3>1, <3>2
  <2> QED BY <1>3, <2>6 DEF Failed, Reader
<1>8. at(n) = Read(at(n - 1), a[n]) /\ n - 1 \in 0..(n - 1) /\ at(n).expects = "end"
  <2>1. n - 1 \in 0..(n - 1) /\ (n - 1) + 1 = n
    BY <1>1, <1>5
  <2> QED BY <1>3, <1>6, <2>1
<1>9. a[n] = "close" /\ at(n - 1).expects \in {"firstKey", "comma"}
  BY <1>8 DEF Read, Reader, Failed, Readers, Expected
<1>10. n >= 2
  <2>1. n = 1 => at(n - 1).expects = "object"
    BY <1>4 DEF Reader
  <2> QED BY <1>1, <1>5, <1>9, <2>1
<1>11. a[1] = "open" /\ at(1).expects = "firstKey"
  <2>1. at(1) = Read(Reader("object", 0), a[1]) /\ at(1).expects \notin {"failure", "end"}
    <3>1. 0 \in 0..(n - 1) /\ 1 \in 0..(n - 1) /\ 0 + 1 = 1
      BY <1>1, <1>10
    <3> QED BY <1>4, <1>6, <1>7, <3>1
  <2> QED BY <2>1 DEF Read, Reader, Failed
<1>12. \A k \in 1..(n - 1) : at(k).expects # "object"
  <2>1. \A c : \A r \in Readers : Read(r, c).expects # "object"
    BY DEF Read, Reader, Failed, Closed, Readers
  <2>2. ASSUME NEW k \in 1..(n - 1) PROVE at(k).expects # "object"
    <3>1. k - 1 \in 0..(n - 1) /\ (k - 1) + 1 = k
      BY <1>1
    <3> QED BY <1>6, <2>1, <3>1
  <2> QED BY <2>2
<1> QED BY <1>1, <1>7, <1>9, <1>10, <1>11, <1>12 DEF at

\* Dropping fences drops only what stands in texts and keys, for what is read
\* without a failure.
LEMMA DropKeepsReading ==
  \A s \in Seq(Symbols) :
    ReadAll(s).expects # "failure" => ReadAll(WithoutFences(s)) = ReadAll(s)
<1> DEFINE S == {s \in Seq(Symbols) :
                   ReadAll(s).expects # "failure" => ReadAll(WithoutFences(s)) = ReadAll(s)}
<1>1. <<>> \in S
  <2>1. <<>> \in Seq(Symbols)
    OBVIOUS
  <2> QED BY <2>1, DropOn
<1>2. ASSUME NEW s \in S, NEW c \in Symbols
      PROVE  Append(s, c) \in S
  <2>1. s \in Seq(Symbols) /\ Append(s, c) \in Seq(Symbols)
        /\ (ReadAll(s).expects # "failure" => ReadAll(WithoutFences(s)) = ReadAll(s))
    OBVIOUS
  <2> HIDE DEF S
  <2>2. ReadAll(s) \in Readers /\ ReadAll(Append(s, c)) = Read(ReadAll(s), c)
    BY <2>1, ReadOn
  <2>3. WithoutFences(s) \in Seq(Symbols)
        /\ WithoutFences(Append(s, c)) = DropFence(WithoutFences(s), c)
    BY <2>1, DropOn
  <2>4. ReadAll(Append(s, c)).expects # "failure" => ReadAll(s).expects # "failure"
    <3>1. ReadAll(s).expects = "failure" => ReadAll(Append(s, c)) = Failed
      BY <2>1, FailureStays
    <3> QED BY <3>1 DEF Failed, Reader
  <2>5. CASE c = "fence"
    <3>1. WithoutFences(Append(s, c)) = WithoutFences(s)
      BY <2>3, <2>5 DEF DropFence
    <3>2. ReadAll(Append(s, c)).expects # "failure" => ReadAll(Append(s, c)) = ReadAll(s)
      <4>1. Read(ReadAll(s), "fence") \in {Failed, ReadAll(s)}
        BY DEF Read
      <4> QED BY <2>2, <2>5, <4>1 DEF Failed, Reader
    <3> QED BY <2>1, <2>4, <3>1, <3>2 DEF S
  <2>6. CASE c # "fence"
    <3>1. WithoutFences(Append(s, c)) = Append(WithoutFences(s), c)
      BY <2>3, <2>6 DEF DropFence
    <3>2. ReadAll(Append(WithoutFences(s), c)) = Read(ReadAll(WithoutFences(s)), c)
      BY <2>3, ReadOn
    <3> QED BY <2>1, <2>2, <2>4, <3>1, <3>2 DEF S
  <2> QED BY <2>5, <2>6
<1>3. S = Seq(Symbols)
  <2>1. S \in SUBSET Seq(Symbols)
    OBVIOUS
  <2> HIDE DEF S
  <2> QED BY <1>1, <1>2, <2>1, Appending
<1> QED BY <1>3

\* There are none left then.
LEMMA DroppedOnce == \A s \in Seq(Symbols) : WithoutFences(WithoutFences(s)) = WithoutFences(s)
<1> DEFINE S == {s \in Seq(Symbols) : WithoutFences(WithoutFences(s)) = WithoutFences(s)}
<1>1. <<>> \in S
  <2>1. <<>> \in Seq(Symbols)
    OBVIOUS
  <2> QED BY <2>1, DropOn
<1>2. ASSUME NEW s \in S, NEW c \in Symbols
      PROVE  Append(s, c) \in S
  <2>1. s \in Seq(Symbols) /\ Append(s, c) \in Seq(Symbols)
        /\ WithoutFences(WithoutFences(s)) = WithoutFences(s)
    OBVIOUS
  <2> HIDE DEF S
  <2>2. WithoutFences(s) \in Seq(Symbols)
        /\ WithoutFences(Append(s, c)) = IF c = "fence" THEN WithoutFences(s)
                                          ELSE Append(WithoutFences(s), c)
    BY <2>1, DropOn DEF DropFence
  <2>3. c # "fence" => WithoutFences(Append(WithoutFences(s), c))
                         = Append(WithoutFences(WithoutFences(s)), c)
    BY <2>2, DropOn DEF DropFence
  <2> QED BY <2>1, <2>2, <2>3 DEF S
<1>3. S = Seq(Symbols)
  <2>1. S \in SUBSET Seq(Symbols)
    OBVIOUS
  <2> HIDE DEF S
  <2> QED BY <1>1, <1>2, <2>1, Appending
<1> QED BY <1>3

\* No object begins otherwise than with a brace.
LEMMA PrefaceFails ==
  ASSUME NEW s \in Seq(Symbols), NEW c \in Symbols,
         ReadAll(s).expects = "failure" \/ (s = <<>> /\ c # "open")
  PROVE  ReadAll(Append(s, c)).expects = "failure"
<1>1. CASE ReadAll(s).expects = "failure"
  BY <1>1, FailureStays DEF Failed, Reader
<1>2. CASE s = <<>> /\ c # "open"
  <2>1. Read(Reader("object", 0), c) = Failed
    BY <1>2 DEF Read, Reader
  <2>2. /\ s = <<>> /\ ReadAll(<<>>) = Reader("object", 0)
        /\ ReadAll(Append(s, c)) = Read(ReadAll(s), c)
    BY <1>2, ReadOn
  <2>3. ReadAll(Append(s, c)) = Failed
    BY <2>1, <2>2
  <2> QED BY <2>3 DEF Failed, Reader
<1> QED BY <1>1, <1>2

\* The object has not begun in the first n symbols.
NoBrace(s, n) == \A i \in 1..n : s[i] # "open"

\* json.loads has given up on s.
Fails(s) == ReadAll(s).expects = "failure"

\* Words of the model before its object cannot be read.
Unanswered ==
  /\ answer = Nothing /\ begun = 0 /\ written = 0
  /\ NoBrace(raw, Len(raw)) =>
       /\ raw = <<>> \/ Fails(raw)
       /\ WithoutFences(raw) = <<>> \/ Fails(WithoutFences(raw))

\* The object stands where it began, as far as it is written.  All of the output
\* can be read if it is that and no more, fences apart.
Answered ==
  /\ answer \in Answers /\ begun \in Nat /\ written \in 1..Len(answer)
  /\ begun + written <= Len(raw)
  /\ written < Len(answer) => Len(raw) = begun + written
  /\ \A i \in 1..written : raw[begun + i] = answer[i]
  /\ NoBrace(raw, begun) =>
       /\ raw = SubSeq(answer, 1, written) \/ Fails(raw)
       /\ \/ WithoutFences(raw) = WithoutFences(SubSeq(answer, 1, written))
          \/ Fails(WithoutFences(raw))

\* The inductive invariant of the output.
AnswerInv == raw \in Seq(Symbols) /\ (Unanswered \/ Answered)

\* The output grows as the model writes it.
LEMMA AnswerInvariant == AnswerSpec => []AnswerInv
<1>1. AnswerInit => AnswerInv
  <2> SUFFICES ASSUME AnswerInit PROVE AnswerInv
    OBVIOUS
  <2>1. raw = <<>> /\ raw \in Seq(Symbols) /\ WithoutFences(<<>>) = <<>>
    BY DropOn DEF AnswerInit
  <2> QED BY <2>1 DEF AnswerInit, AnswerInv, Unanswered
<1>2. AnswerInv /\ [AnswerNext]_answerVars => AnswerInv'
  <2> SUFFICES ASSUME AnswerInv, [AnswerNext]_answerVars PROVE AnswerInv'
    OBVIOUS
  <2>1. /\ raw \in Seq(Symbols) /\ Len(raw) \in Nat /\ WithoutFences(raw) \in Seq(Symbols)
        /\ \A a \in Answers : a \in Seq(Symbols) /\ IsObject(a) /\ Len(a) >= 2 /\ a # Nothing
    <3>1. \A a \in Answers : Len(a) >= 2
      BY AnswersAssumption, PartsOfAnObject
    <3> QED BY <3>1, DropOn, AnswersAssumption DEF AnswerInv, Nothing
  <2>2. ASSUME NEW c \in Symbols, raw' = Append(raw, c)
        PROVE  /\ raw' \in Seq(Symbols) /\ Len(raw') = Len(raw) + 1 /\ raw'[Len(raw) + 1] = c
               /\ \A i \in 1..Len(raw) : raw'[i] = raw[i]
               /\ WithoutFences(raw') = IF c = "fence" THEN WithoutFences(raw)
                                         ELSE Append(WithoutFences(raw), c)
               /\ Fails(raw) => Fails(raw')
               /\ Fails(WithoutFences(raw)) => Fails(WithoutFences(raw'))
    <3>1. /\ raw' \in Seq(Symbols) /\ Len(raw') = Len(raw) + 1 /\ raw'[Len(raw) + 1] = c
          /\ \A i \in 1..Len(raw) : raw'[i] = raw[i]
      BY <2>1, <2>2, AppendProperties
    <3>2. WithoutFences(raw') = IF c = "fence" THEN WithoutFences(raw)
                                ELSE Append(WithoutFences(raw), c)
      BY <2>1, <2>2, DropOn DEF DropFence
    <3>3. Fails(raw) => Fails(raw')
      BY <2>1, <2>2, FailureStays DEF Fails, Failed, Reader
    <3>4. Fails(WithoutFences(raw)) => Fails(WithoutFences(raw'))
      BY <2>1, <3>2, FailureStays DEF Fails, Failed, Reader
    <3> QED BY <3>1, <3>2, <3>3, <3>4
  <2>3. ASSUME NEW c \in Symbols, Say(c), answer = Nothing
        PROVE  AnswerInv'
    <3>1. Unanswered /\ raw' = Append(raw, c) /\ UNCHANGED <<answer, begun, written>>
      BY <2>1, <2>3 DEF Say, Whole, AnswerInv, Answered
    <3>2. ASSUME NoBrace(raw', Len(raw'))
          PROVE  Fails(raw') /\ (WithoutFences(raw') = <<>> \/ Fails(WithoutFences(raw')))
      <4>1. NoBrace(raw, Len(raw)) /\ c # "open"
        <5>1. \A i \in 1..Len(raw) : i \in 1..(Len(raw) + 1)
          BY <2>1
        <5> QED BY <2>1, <2>2, <3>1, <3>2, <5>1 DEF NoBrace
      <4>2. Fails(raw')
        BY <2>1, <3>1, <4>1, PrefaceFails DEF Unanswered, Fails
      <4>3. WithoutFences(raw) = <<>> \/ Fails(WithoutFences(raw))
        BY <3>1, <4>1 DEF Unanswered
      <4>4. c # "fence" => Fails(Append(WithoutFences(raw), c))
        BY <2>1, <4>1, <4>3, PrefaceFails DEF Fails
      <4> QED BY <2>2, <3>1, <4>2, <4>3, <4>4
    <3> QED BY <2>2, <3>1, <3>2 DEF AnswerInv, Unanswered
  <2>4. ASSUME NEW c \in Symbols, Say(c), answer # Nothing
        PROVE  AnswerInv'
    <3>1. /\ Answered /\ written = Len(answer) /\ raw' = Append(raw, c)
          /\ UNCHANGED <<answer, begun, written>>
      BY <2>1, <2>4 DEF Say, Whole, AnswerInv, Unanswered
    <3>2. answer \in Seq(Symbols) /\ IsObject(answer) /\ SubSeq(answer, 1, written) = answer
          /\ written \in Nat /\ begun \in Nat /\ begun + written <= Len(raw)
      BY <2>1, <3>1, PartsOfAnObject DEF Answered
    <3>3. ReadAll(answer).expects = "end" /\ ReadAll(WithoutFences(answer)).expects = "end"
      BY <3>2, DropKeepsReading DEF IsObject, ReadAll
    <3>4. NoBrace(raw', begun) => NoBrace(raw, begun)
      BY <2>1, <2>2, <3>1, <3>2 DEF NoBrace
    <3>5. ASSUME NoBrace(raw, begun)
          PROVE  /\ Fails(raw')
                 /\ \/ WithoutFences(raw') = WithoutFences(answer)
                    \/ Fails(WithoutFences(raw'))
      <4>1. Fails(raw')
        <5>1. CASE raw = answer
          BY <2>1, <3>1, <3>3, <5>1, FailureStays DEF Fails, Failed, Reader
        <5>2. CASE Fails(raw)
          BY <2>2, <3>1, <5>2
        <5> QED BY <3>1, <3>2, <3>5, <5>1, <5>2 DEF Answered
      <4>2. CASE WithoutFences(raw) = WithoutFences(answer)
        <5>1. c # "fence" => Fails(Append(WithoutFences(raw), c))
          BY <2>1, <3>3, <4>2, FailureStays DEF Fails, Failed, Reader
        <5> QED BY <2>2, <3>1, <4>1, <4>2, <5>1
      <4>3. CASE Fails(WithoutFences(raw))
        BY <2>2, <3>1, <4>1, <4>3
      <4> QED BY <3>1, <3>2, <3>5, <4>2, <4>3 DEF Answered
    <3>6. /\ begun' + written' <= Len(raw') /\ ~(written' < Len(answer'))
          /\ \A i \in 1..written' : raw'[begun' + i] = answer'[i]
      <4>1. \A i \in 1..written : begun + i \in 1..Len(raw)
        BY <2>1, <3>2
      <4> QED BY <2>1, <2>2, <3>1, <3>2, <4>1 DEF Answered
    <3>7. Answered'
      BY <3>1, <3>2, <3>4, <3>5, <3>6 DEF Answered
    <3> QED BY <2>2, <3>1, <3>7 DEF AnswerInv
  <2>5. ASSUME NEW a \in Answers, Decide(a)
        PROVE  AnswerInv'
    <3>1. /\ Unanswered /\ answer' = a /\ begun' = Len(raw) /\ raw' = Append(raw, a[1])
          /\ written' = 1
      BY <2>1, <2>5 DEF Decide, AnswerInv, Answered
    <3>2. a \in Seq(Symbols) /\ a[1] = "open" /\ a[1] \in Symbols /\ 1 \in 1..Len(a)
      BY <2>1, PartsOfAnObject DEF Symbols
    <3>3. SubSeq(a, 1, 1) = Append(<<>>, a[1])
      <4>1. 0 \in (1 - 1)..(Len(a) - 1) /\ 0 + 1 = 1
        BY <3>2
      <4>2. SubSeq(a, 1, 0) = <<>>
        BY SubSeqEmpty
      <4> QED BY <3>2, <4>1, <4>2, PrefixGrows
    <3>4. WithoutFences(SubSeq(a, 1, 1)) = Append(<<>>, a[1])
      <4>1. <<>> \in Seq(Symbols)
        OBVIOUS
      <4> QED BY <3>2, <3>3, <4>1, DropOn DEF DropFence
    <3>5. NoBrace(raw', Len(raw)) => NoBrace(raw, Len(raw))
      BY <2>2, <3>1, <3>2 DEF NoBrace
    <3>6. ASSUME NoBrace(raw, Len(raw))
          PROVE  /\ raw' = SubSeq(a, 1, 1) \/ Fails(raw')
                 /\ \/ WithoutFences(raw') = WithoutFences(SubSeq(a, 1, 1))
                    \/ Fails(WithoutFences(raw'))
      <4>1. WithoutFences(raw') = Append(WithoutFences(raw), a[1])
        BY <2>2, <3>1, <3>2
      <4> QED BY <2>2, <3>1, <3>2, <3>3, <3>4, <3>6, <4>1 DEF Unanswered
    <3>7. \A i \in 1..1 : raw'[Len(raw) + i] = a[i]
      BY <2>2, <3>1, <3>2
    <3>8. Len(raw) + 1 <= Len(raw') /\ (1 < Len(a) => Len(raw') = Len(raw) + 1)
      BY <2>1, <2>2, <3>1, <3>2
    <3>9. Answered'
      BY <2>1, <3>1, <3>2, <3>5, <3>6, <3>7, <3>8 DEF Answered
    <3> QED BY <2>2, <3>1, <3>2, <3>9 DEF AnswerInv
  <2>6. CASE Continue
    <3>1. /\ Answered /\ written < Len(answer) /\ raw' = Append(raw, answer[written + 1])
          /\ written' = written + 1 /\ answer' = answer /\ begun' = begun
      BY <2>6 DEF Continue, AnswerInv, Unanswered
    <3>2. /\ answer \in Answers /\ answer \in Seq(Symbols) /\ begun \in Nat
          /\ written \in 1..Len(answer) /\ written + 1 \in 1..Len(answer)
          /\ Len(raw) = begun + written /\ Len(answer) \in Nat
      BY <2>1, <3>1 DEF Answered
    <3>3. /\ SubSeq(answer, 1, written + 1)
               = Append(SubSeq(answer, 1, written), answer[written + 1])
          /\ SubSeq(answer, 1, written) \in Seq(Symbols) /\ answer[written + 1] \in Symbols
      <4>1. 1 \in 1..Len(answer) /\ written \in (1 - 1)..(Len(answer) - 1)
        BY <3>2
      <4> QED BY <3>2, <4>1, PrefixGrows
    <3>4. WithoutFences(SubSeq(answer, 1, written + 1))
            = IF answer[written + 1] = "fence" THEN WithoutFences(SubSeq(answer, 1, written))
              ELSE Append(WithoutFences(SubSeq(answer, 1, written)), answer[written + 1])
      BY <3>3, DropOn DEF DropFence
    <3>5. NoBrace(raw', begun) => NoBrace(raw, begun)
      BY <2>1, <2>2, <3>1, <3>2, <3>3 DEF NoBrace
    <3>6. ASSUME NoBrace(raw, begun)
          PROVE  /\ raw' = SubSeq(answer, 1, written + 1) \/ Fails(raw')
                 /\ \/ WithoutFences(raw') = WithoutFences(SubSeq(answer, 1, written + 1))
                    \/ Fails(WithoutFences(raw'))
      <4>1. /\ raw = SubSeq(answer, 1, written) \/ Fails(raw)
            /\ \/ WithoutFences(raw) = WithoutFences(SubSeq(answer, 1, written))
               \/ Fails(WithoutFences(raw))
        BY <3>1, <3>6 DEF Answered
      <4> QED BY <2>2, <3>1, <3>3, <3>4, <4>1
    <3>7. \A i \in 1..(written + 1) : raw'[begun + i] = answer[i]
      <4>1. ASSUME NEW i \in 1..(written + 1) PROVE raw'[begun + i] = answer[i]
        <5>1. CASE i = written + 1
          <6>1. begun + i = Len(raw) + 1
            BY <3>2, <5>1
          <6> QED BY <2>2, <3>1, <3>3, <5>1, <6>1
        <5>2. CASE i # written + 1
          <6>1. i \in 1..written /\ begun + i \in 1..Len(raw)
            BY <3>2, <5>2
          <6>2. raw[begun + i] = answer[i]
            BY <3>1, <6>1 DEF Answered
          <6> QED BY <2>2, <3>1, <3>3, <6>1, <6>2
        <5> QED BY <5>1, <5>2
      <4> QED BY <4>1
    <3>8. Len(raw') = begun + (written + 1) /\ begun + (written + 1) <= Len(raw')
      BY <2>1, <2>2, <3>1, <3>2, <3>3
    <3>9. Answered'
      BY <3>1, <3>2, <3>5, <3>6, <3>7, <3>8 DEF Answered
    <3> QED BY <2>2, <3>1, <3>3, <3>9 DEF AnswerInv
  <2>7. CASE UNCHANGED answerVars
    BY <2>7 DEF answerVars, AnswerInv, Unanswered, Answered, NoBrace, Fails
  <2> QED BY <2>3, <2>4, <2>5, <2>6, <2>7 DEF AnswerNext
<1> QED BY <1>1, <1>2, PTL DEF AnswerSpec

\* The braces balance where the object ends, and not before.
LEMMA BalancesOfAnswer ==
  ASSUME Answered, raw \in Seq(Symbols), NoBrace(raw, begun)
  PROVE  FindBalanced(raw) = IF Whole THEN answer ELSE Nothing
<1> DEFINE n == Len(answer)
           at(k) == SubSeq(answer, 1, k)
<1>1. /\ answer \in Seq(Symbols) /\ IsObject(answer) /\ begun \in Nat /\ written \in 1..n
      /\ begun + written <= Len(raw) /\ n \in Nat /\ Len(raw) \in Nat
      /\ \A i \in 1..written : raw[begun + i] = answer[i]
      /\ written < n => Len(raw) = begun + written
  BY AnswersAssumption DEF Answered
<1>2. /\ n >= 2 /\ answer[1] = "open" /\ answer[n] = "close" /\ at(n) = answer
      /\ \A k \in 1..(n - 1) : ReadAll(at(k)).expects \notin {"object", "failure", "end"}
      /\ ReadAll(at(n - 1)).expects \in {"firstKey", "comma"}
  BY <1>1, PartsOfAnObject
<1>3. \A k \in 0..written : SubSeq(raw, begun + 1, begun + k) = at(k)
  <2>1. ASSUME NEW k \in 0..written
        PROVE  SubSeq(raw, begun + 1, begun + k) = at(k)
    <3>1. k \in Nat /\ begun + k <= Len(raw) /\ k <= Len(answer)
          /\ \A i \in 1..k : raw[begun + i] = answer[i]
      BY <1>1
    <3> QED BY <1>1, <3>1, SamePart
  <2> QED BY <2>1
<1>4. \A k \in 0..n : at(k) \in Seq(Symbols)
  <2>1. ASSUME NEW k \in 0..n PROVE at(k) \in Seq(Symbols)
    <3>1. 1 \in Int /\ k \in Int /\ \A i \in 1..k : answer[i] \in Symbols
      BY <1>1, ElementOfSeq
    <3> QED BY <3>1, SubSeqProperties
  <2> QED BY <2>1
<1> HIDE DEF at, n
<1>5. Opens(raw) # {} /\ Min(Opens(raw)) = begun + 1
  <2>1. Opens(raw) \in SUBSET Nat
    BY DEF Opens
  <2>2. begun + 1 \in Opens(raw)
    <3>1. 1 \in 1..written /\ begun + 1 \in 1..Len(raw)
      BY <1>1
    <3> QED BY <1>1, <1>2, <3>1 DEF Opens
  <2>3. \A i \in Opens(raw) : begun + 1 <= i
    <3>1. \A i \in 1..Len(raw) : i < begun + 1 => i \in 1..begun
      BY <1>1
    <3>2. \A i \in Opens(raw) : ~(i < begun + 1)
      BY <3>1 DEF Opens, NoBrace
    <3> QED BY <1>1, <2>1, <3>2
  <2>4. Min(Opens(raw)) \in Opens(raw) /\ \A i \in Opens(raw) : Min(Opens(raw)) <= i
    BY <2>1, <2>2, MinIsThere
  <2> QED BY <1>1, <2>1, <2>2, <2>3, <2>4
<1>6. \A k \in 1..(n - 1) : Scanned(at(k)).depth # 0
  <2>1. ASSUME NEW k \in 1..(n - 1) PROVE Scanned(at(k)).depth # 0
    <3>1. at(k) \in Seq(Symbols) /\ ReadAll(at(k)).expects \notin {"object", "failure", "end"}
      BY <1>1, <1>2, <1>4
    <3>2. Follows(Scanned(at(k)), ReadAll(at(k))) /\ ReadAll(at(k)) \in Readers
      BY <3>1, ScannerFollows, ReadOn
    <3> QED BY <3>1, <3>2 DEF Follows, Readers
  <2> QED BY <2>1
<1>7. Scanned(at(n)).depth = 0
  <2>1. at(n) \in Seq(Symbols) /\ ReadAll(at(n)).expects = "end"
    BY <1>1, <1>2, <1>4 DEF IsObject, ReadAll
  <2> QED BY <2>1, ScannerFollows DEF Follows
<1>8. ~Scanned(at(n - 1)).inString /\ ~Scanned(at(n - 1)).escaped
  <2>1. at(n - 1) \in Seq(Symbols)
    BY <1>1, <1>2, <1>4
  <2> QED BY <1>2, <2>1, ScannerFollows DEF Follows, Open, Escaping
<1>9. Balances(raw) \in SUBSET Nat
  BY <1>1, <1>5 DEF Balances
<1>10. \A k \in 1..written : k < n => begun + k \notin Balances(raw)
  <2>1. ASSUME NEW k \in 1..written, k < n, begun + k \in Balances(raw) PROVE FALSE
    <3>1. Scanned(SubSeq(raw, begun + 1, begun + k)).depth = 0
      BY <1>5, <2>1 DEF Balances
    <3>2. k \in 1..(n - 1) /\ k \in 0..written
      BY <1>1, <2>1
    <3> QED BY <1>3, <1>6, <3>1, <3>2
  <2> QED BY <2>1
<1>11. CASE Whole
  <2>1. written = n
    BY <1>11 DEF Whole, n
  <2>2. begun + n \in Balances(raw)
    <3>1. begun + n \in (begun + 1)..Len(raw) /\ n \in 1..written /\ n \in 0..written
          /\ n - 1 \in 0..written /\ (begun + n) - 1 = begun + (n - 1)
      BY <1>1, <1>2, <2>1
    <3>2. raw[begun + n] = "close"
      BY <1>1, <1>2, <3>1
    <3>3. /\ SubSeq(raw, begun + 1, begun + n) = at(n)
          /\ SubSeq(raw, begun + 1, (begun + n) - 1) = at(n - 1)
      BY <1>3, <3>1
    <3> QED BY <1>5, <1>7, <1>8, <3>1, <3>2, <3>3 DEF Balances
  <2>3. \A i \in Balances(raw) : begun + n <= i
    <3>1. ASSUME NEW i \in Balances(raw) PROVE begun + n <= i
      <4>1. i \in (begun + 1)..Len(raw)
        BY <1>5 DEF Balances
      <4>2. PICK k : k = i - begun
        OBVIOUS
      <4>3. k \in 1..Len(raw) /\ i = begun + k
        <5>1. begun \in Nat /\ Len(raw) \in Nat
          BY <1>1
        <5> QED BY <4>1, <4>2, <5>1
      <4>4. ~(k < n)
        <5>1. k < n => k \in 1..written
          BY <1>1, <2>1, <4>3
        <5> QED BY <1>10, <4>3, <5>1
      <4> QED BY <1>1, <4>3, <4>4
    <3> QED BY <3>1
  <2>4. Min(Balances(raw)) = begun + n
    <3>1. Min(Balances(raw)) \in Balances(raw) /\ \A i \in Balances(raw) : Min(Balances(raw)) <= i
      BY <1>9, <2>2, MinIsThere
    <3> QED BY <1>1, <1>9, <2>2, <2>3, <3>1
  <2>5. SubSeq(raw, begun + 1, begun + n) = answer
    <3>1. n \in 0..written
      BY <1>1, <2>1
    <3> QED BY <1>2, <1>3, <3>1
  <2> QED BY <1>5, <1>11, <2>2, <2>4, <2>5 DEF FindBalanced
<1>12. CASE ~Whole
  <2>1. written < n /\ Len(raw) = begun + written
    <3>1. answer # Nothing
      <4>1. Len(Nothing) = 0
        BY DEF Nothing
      <4> QED BY <1>2, <4>1 DEF n
    <3>2. written # n
      BY <1>12, <3>1 DEF Whole, n
    <3> QED BY <1>1, <3>2
  <2>2. Balances(raw) = {}
    <3>1. ASSUME NEW i \in Balances(raw) PROVE FALSE
      <4>1. i \in (begun + 1)..Len(raw)
        BY <1>5 DEF Balances
      <4>2. PICK k : k = i - begun
        OBVIOUS
      <4>3. k \in 1..written /\ i = begun + k /\ k < n
        BY <1>1, <2>1, <4>1, <4>2
      <4> QED BY <1>10, <4>3
    <3> QED BY <3>1
  <2> QED BY <1>12, <2>2 DEF FindBalanced
<1> QED BY <1>11, <1>12

\* What the parser takes is the answer of the model or nothing: of a whole object
\* nothing is lost but fences, and a part of one is never taken for it.
THEOREM AnswerIsTakenWhole == AnswerSpec => []AnswerTakenWhole
<1>1. AnswerInv => AnswerTakenWhole
  <2> SUFFICES ASSUME AnswerInv, answer # Nothing, "open" \notin ToSet(SubSeq(raw, 1, begun))
               PROVE  WithoutFences(Extract(raw))
                        = IF Whole THEN WithoutFences(answer) ELSE Nothing
    BY DEF AnswerTakenWhole
  <2>1. /\ raw \in Seq(Symbols) /\ Answered /\ begun \in Nat /\ written \in 1..Len(answer)
        /\ begun + written <= Len(raw) /\ Len(raw) \in Nat
    BY DEF AnswerInv, Unanswered, Answered
  <2>2. answer \in Seq(Symbols) /\ IsObject(answer) /\ Len(answer) \in Nat
    BY <2>1, AnswersAssumption DEF Answered
  <2>3. NoBrace(raw, begun)
    <3>1. \A i \in 1..begun : raw[i] \in Symbols
      BY <2>1, ElementOfSeq
    <3>2. /\ SubSeq(raw, 1, begun) \in Seq(Symbols) /\ Len(SubSeq(raw, 1, begun)) = begun
          /\ \A i \in 1..begun : SubSeq(raw, 1, begun)[i] = raw[i]
      <4>1. 1 \in Int /\ begun \in Int /\ begun - 1 + 1 = begun
            /\ \A i \in 1..begun : 1 + i - 1 = i
        BY <2>1
      <4>2. Len(SubSeq(raw, 1, begun)) = begun
        BY <2>1, <3>1, <4>1, SubSeqProperties
      <4> QED BY <3>1, <4>1, <4>2, SubSeqProperties
    <3> QED BY <3>2 DEF NoBrace, ToSet
  <2>4. FindBalanced(raw) = IF Whole THEN answer ELSE Nothing
    BY <2>1, <2>3, BalancesOfAnswer
  <2>5. /\ raw = SubSeq(answer, 1, written) \/ Fails(raw)
        /\ \/ WithoutFences(raw) = WithoutFences(SubSeq(answer, 1, written))
           \/ Fails(WithoutFences(raw))
    BY <2>1, <2>3 DEF Answered
  <2>6. \A s : IsObject(s) <=> ReadAll(s).expects = "end"
    BY DEF IsObject, ReadAll
  <2>7. /\ SubSeq(answer, 1, Len(answer)) = answer
        /\ \A k \in 1..(Len(answer) - 1) :
             ReadAll(SubSeq(answer, 1, k)).expects \notin {"object", "failure", "end"}
    BY <2>2, PartsOfAnObject
  <2>8. WithoutFences(WithoutFences(answer)) = WithoutFences(answer) /\ WithoutFences(<<>>) = <<>>
    BY <2>2, DroppedOnce, DropOn
  <2>9. CASE Whole
    <3>1. SubSeq(answer, 1, written) = answer
      BY <2>7, <2>9 DEF Whole
    <3>2. IsObject(raw) => raw = answer
      BY <2>5, <2>6, <3>1 DEF Fails
    <3>3. IsObject(WithoutFences(raw)) => WithoutFences(raw) = WithoutFences(answer)
      BY <2>5, <2>6, <3>1 DEF Fails
    <3>4. FindBalanced(raw) = answer
      BY <2>4, <2>9
    <3> QED BY <2>2, <2>8, <2>9, <3>2, <3>3, <3>4 DEF Extract
  <2>10. CASE ~Whole
    <3>1. written \in 1..(Len(answer) - 1)
      BY <2>1, <2>2, <2>10 DEF Whole
    <3>2. ReadAll(SubSeq(answer, 1, written)).expects \notin {"object", "failure", "end"}
      BY <2>7, <3>1
    <3>3. ReadAll(WithoutFences(SubSeq(answer, 1, written)))
            = ReadAll(SubSeq(answer, 1, written))
      <4>1. SubSeq(answer, 1, written) \in Seq(Symbols)
        <5>1. 1 \in Int /\ written \in Int /\ \A i \in 1..written : answer[i] \in Symbols
          BY <2>1, <2>2, ElementOfSeq
        <5> QED BY <5>1, SubSeqProperties
      <4> QED BY <3>2, <4>1, DropKeepsReading
    <3>4. ~IsObject(raw) /\ ~IsObject(WithoutFences(raw))
      BY <2>5, <2>6, <3>2, <3>3 DEF Fails
    <3>5. FindBalanced(raw) = Nothing /\ ~IsObject(Nothing)
      <4>1. ReadAll(<<>>).expects # "end"
        BY ReadOn DEF Reader
      <4> QED BY <2>4, <2>6, <2>10, <4>1 DEF Nothing
    <3>6. Extract(raw) = Nothing
      BY <3>4, <3>5 DEF Extract
    <3> QED BY <2>8, <2>10, <3>6 DEF Nothing
  <2> QED BY <2>9, <2>10
<1> QED BY <1>1, AnswerInvariant, PTL

=============================================================================
