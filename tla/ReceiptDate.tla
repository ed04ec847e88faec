----------------------------- MODULE ReceiptDate -----------------------------
(***************************************************************************)
(* The date that ParsingService reads in the text of a receipt, and the    *)
(* date that the Python service makes of one that the LLM quotes.  A text  *)
(* is the sequence of the dates printed in it.  A printed date has its     *)
(* numbers in their printed order (the name of a month counts as its       *)
(* number), the clock after it, the separator before the clock, and a mark *)
(* that follows the last digit without a space.                            *)
(***************************************************************************)
EXTENDS Integers, Sequences, FiniteSetsExt

CONSTANTS
  Prints,      \* the dates that a receipt may show
  MaxMentions  \* bound: dates in one text

Forms == {"dayMonth", "monthDay", "yearFirst", "numeric"}

\* 04-Apr-2026, April 8, 2026, 2026-04-08 and 15/03/2026.
Mention ==
  [form : Forms, first : Nat, second : Nat, year : Nat, delim : {"-", "/", "."},
   clock : Seq(Nat), sep : {"space", "T"}, mark : {"none", "Z", "PM"}]

ASSUME DateAssumption ==
  /\ \A m \in Prints : m \in Mention /\ Len(m.clock) \in {0, 2, 3}
  /\ MaxMentions \in Nat

VARIABLES
  text,
  timestamp  \* what extractTimestampFromText returns for it

dateVars == <<text, timestamp>>

Null == [none |-> TRUE]

-----------------------------------------------------------------------------
(* Dates.                                                                  *)

IsLeap(y) == y % 4 = 0 /\ (y % 100 # 0 \/ y % 400 = 0)

MonthLength(y, month) ==
  CASE month = 2              -> IF IsLeap(y) THEN 29 ELSE 28
    [] month \in {4, 6, 9, 11} -> 30
    [] OTHER                  -> 31

\* Date.UTC takes a day after the end of a month for one of the next.
DateUtc(y, month, day) ==
  LET over == day - MonthLength(y, month)
  IN  IF over <= 0 THEN <<y, month, day>>
      ELSE IF month = 12 THEN <<y + 1, 1, over>>
      ELSE <<y, month + 1, over>>

\* Trusts the numbers, as far as some month has such a day.
IsReasonableYMD_NoRoundTrip(y, month, day) ==
  y \in 1970..2100 /\ month \in 1..12 /\ day \in 1..31

IsReasonableYMD(y, month, day) ==
  /\ y \in 1970..2100
  /\ month \in 1..12
  /\ day \in 1..31
  /\ DateUtc(y, month, day) = <<y, month, day>>

IsReasonableClock(clock) ==
  /\ Len(clock) > 0 => clock[1] \in 0..23 /\ clock[2] \in 0..59
  /\ Len(clock) > 2 => clock[3] \in 0..59

TimeOfDay(clock) ==
  [k \in 1..3 |-> IF k <= Len(clock) THEN clock[k] ELSE 0]

-----------------------------------------------------------------------------
(* What an expression matches.                                             *)

\* The two expressions with names end after the year; the numeric one knows
\* no T before the clock.
TakesClock(m) == m.form = "yearFirst" \/ (m.form = "numeric" /\ m.sep = "space")

\* \b after n numbers of the clock: a digit is followed by no letter.
BoundaryAfter(m, n) ==
  IF n = Len(m.clock) THEN m.mark = "none"
  ELSE n = 0 => m.sep = "space"

Stops(m) ==
  {n \in {0, 2, 3} : /\ n <= Len(m.clock)
                     /\ n > 0 => TakesClock(m)
                     /\ BoundaryAfter(m, n)}

Matches(m) == Stops(m) # {}

\* The groups are greedy, and give back what has no boundary behind it.
ClockRead(m) == SubSeq(m.clock, 1, Max(Stops(m)))

\* As in the United States.
DayFirst_American(m) ==
  m.form = "dayMonth" \/ (m.form = "numeric" /\ m.first > 12)

DayFirst(m) ==
  CASE m.form = "dayMonth" -> TRUE
    [] m.form = "numeric"  -> m.first > 12 \/ m.second <= 12
    [] OTHER               -> FALSE

\* The second group, whatever the form.
Day_SecondGroup(m) == m.second

Day(m) == IF DayFirst(m) THEN m.first ELSE m.second
Month(m) == IF DayFirst(m) THEN m.second ELSE m.first

Reading(m) ==
  IF IsReasonableYMD(m.year, Month(m), Day(m)) /\ IsReasonableClock(ClockRead(m))
    THEN [date |-> <<m.year, Month(m), Day(m)>>, clock |-> TimeOfDay(ClockRead(m))]
    ELSE Null

\* String.match: the first match of the form, be it a date or not.
Hits(t, f) == {i \in 1..Len(t) : t[i].form = f /\ Matches(t[i])}

\* The last match instead of the first.
First_Last(hits) == Max(hits)

First(hits) == Min(hits)

TryParse(t, f) == IF Hits(t, f) = {} THEN Null ELSE Reading(t[First(Hits(t, f))])

\* The forms in the order of the ?? chain.
Rank(f) ==
  CASE f = "dayMonth"  -> 1
    [] f = "monthDay"  -> 2
    [] f = "yearFirst" -> 3
    [] f = "numeric"   -> 4

Successful(t) == {f \in Forms : TryParse(t, f) # Null}

Best(t) == CHOOSE f \in Successful(t) : \A g \in Successful(t) : Rank(f) <= Rank(g)

ExtractTimestamp(t) == IF Successful(t) = {} THEN Null ELSE TryParse(t, Best(t))

-----------------------------------------------------------------------------
(* What the Python service makes of the same date.                         *)

\* datetime.fromisoformat of Python 3.10, after Z has become +00:00.
IsoFormat(m) ==
  m.form = "yearFirst" /\ m.delim = "-" /\ m.mark \in {"none", "Z"}

\* The other TIMESTAMP_FORMATS.
StrptimeFormat(m) ==
  /\ m.mark = "none"
  /\ m.clock = <<>> \/ m.sep = "space"
  /\ \/ m.form = "yearFirst" /\ m.delim = "/" /\ m.clock # <<>>
     \/ m.form = "numeric" /\ m.delim \in {"/", "-"}

PythonDate(m) ==
  IF m.form = "numeric" THEN <<m.year, m.second, m.first>> ELSE <<m.year, m.first, m.second>>

IsPythonDate(d) ==
  d[1] \in 1..9999 /\ d[2] \in 1..12 /\ d[3] \in 1..MonthLength(d[1], d[2])

NormalizeTimestamp(m) ==
  IF /\ IsoFormat(m) \/ StrptimeFormat(m)
     /\ IsPythonDate(PythonDate(m))
     /\ IsReasonableClock(m.clock)
    THEN [date |-> PythonDate(m), clock |-> TimeOfDay(m.clock)]
    ELSE Null

-----------------------------------------------------------------------------

DateInit ==
  /\ text = <<>>
  /\ timestamp = ExtractTimestamp(<<>>)

\* A text with one more date in it.
Show(m) ==
  /\ text' = Append(text, m)
  /\ timestamp' = ExtractTimestamp(text')

DateNext ==
  /\ Len(text) < MaxMentions
  /\ \E m \in Prints : Show(m)

DateSpec == DateInit /\ [][DateNext]_dateVars

-----------------------------------------------------------------------------
(* Properties.                                                             *)

\* A timestamp is a day of the calendar within the range that the code
\* accepts, and a time of that day.
IsTimestamp(t) ==
  /\ t.date[1] \in 1970..2100
  /\ t.date[2] \in 1..12
  /\ t.date[3] \in 1..MonthLength(t.date[1], t.date[2])
  /\ t.clock[1] \in 0..23 /\ t.clock[2] \in 0..59 /\ t.clock[3] \in 0..59

DateTypeOK ==
  /\ Len(text) <= MaxMentions
  /\ \A i \in 1..Len(text) : text[i] \in Prints
  /\ timestamp # Null => IsTimestamp(timestamp)

\* A timestamp stands in the text and in the calendar: its day and its month are
\* the two numbers beside the year of one printed date, and its clock is what is
\* printed there or a beginning of it.  Two prints never lend each other a number,
\* and a day that its month has not never becomes one of the next month.
Says(m, t) ==
  /\ t.date[1] = m.year
  /\ {t.date[2], t.date[3]} = {m.first, m.second}
  /\ \E n \in {0, 2, 3} : n <= Len(m.clock) /\ t.clock = TimeOfDay(SubSeq(m.clock, 1, n))

ReadsWhatIsPrinted ==
  timestamp # Null =>
    /\ IsTimestamp(timestamp)
    /\ \E i \in 1..Len(text) : Says(text[i], timestamp)

\* What stands further down in a text changes the timestamp only by the first
\* match of a form that comes before the one that was read, so two photos of a
\* receipt that differ in the lines below the date have the same timestamp.
EarlierTextDecides ==
  [][timestamp' # timestamp =>
       LET m == text'[Len(text')]
       IN  /\ timestamp' = Reading(m)
           /\ \A i \in 1..Len(text) : Matches(text[i]) => text[i].form # m.form
           /\ timestamp # Null =>
                \E i \in 1..Len(text) :
                  /\ Matches(text[i])
                  /\ timestamp = Reading(text[i])
                  /\ Rank(m.form) < Rank(text[i].form)
    ]_dateVars

\* The expressions of the backend and the formats of the Python service never
\* read two different timestamps in one printed date, though either may read
\* none; only a mark behind the clock makes the backend drop digits that the
\* Python service keeps.
PathsNeverContradict ==
  \A i \in 1..Len(text) :
    LET m == text[i]
    IN  Matches(m) /\ m.mark = "none" /\ Reading(m) # Null /\ NormalizeTimestamp(m) # Null
          => Reading(m) = NormalizeTimestamp(m)

\* src/processing/parsing.service.ts:70, "First valid date wins": where a valid
\* date is printed, a date is read.
FirstValidDateWins ==
  (\E i \in 1..Len(text) : Matches(text[i]) /\ Reading(text[i]) # Null) => timestamp # Null

=============================================================================
