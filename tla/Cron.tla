--------------------------------- MODULE Cron ----------------------------------
(***************************************************************************)
(* Cron expressions: parseField, parseCron, matches and nextRun of         *)
(* packages/edge-run/src/cron.ts, over a calendar of any size, which        *)
(* repeats itself as the Gregorian one does.  Time is counted in minutes   *)
(* and months from the beginning of the calendar, as 0; seconds, which      *)
(* nextRun drops, names, aliases and the changes of a local clock are left *)
(* out.                                                                    *)
(***************************************************************************)
EXTENDS Integers, Sequences

CONSTANTS HourLength,  \* minutes in an hour
          DayLength,   \* hours in a day
          WeekLength,  \* days in a week
          YearLength,  \* months in a year
          MonthStarts, \* the first day of each month of the calendar, in
                       \* order, and the day on which it begins again
          SearchYears  \* how far nextRun looks: 4

ASSUME CalendarAssumption ==
  /\ {HourLength, DayLength, WeekLength, YearLength, SearchYears} \subseteq Nat \ {0}
  /\ MonthStarts \in Seq(Nat) /\ Len(MonthStarts) > 1 /\ MonthStarts[1] = 0
  /\ \A i \in 1..(Len(MonthStarts) - 1) : MonthStarts[i] < MonthStarts[i + 1]

Never == -1

-----------------------------------------------------------------------------
(* The calendar.                                                           *)

\* How long the calendar is, and the first day of month m.
CycleMonths == Len(MonthStarts) - 1
CycleDays == MonthStarts[Len(MonthStarts)]
MonthStart(m) == (m \div CycleMonths) * CycleDays + MonthStarts[(m % CycleMonths) + 1]

DayMinutes == HourLength * DayLength
Day(t) == t \div DayMinutes

\* The month t is in.  No month is shorter than a day.
MonthAt(t) == CHOOSE m \in 0..Day(t) :
                MonthStart(m) <= Day(t) /\ Day(t) < MonthStart(m + 1)

Minute(t) == t % HourLength
Hour(t) == (t \div HourLength) % DayLength
Date(t) == Day(t) - MonthStart(MonthAt(t)) + 1
Month(t) == (MonthAt(t) % YearLength) + 1
WeekDay(t) == Day(t) % WeekLength

\* Dates that setMinutes, setHours, setDate and setMonth roll over to.
NextHour(t) == (t \div HourLength + 1) * HourLength
NextDay(t) == (Day(t) + 1) * DayMinutes
NextMonth(t) == MonthStart(MonthAt(t) + 1) * DayMinutes

\* The same date some years on, or after its month if that is shorter.
YearsLater(t) ==
  (MonthStart(MonthAt(t) + SearchYears * YearLength) + Date(t) - 1) * DayMinutes
    + (t % DayMinutes)

-----------------------------------------------------------------------------
(* Expressions.                                                            *)

\* A part of a field: every value, one, those from one on, or a range, by step.
Star == [kind |-> "star", from |-> 0, to |-> 0, step |-> 1]
Every(step) == [kind |-> "every", from |-> 0, to |-> 0, step |-> step]
One(n) == [kind |-> "one", from |-> n, to |-> n, step |-> 1]
From(n, step) == [kind |-> "from", from |-> n, to |-> n, step |-> step]
Span(a, b, step) == [kind |-> "span", from |-> a, to |-> b, step |-> step]

PartValues(p, min, max) ==
  LET start == IF p.kind \in {"star", "every"} THEN min ELSE p.from
      end == IF p.kind \in {"one", "span"} THEN p.to ELSE max
  IN {v \in start..end : (v - start) % p.step = 0}

parseField(parts, min, max) == UNION {PartValues(p, min, max) : p \in parts}

Restricted(parts) == parts # {Star}

\* The day of the week may be written past its last, which is the first again.
parseCron(x) ==
  [minute |-> parseField(x.minute, 0, HourLength - 1),
   hour |-> parseField(x.hour, 0, DayLength - 1),
   date |-> parseField(x.date, 1, 31),
   month |-> parseField(x.month, 1, YearLength),
   weekDay |-> {d % WeekLength : d \in parseField(x.weekDay, 0, WeekLength)},
   byDate |-> Restricted(x.date),
   byWeekDay |-> Restricted(x.weekDay)]

-----------------------------------------------------------------------------
(* When an expression fires.                                               *)

\* Either day will do, when both are restricted.
DayMatches(f, t) ==
  LET onDate == Date(t) \in f.date
      onWeekDay == WeekDay(t) \in f.weekDay
  IN  CASE f.byDate /\ f.byWeekDay   -> onDate \/ onWeekDay
        [] f.byDate /\ ~f.byWeekDay  -> onDate
        [] ~f.byDate /\ f.byWeekDay  -> onWeekDay
        [] ~f.byDate /\ ~f.byWeekDay -> TRUE

matches(f, t) == /\ Minute(t) \in f.minute /\ Hour(t) \in f.hour
                 /\ Month(t) \in f.month /\ DayMatches(f, t)

\* Mutant of nextRun: a day that does not match is left for its next minute.
nextRunDrifting(x, from) ==
  LET f == parseCron(x)
      limit == YearsLater(from + 1)
      Search[t \in Nat] ==
        IF t > limit THEN Never
        ELSE IF matches(f, t) THEN t
        ELSE IF DayMatches(f, t) THEN Search[t + 1]
        ELSE Search[t + DayMinutes]
  IN Search[from + 1]

\* The search skips what cannot match, the largest unit first; with nothing
\* found up to the limit it throws.
nextRun(x, from) ==
  LET f == parseCron(x)
      limit == YearsLater(from + 1)
      Search[t \in Nat] ==
        IF t > limit THEN Never
        ELSE IF Month(t) \notin f.month THEN Search[NextMonth(t)]
        ELSE IF ~DayMatches(f, t) THEN Search[NextDay(t)]
        ELSE IF Hour(t) \notin f.hour THEN Search[NextHour(t)]
        ELSE IF matches(f, t) THEN t
        ELSE Search[t + 1]
  IN Search[from + 1]

================================================================================
