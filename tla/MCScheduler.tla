------------------------------ MODULE MCScheduler -------------------------------
(* Instances of Scheduler for TLC.                                         *)
EXTENDS Scheduler, TLC

CONSTANTS nightly, report

Symmetry == Permutations(ScheduleIds)

\* Five years of two months of two days; the second month of the fourth year
\* has a day more, as February has, and the first month has its second day only
\* in the first year: five years pass between two of them, as eight do between
\* the leap days around 2100.
FiveYears == <<0, 2,  4, 5,  7, 8,  10, 11,  14, 15,  17>>

Expression(minute, hour, date, month, weekDay) ==
  [minute |-> minute, hour |-> hour, date |-> date, month |-> month, weekDay |-> weekDay]

\* Every other minute; an hour of either a date or a day of the week; a date
\* that only a leap year has, long in coming; and one that does not come again
\* within four years.
FourExpressions ==
  {Expression({Every(2)}, {Star}, {Star}, {Star}, {Star}),
   Expression({One(1)}, {Span(1, 1, 1)}, {From(2, 2)}, {Star}, {One(3)}),
   Expression({One(0)}, {Star}, {One(3)}, {One(2)}, {Star}),
   Expression({One(0)}, {Span(0, 0, 1)}, {One(2)}, {One(1)}, {Star})}
===============================================================================
