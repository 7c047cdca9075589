CONSTANTS
  nightly = nightly
  report = report
  HourLength = 2
  DayLength = 2
  WeekLength = 3
  YearLength = 2
  MonthStarts <- FiveYears
  SearchYears = 4
  ScheduleIds = {nightly, report}
  Expressions <- FourExpressions
  QueueLimit = 1
  MaxTime = 6
  MaxRequests = 3
  MaxBreakdowns = 1
SPECIFICATION SchedulerSpec
SYMMETRY Symmetry
INVARIANTS OnSchedule AnsweredIsKept
CHECK_DEADLOCK FALSE
