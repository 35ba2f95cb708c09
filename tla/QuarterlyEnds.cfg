CHECK_DEADLOCK FALSE
SPECIFICATION QuarterlySpec
CONSTANTS
  MonthDays <- MCMonthDays
  AnchorDays = {28, 31}
INVARIANT ReRunsGrantOnce
