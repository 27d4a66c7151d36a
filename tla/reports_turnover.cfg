SPECIFICATION ReportsSpec
CONSTANTS
  Dates <- MCDates
  YearEnds <- MCYearEnds
  MonthOf <- MCMonthOf
  Looks <- MCLooks
  Sales <- MCSales
  Dues = {1}
  Parts = {400}
  ByHand <- MCByHand
  MaxDocuments = 1
  MaxNotes = 0
  MaxByHand = 1
  MaxParts = 1
  Reopenings = 0
CHECK_DEADLOCK FALSE
INVARIANT TurnoverKept
