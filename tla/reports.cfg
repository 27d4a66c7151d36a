SPECIFICATION ReportsSpec
CONSTANTS
  Dates <- MCDates
  YearEnds <- MCYearEnds
  MonthOf <- MCMonthOf
  Looks <- MCLooks
  Sales <- MCSales
  Dues = {1}
  Parts = {600}
  ByHand <- MCByHand
  MaxDocuments = 1
  MaxNotes = 1
  MaxByHand = 1
  MaxParts = 2
  Reopenings = 1
CONSTRAINT MCFocus
CHECK_DEADLOCK FALSE
INVARIANTS CarnetExplained SheetExplained DocumentsExplained
