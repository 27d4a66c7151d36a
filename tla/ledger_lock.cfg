SPECIFICATION Spec
CONSTANTS
  r1 = r1
  r2 = r2
  Requests <- MCRequests
  Dates <- MCDates
  YearLength = 2
  Labels = {1}
  Movements <- MCMovements
  MaxEntries = 3
  MaxYears = 3
SYMMETRY MCSymmetry
PROPERTY ClosedYearRefusesPosting
