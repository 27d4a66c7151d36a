SPECIFICATION Spec
CONSTANTS
  a = a
  b = b
  r1 = r1
  r2 = r2
  Accounts <- MCAccounts
  Requests <- MCRequests
  Populations <- MCPopulations
  NewRoles = {"admin", "viewer"}
  MaxFailures = 1
  MaxEnrolments = 2
  MaxDevices = 1
  MaxTokens = 1
  MaxServed = 3
SYMMETRY MCSymmetry
CONSTRAINT MCFocus
CHECK_DEADLOCK FALSE
INVARIANTS WorkAsAllowed SecondFactorAsked BootstrapOnce CodesOfLastEnrolment ThrottleBounds
PROPERTY QuietStaysOut
