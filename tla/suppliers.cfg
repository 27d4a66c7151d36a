SPECIFICATION Spec
CONSTANTS
  r1 = r1
  r2 = r2
  k1 = k1
  k2 = k2
  Requests <- MCRequests
  Keys <- MCKeys
  Account <- MCAccount
  References = {"QRR", ""}
  Totals = {0, 1}
  MaxInvoices = 2
  MaxEntries = 3
SYMMETRY MCSymmetry
CONSTRAINT MCFocus
CHECK_DEADLOCK FALSE
INVARIANTS BookedOnce LinkPosted ReversedOnce FileIsWhole
PROPERTY SealedOnceBooked
