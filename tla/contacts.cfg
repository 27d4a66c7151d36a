SPECIFICATION Spec
CONSTANTS
  p1 = p1
  p2 = p2
  Requests <- MCRequests
  Clients = {"c1", "c2"}
  Names = {"ann", "ben"}
  Addresses = {"here"}
  Patches <- MCPatches
  MaxDocuments = 2
SYMMETRY MCSymmetry
CONSTRAINT MCFocus
INVARIANT SentNamesItsRecipient
PROPERTY PrintedStays
