SPECIFICATION Spec
CONSTANTS
  r1 = r1
  r2 = r2
  Requests <- MCRequests
  Nobody = Nobody
  Types = {"invoice", "quote"}
  Amounts = {1, 2}
  MaxDocs = 3
  MaxEntries = 3
  MaxPayments = 2
CONSTRAINT MCFocus
SYMMETRY MCSymmetry
INVARIANTS PaymentsAddUp EntriesPosted BooksMatchDocument ConvertedOnce
