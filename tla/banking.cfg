SPECIFICATION BankingSpec
CONSTANTS
  p1 = p1
  p2 = p2
  i1 = i1
  i2 = i2
  Importers <- MCImporters
  Texts = {"", "qr", "dupont", "favre"}
  Statements <- MCStatements
  Legacy <- MCLegacy
  Invoices <- MCInvoices
  InvoiceOf <- MCInvoiceOf
SYMMETRY MCSymmetry
CONSTRAINT MCFocus
INVARIANTS NothingLostNorDoubled ReadInFull
