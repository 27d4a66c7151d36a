----------------------------- MODULE MCBanking ------------------------------
(* Instances of Banking for TLC. *)
EXTENDS Banking, TLC

CONSTANTS p1, p2, i1, i2

MCImporters == {p1, p2}

Entry(amount, txs) == [booked |-> TRUE, readable |-> TRUE, credit |-> TRUE, amount |-> amount, txs |-> txs]

Tx(ref, party, amount) == [ref |-> ref, party |-> party, amount |-> amount]

\* Transfers of one amount and reference, of two parties; one of each party
\* with nothing but the party to tell them apart.
Dupont == Entry(5, <<Tx("", "dupont", 0)>>)
Favre == Entry(5, <<Tx("", "favre", 0)>>)

\* A batch whose details account for all of it, one whose do not, of one centime
\* more than an invoice.
Batch == Entry(11, <<Tx("", "dupont", 5), Tx("qr", "favre", 6)>>)
Short == Entry(6, <<Tx("", "dupont", 2), Tx("qr", "favre", 2)>>)

\* Entries that are left out: one not booked, one whose amount cannot be read.
Pending == [Dupont EXCEPT !.booked = FALSE]
Unreadable == [Favre EXCEPT !.readable = FALSE]

MCStatements ==
  {<<Dupont, Favre, Dupont>>, <<Favre, Dupont, Favre>>, <<Batch, Pending, Unreadable>>, <<Short>>}

\* What an older version kept of Dupont.
MCLegacy == {[ref |-> "", amount |-> 5, party |-> "dupont", credit |-> TRUE]}

MCInvoices == {i1, i2}

MCInvoiceOf == i1 :> [ref |-> "qr", amount |-> 5, kind |-> "invoice"]
            @@ i2 :> [ref |-> "", amount |-> 5, kind |-> "invoice"]

\* Decisions are independent of each other and of most of an import: one row
\* at a time is decided, while up to two files are in play.
MCFocus ==
  LET decided == {f \in DOMAIN rows : rows[f].ignored \/ rows[f].invoice # NoInvoice}
  IN /\ Cardinality(decided) <= 1
     /\ decided # {} \/ (\E i \in Invoices : status[i] # "draft") => Cardinality(started) <= 2

MCSymmetry == Permutations(MCImporters)
=============================================================================
