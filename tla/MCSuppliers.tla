---------------------------- MODULE MCSuppliers -----------------------------
(* Instances of Suppliers for TLC. *)
EXTENDS Suppliers

CONSTANTS r1, r2, k1, k2

MCRequests == {r1, r2}

MCOneRequest == {r1}

\* One supplier has both accounts, the other typed its QR-IBAN in the box of
\* the ordinary one.
MCAccount == k1 :> [iban |-> "ordinary", qr_iban |-> "qr"]
          @@ k2 :> [iban |-> "qr", qr_iban |-> ""]

MCKeys == {k1, k2}

\* Requests meet on the first invoice; the second, which is there to compete
\* for a key and for a place in a payment file, is treated alone and reaches
\* "booked" by way of "paid", without an entry.  The first carries a QR
\* reference, the second none.
MCFocus ==
  /\ \A i \in Invoices : (invoices[i].ref = "QRR") = (i = 1)
  /\ \A p \in Requests : At(p, "update") => (req[p].ref = "QRR") = (req[p].inv = 1)
  /\ \A i \in Invoices \ {1} :
       /\ invoices[i].total # 0
       /\ \A p, q \in Requests : req[p].inv = i /\ q # p => req[q] = Idle
       /\ \A e \in Entries : journal[e].inv # i

MCSymmetry == Permutations(MCRequests)
=============================================================================
