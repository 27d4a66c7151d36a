---------------------------- MODULE MCInvoicing -----------------------------
(* Instance of Invoicing for TLC. *)
EXTENDS Invoicing

CONSTANTS r1, r2

MCRequests == {r1, r2}

MCSymmetry == Permutations(MCRequests)

\* Either one invoice and requests that interleave, up to the second payment,
\* modifications and archived documents apart; or a quote of amount 1, what it is converted to and the
\* credit notes of that, and one request at a time that nothing stops and that
\* enters nothing.
MCFocus ==
  LET busy == {p \in Requests : req[p] # Idle}
      alone == Cardinality(busy) <= 1
  IN IF invoices # <<>> /\ invoices[1].type = "quote"
     THEN /\ disturbed = {} /\ journal = <<>> /\ payments = <<>>
          /\ \A d \in Docs : invoices[d].total = 1
          /\ \A d \in Docs : invoices[d].type = "invoice" => invoices[d].from # 0
          /\ alone
     ELSE /\ Len(invoices) <= 1 /\ Len(payments) <= 1
          /\ \/ alone
             \/ /\ \A d \in Docs : invoices[d].status # "archived"
                /\ \A p \in busy : req[p].pc \notin {"update_check", "update", "clear_link"}
=============================================================================
