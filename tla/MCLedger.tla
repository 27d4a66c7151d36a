------------------------------ MODULE MCLedger ------------------------------
(* Instances of Ledger for TLC. *)
EXTENDS Ledger, TLC

CONSTANTS r1, r2

\* A sale and a typing mistake that does not balance.
Move(balance, revenue, expense) ==
  [a \in Accounts |-> CASE a = "balance" -> balance [] a = "revenue" -> revenue
                        [] a = "expense" -> expense [] OTHER -> 0]

MCMovements == {Move(2, -2, 0), Move(1, 0, 0)}

\* A sale and its correction, the other way round.
MCCorrections == {Move(2, -2, 0), Move(-2, 2, 0)}

MCRequests == {r1, r2}

MCDates == 0 .. 2

MCSymmetry == Permutations(MCRequests)
=============================================================================
