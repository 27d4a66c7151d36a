------------------------------ MODULE MCAccess ------------------------------
(* Instances of Access for TLC. *)
EXTENDS Access, TLC

CONSTANTS a, b, r1, r2

MCAccounts == {a, b}

MCRequests == {r1, r2}

\* Nobody, one administrator, two of them, one with a reader.
MCPopulations == {[u \in S |-> "admin"] : S \in SUBSET Accounts}
                 \cup {[u \in Accounts |-> IF u = v THEN "viewer" ELSE "admin"] : v \in Accounts}

\* An expiry, silence or a read that fails matters to those who come back: it
\* is not combined with the administration of accounts.  Neither is a third
\* request.
MCFocus ==
  LET away == {u \in Accounts : \/ Exists(u) /\ u \notin access
                                \/ u \in quiet
                                \/ u \notin challenge /\ enrolled[u] = 1}
      back == {"none", "bootstrap", "login", "verify", "refresh"}
  IN /\ Cardinality(away) <= 1
     /\ away # {} \/ served > 2 \/ (\E r \in Requests : At(r, "unread")) =>
          \A r \in Requests : request[r].op \in back

MCSymmetry == {p @@ q : p \in Permutations(MCRequests), q \in Permutations(MCAccounts)}
=============================================================================
