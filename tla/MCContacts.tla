---------------------------- MODULE MCContacts ------------------------------
(* Contacts on a small instance. *)
EXTENDS Contacts, TLC

CONSTANTS p1, p2

MCRequests == {p1, p2}

MCSymmetry == Permutations(MCRequests)

Patch(kind, name, address) == [kind |-> kind, name |-> name, address |-> address]

\* One column at a time, and the whole form.
MCPatches ==
  {Patch(kind, "absent", "absent") : kind \in Kinds}
    \cup {Patch("absent", name, "absent") : name \in {"", "ben"}}
    \cup {Patch("absent", "absent", address) : address \in {"", "here"}}
    \cup {Patch("customer", "ben", "here")}

Busy == {p \in Requests : req[p] # Idle}

\* Rows two requests were about to write at once are not followed further, and
\* the second contact, a customer, is not changed.  A second document comes
\* from the first; then one request at a time and one change.
MCFocus ==
  /\ disturbed = {}
  /\ Cardinality(was["c1"]) <= 3
  /\ was["c1"] # {} => \E identity \in was["c1"] : identity.name = "ann"
  /\ was["c2"] \subseteq {[name |-> "ben", address |-> "here"]}
  /\ "c2" \in Known => contacts["c2"].kind = "customer"
  /\ Len(documents) > 1 =>
       /\ documents[2].origin = 1
       /\ Cardinality(Busy) <= 1
       /\ Cardinality(was["c1"]) <= 2

=============================================================================
