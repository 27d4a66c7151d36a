--------------------------- MODULE MCAttestation ----------------------------
(* Attestation on a small instance. *)
EXTENDS Attestation

\* One attestation leaves the machine.  The files are followed on bases that
\* are neither changed nor put back: what a file says is what the document
\* downloaded at that moment says.
MCFocus ==
  /\ Cardinality(held) <= 1
  /\ (copies # {} \/ base.damage # "none") =>
       /\ DOMAIN files = {} /\ emission.stage = "idle" /\ day = 1

=============================================================================
