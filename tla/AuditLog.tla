------------------------------ MODULE AuditLog ------------------------------
(***************************************************************************)
(* What the audit chain promises (CO art. 957a): one line of links.  Each  *)
(* link carries the number after its predecessor's and the predecessor's   *)
(* hash, and the only thing that ever happens to the chain is that one     *)
(* link is added at its end.                                               *)
(***************************************************************************)
EXTENDS Naturals, Sequences

CONSTANTS
  Contents,  \* what a link records; a hash is identified with what it hashes
  NoHash     \* prev_hash of the first link (NULL)

VARIABLE links

EndHash == IF links = <<>> THEN NoHash ELSE links[Len(links)].hash

Add(c) ==
  links' = Append(links, [hash |-> c, prev |-> EndHash, seq |-> Len(links) + 1])

Init == links = <<>>

Next == \E c \in Contents : Add(c)

Spec == Init /\ [][Next]_links
=============================================================================
