----------------------------- MODULE MCDbFiles ------------------------------
(* Instances of DbFiles for TLC. *)
EXTENDS DbFiles

\* Snapshots and keys touch each other only through the restored base: a torn
\* snapshot, and the third one, which makes pruning prune, come on a machine
\* without a key and before any failure.
MCFocus ==
  made.backups = 3 \/ (\E b \in Range(backups) : ~b.enc /\ ~Whole(b))
    => sealed.key = NoKey /\ wrap = NoKey /\ mishap \subseteq {"reordered"}
=============================================================================
