---------------------------- MODULE AuditAppend -----------------------------
(***************************************************************************)
(* AppendAuditEntry at the level of SQLite statements.  Requests running   *)
(* on different connections read the last link and insert the next one     *)
(* inside a transaction.  Two kinds of request do so:                      *)
(*   - a poster (PostEntry) changes the books in the same transaction;     *)
(*   - a tracer (recordOn, traceFor) has already committed its action and  *)
(*     opens a transaction for the link only; a failure is logged, never   *)
(*     returned.                                                           *)
(* SQLite in WAL mode is external: one write lock, readers on snapshots.   *)
(* The clear base is opened with _txlock=immediate: BEGIN takes the write  *)
(* lock.  The encrypted base is opened without it: BEGIN is deferred, the  *)
(* first read takes a snapshot and the first write asks for the lock,      *)
(* refused with SQLITE_BUSY_SNAPSHOT when someone committed meanwhile.     *)
(***************************************************************************)
EXTENDS Naturals, Sequences, FiniteSets

CONSTANTS
  Posters,  \* requests that post an entry
  Tracers,  \* requests that trace an action already done
  NoOne,    \* nobody holds the write lock; also prev_hash of the first link
  NoRow     \* no link read yet, or an empty table

Requests == Posters \cup Tracers

Link == [hash: Requests, prev: Requests \cup {NoOne}, seq: Nat]

ASSUME AuditAppendAssumption ==
  /\ Posters \cap Tracers = {}
  /\ NoOne \notin Requests
  /\ NoRow \notin Link

VARIABLES
  txlock,      \* "immediate" or "deferred", fixed when the base is opened
  audit_logs,  \* committed links, in order of insertion
  commits,     \* number of write transactions committed (the WAL's version)
  writer,      \* connection holding the write lock
  conn,        \* conn[p]: where request p is, its snapshot, the link it read
  done         \* requests whose effect on the books is committed

vars == <<txlock, audit_logs, commits, writer, conn, done>>

Start == [pc |-> "start", snapshot |-> 0, last |-> NoRow]

At(p, pc) == conn[p].pc = pc

Goto(p, pc) == conn' = [conn EXCEPT ![p].pc = pc]

Finished == {"traced", "busy", "busy_snapshot", "cancelled", "crashed"}

\* States in which the transaction of p is open.
InTransaction == {"begun", "read", "inserted", "updated"}

\* ORDER BY sequence_number DESC LIMIT 1
LastRow ==
  IF audit_logs = <<>>
  THEN NoRow
  ELSE CHOOSE row \in {audit_logs[k] : k \in DOMAIN audit_logs} :
         \A k \in DOMAIN audit_logs : audit_logs[k].seq <= row.seq

\* Faulty variant: the predecessor's prev_hash instead of its hash.
NextRowOfPredecessor(last, p) ==
  [hash |-> p,
   prev |-> IF last = NoRow THEN NoOne ELSE last.prev,
   seq  |-> IF last = NoRow THEN 1 ELSE last.seq + 1]

\* AppendAuditEntryFor: the link after the one read.
NextRow(last, p) ==
  [hash |-> p,
   prev |-> IF last = NoRow THEN NoOne ELSE last.hash,
   seq  |-> IF last = NoRow THEN 1 ELSE last.seq + 1]

-----------------------------------------------------------------------------

\* A tracer's action, committed by its own statement or transaction before
\* the link is even begun.
Act(p) ==
  /\ p \in Tracers
  /\ At(p, "start") /\ writer = NoOne
  /\ done' = done \cup {p}
  /\ commits' = commits + 1
  /\ Goto(p, "acted")
  /\ UNCHANGED <<txlock, audit_logs, writer>>

ReadyToBegin(p) == IF p \in Posters THEN At(p, "start") ELSE At(p, "acted")

\* Faulty variant: _txlock ignored.
BeginAlwaysDeferred(p) ==
  /\ ReadyToBegin(p)
  /\ Goto(p, "begun")
  /\ UNCHANGED <<txlock, audit_logs, commits, writer, done>>

\* BeginTx.  BEGIN IMMEDIATE waits for the write lock, BEGIN takes nothing.
Begin(p) ==
  /\ ReadyToBegin(p)
  /\ \/ /\ txlock = "immediate"
        /\ writer = NoOne
        /\ writer' = p
     \/ /\ txlock = "deferred"
        /\ UNCHANGED writer
  /\ Goto(p, "begun")
  /\ UNCHANGED <<txlock, audit_logs, commits, done>>

\* SELECT entry_hash, sequence_number: the first read takes the snapshot.
ReadLast(p) ==
  /\ At(p, "begun")
  /\ conn' = [conn EXCEPT ![p] = [pc |-> "read", snapshot |-> commits, last |-> LastRow]]
  /\ UNCHANGED <<txlock, audit_logs, commits, writer, done>>

\* INSERT INTO audit_logs: the first write of the transaction.  It needs the
\* write lock, and a snapshot that is still the last version of the base.
Insert(p) ==
  /\ At(p, "read")
  /\ writer \in {NoOne, p}
  /\ IF conn[p].snapshot = commits
     THEN /\ writer' = p
          /\ Goto(p, "inserted")
     ELSE /\ writer' = NoOne
          /\ Goto(p, "busy_snapshot")
  /\ UNCHANGED <<txlock, audit_logs, commits, done>>

\* Faulty variant: the books changed on another connection.
UpdateOutsideTransaction(p) ==
  /\ p \in Posters
  /\ At(p, "inserted")
  /\ Goto(p, "updated")
  /\ done' = done \cup {p}
  /\ UNCHANGED <<txlock, audit_logs, commits, writer>>

\* UPDATE journal_entries, in the poster's transaction: nothing is visible yet.
Update(p) ==
  /\ p \in Posters
  /\ At(p, "inserted")
  /\ Goto(p, "updated")
  /\ UNCHANGED <<txlock, audit_logs, commits, writer, done>>

\* COMMIT: the link, and the poster's change of the books, become visible.
Commit(p) ==
  /\ IF p \in Posters THEN At(p, "updated") ELSE At(p, "inserted")
  /\ audit_logs' = Append(audit_logs, NextRow(conn[p].last, p))
  /\ commits' = commits + 1
  /\ writer' = NoOne
  /\ done' = done \cup {p}
  /\ Goto(p, "traced")
  /\ UNCHANGED txlock

\* busy_timeout: five seconds of waiting for the write lock are over.
BusyTimeout(p) ==
  /\ writer \notin {NoOne, p}
  /\ \/ At(p, "start")
     \/ ReadyToBegin(p) /\ txlock = "immediate"
     \/ At(p, "read")
  /\ Goto(p, "busy")
  /\ UNCHANGED <<txlock, audit_logs, commits, writer, done>>

\* Faulty variant: no rollback.
CancelKeepingLock(p) ==
  /\ conn[p].pc \notin Finished
  /\ Goto(p, "cancelled")
  /\ UNCHANGED <<txlock, audit_logs, commits, writer, done>>

\* The client goes away: the request's context is cancelled, an open
\* transaction is rolled back, and what was not begun never will be.
Cancel(p) ==
  /\ conn[p].pc \notin Finished
  /\ Goto(p, "cancelled")
  /\ writer' = IF writer = p THEN NoOne ELSE writer
  /\ UNCHANGED <<txlock, audit_logs, commits, done>>

\* The process dies; SQLite discards what was not committed.
Crash ==
  /\ \E p \in Requests : conn[p].pc \notin Finished
  /\ conn' = [p \in Requests |->
       IF conn[p].pc \in Finished THEN conn[p] ELSE [conn[p] EXCEPT !.pc = "crashed"]]
  /\ writer' = NoOne
  /\ UNCHANGED <<txlock, audit_logs, commits, done>>

-----------------------------------------------------------------------------

Init ==
  /\ txlock \in {"immediate", "deferred"}
  /\ audit_logs = <<>>
  /\ commits = 0
  /\ writer = NoOne
  /\ conn = [p \in Requests |-> Start]
  /\ done = {}

Step(p) == Act(p) \/ Begin(p) \/ ReadLast(p) \/ Insert(p) \/ Update(p) \/ Commit(p)

Next ==
  \/ \E p \in Requests : Step(p) \/ BusyTimeout(p) \/ Cancel(p)
  \/ Crash

Spec == Init /\ [][Next]_vars

\* A goroutine whose next statement can run runs it.
Fairness == \A p \in Requests : WF_vars(Step(p))

FairSpec == Spec /\ Fairness

-----------------------------------------------------------------------------
(* Properties *)

\* Rows and connection states have the shape of the code's.
TypeOK ==
  /\ txlock \in {"immediate", "deferred"}
  /\ audit_logs \in Seq(Link)
  /\ commits \in Nat
  /\ writer \in Requests \cup {NoOne}
  /\ conn \in [Requests -> [pc: {"start", "acted"} \cup InTransaction \cup Finished,
                            snapshot: Nat, last: Link \cup {NoRow}]]
  /\ done \subseteq Requests

\* The chain is one line of links, in both modes of opening the base: a
\* transaction that would fork it fails instead.
Chain == INSTANCE AuditLog WITH
           links <- audit_logs, Contents <- Requests, NoHash <- NoOne

ChainSpec == Chain!Spec

\* A request that ended traced has one link, and no other has any: what the
\* books took in and what the chain says agree, a crash at any statement
\* included.  A poster that has no link left no trace in the books either.
BooksMatchChain ==
  /\ \A p \in Requests :
       Cardinality({k \in DOMAIN audit_logs : audit_logs[k].hash = p})
         = IF At(p, "traced") THEN 1 ELSE 0
  /\ \A p \in Posters : p \in done <=> At(p, "traced")

\* In the clear base a conflict becomes a wait: no link is refused because
\* another request committed since the last one was read.
ImmediateNeverStale ==
  txlock = "immediate" => \A p \in Requests : ~At(p, "busy_snapshot")

\* No request keeps the write lock for ever, so the others, who wait for it,
\* are not all stopped by one that failed.
LockReleased == \A p \in Requests : writer = p ~> writer # p

\* What the comment on the pragmas says of every base: no link disappears in
\* silence for a stale snapshot.
NeverStale == \A p \in Requests : ~At(p, "busy_snapshot")
=============================================================================
