---------------------------- MODULE AuditProofs -----------------------------
(***************************************************************************)
(* What holds of the appending to the audit chain for every set of         *)
(* requests: it refines AuditLog, and the books match the chain.           *)
(*                                                                         *)
(* Then what holds of its verification, whatever number of links is        *)
(* posted, whatever row is changed and whatever copy is put back: the walk *)
(* along the chain finds what was changed visibly and nothing else, and    *)
(* books that confirm an attestation hold what it was drawn from.          *)
(***************************************************************************)
EXTENDS AuditAppend, Attestation, FiniteSetTheorems, WellFoundedInduction, TLAPS

-----------------------------------------------------------------------------
(* The inductive invariant *)

\* The last link inserted, which ORDER BY sequence_number is to find.
EndRow == IF audit_logs = <<>> THEN NoRow ELSE audit_logs[Len(audit_logs)]

\* The sequence numbers are the positions.
Numbered == \A k \in DOMAIN audit_logs : audit_logs[k].seq = k

\* A snapshot is of this version of the base or of an earlier one, and one
\* that is still current shows the last link.
SnapshotsOK ==
  \A p \in Requests :
    conn[p].pc \in {"read", "inserted", "updated"} /\ conn[p].snapshot = commits
      => conn[p].last = EndRow

PastSnapshots == \A p \in Requests : conn[p].snapshot <= commits

\* After its first write a transaction holds the lock, and nobody can have
\* committed since its snapshot.
WritersOK ==
  \A p \in Requests :
    conn[p].pc \in {"inserted", "updated"} => writer = p /\ conn[p].snapshot = commits

\* On the clear base it holds the lock from its BEGIN.
ImmediateOK ==
  txlock = "immediate" =>
    \A p \in Requests :
      /\ conn[p].pc \in InTransaction => writer = p
      /\ conn[p].pc = "read" => conn[p].snapshot = commits

LinksAdded(p) == {k \in DOMAIN audit_logs : audit_logs[k].hash = p}

\* BooksMatchChain without cardinalities.
TracedOnce ==
  /\ \A p \in Requests :
       IF At(p, "traced") THEN \E k : LinksAdded(p) = {k} ELSE LinksAdded(p) = {}
  /\ \A p \in Posters : p \in done <=> At(p, "traced")

AuditInv ==
  /\ TypeOK
  /\ Numbered
  /\ PastSnapshots
  /\ SnapshotsOK
  /\ WritersOK
  /\ ImmediateOK
  /\ ImmediateNeverStale
  /\ TracedOnce

-----------------------------------------------------------------------------
(* Lemmas *)

PlaceOfRequest == {"start", "acted"} \cup InTransaction \cup Finished

ConnState == [pc: PlaceOfRequest, snapshot: Nat, last: Link \cup {NoRow}]

\* A request that goes elsewhere keeps what it has read, and leaves the others
\* where they are.
LEMMA GotoKeeps ==
  ASSUME conn \in [Requests -> ConnState], NEW p \in Requests,
         NEW pc \in PlaceOfRequest, Goto(p, pc)
  PROVE  /\ conn' \in [Requests -> ConnState]
         /\ conn'[p].pc = pc
         /\ conn'[p].snapshot = conn[p].snapshot
         /\ conn'[p].last = conn[p].last
         /\ \A q \in Requests : q # p => conn'[q] = conn[q]
  BY DEF Goto, ConnState

\* ORDER BY sequence_number DESC LIMIT 1 finds the link inserted last.
LEMMA LastRowIsEndRow ==
  ASSUME audit_logs \in Seq(Link), Numbered
  PROVE  LastRow = EndRow
<1>1. CASE audit_logs = <<>>
  BY <1>1 DEF LastRow, EndRow
<1>2. CASE audit_logs # <<>>
  <2> DEFINE rows == {audit_logs[k] : k \in DOMAIN audit_logs}
             IsLast(row) == \A k \in DOMAIN audit_logs : audit_logs[k].seq <= row.seq
  <2>1. /\ Len(audit_logs) \in DOMAIN audit_logs
        /\ \A k \in DOMAIN audit_logs : k \in 1 .. Len(audit_logs)
    BY <1>2
  <2>2. EndRow \in rows /\ IsLast(EndRow)
    BY <1>2, <2>1 DEF EndRow, Numbered
  <2>3. ASSUME NEW row \in rows, IsLast(row)
        PROVE  row = EndRow
    <3>1. PICK k \in DOMAIN audit_logs : row = audit_logs[k]
      OBVIOUS
    <3>2. k = Len(audit_logs)
      BY <2>1, <2>3, <3>1 DEF Numbered
    <3> QED
      BY <1>2, <3>1, <3>2 DEF EndRow
  <2>4. LastRow = CHOOSE row \in rows : IsLast(row)
    BY <1>2 DEF LastRow
  <2> HIDE DEF rows, IsLast
  <2> QED
    BY <2>2, <2>3, <2>4
<1> QED
  BY <1>1, <1>2

\* The link after the last one is the one AuditLog adds.
LEMMA NextAfterEndRow ==
  ASSUME audit_logs \in Seq(Link), Numbered, NEW p \in Requests
  PROVE  /\ NextRow(EndRow, p) \in Link
         /\ NextRow(EndRow, p) =
              [hash |-> p, prev |-> Chain!EndHash, seq |-> Len(audit_logs) + 1]
<1>1. CASE audit_logs = <<>>
  <2>1. EndRow = NoRow /\ Len(audit_logs) = 0
    BY <1>1 DEF EndRow
  <2>2. NextRow(EndRow, p) = [hash |-> p, prev |-> NoOne, seq |-> 1]
    BY <2>1 DEF NextRow
  <2> QED
    BY <1>1, <2>1, <2>2 DEF Chain!EndHash, Link
<1>2. CASE audit_logs # <<>>
  <2>1. Len(audit_logs) \in DOMAIN audit_logs /\ EndRow = audit_logs[Len(audit_logs)]
    BY <1>2 DEF EndRow
  <2>2. EndRow \in Link /\ EndRow # NoRow
    BY <2>1, AuditAppendAssumption
  <2>3. EndRow.seq = Len(audit_logs)
    BY <2>1 DEF Numbered
  <2>4. NextRow(EndRow, p) =
          [hash |-> p, prev |-> EndRow.hash, seq |-> Len(audit_logs) + 1]
    BY <2>2, <2>3 DEF NextRow
  <2>5. Chain!EndHash = EndRow.hash
    BY <1>2, <2>1 DEF Chain!EndHash
  <2>6. EndRow.hash \in Requests /\ Len(audit_logs) + 1 \in Nat
    BY <2>2 DEF Link
  <2> QED
    BY <2>4, <2>5, <2>6 DEF Link
<1> QED
  BY <1>1, <1>2

\* A step that leaves the chain and the version of the base alone, moves one
\* request p from an unfinished place to one that is not traced and that has
\* not written more, and gives the lock to nobody but p.
Moves(p, pc) ==
  /\ conn[p].pc \notin Finished
  /\ pc \in PlaceOfRequest \ {"traced"}
  /\ Goto(p, pc)
  /\ UNCHANGED <<txlock, audit_logs, commits, done>>
  /\ writer' = writer \/ writer' = p \/ (writer = p /\ writer' = NoOne)
  /\ \A q \in Requests : q # p /\ writer = q => writer' = q

LEMMA MoveKeeps ==
  ASSUME AuditInv, NEW p \in Requests, NEW pc, Moves(p, pc),
         pc # "read",
         pc \in {"inserted", "updated"} =>
           /\ conn[p].pc \in {"read", "inserted", "updated"}
           /\ writer' = p /\ conn[p].snapshot = commits,
         txlock = "immediate" /\ pc \in InTransaction => writer' = p,
         txlock = "immediate" => pc # "busy_snapshot"
  PROVE  AuditInv'
<1>1. conn \in [Requests -> ConnState] /\ audit_logs \in Seq(Link) /\ commits \in Nat
  BY DEF AuditInv, TypeOK, ConnState, PlaceOfRequest
<1>2. /\ conn' \in [Requests -> ConnState]
      /\ conn'[p].pc = pc
      /\ conn'[p].snapshot = conn[p].snapshot
      /\ conn'[p].last = conn[p].last
      /\ \A q \in Requests : q # p => conn'[q] = conn[q]
  BY <1>1, GotoKeeps DEF Moves
<1>3. UNCHANGED <<txlock, audit_logs, commits, done>>
  BY DEF Moves
<1>4. TypeOK'
  BY <1>2, <1>3 DEF AuditInv, TypeOK, Moves, ConnState, PlaceOfRequest
<1>5. Numbered' /\ EndRow' = EndRow
  BY <1>3 DEF AuditInv, Numbered, EndRow
<1>6. SnapshotsOK' /\ PastSnapshots'
  BY <1>2, <1>3, <1>5 DEF AuditInv, SnapshotsOK, PastSnapshots
<1>7. WritersOK'
  BY <1>2, <1>3 DEF AuditInv, WritersOK, Moves
<1>8. ImmediateOK'
  BY <1>2, <1>3 DEF AuditInv, ImmediateOK, Moves
<1>9. ImmediateNeverStale'
  BY <1>2, <1>3 DEF AuditInv, ImmediateNeverStale, At
<1>10. TracedOnce'
  <2>1. \A q \in Requests : At(q, "traced")' <=> At(q, "traced")
    BY <1>2 DEF At, Moves, Finished
  <2>2. \A q \in Requests : LinksAdded(q)' = LinksAdded(q)
    BY <1>3 DEF LinksAdded
  <2>3. Posters \subseteq Requests
    BY DEF Requests
  <2> QED
    BY <1>3, <2>1, <2>2, <2>3 DEF AuditInv, TracedOnce
<1> QED
  BY <1>4, <1>5, <1>6, <1>7, <1>8, <1>9, <1>10 DEF AuditInv

-----------------------------------------------------------------------------
(* The invariant *)

LEMMA InitInv == Init => AuditInv
<1> SUFFICES ASSUME Init PROVE AuditInv
  OBVIOUS
<1>1. \A p \in Requests : conn[p] = Start
  BY DEF Init
<1>2. TypeOK
  BY DEF Init, TypeOK, Start
<1>3. Numbered /\ \A p \in Requests : LinksAdded(p) = {}
  BY DEF Init, Numbered, LinksAdded
<1>4. TracedOnce
  BY <1>1, <1>3 DEF Init, TracedOnce, At, Start, Requests
<1> QED
  BY <1>1, <1>2, <1>3, <1>4
  DEF AuditInv, SnapshotsOK, PastSnapshots, WritersOK, ImmediateOK, ImmediateNeverStale,
      At, Start, InTransaction, Init

\* When a transaction commits, every snapshot becomes one of an earlier version.
LEMMA CommitAges ==
  ASSUME AuditInv, commits' = commits + 1, conn' \in [Requests -> ConnState],
         \A q \in Requests : conn'[q].snapshot = conn[q].snapshot
  PROVE  PastSnapshots' /\ SnapshotsOK'
<1>1. \A q \in Requests : conn[q].snapshot \in Nat /\ conn[q].snapshot <= commits
  BY DEF AuditInv, TypeOK, PastSnapshots
<1>2. commits \in Nat
  BY DEF AuditInv, TypeOK
<1>3. \A q \in Requests : conn'[q].snapshot <= commits' /\ conn'[q].snapshot # commits'
  BY <1>1, <1>2
<1> QED
  BY <1>3 DEF PastSnapshots, SnapshotsOK

LEMMA ActKeeps ==
  ASSUME AuditInv, NEW p \in Requests, Act(p)
  PROVE  AuditInv'
<1>1. conn \in [Requests -> ConnState]
  BY DEF AuditInv, TypeOK, ConnState, PlaceOfRequest
<1>2. /\ conn' \in [Requests -> ConnState]
      /\ conn'[p].pc = "acted"
      /\ \A q \in Requests : conn'[q].snapshot = conn[q].snapshot
      /\ \A q \in Requests : q # p => conn'[q] = conn[q]
  <2>1. "acted" \in PlaceOfRequest
    BY DEF PlaceOfRequest
  <2> QED
    BY <1>1, <2>1, GotoKeeps DEF Act
<1>3. /\ UNCHANGED <<txlock, audit_logs, writer>>
      /\ writer = NoOne /\ commits' = commits + 1 /\ done' = done \cup {p}
      /\ p \notin Posters /\ conn[p].pc = "start"
  BY AuditAppendAssumption DEF Act, At
<1>4. TypeOK'
  BY <1>2, <1>3 DEF AuditInv, TypeOK, ConnState, PlaceOfRequest
<1>5. Numbered'
  BY <1>3 DEF AuditInv, Numbered
<1>6. PastSnapshots' /\ SnapshotsOK'
  BY <1>2, <1>3, CommitAges
<1>7. \A q \in Requests : writer # q
  BY <1>3, AuditAppendAssumption
<1>8. WritersOK'
  BY <1>2, <1>7 DEF AuditInv, WritersOK
<1>9. ImmediateOK'
  BY <1>2, <1>3, <1>7 DEF AuditInv, ImmediateOK, InTransaction
<1>10. ImmediateNeverStale'
  BY <1>2, <1>3 DEF AuditInv, ImmediateNeverStale, At
<1>11. TracedOnce'
  <2>1. \A q \in Requests : At(q, "traced")' <=> At(q, "traced")
    BY <1>2, <1>3 DEF At
  <2>2. \A q \in Requests : LinksAdded(q)' = LinksAdded(q)
    BY <1>3 DEF LinksAdded
  <2>3. \A q \in Posters : q \in Requests /\ (q \in done' <=> q \in done)
    BY <1>3 DEF Requests
  <2> QED
    BY <2>1, <2>2, <2>3 DEF AuditInv, TracedOnce
<1> QED
  BY <1>4, <1>5, <1>6, <1>8, <1>9, <1>10, <1>11 DEF AuditInv

LEMMA BeginKeeps ==
  ASSUME AuditInv, NEW p \in Requests, Begin(p)
  PROVE  AuditInv'
<1>1. conn[p].pc \in {"start", "acted"}
  BY DEF Begin, ReadyToBegin, At
<1>2. Moves(p, "begun")
  BY <1>1, AuditAppendAssumption DEF Begin, Moves, Finished, PlaceOfRequest, InTransaction
<1>3. txlock = "immediate" => writer' = p
  BY DEF Begin
<1> QED
  BY <1>2, <1>3, MoveKeeps

LEMMA InsertKeeps ==
  ASSUME AuditInv, NEW p \in Requests, Insert(p)
  PROVE  AuditInv'
<1>1. conn[p].pc = "read"
  BY DEF Insert, At
<1>2. CASE conn[p].snapshot = commits
  <2>1. Moves(p, "inserted") /\ writer' = p
    BY <1>1, <1>2, AuditAppendAssumption
    DEF Insert, Moves, Finished, PlaceOfRequest, InTransaction
  <2> QED
    BY <1>1, <1>2, <2>1, MoveKeeps
<1>3. CASE conn[p].snapshot # commits
  <2>1. Moves(p, "busy_snapshot")
    BY <1>1, <1>3, AuditAppendAssumption
    DEF Insert, Moves, Finished, PlaceOfRequest, InTransaction
  <2>2. txlock # "immediate"
    BY <1>1, <1>3 DEF AuditInv, ImmediateOK
  <2> QED
    BY <2>1, <2>2, MoveKeeps DEF InTransaction
<1> QED
  BY <1>2, <1>3

LEMMA UpdateKeeps ==
  ASSUME AuditInv, NEW p \in Requests, Update(p)
  PROVE  AuditInv'
<1>1. conn[p].pc = "inserted"
  BY DEF Update, At
<1>2. writer = p /\ conn[p].snapshot = commits
  BY <1>1 DEF AuditInv, WritersOK
<1>3. Moves(p, "updated") /\ writer' = p
  BY <1>1, <1>2 DEF Update, Moves, Finished, PlaceOfRequest, InTransaction
<1> QED
  BY <1>1, <1>2, <1>3, MoveKeeps

LEMMA BusyTimeoutKeeps ==
  ASSUME AuditInv, NEW p \in Requests, BusyTimeout(p)
  PROVE  AuditInv'
<1>1. conn[p].pc \in {"start", "acted", "read"}
  BY DEF BusyTimeout, ReadyToBegin, At
<1>2. Moves(p, "busy")
  BY <1>1 DEF BusyTimeout, Moves, Finished, PlaceOfRequest, InTransaction
<1> QED
  BY <1>2, MoveKeeps DEF InTransaction

LEMMA CancelKeeps ==
  ASSUME AuditInv, NEW p \in Requests, Cancel(p)
  PROVE  AuditInv'
<1>1. Moves(p, "cancelled")
  BY DEF Cancel, Moves, Finished, PlaceOfRequest
<1> QED
  BY <1>1, MoveKeeps DEF InTransaction

LEMMA ReadKeeps ==
  ASSUME AuditInv, NEW p \in Requests, ReadLast(p)
  PROVE  AuditInv'
<1>1. conn \in [Requests -> ConnState] /\ audit_logs \in Seq(Link) /\ commits \in Nat
  BY DEF AuditInv, TypeOK, ConnState, PlaceOfRequest
<1>2. /\ UNCHANGED <<txlock, audit_logs, commits, writer, done>>
      /\ conn[p].pc = "begun"
      /\ conn' = [conn EXCEPT ![p] = [pc |-> "read", snapshot |-> commits, last |-> LastRow]]
  BY DEF ReadLast, At
<1>3. LastRow = EndRow
  BY <1>1, LastRowIsEndRow DEF AuditInv
<1>4. EndRow \in Link \cup {NoRow} /\ EndRow' = EndRow
  <2>1. audit_logs # <<>> => Len(audit_logs) \in DOMAIN audit_logs
    BY <1>1
  <2> QED
    BY <1>1, <1>2, <2>1 DEF EndRow
<1>5. /\ conn' \in [Requests -> ConnState]
      /\ conn'[p] = [pc |-> "read", snapshot |-> commits, last |-> EndRow]
      /\ \A q \in Requests : q # p => conn'[q] = conn[q]
  <2>1. [pc |-> "read", snapshot |-> commits, last |-> EndRow] \in ConnState
    BY <1>1, <1>4 DEF ConnState, PlaceOfRequest, InTransaction
  <2> QED
    BY <1>1, <1>2, <1>3, <2>1
<1>6. TypeOK'
  BY <1>2, <1>5 DEF AuditInv, TypeOK, ConnState, PlaceOfRequest
<1>7. Numbered'
  BY <1>2 DEF AuditInv, Numbered
<1>8. PastSnapshots' /\ SnapshotsOK'
  BY <1>1, <1>2, <1>4, <1>5 DEF AuditInv, PastSnapshots, SnapshotsOK
<1>9. WritersOK'
  BY <1>2, <1>5 DEF AuditInv, WritersOK
<1>10. ImmediateOK' /\ ImmediateNeverStale'
  BY <1>2, <1>5 DEF AuditInv, ImmediateOK, ImmediateNeverStale, At, InTransaction
<1>11. TracedOnce'
  <2>1. \A q \in Requests : At(q, "traced")' <=> At(q, "traced")
    BY <1>2, <1>5 DEF At
  <2>2. \A q \in Requests : LinksAdded(q)' = LinksAdded(q)
    BY <1>2 DEF LinksAdded
  <2> QED
    BY <1>2, <2>1, <2>2 DEF AuditInv, TracedOnce, Requests
<1> QED
  BY <1>6, <1>7, <1>8, <1>9, <1>10, <1>11 DEF AuditInv

LEMMA CrashKeeps ==
  ASSUME AuditInv, Crash
  PROVE  AuditInv'
<1>1. conn \in [Requests -> ConnState]
  BY DEF AuditInv, TypeOK, ConnState, PlaceOfRequest
<1>2. UNCHANGED <<txlock, audit_logs, commits, done>> /\ writer' = NoOne
  BY DEF Crash
<1>3. /\ conn' \in [Requests -> ConnState]
      /\ \A q \in Requests :
           /\ conn'[q].pc = IF conn[q].pc \in Finished THEN conn[q].pc ELSE "crashed"
           /\ conn'[q].snapshot = conn[q].snapshot
  BY <1>1 DEF Crash, ConnState, PlaceOfRequest, Finished
<1>4. TypeOK'
  BY <1>2, <1>3 DEF AuditInv, TypeOK, ConnState, PlaceOfRequest
<1>5. Numbered' /\ PastSnapshots'
  BY <1>2, <1>3 DEF AuditInv, Numbered, PastSnapshots
<1>6. \A q \in Requests : conn'[q].pc \in Finished
  BY <1>3 DEF Finished
<1>7. SnapshotsOK' /\ WritersOK' /\ ImmediateOK'
  BY <1>6 DEF SnapshotsOK, WritersOK, ImmediateOK, InTransaction, Finished
<1>8. ImmediateNeverStale'
  BY <1>2, <1>3 DEF AuditInv, ImmediateNeverStale, At, Finished
<1>9. TracedOnce'
  <2>1. \A q \in Requests : At(q, "traced")' <=> At(q, "traced")
    BY <1>3 DEF At, Finished
  <2>2. \A q \in Requests : LinksAdded(q)' = LinksAdded(q)
    BY <1>2 DEF LinksAdded
  <2> QED
    BY <1>2, <2>1, <2>2 DEF AuditInv, TracedOnce, Requests
<1> QED
  BY <1>4, <1>5, <1>7, <1>8, <1>9 DEF AuditInv

\* The link a transaction commits is the one after the last.
LEMMA CommitAdds ==
  ASSUME AuditInv, NEW p \in Requests, Commit(p)
  PROVE  Chain!Add(p)
<1>1. conn[p].pc \in {"inserted", "updated"}
  BY DEF Commit, At
<1>2. conn[p].last = EndRow
  BY <1>1 DEF AuditInv, WritersOK, SnapshotsOK
<1>3. audit_logs' = Append(audit_logs, NextRow(EndRow, p))
  BY <1>2 DEF Commit
<1> QED
  BY <1>3, NextAfterEndRow DEF AuditInv, TypeOK, Chain!Add

LEMMA CommitKeeps ==
  ASSUME AuditInv, NEW p \in Requests, Commit(p)
  PROVE  AuditInv'
<1> DEFINE n == Len(audit_logs) + 1
           row == NextRow(EndRow, p)
<1>1. conn \in [Requests -> ConnState] /\ audit_logs \in Seq(Link) /\ commits \in Nat
  BY DEF AuditInv, TypeOK, ConnState, PlaceOfRequest
<1>2. /\ conn[p].pc \in {"inserted", "updated"}
      /\ UNCHANGED txlock
      /\ commits' = commits + 1 /\ writer' = NoOne /\ done' = done \cup {p}
  BY DEF Commit, At
<1>3. writer = p /\ conn[p].last = EndRow
  BY <1>2 DEF AuditInv, WritersOK, SnapshotsOK
<1>4. /\ conn' \in [Requests -> ConnState]
      /\ conn'[p].pc = "traced"
      /\ \A q \in Requests : conn'[q].snapshot = conn[q].snapshot
      /\ \A q \in Requests : q # p => conn'[q] = conn[q]
  <2>1. "traced" \in PlaceOfRequest
    BY DEF PlaceOfRequest, Finished
  <2> QED
    BY <1>1, <2>1, GotoKeeps DEF Commit
<1>5. row \in Link /\ row.seq = n /\ row.hash = p
  BY <1>1, NextAfterEndRow DEF AuditInv
<1>6. /\ audit_logs' \in Seq(Link)
      /\ DOMAIN audit_logs' = DOMAIN audit_logs \cup {n}
      /\ n \notin DOMAIN audit_logs
      /\ audit_logs'[n] = row
      /\ \A k \in DOMAIN audit_logs : audit_logs'[k] = audit_logs[k]
  <2>1. audit_logs' = Append(audit_logs, row)
    BY <1>3 DEF Commit
  <2> HIDE DEF row
  <2> QED
    BY <1>1, <1>5, <2>1
<1>7. TypeOK'
  BY <1>1, <1>2, <1>4, <1>6 DEF AuditInv, TypeOK, ConnState, PlaceOfRequest
<1>8. Numbered'
  BY <1>5, <1>6 DEF AuditInv, Numbered
<1>9. PastSnapshots' /\ SnapshotsOK'
  BY <1>2, <1>4, CommitAges
<1>10. \A q \in Requests : q # p => writer # q
  BY <1>3
<1>11. WritersOK'
  BY <1>4, <1>10 DEF AuditInv, WritersOK
<1>12. ImmediateOK'
  BY <1>2, <1>4, <1>10 DEF AuditInv, ImmediateOK, InTransaction
<1>13. ImmediateNeverStale'
  BY <1>2, <1>4 DEF AuditInv, ImmediateNeverStale, At
<1>14. TracedOnce'
  <2>1. \A q \in Requests :
          /\ At(q, "traced")' <=> q = p \/ At(q, "traced")
          /\ ~At(p, "traced")
    BY <1>2, <1>4 DEF At
  <2>2. \A q \in Requests : LinksAdded(q)' = IF q = p THEN LinksAdded(q) \cup {n} ELSE LinksAdded(q)
    BY <1>5, <1>6 DEF LinksAdded
  <2>3. LinksAdded(p)' = {n}
    BY <2>1, <2>2 DEF AuditInv, TracedOnce
  <2>4. \A q \in Posters : q \in Requests /\ (q \in done' <=> q = p \/ q \in done)
    BY <1>2 DEF Requests
  <2>5. \A q \in Requests :
          IF At(q, "traced")' THEN \E k : LinksAdded(q)' = {k} ELSE LinksAdded(q)' = {}
    BY <2>1, <2>2, <2>3 DEF AuditInv, TracedOnce
  <2>6. \A q \in Posters : q \in done' <=> At(q, "traced")'
    BY <2>1, <2>4 DEF AuditInv, TracedOnce
  <2> QED
    BY <2>5, <2>6 DEF TracedOnce
<1> QED
  BY <1>7, <1>8, <1>9, <1>11, <1>12, <1>13, <1>14 DEF AuditInv

LEMMA StepInv == AuditInv /\ [Next]_vars => AuditInv'
<1> SUFFICES ASSUME AuditInv, [Next]_vars PROVE AuditInv'
  OBVIOUS
<1>1. CASE UNCHANGED vars
  BY <1>1 DEF vars, AuditInv, TypeOK, Numbered, PastSnapshots, SnapshotsOK, EndRow,
              WritersOK, ImmediateOK, ImmediateNeverStale, TracedOnce, LinksAdded, At
<1>2. ASSUME NEW p \in Requests, Step(p) PROVE AuditInv'
  BY <1>2, ActKeeps, BeginKeeps, ReadKeeps, InsertKeeps, UpdateKeeps, CommitKeeps DEF Step
<1> QED
  BY <1>1, <1>2, BusyTimeoutKeeps, CancelKeeps, CrashKeeps DEF Next

-----------------------------------------------------------------------------
(* Theorems *)

\* The inductive invariant of the appends, on both modes of opening the base.
THEOREM AuditInvariant == Spec => []AuditInv
<1> QED
  BY InitInv, StepInv, PTL DEF Spec

\* Rows and connections have their types.
THEOREM AuditTypes == Spec => []TypeOK
<1>1. AuditInv => TypeOK
  BY DEF AuditInv
<1> QED
  BY <1>1, AuditInvariant, PTL

\* AppendAuditEntry and SQLite's locks implement the chain AuditLog promises:
\* links are only ever added, each after the last, whatever interleaves.
THEOREM ChainRefined == Spec => ChainSpec
<1>1. Init => Chain!Init
  BY DEF Init, Chain!Init
<1>2. AuditInv /\ [Next]_vars => [Chain!Next]_audit_logs
  <2> SUFFICES ASSUME AuditInv, [Next]_vars, audit_logs' # audit_logs
               PROVE  Chain!Next
    OBVIOUS
  <2>1. PICK p \in Requests : Commit(p)
    BY DEF Next, vars, Step, Act, Begin, ReadLast, Insert, Update, BusyTimeout, Cancel, Crash
  <2>2. Chain!Add(p)
    BY <2>1, CommitAdds
  <2> QED
    BY <2>2 DEF Chain!Next
<1> QED
  BY <1>1, <1>2, AuditInvariant, PTL DEF Spec, ChainSpec, Chain!Spec

\* A request has a link exactly when it ended traced, and a posting is in the
\* books exactly when its link is in the chain.
THEOREM BooksMatchChainTheorem == Spec => []BooksMatchChain
<1>1. AuditInv => BooksMatchChain
  <2> SUFFICES ASSUME AuditInv PROVE BooksMatchChain
    OBVIOUS
  <2>1. ASSUME NEW p \in Requests
        PROVE  Cardinality(LinksAdded(p)) = IF At(p, "traced") THEN 1 ELSE 0
    BY FS_Singleton, FS_EmptySet DEF AuditInv, TracedOnce
  <2> QED
    BY <2>1 DEF AuditInv, TracedOnce, BooksMatchChain, LinksAdded
<1> QED
  BY <1>1, AuditInvariant, PTL

\* On the clear base no transaction is refused for a stale snapshot.
THEOREM ImmediateNeverStaleTheorem == Spec => []ImmediateNeverStale
<1>1. AuditInv => ImmediateNeverStale
  BY DEF AuditInv
<1> QED
  BY <1>1, AuditInvariant, PTL

-----------------------------------------------------------------------------
(* Sets of numbers *)

\* A set of natural numbers that is not empty has a least element.
LEMMA LeastNumber ==
  ASSUME NEW T \in SUBSET Nat, T # {}
  PROVE  \E n \in T : \A m \in T : n <= m
<1> DEFINE R == {ss \in Nat \X Nat : ss[1] < ss[2]}
<1>1. IsWellFoundedOn(R, Nat)
  <2>1. OpToRel(<, Nat) = R
    BY DEF OpToRel
  <2> QED
    BY <2>1, NatLessThanWellFounded
<1>2. PICK n \in T : \A m \in T : ~(<<m, n>> \in R)
  <2> HIDE DEF R
  <2> QED
    BY <1>1, WFMin
<1>3. ASSUME NEW m \in T
      PROVE  n <= m
  <2>1. n \in Nat /\ m \in Nat
    OBVIOUS
  <2>2. m < n => <<m, n>> \in R
    BY <2>1
  <2>3. ~(m < n)
    BY <1>2, <2>2
  <2> QED
    BY <2>1, <2>3
<1> QED
  BY <1>3

\* One with a bound has a greatest: the least distance to the bound is its.
LEMMA GreatestNumber ==
  ASSUME NEW T \in SUBSET Nat, T # {}, NEW b \in Nat, \A m \in T : m <= b
  PROVE  \E n \in T : \A m \in T : m <= n
<1> DEFINE D == {b - m : m \in T}
<1>1. D \in SUBSET Nat /\ D # {}
  <2>1. \A m \in T : b - m \in Nat
    OBVIOUS
  <2> QED
    BY <2>1
<1> HIDE DEF D
<1>2. PICK d \in D : \A e \in D : d <= e
  BY <1>1, LeastNumber
<1>3. PICK n \in T : d = b - n
  BY DEF D
<1>4. ASSUME NEW m \in T
      PROVE  m <= n
  <2>1. d <= b - m
    BY <1>2 DEF D
  <2> QED
    BY <1>3, <2>1
<1> QED
  BY <1>4

\* A finite set has a bound: a smallest one without would have one with the
\* element it takes away.
LEMMA FiniteBound ==
  ASSUME NEW S \in SUBSET Nat, IsFiniteSet(S)
  PROVE  \E b \in Nat : \A m \in S : m <= b
<1> DEFINE Bound(s) == \E b \in Nat : \A m \in s : m <= b
           B == {s \in SUBSET S : ~Bound(s)}
           N == {Cardinality(s) : s \in B}
<1> SUFFICES ASSUME ~Bound(S) PROVE FALSE
  OBVIOUS
<1>1. \A s \in SUBSET S : IsFiniteSet(s) /\ Cardinality(s) \in Nat
  BY FS_Subset, FS_CardinalityType
<1>2. N \in SUBSET Nat /\ N # {}
  BY <1>1
<1>3. PICK n \in N : \A k \in N : n <= k
  <2> HIDE DEF N
  <2> QED
    BY <1>2, LeastNumber
<1>4. PICK s \in B : n = Cardinality(s)
  OBVIOUS
<1>5. s \in SUBSET S /\ ~Bound(s) /\ IsFiniteSet(s) /\ Cardinality(s) \in Nat
  BY <1>1
<1>6. PICK x \in s : TRUE
  <2>1. Bound({})
    OBVIOUS
  <2> QED
    BY <1>5, <2>1
<1>7. Cardinality(s \ {x}) = Cardinality(s) - 1 /\ s \ {x} \in SUBSET S
  BY <1>5, FS_RemoveElement
<1>8. Bound(s \ {x})
  <2>1. s \ {x} \in B => Cardinality(s \ {x}) \in N
    OBVIOUS
  <2> HIDE DEF N, Bound
  <2>2. s \ {x} \notin B
    <3> HIDE DEF B
    <3> QED
      BY <1>3, <1>4, <1>5, <1>7, <2>1
  <2> QED
    BY <1>7, <2>2
<1>9. PICK b \in Nat : \A m \in s \ {x} : m <= b
  BY <1>8
<1>10. x \in Nat
  BY <1>5
<1>11. CASE b <= x
  BY <1>5, <1>9, <1>10, <1>11
<1>12. CASE x <= b
  BY <1>5, <1>9, <1>10, <1>12
<1> QED
  BY <1>9, <1>10, <1>11, <1>12

-----------------------------------------------------------------------------
(* Chains of links *)

LinkRow == [seq : Nat, content : Int, hash : Int, prev : Int, version : {1, 2}]

\* What the columns of audit_logs allow: a number is borne once.
TableType(rows) ==
  /\ rows \subseteq LinkRow /\ IsFiniteSet(rows)
  /\ \A r, q \in rows : r.seq = q.seq => r = q

\* Row r begins the chain, or points to the row numbered just before it.
Follows(r, rows) ==
  \/ r.seq = 1 /\ r.prev = NoHash
  \/ \E q \in rows : r.seq = q.seq + 1 /\ r.prev = q.hash

Genuine(r) == r.version = 2 => r.hash = r.content

\* What a walk finds nothing to say about.
Chained(rows) == \A r \in rows : Genuine(r) /\ Follows(r, rows)

LEMMA SeqsType ==
  ASSUME NEW rows, TableType(rows)
  PROVE  Seqs(rows) \in SUBSET Nat /\ IsFiniteSet(Seqs(rows))
<1>1. Seqs(rows) \in SUBSET Nat
  BY DEF Seqs, TableType, LinkRow
<1>2. IsFiniteSet(Seqs(rows))
  <2> DEFINE f == [r \in rows |-> r.seq]
  <2>1. f \in Surjection(rows, Seqs(rows))
    BY DEF Seqs, Surjection
  <2> HIDE DEF f
  <2> QED
    BY <2>1, FS_Surjection DEF TableType
<1> QED
  BY <1>1, <1>2

\* The last row of a table is the one with the greatest number.
LEMMA LastIs ==
  ASSUME NEW rows, TableType(rows), rows # {}
  PROVE  Last(rows) \in rows /\ \A q \in rows : q.seq <= Last(rows).seq
<1>1. Seqs(rows) \in SUBSET Nat /\ Seqs(rows) # {} /\ \E b \in Nat : \A m \in Seqs(rows) : m <= b
  <2>1. Seqs(rows) \in SUBSET Nat /\ IsFiniteSet(Seqs(rows))
    BY SeqsType
  <2>2. Seqs(rows) # {}
    BY DEF Seqs
  <2> QED
    BY <2>1, <2>2, FiniteBound
<1>2. \E n \in Seqs(rows) : \A m \in Seqs(rows) : m <= n
  BY <1>1, GreatestNumber
<1>3. PICK n : n = Max(Seqs(rows))
  OBVIOUS
<1>4. n \in Seqs(rows) /\ \A m \in Seqs(rows) : m <= n
  <2>1. \E k \in Seqs(rows) : \A m \in Seqs(rows) : k >= m
    BY <1>1, <1>2
  <2>2. n = CHOOSE k \in Seqs(rows) : \A m \in Seqs(rows) : k >= m
    BY <1>3 DEF Max
  <2>3. n \in Seqs(rows) /\ \A m \in Seqs(rows) : n >= m
    BY <2>1, <2>2
  <2> QED
    BY <1>1, <2>3
<1>5. \E r \in rows : r.seq = n
  BY <1>4 DEF Seqs
<1>6. Last(rows) = CHOOSE r \in rows : r.seq = n
  BY <1>3 DEF Last
<1>7. Last(rows) \in rows /\ Last(rows).seq = n
  BY <1>5, <1>6
<1> QED
  BY <1>4, <1>7 DEF Seqs

LEMMA LastOnly ==
  ASSUME NEW rows, TableType(rows), NEW r \in rows, \A q \in rows : q.seq <= r.seq
  PROVE  Last(rows) = r
<1>1. Last(rows) \in rows /\ r.seq <= Last(rows).seq /\ Last(rows).seq <= r.seq
  BY LastIs
<1>2. Last(rows).seq \in Nat /\ r.seq \in Nat
  BY <1>1 DEF TableType, LinkRow
<1> QED
  BY <1>1, <1>2 DEF TableType

LEMMA FirstIs ==
  ASSUME NEW rows, TableType(rows), rows # {}
  PROVE  First(rows) \in rows /\ \A q \in rows : First(rows).seq <= q.seq
<1>1. Seqs(rows) \in SUBSET Nat /\ Seqs(rows) # {}
  BY SeqsType DEF Seqs
<1>2. PICK n : n = Min(Seqs(rows))
  OBVIOUS
<1>3. n \in Seqs(rows) /\ \A m \in Seqs(rows) : n <= m
  BY <1>1, <1>2, LeastNumber DEF Min
<1>4. \E r \in rows : r.seq = n
  BY <1>3 DEF Seqs
<1>5. First(rows) \in rows /\ First(rows).seq = n
  BY <1>2, <1>4 DEF First
<1> QED
  BY <1>3, <1>5 DEF Seqs

LEMMA PartType ==
  ASSUME NEW rows, TableType(rows), NEW part \in SUBSET rows
  PROVE  TableType(part)
  BY FS_Subset DEF TableType

\* The row before another one has a smaller number, and no row is between them.
LEMMA BeforeIs ==
  ASSUME NEW rows, TableType(rows), NEW r \in rows, r # First(rows)
  PROVE  /\ Before(rows, r) \in rows /\ Before(rows, r).seq < r.seq
         /\ \A q \in rows : q.seq < r.seq => q.seq <= Before(rows, r).seq
<1> DEFINE part == {q \in rows : q.seq < r.seq}
<1>1. TableType(part)
  BY PartType
<1>2. First(rows) \in part
  <2>1. First(rows) \in rows /\ First(rows).seq <= r.seq
    BY FirstIs
  <2>2. First(rows).seq \in Nat /\ r.seq \in Nat
    BY <2>1 DEF TableType, LinkRow
  <2>3. First(rows).seq # r.seq
    BY <2>1 DEF TableType
  <2> QED
    BY <2>1, <2>2, <2>3
<1>3. Last(part) \in part /\ \A q \in part : q.seq <= Last(part).seq
  <2> HIDE DEF part
  <2> QED
    BY <1>1, <1>2, LastIs
<1> QED
  BY <1>3 DEF Before

\* The walk finds nothing exactly when every row is genuine, and begins the
\* chain or points to the row numbered just before it.
LEMMA SoundIsChained ==
  ASSUME NEW rows, TableType(rows)
  PROVE  Breaks(rows) = {} <=> Chained(rows)
<1>1. \A r \in rows : /\ r.seq \in Nat /\ r.version \in {1, 2}
                      /\ ComputeEntryHash(r.content) = r.content
  BY DEF TableType, LinkRow, ComputeEntryHash
<1>2. Altered(rows) = {} <=> \A r \in rows : Genuine(r)
  BY <1>1 DEF Altered, Genuine
<1>3. Breaks(rows) = {} <=>
        /\ Altered(rows) = {}
        /\ \A r \in rows : r = First(rows) => r.prev = NoHash /\ r.seq = 1
        /\ \A r \in rows : r # First(rows) =>
             r.prev = Before(rows, r).hash /\ r.seq = Before(rows, r).seq + 1
  BY DEF Breaks
<1>4. ASSUME Chained(rows)
      PROVE  Breaks(rows) = {}
  <2>1. ASSUME NEW r \in rows, r = First(rows)
        PROVE  r.prev = NoHash /\ r.seq = 1
    <3>1. \A q \in rows : ~(r.seq = q.seq + 1)
      BY <1>1, <2>1, FirstIs
    <3> QED
      BY <1>4, <3>1 DEF Chained, Follows
  <2>2. ASSUME NEW r \in rows, r # First(rows)
        PROVE  r.prev = Before(rows, r).hash /\ r.seq = Before(rows, r).seq + 1
    <3>1. PICK b : b = Before(rows, r)
      OBVIOUS
    <3>2. b \in rows /\ b.seq < r.seq /\ \A q \in rows : q.seq < r.seq => q.seq <= b.seq
      BY <2>2, <3>1, BeforeIs
    <3>3. b.seq # 0
      <4>1. b.seq = 1 \/ \E q \in rows : b.seq = q.seq + 1
        BY <1>4, <3>2 DEF Chained, Follows
      <4> QED
        BY <1>1, <4>1
    <3>4. r.seq # 1
      BY <1>1, <3>2, <3>3
    <3>5. PICK q \in rows : r.seq = q.seq + 1 /\ r.prev = q.hash
      BY <1>4, <3>4 DEF Chained, Follows
    <3>6. q.seq = b.seq
      BY <1>1, <3>2, <3>5
    <3>7. q = b
      BY <3>2, <3>6 DEF TableType
    <3> QED
      BY <3>1, <3>5, <3>7
  <2> QED
    BY <1>2, <1>3, <1>4, <2>1, <2>2 DEF Chained
<1>5. ASSUME Breaks(rows) = {}
      PROVE  Chained(rows)
  <2>1. ASSUME NEW r \in rows
        PROVE  Follows(r, rows)
    <3>1. CASE r = First(rows)
      BY <1>3, <1>5, <3>1 DEF Follows
    <3>2. CASE r # First(rows)
      BY <1>3, <1>5, <3>2, BeforeIs DEF Follows
    <3> QED
      BY <3>1, <3>2
  <2> QED
    BY <1>2, <1>3, <1>5, <2>1 DEF Chained
<1> QED
  BY <1>4, <1>5

\* In a chain every row but the last is followed by one that points to it.
LEMMA Successor ==
  ASSUME NEW rows, TableType(rows), Chained(rows), NEW r \in rows, r # Last(rows)
  PROVE  \E q \in rows : q.seq = r.seq + 1 /\ q.prev = r.hash
<1>0. \A q \in rows : q.seq \in Nat
  BY DEF TableType, LinkRow
<1> DEFINE above == {q.seq : q \in {q \in rows : r.seq < q.seq}}
<1>1. above \in SUBSET Nat
  BY <1>0
<1>2. Last(rows).seq \in above
  <2>1. Last(rows) \in rows /\ r.seq <= Last(rows).seq /\ r.seq # Last(rows).seq
    BY LastIs DEF TableType
  <2> QED
    BY <1>0, <2>1
<1>3. PICK n \in above : \A m \in above : n <= m
  <2> HIDE DEF above
  <2> QED
    BY <1>1, <1>2, LeastNumber
<1>4. PICK q \in rows : n = q.seq /\ r.seq < q.seq
  BY <1>3
<1>5. q.seq # 1 \/ r.seq = 0
  BY <1>0, <1>4
<1>6. r.seq # 0
  BY <1>0 DEF Chained, Follows
<1>7. PICK p \in rows : q.seq = p.seq + 1 /\ q.prev = p.hash
  BY <1>5, <1>6 DEF Chained, Follows
<1>8. ~(r.seq < p.seq)
  <2>1. r.seq < p.seq => p.seq \in above
    OBVIOUS
  <2> HIDE DEF above
  <2> QED
    BY <1>0, <1>3, <1>4, <1>7, <2>1
<1>9. p.seq = r.seq
  BY <1>0, <1>4, <1>7, <1>8
<1>10. p = r
  BY <1>9 DEF TableType
<1> QED
  BY <1>7, <1>10

\* A chain that is not empty begins.
LEMMA Begins ==
  ASSUME NEW rows, TableType(rows), Chained(rows), rows # {}
  PROVE  1 \in Seqs(rows) /\ \A r \in rows : r.seq >= 1
<1>0. \A q \in rows : q.seq \in Nat
  BY DEF TableType, LinkRow
<1>1. PICK f \in rows : \A q \in rows : f.seq <= q.seq
  BY FirstIs
<1>2. \A q \in rows : ~(f.seq = q.seq + 1)
  BY <1>0, <1>1
<1>3. f.seq = 1
  BY <1>2 DEF Chained, Follows
<1> QED
  BY <1>0, <1>1, <1>3 DEF Seqs

LEMMA HeadIs ==
  ASSUME NEW rows, TableType(rows)
  PROVE  /\ LastSeq(rows) \in Nat /\ HeadHash(rows) \in Int
         /\ \A q \in rows : q.seq <= LastSeq(rows)
         /\ rows # {} => \E r \in rows : r.seq = LastSeq(rows) /\ r.hash = HeadHash(rows)
<1>1. CASE rows = {}
  BY <1>1 DEF LastSeq, HeadHash, NoHash
<1>2. CASE rows # {}
  <2>1. Last(rows) \in rows /\ \A q \in rows : q.seq <= Last(rows).seq
    BY <1>2, LastIs
  <2>2. LastSeq(rows) = Last(rows).seq /\ HeadHash(rows) = Last(rows).hash
    BY <1>2 DEF LastSeq, HeadHash
  <2> QED
    BY <2>1, <2>2 DEF TableType, LinkRow
<1> QED
  BY <1>1, <1>2

\* A link appended neither breaks a chain nor mends one.
LEMMA AppendLink ==
  ASSUME NEW rows, TableType(rows), NEW c \in Int, NEW r,
         r = Row(LastSeq(rows) + 1, c, ComputeEntryHash(c), HeadHash(rows), 2)
  PROVE  /\ r \in LinkRow /\ r.version = 2 /\ r.content = c /\ r.hash = c
         /\ TableType(rows \cup {r})
         /\ Chained(rows \cup {r}) <=> Chained(rows)
<1>0. \A q \in rows : q.seq \in Nat
  BY DEF TableType, LinkRow
<1>1. LastSeq(rows) \in Nat /\ HeadHash(rows) \in Int /\ \A q \in rows : q.seq <= LastSeq(rows)
  BY HeadIs
<1>2. /\ r.seq = LastSeq(rows) + 1 /\ r.content = c /\ r.hash = c /\ r.prev = HeadHash(rows)
      /\ r.version = 2 /\ r \in LinkRow
  BY <1>1 DEF Row, ComputeEntryHash, LinkRow
<1>3. \A q \in rows : q.seq < r.seq
  BY <1>0, <1>1, <1>2
<1>4. TableType(rows \cup {r})
  <2>1. IsFiniteSet(rows \cup {r})
    BY FS_AddElement DEF TableType
  <2>2. \A q \in rows : q.seq # r.seq
    BY <1>0, <1>1, <1>2
  <2> QED
    BY <1>2, <2>1, <2>2 DEF TableType
<1>5. ASSUME Chained(rows)
      PROVE  Chained(rows \cup {r})
  <2>1. \A q \in rows : Genuine(q) /\ Follows(q, rows \cup {r})
    BY <1>5 DEF Chained, Follows
  <2>2. Genuine(r)
    BY <1>2 DEF Genuine
  <2>3. Follows(r, rows \cup {r})
    <3>1. CASE rows = {}
      BY <1>2, <3>1 DEF Follows, LastSeq, HeadHash
    <3>2. CASE rows # {}
      BY <1>2, <3>2, HeadIs DEF Follows
    <3> QED
      BY <3>1, <3>2
  <2> QED
    BY <2>1, <2>2, <2>3 DEF Chained
<1>6. ASSUME Chained(rows \cup {r})
      PROVE  Chained(rows)
  <2>1. \A q \in rows : q.seq # r.seq + 1
    BY <1>0, <1>1, <1>2
  <2>2. \A q \in rows : Genuine(q) /\ Follows(q, rows \cup {r})
    BY <1>6 DEF Chained
  <2>3. \A q \in rows : Follows(q, rows)
    BY <2>1, <2>2 DEF Follows
  <2> QED
    BY <2>2, <2>3 DEF Chained
<1> QED
  BY <1>2, <1>4, <1>5, <1>6

\* What a change from outside leaves.
LEMMA ReplaceType ==
  ASSUME NEW rows, TableType(rows), NEW r \in rows, NEW q \in LinkRow,
         q.seq = r.seq \/ q.seq \notin Seqs(rows)
  PROVE  TableType((rows \ {r}) \cup {q})
<1>1. TableType(rows \ {r})
  BY PartType
<1>2. IsFiniteSet((rows \ {r}) \cup {q})
  BY <1>1, FS_AddElement DEF TableType
<1>3. \A p \in rows \ {r} : p.seq # q.seq
  BY DEF TableType, Seqs
<1> QED
  BY <1>1, <1>2, <1>3 DEF TableType

\* The row after one that is no more, or whose digest is another, shows it.
LEMMA BreaksAfter ==
  ASSUME NEW rows, TableType(rows), Chained(rows), NEW r \in rows, r # Last(rows),
         NEW left, rows \ {r} \subseteq left,
         \A p \in left : p.seq = r.seq => p.hash # r.hash,
         \A p \in left : p.seq \in Nat
  PROVE  ~Chained(left)
<1>1. PICK q \in rows : q.seq = r.seq + 1 /\ q.prev = r.hash
  BY Successor
<1>2. r.seq \in Nat /\ r.seq >= 1
  BY Begins DEF TableType, LinkRow
<1>3. q \in left /\ q.seq # 1
  BY <1>1, <1>2
<1>4. \A p \in left : q.seq = p.seq + 1 => q.prev # p.hash
  BY <1>1, <1>2
<1> QED
  BY <1>3, <1>4 DEF Chained, Follows

\* A row that points elsewhere shows it.
LEMMA BreaksBefore ==
  ASSUME NEW rows, TableType(rows), Chained(rows), NEW r \in rows, NEW q \in LinkRow,
         q.seq = r.seq, q.prev = Other(r.prev)
  PROVE  ~Chained((rows \ {r}) \cup {q})
<1>0. \A p \in rows : p.seq \in Nat /\ p.seq >= 1 /\ p.prev \in Int /\ p.hash \in Int
  BY Begins DEF TableType, LinkRow
<1>1. q.prev # r.prev /\ q.seq \in Nat
  BY <1>0 DEF Other, LinkRow
<1>2. ~(q.seq = 1 /\ q.prev = NoHash)
  <2> SUFFICES ASSUME q.seq = 1, q.prev = NoHash PROVE FALSE
    OBVIOUS
  <2>1. \A p \in rows : ~(r.seq = p.seq + 1)
    BY <1>0
  <2>2. r.prev = NoHash
    BY <2>1 DEF Chained, Follows
  <2> QED
    BY <1>1, <2>2
<1>3. ASSUME NEW p \in (rows \ {r}) \cup {q}, q.seq = p.seq + 1, q.prev = p.hash
      PROVE  FALSE
  <2>1. p \in rows
    BY <1>1, <1>3
  <2>2. r.seq # 1
    BY <1>0, <1>3, <2>1
  <2>3. PICK s \in rows : r.seq = s.seq + 1 /\ r.prev = s.hash
    BY <2>2 DEF Chained, Follows
  <2>4. s.seq = p.seq
    <3>1. s.seq + 1 = p.seq + 1
      BY <1>3, <2>3
    <3>2. s.seq \in Nat /\ p.seq \in Nat
      BY <1>0, <2>1, <2>3
    <3> QED
      BY <3>1, <3>2
  <2>5. s = p
    BY <2>1, <2>3, <2>4 DEF TableType
  <2> QED
    BY <1>1, <1>3, <2>3, <2>5
<1> QED
  BY <1>2, <1>3 DEF Chained, Follows

\* A number that no row bore shows it, whichever row is given it.
LEMMA BreaksNumber ==
  ASSUME NEW rows, TableType(rows), Chained(rows), NEW r \in rows, NEW q \in LinkRow,
         q.seq \in 0 .. (LastSeq(rows) + 1), q.seq \notin Seqs(rows)
  PROVE  ~Chained((rows \ {r}) \cup {q})
<1>0. \A p \in rows : p.seq \in Nat /\ p.seq >= 1
  BY Begins DEF TableType, LinkRow
<1>1. CASE r # Last(rows)
  <2>1. \A p \in (rows \ {r}) \cup {q} : p.seq # r.seq /\ p.seq \in Nat
    BY <1>0 DEF TableType, Seqs, LinkRow
  <2> QED
    BY <1>1, <2>1, BreaksAfter
<1>2. CASE r = Last(rows)
  <2> SUFFICES ASSUME Chained((rows \ {r}) \cup {q}) PROVE FALSE
    OBVIOUS
  <2>1. q.seq # 1
    BY Begins
  <2>2. PICK p \in (rows \ {r}) \cup {q} : q.seq = p.seq + 1
    BY <2>1 DEF Chained, Follows
  <2>3. p \in rows /\ p # Last(rows)
    <3>1. p # q
      BY <2>2 DEF LinkRow
    <3> QED
      BY <1>2, <2>2, <3>1
  <2>4. PICK s \in rows : s.seq = p.seq + 1
    BY <2>3, Successor
  <2> QED
    BY <2>2, <2>4 DEF Seqs
<1> QED
  BY <1>1, <1>2

\* What no walk can see: a row that says the same of its place in the chain,
\* or whose digest nothing points to yet.
LEMMA StaysChained ==
  ASSUME NEW rows, TableType(rows), Chained(rows), NEW r \in rows, NEW q \in LinkRow,
         q.seq = r.seq, q.prev = r.prev, Genuine(q), q.hash = r.hash \/ r = Last(rows)
  PROVE  Chained((rows \ {r}) \cup {q})
<1>0. \A p \in rows : p.seq \in Nat /\ p.seq >= 1
  BY Begins DEF TableType, LinkRow
<1>1. r = Last(rows) => \A p \in rows : ~(p.seq = r.seq + 1)
  BY <1>0, LastIs
<1>2. ASSUME NEW p \in rows, NEW x, Follows(p, rows), x.seq = p.seq, x.prev = p.prev
      PROVE  Follows(x, (rows \ {r}) \cup {q})
  <2>1. CASE p.seq = 1 /\ p.prev = NoHash
    BY <1>2, <2>1 DEF Follows
  <2>2. CASE \E s \in rows : p.seq = s.seq + 1 /\ p.prev = s.hash
    <3>1. PICK s \in rows : p.seq = s.seq + 1 /\ p.prev = s.hash
      BY <2>2
    <3>2. \E t \in (rows \ {r}) \cup {q} : t.seq = s.seq /\ t.hash = s.hash
      BY <1>1, <3>1
    <3>3. PICK t \in (rows \ {r}) \cup {q} : t.seq = s.seq /\ t.hash = s.hash
      BY <3>2
    <3>4. x.seq = t.seq + 1 /\ x.prev = t.hash
      BY <1>2, <3>1, <3>3
    <3> QED
      BY <3>3, <3>4 DEF Follows
  <2> QED
    BY <1>2, <2>1, <2>2 DEF Follows
<1>3. \A p \in rows : Genuine(p) /\ Follows(p, rows)
  BY DEF Chained
<1>4. Follows(q, (rows \ {r}) \cup {q}) /\ \A p \in rows : Follows(p, (rows \ {r}) \cup {q})
  BY <1>2, <1>3
<1> QED
  BY <1>3, <1>4 DEF Chained

LEMMA LastRemoved ==
  ASSUME NEW rows, TableType(rows), Chained(rows), NEW r \in rows, r = Last(rows)
  PROVE  Chained(rows \ {r})
<1>0. \A p \in rows : p.seq \in Nat
  BY DEF TableType, LinkRow
<1>1. \A p \in rows : ~(p.seq = r.seq + 1)
  BY <1>0, LastIs
<1> QED
  BY <1>1 DEF Chained, Follows

-----------------------------------------------------------------------------
(* The inductive invariant *)

\* The bases there are: the one in use and its copies.
Bases == {base} \cup copies

\* The attestations there are, wherever they are.
Attested ==
  held \cup {files[d] : d \in DOMAIN files}
    \cup (IF emission.stage = "idle" THEN {} ELSE {emission.document})

\* The tables that are, and those an attestation was drawn from.
Known == {b.rows : b \in Bases} \cup {a.covers : a \in Attested}

\* Link q is in the place of link r, with its digest or what may take its place.
Twin(q, r) ==
  /\ q.seq = r.seq /\ q.prev = r.prev
  /\ q.hash \in {r.hash, Other(r.hash)}

\* A link the base started with, and one posted, whatever has become of what
\* they say.
LegacyLink(r) == r.hash \in {MaxPosted + r.seq, Other(MaxPosted + r.seq)}

PostedLink(r) == \E c \in 1 .. written : r.hash \in {c, Other(c)}

KnownTable(rows) ==
  /\ TableType(rows)
  /\ Chained(rows) => \A r \in rows : LegacyLink(r) \/ PostedLink(r)

\* Nothing in it but what the program writes.
Unspoilt(rows) == \A r \in rows : r.version = 2 \/ r.content = NotStored

\* What is damaged and not chained are one; what was posted in a base nobody
\* damaged has its link.
BaseOK(b) ==
  /\ b.damage \in {"none", "plain", "unseen", "lowered"}
  /\ Chained(b.rows) <=> b.damage # "plain"
  /\ b.posted \subseteq Nat \ {0}
  /\ b.damage = "none" =>
       /\ Unspoilt(b.rows)
       /\ \A entry \in b.posted : \E r \in b.rows : r.version = 2 /\ r.content = entry

\* What an attestation says of what it was drawn from.
DocumentOK(a) ==
  /\ a.last = LastSeq(a.covers) /\ a.head = HeadHash(a.covers)
  /\ a.verified <=> Chained(a.covers)
  /\ sceauValide(a)

\* A digest is that of one place, whatever chain it is found in: no two copies
\* continued apart wrote the same.
NoFork ==
  \A X, Y \in Known :
    Chained(X) /\ Chained(Y) =>
      \A r \in X, q \in Y : q.hash \in {r.hash, Other(r.hash)} => Twin(q, r)

AttestationInv ==
  /\ written \in 0 .. MaxPosted
  /\ \A b \in Bases : b = [rows |-> b.rows, posted |-> b.posted, damage |-> b.damage]
  /\ \A b \in Bases : BaseOK(b)
  /\ \A a \in Attested : DocumentOK(a)
  /\ \A rows \in Known : KnownTable(rows)
  /\ NoFork

LEMMA BaseShape ==
  ASSUME AttestationInv
  PROVE  base = [rows |-> base.rows, posted |-> base.posted, damage |-> base.damage]
<1>1. base \in Bases
  BY DEF Bases
<1> QED
  BY <1>1 DEF AttestationInv

\* What may take the place of a digest: itself, and it twice changed.
LEMMA OtherTwice ==
  ASSUME NEW a \in Int, NEW b \in Int
  PROVE  /\ Other(a) \in Int /\ Other(a) # a /\ Other(Other(a)) = a
         /\ b \in {a, Other(a)} => a \in {b, Other(b)}
  BY DEF Other

LEMMA TwinLinked ==
  ASSUME NEW r \in LinkRow, NEW q \in LinkRow, Twin(q, r), LegacyLink(r) \/ PostedLink(r),
         MaxPosted \in Nat, written \in Nat
  PROVE  LegacyLink(q) \/ PostedLink(q)
<1>1. /\ r.hash \in Int /\ r.seq \in Nat /\ MaxPosted + r.seq \in Int
      /\ q.seq = r.seq /\ q.hash \in {r.hash, Other(r.hash)}
  BY DEF Twin, LinkRow
<1>2. ASSUME NEW c \in Int, r.hash \in {c, Other(c)}
      PROVE  q.hash \in {c, Other(c)}
  BY <1>1, <1>2, OtherTwice
<1>3. CASE LegacyLink(r)
  BY <1>1, <1>2, <1>3 DEF LegacyLink
<1>4. CASE PostedLink(r)
  <2>1. PICK c \in 1 .. written : r.hash \in {c, Other(c)}
    BY <1>4 DEF PostedLink
  <2>2. c \in Int
    OBVIOUS
  <2> QED
    BY <1>2, <2>1, <2>2 DEF PostedLink
<1> QED
  BY <1>3, <1>4

\* What becomes of the base: it stays, or another one known takes its place, or
\* its table is replaced by one of twins of its links, with at most one link
\* more that says something new.
Becomes(rows, link) ==
  /\ KnownTable(rows)'
  /\ Chained(rows) =>
       /\ Chained(base.rows)
       /\ \A r \in rows :
            \/ \E s \in base.rows : Twin(r, s)
            \/ r = link /\ link.hash = written + 1 /\ written' = written + 1

LEMMA StaysKnown ==
  ASSUME written \in Nat, written' \in {written, written + 1}, NEW rows, KnownTable(rows)
  PROVE  KnownTable(rows)'
<1>1. 1 .. written \subseteq 1 .. written'
  OBVIOUS
<1> QED
  BY <1>1 DEF KnownTable, PostedLink, LegacyLink

\* The digest of a new link is that of no link known.
LEMMA NewDigest ==
  ASSUME AttestationInv, NEW X \in Known, Chained(X), NEW r \in X, written < MaxPosted
  PROVE  written + 1 \notin {r.hash, Other(r.hash)}
<1>1. TableType(X) /\ (LegacyLink(r) \/ PostedLink(r))
  BY DEF AttestationInv, KnownTable
<1>2. r.seq \in Nat /\ r.seq >= 1 /\ r.hash \in Int
  BY <1>1, Begins DEF TableType, LinkRow
<1>3. written \in Nat /\ MaxPosted \in Nat
  BY AttestationAssumption DEF AttestationInv
<1>4. ASSUME NEW c \in Nat, c >= 1, c # written + 1, r.hash \in {c, Other(c)}
      PROVE  written + 1 \notin {r.hash, Other(r.hash)}
  BY <1>2, <1>3, <1>4 DEF Other
<1>5. CASE LegacyLink(r)
  <2>1. MaxPosted + r.seq \in Nat /\ MaxPosted + r.seq >= 1 /\ MaxPosted + r.seq # written + 1
    BY <1>2, <1>3
  <2> QED
    BY <1>4, <1>5, <2>1 DEF LegacyLink
<1>6. CASE PostedLink(r)
  <2>1. PICK c \in 1 .. written : r.hash \in {c, Other(c)}
    BY <1>6 DEF PostedLink
  <2>2. c \in Nat /\ c >= 1 /\ c # written + 1
    BY <1>3
  <2> QED
    BY <1>4, <2>1, <2>2
<1> QED
  BY <1>1, <1>5, <1>6

LEMMA StepKeeps ==
  ASSUME AttestationInv, written' \in {written, written + 1}, written' <= MaxPosted,
         base' = [rows |-> base'.rows, posted |-> base'.posted, damage |-> base'.damage],
         BaseOK(base'), copies' \subseteq Bases,
         \A a \in Attested' : a \in Attested \/ (DocumentOK(a) /\ a.covers \in Known),
         NEW table, table = base'.rows, NEW link, table \in Known \/ Becomes(table, link)
  PROVE  AttestationInv'
<1>1. written \in Nat /\ MaxPosted \in Nat
  BY AttestationAssumption DEF AttestationInv
<1>2. written' \in 0 .. MaxPosted /\ (written' = written + 1 => written < MaxPosted)
  BY <1>1
<1>5. \A b \in Bases' : b = [rows |-> b.rows, posted |-> b.posted, damage |-> b.damage]
  BY DEF AttestationInv, Bases
<1>3. \A b \in Bases' : BaseOK(b)
  BY DEF AttestationInv, Bases
<1>4. \A a \in Attested' : DocumentOK(a)
  BY DEF AttestationInv
<1>6. \A rows \in Known' : rows \in Known \/ rows = table
  <2>1. \A b \in Bases' : b.rows \in Known \/ b.rows = table
    BY DEF Bases, Known
  <2>2. \A a \in Attested' : a.covers \in Known
    BY DEF Known
  <2> QED
    BY <2>1, <2>2 DEF Known
<1>8. \A rows \in Known' : KnownTable(rows)'
  <2>1. \A rows \in Known : KnownTable(rows)'
    BY <1>1, StaysKnown DEF AttestationInv
  <2> QED
    BY <1>6, <2>1 DEF Becomes
<1>9. base.rows \in Known
  BY DEF Known, Bases
<1>10. NoFork'
  <2>1. CASE table \in Known
    <3>1. \A rows \in Known' : rows \in Known
      BY <1>6, <2>1
    <3> QED
      BY <3>1 DEF AttestationInv, NoFork
  <2>2. CASE Becomes(table, link)
    <3>0. TableType(table) /\ TableType(base.rows)
      BY <1>9, <2>2 DEF Becomes, KnownTable, AttestationInv
    <3>1. ASSUME NEW X \in Known, Chained(X), Chained(table), NEW r \in X, NEW q \in table,
                 q.hash \in {r.hash, Other(r.hash)}
          PROVE  Twin(q, r)
      <4>1. CASE \E s \in base.rows : Twin(q, s)
        <5>1. PICK s \in base.rows : Twin(q, s)
          BY <4>1
        <5>2. TableType(X)
          BY DEF AttestationInv, KnownTable
        <5>3. r.hash \in Int /\ q.hash \in Int /\ s.hash \in Int
          BY <3>0, <5>2 DEF TableType, LinkRow
        <5>4. s.hash \in {r.hash, Other(r.hash)}
          BY <3>1, <5>1, <5>3, OtherTwice DEF Twin
        <5>5. Chained(base.rows)
          BY <2>2, <3>1 DEF Becomes
        <5>6. Twin(s, r)
          BY <1>9, <3>1, <5>4, <5>5 DEF AttestationInv, NoFork
        <5> QED
          BY <3>1, <5>1, <5>6 DEF Twin
      <4>2. CASE q.hash = written + 1 /\ written' = written + 1
        BY <1>2, <3>1, <4>2, NewDigest
      <4> QED
        BY <2>2, <3>1, <4>1, <4>2 DEF Becomes
    <3>2. ASSUME Chained(table), NEW r \in table, NEW q \in table,
                 q.hash \in {r.hash, Other(r.hash)}
          PROVE  Twin(q, r)
      <4>0. Chained(base.rows) /\ r.hash \in Int /\ q.hash \in Int
        BY <2>2, <3>0, <3>2 DEF Becomes, TableType, LinkRow
      <4>1. ASSUME NEW s \in base.rows, Twin(r, s)
            PROVE  Twin(q, r)
        <5>1. s.hash \in Int
          BY <3>0 DEF TableType, LinkRow
        <5>2. q.hash \in {s.hash, Other(s.hash)}
          BY <3>2, <4>0, <4>1, <5>1, OtherTwice DEF Twin
        <5>3. Twin(q, s)
          BY <1>9, <3>1, <3>2, <4>0, <5>2
        <5> QED
          BY <3>2, <4>1, <5>3 DEF Twin
      <4>2. ASSUME NEW s \in base.rows, Twin(q, s)
            PROVE  Twin(q, r)
        <5>1. s.hash \in Int
          BY <3>0 DEF TableType, LinkRow
        <5>2. r.hash \in {s.hash, Other(s.hash)}
          BY <3>2, <4>0, <4>2, <5>1, OtherTwice DEF Twin
        <5>3. Twin(r, s)
          BY <1>9, <3>1, <3>2, <4>0, <5>2
        <5> QED
          BY <3>2, <4>2, <5>3 DEF Twin
      <4>3. CASE r = link /\ q = link
        BY <3>2, <4>3 DEF Twin
      <4> QED
        BY <2>2, <3>2, <4>1, <4>2, <4>3 DEF Becomes
    <3>3. ASSUME NEW X \in Known, NEW Y \in Known, Chained(X), Chained(Y), NEW r \in X, NEW q \in Y,
                 q.hash \in {r.hash, Other(r.hash)}
          PROVE  Twin(q, r)
      BY <3>3 DEF AttestationInv, NoFork
    <3>4. ASSUME NEW X \in Known', NEW Y \in Known', Chained(X), Chained(Y),
                 NEW r \in X, NEW q \in Y, q.hash \in {r.hash, Other(r.hash)}
          PROVE  Twin(q, r)
      <4>1. CASE X \in Known /\ Y \in Known
        BY <3>3, <3>4, <4>1
      <4>2. CASE X \in Known /\ Y = table
        BY <3>1, <3>4, <4>2
      <4>3. CASE X = table /\ Y \in Known
        <5>1. r.hash \in Int /\ q.hash \in Int
          BY <3>0, <4>3 DEF AttestationInv, KnownTable, TableType, LinkRow
        <5>2. r.hash \in {q.hash, Other(q.hash)}
          BY <3>4, <5>1, OtherTwice
        <5>3. Twin(r, q)
          BY <3>1, <3>4, <4>3, <5>2
        <5> QED
          BY <3>4, <5>3 DEF Twin
      <4>4. CASE X = table /\ Y = table
        BY <3>2, <3>4, <4>4
      <4> QED
        BY <1>6, <4>1, <4>2, <4>3, <4>4
    <3> QED
      BY <3>4 DEF NoFork, Twin
  <2> QED
    BY <2>1, <2>2
<1> QED
  BY <1>2, <1>3, <1>4, <1>5, <1>8, <1>10 DEF AttestationInv

-----------------------------------------------------------------------------
(* The steps *)

\* Steps that leave the base alone, and hand attestations on.
LEMMA HandedOn ==
  ASSUME AttestationInv, UNCHANGED <<base, written>>, copies' \subseteq Bases,
         \A a \in Attested' : a \in Attested \/ (DocumentOK(a) /\ a.covers \in Known)
  PROVE  AttestationInv'
<1>1. base'.rows \in Known /\ BaseOK(base') /\ written' <= MaxPosted
  BY AttestationAssumption DEF Known, Bases, AttestationInv
<1>2. base' = [rows |-> base'.rows, posted |-> base'.posted, damage |-> base'.damage]
  BY BaseShape
<1>3. PICK table : table = base'.rows
  OBVIOUS
<1> QED
  BY <1>1, <1>2, <1>3, StepKeeps

LEMMA BuildGives ==
  ASSUME AttestationInv, NEW a, a = BuildAttestation
  PROVE  DocumentOK(a) /\ a.covers = base.rows /\ a.covers \in Known
<1>1. base.rows \in Known /\ TableType(base.rows)
  BY DEF Known, Bases, AttestationInv, KnownTable
<1>2. PICK report, v : report = ComputeChainReport(base.rows) /\ v = report.verified
  OBVIOUS
<1>3. report.lastSeq = LastSeq(base.rows) /\ report.headHash = HeadHash(base.rows)
  BY <1>2 DEF ComputeChainReport
<1>4. v = (Breaks(base.rows) = {})
  BY <1>2 DEF ComputeChainReport
<1>5. v <=> Chained(base.rows)
  BY <1>1, <1>4, SoundIsChained
<1>6. PICK n : n = Cardinality(base.posted)
  OBVIOUS
<1>7. a = [last |-> report.lastSeq, head |-> report.headHash, verified |-> v, posted |-> n,
           seal |-> Sealed(report.lastSeq, report.headHash, v, n), covers |-> base.rows]
  BY <1>2, <1>6 DEF BuildAttestation
<1>8. sceauValide(a) /\ a.verified = v /\ a.covers = base.rows
  BY <1>7 DEF sceauValide
<1>9. a.last = LastSeq(base.rows) /\ a.head = HeadHash(base.rows)
  BY <1>3, <1>7
<1> QED
  BY <1>1, <1>5, <1>8, <1>9 DEF DocumentOK

LEMMA PostKeeps ==
  ASSUME AttestationInv, PostEntry
  PROVE  AttestationInv'
<1>1. PICK rows, c, r : /\ rows = base.rows /\ c = written + 1
                        /\ r = Row(LastSeq(rows) + 1, c, ComputeEntryHash(c), HeadHash(rows), 2)
  OBVIOUS
<1>2. /\ written \in Nat /\ written < MaxPosted /\ written' = c /\ c \in Int
      /\ MaxPosted \in Nat /\ c <= MaxPosted /\ c \in 1 .. c
  BY <1>1, AttestationAssumption DEF PostEntry, AttestationInv
<1>3. base' = [base EXCEPT !.rows = @ \cup {r}, !.posted = @ \cup {c}]
  BY <1>1 DEF PostEntry
<1>4. /\ base'.rows = rows \cup {r} /\ base'.posted = base.posted \cup {c}
      /\ base'.damage = base.damage
      /\ base' = [rows |-> base'.rows, posted |-> base'.posted, damage |-> base'.damage]
  BY <1>1, <1>3, BaseShape
<1>5. rows \in Known /\ KnownTable(rows) /\ TableType(rows)
  BY <1>1 DEF Known, Bases, AttestationInv, KnownTable
<1>6. /\ r.version = 2 /\ r.content = c /\ r.hash = c
      /\ TableType(rows \cup {r})
      /\ Chained(rows \cup {r}) <=> Chained(rows)
  BY <1>1, <1>2, <1>5, AppendLink
<1>7. BaseOK(base')
  <2>1. BaseOK(base)
    BY DEF AttestationInv, Bases
  <2>2. \A entry \in base'.posted : entry \in base.posted \/ entry = c
    BY <1>4
  <2> QED
    BY <1>1, <1>2, <1>4, <1>6, <2>1, <2>2 DEF BaseOK, Unspoilt
<1>8. KnownTable(rows)'
  BY <1>1, <1>2, <1>5, StaysKnown
<1>9. PICK table : table = base'.rows
  OBVIOUS
<1>11. Becomes(table, r)
  <2>1. KnownTable(rows \cup {r})'
    <3>1. \A q \in rows : Chained(rows) => (LegacyLink(q) \/ PostedLink(q))'
      BY <1>8 DEF KnownTable
    <3>2. PostedLink(r)'
      BY <1>2, <1>6 DEF PostedLink
    <3> QED
      BY <1>6, <3>1, <3>2 DEF KnownTable
  <2> QED
    BY <1>1, <1>2, <1>4, <1>6, <1>9, <2>1 DEF Becomes, Twin
<1>10. copies' \subseteq Bases /\ Attested' = Attested
  BY DEF PostEntry, Bases, Attested
<1> QED
  BY <1>1, <1>2, <1>4, <1>7, <1>9, <1>10, <1>11, StepKeeps

\* What a change has to show: the table it leaves is one, and is a chain of
\* what the base held exactly when nothing can be seen.
LEMMA ChangeKeeps ==
  ASSUME AttestationInv, NEW rows, NEW effect \in {"plain", "unseen", "lowered"},
         Change(rows, effect), TableType(rows), Chained(rows) <=> effect # "plain",
         effect # "plain" => \A r \in rows : \E s \in base.rows : Twin(r, s)
  PROVE  AttestationInv'
<1>1. /\ base.damage = "none" /\ base' = [base EXCEPT !.rows = rows, !.damage = effect]
      /\ UNCHANGED <<copies, written, day, due, emission, files, held>>
  BY DEF Change
<1>2. /\ base'.rows = rows /\ base'.posted = base.posted /\ base'.damage = effect
      /\ base' = [rows |-> base'.rows, posted |-> base'.posted, damage |-> base'.damage]
  BY <1>1, BaseShape
<1>3. base.rows \in Known /\ KnownTable(base.rows) /\ Chained(base.rows)
  BY <1>1 DEF Known, Bases, AttestationInv, BaseOK
<1>4. BaseOK(base')
  BY <1>1, <1>2 DEF BaseOK, AttestationInv, Bases
<1>5. KnownTable(rows)
  <2>1. written \in Nat /\ MaxPosted \in Nat
    BY AttestationAssumption DEF AttestationInv
  <2>2. ASSUME Chained(rows), NEW r \in rows
        PROVE  LegacyLink(r) \/ PostedLink(r)
    <3>1. PICK s \in base.rows : Twin(r, s)
      BY <2>2
    <3>2. r \in LinkRow /\ s \in LinkRow /\ (LegacyLink(s) \/ PostedLink(s))
      BY <1>3 DEF KnownTable, TableType
    <3> QED
      BY <2>1, <3>1, <3>2, TwinLinked
  <2> QED
    BY <2>2 DEF KnownTable
<1>6. KnownTable(rows)'
  BY <1>1, <1>5, StaysKnown DEF AttestationInv
<1>7. Becomes(rows, base)
  BY <1>3, <1>6 DEF Becomes
<1>8. copies' \subseteq Bases /\ Attested' = Attested /\ written' <= MaxPosted
  BY <1>1, AttestationAssumption DEF Bases, Attested, AttestationInv
<1> QED
  BY <1>1, <1>2, <1>4, <1>7, <1>8, StepKeeps

\* The digest of a link is not what stands for a content that was not stored.
LEMMA DigestOfSomething ==
  ASSUME NEW r \in LinkRow, r.seq >= 1, LegacyLink(r) \/ PostedLink(r),
         MaxPosted \in Nat, written \in Nat
  PROVE  r.hash \notin {NotStored, Other(NotStored)}
<1>1. ASSUME NEW c \in Nat, c >= 1, r.hash \in {c, Other(c)}
      PROVE  r.hash \notin {NotStored, Other(NotStored)}
  BY <1>1 DEF Other, NotStored
<1>2. CASE LegacyLink(r)
  <2>1. MaxPosted + r.seq \in Nat /\ MaxPosted + r.seq >= 1
    BY DEF LinkRow
  <2> QED
    BY <1>1, <1>2, <2>1 DEF LegacyLink
<1>3. CASE PostedLink(r)
  <2>1. PICK c \in 1 .. written : r.hash \in {c, Other(c)}
    BY <1>3 DEF PostedLink
  <2>2. c \in Nat /\ c >= 1
    OBVIOUS
  <2> QED
    BY <1>1, <2>1, <2>2
<1> QED
  BY <1>2, <1>3

\* A link that keeps its place shows its change exactly when its digest can be
\* seen not to be its own, or when the link after it pointed to another.
LEMMA RewrittenShows ==
  ASSUME NEW rows, TableType(rows), Chained(rows), NEW r \in rows, NEW q \in LinkRow, Twin(q, r),
         NEW left, left = (rows \ {r}) \cup {q}
  PROVE  Chained(left) <=> Genuine(q) /\ (q.hash = r.hash \/ r = Last(rows))
<1>1. q.seq = r.seq /\ q.prev = r.prev
  BY DEF Twin
<1>2. ASSUME Genuine(q), q.hash = r.hash \/ r = Last(rows)
      PROVE  Chained(left)
  BY <1>1, <1>2, StaysChained
<1>3. Chained(left) => Genuine(q)
  BY DEF Chained
<1>4. ASSUME q.hash # r.hash, r # Last(rows)
      PROVE  ~Chained(left)
  <2>1. \A p \in left : p.seq \in Nat /\ (p.seq = r.seq => p.hash # r.hash)
    <3>1. \A p \in rows : p.seq = r.seq => p = r
      BY DEF TableType
    <3>2. \A p \in left : p = q \/ (p \in rows /\ p # r)
      OBVIOUS
    <3>3. q.seq \in Nat /\ \A p \in rows : p.seq \in Nat
      BY DEF TableType, LinkRow
    <3> QED
      BY <1>4, <3>1, <3>2, <3>3
  <2> QED
    BY <1>4, <2>1, BreaksAfter
<1> QED
  BY <1>2, <1>3, <1>4

\* The effect of a change is what it shows, in a base nothing had spoilt.
LEMMA EffectIs ==
  ASSUME AttestationInv, base.damage = "none", NEW r \in base.rows, NEW q \in Rewritten(r)
  PROVE  /\ q \in LinkRow /\ Twin(q, r)
         /\ Effect(r, q) \in {"plain", "unseen", "lowered"}
         /\ Effect(r, q) # "plain" <=> Genuine(q) /\ (q.hash = r.hash \/ r = Last(base.rows))
<1>1. /\ TableType(base.rows) /\ Chained(base.rows) /\ Unspoilt(base.rows)
      /\ LegacyLink(r) \/ PostedLink(r)
  BY DEF Known, Bases, AttestationInv, BaseOK, KnownTable
<1>2. r \in LinkRow /\ Genuine(r) /\ r.seq >= 1 /\ (r.version = 2 \/ r.content = NotStored)
  BY <1>1, Begins DEF TableType, Chained, Unspoilt
<1>3. PICK c \in {r.content, Other(r.content)}, h \in {r.hash, Other(r.hash)}, v \in {1, 2} :
        q = [r EXCEPT !.content = c, !.hash = h, !.version = v]
  BY DEF Rewritten
<1>13. c \in Int /\ h \in Int
  BY <1>2, OtherTwice DEF LinkRow
<1>4. /\ q \in LinkRow /\ q.seq = r.seq /\ q.prev = r.prev /\ q.content = c /\ q.hash = h
      /\ q.version = v
  BY <1>2, <1>3, <1>13 DEF LinkRow
<1>5. Twin(q, r) /\ q # r
  BY <1>4 DEF Twin, Rewritten
<1>6. /\ Other(r.content) \in Int /\ Other(r.content) # r.content
      /\ Other(r.hash) \in Int /\ Other(r.hash) # r.hash
  BY <1>2, OtherTwice DEF LinkRow
<1>7. PICK e, last : e = Effect(r, q) /\ last = Last(base.rows)
  OBVIOUS
<1>8. CASE r.version = 2 /\ v = 1
  <2>1. e = IF r = last \/ h = r.hash THEN "lowered" ELSE "plain"
    BY <1>4, <1>7, <1>8 DEF Effect
  <2>2. Genuine(q)
    BY <1>4, <1>8 DEF Genuine
  <2> QED
    BY <1>4, <1>5, <1>7, <2>1, <2>2
<1>9. CASE r.version = 1 /\ v = 1
  <2>1. e = IF r = last \/ h = r.hash THEN "unseen" ELSE "plain"
    BY <1>4, <1>7, <1>9 DEF Effect
  <2>2. Genuine(q)
    BY <1>4, <1>9 DEF Genuine
  <2> QED
    BY <1>4, <1>5, <1>7, <2>1, <2>2
<1>10. CASE r.version = 1 /\ v = 2
  <2>1. e = "plain"
    BY <1>4, <1>7, <1>10 DEF Effect
  <2>2. MaxPosted \in Nat /\ written \in Nat
    BY AttestationAssumption DEF AttestationInv
  <2>3. LegacyLink(q) \/ PostedLink(q)
    BY <1>1, <1>2, <1>4, <1>5, <2>2, TwinLinked
  <2>4. q.hash \notin {NotStored, Other(NotStored)}
    BY <1>2, <1>4, <2>2, <2>3, DigestOfSomething
  <2>5. ~Genuine(q)
    BY <1>2, <1>4, <1>10, <2>4 DEF Genuine
  <2> QED
    BY <1>4, <1>5, <1>7, <2>1, <2>5
<1>11. CASE r.version = 2 /\ v = 2
  <2>1. e = IF r = last /\ c # r.content /\ h # r.hash THEN "unseen" ELSE "plain"
    BY <1>4, <1>7, <1>11 DEF Effect
  <2>2. r.hash = r.content
    BY <1>2, <1>11 DEF Genuine
  <2>3. c # r.content \/ h # r.hash
    <3> SUFFICES ASSUME c = r.content, h = r.hash PROVE FALSE
      OBVIOUS
    <3>1. q = r
      BY <1>2, <1>4, <1>11 DEF LinkRow
    <3> QED
      BY <1>5, <3>1
  <2>4. Genuine(q) <=> c # r.content /\ h # r.hash
    BY <1>4, <1>6, <1>11, <2>2, <2>3 DEF Genuine
  <2> QED
    BY <1>4, <1>5, <1>7, <2>1, <2>4
<1>12. r.version \in {1, 2}
  BY <1>2 DEF LinkRow
<1> QED
  BY <1>8, <1>9, <1>10, <1>11, <1>12

LEMMA ChangeRowKeeps ==
  ASSUME AttestationInv, NEW r \in base.rows, ChangeRow(r)
  PROVE  AttestationInv'
<1>1. PICK rows : rows = base.rows
  OBVIOUS
<1>2. base.damage = "none"
  BY DEF ChangeRow, Change
<1>3. TableType(rows) /\ Chained(rows) /\ r \in rows
  BY <1>1, <1>2 DEF Known, Bases, AttestationInv, BaseOK, KnownTable
<1>4. r \in LinkRow
  BY <1>3 DEF TableType
<1>6. Other(r.prev) \in Int
  BY <1>4 DEF Other, LinkRow
<1>7. ASSUME NEW q \in Rewritten(r), Change(Replace(r, q), Effect(r, q))
      PROVE  AttestationInv'
  <2>1. PICK left, effect : left = (rows \ {r}) \cup {q} /\ effect = Effect(r, q)
    OBVIOUS
  <2>2. /\ q \in LinkRow /\ Twin(q, r) /\ effect \in {"plain", "unseen", "lowered"}
        /\ effect # "plain" <=> Genuine(q) /\ (q.hash = r.hash \/ r = Last(rows))
    BY <1>1, <1>2, <2>1, EffectIs
  <2>3. TableType(left)
    <3>1. q.seq = r.seq
      BY <2>2 DEF Twin
    <3> QED
      BY <1>3, <2>1, <2>2, <3>1, ReplaceType
  <2>4. Chained(left) <=> effect # "plain"
    BY <1>3, <2>1, <2>2, RewrittenShows
  <2>5. \A p \in left : \E s \in base.rows : Twin(p, s)
    <3>1. \A p \in rows : Twin(p, p)
      BY DEF Twin
    <3> QED
      BY <1>1, <2>1, <2>2, <3>1
  <2>6. Change(left, effect)
    BY <1>1, <1>7, <2>1 DEF Replace
  <2> QED
    BY <2>2, <2>3, <2>4, <2>5, <2>6, ChangeKeeps
<1>9. CASE Change(Replace(r, [r EXCEPT !.prev = Other(@)]), "plain")
  <2>1. PICK q : q = [r EXCEPT !.prev = Other(@)]
    OBVIOUS
  <2>2. q \in LinkRow /\ q.seq = r.seq /\ q.prev = Other(r.prev)
    BY <1>4, <1>6, <2>1 DEF LinkRow
  <2>3. PICK left : left = (rows \ {r}) \cup {q}
    OBVIOUS
  <2>4. TableType(left) /\ ~Chained(left)
    BY <1>3, <2>2, <2>3, ReplaceType, BreaksBefore
  <2>5. Change(left, "plain")
    BY <1>1, <1>9, <2>1, <2>3 DEF Replace
  <2> QED
    BY <2>4, <2>5, ChangeKeeps
<1>10. ASSUME NEW seq \in (0 .. (LastSeq(base.rows) + 1)) \ Seqs(base.rows),
              Change(Replace(r, [r EXCEPT !.seq = seq]), "plain")
       PROVE  AttestationInv'
  <2>1. PICK q : q = [r EXCEPT !.seq = seq]
    OBVIOUS
  <2>2. seq \in Nat /\ seq \in 0 .. (LastSeq(rows) + 1) /\ seq \notin Seqs(rows)
    BY <1>1, <1>3, HeadIs
  <2>3. q \in LinkRow /\ q.seq = seq
    BY <1>4, <2>1, <2>2 DEF LinkRow
  <2>4. PICK left : left = (rows \ {r}) \cup {q}
    OBVIOUS
  <2>5. TableType(left) /\ ~Chained(left)
    BY <1>3, <2>2, <2>3, <2>4, ReplaceType, BreaksNumber
  <2>6. Change(left, "plain")
    BY <1>1, <1>10, <2>1, <2>4 DEF Replace
  <2> QED
    BY <2>5, <2>6, ChangeKeeps
<1>11. CASE Change(base.rows \ {r}, IF r = Last(base.rows) THEN "unseen" ELSE "plain")
  <2>1. PICK left : left = rows \ {r}
    OBVIOUS
  <2>2. TableType(left)
    BY <1>3, <2>1, PartType
  <2>3. CASE r = Last(rows)
    <3>1. Chained(left) /\ Change(left, "unseen") /\ left \subseteq base.rows
      BY <1>1, <1>3, <1>11, <2>1, <2>3, LastRemoved
    <3>2. \A p \in left : \E s \in base.rows : Twin(p, s)
      BY <3>1 DEF Twin
    <3> QED
      BY <2>2, <3>1, <3>2, ChangeKeeps
  <2>4. CASE r # Last(rows)
    <3>1. \A p \in left : p.seq \in Nat /\ p.seq # r.seq
      BY <1>3, <2>1 DEF TableType, LinkRow
    <3>2. ~Chained(left) /\ Change(left, "plain")
      BY <1>1, <1>3, <1>11, <2>1, <2>4, <3>1, BreaksAfter
    <3> QED
      BY <2>2, <3>2, ChangeKeeps
  <2> QED
    BY <2>3, <2>4
<1> QED
  BY <1>7, <1>9, <1>10, <1>11 DEF ChangeRow

LEMMA InitHolds ==
  ASSUME AttestationInit
  PROVE  AttestationInv
<1>0. PICK n \in Legacy : base = [rows |-> {LegacyRow(i) : i \in 1 .. n}, posted |-> {},
                                damage |-> "none"]
  BY DEF AttestationInit
<1>1. PICK rows : /\ rows = {LegacyRow(i) : i \in 1 .. n}
                  /\ base = [rows |-> rows, posted |-> {}, damage |-> "none"]
  BY <1>0
<1>2. n \in Nat /\ MaxPosted \in Nat
  BY AttestationAssumption
<1>3. Attested = {} /\ Bases = {base} /\ Known = {rows} /\ base.rows = rows
  <2>1. copies = {} /\ held = {} /\ DOMAIN files = {} /\ emission.stage = "idle"
    BY DEF AttestationInit
  <2>2. Attested = {} /\ Bases = {base}
    BY <2>1 DEF Attested, Bases
  <2>3. base.rows = rows
    BY <1>1
  <2> QED
    BY <2>2, <2>3 DEF Known
<1>4. \A i \in 1 .. n : /\ LegacyRow(i) \in LinkRow /\ LegacyRow(i).seq = i
                        /\ LegacyRow(i).version = 1 /\ LegacyRow(i).content = NotStored
                        /\ LegacyRow(i).hash = MaxPosted + i
                        /\ LegacyRow(i).prev = IF i = 1 THEN NoHash ELSE MaxPosted + i - 1
  BY <1>2 DEF LegacyRow, Row, LinkRow, NoHash, NotStored
<1>5. TableType(rows)
  <2> DEFINE f == [i \in 1 .. n |-> LegacyRow(i)]
  <2>1. f \in Surjection(1 .. n, rows)
    BY <1>1 DEF Surjection
  <2>2. IsFiniteSet(1 .. n)
    BY <1>2, FS_Interval
  <2>3. IsFiniteSet(rows)
    <3> HIDE DEF f
    <3> QED
      BY <2>1, <2>2, FS_Surjection
  <2> QED
    BY <1>1, <1>4, <2>3 DEF TableType
<1>6. Chained(rows)
  <2>1. ASSUME NEW i \in 1 .. n
        PROVE  Follows(LegacyRow(i), rows)
    <3>1. CASE i = 1
      BY <1>4, <3>1 DEF Follows
    <3>2. CASE i # 1
      <4>1. i - 1 \in 1 .. n /\ (i - 1) + 1 = i
        BY <1>2, <3>2
      <4>2. LegacyRow(i - 1) \in rows /\ LegacyRow(i).prev = LegacyRow(i - 1).hash
        BY <1>1, <1>2, <1>4, <3>2, <4>1
      <4>3. LegacyRow(i).seq = LegacyRow(i - 1).seq + 1
        BY <1>4, <4>1
      <4> QED
        BY <4>2, <4>3 DEF Follows
    <3> QED
      BY <3>1, <3>2
  <2> QED
    BY <1>1, <1>4, <2>1 DEF Chained, Genuine
<1>7. \A r \in rows : LegacyLink(r)
  BY <1>1, <1>4 DEF LegacyLink
<1>8. KnownTable(rows)
  BY <1>5, <1>7 DEF KnownTable
<1>9. NoFork
  <2>1. ASSUME NEW i \in 1 .. n, NEW j \in 1 .. n,
               LegacyRow(j).hash \in {LegacyRow(i).hash, Other(LegacyRow(i).hash)}
        PROVE  Twin(LegacyRow(j), LegacyRow(i))
    <3>1. MaxPosted + j \in {MaxPosted + i, Other(MaxPosted + i)}
      BY <1>4, <2>1
    <3>2. j = i
      BY <1>2, <3>1 DEF Other
    <3> QED
      BY <3>2 DEF Twin
  <2>2. \A r \in rows, q \in rows : q.hash \in {r.hash, Other(r.hash)} => Twin(q, r)
    BY <1>1, <2>1
  <2> QED
    BY <1>3, <2>2 DEF NoFork
<1>10. BaseOK(base)
  <2>1. Unspoilt(rows)
    BY <1>1, <1>4 DEF Unspoilt
  <2> QED
    BY <1>1, <1>3, <1>6, <2>1 DEF BaseOK
<1>11. written \in 0 .. MaxPosted
  BY <1>2 DEF AttestationInit
<1> QED
  BY <1>1, <1>3, <1>8, <1>9, <1>10, <1>11 DEF AttestationInv

LEMMA BackupKeeps ==
  ASSUME AttestationInv, Backup
  PROVE  AttestationInv'
  BY HandedOn DEF Backup, Bases, Attested

LEMMA RestoreKeeps ==
  ASSUME AttestationInv, Restore
  PROVE  AttestationInv'
<1>1. PICK copy \in copies : base' = copy
  BY DEF Restore
<1>2. copy \in Bases /\ BaseOK(copy) /\ copy.rows \in Known
  BY DEF Bases, Known, AttestationInv
<1>3. Attested' \subseteq Attested
  BY DEF Restore, Attested
<1>4. written' = written /\ written' <= MaxPosted /\ copies' \subseteq Bases
  BY AttestationAssumption DEF Restore, AttestationInv, Bases
<1>5. copy = [rows |-> copy.rows, posted |-> copy.posted, damage |-> copy.damage]
  BY <1>2 DEF AttestationInv
<1>6. base' = [rows |-> base'.rows, posted |-> base'.posted, damage |-> base'.damage]
  BY <1>1, <1>5
<1>7. BaseOK(base')
  BY <1>1, <1>2
<1>8. PICK table : table = base'.rows
  OBVIOUS
<1>9. table \in Known
  BY <1>1, <1>2, <1>8
<1>10. \A a \in Attested' : a \in Attested
  BY <1>3
<1>11. written' \in {written, written + 1} /\ written' <= MaxPosted /\ copies' \subseteq Bases
  BY <1>4
<1> QED
  BY <1>6, <1>7, <1>8, <1>9, <1>10, <1>11, StepKeeps

LEMMA EmissionKeeps ==
  ASSUME AttestationInv,
         Download \/ TakeOut \/ EmitBuild \/ EmitWrite \/ EmitRename \/ EmitFails
           \/ Tomorrow \/ Restart
  PROVE  AttestationInv'
<1>0. UNCHANGED <<base, written>> /\ copies' \subseteq Bases
  BY DEF Download, TakeOut, EmitBuild, EmitWrite, EmitRename, EmitFails, Tomorrow, Restart, Bases
<1>1. CASE Download
  <2>1. PICK a : a = BuildAttestation
    OBVIOUS
  <2>2. DocumentOK(a) /\ a.covers \in Known
    BY <2>1, BuildGives
  <2>3. \A x \in Attested' : x \in Attested \/ x = a
    BY <1>1, <2>1 DEF Download, Attested
  <2> QED
    BY <1>0, <2>2, <2>3, HandedOn
<1>2. CASE TakeOut
  <2>1. Attested' \subseteq Attested
    BY <1>2 DEF TakeOut, Attested
  <2> QED
    BY <1>0, <2>1, HandedOn
<1>3. CASE EmitBuild
  <2>1. PICK a : a = BuildAttestation
    OBVIOUS
  <2>2. DocumentOK(a) /\ a.covers \in Known
    BY <2>1, BuildGives
  <2>3. \A x \in Attested' : x \in Attested \/ x = a
    BY <1>3, <2>1 DEF EmitBuild, Attested
  <2> QED
    BY <1>0, <2>2, <2>3, HandedOn
<1>4. CASE EmitWrite
  <2>1. Attested' \subseteq Attested
    BY <1>4 DEF EmitWrite, Attested
  <2> QED
    BY <1>0, <2>1, HandedOn
<1>5. CASE EmitRename
  <2>1. PICK a, all : a = emission.document /\ all = FilesWith(emission.name, a)
    OBVIOUS
  <2>2. /\ files' = Pruned(all) /\ held' = held /\ emission'.stage = "idle"
        /\ emission.stage = "written"
    BY <1>5, <2>1 DEF EmitRename
  <2>7. a \in Attested /\ \A d \in DOMAIN files : files[d] \in Attested
    BY <2>1, <2>2 DEF Attested
  <2>3. \A d \in DOMAIN all : all[d] \in Attested
    <3>1. \A d \in DOMAIN all : all[d] = a \/ (d \in DOMAIN files /\ all[d] = files[d])
      BY <2>1 DEF FilesWith
    <3> QED
      BY <2>7, <3>1
  <2>4. DOMAIN files' \subseteq DOMAIN all /\ \A d \in DOMAIN files' : files'[d] = all[d]
    BY <2>2 DEF Pruned
  <2>5. \A x \in Attested' : x \in held \/ \E d \in DOMAIN files' : x = files'[d]
    BY <2>2 DEF Attested
  <2>6. Attested' \subseteq Attested
    BY <2>3, <2>4, <2>5 DEF Attested
  <2> QED
    BY <1>0, <2>6, HandedOn
<1>6. CASE EmitFails \/ Tomorrow \/ Restart
  <2>1. Attested' \subseteq Attested
    BY <1>6 DEF EmitFails, Tomorrow, Restart, Attested
  <2> QED
    BY <1>0, <2>1, HandedOn
<1> QED
  BY <1>1, <1>2, <1>3, <1>4, <1>5, <1>6

LEMMA StutterKeeps ==
  ASSUME AttestationInv, UNCHANGED attestationVars
  PROVE  AttestationInv'
  BY HandedOn DEF attestationVars, Bases, Attested

\* Whatever is posted, copied, put back, changed or attested, every table known
\* is a chain unless a row of it was changed visibly, an attestation says what
\* its rows were, and no two chains hold one digest in different places.
THEOREM AttestationInvariant == AttestationSpec => []AttestationInv
<1>1. AttestationInv /\ [AttestationNext]_attestationVars => AttestationInv'
  BY PostKeeps, BackupKeeps, RestoreKeeps, ChangeRowKeeps, EmissionKeeps, StutterKeeps
     DEF AttestationNext
<1> QED
  BY <1>1, InitHolds, PTL DEF AttestationSpec

-----------------------------------------------------------------------------
(* What a verification tells *)

LEMMA ReportVerified ==
  ASSUME NEW rows, TableType(rows)
  PROVE  ComputeChainReport(rows).verified <=> Chained(rows)
<1>1. PICK v : v = ComputeChainReport(rows).verified
  OBVIOUS
<1>2. v = (Breaks(rows) = {})
  BY <1>1 DEF ComputeChainReport
<1>3. v <=> Chained(rows)
  BY <1>2, SoundIsChained
<1> QED
  BY <1>1, <1>3

\* In a chain nothing has spoilt, an entry that has a link is intact.
LEMMA LinkIntact ==
  ASSUME NEW rows, TableType(rows), Chained(rows), Unspoilt(rows), NEW entry \in Nat \ {0},
         \E r \in rows : r.version = 2 /\ r.content = entry
  PROVE  VerifyEntryIntegrity(rows, entry) = "verified"
<1>1. LinksOf(rows, entry) # {}
  BY DEF LinksOf
<1>2. PICK link : link = CHOOSE r \in LinksOf(rows, entry) : TRUE
  OBVIOUS
<1>3. link \in LinksOf(rows, entry)
  BY <1>1, <1>2
<1>4. link \in rows /\ link.version = 2
  <2>1. link \in rows /\ link.content \in {entry, Other(entry)}
    BY <1>3 DEF LinksOf
  <2>2. link.content # NotStored
    BY <2>1 DEF Other, NotStored
  <2> QED
    BY <2>1, <2>2 DEF Unspoilt
<1>5. link.version = 2 /\ link.hash = link.content
  BY <1>4 DEF TableType, LinkRow, Chained, Genuine
<1>6. VerifyAuditLog(link) = "verified"
  BY <1>5 DEF VerifyAuditLog, ComputeEntryHash
<1> QED
  BY <1>1, <1>2, <1>6 DEF VerifyEntryIntegrity

LEMMA DamageIsReported ==
  ASSUME AttestationInv
  PROVE  DamageReported
<1>1. base \in Bases /\ base.rows \in Known
  BY DEF Bases, Known
<1>2. BaseOK(base) /\ TableType(base.rows)
  BY <1>1 DEF AttestationInv, KnownTable
<1>3. ComputeChainReport(base.rows).verified <=> Chained(base.rows)
  BY <1>2, ReportVerified
<1>4. Chained(base.rows) <=> base.damage # "plain"
  BY <1>2 DEF BaseOK
<1>5. ASSUME base.damage = "none", NEW entry \in base.posted
      PROVE  VerifyEntryIntegrity(base.rows, entry) = "verified"
  <2>1. /\ Unspoilt(base.rows) /\ entry \in Nat \ {0}
        /\ \E r \in base.rows : r.version = 2 /\ r.content = entry
    BY <1>2, <1>5 DEF BaseOK
  <2> QED
    BY <1>2, <1>4, <1>5, <2>1, LinkIntact
<1> QED
  BY <1>3, <1>4, <1>5 DEF DamageReported

\* A verification finds broken the bases in which a row was changed visibly,
\* and no others; the entries of a base nobody changed are intact.
THEOREM DamageReportedTheorem == AttestationSpec => []DamageReported
  BY AttestationInvariant, DamageIsReported, PTL

-----------------------------------------------------------------------------
(* What an attestation holds its books to *)

\* In two chains known, the links of one digest stand for each other.
LEMMA SameLink ==
  ASSUME AttestationInv, NEW X \in Known, NEW Y \in Known, Chained(X), Chained(Y),
         NEW x \in X, NEW y \in Y, x.hash = y.hash
  PROVE  StandsFor(y, x)
<1>1. Twin(y, x)
  BY DEF AttestationInv, NoFork
<1>2. Genuine(x) /\ Genuine(y)
  BY DEF Chained
<1> QED
  BY <1>1, <1>2 DEF StandsFor, Twin, Genuine

\* Two chains that agree on one link agree on all those before it: a row that
\* had no match nearest to it would be followed by one that has.
LEMMA SameHistory ==
  ASSUME AttestationInv, NEW X \in Known, NEW Y \in Known, Chained(X), Chained(Y),
         X # {}, NEW y \in Y, y.seq = Last(X).seq, y.hash = Last(X).hash,
         NEW x \in X
  PROVE  \E q \in Y : q.seq = x.seq /\ q.hash = x.hash
<1>1. TableType(X) /\ TableType(Y)
  BY DEF AttestationInv, KnownTable
<1>2. PICK last : last = Last(X)
  OBVIOUS
<1>3. last \in X /\ \A r \in X : r.seq <= last.seq
  BY <1>1, <1>2, LastIs
<1>4. /\ \A r \in X : r.seq \in Nat /\ r.seq >= 1
      /\ \A r \in Y : r.seq \in Nat /\ r.seq >= 1
  BY <1>1, Begins DEF TableType, LinkRow
<1> DEFINE Match(r) == \E q \in Y : q.seq = r.seq /\ q.hash = r.hash
           D == {last.seq - r.seq : r \in {r \in X : ~Match(r)}}
<1> SUFFICES ASSUME ~Match(x) PROVE FALSE
  OBVIOUS
<1>5. D \in SUBSET Nat /\ D # {}
  <2>1. \A r \in X : last.seq - r.seq \in Nat
    BY <1>3, <1>4
  <2> HIDE DEF Match
  <2> QED
    BY <2>1
<1>6. PICK d \in D : \A e \in D : d <= e
  <2> HIDE DEF D
  <2> QED
    BY <1>5, LeastNumber
<1>7. PICK r \in X : d = last.seq - r.seq /\ ~Match(r)
  BY <1>6
<1>8. r # last
  BY <1>2, <1>7
<1>9. PICK s \in X : s.seq = r.seq + 1 /\ s.prev = r.hash
  BY <1>1, <1>2, <1>8, Successor
<1>10. Match(s)
  <2>1. ~Match(s) => last.seq - s.seq \in D
    OBVIOUS
  <2>2. ~(d <= last.seq - s.seq)
    BY <1>3, <1>4, <1>7, <1>9
  <2> HIDE DEF D, Match
  <2> QED
    BY <1>6, <2>1, <2>2
<1>11. PICK t \in Y : t.seq = s.seq /\ t.hash = s.hash
  BY <1>10
<1>12. t.prev = s.prev
  BY <1>11, SameLink DEF StandsFor
<1>13. t.seq = r.seq + 1 /\ t.seq # 1
  BY <1>4, <1>9, <1>11
<1>14. PICK q \in Y : t.seq = q.seq + 1 /\ t.prev = q.hash
  BY <1>13 DEF Chained, Follows
<1>15. q.seq = r.seq /\ q.hash = r.hash
  BY <1>4, <1>9, <1>12, <1>13, <1>14
<1> QED
  BY <1>7, <1>15

\* The verdict on a document nobody changed.
LEMMA Verdict ==
  ASSUME NEW a, NEW rows, sceauValide(a), TableType(rows)
  PROVE  Favorable(a, rows) <=>
           \/ a.last = 0 /\ a.head = NoHash
           \/ HeadMatches(a, rows) /\ Chained(rows)
<1>1. ComputeChainReport(rows).verified <=> Chained(rows)
  BY ReportVerified
<1>2. HeadMatches(a, rows) => a.last \in Seqs(rows)
  BY DEF HeadMatches, Seqs
<1>3. CASE a.last = 0 /\ a.head = NoHash
  <2>1. VerifyAttestation(a, rows) = "nothing_covered"
    BY <1>3 DEF VerifyAttestation
  <2> QED
    BY <1>3, <2>1 DEF Favorable
<1>4. CASE ~(a.last = 0 /\ a.head = NoHash) /\ a.last \notin Seqs(rows)
  <2>1. VerifyAttestation(a, rows) = "sequence_absent"
    BY <1>2, <1>4 DEF VerifyAttestation
  <2> QED
    BY <1>2, <1>4, <2>1 DEF Favorable
<1>5. CASE ~(a.last = 0 /\ a.head = NoHash) /\ a.last \in Seqs(rows) /\ ~HeadMatches(a, rows)
  <2>1. VerifyAttestation(a, rows) = "books_changed"
    BY <1>5 DEF VerifyAttestation
  <2> QED
    BY <1>5, <2>1 DEF Favorable
<1>6. CASE ~(a.last = 0 /\ a.head = NoHash) /\ HeadMatches(a, rows) /\ ~Chained(rows)
  <2>1. VerifyAttestation(a, rows) = "chain_broken"
    BY <1>1, <1>2, <1>6 DEF VerifyAttestation
  <2> QED
    BY <1>6, <2>1 DEF Favorable
<1>7. CASE ~(a.last = 0 /\ a.head = NoHash) /\ HeadMatches(a, rows) /\ Chained(rows)
  <2>1. VerifyAttestation(a, rows) = "verified"
    BY <1>1, <1>2, <1>7 DEF VerifyAttestation
  <2> QED
    BY <1>7, <2>1 DEF Favorable
<1> QED
  BY <1>3, <1>4, <1>5, <1>6, <1>7

LEMMA Holds ==
  ASSUME AttestationInv
  PROVE  AttestationHolds
<1>1. ASSUME NEW a \in held
      PROVE  /\ DocumentOK(a) /\ a.covers \in Known /\ TableType(a.covers)
             /\ base.rows \in Known /\ TableType(base.rows)
  BY DEF Attested, Known, Bases, AttestationInv, KnownTable
<1>2. ASSUME NEW a \in held, a.verified, Favorable(a, base.rows), NEW x \in a.covers
      PROVE  \E q \in base.rows : StandsFor(q, x)
  <2>1. Chained(a.covers)
    BY <1>1, <1>2 DEF DocumentOK
  <2>2. a.last = Last(a.covers).seq /\ a.head = Last(a.covers).hash
    BY <1>1, <1>2 DEF DocumentOK, LastSeq, HeadHash
  <2>3. a.last # 0
    BY <1>1, <1>2, <2>1, <2>2, LastIs, Begins
  <2>4. HeadMatches(a, base.rows) /\ Chained(base.rows)
    BY <1>1, <1>2, <2>3, Verdict DEF DocumentOK
  <2>5. PICK y \in base.rows : y.seq = Last(a.covers).seq /\ y.hash = Last(a.covers).hash
    BY <2>2, <2>4 DEF HeadMatches
  <2>6. PICK q \in base.rows : q.seq = x.seq /\ q.hash = x.hash
    BY <1>1, <1>2, <2>1, <2>4, <2>5, SameHistory
  <2> QED
    BY <1>1, <1>2, <2>1, <2>4, <2>6, SameLink
<1>3. ASSUME NEW a \in held, base.damage = "none", a.covers \subseteq base.rows
      PROVE  Favorable(a, base.rows)
  <2>1. Chained(base.rows)
    BY <1>3 DEF AttestationInv, Bases, BaseOK
  <2>2. CASE a.covers = {}
    BY <1>1, <2>2, Verdict DEF DocumentOK, LastSeq, HeadHash
  <2>3. CASE a.covers # {}
    <3>1. Last(a.covers) \in base.rows
      BY <1>1, <1>3, <2>3, LastIs
    <3>2. HeadMatches(a, base.rows)
      BY <1>1, <2>3, <3>1 DEF DocumentOK, LastSeq, HeadHash, HeadMatches
    <3> QED
      BY <1>1, <2>1, <3>2, Verdict DEF DocumentOK
  <2> QED
    BY <2>2, <2>3
<1> QED
  BY <1>2, <1>3 DEF AttestationHolds

\* Books that confirm an attestation that found its chain sound hold a link in
\* the place of each it was drawn from; books that hold those, and that only the
\* program wrote, confirm it.
THEOREM AttestationHoldsTheorem == AttestationSpec => []AttestationHolds
  BY AttestationInvariant, Holds, PTL

=============================================================================
