---------------------------- MODULE Attestation -----------------------------
(***************************************************************************)
(* How the audit chain is verified, and the attestation the program draws  *)
(* from it: a document that says what the chain is today, written to disk  *)
(* at every start and every day, and taken out of the machine so that it   *)
(* can be compared later with what the books have become.                  *)
(*                                                                         *)
(* AuditAppend models how links are added; here a posting adds its link in *)
(* one step.  The base may also be replaced by a copy made earlier, and    *)
(* one row of it may be changed by something else than the program: that   *)
(* is what a verification is there to tell.                                *)
(*                                                                         *)
(* A digest is ideal: that of a content is the content.  A link written    *)
(* before version 1.4.6 bears the digest of values that were not stored.   *)
(***************************************************************************)
EXTENDS Integers, FiniteSets, FiniteSetsExt

CONSTANTS
  Legacy,       \* how many links of version 1 the base may start with
  MaxPosted,    \* bound on the postings
  MaxDay,       \* bound on the days
  Keep          \* attestationKeep: files kept on disk

ASSUME AttestationAssumption ==
  /\ Legacy \subseteq Nat /\ MaxPosted \in Nat /\ MaxDay \in Nat \ {0}
  /\ Keep \in Nat \ {0}

VARIABLES
  base,       \* the base: links, entries posted, what was changed in it
  copies,     \* copies of the base
  written,    \* contents written so far, in whatever base
  day,        \* date of the machine
  due,        \* an attestation is due
  emission,   \* progress of the emission
  files,      \* the files attestation-integrite-<day>.json
  held        \* the attestations that have left the machine

attestationVars == <<base, copies, written, day, due, emission, files, held>>

NoHash == 0

\* What a column bears once changed: nothing the program writes.
Other(value) == -1 - value

-----------------------------------------------------------------------------
(* Links *)

Row(seq, content, hash, prev, version) ==
  [seq |-> seq, content |-> content, hash |-> hash, prev |-> prev, version |-> version]

ComputeEntryHash(content) == content

Seqs(rows) == {r.seq : r \in rows}

Last(rows) == CHOOSE r \in rows : r.seq = Max(Seqs(rows))

First(rows) == CHOOSE r \in rows : r.seq = Min(Seqs(rows))

Before(rows, r) == Last({q \in rows : q.seq < r.seq})

HeadHash(rows) == IF rows = {} THEN NoHash ELSE Last(rows).hash

LastSeq(rows) == IF rows = {} THEN 0 ELSE Last(rows).seq

\* A link of version 1, well chained: it is the digest of what was not stored.
NotStored == 0

LegacyRow(i) == Row(i, NotStored, MaxPosted + i, IF i = 1 THEN NoHash ELSE MaxPosted + i - 1, 1)

\* Links whose digest can be computed again, and is not the one stored.
Altered(rows) == {r \in rows : r.version >= 2 /\ ComputeEntryHash(r.content) # r.hash}

\* Faulty variant: the numbers of the links are not compared.
BreaksWithoutNumbers(rows) ==
  {<<"entry_altered", r>> : r \in Altered(rows)}
    \cup {<<"anchor_invalid", r>> : r \in {r \in rows : r = First(rows) /\ r.prev # NoHash}}
    \cup {<<"link_broken", r>> :
            r \in {r \in rows : r # First(rows) /\ r.prev # Before(rows, r).hash}}

\* What the walk along the chain finds: rows altered, a beginning that is
\* missing, a row that does not point to the one before it, a missing number.
Breaks(rows) ==
  LET rest == {r \in rows : r # First(rows)}
  IN {<<"entry_altered", r>> : r \in Altered(rows)}
       \cup {<<"anchor_invalid", r>> :
               r \in {r \in rows \ rest : r.prev # NoHash \/ r.seq # 1}}
       \cup {<<"link_broken", r>> : r \in {r \in rest : r.prev # Before(rows, r).hash}}
       \cup {<<"sequence_gap", r>> : r \in {r \in rest : r.seq # Before(rows, r).seq + 1}}

ComputeChainReport(rows) ==
  [verified |-> Breaks(rows) = {}, entries |-> Cardinality(rows),
   legacy |-> Cardinality({r \in rows : r.version < 2}),
   lastSeq |-> LastSeq(rows), headHash |-> HeadHash(rows)]

\* VerifyAuditLog: one row by itself.
VerifyAuditLog(r) ==
  IF r.version < 2 THEN "not_verifiable"
  ELSE IF ComputeEntryHash(r.content) = r.hash THEN "verified" ELSE "altered"

\* The link of an entry names it whatever happens to the rest of its content:
\* content and Other(content) are those of one entry.
LinksOf(rows, entry) == {r \in rows : r.content \in {entry, Other(entry)}}

VerifyEntryIntegrity(rows, entry) ==
  IF LinksOf(rows, entry) = {} THEN "missing"
  ELSE VerifyAuditLog(CHOOSE r \in LinksOf(rows, entry) : TRUE)

-----------------------------------------------------------------------------
(* The base *)

\* PostEntry: the entry is posted and its link appended.
PostEntry ==
  /\ written < MaxPosted
  /\ written' = written + 1
  /\ base' = [base EXCEPT
       !.rows = @ \cup {Row(LastSeq(@) + 1, written + 1, ComputeEntryHash(written + 1),
                            HeadHash(@), 2)},
       !.posted = @ \cup {written + 1}]
  /\ UNCHANGED <<copies, day, due, emission, files, held>>

Backup ==
  /\ copies' = {base}
  /\ UNCHANGED <<base, written, day, due, emission, files, held>>

\* A copy takes the place of the base, and the program starts again.
Restore ==
  /\ \E copy \in copies : base' = copy
  /\ due' = TRUE
  /\ emission' = [stage |-> "idle"]
  /\ UNCHANGED <<copies, written, day, files, held>>

\* One row changed from outside, once.  "plain" is what a verification must
\* report; "unseen" what no walk can see: the content of a link of version 1,
\* and the last link, taken away or written anew with its digest; "lowered" a
\* link whose digest could be computed again and now cannot, since it says it
\* is of version 1.
Change(rows, effect) ==
  /\ base.damage = "none"
  /\ base' = [base EXCEPT !.rows = rows, !.damage = effect]
  /\ UNCHANGED <<copies, written, day, due, emission, files, held>>

Replace(r, q) == (base.rows \ {r}) \cup {q}

\* Row r with any of the columns changed that do not place it in the chain.  A
\* content and a digest both changed agree: that of a content is the content.
Rewritten(r) ==
  {[r EXCEPT !.content = c, !.hash = h, !.version = v] :
     c \in {r.content, Other(r.content)}, h \in {r.hash, Other(r.hash)}, v \in {1, 2}} \ {r}

Effect(r, q) ==
  LET isLast == r = Last(base.rows)
      anew == q.content # r.content /\ q.hash # r.hash
  IN CASE q.version < r.version /\ (isLast \/ q.hash = r.hash)       -> "lowered"
       [] r.version < 2 /\ q.version < 2 /\ (isLast \/ q.hash = r.hash) -> "unseen"
       [] r.version >= 2 /\ q.version >= 2 /\ isLast /\ anew         -> "unseen"
       [] OTHER                                                     -> "plain"

ChangeRow(r) ==
  \/ \E q \in Rewritten(r) : Change(Replace(r, q), Effect(r, q))
  \/ Change(Replace(r, [r EXCEPT !.prev = Other(@)]), "plain")
  \/ \E seq \in 0..(LastSeq(base.rows) + 1) \ Seqs(base.rows) :
       Change(Replace(r, [r EXCEPT !.seq = seq]), "plain")
  \/ Change(base.rows \ {r}, IF r = Last(base.rows) THEN "unseen" ELSE "plain")

-----------------------------------------------------------------------------
(* Attestations *)

\* What the seal covers.
Sealed(last, head, verified, posted) == <<last, head, verified, posted>>

\* BuildAttestation.  covers is not in the document: it is the rows it was
\* drawn from.
BuildAttestation ==
  LET report == ComputeChainReport(base.rows)
      posted == Cardinality(base.posted)
  IN [last |-> report.lastSeq, head |-> report.headHash, verified |-> report.verified,
      posted |-> posted,
      seal |-> Sealed(report.lastSeq, report.headHash, report.verified, posted),
      covers |-> base.rows]

\* IntegrityAttestation: the document is downloaded.
Download ==
  /\ held' = held \cup {BuildAttestation}
  /\ UNCHANGED <<base, copies, written, day, due, emission, files>>

\* A file leaves with the backups.
TakeOut ==
  /\ \E d \in DOMAIN files : held' = held \cup {files[d]}
  /\ UNCHANGED <<base, copies, written, day, due, emission, files>>

\* The scheduler: at start and every day.
EmitBuild ==
  /\ due /\ emission.stage = "idle"
  /\ due' = FALSE
  /\ emission' = [stage |-> "built", document |-> BuildAttestation]
  /\ UNCHANGED <<base, copies, written, day, files, held>>

\* The files once one more is written, in the place of that of its day if any.
FilesWith(name, document) ==
  [d \in DOMAIN files \cup {name} |-> IF d = name THEN document ELSE files[d]]

\* Faulty variant: written under its name, and renamed afterwards.
EmitWriteInPlace ==
  /\ emission.stage = "built"
  /\ files' = FilesWith(day, [emission.document EXCEPT !.seal = <<>>])
  /\ emission' = [stage |-> "written", document |-> emission.document, name |-> day]
  /\ UNCHANGED <<base, copies, written, day, due, held>>

\* The file is named once the document is built, and written beside its name.
EmitWrite ==
  /\ emission.stage = "built"
  /\ emission' = [stage |-> "written", document |-> emission.document, name |-> day]
  /\ UNCHANGED <<base, copies, written, day, due, files, held>>

\* pruneAttestations: the most recent names are kept.
Pruned(all) ==
  LET newest == {d \in DOMAIN all : Cardinality({e \in DOMAIN all : e > d}) < Keep}
  IN [d \in newest |-> all[d]]

EmitRename ==
  /\ emission.stage = "written"
  /\ files' = Pruned(FilesWith(emission.name, emission.document))
  /\ emission' = [stage |-> "idle"]
  /\ UNCHANGED <<base, copies, written, day, due, held>>

\* Any step of the emission may fail: it is given up until the next one.
EmitFails ==
  /\ emission.stage # "idle"
  /\ emission' = [stage |-> "idle"]
  /\ UNCHANGED <<base, copies, written, day, due, files, held>>

Tomorrow ==
  /\ day < MaxDay
  /\ day' = day + 1
  /\ due' = TRUE
  /\ UNCHANGED <<base, copies, written, emission, files, held>>

\* The program dies and starts again.
Restart ==
  /\ due' = TRUE
  /\ emission' = [stage |-> "idle"]
  /\ UNCHANGED <<base, copies, written, day, files, held>>

-----------------------------------------------------------------------------
(* Verification of an attestation *)

sceauValide(a) == a.seal = Sealed(a.last, a.head, a.verified, a.posted)

\* Faulty variant: any link with that number will do.
HeadMatchesAny(a, rows) == a.last \in Seqs(rows)

\* HashAtSequence: the link with the attested number bears the attested digest.
HeadMatches(a, rows) == \E r \in rows : r.seq = a.last /\ r.hash = a.head

\* VerifyAttestation and its verdict: what spoils the document comes before
\* what spoils the books, and nothing is compared when nothing was covered.
VerifyAttestation(a, rows) ==
  CASE ~sceauValide(a)                      -> "document_modified"
    [] sceauValide(a) /\ a.last = 0 /\ a.head = NoHash -> "nothing_covered"
    [] OTHER ->
         CASE a.last \notin Seqs(rows)             -> "sequence_absent"
           [] a.last \in Seqs(rows) /\ ~HeadMatches(a, rows) -> "books_changed"
           [] HeadMatches(a, rows) /\ ~ComputeChainReport(rows).verified -> "chain_broken"
           [] OTHER                                -> "verified"

Favorable(a, rows) == VerifyAttestation(a, rows) \in {"nothing_covered", "verified"}

-----------------------------------------------------------------------------

AttestationInit ==
  /\ base \in {[rows |-> {LegacyRow(i) : i \in 1..n}, posted |-> {}, damage |-> "none"] :
                n \in Legacy}
  /\ copies = {}
  /\ written = 0
  /\ day = 1
  /\ due = TRUE
  /\ emission = [stage |-> "idle"]
  /\ files = [d \in {} |-> {}]
  /\ held = {}

AttestationNext ==
  \/ PostEntry
  \/ Backup
  \/ Restore
  \/ \E r \in base.rows : ChangeRow(r)
  \/ Download
  \/ TakeOut
  \/ EmitBuild
  \/ EmitWrite
  \/ EmitRename
  \/ EmitFails
  \/ Tomorrow
  \/ Restart

AttestationSpec == AttestationInit /\ [][AttestationNext]_attestationVars

-----------------------------------------------------------------------------
(* Properties *)

\* A base only the program has written is reported sound, and each of its
\* entries intact, however often it was copied back and added to; a base in
\* which one row was changed from outside is reported broken for ever after,
\* whatever is added to it, but for what no walk can see and for a row lowered
\* to version 1, which the walk takes for one written before 1.4.6 (audit.go
\* VerifyAuditChain, ComputeChainReport).
DamageReported ==
  /\ ComputeChainReport(base.rows).verified <=> base.damage # "plain"
  /\ base.damage = "none" =>
       \A entry \in base.posted : VerifyEntryIntegrity(base.rows, entry) = "verified"

\* Link q stands for link r: number, digest and link before are the same, and
\* so is the content where the digest of both can be computed again.
StandsFor(q, r) ==
  /\ q.seq = r.seq /\ q.hash = r.hash /\ q.prev = r.prev
  /\ r.version = 2 /\ q.version = 2 => q.content = r.content

\* An attestation that found the chain sound is confirmed only by books where
\* something stands for every row it was drawn from; books that hold these
\* rows, and that nothing but the program has written, confirm it, whatever
\* was added since.  Books gone back to a copy and continued otherwise do not
\* pass for those attested (attestation_verify.go).
AttestationHolds ==
  \A a \in held :
    /\ a.verified /\ Favorable(a, base.rows) =>
         \A r \in a.covers : \E q \in base.rows : StandsFor(q, r)
    /\ base.damage = "none" /\ a.covers \subseteq base.rows => Favorable(a, base.rows)

\* What attestation_verify.go says of its verdict, 22-27 and 233-235: an
\* attestation confirmed proves that no entry it covers was written anew.  A
\* row written before 1.4.6, of which it says that nobody can know, is left out.
\* It does not hold: a row lowered to version 1 may say something else.
NothingRewritten ==
  \A a \in held : a.verified /\ Favorable(a, base.rows) =>
    \A r \in a.covers : r.version = 2 =>
      \E q \in base.rows : q.seq = r.seq /\ q.content = r.content

\* Whatever moment the program dies at, what lies on disk under the name of an
\* attestation is a whole one, of a day that has come, and the files are never
\* more than those kept (attestation_auto.go).
FilesWhole ==
  /\ \A d \in DOMAIN files : sceauValide(files[d]) /\ d <= day
  /\ Cardinality(DOMAIN files) <= Keep

=============================================================================
