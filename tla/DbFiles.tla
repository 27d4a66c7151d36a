------------------------------ MODULE DbFiles -------------------------------
(***************************************************************************)
(* The files of the base: its copies, its restoration and its encryption.  *)
(*                                                                         *)
(* A running server cannot replace the file it has open.  A restoration or *)
(* a conversion is left as a marker and carried out at the next start,     *)
(* before the base is opened: first the restoration, then the              *)
(* reconciliation of the file with the key of the machine.  The machine    *)
(* may stop between any two steps; a copy may fail for want of room.       *)
(*                                                                         *)
(* The books are known by a number, one more at each entry: 0 is an empty  *)
(* base.  Requests of the administrator run one at a time.                 *)
(***************************************************************************)
EXTENDS Integers, Sequences, FiniteSets, SequencesExt

CONSTANTS
  Keep,        \* snapshots that pruning keeps (DefaultKeep, 14)
  MaxBooks,    \* bound: entries made
  MaxBackups,  \* bound: snapshots taken
  MaxKeys,     \* bound: keys created
  MaxCrashes   \* bound: sudden stops

Torn == -1
NoFile == [books |-> Torn, key |-> -1]
Clear == 0
NoKey == 0
NoWal == <<>>

ASSUME DbFilesAssumption ==
  /\ Keep \in Nat \ {0}
  /\ MaxBooks \in Nat /\ MaxBackups \in Nat /\ MaxCrashes \in Nat
  /\ MaxKeys \in Nat \ {0}

VARIABLES
  pc,        \* where the process is: down, a step of the start, up, a request
  live,      \* the base: the books it holds and the key it is written under
  wal,       \* the journal beside it: the file it goes with, the books with it
  aside,     \* <base>.before-conversion
  converted, \* <base>.encrypting or <base>.decrypting, once verified
  staged,    \* staged-restore.db
  restore,   \* is there a marker pending-restore.json
  pending,   \* action of the marker pending-encryption.json
  sealed,    \* key sealed to the account: which, can this account unseal it
  wrap,      \* key wrapped with the recovery phrase
  backups,   \* snapshots, by date of the file, newest first
  todo,      \* snapshots a request has still to encrypt
  then,      \* what follows the encryption of a snapshot
  made,      \* counters: books, snapshots, keys, stops
  current,   \* history: the books the user works on
  undo,      \* history: the books replaced by a staged restoration, their snapshot
  last,      \* history: the last snapshot that was completed
  mishap     \* history: a swap interrupted, a copy failed, snapshots encrypted
             \* on request, one of them failed, the account lost

files == <<live, wal, aside, converted, staged>>
keyring == <<sealed, wrap>>
markers == <<restore, pending>>
copies == <<backups, todo, then>>
history == <<current, undo, last, mishap>>
vars == <<pc, files, keyring, markers, copies, made, history>>

-----------------------------------------------------------------------------
(* Reading the files *)

Exists(f) == f # NoFile

IsDatabaseEncrypted(f) == Exists(f) /\ f.key # Clear

Configured == sealed.key # NoKey

HasKey == Configured /\ sealed.readable

\* What SQLite reads: the file with its journal; the journal of another
\* file corrupts it.
Content == CASE wal = NoWal -> live.books
             [] wal # NoWal /\ wal.of = live -> wal.books
             [] OTHER -> Torn

Backup(id) == {b \in Range(backups) : b.id = id}

\* DecryptFile refuses a truncated ciphertext, Verify what is not a base.
Whole(b) == b.whole

-----------------------------------------------------------------------------
(* Snapshots *)

\* Prune: the first Keep of the list stay.
Prune(list) == SubSeq(list, 1, IF Len(list) < Keep THEN Len(list) ELSE Keep)

\* os.Remove of one form of a snapshot: its file in clear, or the encrypted one.
Removed(list, id, enc) ==
  LET places == {n \in DOMAIN list : list[n].id = id /\ list[n].enc = enc}
  IN IF places = {} THEN list ELSE RemoveAt(list, CHOOSE n \in places : TRUE)

\* The end of a snapshot, or of one encryption among several.
After(list) ==
  /\ todo' = Tail(todo)
  /\ backups' = IF then = "prune" THEN Prune(list) ELSE list
  /\ pc' = CASE then = "stage" -> "stage"
             [] then = "next" /\ Len(todo) > 1 -> "encrypt"
             [] OTHER -> "up"
  /\ last' = IF then = "next" THEN last ELSE todo[1]
  /\ then' = IF then = "next" /\ Len(todo) > 1 THEN then ELSE "nothing"

\* Backup: VACUUM INTO, then encryption when there is a passphrase.
Snapshot(next, phrase) ==
  LET new == [id |-> made.backups + 1, enc |-> FALSE, whole |-> TRUE, books |-> Content]
  IN /\ made.backups < MaxBackups
     /\ made' = [made EXCEPT !.backups = @ + 1]
     /\ backups' = <<new>> \o backups
     /\ todo' = <<new.id>>
     /\ then' = next
     /\ pc' = IF phrase THEN "encrypt" ELSE "written"
     /\ UNCHANGED <<files, keyring, markers, current, last, mishap>>

\* VACUUM INTO fails, or the machine is about to stop in it: what it wrote
\* stays, a torn file, or an empty one, which Verify takes for an empty base.
SnapshotTorn ==
  /\ pc = "up"
  /\ made.backups < MaxBackups
  /\ made' = [made EXCEPT !.backups = @ + 1]
  /\ \E whole \in BOOLEAN :
       backups' = <<[id |-> made.backups + 1, enc |-> FALSE, whole |-> whole, books |-> 0]>>
                    \o backups
  /\ UNCHANGED <<pc, files, keyring, markers, todo, then, history>>

\* CreateBackup, and MaybeAutoBackup at the end of the start.
CreateBackup ==
  /\ pc = "up"
  /\ \E phrase \in BOOLEAN : Snapshot("prune", phrase)
  /\ UNCHANGED undo

\* A snapshot in clear is done.
KeepClear ==
  /\ pc = "written"
  /\ After(backups)
  /\ UNCHANGED <<files, keyring, markers, made, current, undo, mishap>>

\* EncryptExisting: the snapshots in clear, newest first.
EncryptExisting ==
  LET clear == {n \in DOMAIN backups : ~backups[n].enc}
  IN /\ pc = "up"
     /\ clear # {}
     /\ \E order \in SetToSeqs(clear) :
          /\ \A m, n \in DOMAIN order : m < n => order[m] < order[n]
          /\ todo' = [n \in DOMAIN order |-> backups[order[n]].id]
     /\ then' = "next"
     /\ pc' = "encrypt"
     /\ mishap' = mishap \union {"reordered"}
     /\ UNCHANGED <<files, keyring, markers, backups, made, current, undo, last>>

\* EncryptFile opens its target with O_EXCL, then fills it.
EncryptStart ==
  /\ pc = "encrypt"
  /\ \A b \in Backup(todo[1]) : ~b.enc
  /\ \E b \in Backup(todo[1]) :
       backups' = <<[b EXCEPT !.enc = TRUE, !.whole = FALSE]>> \o backups
  /\ pc' = "filling"
  /\ UNCHANGED <<files, keyring, markers, todo, then, made, history>>

\* Faulty variant: the copy in clear goes as soon as its ciphertext is named.
EncryptFileUnread ==
  /\ pc = "filling"
  /\ backups' = Removed(backups, todo[1], FALSE)
  /\ pc' = "verify"
  /\ UNCHANGED <<files, keyring, markers, todo, then, made, history>>

\* The ciphertext of a torn file is as good as that file.
EncryptFile ==
  /\ pc = "filling"
  /\ backups' = [n \in DOMAIN backups |->
       IF backups[n].id = todo[1] /\ backups[n].enc
       THEN [backups[n] EXCEPT !.whole = \A b \in Backup(todo[1]) : b.enc \/ Whole(b)]
       ELSE backups[n]]
  /\ pc' = "verify"
  /\ UNCHANGED <<files, keyring, markers, todo, then, made, history>>

\* The ciphertext was read back: the copy in clear goes.
EncryptDone ==
  /\ pc = "verify"
  /\ \A b \in Backup(todo[1]) : b.enc => Whole(b)
  /\ After(Removed(backups, todo[1], FALSE))
  /\ UNCHANGED <<files, keyring, markers, made, current, undo, mishap>>

\* encryptInPlace on any failure, no room, a target already there, a
\* ciphertext that does not read back: both copies go, and the request stops.
EncryptFails ==
  /\ pc \in {"encrypt", "filling", "verify"}
  /\ backups' = Removed(Removed(backups, todo[1], FALSE), todo[1], TRUE)
  /\ todo' = <<>>
  /\ pc' = "up"
  /\ mishap' = mishap \union (IF then = "next" THEN {"encryption"} ELSE {})
  /\ then' = "nothing"
  /\ UNCHANGED <<files, keyring, markers, made, current, undo, last>>

-----------------------------------------------------------------------------
(* Restoration: asked for while the server runs *)

\* Faulty variant: nothing is kept of the present books.
AskRestoreUnsaved ==
  /\ pc = "up"
  /\ backups # <<>>
  /\ pc' = "stage"
  /\ UNCHANGED <<files, keyring, markers, copies, made, history>>

\* StageRestore of the handler: a snapshot of the present books first.
AskRestore ==
  /\ pc = "up"
  /\ backups # <<>>
  /\ \E phrase \in BOOLEAN : Snapshot("stage", phrase)
  /\ UNCHANGED undo

\* db.StageRestore: what was staged before goes, the chosen snapshot is
\* decrypted or copied, then verified.
StageCopy ==
  /\ pc = "stage"
  /\ restore' = FALSE
  /\ \/ \E b \in Range(backups) :
          /\ Whole(b)
          /\ staged' = [books |-> b.books, key |-> Clear]
          /\ undo' = [id |-> made.backups, books |-> Content]
          /\ pc' = "staged"
     \/ /\ \E b \in Range(backups) : ~Whole(b)
        /\ staged' = NoFile
        /\ pc' = "up"
        /\ UNCHANGED undo
  /\ UNCHANGED <<live, wal, aside, converted, keyring, pending, copies, made, current, last, mishap>>

\* writePendingRestore.
StageMark ==
  /\ pc = "staged"
  /\ restore' = TRUE
  /\ pc' = "up"
  /\ UNCHANGED <<files, keyring, pending, copies, made, history>>

CancelRestore ==
  /\ pc = "up"
  /\ restore
  /\ staged' = NoFile
  /\ restore' = FALSE
  /\ UNCHANGED <<pc, live, wal, aside, converted, keyring, pending, copies, made, history>>

-----------------------------------------------------------------------------
(* Encryption: asked for while the server runs *)

\* EnableDatabaseEncryption: Create wraps the new key, seals it; then the
\* marker.
WrapKey ==
  /\ pc = "up"
  /\ ~Configured
  /\ made.keys < MaxKeys
  /\ made' = [made EXCEPT !.keys = @ + 1]
  /\ wrap' = made.keys + 1
  /\ pc' = "wrapped"
  /\ UNCHANGED <<files, sealed, markers, copies, history>>

SealKey ==
  /\ pc = "wrapped"
  /\ sealed' = [key |-> wrap, readable |-> TRUE]
  /\ pc' = "sealed"
  /\ UNCHANGED <<files, wrap, markers, copies, made, history>>

MarkEncryption ==
  /\ pc = "sealed"
  /\ pending' = "encrypt"
  /\ pc' = "up"
  /\ UNCHANGED <<files, keyring, restore, copies, made, history>>

DisableDatabaseEncryption ==
  /\ pc = "up"
  /\ HasKey
  /\ pending' = "decrypt"
  /\ UNCHANGED <<pc, files, keyring, restore, copies, made, history>>

\* Forget removes the sealed key, then the wrapped one.
CancelDatabaseEncryption ==
  /\ pc = "up"
  /\ pending # "none"
  /\ pending' = "none"
  /\ IF pending = "encrypt" /\ ~IsDatabaseEncrypted(live)
     THEN /\ sealed' = [key |-> NoKey, readable |-> FALSE]
          /\ pc' = "unwrap"
     ELSE UNCHANGED <<sealed, pc>>
  /\ UNCHANGED <<files, wrap, restore, copies, made, history>>

RemoveWrap ==
  /\ pc = "unwrap"
  /\ wrap' = NoKey
  /\ pc' = "up"
  /\ UNCHANGED <<files, sealed, markers, copies, made, history>>

\* RecoverDatabaseKey, and the recovery page: the unwrapped key is sealed
\* to this account.  The page then relaunches the server.
RecoverKey ==
  /\ pc \in {"up", "recovery"}
  /\ wrap # NoKey
  /\ sealed' = [key |-> wrap, readable |-> TRUE]
  /\ pc' = IF pc = "recovery" THEN "down" ELSE pc
  /\ UNCHANGED <<files, wrap, markers, copies, made, history>>

-----------------------------------------------------------------------------
(* The start *)

Start ==
  /\ pc = "down"
  /\ pc' = "restore"
  /\ UNCHANGED <<files, keyring, markers, copies, made, history>>

\* ReadPendingRestore: a marker without its staged copy is removed.
NothingToRestore ==
  /\ pc = "restore"
  /\ ~restore \/ ~Exists(staged)
  /\ restore' = FALSE
  /\ pc' = "reconcile"
  /\ UNCHANGED <<files, keyring, pending, copies, made, history>>

\* Restore: copyFile truncates the base, then fills it.
TruncateBase ==
  /\ pc = "restore"
  /\ restore
  /\ Exists(staged)
  /\ live' = [books |-> Torn, key |-> Clear]
  /\ pc' = "copying"
  /\ UNCHANGED <<wal, aside, converted, staged, keyring, markers, copies, made, history>>

CopyStaged ==
  /\ pc = "copying"
  /\ live' = staged
  /\ pc' = "copied"
  /\ current' = staged.books
  /\ UNCHANGED <<wal, aside, converted, staged, keyring, markers, copies, made, undo, last, mishap>>

\* No room left: the base stays as the copy left it; the marker and the
\* staged copy go (the deferred ClearPendingRestore), the start goes on.
CopyFails ==
  /\ pc = "copying"
  /\ \E left \in {Torn, 0} : live' = [live EXCEPT !.books = left]
  /\ staged' = NoFile
  /\ restore' = FALSE
  /\ pc' = "reconcile"
  /\ mishap' = mishap \union {"copy"}
  /\ UNCHANGED <<wal, aside, converted, keyring, pending, copies, made, current, undo, last>>

\* Faulty variant: the journal of the replaced base stays.
KeepSidecars ==
  /\ pc = "copied"
  /\ pc' = "restored"
  /\ UNCHANGED <<files, keyring, markers, copies, made, history>>

DropSidecars ==
  /\ pc = "copied"
  /\ wal' = NoWal
  /\ pc' = "restored"
  /\ UNCHANGED <<live, aside, converted, staged, keyring, markers, copies, made, history>>

\* ClearPendingRestore removes the staged copy, then the marker.
DropStaged ==
  /\ pc = "restored"
  /\ staged' = NoFile
  /\ pc' = "restore"
  /\ UNCHANGED <<live, wal, aside, converted, keyring, markers, copies, made, history>>

\* Faulty variant: the key goes before the base is in clear.
ForgetFirst ==
  /\ pc = "reconcile"
  /\ pending = "decrypt"
  /\ HasKey
  /\ sealed' = [key |-> NoKey, readable |-> FALSE]
  /\ wrap' = NoKey
  /\ pc' = "convert"
  /\ UNCHANGED <<files, markers, copies, made, history>>

\* Faulty variant: the marker stays when the key cannot be had.
ReconcileDecryptAgain ==
  /\ pc = "reconcile"
  /\ pending = "decrypt"
  /\ pc' = CASE HasKey /\ ~IsDatabaseEncrypted(live) -> "forget"
             [] HasKey /\ IsDatabaseEncrypted(live) /\ live.key = sealed.key -> "convert"
             [] OTHER -> "down"
  /\ UNCHANGED <<files, keyring, markers, copies, made, history>>

\* ReconcileDatabaseEncryption, a request to write the base in clear.
\* Without a key that opens the base: FATAL, and the marker goes all the same.
ReconcileDecrypt ==
  /\ pc = "reconcile"
  /\ pending = "decrypt"
  /\ \/ /\ HasKey
        /\ ~IsDatabaseEncrypted(live)
        /\ pc' = "forget"
        /\ UNCHANGED pending
     \/ /\ HasKey
        /\ IsDatabaseEncrypted(live) /\ live.key = sealed.key
        /\ pc' = "convert"
        /\ UNCHANGED pending
     \/ /\ ~HasKey \/ (IsDatabaseEncrypted(live) /\ live.key # sealed.key)
        /\ pending' = "none"
        /\ pc' = "down"
  /\ UNCHANGED <<files, keyring, restore, copies, made, history>>

\* The rest of it: a configured key and a base in clear do not go together.
Reconcile ==
  /\ pc = "reconcile"
  /\ pending # "decrypt"
  /\ pending' = "none"
  /\ pc' = CASE ~Configured \/ IsDatabaseEncrypted(live) \/ ~Exists(live) -> "open"
             [] HasKey /\ Exists(live) /\ ~IsDatabaseEncrypted(live) -> "convert"
             [] OTHER -> "down"
  /\ UNCHANGED <<files, keyring, restore, copies, made, history>>

Decrypting == pending = "decrypt"

\* EncryptDatabaseFile, DecryptDatabaseFile: the base is opened, which takes
\* its journal in, and written anew under the other key; a base that cannot
\* be read is FATAL.
Convert ==
  /\ pc = "convert"
  /\ IF Content = Torn
     THEN /\ pc' = "down"
          /\ pending' = "none"
          /\ UNCHANGED files
     ELSE /\ live' = [live EXCEPT !.books = Content]
          /\ wal' = NoWal
          /\ converted' = [books |-> Content, key |-> IF Decrypting THEN Clear ELSE sealed.key]
          /\ pc' = "swap"
          /\ UNCHANGED <<aside, staged, pending>>
  /\ UNCHANGED <<keyring, restore, copies, made, history>>

\* swapDatabase: an older <base>.before-conversion goes, the base takes its
\* name.
SetAside ==
  /\ pc = "swap"
  /\ aside' = live
  /\ live' = NoFile
  /\ pc' = "place"
  /\ UNCHANGED <<wal, converted, staged, keyring, markers, copies, made, history>>

PutInPlace ==
  /\ pc = "place"
  /\ live' = converted
  /\ converted' = NoFile
  /\ pc' = "clean"
  /\ UNCHANGED <<wal, aside, staged, keyring, markers, copies, made, history>>

\* The rename fails: the original comes back, and the start is FATAL.
PutBack ==
  /\ pc = "place"
  /\ live' = aside
  /\ aside' = NoFile
  /\ pending' = "none"
  /\ pc' = "down"
  /\ UNCHANGED <<wal, converted, staged, keyring, restore, copies, made, history>>

DropOriginal ==
  /\ pc = "clean"
  /\ wal' = NoWal
  /\ aside' = NoFile
  /\ pc' = IF Decrypting THEN "forget" ELSE "open"
  /\ UNCHANGED <<live, converted, staged, keyring, markers, copies, made, history>>

\* Forget, then the deferred removal of the marker.
ForgetSealed ==
  /\ pc = "forget"
  /\ sealed' = [key |-> NoKey, readable |-> FALSE]
  /\ pc' = "forgetting"
  /\ UNCHANGED <<files, wrap, markers, copies, made, history>>

ForgetWrapped ==
  /\ pc = "forgetting"
  /\ wrap' = NoKey
  /\ pc' = "forgotten"
  /\ UNCHANGED <<files, sealed, markers, copies, made, history>>

Unmark ==
  /\ pc = "forgotten"
  /\ pending' = "none"
  /\ pc' = "open"
  /\ UNCHANGED <<files, keyring, restore, copies, made, history>>

\* Open and Migrate.  A missing base is created, under the key when there is
\* one; a base in clear that cannot be read is FATAL; a base that the key of
\* this account does not open leads to the recovery page.
Open ==
  LET created == [books |-> 0, key |-> sealed.key]
      opened == IF Exists(live) THEN live ELSE created
      legible == opened.key = Clear \/ (HasKey /\ opened.key = sealed.key)
  IN /\ pc = "open"
     /\ pc' = CASE ~legible -> "recovery"
                [] legible /\ Exists(live) /\ Content = Torn -> "down"
                [] OTHER -> "up"
     /\ live' = IF legible THEN opened ELSE live
     /\ wal' = IF Exists(live) THEN wal ELSE NoWal
     /\ UNCHANGED <<aside, converted, staged, keyring, markers, copies, made, history>>

-----------------------------------------------------------------------------
(* The server at work, its stops, and the machine *)

\* External: any handler that writes to the base.
Write ==
  /\ pc = "up"
  /\ made.books < MaxBooks
  /\ made' = [made EXCEPT !.books = @ + 1]
  /\ wal' = [of |-> live, books |-> made.books + 1]
  /\ current' = made.books + 1
  /\ UNCHANGED <<pc, live, aside, converted, staged, keyring, markers, copies, undo, last, mishap>>

\* A regular stop closes the base, which takes its journal in.
Stop ==
  /\ pc = "up"
  /\ live' = [live EXCEPT !.books = Content]
  /\ wal' = NoWal
  /\ pc' = "down"
  /\ UNCHANGED <<aside, converted, staged, keyring, markers, copies, made, history>>

Crash ==
  /\ pc # "down"
  /\ made.crashes < MaxCrashes
  /\ made' = [made EXCEPT !.crashes = @ + 1]
  /\ pc' = "down"
  /\ todo' = <<>>
  /\ mishap' = mishap \union (IF pc = "place" THEN {"swap"} ELSE {})
  /\ then' = "nothing"
  /\ UNCHANGED <<files, keyring, markers, backups, current, undo, last>>

\* External: the account that sealed the key is no more.
LoseAccount ==
  /\ pc = "down"
  /\ HasKey
  /\ sealed' = [sealed EXCEPT !.readable = FALSE]
  /\ mishap' = mishap \union {"account"}
  /\ UNCHANGED <<pc, files, wrap, markers, copies, made, current, undo, last>>

\* A first start, with or without a key set by the installation.
Init ==
  /\ pc = "down"
  /\ live = NoFile /\ aside = NoFile /\ converted = NoFile /\ staged = NoFile
  /\ wal = NoWal
  /\ restore = FALSE /\ pending = "none"
  /\ \E key \in {NoKey, 1} :
       /\ sealed = [key |-> key, readable |-> key # NoKey]
       /\ wrap = key
       /\ made = [books |-> 0, backups |-> 0, keys |-> key, crashes |-> 0]
  /\ backups = <<>> /\ todo = <<>> /\ then = "nothing"
  /\ current = 0 /\ undo = [id |-> 0, books |-> 0] /\ last = 0
  /\ mishap = {}

Starting ==
  \/ Start \/ NothingToRestore \/ TruncateBase \/ CopyStaged \/ DropSidecars \/ DropStaged
  \/ ReconcileDecrypt \/ Reconcile \/ Convert \/ SetAside \/ PutInPlace \/ DropOriginal
  \/ ForgetSealed \/ ForgetWrapped \/ Unmark \/ Open

Next ==
  \/ Starting
  \/ CopyFails \/ PutBack
  \/ SnapshotTorn \/ CreateBackup \/ KeepClear \/ EncryptExisting \/ EncryptStart \/ EncryptFile
  \/ EncryptDone \/ EncryptFails
  \/ AskRestore \/ StageCopy \/ StageMark \/ CancelRestore
  \/ WrapKey \/ SealKey \/ MarkEncryption \/ DisableDatabaseEncryption
  \/ CancelDatabaseEncryption \/ RemoveWrap \/ RecoverKey
  \/ Write \/ Stop \/ Crash \/ LoseAccount

Spec == Init /\ [][Next]_vars

\* Whoever uses the program starts it again after a stop, and nothing in the
\* start waits for anybody; a rename refused while another program holds the
\* file does not fail for ever.
FairSpec == Spec /\ WF_vars(Starting) /\ SF_vars(PutInPlace)

-----------------------------------------------------------------------------
(* Properties *)

Serving == pc \in {"up", "written", "encrypt", "filling", "verify", "stage", "staged",
                   "wrapped", "sealed", "unwrap"}

\* The files, the keys and the requests have their types.
TypeOK ==
  LET Files == [books : Torn .. MaxBooks, key : -1 .. MaxKeys]
  IN /\ Serving \/ pc \in {"down", "recovery", "restore", "copying", "copied", "restored",
                           "reconcile", "convert", "swap", "place", "clean", "forget",
                           "forgetting", "forgotten", "open"}
     /\ {live, aside, converted, staged} \subseteq Files
     /\ wal = NoWal \/ wal \in [of : Files, books : 1 .. MaxBooks]
     /\ restore \in BOOLEAN
     /\ pending \in {"none", "encrypt", "decrypt"}
     /\ sealed \in [key : 0 .. MaxKeys, readable : BOOLEAN]
     /\ wrap \in 0 .. MaxKeys
     /\ backups \in Seq([id : 1 .. MaxBackups, enc : BOOLEAN, whole : BOOLEAN, books : 0 .. MaxBooks])
     /\ todo \in Seq(1 .. MaxBackups)

\* The base that is served holds the books the user left, or those he asked
\* to restore, whatever conversions and sudden stops came between; but for a
\* stop between the two renames of swapDatabase and a copy that failed
\* (ApplyPendingRestore, ReconcileDatabaseEncryption, Restore).
BooksKept == Serving /\ mishap \intersect {"swap", "copy"} = {} => Content = current

\* Some key opens the base at every step: the one sealed to the account, or
\* the one the recovery phrase gives back (Create, Forget, the order of
\* ReconcileDatabaseEncryption).
KeyHeld ==
  IsDatabaseEncrypted(live) =>
    \/ HasKey /\ sealed.key = live.key
    \/ wrap = live.key

\* When a restoration replaces the base, the snapshot of the books of the
\* moment it was asked for is there, unless as many later ones as are kept
\* came since (StageRestore of the handler, Prune); encrypting old snapshots
\* on request gives them later dates and breaks this order.
UndoKept ==
  pc \in {"copying", "copied"} /\ mishap \intersect {"encryption", "reordered"} = {} =>
    \/ \E b \in Range(backups) : b.books = undo.books /\ Whole(b)
    \/ Cardinality({b.id : b \in {x \in Range(backups) : x.id > undo.id}}) >= Keep

\* The last snapshot that was completed can be read, in clear or encrypted,
\* after any stop; but for an encryption on request that failed
\* (encryptInPlace, Prune).
LatestReadable ==
  last # 0 /\ "encryption" \notin mishap => \E b \in Range(backups) : b.id = last /\ Whole(b)

\* After a stop the server ends up serving, or on the recovery page, when its
\* files were not damaged and the account not lost (the order of the start in
\* main).
StartsAgain ==
  [](mishap \intersect {"copy", "account"} = {}) =>
    [](pc = "down" => <>(pc \in {"up", "recovery"}))

\* Prune, in the words of its comment: it deletes the oldest snapshots.
PruneDeletesOldest ==
  [][then = "prune" /\ pc \in {"written", "verify"} /\ pc' = "up" =>
       (\A gone \in Range(backups) \ Range(backups'), kept \in Range(backups') :
          (\E b \in Range(backups') : b.id = gone.id) \/ gone.id < kept.id)]_vars

\* ApplyPendingRestore, in the words of its comment: the base being replaced
\* is in a snapshot.
ReplacedIsSaved ==
  [][pc = "restore" /\ pc' = "copying" /\ mishap = {} =>
       Content = Torn \/ (\E b \in Range(backups) : b.books = Content)]_vars
=============================================================================
