--------------------------- MODULE DbFilesProofs ----------------------------
(***************************************************************************)
(* What holds of the base, of its copies and of its key whatever the       *)
(* number of entries, snapshots, keys and sudden stops.                    *)
(***************************************************************************)
EXTENDS DbFiles, TLAPS, SequenceTheorems, FiniteSetTheorems

-----------------------------------------------------------------------------
(* The inductive invariant *)

\* A file has a content, and a key when it is there.
Shaped(f) == f = [books |-> f.books, key |-> f.key] /\ (Exists(f) => f.key \in Nat)

\* The process is at a known step; the files are files, a journal goes with
\* one, and what is served, or copied over, exists.
FilesOK ==
  /\ Serving \/ pc \in {"down", "recovery", "restore", "copying", "copied", "restored",
                        "reconcile", "convert", "swap", "place", "clean", "forget",
                        "forgetting", "forgotten", "open"}
  /\ Shaped(live) /\ Shaped(aside) /\ Shaped(converted) /\ Shaped(staged)
  /\ wal # NoWal => Exists(wal.of)
  /\ Serving \/ pc = "copying" => Exists(live)

\* An encrypted file is under the key that is sealed and wrapped.
Held(f) == IsDatabaseEncrypted(f) => Configured /\ wrap = f.key

\* A key that is sealed is the one that is wrapped; the base, and what the
\* swap may put in its place, is under it; a key that goes is the key of no
\* base.
KeysOK ==
  /\ sealed = [key |-> sealed.key, readable |-> sealed.readable]
  /\ sealed.key \in Nat /\ wrap \in Nat
  /\ Configured => wrap = sealed.key
  /\ Held(live)
  /\ pc \in {"swap", "place"} => Held(converted)
  /\ pc = "place" => Held(aside)
  /\ ~IsDatabaseEncrypted(staged)
  /\ pc \in {"forgetting", "unwrap"} => ~Configured
  /\ pc = "forget" => ~IsDatabaseEncrypted(live)
  /\ Decrypting /\ pc \in {"swap", "place"} => ~IsDatabaseEncrypted(converted)
  /\ Decrypting /\ pc = "clean" => ~IsDatabaseEncrypted(live)

\* Nothing was lost by the two things that may lose the books.
Sound == mishap \intersect {"swap", "copy"} = {}

\* A base that was never opened.
Fresh == live = NoFile /\ wal = NoWal /\ current = 0

\* A restoration that the next start will carry out, once more if it has to.
Redo == restore /\ Exists(staged)

\* The base, with its journal, holds the books of the user.
Kept == Exists(live) /\ Content = current

\* So does this file by itself, no journal being left.
Alone(f) == wal = NoWal /\ Exists(f) /\ f.books = current

\* Where the books of the user are at each step.
BooksOK ==
  Sound =>
    /\ Serving => Content = current
    /\ pc \in {"reconcile", "convert", "forget", "forgetting", "forgotten", "open", "recovery"} =>
         Kept \/ Fresh
    /\ pc \in {"down", "restore"} => Redo \/ Kept \/ Fresh
    /\ pc \in {"copying", "copied", "restored"} => Redo
    /\ pc = "copied" => live = staged /\ current = staged.books
    /\ pc \in {"restored", "swap", "clean"} => Alone(live)
    /\ pc = "place" => Alone(aside)
    /\ pc \in {"swap", "place"} => Alone(converted)

FilesInv == FilesOK /\ KeysOK /\ BooksOK

-----------------------------------------------------------------------------
(* The invariant at a first start, and through what leaves the base alone *)

\* A journal that goes with a file is not the absence of a journal.
LEMMA Journal == ASSUME NEW f, NEW n PROVE [of |-> f, books |-> n] # NoWal
  <1>1. DOMAIN [of |-> f, books |-> n] = {"of", "books"}
    OBVIOUS
  <1>2. DOMAIN <<>> = {}
    OBVIOUS
  <1> QED  BY <1>1, <1>2 DEF NoWal

\* A first start finds no base, and the key of the installation if there is one.
THEOREM FirstStart == Init => FilesInv
  <1> SUFFICES ASSUME Init PROVE FilesInv
    OBVIOUS
  <1>1. FilesOK
    BY DEF Init, FilesOK, Shaped, Exists, NoFile, Serving
  <1>2. KeysOK
    BY DEF Init, KeysOK, Held, IsDatabaseEncrypted, Exists, Configured, NoKey, Clear, NoFile
  <1>3. BooksOK
    BY DEF Init, BooksOK, Serving, Fresh
  <1> QED  BY <1>1, <1>2, <1>3 DEF FilesInv

\* A request of the server at work that changes neither the base nor its keys.
LEMMA Quiet ==
  ASSUME FilesInv, Serving, Serving', pc' # "unwrap",
         UNCHANGED <<live, wal, aside, converted, sealed, wrap, current>>,
         Shaped(staged'), ~IsDatabaseEncrypted(staged'), Sound' => Sound
  PROVE  FilesInv'
  <1>1. FilesOK'
    BY DEF FilesInv, FilesOK, Shaped, Serving, Exists
  <1>2. KeysOK'
    BY DEF FilesInv, KeysOK, Serving, Held, IsDatabaseEncrypted, Exists, Configured
  <1>3. BooksOK'
    BY DEF FilesInv, BooksOK, Serving, Content
  <1> QED  BY <1>1, <1>2, <1>3 DEF FilesInv

\* What has been made is counted.
Counted == made \in [books : Nat, backups : Nat, keys : Nat, crashes : Nat]

\* The counters count.
LEMMA Counting == Counted /\ [Next]_vars => Counted'
  <1> SUFFICES ASSUME Counted, [Next]_vars PROVE Counted'
    OBVIOUS
  <1>1. CASE UNCHANGED made
    BY <1>1 DEF Counted
  <1>2. CASE made' = [made EXCEPT !.books = @ + 1]
    BY <1>2 DEF Counted
  <1>3. CASE made' = [made EXCEPT !.backups = @ + 1]
    BY <1>3 DEF Counted
  <1>4. CASE made' = [made EXCEPT !.keys = @ + 1]
    BY <1>4 DEF Counted
  <1>5. CASE made' = [made EXCEPT !.crashes = @ + 1]
    BY <1>5 DEF Counted
  <1>6. CASE Starting
    <2>1. UNCHANGED made
      BY <1>6 DEF Starting, Start, NothingToRestore, TruncateBase, CopyStaged, DropSidecars,
        DropStaged, ReconcileDecrypt, Reconcile, Convert, SetAside, PutInPlace, DropOriginal,
        ForgetSealed, ForgetWrapped, Unmark, Open
    <2> QED  BY <2>1, <1>1
  <1>7. CASE UNCHANGED vars
    BY <1>7, <1>1 DEF vars
  <1>8. CASE Next /\ ~Starting
    BY <1>8, <1>1, <1>2, <1>3, <1>4, <1>5 DEF Next, CopyFails, PutBack, SnapshotTorn, CreateBackup,
      Snapshot,
      KeepClear, EncryptExisting, EncryptStart, EncryptFile, EncryptDone, EncryptFails, AskRestore,
      StageCopy, StageMark, CancelRestore, WrapKey, SealKey, MarkEncryption,
      DisableDatabaseEncryption, CancelDatabaseEncryption, RemoveWrap, RecoverKey, Write, Stop,
      Crash, LoseAccount
  <1> QED  BY <1>6, <1>7, <1>8

-----------------------------------------------------------------------------
(* Requests of the server at work *)

\* A snapshot leaves the base and its keys alone.
LEMMA Snapshots ==
  ASSUME FilesInv, NEW next, NEW phrase, pc = "up", Snapshot(next, phrase)
  PROVE  FilesInv'
  <1>1. /\ pc' \in {"encrypt", "written"}
        /\ UNCHANGED <<live, wal, aside, converted, staged, sealed, wrap, current, mishap>>
    BY DEF Snapshot, files, keyring
  <1>2. Shaped(staged') /\ ~IsDatabaseEncrypted(staged') /\ (Sound' => Sound)
    BY <1>1 DEF FilesInv, FilesOK, KeysOK, Sound
  <1>3. Serving /\ Serving' /\ pc' # "unwrap"
    BY <1>1 DEF Serving
  <1> QED  BY <1>1, <1>2, <1>3, Quiet

\* Taking, encrypting and pruning snapshots leave the base and its keys alone.
LEMMA Copies ==
  ASSUME FilesInv, SnapshotTorn \/ KeepClear \/ EncryptExisting \/ EncryptStart
                   \/ EncryptFile \/ EncryptDone \/ EncryptFails
  PROVE  FilesInv'
  <1>1. /\ pc \in {"up", "written", "encrypt", "filling", "verify"}
        /\ UNCHANGED <<live, wal, aside, converted, staged, sealed, wrap, current>>
    BY DEF SnapshotTorn, KeepClear, EncryptExisting, EncryptStart, EncryptFile, EncryptDone,
           EncryptFails, files, keyring, history
  <1>2. pc' \in {"up", "encrypt", "filling", "verify", "stage"}
    <2>1. CASE KeepClear \/ EncryptDone
      BY <2>1 DEF KeepClear, EncryptDone, After
    <2>2. CASE SnapshotTorn \/ EncryptExisting \/ EncryptStart \/ EncryptFile \/ EncryptFails
      BY <2>2 DEF SnapshotTorn, EncryptExisting, EncryptStart, EncryptFile, EncryptFails
    <2> QED  BY <2>1, <2>2
  <1>3. mishap \subseteq mishap'
    <2>1. CASE SnapshotTorn \/ KeepClear \/ EncryptDone \/ EncryptStart \/ EncryptFile
      BY <2>1 DEF SnapshotTorn, KeepClear, EncryptDone, EncryptStart, EncryptFile, history
    <2>2. CASE EncryptExisting \/ EncryptFails
      BY <2>2 DEF EncryptExisting, EncryptFails
    <2> QED  BY <2>1, <2>2
  <1>4. Shaped(staged') /\ ~IsDatabaseEncrypted(staged') /\ (Sound' => Sound)
    BY <1>1, <1>3 DEF FilesInv, FilesOK, KeysOK, Sound
  <1>5. Serving /\ Serving' /\ pc' # "unwrap"
    BY <1>1, <1>2 DEF Serving
  <1> QED  BY <1>1, <1>4, <1>5, Quiet

\* Asking for a restoration, or for no more of it, changes what is staged only,
\* and what is staged is in clear.
LEMMA Staging ==
  ASSUME FilesInv, StageCopy \/ StageMark \/ CancelRestore
  PROVE  FilesInv'
  <1>1. /\ pc \in {"stage", "staged", "up"} /\ pc' \in {"up", "staged"}
        /\ UNCHANGED <<live, wal, aside, converted, sealed, wrap, current, mishap>>
    BY DEF StageCopy, StageMark, CancelRestore, files, keyring, history
  <1>2. Shaped(staged') /\ ~IsDatabaseEncrypted(staged')
    <2>1. CASE StageMark
      BY <2>1 DEF StageMark, files, FilesInv, FilesOK, KeysOK
    <2>2. CASE CancelRestore
      BY <2>2 DEF CancelRestore, Shaped, NoFile, IsDatabaseEncrypted, Exists
    <2>3. CASE StageCopy
      BY <2>3 DEF StageCopy, Shaped, NoFile, IsDatabaseEncrypted, Exists, Clear
    <2> QED  BY <2>1, <2>2, <2>3
  <1>3. Serving /\ Serving' /\ pc' # "unwrap" /\ (Sound' => Sound)
    BY <1>1 DEF Serving, Sound
  <1> QED  BY <1>1, <1>2, <1>3, Quiet

\* Leaving a marker for the next start changes no file and no key.
LEMMA Marking ==
  ASSUME FilesInv, MarkEncryption \/ DisableDatabaseEncryption
  PROVE  FilesInv'
  <1>1. /\ pc \in {"sealed", "up"} /\ pc' = "up"
        /\ UNCHANGED <<live, wal, aside, converted, staged, sealed, wrap, current, mishap>>
    BY DEF MarkEncryption, DisableDatabaseEncryption, files, keyring, history
  <1>2. Shaped(staged') /\ ~IsDatabaseEncrypted(staged') /\ (Sound' => Sound)
    BY <1>1 DEF FilesInv, FilesOK, KeysOK, Sound
  <1>3. Serving /\ Serving' /\ pc' # "unwrap"
    BY <1>1 DEF Serving
  <1> QED  BY <1>1, <1>2, <1>3, Quiet

\* The keys change while the server works: the base goes with them.  A new
\* key is wrapped when there is none, so the base is in clear; a wrapped key
\* is sealed as it is; a key is given up when the base is in clear.
LEMMA Keys ==
  ASSUME FilesInv, Counted, WrapKey \/ SealKey \/ CancelDatabaseEncryption \/ RemoveWrap
                   \/ (RecoverKey /\ pc = "up")
  PROVE  FilesInv'
  <1>1. /\ pc \in {"up", "wrapped", "unwrap"} /\ pc' \in {"up", "wrapped", "sealed", "unwrap"}
        /\ UNCHANGED <<live, wal, aside, converted, staged, restore, current, mishap>>
    BY DEF WrapKey, SealKey, CancelDatabaseEncryption, RemoveWrap, RecoverKey, files, history, markers
  <1>2. FilesOK'
    BY <1>1 DEF FilesInv, FilesOK, Shaped, Serving, Exists
  <1>3. KeysOK'
    <2>1. CASE WrapKey
      BY <2>1 DEF WrapKey, Counted, files, FilesInv, KeysOK, Held, IsDatabaseEncrypted, Exists, Configured
    <2>2. CASE SealKey
      BY <2>2, <1>1 DEF SealKey, FilesInv, KeysOK, Held, IsDatabaseEncrypted, Exists, Configured, NoKey, Clear
    <2>3. CASE CancelDatabaseEncryption
      BY <2>3, <1>1 DEF CancelDatabaseEncryption, FilesInv, KeysOK, Held, IsDatabaseEncrypted, Exists, Configured, NoKey
    <2>4. CASE RemoveWrap
      BY <2>4, <1>1 DEF RemoveWrap, FilesInv, KeysOK, Held, IsDatabaseEncrypted, Exists, Configured, NoKey
    <2>5. CASE RecoverKey /\ pc = "up"
      BY <2>5, <1>1 DEF RecoverKey, FilesInv, KeysOK, Held, IsDatabaseEncrypted, Exists, Configured
    <2> QED  BY <2>1, <2>2, <2>3, <2>4, <2>5
  <1>4. BooksOK'
    BY <1>1 DEF FilesInv, BooksOK, Serving, Content, Sound
  <1> QED  BY <1>2, <1>3, <1>4 DEF FilesInv

-----------------------------------------------------------------------------
(* Entries, stops, and the machine *)

\* An entry goes to the journal of the base.
LEMMA Writing == ASSUME FilesInv, Write PROVE FilesInv'
  <1>1. /\ pc = "up" /\ pc' = "up"
        /\ wal' = [of |-> live, books |-> current']
        /\ wal' # NoWal
        /\ UNCHANGED <<live, aside, converted, staged, sealed, wrap, pending, mishap>>
    BY Journal DEF Write, keyring, markers
  <1>2. FilesOK'
    BY <1>1 DEF FilesInv, FilesOK, Shaped, Serving, Exists
  <1>3. KeysOK'
    BY <1>1 DEF FilesInv, KeysOK, Held, IsDatabaseEncrypted, Exists, Configured
  <1>4. Content' = current'
    BY <1>1 DEF Content
  <1>5. BooksOK'
    BY <1>1, <1>4 DEF BooksOK, Serving
  <1> QED  BY <1>2, <1>3, <1>5 DEF FilesInv

\* A regular stop leaves the books in the base, without a journal.
LEMMA Stopping == ASSUME FilesInv, Stop PROVE FilesInv'
  <1>1. /\ pc = "up" /\ pc' = "down"
        /\ live' = [books |-> Content, key |-> live.key]
        /\ wal' = NoWal
        /\ UNCHANGED <<aside, converted, staged, sealed, wrap, current, mishap>>
    BY DEF Stop, keyring, history, FilesInv, FilesOK, Shaped
  <1>2. FilesOK'
    BY <1>1 DEF FilesInv, FilesOK, Shaped, Serving
  <1>3. Exists(live)
    BY <1>1 DEF FilesInv, FilesOK, Serving
  <1>4. KeysOK'
    BY <1>1, <1>3 DEF FilesInv, KeysOK, Held, IsDatabaseEncrypted, Exists, Configured
  <1>5. Content' = Content
    BY <1>1 DEF Content
  <1>6. Exists(live)'
    BY <1>1, <1>3 DEF FilesInv, FilesOK, Shaped, Serving, Exists, NoFile
  <1>7. BooksOK'
    BY <1>1, <1>5, <1>3, <1>6 DEF FilesInv, BooksOK, Kept, Serving, Sound
  <1> QED  BY <1>2, <1>4, <1>7 DEF FilesInv

\* A sudden stop changes no file: the books are where the next start finds
\* them, unless it came between the two renames.
LEMMA Crashing == ASSUME FilesInv, Crash PROVE FilesInv'
  <1>1. /\ pc' = "down"
        /\ UNCHANGED <<live, wal, aside, converted, staged, sealed, wrap, restore, pending, current>>
    BY DEF Crash, files, keyring, markers
  <1>2. FilesOK'
    BY <1>1 DEF FilesInv, FilesOK, Shaped, Serving, Exists
  <1>3. KeysOK'
    BY <1>1 DEF FilesInv, KeysOK, Held, IsDatabaseEncrypted, Exists, Configured
  <1>4. Sound' => Sound /\ pc # "place"
    BY DEF Crash, Sound
  <1>5. ASSUME Sound' PROVE (Redo \/ Kept \/ Fresh)'
    <2>1. Sound /\ pc # "place"
      BY <1>4, <1>5
    <2>2. CASE pc \in {"restored", "swap", "clean"}
      BY <1>1, <2>1, <2>2 DEF FilesInv, BooksOK, Kept, Alone, Content, Exists
    <2>3. CASE pc \in {"copying", "copied"}
      BY <1>1, <2>1, <2>3 DEF FilesInv, BooksOK, Redo, Exists
    <2>4. CASE pc \notin {"restored", "swap", "clean", "copying", "copied", "place"}
      BY <1>1, <2>1, <2>4 DEF FilesInv, FilesOK, BooksOK, Kept, Alone, Content, Redo, Fresh, Exists
    <2> QED  BY <2>1, <2>2, <2>3, <2>4
  <1>6. BooksOK'
    BY <1>1, <1>5 DEF BooksOK, Serving
  <1> QED  BY <1>2, <1>3, <1>6 DEF FilesInv

\* The account that sealed the key goes: the key stays wrapped.
LEMMA Losing == ASSUME FilesInv, LoseAccount PROVE FilesInv'
  <1>1. /\ pc = "down" /\ pc' = "down"
        /\ sealed' = [key |-> sealed.key, readable |-> FALSE]
        /\ UNCHANGED <<live, wal, aside, converted, staged, wrap, restore, pending, current>>
    BY DEF LoseAccount, files, markers, FilesInv, KeysOK
  <1>2. FilesOK'
    BY <1>1 DEF FilesInv, FilesOK, Shaped, Serving, Exists
  <1>3. KeysOK'
    BY <1>1 DEF FilesInv, KeysOK, Held, IsDatabaseEncrypted, Exists, Configured
  <1>4. Sound' => Sound
    BY DEF LoseAccount, Sound
  <1>5. BooksOK'
    BY <1>1, <1>4 DEF FilesInv, BooksOK, Serving, Kept, Content, Redo, Fresh, Exists
  <1> QED  BY <1>2, <1>3, <1>5 DEF FilesInv

-----------------------------------------------------------------------------
(* The start: the restoration *)

\* Until the staged copy is in place it stays staged; once the journal of the
\* base it replaced is gone, the base holds the books that were asked for.
LEMMA Restoring ==
  ASSUME FilesInv, Start \/ NothingToRestore \/ TruncateBase \/ CopyStaged \/ CopyFails
                   \/ DropSidecars \/ DropStaged
  PROVE  FilesInv'
  <1>1. /\ pc \in {"down", "restore", "copying", "copied", "restored"}
        /\ pc' \in {"restore", "copying", "copied", "restored", "reconcile"}
        /\ pc' = "copying" => live' = [books |-> Torn, key |-> Clear]
        /\ UNCHANGED <<aside, converted, sealed, wrap, pending>>
    BY DEF Start, NothingToRestore, TruncateBase, CopyStaged, CopyFails, DropSidecars, DropStaged,
           files, keyring, markers
  <1>2. \/ live' = live
        \/ live' = [books |-> Torn, key |-> Clear]
        \/ live' = staged
        \/ pc = "copying" /\ \E left \in {Torn, 0} : live' = [books |-> left, key |-> live.key]
    BY DEF Start, NothingToRestore, TruncateBase, CopyStaged, CopyFails, DropSidecars, DropStaged,
           files, FilesInv, FilesOK, Shaped
  <1>3. staged' \in {staged, NoFile} /\ wal' \in {wal, NoWal}
    BY DEF Start, NothingToRestore, TruncateBase, CopyStaged, CopyFails, DropSidecars, DropStaged,
           files
  <1>4. Shaped(live') /\ Shaped(staged')
    BY <1>2, <1>3 DEF FilesInv, FilesOK, Shaped, Exists, NoFile, Clear
  <1>5. FilesOK'
    <2>1. pc' = "copying" => Exists(live')
      BY <1>1 DEF Exists, NoFile, Clear
    <2> QED  BY <1>1, <1>3, <1>4, <2>1 DEF FilesInv, FilesOK, Shaped, Serving, Exists
  <1>6. Held(live)' /\ ~IsDatabaseEncrypted(staged')
    <2>1. CASE live' = [books |-> Torn, key |-> Clear]
      BY <2>1, <1>3 DEF FilesInv, KeysOK, Held, IsDatabaseEncrypted, Exists
    <2>2. CASE live' \in {live, staged}
      BY <2>2, <1>1, <1>3 DEF FilesInv, KeysOK, Held, IsDatabaseEncrypted, Exists, Configured
    <2>3. CASE pc = "copying" /\ \E left \in {Torn, 0} : live' = [books |-> left, key |-> live.key]
      BY <2>3, <1>1, <1>3 DEF FilesInv, FilesOK, KeysOK, Held, IsDatabaseEncrypted, Exists, Configured
    <2> QED  BY <1>2, <2>1, <2>2, <2>3
  <1>7. KeysOK'
    BY <1>1, <1>6 DEF FilesInv, KeysOK, Configured
  <1>8. BooksOK'
    <2>1. CASE Start
      BY <2>1 DEF Start, files, markers, history, FilesInv, BooksOK, Serving, Kept, Alone, Content,
                  Redo, Fresh, Exists, Sound
    <2>2. CASE NothingToRestore
      BY <2>2 DEF NothingToRestore, files, history, FilesInv, BooksOK, Serving, Kept, Content,
                  Redo, Fresh, Exists, Sound
    <2>3. CASE TruncateBase
      BY <2>3 DEF TruncateBase, markers, BooksOK, Serving, Redo, Exists
    <2>4. CASE CopyStaged
      BY <2>4 DEF CopyStaged, markers, FilesInv, BooksOK, Serving, Redo, Exists, Sound
    <2>5. CASE CopyFails
      BY <2>5 DEF CopyFails, BooksOK, Sound
    <2>6. CASE DropSidecars
      BY <2>6 DEF DropSidecars, markers, history, FilesInv, BooksOK, Serving, Alone, Redo, Exists, Sound
    <2>7. CASE DropStaged
      BY <2>7 DEF DropStaged, markers, history, FilesInv, BooksOK, Serving, Alone, Kept, Content,
                  Exists, Sound
    <2> QED  BY <2>1, <2>2, <2>3, <2>4, <2>5, <2>6, <2>7
  <1> QED  BY <1>5, <1>7, <1>8 DEF FilesInv

-----------------------------------------------------------------------------
(* The start: the base and the key of the machine *)

\* Steps that change no file: the decision, and the keys that go once the base
\* is in clear.
LEMMA Deciding ==
  ASSUME FilesInv, ReconcileDecrypt \/ Reconcile \/ ForgetSealed \/ ForgetWrapped \/ Unmark
  PROVE  FilesInv'
  <1>1. /\ pc \in {"reconcile", "forget", "forgetting", "forgotten"}
        /\ pc' \in {"forget", "convert", "down", "open", "forgetting", "forgotten"}
        /\ UNCHANGED <<live, wal, aside, converted, staged, current, mishap>>
    BY DEF ReconcileDecrypt, Reconcile, ForgetSealed, ForgetWrapped, Unmark, files, history
  <1>2. FilesOK'
    BY <1>1 DEF FilesInv, FilesOK, Shaped, Serving, Exists
  <1>3. KeysOK'
    <2>1. CASE ReconcileDecrypt
      BY <2>1, <1>1 DEF ReconcileDecrypt, keyring, FilesInv, KeysOK, Held, IsDatabaseEncrypted,
                        Exists, Configured
    <2>2. CASE Reconcile
      BY <2>2, <1>1 DEF Reconcile, keyring, FilesInv, KeysOK, Held, IsDatabaseEncrypted,
                        Exists, Configured
    <2>3. CASE ForgetSealed
      BY <2>3, <1>1 DEF ForgetSealed, FilesInv, KeysOK, Held, IsDatabaseEncrypted,
                        Exists, Configured, NoKey
    <2>4. CASE ForgetWrapped
      BY <2>4, <1>1 DEF ForgetWrapped, FilesInv, KeysOK, Held, IsDatabaseEncrypted,
                        Exists, Configured, NoKey
    <2>5. CASE Unmark
      BY <2>5, <1>1 DEF Unmark, keyring, FilesInv, KeysOK, Held, IsDatabaseEncrypted,
                        Exists, Configured
    <2> QED  BY <2>1, <2>2, <2>3, <2>4, <2>5
  <1>4. BooksOK'
    BY <1>1 DEF FilesInv, BooksOK, Serving, Kept, Alone, Content, Redo, Fresh, Exists, Sound
  <1> QED  BY <1>2, <1>3, <1>4 DEF FilesInv

\* The recovery page seals the wrapped key again.
LEMMA Recovering == ASSUME FilesInv, RecoverKey, pc = "recovery" PROVE FilesInv'
  <1>1. /\ pc' = "down"
        /\ wrap # NoKey
        /\ sealed' = [key |-> wrap, readable |-> TRUE]
        /\ UNCHANGED <<live, wal, aside, converted, staged, wrap, restore, pending, current, mishap>>
    BY DEF RecoverKey, files, markers, history
  <1>2. FilesOK'
    BY <1>1 DEF FilesInv, FilesOK, Shaped, Serving, Exists
  <1>3. KeysOK'
    BY <1>1 DEF FilesInv, KeysOK, Held, IsDatabaseEncrypted, Exists, Configured
  <1>4. BooksOK'
    BY <1>1 DEF FilesInv, BooksOK, Serving, Kept, Content, Redo, Fresh, Exists, Sound
  <1> QED  BY <1>2, <1>3, <1>4 DEF FilesInv

-----------------------------------------------------------------------------
(* The start: the conversion of the base *)

\* The base takes its journal in; the converted copy holds the same books,
\* under the sealed key or in clear.
LEMMA Converting == ASSUME FilesInv, Convert PROVE FilesInv'
  <1>1. CASE Content = Torn
    <2>1. /\ pc = "convert" /\ pc' = "down"
          /\ UNCHANGED <<live, wal, aside, converted, staged, sealed, wrap, restore, current, mishap>>
      BY <1>1 DEF Convert, files, keyring, history
    <2>2. FilesOK'
      BY <2>1 DEF FilesInv, FilesOK, Shaped, Serving, Exists
    <2>3. KeysOK'
      BY <2>1 DEF FilesInv, KeysOK, Held, IsDatabaseEncrypted, Exists, Configured
    <2>4. BooksOK'
      BY <2>1 DEF FilesInv, BooksOK, Serving, Kept, Content, Redo, Fresh, Exists, Sound
    <2> QED  BY <2>2, <2>3, <2>4 DEF FilesInv
  <1>2. CASE Content # Torn
    <2>1. Exists(live)
      BY <1>2 DEF Content, Exists, NoFile, FilesInv, FilesOK
    <2>2. /\ pc = "convert" /\ pc' = "swap"
          /\ live' = [books |-> Content, key |-> live.key]
          /\ wal' = NoWal
          /\ converted' = [books |-> Content, key |-> IF Decrypting THEN Clear ELSE sealed.key]
          /\ UNCHANGED <<aside, staged, sealed, wrap, restore, pending, current, mishap>>
      BY <1>2 DEF Convert, keyring, history, FilesInv, FilesOK, Shaped
    <2>3. /\ live.key \in Nat /\ sealed.key \in Nat
          /\ converted'.key \in Nat
      BY <2>1, <2>2 DEF FilesInv, FilesOK, KeysOK, Shaped, Clear
    <2>4. Exists(live') /\ Exists(converted')
      BY <2>2, <2>3 DEF Exists, NoFile
    <2>5. FilesOK'
      BY <2>2, <2>3 DEF FilesInv, FilesOK, Shaped, Serving, Exists
    <2>6. KeysOK'
      <3>1. Held(live)'
        BY <2>1, <2>2 DEF FilesInv, KeysOK, Held, IsDatabaseEncrypted, Exists, Configured
      <3>2. Held(converted)' /\ (Decrypting' => ~IsDatabaseEncrypted(converted'))
        BY <2>2 DEF FilesInv, KeysOK, Held, IsDatabaseEncrypted, Exists, Configured, NoKey, Clear,
                    Decrypting
      <3> QED  BY <2>2, <3>1, <3>2 DEF FilesInv, KeysOK, IsDatabaseEncrypted, Exists, Configured
    <2>7. BooksOK'
      <3>1. Sound' => Content = current
        BY <1>2, <2>1, <2>2 DEF FilesInv, BooksOK, Kept, Fresh, Exists, Sound
      <3> QED  BY <2>2, <2>4, <3>1 DEF BooksOK, Serving, Alone, Exists
    <2> QED  BY <2>5, <2>6, <2>7 DEF FilesInv
  <1> QED  BY <1>1, <1>2

\* The two renames, the rename that fails, and the end of the swap: some file
\* that holds the books of the user, under the key or in clear, is always
\* there to take the place of the base.
LEMMA Swapping ==
  ASSUME FilesInv, SetAside \/ PutInPlace \/ PutBack \/ DropOriginal
  PROVE  FilesInv'
  <1>1. /\ pc \in {"swap", "place", "clean"} /\ pc' \in {"place", "clean", "down", "forget", "open"}
        /\ wal' \in {wal, NoWal}
        /\ UNCHANGED <<staged, sealed, wrap, restore, current, mishap>>
    BY DEF SetAside, PutInPlace, PutBack, DropOriginal, keyring, markers, history
  <1>2. {live', aside', converted'} \subseteq {live, aside, converted, NoFile}
    BY DEF SetAside, PutInPlace, PutBack, DropOriginal
  <1>3. FilesOK'
    <2>1. Shaped(NoFile)
      BY DEF Shaped, Exists, NoFile
    <2>2. Shaped(live') /\ Shaped(aside') /\ Shaped(converted')
      BY <1>2, <2>1 DEF FilesInv, FilesOK
    <2> QED  BY <1>1, <2>2 DEF FilesInv, FilesOK, Shaped, Serving, Exists
  <1>4. KeysOK'
    <2>1. CASE SetAside
      BY <2>1 DEF SetAside, keyring, markers, FilesInv, KeysOK, Held, IsDatabaseEncrypted,
                  Exists, Configured, Decrypting
    <2>2. CASE PutInPlace
      BY <2>2 DEF PutInPlace, keyring, markers, FilesInv, KeysOK, Held, IsDatabaseEncrypted,
                  Exists, Configured, Decrypting
    <2>3. CASE PutBack
      BY <2>3 DEF PutBack, keyring, markers, FilesInv, KeysOK, Held, IsDatabaseEncrypted,
                  Exists, Configured, Decrypting
    <2>4. CASE DropOriginal
      BY <2>4 DEF DropOriginal, keyring, markers, FilesInv, KeysOK, Held, IsDatabaseEncrypted,
                  Exists, Configured, Decrypting
    <2> QED  BY <2>1, <2>2, <2>3, <2>4
  <1>5. BooksOK'
    <2>1. CASE SetAside
      BY <2>1 DEF SetAside, history, FilesInv, BooksOK, Serving, Alone, Exists, Sound
    <2>2. CASE PutInPlace
      BY <2>2 DEF PutInPlace, history, FilesInv, BooksOK, Serving, Alone, Exists, Sound
    <2>3. CASE PutBack
      BY <2>3 DEF PutBack, history, FilesInv, BooksOK, Serving, Alone, Kept, Content, Exists, Sound
    <2>4. CASE DropOriginal
      BY <2>4 DEF DropOriginal, history, FilesInv, BooksOK, Serving, Alone, Kept, Content, Exists, Sound
    <2> QED  BY <2>1, <2>2, <2>3, <2>4
  <1> QED  BY <1>3, <1>4, <1>5 DEF FilesInv

\* A base that is missing is created under the sealed key; one that is there
\* is opened as it is.
LEMMA Opening == ASSUME FilesInv, Open PROVE FilesInv'
  <1>1. /\ pc = "open" /\ pc' \in {"recovery", "down", "up"}
        /\ UNCHANGED <<aside, converted, staged, sealed, wrap, restore, pending, current, mishap>>
    BY DEF Open, keyring, markers, history
  <1>2. \/ live' = live /\ (Exists(live) \/ pc' # "up")
        \/ ~Exists(live) /\ live' = [books |-> 0, key |-> sealed.key] /\ pc' = "up"
    BY DEF Open
  <1>3. wal' = IF Exists(live) THEN wal ELSE NoWal
    BY DEF Open
  <1>4. Shaped(live') /\ (pc' = "up" => Exists(live'))
    BY <1>2 DEF FilesInv, FilesOK, KeysOK, Shaped, Exists, NoFile, Torn
  <1>5. FilesOK'
    BY <1>1, <1>3, <1>4 DEF FilesInv, FilesOK, Shaped, Serving, Exists
  <1>6. KeysOK'
    <2>1. Held(live)'
      BY <1>1, <1>2 DEF FilesInv, KeysOK, Held, IsDatabaseEncrypted, Exists, Configured, NoKey, Clear
    <2> QED  BY <1>1, <2>1 DEF FilesInv, KeysOK, Configured
  <1>7. BooksOK'
    <2>1. CASE Exists(live)
      <3>1. UNCHANGED <<live, wal>>
        BY <2>1, <1>2, <1>3
      <3> QED  BY <2>1, <3>1, <1>1 DEF FilesInv, BooksOK, Serving, Kept, Fresh, Content, Redo, Exists, Sound
    <2>2. CASE ~Exists(live)
      <3>1. Sound' => current = 0
        BY <2>2, <1>1 DEF FilesInv, BooksOK, Kept, Fresh, Sound
      <3>2. CASE live' = live
        BY <2>2, <3>1, <3>2, <1>1, <1>2, <1>3 DEF BooksOK, Serving, Fresh, Exists, NoFile, Torn
      <3>3. CASE live' = [books |-> 0, key |-> sealed.key] /\ pc' = "up"
        <4>1. Content' = 0
          BY <2>2, <3>3, <1>3 DEF Content
        <4> QED  BY <3>1, <3>3, <4>1, <1>1 DEF BooksOK, Serving
      <3> QED  BY <2>2, <3>2, <3>3, <1>2
    <2> QED  BY <2>1, <2>2
  <1> QED  BY <1>5, <1>6, <1>7 DEF FilesInv

-----------------------------------------------------------------------------
(* The theorems *)

\* Every step preserves the invariant.
LEMMA FilesStep == FilesInv /\ Counted /\ [Next]_vars => FilesInv'
  <1> SUFFICES ASSUME FilesInv, Counted, [Next]_vars PROVE FilesInv'
    OBVIOUS
  <1>1. CASE UNCHANGED vars
    <2>1. FilesOK'
      BY <1>1 DEF vars, files, FilesInv, FilesOK, Shaped, Serving, Exists
    <2>2. KeysOK'
      BY <1>1 DEF vars, files, keyring, markers, FilesInv, KeysOK, Held, IsDatabaseEncrypted,
                  Exists, Configured, Decrypting
    <2>3. BooksOK'
      BY <1>1 DEF vars, files, markers, history, FilesInv, BooksOK, Serving, Kept, Alone, Content,
                  Redo, Fresh, Exists, Sound
    <2> QED  BY <2>1, <2>2, <2>3 DEF FilesInv
  <1>2. CASE Starting
    BY <1>2, Restoring, Deciding, Converting, Swapping, Opening DEF Starting
  <1>3. CASE RecoverKey
    BY <1>3, Keys, Recovering DEF RecoverKey
  <1>4. CASE CreateBackup \/ AskRestore
    BY <1>4, Snapshots DEF CreateBackup, AskRestore
  <1>5. CASE Next /\ ~(Starting \/ RecoverKey \/ CreateBackup \/ AskRestore)
    BY <1>5, Restoring, Swapping, Copies, Staging, Marking, Keys, Writing, Stopping, Crashing,
       Losing DEF Next
  <1> QED  BY <1>1, <1>2, <1>3, <1>4, <1>5

\* The inductive invariant: files with a known place for the books of the
\* user at every step, keys that open them.
THEOREM FilesInvariant == Spec => []FilesInv
  <1>1. Init => FilesInv /\ Counted
    BY FirstStart DEF Init, Counted, NoKey
  <1>2. FilesInv /\ Counted /\ [Next]_vars => (FilesInv /\ Counted)'
    BY FilesStep, Counting
  <1> QED  BY <1>1, <1>2, PTL DEF Spec

\* Some key opens the base at every step, whatever stops, restorations,
\* conversions and lost accounts (ReconcileDatabaseEncryption, Create, Forget).
THEOREM KeyHeldTheorem == Spec => []KeyHeld
  <1>1. FilesInv => KeyHeld
    BY DEF FilesInv, KeysOK, Held, KeyHeld
  <1> QED  BY <1>1, FilesInvariant, PTL

\* The base that is served holds the books the user left, or those he asked to
\* restore, for any number of entries, snapshots, keys and sudden stops; but
\* for a stop between the two renames of swapDatabase and a copy that failed.
THEOREM BooksKeptTheorem == Spec => []BooksKept
  <1>1. FilesInv => BooksKept
    BY DEF FilesInv, BooksOK, BooksKept, Sound
  <1> QED  BY <1>1, FilesInvariant, PTL

-----------------------------------------------------------------------------
(* Lists of snapshots *)

\* The file of a snapshot.
Copy == [id : 1 .. MaxBackups, enc : BOOLEAN, whole : BOOLEAN, books : 0 .. MaxBooks]

\* A list of files: a snapshot has at most one in each form.
ListOK(list) ==
  /\ list \in Seq(Copy)
  /\ \A m, n \in 1 .. Len(list) :
       list[m].id = list[n].id /\ list[m].enc = list[n].enc => m = n

\* A file that a list does not have yet.
Addable(b, list) ==
  /\ ListOK(list)
  /\ b \in Copy
  /\ \A n \in 1 .. Len(list) : ~(list[n].id = b.id /\ list[n].enc = b.enc)

\* The list with that file in front.
Grown(new, b, list) ==
  /\ ListOK(new) /\ Len(new) = Len(list) + 1
  /\ new[1] = b
  /\ \A n \in 1 .. Len(list) : new[n + 1] = list[n]
  /\ \A n \in 2 .. Len(new) : n - 1 \in 1 .. Len(list) /\ new[n] = list[n - 1]

\* A file that is added is the newest.
LEMMA Added ==
  ASSUME NEW list, NEW b, Addable(b, list), NEW new, new = <<b>> \o list
  PROVE  Grown(new, b, list)
  <1>0. /\ ListOK(list) /\ b \in Copy
        /\ \A n \in 1 .. Len(list) : ~(list[n].id = b.id /\ list[n].enc = b.enc)
    BY DEF Addable
  <1>1. list \in Seq(Copy) /\ <<b>> \in Seq(Copy) /\ Len(<<b>>) = 1 /\ <<b>>[1] = b
    BY <1>0 DEF ListOK
  <1>2. Len(list) \in Nat
    BY <1>1
  <1>3. /\ new \in Seq(Copy) /\ Len(new) = 1 + Len(list)
        /\ \A n \in 1 .. 1 + Len(list) :
             new[n] = IF n <= 1 THEN <<b>>[n] ELSE list[n - 1]
    BY <1>1, <1>2, ConcatProperties
  <1>4. new[1] = b /\ \A n \in 2 .. Len(new) : n - 1 \in 1 .. Len(list) /\ new[n] = list[n - 1]
    BY <1>1, <1>2, <1>3
  <1>5. \A n \in 1 .. Len(list) : new[n + 1] = list[n]
    BY <1>2, <1>3
  <1>6. \A m, n \in 1 .. Len(new) :
          new[m].id = new[n].id /\ new[m].enc = new[n].enc => m = n
    <2> SUFFICES ASSUME NEW m \in 1 .. Len(new), NEW n \in 1 .. Len(new),
                        new[m].id = new[n].id, new[m].enc = new[n].enc
                 PROVE  m = n
      OBVIOUS
    <2>1. (m = 1 \/ m \in 2 .. Len(new)) /\ (n = 1 \/ n \in 2 .. Len(new))
      BY <1>2, <1>3
    <2>2. CASE m = 1 /\ n = 1
      BY <2>2
    <2>3. CASE m = 1 /\ n \in 2 .. Len(new)
      BY <2>3, <1>0, <1>4
    <2>4. CASE m \in 2 .. Len(new) /\ n = 1
      BY <2>4, <1>0, <1>4
    <2>5. CASE m \in 2 .. Len(new) /\ n \in 2 .. Len(new)
      <3>1. PICK i, j : i = m - 1 /\ j = n - 1
        OBVIOUS
      <3>2. /\ i \in 1 .. Len(list) /\ new[m] = list[i]
            /\ j \in 1 .. Len(list) /\ new[n] = list[j]
        BY <2>5, <3>1, <1>4
      <3>3. i = j
        BY <1>0, <3>2 DEF ListOK
      <3> QED  BY <3>1, <3>3, <1>2
    <2> QED  BY <2>1, <2>2, <2>3, <2>4, <2>5
  <1>7. ListOK(new)
    BY <1>3, <1>6 DEF ListOK
  <1>8. Len(new) = Len(list) + 1
    BY <1>2, <1>3
  <1> QED  BY <1>4, <1>5, <1>7, <1>8 DEF Grown

\* Pruning keeps the beginning of the list.
LEMMA Pruned ==
  ASSUME NEW list, ListOK(list), NEW new, new = Prune(list)
  PROVE  /\ ListOK(new)
         /\ Len(new) = IF Len(list) < Keep THEN Len(list) ELSE Keep
         /\ Len(new) <= Len(list)
         /\ \A n \in 1 .. Len(new) : new[n] = list[n]
  <1> PICK k : k = IF Len(list) < Keep THEN Len(list) ELSE Keep
    OBVIOUS
  <1>1. list \in Seq(Copy) /\ Len(list) \in Nat
    BY DEF ListOK
  <1>2. k \in Nat /\ k <= Len(list)
    BY <1>1, DbFilesAssumption
  <1>3. \A n \in 1 .. k : list[n] \in Copy
    BY <1>1, <1>2
  <1>4. new = SubSeq(list, 1, k)
    BY DEF Prune
  <1>5. /\ new \in Seq(Copy) /\ Len(new) = k
        /\ \A n \in 1 .. k : new[n] = list[n]
    <2>1. /\ SubSeq(list, 1, k) \in Seq(Copy)
          /\ Len(SubSeq(list, 1, k)) = IF 1 <= k THEN k - 1 + 1 ELSE 0
          /\ \A n \in 1 .. k - 1 + 1 : SubSeq(list, 1, k)[n] = list[1 + n - 1]
      BY <1>2, <1>3, SubSeqProperties
    <2> QED  BY <1>2, <1>4, <2>1
  <1>6. 1 .. Len(new) \subseteq 1 .. Len(list)
    BY <1>1, <1>2, <1>5
  <1>7. ListOK(new)
    <2>1. \A n \in 1 .. Len(new) : n \in 1 .. Len(list) /\ new[n] = list[n]
      BY <1>5, <1>6
    <2>2. \A m, n \in 1 .. Len(new) :
            new[m].id = new[n].id /\ new[m].enc = new[n].enc => m = n
      BY <2>1 DEF ListOK
    <2> QED  BY <1>5, <2>2 DEF ListOK
  <1> QED  BY <1>1, <1>2, <1>5, <1>7

\* Removing a file leaves the others in their order.
LEMMA RemovedFrom ==
  ASSUME NEW list, ListOK(list), NEW id, NEW enc, NEW new, new = Removed(list, id, enc)
  PROVE  /\ ListOK(new)
         /\ \E k \in 1 .. Len(list) + 1 :
              /\ Len(new) = IF k <= Len(list) THEN Len(list) - 1 ELSE Len(list)
              /\ \A n \in 1 .. Len(new) : new[n] = list[IF n < k THEN n ELSE n + 1]
              /\ \A n \in 1 .. Len(list) :
                   list[n].id = id /\ list[n].enc = enc <=> n = k
  <1> DEFINE places == {n \in DOMAIN list : list[n].id = id /\ list[n].enc = enc}
  <1>1. list \in Seq(Copy) /\ Len(list) \in Nat /\ DOMAIN list = 1 .. Len(list)
    BY DEF ListOK
  <1>2. CASE places = {}
    <2>1. new = list
      BY <1>2 DEF Removed
    <2>2. \A n \in 1 .. Len(list) : ~(list[n].id = id /\ list[n].enc = enc)
      BY <1>1, <1>2
    <2>3. PICK k : k = Len(list) + 1
      OBVIOUS
    <2>4. k \in 1 .. Len(list) + 1 /\ ~(k <= Len(list))
      BY <1>1, <2>3
    <2>5. \A n \in 1 .. Len(list) : n < k /\ n # k
      BY <1>1, <2>3
    <2> HIDE DEF places
    <2> QED  BY <2>1, <2>2, <2>4, <2>5
  <1>3. CASE places # {}
    <2>1. PICK k : k = CHOOSE n \in places : TRUE
      OBVIOUS
    <2>2. k \in places
      BY <1>3, <2>1
    <2>3. /\ k \in 1 .. Len(list)
          /\ \A n \in 1 .. Len(list) : list[n].id = id /\ list[n].enc = enc <=> n = k
      BY <1>1, <2>2 DEF ListOK
    <2>4. new = SubSeq(list, 1, k - 1) \o SubSeq(list, k + 1, Len(list))
      BY <1>3, <2>1 DEF Removed, RemoveAt
    <2> HIDE DEF places
    <2>5. PICK a, b : a = SubSeq(list, 1, k - 1) /\ b = SubSeq(list, k + 1, Len(list))
      OBVIOUS
    <2>6. /\ a \in Seq(Copy) /\ Len(a) = k - 1
          /\ \A n \in 1 .. k - 1 : a[n] = list[n]
      <3>1. \A n \in 1 .. k - 1 : list[n] \in Copy
        BY <1>1, <2>3
      <3>2. /\ a \in Seq(Copy)
            /\ Len(a) = IF 1 <= k - 1 THEN k - 1 - 1 + 1 ELSE 0
            /\ \A n \in 1 .. k - 1 - 1 + 1 : a[n] = list[1 + n - 1]
        BY <2>3, <2>5, <3>1, SubSeqProperties
      <3> QED  BY <1>1, <2>3, <3>2
    <2>7. /\ b \in Seq(Copy) /\ Len(b) = Len(list) - k
          /\ \A n \in 1 .. Len(list) - k : b[n] = list[k + n]
      <3>1. \A n \in k + 1 .. Len(list) : list[n] \in Copy
        BY <1>1, <2>3
      <3>2. /\ b \in Seq(Copy)
            /\ Len(b) = IF k + 1 <= Len(list) THEN Len(list) - (k + 1) + 1 ELSE 0
            /\ \A n \in 1 .. Len(list) - (k + 1) + 1 : b[n] = list[k + 1 + n - 1]
        BY <1>1, <2>3, <2>5, <3>1, SubSeqProperties
      <3>3. Len(b) = Len(list) - k
        <4>1. k \in Nat /\ Len(list) \in Nat /\ k <= Len(list)
          BY <1>1, <2>3
        <4>2. Len(b) = IF k + 1 <= Len(list) THEN Len(list) - (k + 1) + 1 ELSE 0
          BY <3>2
        <4>3. CASE k < Len(list)
          BY <4>1, <4>2, <4>3
        <4>4. CASE k = Len(list)
          BY <4>1, <4>2, <4>4
        <4> QED  BY <4>1, <4>3, <4>4
      <3>4. ASSUME NEW n \in 1 .. Len(list) - k PROVE b[n] = list[k + n]
        <4>1. n \in 1 .. Len(list) - (k + 1) + 1 /\ k + 1 + n - 1 = k + n
          BY <1>1, <2>3
        <4> QED  BY <3>2, <4>1
      <3> QED  BY <3>2, <3>3, <3>4
    <2>8. /\ new \in Seq(Copy) /\ Len(new) = Len(a) + Len(b)
          /\ \A n \in 1 .. Len(a) + Len(b) :
               new[n] = IF n <= Len(a) THEN a[n] ELSE b[n - Len(a)]
      <3>1. new = a \o b
        BY <2>4, <2>5
      <3> QED  BY <3>1, <2>6, <2>7, ConcatProperties
    <2>9. Len(new) = Len(list) - 1
      BY <1>1, <2>3, <2>6, <2>7, <2>8
    <2>10. \A n \in 1 .. Len(new) : new[n] = list[IF n < k THEN n ELSE n + 1]
      <3> SUFFICES ASSUME NEW n \in 1 .. Len(new)
                   PROVE  new[n] = list[IF n < k THEN n ELSE n + 1]
        OBVIOUS
      <3>1. CASE n < k
        BY <3>1, <1>1, <2>3, <2>6, <2>7, <2>8, <2>9
      <3>2. CASE n >= k
        <4>1. n - (k - 1) \in 1 .. Len(list) - k /\ k + (n - (k - 1)) = n + 1
          BY <3>2, <1>1, <2>3, <2>9
        <4> QED  BY <3>2, <4>1, <1>1, <2>3, <2>6, <2>7, <2>8, <2>9
      <3> QED  BY <3>1, <3>2, <1>1, <2>3, <2>9
    <2>11. \A n \in 1 .. Len(new) : (IF n < k THEN n ELSE n + 1) \in 1 .. Len(list)
      BY <1>1, <2>3, <2>9
    <2>12. \A m, n \in 1 .. Len(new) :
             (IF m < k THEN m ELSE m + 1) = (IF n < k THEN n ELSE n + 1) => m = n
      BY <1>1, <2>3, <2>9
    <2>13. ListOK(new)
      <3>1. ASSUME NEW m \in 1 .. Len(new), NEW n \in 1 .. Len(new),
                   new[m].id = new[n].id, new[m].enc = new[n].enc
            PROVE  m = n
        <4>1. PICK i, j : /\ i = (IF m < k THEN m ELSE m + 1)
                          /\ j = (IF n < k THEN n ELSE n + 1)
          OBVIOUS
        <4>2. /\ i \in 1 .. Len(list) /\ new[m] = list[i]
              /\ j \in 1 .. Len(list) /\ new[n] = list[j]
          BY <4>1, <2>10, <2>11
        <4>3. i = j
          BY <3>1, <4>2 DEF ListOK
        <4> QED  BY <4>1, <4>3, <2>12
      <3> QED  BY <2>8, <3>1 DEF ListOK
    <2>14. k \in 1 .. Len(list) + 1 /\ k <= Len(list)
      BY <1>1, <2>3
    <2> QED  BY <2>3, <2>9, <2>10, <2>13, <2>14
  <1> QED  BY <1>2, <1>3

\* A list that has some of the files of another, in their order.
Within(new, list) ==
  \E f \in [1 .. Len(new) -> 1 .. Len(list)] :
    /\ \A m, n \in 1 .. Len(new) : m < n => f[m] < f[n]
    /\ \A n \in 1 .. Len(new) : new[n] = list[f[n]]

\* The files go from the newest snapshot to the oldest.
Ordered(list) == \A m, n \in 1 .. Len(list) : m <= n => list[n].id <= list[m].id

\* What such a list keeps of the other.
LEMMA WithinKeeps ==
  ASSUME NEW list, ListOK(list), NEW new, ListOK(new), Within(new, list)
  PROVE  /\ \A n \in 1 .. Len(new) : \E m \in 1 .. Len(list) : new[n] = list[m]
         /\ \A m, n \in 1 .. Len(new) :
              m # n => \E i, j \in 1 .. Len(list) : i # j /\ new[m] = list[i] /\ new[n] = list[j]
         /\ Ordered(list) => Ordered(new)
  <1>1. PICK f \in [1 .. Len(new) -> 1 .. Len(list)] :
          /\ \A m, n \in 1 .. Len(new) : m < n => f[m] < f[n]
          /\ \A n \in 1 .. Len(new) : new[n] = list[f[n]]
    BY DEF Within
  <1>2. Len(new) \in Nat /\ Len(list) \in Nat
    BY DEF ListOK
  <1>3. \A n \in 1 .. Len(new) : f[n] \in 1 .. Len(list) /\ new[n] = list[f[n]]
    BY <1>1
  <1>4. ASSUME NEW m \in 1 .. Len(new), NEW n \in 1 .. Len(new), m # n
        PROVE  \E i, j \in 1 .. Len(list) : i # j /\ new[m] = list[i] /\ new[n] = list[j]
    <2>1. m < n \/ n < m
      BY <1>2, <1>4
    <2>2. f[m] # f[n]
      BY <1>1, <1>2, <1>3, <2>1
    <2> QED  BY <1>3, <2>2
  <1>5. ASSUME Ordered(list), NEW m \in 1 .. Len(new), NEW n \in 1 .. Len(new), m <= n
        PROVE  new[n].id <= new[m].id
    <2>1. f[m] <= f[n]
      <3>1. m = n \/ m < n
        BY <1>5
      <3> QED  BY <1>1, <1>2, <1>3, <3>1
    <2> QED  BY <1>3, <1>5, <2>1 DEF Ordered
  <1>6. Ordered(list) => Ordered(new)
    BY <1>5 DEF Ordered
  <1> QED  BY <1>3, <1>4, <1>6

LEMMA WithinTwice ==
  ASSUME NEW a, NEW b, NEW c, Within(a, b), Within(b, c)
  PROVE  Within(a, c)
  <1>1. PICK f \in [1 .. Len(a) -> 1 .. Len(b)] :
          /\ \A m, n \in 1 .. Len(a) : m < n => f[m] < f[n]
          /\ \A n \in 1 .. Len(a) : a[n] = b[f[n]]
    BY DEF Within
  <1>2. PICK g \in [1 .. Len(b) -> 1 .. Len(c)] :
          /\ \A m, n \in 1 .. Len(b) : m < n => g[m] < g[n]
          /\ \A n \in 1 .. Len(b) : b[n] = c[g[n]]
    BY DEF Within
  <1>3. PICK h : h = [n \in 1 .. Len(a) |-> g[f[n]]]
    OBVIOUS
  <1>4. h \in [1 .. Len(a) -> 1 .. Len(c)]
    BY <1>1, <1>2, <1>3
  <1>5. \A m, n \in 1 .. Len(a) : m < n => h[m] < h[n]
    BY <1>1, <1>2, <1>3
  <1>6. \A n \in 1 .. Len(a) : a[n] = c[h[n]]
    BY <1>1, <1>2, <1>3
  <1> QED  BY <1>4, <1>5, <1>6 DEF Within

LEMMA WithinItself == ASSUME NEW list, ListOK(list) PROVE Within(list, list)
  <1>1. PICK f : f = [n \in 1 .. Len(list) |-> n]
    OBVIOUS
  <1>2. f \in [1 .. Len(list) -> 1 .. Len(list)]
    BY <1>1
  <1> QED  BY <1>1, <1>2 DEF Within

LEMMA PrunedWithin ==
  ASSUME NEW list, ListOK(list) PROVE Within(Prune(list), list)
  <1>1. PICK new : new = Prune(list)
    OBVIOUS
  <1>2. /\ Len(new) \in Nat /\ Len(list) \in Nat /\ Len(new) <= Len(list)
        /\ \A n \in 1 .. Len(new) : new[n] = list[n]
    BY <1>1, Pruned DEF ListOK
  <1>3. PICK f : f = [n \in 1 .. Len(new) |-> n]
    OBVIOUS
  <1>4. f \in [1 .. Len(new) -> 1 .. Len(list)]
    BY <1>2, <1>3
  <1>5. Within(new, list)
    BY <1>2, <1>3, <1>4 DEF Within
  <1> QED  BY <1>1, <1>5

\* The list without a file: the others are there, in their order.
Without(new, list, id, enc) ==
  /\ ListOK(new) /\ Within(new, list)
  /\ \A n \in 1 .. Len(new) : ~(new[n].id = id /\ new[n].enc = enc)
  /\ \A m \in 1 .. Len(list) :
       ~(list[m].id = id /\ list[m].enc = enc) => \E n \in 1 .. Len(new) : new[n] = list[m]
  /\ list # <<>> /\ ~(list[1].id = id /\ list[1].enc = enc) => new # <<>> /\ new[1] = list[1]

LEMMA RemovedWithin ==
  ASSUME NEW list, ListOK(list), NEW id, NEW enc, NEW new, new = Removed(list, id, enc)
  PROVE  Without(new, list, id, enc)
  <1>1. ListOK(new) /\ Len(new) \in Nat /\ Len(list) \in Nat
    <2>1. ListOK(new)
      BY RemovedFrom
    <2> QED  BY <2>1 DEF ListOK
  <1>2. PICK k \in 1 .. Len(list) + 1 :
          /\ Len(new) = IF k <= Len(list) THEN Len(list) - 1 ELSE Len(list)
          /\ \A n \in 1 .. Len(new) : new[n] = list[IF n < k THEN n ELSE n + 1]
          /\ \A n \in 1 .. Len(list) : list[n].id = id /\ list[n].enc = enc <=> n = k
    <2>1. \E k \in 1 .. Len(list) + 1 :
            /\ Len(new) = IF k <= Len(list) THEN Len(list) - 1 ELSE Len(list)
            /\ \A n \in 1 .. Len(new) : new[n] = list[IF n < k THEN n ELSE n + 1]
            /\ \A n \in 1 .. Len(list) : list[n].id = id /\ list[n].enc = enc <=> n = k
      BY RemovedFrom, SMTT(30)
    <2> QED  BY <2>1, Zenon
  <1>3. PICK f : f = [n \in 1 .. Len(new) |-> IF n < k THEN n ELSE n + 1]
    OBVIOUS
  <1>4. \A n \in 1 .. Len(new) :
          /\ f[n] = (IF n < k THEN n ELSE n + 1) /\ f[n] \in 1 .. Len(list) /\ f[n] # k
          /\ new[n] = list[f[n]]
    <2> SUFFICES ASSUME NEW n \in 1 .. Len(new)
                 PROVE  /\ f[n] = (IF n < k THEN n ELSE n + 1)
                        /\ f[n] \in 1 .. Len(list) /\ f[n] # k
                        /\ new[n] = list[f[n]]
      OBVIOUS
    <2>1. f[n] = (IF n < k THEN n ELSE n + 1)
      BY <1>3
    <2>2. f[n] \in 1 .. Len(list) /\ f[n] # k
      BY <1>1, <1>2, <2>1
    <2> QED  BY <1>2, <2>1, <2>2
  <1>5. Within(new, list)
    <2>1. f \in [1 .. Len(new) -> 1 .. Len(list)]
      BY <1>3, <1>4
    <2>2. \A m, n \in 1 .. Len(new) : m < n => f[m] < f[n]
      BY <1>1, <1>4
    <2> QED  BY <1>4, <2>1, <2>2 DEF Within
  <1>6. \A n \in 1 .. Len(new) : ~(new[n].id = id /\ new[n].enc = enc)
    BY <1>2, <1>4
  <1>7. ASSUME NEW m \in 1 .. Len(list), ~(list[m].id = id /\ list[m].enc = enc)
        PROVE  \E n \in 1 .. Len(new) : new[n] = list[m] /\ (m = 1 => n = 1)
    <2>1. m # k
      BY <1>2, <1>7
    <2>2. CASE m < k
      <3>1. m \in 1 .. Len(new)
        BY <1>1, <1>2, <2>2
      <3> QED  BY <2>2, <3>1, <1>4
    <2>3. CASE m > k
      <3>1. PICK n : n = m - 1
        OBVIOUS
      <3>2. n \in 1 .. Len(new) /\ ~(n < k) /\ n + 1 = m /\ m # 1
        BY <1>1, <1>2, <2>3, <3>1
      <3> QED  BY <3>2, <1>4
    <2> QED  BY <2>1, <2>2, <2>3, <1>1, <1>2
  <1>8. ASSUME list # <<>>, ~(list[1].id = id /\ list[1].enc = enc)
        PROVE  new # <<>> /\ new[1] = list[1]
    <2>1. list \in Seq(Copy) /\ new \in Seq(Copy)
      BY <1>1 DEF ListOK
    <2>2. 1 \in 1 .. Len(list)
      BY <1>8, <2>1
    <2>3. 1 \in 1 .. Len(new) /\ new[1] = list[1]
      BY <1>7, <1>8, <2>2
    <2> QED  BY <2>1, <2>3
  <1> QED  BY <1>1, <1>5, <1>6, <1>7, <1>8 DEF Without

-----------------------------------------------------------------------------
(* The snapshots: the inductive invariant *)

\* A file has the types of its content and of its key.
FileType == [books : Torn .. MaxBooks, key : -1 .. MaxKeys]

\* The files, the keys and the counters have their types, and what is served
\* can be read.
TypesOK ==
  /\ live \in FileType /\ aside \in FileType /\ converted \in FileType /\ staged \in FileType
  /\ wal = NoWal \/ wal \in [of : FileType, books : 1 .. MaxBooks]
  /\ restore \in BOOLEAN /\ pending \in {"none", "encrypt", "decrypt"}
  /\ sealed \in [key : 0 .. MaxKeys, readable : BOOLEAN] /\ wrap \in 0 .. MaxKeys
  /\ made \in [books : 0 .. MaxBooks, backups : 0 .. MaxBackups, keys : 0 .. MaxKeys,
               crashes : 0 .. MaxCrashes]
  /\ Serving => Content # Torn

\* A snapshot is being written or encrypted.
Working == pc \in {"written", "encrypt", "filling", "verify"}

\* The snapshots are those that were taken.
CopiesOK ==
  /\ ListOK(backups)
  /\ \A n \in 1 .. Len(backups) : backups[n].id <= made.backups

\* The snapshot that a request takes is the newest file, in clear until it is
\* encrypted, and is not completed; one taken for a restoration has the books
\* of the moment.
Taking ==
  /\ todo[1] = made.backups /\ last < made.backups
  /\ backups # <<>> /\ backups[1].id = made.backups
  /\ pc \in {"written", "encrypt"} =>
       /\ ~backups[1].enc
       /\ \A n \in 1 .. Len(backups) : backups[n].id = made.backups => n = 1
  /\ then = "stage" => backups[1].books = Content

\* The snapshots that a request encrypts are different ones, still in clear.
Encrypting ==
  /\ pc # "written"
  /\ "reordered" \in mishap
  /\ \A i \in 1 .. Len(todo) : \E n \in 1 .. Len(backups) : backups[n].id = todo[i] /\ ~backups[n].enc
  /\ \A i, j \in 1 .. Len(todo) : todo[i] = todo[j] => i = j

\* What a request is about to restore on has its snapshot.
Staged ==
  /\ last = made.backups
  /\ backups # <<>> /\ backups[1].id = last /\ backups[1].whole /\ backups[1].books = Content
  /\ \A n \in 1 .. Len(backups) : backups[n].id = last => n = 1

\* How far the request at work has come.
WorkOK ==
  /\ todo \in Seq(1 .. MaxBackups)
  /\ then \in {"nothing", "prune", "stage", "next"}
  /\ last \in 0 .. made.backups
  /\ Working => /\ todo # <<>> /\ then # "nothing"
                /\ IF then = "next" THEN Encrypting ELSE Taking
  /\ pc \in {"filling", "verify"} =>
       backups # <<>> /\ backups[1].id = todo[1] /\ backups[1].enc
  /\ pc = "written" => backups[1].whole
  /\ pc = "filling" => ~backups[1].whole
  /\ pc = "stage" => Staged

\* The last completed snapshot has a file that can be read.
ReadableOK ==
  last # 0 /\ "encryption" \notin mishap =>
    \E n \in 1 .. Len(backups) : backups[n].id = last /\ backups[n].whole

\* Files are in the order of their snapshots, newest first.
SortedOK == "reordered" \notin mishap => Ordered(backups)

\* No request encrypted old snapshots.
Clean == mishap \intersect {"encryption", "reordered"} = {}

\* A restoration is asked for.
Awaited == restore \/ pc = "staged"

\* The snapshot taken then has a file that can be read.
Saved == \E n \in 1 .. Len(backups) :
           /\ backups[n].id = undo.id /\ backups[n].books = undo.books
           /\ backups[n].whole

\* The later ones that are there, but for the one that is being taken.
Later == {id \in 1 .. MaxBackups :
            /\ undo.id < id
            /\ Working => id # made.backups
            /\ \E n \in 1 .. Len(backups) : backups[n].id = id}

\* Since that snapshot, a snapshot has one file, but for the one that is being
\* encrypted.
OneFile ==
  \A m, n \in 1 .. Len(backups) :
    m # n /\ backups[m].id = backups[n].id =>
      \/ backups[m].id < undo.id
      \/ pc \in {"filling", "verify"} /\ backups[m].id = made.backups

\* The marker of a restoration is there until it was carried out or given up;
\* until then its snapshot is kept, or enough later ones are.
UndoOK ==
  /\ undo.id \in Nat
  /\ pc \in {"copying", "copied", "restored"} => restore
  /\ pc \in {"reconcile", "convert", "swap", "place", "clean", "forget", "forgetting",
             "forgotten", "open", "recovery"} => ~restore
  /\ Clean /\ Awaited =>
       /\ undo.id <= last
       /\ Saved \/ Cardinality(Later) >= Keep
       /\ Serving => OneFile

CopiesInv == TypesOK /\ CopiesOK /\ WorkOK /\ ReadableOK /\ SortedOK /\ UndoOK

-----------------------------------------------------------------------------
(* Types *)

\* What is read of a base has the type of books.
LEMMA ContentType == ASSUME TypesOK PROVE Content \in Torn .. MaxBooks
  <1>1. live.books \in Torn .. MaxBooks
    BY DEF TypesOK, FileType
  <1>2. CASE wal = NoWal
    BY <1>1, <1>2 DEF Content
  <1>3. CASE wal # NoWal /\ wal.of = live
    <2>1. wal.books \in 1 .. MaxBooks
      BY <1>3 DEF TypesOK
    <2> QED  BY <1>3, <2>1 DEF Content, Torn
  <1>4. CASE wal # NoWal /\ wal.of # live
    BY <1>4, DbFilesAssumption DEF Content, Torn
  <1> QED  BY <1>2, <1>3, <1>4

\* The files of a step are earlier ones, or new ones of the type.
LEMMA FileTypes ==
  ASSUME DbFilesAssumption, TypesOK
  PROVE  /\ NoFile \in FileType
         /\ Content # Torn => Content \in 0 .. MaxBooks
         /\ \A n \in {Torn, 0}, k \in {Clear, sealed.key, live.key} : [books |-> n, key |-> k] \in FileType
         /\ \A k \in {Clear, sealed.key, live.key} : [books |-> Content, key |-> k] \in FileType
         /\ live = [books |-> live.books, key |-> live.key]
  <1>1. Content \in Torn .. MaxBooks
    BY ContentType
  <1>2. /\ sealed.key \in 0 .. MaxKeys /\ live.key \in -1 .. MaxKeys
        /\ live = [books |-> live.books, key |-> live.key]
    BY DEF TypesOK, FileType
  <1>3. Clear \in -1 .. MaxKeys /\ Torn \in Torn .. MaxBooks /\ 0 \in Torn .. MaxBooks
    BY DbFilesAssumption DEF Clear, Torn
  <1>4. sealed.key \in -1 .. MaxKeys
    BY <1>2
  <1>5. NoFile \in FileType
    BY <1>3, DbFilesAssumption DEF NoFile, FileType
  <1>6. Content # Torn => Content \in 0 .. MaxBooks
    BY <1>1, DbFilesAssumption DEF Torn
  <1> QED  BY <1>1, <1>2, <1>3, <1>4, <1>5, <1>6 DEF FileType

\* What is served stays what it is where neither base nor journal changes.
LEMMA ServedKept ==
  ASSUME TypesOK, UNCHANGED <<live, wal>>, Serving' => Serving
  PROVE  Serving' => Content' # Torn
  BY DEF TypesOK, Content

\* Steps that change neither files nor keys.
LEMMA QuietTypes ==
  ASSUME TypesOK, UNCHANGED <<files, keyring>>, Serving' => Serving,
         restore' \in BOOLEAN, pending' \in {"none", "encrypt", "decrypt"},
         made' \in [books : 0 .. MaxBooks, backups : 0 .. MaxBackups, keys : 0 .. MaxKeys,
                    crashes : 0 .. MaxCrashes]
  PROVE  TypesOK'
  <1>1. Serving' => Content' # Torn
    BY ServedKept DEF files
  <1> QED  BY <1>1 DEF TypesOK, files, keyring, FileType

\* The decisions of the start, and what a request does to snapshots and markers.
LEMMA DecisionTypes ==
  ASSUME FilesInv, TypesOK,
         \/ Start \/ NothingToRestore \/ ReconcileDecrypt \/ Reconcile \/ Unmark
         \/ KeepClear \/ EncryptExisting \/ EncryptStart \/ EncryptFile \/ EncryptDone
         \/ EncryptFails \/ StageMark \/ MarkEncryption \/ DisableDatabaseEncryption
  PROVE  TypesOK'
  <1>1. /\ UNCHANGED <<files, keyring, made>>
        /\ restore' = restore \/ restore' \in BOOLEAN
        /\ pending' \in {pending, "none", "encrypt", "decrypt"}
    <2>1. CASE Start \/ NothingToRestore \/ ReconcileDecrypt \/ Reconcile \/ Unmark
      BY <2>1 DEF Start, NothingToRestore, ReconcileDecrypt, Reconcile, Unmark, markers
    <2>2. CASE KeepClear \/ EncryptExisting \/ EncryptStart
      <3>1. CASE KeepClear
        BY <3>1 DEF KeepClear, markers
      <3>2. CASE EncryptExisting
        BY <3>2 DEF EncryptExisting, markers
      <3>3. CASE EncryptStart
        BY <3>3 DEF EncryptStart, markers
      <3> QED  BY <2>2, <3>1, <3>2, <3>3
    <2>3. CASE EncryptFile \/ EncryptDone \/ EncryptFails
      BY <2>3 DEF EncryptFile, EncryptDone, EncryptFails, markers
    <2>4. CASE StageMark \/ MarkEncryption \/ DisableDatabaseEncryption
      BY <2>4 DEF StageMark, MarkEncryption, DisableDatabaseEncryption, markers
    <2> QED  BY <2>1, <2>2, <2>3, <2>4
  <1>2. restore' \in BOOLEAN /\ pending' \in {"none", "encrypt", "decrypt"}
    BY <1>1 DEF TypesOK
  <1>3. Serving' => Serving
    <2>1. CASE Start \/ NothingToRestore \/ ReconcileDecrypt \/ Reconcile \/ Unmark
      BY <2>1 DEF Serving, Start, NothingToRestore, ReconcileDecrypt, Reconcile, Unmark
    <2>2. CASE KeepClear
      BY <2>2 DEF Serving, KeepClear
    <2>3. CASE EncryptExisting
      BY <2>3 DEF Serving, EncryptExisting
    <2>4. CASE EncryptStart \/ EncryptFile \/ EncryptDone \/ EncryptFails
      <3>1. EncryptStart => pc = "encrypt"
        BY DEF EncryptStart
      <3>2. EncryptFile \/ EncryptDone \/ EncryptFails => pc \in {"encrypt", "filling", "verify"}
        BY DEF EncryptFile, EncryptDone, EncryptFails
      <3> QED  BY <2>4, <3>1, <3>2 DEF Serving
    <2>5. CASE StageMark \/ MarkEncryption \/ DisableDatabaseEncryption
      BY <2>5 DEF Serving, StageMark, MarkEncryption, DisableDatabaseEncryption
    <2> QED  BY <2>1, <2>2, <2>3, <2>4, <2>5
  <1>4. made' \in [books : 0 .. MaxBooks, backups : 0 .. MaxBackups, keys : 0 .. MaxKeys,
                   crashes : 0 .. MaxCrashes]
    BY <1>1 DEF TypesOK
  <1> QED  BY <1>1, <1>2, <1>3, <1>4, QuietTypes

\* A snapshot more, or a sudden stop more.
LEMMA CountTypes ==
  ASSUME FilesInv, TypesOK, CreateBackup \/ AskRestore \/ SnapshotTorn \/ Crash
  PROVE  TypesOK'
  <1>1. made' \in [books : 0 .. MaxBooks, backups : 0 .. MaxBackups, keys : 0 .. MaxKeys,
                   crashes : 0 .. MaxCrashes]
    <2>1. /\ made.backups \in 0 .. MaxBackups /\ made.crashes \in 0 .. MaxCrashes
          /\ made = [books |-> made.books, backups |-> made.backups, keys |-> made.keys,
                     crashes |-> made.crashes]
      BY DEF TypesOK
    <2>2. CASE CreateBackup \/ AskRestore \/ SnapshotTorn
      <3>1. made.backups < MaxBackups /\ made' = [made EXCEPT !.backups = @ + 1]
        BY <2>2 DEF CreateBackup, AskRestore, Snapshot, SnapshotTorn
      <3>2. made.backups + 1 \in 0 .. MaxBackups
        BY <2>1, <3>1, DbFilesAssumption
      <3> QED  BY <3>1, <3>2 DEF TypesOK
    <2>3. CASE Crash
      <3>1. made.crashes < MaxCrashes /\ made' = [made EXCEPT !.crashes = @ + 1]
        BY <2>3 DEF Crash
      <3>2. made.crashes + 1 \in 0 .. MaxCrashes
        BY <2>1, <3>1, DbFilesAssumption
      <3> QED  BY <3>1, <3>2 DEF TypesOK
    <2> QED  BY <2>2, <2>3
  <1>2. UNCHANGED <<files, keyring, markers>> /\ (Serving' => Serving)
    BY DEF CreateBackup, AskRestore, Snapshot, SnapshotTorn, Crash, Serving
  <1>3. restore' \in BOOLEAN /\ pending' \in {"none", "encrypt", "decrypt"}
    BY <1>2 DEF TypesOK, markers
  <1> QED  BY <1>1, <1>2, <1>3, QuietTypes

\* Keys come and go.
LEMMA KeyTypes ==
  ASSUME FilesInv, TypesOK,
         \/ ForgetSealed \/ ForgetWrapped \/ WrapKey \/ SealKey \/ CancelDatabaseEncryption
         \/ RemoveWrap \/ RecoverKey \/ LoseAccount
  PROVE  TypesOK'
  <1>1. UNCHANGED <<live, wal, aside, converted, staged, restore>> /\ (Serving' => Serving)
    BY DEF ForgetSealed, ForgetWrapped, WrapKey, SealKey, CancelDatabaseEncryption, RemoveWrap,
           RecoverKey, LoseAccount, files, markers, Serving
  <1>2. /\ sealed' \in [key : 0 .. MaxKeys, readable : BOOLEAN] /\ wrap' \in 0 .. MaxKeys
        /\ pending' \in {"none", "encrypt", "decrypt"}
        /\ made' \in [books : 0 .. MaxBooks, backups : 0 .. MaxBackups, keys : 0 .. MaxKeys,
                      crashes : 0 .. MaxCrashes]
    <2>1. 0 \in 0 .. MaxKeys
      BY DbFilesAssumption
    <2>2. CASE WrapKey
      <3>1. made.keys + 1 \in 0 .. MaxKeys
        BY <2>2, DbFilesAssumption DEF WrapKey, TypesOK
      <3> QED  BY <2>2, <3>1 DEF WrapKey, TypesOK, markers
    <2>3. CASE ForgetSealed \/ ForgetWrapped \/ CancelDatabaseEncryption \/ RemoveWrap
      <3>1. UNCHANGED made /\ pending' \in {pending, "none"}
        BY <2>3 DEF ForgetSealed, ForgetWrapped, CancelDatabaseEncryption, RemoveWrap, markers
      <3>2. /\ sealed' \in {sealed, [key |-> 0, readable |-> FALSE]}
            /\ wrap' \in {wrap, 0}
        BY <2>3 DEF ForgetSealed, ForgetWrapped, CancelDatabaseEncryption, RemoveWrap, NoKey
      <3>3. [key |-> 0, readable |-> FALSE] \in [key : 0 .. MaxKeys, readable : BOOLEAN]
        BY <2>1
      <3>4. /\ sealed' \in [key : 0 .. MaxKeys, readable : BOOLEAN]
            /\ wrap' \in 0 .. MaxKeys
        BY <2>1, <3>2, <3>3 DEF TypesOK
      <3> QED  BY <3>1, <3>4 DEF TypesOK
    <2>4. CASE SealKey \/ RecoverKey
      <3>1. UNCHANGED <<made, pending, wrap>> /\ sealed' = [key |-> wrap, readable |-> TRUE]
        BY <2>4 DEF SealKey, RecoverKey, markers
      <3> QED  BY <3>1 DEF TypesOK
    <2>6. CASE LoseAccount
      BY <2>6 DEF LoseAccount, TypesOK, markers
    <2> QED  BY <2>2, <2>3, <2>4, <2>6
  <1>3. Serving' => Content' # Torn
    BY <1>1, ServedKept
  <1> QED  BY <1>1, <1>2, <1>3 DEF TypesOK, FileType

\* Files are copied, renamed and removed.
LEMMA RenameTypes ==
  ASSUME FilesInv, TypesOK, CopiesOK,
         \/ TruncateBase \/ CopyStaged \/ CopyFails \/ DropSidecars \/ DropStaged
         \/ SetAside \/ PutInPlace \/ PutBack \/ DropOriginal \/ StageCopy \/ CancelRestore
  PROVE  TypesOK'
  <1>1. /\ UNCHANGED <<sealed, wrap, made>>
        /\ wal' \in {wal, NoWal} /\ restore' \in {restore, FALSE} /\ pending' \in {pending, "none"}
    BY DEF TruncateBase, CopyStaged, CopyFails, DropSidecars, DropStaged, SetAside, PutInPlace,
           PutBack, DropOriginal, StageCopy, CancelRestore, keyring, markers
  <1>2. \/ UNCHANGED <<live, wal>> /\ (Serving' => Serving)
        \/ ~Serving'
    BY DEF TruncateBase, CopyStaged, CopyFails, DropSidecars, DropStaged, SetAside, PutInPlace,
           PutBack, DropOriginal, StageCopy, CancelRestore, Serving
  <1>3. /\ live' \in FileType /\ aside' \in FileType /\ converted' \in FileType
        /\ staged' \in FileType
    <2>1. CASE TruncateBase \/ CopyFails
      BY <2>1, FileTypes, DbFilesAssumption DEF TruncateBase, CopyFails, TypesOK
    <2>2. CASE CopyStaged \/ DropSidecars \/ DropStaged \/ CancelRestore
      BY <2>2, FileTypes, DbFilesAssumption DEF CopyStaged, DropSidecars, DropStaged, CancelRestore, TypesOK
    <2>3. CASE SetAside \/ PutInPlace \/ PutBack \/ DropOriginal
      BY <2>3, FileTypes, DbFilesAssumption DEF SetAside, PutInPlace, PutBack, DropOriginal, TypesOK
    <2>4. CASE StageCopy
      <3>1. \A b \in Range(backups) : [books |-> b.books, key |-> Clear] \in FileType
        <4>1. \A b \in Range(backups) : b \in Copy
          BY DEF CopiesOK, ListOK, Range
        <4> QED  BY <4>1, DbFilesAssumption DEF Copy, FileType, Clear, Torn
      <3> QED  BY <2>4, <3>1, FileTypes, DbFilesAssumption DEF StageCopy, TypesOK
    <2> QED  BY <2>1, <2>2, <2>3, <2>4
  <1>4. Serving' => Content' # Torn
    BY <1>2, ServedKept
  <1> QED  BY <1>1, <1>3, <1>4 DEF TypesOK, FileType

\* A base is written anew, made, or closed.
LEMMA BaseTypes ==
  ASSUME FilesInv, TypesOK, Convert \/ Open \/ Stop \/ Write
  PROVE  TypesOK'
  <1>1. UNCHANGED <<aside, staged, sealed, wrap, restore>> /\ pending' \in {pending, "none"}
    BY DEF Convert, Open, Stop, Write, files, keyring, markers
  <1>2. CASE Convert
    <2>1. ~Serving' /\ UNCHANGED made /\ wal' \in {wal, NoWal}
      BY <1>2 DEF Convert, Serving, files
    <2>2. live' \in FileType /\ converted' \in FileType
      <3>1. CASE Content = Torn
        BY <1>2, <3>1 DEF Convert, files, TypesOK
      <3>2. CASE Content # Torn
        <4>1. /\ live' = [books |-> Content, key |-> live.key]
              /\ \/ converted' = [books |-> Content, key |-> Clear]
                 \/ converted' = [books |-> Content, key |-> sealed.key]
          BY <1>2, <3>2, FileTypes, DbFilesAssumption DEF Convert
        <4> QED  BY <4>1, FileTypes, DbFilesAssumption
      <3> QED  BY <3>1, <3>2
    <2> QED  BY <1>1, <2>1, <2>2 DEF TypesOK, FileType
  <1>3. CASE Open
    <2>1. UNCHANGED <<converted, made>> /\ wal' \in {wal, NoWal}
      BY <1>3 DEF Open
    <2>2. live' \in FileType
      BY <1>3, FileTypes, DbFilesAssumption DEF Open, TypesOK
    <2>3. Serving' => Content' # Torn
      <3>1. CASE Exists(live)
        <4>1. Serving' => Content # Torn
          BY <1>3, <3>1 DEF Open, Serving
        <4>2. live' = live /\ wal' = wal
          BY <1>3, <3>1 DEF Open
        <4> QED  BY <4>1, <4>2 DEF Content
      <3>2. CASE ~Exists(live)
        <4>1. Serving' => live' = [books |-> 0, key |-> sealed.key] /\ wal' = NoWal
          BY <1>3, <3>2 DEF Open, Serving
        <4> QED  BY <4>1 DEF Content, Torn
      <3> QED  BY <3>1, <3>2
    <2> QED  BY <1>1, <2>1, <2>2, <2>3 DEF TypesOK, FileType
  <1>4. CASE Stop
    <2>1. UNCHANGED <<converted, made>> /\ wal' = NoWal /\ ~Serving'
      BY <1>4 DEF Stop, Serving
    <2>2. live' \in FileType
      BY <1>4, FileTypes, DbFilesAssumption DEF Stop
    <2> QED  BY <1>1, <2>1, <2>2 DEF TypesOK, FileType
  <1>5. CASE Write
    <2>1. /\ UNCHANGED <<live, converted>>
          /\ wal' = [of |-> live, books |-> made.books + 1]
          /\ made.books < MaxBooks /\ made' = [made EXCEPT !.books = @ + 1]
      BY <1>5 DEF Write
    <2>2. made.books + 1 \in 1 .. MaxBooks
      BY <2>1, DbFilesAssumption DEF TypesOK
    <2>3. wal' # NoWal /\ wal'.of = live' /\ wal'.books = made.books + 1
      BY <2>1, Journal
    <2>4. Content' # Torn
      BY <2>2, <2>3, DbFilesAssumption DEF Content, Torn
    <2>5. wal' \in [of : FileType, books : 1 .. MaxBooks]
      BY <2>1, <2>2 DEF TypesOK
    <2>6. made' \in [books : 0 .. MaxBooks, backups : 0 .. MaxBackups, keys : 0 .. MaxKeys,
                     crashes : 0 .. MaxCrashes]
      BY <2>1, <2>2 DEF TypesOK
    <2> QED  BY <1>1, <2>1, <2>4, <2>5, <2>6 DEF TypesOK, FileType
  <1> QED  BY <1>2, <1>3, <1>4, <1>5

\* Every step keeps the types.
LEMMA TypesStep == ASSUME FilesInv, TypesOK, CopiesOK, [Next]_vars PROVE TypesOK'
  <1>1. CASE UNCHANGED vars
    BY <1>1 DEF vars, files, keyring, markers, TypesOK, FileType, Serving, Content
  <1>2. CASE Starting
    BY <1>2, DecisionTypes, KeyTypes, RenameTypes, BaseTypes DEF Starting
  <1>3. CASE Next /\ ~Starting
    BY <1>3, DecisionTypes, CountTypes, KeyTypes, RenameTypes, BaseTypes DEF Next
  <1> QED  BY <1>1, <1>2, <1>3

-----------------------------------------------------------------------------
(* Steps that leave the snapshots alone *)

\* More later snapshots are as many or more.
LEMMA LaterGrows ==
  ASSUME NEW S, NEW T, S \subseteq T, T \subseteq 1 .. MaxBackups, Cardinality(S) >= Keep
  PROVE  Cardinality(T) >= Keep
  <1>1. IsFiniteSet(1 .. MaxBackups)
    BY DbFilesAssumption, FS_Interval
  <1>2. IsFiniteSet(T)
    BY <1>1, FS_Subset
  <1>3. Cardinality(S) <= Cardinality(T)
    BY <1>2, FS_Subset
  <1>4. IsFiniteSet(S)
    BY <1>2, FS_Subset
  <1>5. Cardinality(S) \in Nat /\ Cardinality(T) \in Nat
    BY <1>2, <1>4, FS_CardinalityType
  <1> QED  BY <1>3, <1>5, DbFilesAssumption

\* Where no snapshot is at work any more, its files are as they were.
LEMMA RestCopies ==
  ASSUME CopiesOK, WorkOK, ReadableOK, SortedOK, UNCHANGED <<backups, last>>,
         made'.backups = made.backups, todo' \in {todo, <<>>}, then' \in {then, "nothing"},
         ~Working', pc' # "stage", mishap \subseteq mishap'
  PROVE  CopiesOK' /\ WorkOK' /\ ReadableOK' /\ SortedOK'
  <1>1. CopiesOK'
    BY DEF CopiesOK, ListOK
  <1>2. WorkOK'
    <2>1. <<>> \in Seq(1 .. MaxBackups)
      OBVIOUS
    <2>2. todo' \in Seq(1 .. MaxBackups)
      BY <2>1 DEF WorkOK
    <2> QED  BY <2>2 DEF WorkOK, Working
  <1>3. ReadableOK' /\ SortedOK'
    BY DEF ReadableOK, SortedOK, Ordered
  <1> QED  BY <1>1, <1>2, <1>3

\* A restoration that is still asked for keeps its snapshot.
LEMMA RestUndo ==
  ASSUME UndoOK, UNCHANGED <<backups, last, undo>>, made'.backups = made.backups,
         ~Working', Serving' /\ Awaited' => Serving /\ ~Working, Awaited' => Awaited,
         pc' \in {"copying", "copied", "restored"} => restore',
         pc' \in {"reconcile", "convert", "swap", "place", "clean", "forget", "forgetting",
                  "forgotten", "open", "recovery"} => ~restore',
         mishap \subseteq mishap'
  PROVE  UndoOK'
  <1>1. Clean' => Clean
    BY DEF Clean
  <1>2. Saved' <=> Saved
    BY DEF Saved
  <1>3. Later \subseteq Later' /\ Later' \subseteq 1 .. MaxBackups
    BY DEF Later
  <1>4. Cardinality(Later) >= Keep => Cardinality(Later)' >= Keep
    <2>1. PICK S, T : S = Later /\ T = Later'
      OBVIOUS
    <2>2. Cardinality(S) >= Keep => Cardinality(T) >= Keep
      BY <1>3, <2>1, LaterGrows
    <2> QED  BY <2>1, <2>2
  <1>5. Serving' /\ Awaited' /\ OneFile => OneFile'
    BY DEF OneFile, Working
  <1> QED  BY <1>1, <1>2, <1>4, <1>5 DEF UndoOK

\* What every step but those of a snapshot leaves alone.
Elsewhere ==
  /\ UNCHANGED <<backups, last>>
  /\ made'.backups = made.backups
  /\ todo' \in {todo, <<>>} /\ then' \in {then, "nothing"}
  /\ ~Working' /\ pc' # "stage"
  /\ mishap \subseteq mishap'

LEMMA ElsewhereKeeps ==
  ASSUME TypesOK, CopiesOK, WorkOK, ReadableOK, SortedOK, UndoOK, Elsewhere, UNCHANGED undo,
         Serving' /\ Awaited' => Serving /\ ~Working, Awaited' => Awaited,
         pc' \in {"copying", "copied", "restored"} => restore',
         pc' \in {"reconcile", "convert", "swap", "place", "clean", "forget", "forgetting",
                  "forgotten", "open", "recovery"} => ~restore'
  PROVE  CopiesOK' /\ WorkOK' /\ ReadableOK' /\ SortedOK' /\ UndoOK'
  <1>1. CopiesOK' /\ WorkOK' /\ ReadableOK' /\ SortedOK'
    BY RestCopies DEF Elsewhere
  <1>2. UndoOK'
    BY RestUndo DEF Elsewhere
  <1> QED  BY <1>1, <1>2

\* The start.
LEMMA StartingCopies ==
  ASSUME TypesOK, CopiesOK, WorkOK, ReadableOK, SortedOK, UndoOK, Starting \/ CopyFails \/ PutBack
  PROVE  CopiesOK' /\ WorkOK' /\ ReadableOK' /\ SortedOK' /\ UndoOK'
  <1>1. /\ UNCHANGED <<backups, last, undo, todo, then, made>> /\ mishap \subseteq mishap'
    <2>1. CASE Start \/ NothingToRestore \/ TruncateBase \/ CopyStaged \/ DropSidecars \/ DropStaged
      BY <2>1 DEF Start, NothingToRestore, TruncateBase, CopyStaged, DropSidecars, DropStaged,
                  copies, history
    <2>2. CASE ReconcileDecrypt \/ Reconcile \/ Convert \/ SetAside \/ PutInPlace \/ DropOriginal
      BY <2>2 DEF ReconcileDecrypt, Reconcile, Convert, SetAside, PutInPlace, DropOriginal,
                  copies, history
    <2>3. CASE ForgetSealed \/ ForgetWrapped \/ Unmark \/ Open \/ CopyFails \/ PutBack
      BY <2>3 DEF ForgetSealed, ForgetWrapped, Unmark, Open, CopyFails, PutBack, copies, history
    <2> QED  BY <2>1, <2>2, <2>3 DEF Starting
  <1>2. /\ pc' \in {"down", "up", "recovery", "restore", "copying", "copied", "restored",
                    "reconcile", "convert", "swap", "place", "clean", "forget", "forgetting",
                    "forgotten", "open"}
        /\ pc \in {"down", "restore", "copying", "copied", "restored", "reconcile", "convert",
                   "swap", "place", "clean", "forget", "forgetting", "forgotten", "open"}
        /\ pc' = "up" => pc = "open"
        /\ pc' \in {"copying", "copied", "restored"} => restore' = restore /\ restore
        /\ pc' \in {"reconcile", "convert", "swap", "place", "clean", "forget", "forgetting",
                    "forgotten", "open", "recovery"} => restore' = FALSE
        /\ restore' = restore \/ restore' = FALSE
    <2>1. CASE Start \/ NothingToRestore \/ TruncateBase \/ CopyStaged \/ DropSidecars \/ DropStaged
      BY <2>1 DEF Start, NothingToRestore, TruncateBase, CopyStaged, DropSidecars, DropStaged,
                  markers, UndoOK
    <2>2. CASE ReconcileDecrypt \/ Reconcile \/ Convert \/ SetAside \/ PutInPlace \/ DropOriginal
      BY <2>2 DEF ReconcileDecrypt, Reconcile, Convert, SetAside, PutInPlace, DropOriginal,
                  markers, UndoOK, TypesOK
    <2>3. CASE ForgetSealed \/ ForgetWrapped \/ Unmark \/ Open \/ CopyFails \/ PutBack
      BY <2>3 DEF ForgetSealed, ForgetWrapped, Unmark, Open, CopyFails, PutBack, markers, UndoOK,
                  TypesOK
    <2> QED  BY <2>1, <2>2, <2>3 DEF Starting
  <1>3. Elsewhere
    BY <1>1, <1>2 DEF Elsewhere, Working
  <1>4. Serving' => pc' = "up"
    BY <1>2 DEF Serving
  <1>5. Awaited' => Awaited
    BY <1>2 DEF Awaited
  <1>6. pc = "open" => ~restore
    BY DEF UndoOK
  <1>7. ~(Serving' /\ Awaited')
    BY <1>2, <1>4, <1>6 DEF Awaited
  <1> QED  BY <1>1, <1>2, <1>3, <1>5, <1>7, ElsewhereKeeps

\* Requests that do not touch the snapshots, stops and the machine.
LEMMA RequestCopies ==
  ASSUME TypesOK, CopiesOK, WorkOK, ReadableOK, SortedOK, UndoOK,
         \/ StageMark \/ CancelRestore \/ WrapKey \/ SealKey \/ MarkEncryption
         \/ DisableDatabaseEncryption \/ CancelDatabaseEncryption \/ RemoveWrap \/ RecoverKey
         \/ Write \/ Stop \/ Crash \/ LoseAccount
  PROVE  CopiesOK' /\ WorkOK' /\ ReadableOK' /\ SortedOK' /\ UndoOK'
  <1>1. /\ UNCHANGED <<backups, last, undo>> /\ mishap \subseteq mishap'
        /\ todo' \in {todo, <<>>} /\ then' \in {then, "nothing"}
    <2>1. CASE StageMark \/ CancelRestore \/ WrapKey \/ SealKey \/ MarkEncryption
      BY <2>1 DEF StageMark, CancelRestore, WrapKey, SealKey, MarkEncryption, copies, history
    <2>2. CASE DisableDatabaseEncryption \/ CancelDatabaseEncryption \/ RemoveWrap \/ RecoverKey
      BY <2>2 DEF DisableDatabaseEncryption, CancelDatabaseEncryption, RemoveWrap, RecoverKey,
                  copies, history
    <2>3. CASE Write \/ Stop \/ Crash \/ LoseAccount
      BY <2>3 DEF Write, Stop, Crash, LoseAccount, copies, history
    <2> QED  BY <2>1, <2>2, <2>3
  <1>2. made'.backups = made.backups
    <2>1. CASE WrapKey \/ Write \/ Crash
      BY <2>1 DEF WrapKey, Write, Crash, TypesOK
    <2>2. CASE StageMark \/ CancelRestore \/ SealKey \/ MarkEncryption
               \/ DisableDatabaseEncryption \/ CancelDatabaseEncryption \/ RemoveWrap
               \/ RecoverKey \/ Stop \/ LoseAccount
      BY <2>2 DEF StageMark, CancelRestore, SealKey, MarkEncryption, DisableDatabaseEncryption,
                  CancelDatabaseEncryption, RemoveWrap, RecoverKey, Stop, LoseAccount
    <2> QED  BY <2>1, <2>2
  <1>3. \/ /\ pc \in {"up", "staged", "wrapped", "sealed", "unwrap"}
           /\ pc' \in {"up", "wrapped", "sealed", "unwrap", "down"}
           /\ restore' => restore \/ pc = "staged"
        \/ pc' = "down" /\ restore' = restore
    <2>1. CASE StageMark \/ CancelRestore \/ WrapKey \/ SealKey \/ MarkEncryption
      BY <2>1 DEF StageMark, CancelRestore, WrapKey, SealKey, MarkEncryption, markers
    <2>2. CASE DisableDatabaseEncryption \/ CancelDatabaseEncryption \/ RemoveWrap \/ RecoverKey
      BY <2>2 DEF DisableDatabaseEncryption, CancelDatabaseEncryption, RemoveWrap, RecoverKey,
                  markers
    <2>3. CASE Write \/ Stop \/ Crash \/ LoseAccount
      BY <2>3 DEF Write, Stop, Crash, LoseAccount, markers
    <2> QED  BY <2>1, <2>2, <2>3
  <1>4. Elsewhere
    BY <1>1, <1>2, <1>3 DEF Elsewhere, Working
  <1>5. (Serving' => Serving /\ ~Working) /\ (Awaited' => Awaited)
    BY <1>3 DEF Serving, Working, Awaited
  <1>6. pc' \notin {"copying", "copied", "restored", "reconcile", "convert", "swap", "place",
                    "clean", "forget", "forgetting", "forgotten", "open", "recovery"}
    BY <1>3
  <1> QED  BY <1>1, <1>4, <1>5, <1>6, ElsewhereKeeps

\* A staged restoration goes on from the snapshot that was just completed.
LEMMA StagingCopies ==
  ASSUME TypesOK, CopiesOK, WorkOK, ReadableOK, SortedOK, UndoOK, StageCopy
  PROVE  CopiesOK' /\ WorkOK' /\ ReadableOK' /\ SortedOK' /\ UndoOK'
  <1>1. /\ UNCHANGED <<backups, last, todo, then, made, mishap, wal, live>>
        /\ pc = "stage" /\ restore' = FALSE
        /\ \/ pc' = "staged" /\ undo' = [id |-> made.backups, books |-> Content]
           \/ pc' = "up" /\ undo' = undo
    BY DEF StageCopy, copies
  <1>2. CopiesOK' /\ WorkOK' /\ ReadableOK' /\ SortedOK'
    <2>1. ~Working' /\ pc' # "stage"
      BY <1>1 DEF Working
    <2> QED  BY <1>1, <2>1, RestCopies
  <1>3. Staged
    BY <1>1 DEF WorkOK
  <1>4. CASE pc' = "up"
    <2>1. ~Awaited'
      BY <1>1, <1>4 DEF Awaited
    <2> QED  BY <1>1, <1>2, <1>4, <2>1 DEF UndoOK
  <1>5. CASE pc' = "staged"
    <2>1. undo' = [id |-> made.backups, books |-> Content] /\ made.backups \in Nat
      BY <1>1, <1>5, <1>3 DEF TypesOK
    <2>2. undo'.id = last /\ undo'.books = Content /\ undo'.id \in Nat /\ last' = last
      BY <1>1, <1>3, <2>1 DEF Staged
    <2>3. backups \in Seq(Copy) /\ Len(backups) \in Nat
      BY DEF CopiesOK, ListOK
    <2>4. 1 \in 1 .. Len(backups)
      BY <1>3, <2>3 DEF Staged
    <2>5. Saved'
      BY <1>1, <1>3, <2>2, <2>4 DEF Saved, Staged
    <2>6. OneFile'
      <3> SUFFICES ASSUME NEW m \in 1 .. Len(backups), NEW n \in 1 .. Len(backups),
                          m # n, backups[m].id = backups[n].id
                   PROVE  backups[m].id < undo'.id
        BY <1>1 DEF OneFile
      <3>1. backups[m].id # last
        BY <1>3 DEF Staged
      <3>2. backups[m] \in Copy /\ backups[m].id <= made.backups
        BY <2>3 DEF CopiesOK
      <3>3. backups[m].id <= last /\ backups[m].id \in Int /\ last \in Int
        BY <1>3, <2>1, <3>2 DEF Staged, Copy
      <3> QED  BY <3>1, <3>3, <2>2
    <2>7. undo'.id <= last'
      BY <2>2
    <2>8. UndoOK'
      BY <1>5, <2>2, <2>5, <2>6, <2>7 DEF UndoOK
    <2> QED  BY <1>2, <2>8
  <1> QED  BY <1>1, <1>2, <1>4, <1>5

\* The snapshots that a new file leaves as they are.
LEMMA AddedCopies ==
  ASSUME TypesOK, CopiesOK, WorkOK, ReadableOK, SortedOK, UndoOK,
         NEW b \in Copy, b.id = made.backups + 1, b.enc = FALSE, backups' = <<b>> \o backups,
         made' = [made EXCEPT !.backups = @ + 1], pc = "up", pc' \in {"up", "encrypt", "written"},
         UNCHANGED <<undo, restore, last, mishap>>
  PROVE  /\ CopiesOK' /\ ReadableOK' /\ SortedOK' /\ UndoOK'
         /\ backups' # <<>> /\ backups'[1] = b
         /\ \A n \in 1 .. Len(backups') : backups'[n].id = b.id => n = 1
         /\ last \in 0 .. made'.backups /\ last < made'.backups /\ made'.backups = b.id
  <1>1. made.backups \in Nat /\ made'.backups = made.backups + 1
    BY DEF TypesOK
  <1>2. backups \in Seq(Copy) /\ Len(backups) \in Nat /\ ListOK(backups)
    BY DEF CopiesOK, ListOK
  <1>3. \A n \in 1 .. Len(backups) :
          /\ backups[n] \in Copy /\ backups[n].id \in Nat /\ backups[n].id <= made.backups
          /\ backups[n].id # b.id
    <2> SUFFICES ASSUME NEW n \in 1 .. Len(backups)
                 PROVE  /\ backups[n] \in Copy /\ backups[n].id \in Nat
                        /\ backups[n].id <= made.backups /\ backups[n].id # b.id
      OBVIOUS
    <2>1. backups[n] \in Copy /\ backups[n].id <= made.backups
      BY <1>2 DEF CopiesOK
    <2>2. backups[n].id \in Nat
      BY <2>1 DEF Copy
    <2> QED  BY <2>1, <2>2, <1>1
  <1>4. PICK new : new = backups'
    OBVIOUS
  <1>5. /\ ListOK(new) /\ Len(new) = Len(backups) + 1
        /\ new[1] = b
        /\ \A n \in 1 .. Len(backups) : new[n + 1] = backups[n]
        /\ \A n \in 2 .. Len(new) : n - 1 \in 1 .. Len(backups) /\ new[n] = backups[n - 1]
    <2>1. Addable(b, backups)
      BY <1>2, <1>3 DEF Addable
    <2>2. Grown(new, b, backups)
      BY <1>4, <2>1, Added
    <2> QED  BY <2>2 DEF Grown
  <1>6. \A n \in 1 .. Len(new) :
           n # 1 => n - 1 \in 1 .. Len(backups) /\ new[n] = backups[n - 1]
    BY <1>2, <1>5
  <1>7. CopiesOK'
    <2>1. \A n \in 1 .. Len(new) : new[n].id <= made.backups + 1
      <3> SUFFICES ASSUME NEW n \in 1 .. Len(new) PROVE new[n].id <= made.backups + 1
        OBVIOUS
      <3>1. CASE n = 1
        BY <3>1, <1>1, <1>5
      <3>2. CASE n # 1
        <4>1. PICK m : m = n - 1
          OBVIOUS
        <4>2. m \in 1 .. Len(backups) /\ new[n] = backups[m]
          BY <3>2, <4>1, <1>6
        <4> QED  BY <4>2, <1>1, <1>3
      <3> QED  BY <3>1, <3>2
    <2> QED  BY <2>1, <1>1, <1>4, <1>5 DEF CopiesOK, ListOK
  <1>8. \A n \in 1 .. Len(new) : new[n].id = made.backups + 1 => n = 1
    <2> SUFFICES ASSUME NEW n \in 1 .. Len(new), n # 1 PROVE new[n].id # made.backups + 1
      OBVIOUS
    <2>1. PICK m : m = n - 1
      OBVIOUS
    <2>2. m \in 1 .. Len(backups) /\ new[n] = backups[m]
      BY <2>1, <1>6
    <2> QED  BY <2>2, <1>3
  <1>9. new # <<>> /\ 1 \in 1 .. Len(new)
    <2>1. 1 \in 1 .. Len(new)
      BY <1>2, <1>5
    <2> QED  BY <2>1
  <1>10. ReadableOK'
    <2> SUFFICES ASSUME last # 0, "encryption" \notin mishap
                 PROVE  \E n \in 1 .. Len(new) : new[n].id = last /\ new[n].whole
      BY <1>4 DEF ReadableOK
    <2>1. PICK n \in 1 .. Len(backups) : backups[n].id = last /\ backups[n].whole
      BY DEF ReadableOK
    <2>2. n + 1 \in 1 .. Len(new) /\ new[n + 1] = backups[n]
      BY <1>2, <1>5
    <2> QED  BY <2>1, <2>2
  <1>11. SortedOK'
    <2> SUFFICES ASSUME "reordered" \notin mishap, NEW m \in 1 .. Len(new), NEW n \in 1 .. Len(new),
                        m <= n
                 PROVE  new[n].id <= new[m].id
      BY <1>4 DEF SortedOK, Ordered
    <2>1. CASE m = 1
      <3>1. new[1].id = made.backups + 1
        BY <1>5
      <3>2. new[n].id <= made.backups + 1
        BY <1>1, <1>4, <1>7 DEF CopiesOK
      <3> QED  BY <2>1, <3>1, <3>2
    <2>2. CASE m # 1
      <3>1. PICK i, j : i = m - 1 /\ j = n - 1
        OBVIOUS
      <3>2. n # 1 /\ i <= j
        BY <2>2, <3>1, <1>2, <1>5
      <3>3. /\ i \in 1 .. Len(backups) /\ new[m] = backups[i]
            /\ j \in 1 .. Len(backups) /\ new[n] = backups[j]
        BY <2>2, <3>1, <3>2, <1>6
      <3> QED  BY <3>2, <3>3 DEF SortedOK, Ordered
    <2> QED  BY <2>1, <2>2
  <1>12. UndoOK'
    <2>1. Awaited' = Awaited /\ Clean' = Clean
      BY DEF Awaited, Clean
    <2>2. undo'.id \in Nat /\ undo'.id = undo.id
      BY DEF UndoOK
    <2>3. Saved => Saved'
      <3> SUFFICES ASSUME Saved
                   PROVE  \E n \in 1 .. Len(new) : /\ new[n].id = undo.id
                                                   /\ new[n].books = undo.books
                                                   /\ new[n].whole
        BY <1>4 DEF Saved
      <3>1. PICK n \in 1 .. Len(backups) : /\ backups[n].id = undo.id
                                           /\ backups[n].books = undo.books
                                           /\ backups[n].whole
        BY DEF Saved
      <3>2. n + 1 \in 1 .. Len(new) /\ new[n + 1] = backups[n]
        BY <1>2, <1>5
      <3> QED  BY <3>1, <3>2
    <2>4. Later \subseteq Later' /\ Later' \subseteq 1 .. MaxBackups
      <3>1. ASSUME NEW id \in Later PROVE id \in Later'
        <4>1. id \in 1 .. MaxBackups /\ undo.id < id
          BY <3>1 DEF Later
        <4>2. PICK n \in 1 .. Len(backups) : backups[n].id = id
          BY <3>1 DEF Later
        <4>3. n + 1 \in 1 .. Len(new) /\ new[n + 1] = backups[n]
          BY <1>2, <1>5
        <4>4. id # made'.backups
          BY <4>2, <1>1, <1>3
        <4> QED  BY <4>1, <4>2, <4>3, <4>4, <1>4 DEF Later
      <3> QED  BY <3>1 DEF Later
    <2>5. Cardinality(Later) >= Keep => Cardinality(Later)' >= Keep
      <3>1. PICK S, T : S = Later /\ T = Later'
        OBVIOUS
      <3>2. Cardinality(S) >= Keep => Cardinality(T) >= Keep
        BY <2>4, <3>1, LaterGrows
      <3> QED  BY <3>1, <3>2
    <2>6. OneFile /\ Serving => OneFile'
      <3> SUFFICES ASSUME OneFile, NEW m \in 1 .. Len(new), NEW n \in 1 .. Len(new),
                          m # n, new[m].id = new[n].id
                   PROVE  new[m].id < undo.id
        BY <1>4 DEF OneFile
      <3>1. m # 1 /\ n # 1
        BY <1>5, <1>8
      <3>2. PICK i, j : i = m - 1 /\ j = n - 1
        OBVIOUS
      <3>3. /\ i \in 1 .. Len(backups) /\ new[m] = backups[i]
            /\ j \in 1 .. Len(backups) /\ new[n] = backups[j] /\ i # j
        BY <3>1, <3>2, <1>2, <1>5, <1>6
      <3> QED  BY <3>3 DEF OneFile
    <2>7. Serving /\ pc' \in {"up", "encrypt", "written"} /\ last' = last
      BY DEF Serving
    <2> QED  BY <2>1, <2>2, <2>3, <2>5, <2>6, <2>7 DEF UndoOK
  <1>13. last \in 0 .. made'.backups /\ last < made'.backups
    BY <1>1 DEF WorkOK
  <1> QED  BY <1>1, <1>4, <1>5, <1>7, <1>8, <1>9, <1>10, <1>11, <1>12, <1>13

\* A snapshot that is being taken.
LEMMA TakingCopies ==
  ASSUME TypesOK, CopiesOK, WorkOK, ReadableOK, SortedOK, UndoOK, CreateBackup \/ AskRestore
  PROVE  CopiesOK' /\ WorkOK' /\ ReadableOK' /\ SortedOK' /\ UndoOK'
  <1>1. PICK next \in {"prune", "stage"}, phrase \in BOOLEAN : Snapshot(next, phrase)
    BY DEF CreateBackup, AskRestore
  <1>2. pc = "up" /\ UNCHANGED <<undo, restore, last, mishap, live, wal>>
    BY <1>1 DEF CreateBackup, AskRestore, Snapshot, files, markers
  <1>3. PICK b : b = [id |-> made.backups + 1, enc |-> FALSE, whole |-> TRUE, books |-> Content]
    OBVIOUS
  <1>4. /\ made.backups < MaxBackups
        /\ made' = [made EXCEPT !.backups = @ + 1]
        /\ backups' = <<b>> \o backups
        /\ todo' = <<made.backups + 1>>
        /\ then' = next
        /\ pc' \in {"encrypt", "written"}
    BY <1>1, <1>3 DEF Snapshot
  <1>5. made.backups \in Nat
    BY DEF TypesOK
  <1>6. /\ b \in Copy /\ b.id = made.backups + 1 /\ b.enc = FALSE /\ b.whole = TRUE
        /\ b.books = Content
    <2>1. Content \in Torn .. MaxBooks /\ Content # Torn
      BY <1>2, ContentType DEF TypesOK, Serving
    <2>2. Content \in 0 .. MaxBooks
      BY <2>1, DbFilesAssumption DEF Torn
    <2>3. made.backups + 1 \in 1 .. MaxBackups
      BY <1>4, <1>5, DbFilesAssumption
    <2> QED  BY <1>3, <2>2, <2>3 DEF Copy
  <1>7. /\ CopiesOK' /\ ReadableOK' /\ SortedOK' /\ UndoOK'
        /\ backups' # <<>> /\ backups'[1] = b
        /\ \A n \in 1 .. Len(backups') : backups'[n].id = b.id => n = 1
        /\ last \in 0 .. made'.backups /\ last < made'.backups /\ made'.backups = b.id
    BY <1>2, <1>4, <1>6, AddedCopies
  <1>8. WorkOK'
    <2>1. /\ todo' \in Seq(1 .. MaxBackups) /\ todo' # <<>> /\ todo'[1] = made.backups + 1
      BY <1>4, <1>5, DbFilesAssumption
    <2>2. last' = last /\ Content' = Content
      BY <1>2 DEF Content
    <2>3. Taking'
      BY <1>6, <1>7, <2>1, <2>2 DEF Taking
    <2>4. then' \in {"prune", "stage"}
      BY <1>4
    <2>5. pc' \notin {"filling", "verify", "stage"}
      BY <1>4
    <2> QED  BY <1>6, <1>7, <2>1, <2>2, <2>3, <2>4, <2>5 DEF WorkOK
  <1> QED  BY <1>7, <1>8

\* A snapshot that is not taken to its end leaves a file.
LEMMA TornCopies ==
  ASSUME TypesOK, CopiesOK, WorkOK, ReadableOK, SortedOK, UndoOK, SnapshotTorn
  PROVE  CopiesOK' /\ WorkOK' /\ ReadableOK' /\ SortedOK' /\ UndoOK'
  <1>1. /\ pc = "up" /\ pc' = "up" /\ made.backups < MaxBackups
        /\ made' = [made EXCEPT !.backups = @ + 1]
        /\ UNCHANGED <<undo, restore, last, mishap, todo, then>>
    BY DEF SnapshotTorn, markers, history
  <1>2. PICK whole \in BOOLEAN :
          backups' = <<[id |-> made.backups + 1, enc |-> FALSE, whole |-> whole, books |-> 0]>>
                       \o backups
    BY DEF SnapshotTorn
  <1>3. PICK b : b = [id |-> made.backups + 1, enc |-> FALSE, whole |-> whole, books |-> 0]
    OBVIOUS
  <1>4. b \in Copy /\ b.id = made.backups + 1 /\ b.enc = FALSE
    <2>1. made.backups + 1 \in 1 .. MaxBackups /\ 0 \in 0 .. MaxBooks
      BY <1>1, DbFilesAssumption DEF TypesOK
    <2> QED  BY <1>3, <2>1 DEF Copy
  <1>5. backups' = <<b>> \o backups
    BY <1>2, <1>3
  <1>6. /\ CopiesOK' /\ ReadableOK' /\ SortedOK' /\ UndoOK'
        /\ last \in 0 .. made'.backups
    BY <1>1, <1>4, <1>5, AddedCopies
  <1>7. WorkOK'
    BY <1>1, <1>6 DEF WorkOK, Working
  <1> QED  BY <1>6, <1>7

-----------------------------------------------------------------------------
(* The end of a snapshot, and pruning *)

\* From a snapshot on, each has one file.
Solo(list, id) ==
  \A m, n \in 1 .. Len(list) : m # n /\ list[m].id = list[n].id => list[m].id < id

\* A list has these books, whole, as this snapshot.
SavedIn(list, id, books) ==
  \E n \in 1 .. Len(list) : list[n].id = id /\ list[n].books = books /\ list[n].whole

\* The snapshots of a list that are later than this one.
LaterIn(list, id) ==
  {x \in 1 .. MaxBackups : id < x /\ \E n \in 1 .. Len(list) : list[n].id = x}

\* Pruning takes a snapshot only when as many later ones as are kept stay.
LEMMA PruningKeeps ==
  ASSUME NEW list, ListOK(list), NEW id \in Nat, NEW books, Ordered(list), Solo(list, id),
         SavedIn(list, id, books) \/ Cardinality(LaterIn(list, id)) >= Keep,
         NEW new, new = Prune(list)
  PROVE  SavedIn(new, id, books) \/ Cardinality(LaterIn(new, id)) >= Keep
  <1>1. /\ ListOK(new)
        /\ Len(new) = IF Len(list) < Keep THEN Len(list) ELSE Keep
        /\ Len(new) <= Len(list)
        /\ \A n \in 1 .. Len(new) : new[n] = list[n]
    BY Pruned
  <1>2. /\ Keep \in Nat \ {0} /\ Len(list) \in Nat /\ Len(new) \in Nat
        /\ \A n \in 1 .. Len(list) : list[n].id \in 1 .. MaxBackups
    <2>1. list \in Seq(Copy) /\ new \in Seq(Copy)
      BY <1>1 DEF ListOK
    <2>2. \A n \in 1 .. Len(list) : list[n] \in Copy
      BY <2>1
    <2> QED  BY <2>1, <2>2, DbFilesAssumption DEF Copy
  <1>3. \A n \in 1 .. Len(new) : n \in 1 .. Len(list) /\ new[n] = list[n]
    BY <1>1, <1>2
  <1>4. LaterIn(list, id) \subseteq 1 .. MaxBackups /\ LaterIn(new, id) \subseteq 1 .. MaxBackups
    BY DEF LaterIn
  <1>5. CASE Len(list) <= Keep
    <2>1. Len(new) = Len(list)
      BY <1>1, <1>2, <1>5
    <2>2. SavedIn(list, id, books) => SavedIn(new, id, books)
      BY <1>3, <2>1 DEF SavedIn
    <2>3. LaterIn(list, id) \subseteq LaterIn(new, id)
      BY <1>3, <2>1 DEF LaterIn
    <2> QED  BY <1>4, <2>2, <2>3, LaterGrows
  <1>6. CASE Len(list) > Keep /\ \A n \in 1 .. Len(new) : new[n].id > id
    <2>1. Len(new) = Keep
      BY <1>1, <1>2, <1>6
    <2>2. PICK f : f = [n \in 1 .. Keep |-> new[n].id]
      OBVIOUS
    <2>3. \A n \in 1 .. Keep : f[n] = new[n].id /\ f[n] \in LaterIn(new, id)
      BY <1>2, <1>3, <1>6, <2>1, <2>2 DEF LaterIn
    <2>4. ASSUME NEW m \in 1 .. Keep, NEW n \in 1 .. Keep, f[m] = f[n]
          PROVE  m = n
      <3>1. list[m].id = list[n].id /\ list[m].id > id /\ list[m].id \in Int
        BY <2>4, <2>1, <2>3, <1>2, <1>3, <1>6
      <3>2. ~(list[m].id < id)
        BY <3>1
      <3> QED  BY <3>1, <3>2, <2>1, <1>3 DEF Solo
    <2>5. f \in Injection(1 .. Keep, LaterIn(new, id))
      <3>1. f \in [1 .. Keep -> LaterIn(new, id)]
        BY <2>2, <2>3
      <3> QED  BY <2>4, <3>1 DEF Injection, IsInjective
    <2>6. IsFiniteSet(1 .. MaxBackups)
      BY DbFilesAssumption, FS_Interval
    <2>7. IsFiniteSet(LaterIn(new, id))
      BY <1>4, <2>6, FS_Subset
    <2>8. Cardinality(1 .. Keep) <= Cardinality(LaterIn(new, id))
      BY <2>5, <2>7, FS_Injection
    <2>9. Cardinality(1 .. Keep) = Keep
      <3>1. Cardinality(1 .. Keep) = IF 1 > Keep THEN 0 ELSE Keep - 1 + 1
        BY <1>2, FS_Interval
      <3> QED  BY <3>1, <1>2
    <2>10. Cardinality(LaterIn(new, id)) \in Nat
      BY <2>7, FS_CardinalityType
    <2> QED  BY <1>2, <2>8, <2>9, <2>10
  <1>7. CASE \E n \in 1 .. Len(new) : ~(new[n].id > id)
    <2>1. PICK n \in 1 .. Len(new) : ~(new[n].id > id)
      BY <1>7
    <2>2. n \in 1 .. Len(list) /\ list[n].id <= id
      BY <1>2, <1>3, <2>1
    <2>3. \A m \in 1 .. Len(list) : n <= m => list[m].id <= id
      <3> SUFFICES ASSUME NEW m \in 1 .. Len(list), n <= m PROVE list[m].id <= id
        OBVIOUS
      <3>1. list[m].id <= list[n].id
        BY <2>2 DEF Ordered
      <3> QED  BY <1>2, <2>2, <3>1
    <2>4. LaterIn(list, id) \subseteq LaterIn(new, id)
      <3> SUFFICES ASSUME NEW x \in LaterIn(list, id) PROVE x \in LaterIn(new, id)
        OBVIOUS
      <3>1. x \in 1 .. MaxBackups /\ id < x
        BY DEF LaterIn
      <3>2. PICK m \in 1 .. Len(list) : list[m].id = x
        BY DEF LaterIn
      <3>3. ~(list[m].id <= id)
        BY <3>1, <3>2
      <3>4. ~(n <= m)
        BY <2>3, <3>3
      <3>5. m \in 1 .. Len(new)
        BY <1>2, <2>1, <3>4
      <3> QED  BY <1>3, <3>1, <3>2, <3>5 DEF LaterIn
    <2>5. SavedIn(list, id, books) => SavedIn(new, id, books)
      <3> SUFFICES ASSUME SavedIn(list, id, books) PROVE SavedIn(new, id, books)
        OBVIOUS
      <3>1. PICK m \in 1 .. Len(list) : list[m].id = id /\ list[m].books = books /\ list[m].whole
        BY DEF SavedIn
      <3>2. CASE m \in 1 .. Len(new)
        BY <1>3, <3>1, <3>2 DEF SavedIn
      <3>3. CASE m \notin 1 .. Len(new)
        <4>1. n <= m /\ n # m
          BY <1>2, <2>1, <3>3
        <4>2. list[m].id <= list[n].id
          BY <2>2, <4>1 DEF Ordered
        <4>3. list[n].id = list[m].id /\ ~(list[n].id < id)
          BY <1>2, <2>2, <3>1, <4>2
        <4> QED  BY <2>2, <4>1, <4>3 DEF Solo
      <3> QED  BY <3>2, <3>3
    <2> QED  BY <1>4, <2>4, <2>5, LaterGrows
  <1> QED  BY <1>2, <1>5, <1>6, <1>7

\* The files when a snapshot, or one encryption among several, is done: its
\* own file comes first and can be read, the other snapshots keep theirs.
Finished(list, id) ==
  /\ ListOK(list) /\ Within(list, backups)
  /\ 1 \in 1 .. Len(list) /\ list[1] = backups[1]
  /\ list[1].id = id /\ list[1].whole
  /\ \A n \in 1 .. Len(list) : list[n].id = id => n = 1
  /\ \A m \in 1 .. Len(backups) :
       backups[m].id # id => \E n \in 1 .. Len(list) : list[n] = backups[m]

LEMMA FinishedClear ==
  ASSUME CopiesOK, WorkOK, pc = "written" PROVE then # "next" /\ Finished(backups, todo[1])
  <1>1. Working /\ then # "next" /\ Taking
    BY DEF WorkOK, Working, Encrypting
  <1>2. ListOK(backups) /\ backups \in Seq(Copy) /\ Len(backups) \in Nat
    BY DEF CopiesOK, ListOK
  <1>3. 1 \in 1 .. Len(backups)
    BY <1>1, <1>2 DEF Taking
  <1>4. backups[1].whole
    BY DEF WorkOK
  <1>5. Within(backups, backups)
    BY <1>2, WithinItself
  <1> QED  BY <1>1, <1>2, <1>3, <1>4, <1>5 DEF Finished, Taking

LEMMA FinishedCipher ==
  ASSUME CopiesOK, WorkOK, pc = "verify", \A b \in Backup(todo[1]) : b.enc => Whole(b),
         NEW clear, clear = FALSE, NEW list, list = Removed(backups, todo[1], clear)
  PROVE  Finished(list, todo[1])
  <1>1. backups # <<>> /\ backups[1].id = todo[1] /\ backups[1].enc
    BY DEF WorkOK
  <1>2. ListOK(backups) /\ backups \in Seq(Copy) /\ Len(backups) \in Nat
    BY DEF CopiesOK, ListOK
  <1>3. 1 \in 1 .. Len(backups) /\ backups[1] \in Copy /\ backups[1].whole
    <2>1. 1 \in 1 .. Len(backups) /\ backups[1] \in Copy
      BY <1>1, <1>2
    <2>2. backups[1] \in Backup(todo[1])
      BY <1>1, <1>2, <2>1 DEF Backup, Range
    <2> QED  BY <1>1, <2>1, <2>2 DEF Whole
  <1>4. PICK old, id : old = backups /\ id = todo[1]
    OBVIOUS
  <1>5. /\ ListOK(list) /\ Within(list, old)
        /\ \A n \in 1 .. Len(list) : ~(list[n].id = id /\ list[n].enc = clear)
        /\ \A m \in 1 .. Len(old) :
             ~(old[m].id = id /\ old[m].enc = clear) => \E n \in 1 .. Len(list) : list[n] = old[m]
        /\ old # <<>> /\ ~(old[1].id = id /\ old[1].enc = clear) =>
             list # <<>> /\ list[1] = old[1]
    <2>1. ListOK(old) /\ list = Removed(old, id, clear)
      BY <1>2, <1>4
    <2>2. Without(list, old, id, clear)
      BY <2>1, RemovedWithin
    <2> QED  BY <2>2 DEF Without
  <1>6. list # <<>> /\ list[1] = backups[1]
    <2>1. old[1].enc # clear
      BY <1>1, <1>3, <1>4 DEF Copy
    <2> QED  BY <1>1, <1>4, <1>5, <2>1
  <1>7. list \in Seq(Copy) /\ Len(list) \in Nat
    BY <1>5 DEF ListOK
  <1>8. 1 \in 1 .. Len(list)
    BY <1>6, <1>7
  <1>9. ASSUME NEW n \in 1 .. Len(list), list[n].id = id PROVE n = 1
    <2>1. list[n] \in Copy /\ list[1] \in Copy
      BY <1>7, <1>8
    <2>2. list[n].enc = TRUE
      <3>1. list[n].enc # clear /\ list[n].enc \in BOOLEAN
        BY <1>5, <1>9, <2>1 DEF Copy
      <3> QED  BY <3>1, <1>4
    <2>3. list[1].enc = TRUE /\ list[1].id = id
      <3>1. list[1].enc /\ list[1].enc \in BOOLEAN
        BY <1>1, <1>6, <2>1 DEF Copy
      <3> QED  BY <3>1, <1>1, <1>4, <1>6
    <2>4. ListOK(list)
      BY <1>5
    <2>5. list[n].id = list[1].id /\ list[n].enc = list[1].enc
      BY <1>9, <2>2, <2>3
    <2> QED  BY <1>8, <2>4, <2>5 DEF ListOK
  <1>10. Within(list, backups)
    BY <1>4, <1>5
  <1>11. \A m \in 1 .. Len(backups) :
           backups[m].id # id => \E n \in 1 .. Len(list) : list[n] = backups[m]
    BY <1>4, <1>5
  <1> QED  BY <1>1, <1>3, <1>4, <1>5, <1>6, <1>8, <1>9, <1>10, <1>11 DEF Finished

\* The end of a snapshot keeps the invariant.
LEMMA AfterCopies ==
  ASSUME TypesOK, CopiesOK, WorkOK, ReadableOK, SortedOK, UndoOK, pc \in {"written", "verify"},
         NEW list, Finished(list, todo[1]), After(list), pc = "written" => then # "next",
         UNCHANGED <<files, keyring, markers, made, current, undo, mishap>>
  PROVE  CopiesOK' /\ WorkOK' /\ ReadableOK' /\ SortedOK' /\ UndoOK'
  <1>1. /\ todo' = Tail(todo)
        /\ backups' = IF then = "prune" THEN Prune(list) ELSE list
        /\ pc' = CASE then = "stage" -> "stage"
                   [] then = "next" /\ Len(todo) > 1 -> "encrypt"
                   [] OTHER -> "up"
        /\ last' = IF then = "next" THEN last ELSE todo[1]
        /\ then' = IF then = "next" /\ Len(todo) > 1 THEN then ELSE "nothing"
    BY DEF After
  <1>2. PICK id, old, new : id = todo[1] /\ old = backups /\ new = backups'
    OBVIOUS
  <1>3. /\ ListOK(list) /\ Within(list, old)
        /\ 1 \in 1 .. Len(list) /\ list[1] = old[1]
        /\ list[1].id = id /\ list[1].whole
        /\ \A n \in 1 .. Len(list) : list[n].id = id => n = 1
        /\ \A m \in 1 .. Len(old) :
             old[m].id # id => \E n \in 1 .. Len(list) : list[n] = old[m]
    BY <1>2 DEF Finished
  <1>4. ListOK(old) /\ old \in Seq(Copy) /\ Len(old) \in Nat /\ Len(list) \in Nat
    BY <1>2, <1>3 DEF CopiesOK, ListOK
  <1>5. /\ ListOK(new) /\ Within(new, old) /\ Len(new) \in Nat
        /\ 1 \in 1 .. Len(new) /\ Len(new) <= Len(list)
        /\ \A n \in 1 .. Len(new) : new[n] = list[n]
    <2>1. CASE then = "prune"
      <3>1. new = Prune(list)
        BY <2>1, <1>1, <1>2
      <3>2. /\ ListOK(new) /\ Len(new) = (IF Len(list) < Keep THEN Len(list) ELSE Keep)
            /\ Len(new) <= Len(list)
            /\ \A n \in 1 .. Len(new) : new[n] = list[n]
        BY <3>1, <1>3, Pruned
      <3>3. Within(new, list)
        BY <3>1, <1>3, PrunedWithin
      <3>4. Within(new, old)
        BY <3>3, <1>3, WithinTwice
      <3>5. Len(new) \in Nat
        BY <3>2 DEF ListOK
      <3>6. 1 \in 1 .. Len(new)
        BY <3>2, <1>3, <1>4, DbFilesAssumption
      <3> QED  BY <3>2, <3>4, <3>5, <3>6
    <2>2. CASE then # "prune"
      BY <2>2, <1>1, <1>2, <1>3, <1>4
    <2> QED  BY <2>1, <2>2
  <1>6. /\ \A n \in 1 .. Len(new) : \E m \in 1 .. Len(old) : new[n] = old[m]
        /\ Ordered(old) => Ordered(new)
    BY <1>4, <1>5, WithinKeeps
  <1>7. UNCHANGED <<made, undo, mishap, restore>> /\ Content' = Content
    BY DEF files, markers, Content
  <1>8. CopiesOK'
    <2>1. \A n \in 1 .. Len(new) : new[n].id <= made.backups
      BY <1>2, <1>6 DEF CopiesOK
    <2> QED  BY <1>2, <1>5, <1>7, <2>1 DEF CopiesOK, ListOK
  <1>9. SortedOK'
    BY <1>2, <1>6, <1>7 DEF SortedOK, Ordered
  <1>10. /\ Working /\ todo \in Seq(1 .. MaxBackups) /\ todo # <<>>
         /\ then \in {"prune", "stage", "next"}
         /\ then = "next" => Encrypting
         /\ then # "next" => Taking
         /\ last \in 0 .. made.backups
    BY DEF WorkOK, Working
  <1>11. /\ Tail(todo) \in Seq(1 .. MaxBackups) /\ Len(Tail(todo)) = Len(todo) - 1
         /\ \A i \in 1 .. Len(Tail(todo)) : Tail(todo)[i] = todo[i + 1]
         /\ Len(todo) \in Nat
    BY <1>10, HeadTailProperties
  <1>12. made.backups \in Nat
    BY DEF TypesOK
  <1>13. CASE then = "next"
    <2>1. new = list /\ last' = last
      BY <1>13, <1>1, <1>2
    <2>2. Encrypting
      BY <1>13, <1>10
    <2>3. WorkOK'
      <3>1. CASE Len(todo) > 1
        <4>1. pc' = "encrypt" /\ then' = "next" /\ todo' = Tail(todo)
          BY <1>13, <3>1, <1>1
        <4>2. todo' \in Seq(1 .. MaxBackups) /\ todo' # <<>>
          <5>1. todo' \in Seq(1 .. MaxBackups) /\ Len(todo') = Len(todo) - 1
            BY <4>1, <1>11
          <5>2. Len(todo') # 0
            BY <3>1, <5>1, <1>11
          <5> QED  BY <5>1, <5>2
        <4>3. \A i \in 1 .. Len(todo') :
                i + 1 \in 1 .. Len(todo) /\ 1 \in 1 .. Len(todo) /\ todo'[i] = todo[i + 1] /\ i + 1 # 1
          <5>1. PICK rest : rest = Tail(todo)
            OBVIOUS
          <5>2. \A i \in 1 .. Len(rest) :
                  i + 1 \in 1 .. Len(todo) /\ 1 \in 1 .. Len(todo) /\ i + 1 # 1
            BY <5>1, <1>11
          <5> QED  BY <5>1, <5>2, <4>1, <1>11
        <4>4. ASSUME NEW i \in 1 .. Len(todo')
              PROVE  \E n \in 1 .. Len(new) : new[n].id = todo'[i] /\ ~new[n].enc
          <5>1. PICK j : j = i + 1
            OBVIOUS
          <5>2. j \in 1 .. Len(todo) /\ 1 \in 1 .. Len(todo) /\ todo'[i] = todo[j] /\ j # 1
            BY <4>3, <5>1
          <5>3. PICK m \in 1 .. Len(old) : old[m].id = todo[j] /\ ~old[m].enc
            BY <2>2, <5>2, <1>2 DEF Encrypting
          <5>4. todo[j] # id
            BY <2>2, <5>2, <1>2 DEF Encrypting
          <5>5. PICK n \in 1 .. Len(list) : list[n] = old[m]
            BY <5>3, <5>4, <1>3
          <5> QED  BY <2>1, <5>2, <5>3, <5>5
        <4>5. ASSUME NEW i \in 1 .. Len(todo'), NEW j \in 1 .. Len(todo'), todo'[i] = todo'[j]
              PROVE  i = j
          <5>1. PICK k, l : k = i + 1 /\ l = j + 1
            OBVIOUS
          <5>2. k \in 1 .. Len(todo) /\ l \in 1 .. Len(todo) /\ todo[k] = todo[l]
            BY <4>3, <4>5, <5>1
          <5>3. k = l
            BY <2>2, <5>2 DEF Encrypting
          <5>4. Len(todo') \in Nat
            BY <4>2
          <5> QED  BY <5>1, <5>3, <5>4
        <4>6. Encrypting'
          BY <2>2, <4>1, <4>4, <4>5, <1>2, <1>7 DEF Encrypting
        <4> QED  BY <4>1, <4>2, <4>6, <2>1, <1>7, <1>10 DEF WorkOK
      <3>2. CASE ~(Len(todo) > 1)
        <4>1. pc' = "up" /\ then' = "nothing" /\ todo' \in Seq(1 .. MaxBackups)
          BY <1>13, <3>2, <1>1, <1>11
        <4> QED  BY <4>1, <2>1, <1>7, <1>10 DEF WorkOK, Working
      <3> QED  BY <3>1, <3>2
    <2>4. ReadableOK'
      <3> SUFFICES ASSUME last # 0, "encryption" \notin mishap
                   PROVE  \E n \in 1 .. Len(new) : new[n].id = last /\ new[n].whole
        BY <1>2, <1>7, <2>1 DEF ReadableOK
      <3>1. PICK m \in 1 .. Len(old) : old[m].id = last /\ old[m].whole
        BY <1>2 DEF ReadableOK
      <3>2. CASE last = id
        BY <3>2, <2>1, <1>3
      <3>3. CASE last # id
        <4>1. PICK n \in 1 .. Len(list) : list[n] = old[m]
          BY <3>1, <3>3, <1>3
        <4> QED  BY <3>1, <4>1, <2>1
      <3> QED  BY <3>2, <3>3
    <2>5. UndoOK'
      <3>1. ~Clean'
        BY <2>2, <1>7 DEF Encrypting, Clean
      <3>2. pc' \in {"encrypt", "up"}
        BY <1>1, <1>13
      <3> QED  BY <3>1, <3>2, <1>7 DEF UndoOK
    <2> QED  BY <2>3, <2>4, <2>5, <1>8, <1>9
  <1>14. CASE then # "next"
    <2>1. /\ pc' = (IF then = "stage" THEN "stage" ELSE "up")
          /\ then' = "nothing" /\ last' = id
      BY <1>14, <1>1, <1>2, <1>10
    <2>2. Taking /\ id = made.backups
      BY <1>14, <1>2, <1>10 DEF Taking
    <2>3. new[1] = list[1] /\ new[1] = old[1]
      BY <1>3, <1>5
    <2>4. WorkOK'
      <3>1. todo' \in Seq(1 .. MaxBackups)
        BY <1>1, <1>11
      <3>2. last' \in 0 .. made'.backups
        BY <2>1, <2>2, <1>7, <1>12
      <3>3. ~Working' /\ pc' \notin {"filling", "verify"}
        BY <2>1 DEF Working
      <3>4. pc' = "stage" => Staged'
        <4> SUFFICES ASSUME pc' = "stage" PROVE Staged'
          OBVIOUS
        <4>1. then = "stage" /\ new = list
          BY <2>1, <1>1, <1>2
        <4>2. new # <<>>
          <5>1. Len(<<>>) = 0
            OBVIOUS
          <5> QED  BY <5>1, <1>5
        <4>3. new[1].id = id /\ new[1].whole /\ new[1].books = Content
          BY <4>1, <2>2, <2>3, <1>2, <1>3 DEF Taking
        <4>4. \A n \in 1 .. Len(new) : new[n].id = id => n = 1
          BY <4>1, <1>3
        <4> QED  BY <4>2, <4>3, <4>4, <2>1, <2>2, <1>2, <1>7 DEF Staged
      <3> QED  BY <3>1, <3>2, <3>3, <3>4, <2>1 DEF WorkOK
    <2>5. ReadableOK'
      BY <2>1, <2>3, <1>2, <1>3, <1>5 DEF ReadableOK
    <2>6. UndoOK'
      <3>1. Awaited' => Awaited
        BY <2>1, <1>7 DEF Awaited
      <3>2. Clean' = Clean
        BY <1>7 DEF Clean
      <3> SUFFICES ASSUME Clean, Awaited
                   PROVE  /\ undo.id <= last'
                          /\ Saved' \/ Cardinality(Later)' >= Keep
                          /\ OneFile'
        BY <2>1, <3>1, <3>2, <1>7 DEF UndoOK
      <3>3. /\ undo.id \in Nat /\ undo.id <= last
            /\ Saved \/ Cardinality(Later) >= Keep
            /\ OneFile
        <4>1. Serving
          BY DEF Serving
        <4> QED  BY <4>1 DEF UndoOK
      <3>4. last < id /\ undo.id < id
        BY <2>2, <3>3, <1>10, <1>12 DEF Taking
      <3>5. Solo(list, undo.id)
        <4> SUFFICES ASSUME NEW m \in 1 .. Len(list), NEW n \in 1 .. Len(list),
                            m # n, list[m].id = list[n].id
                     PROVE  list[m].id < undo.id
          BY DEF Solo
        <4>1. PICK i, j \in 1 .. Len(old) : i # j /\ list[m] = old[i] /\ list[n] = old[j]
          BY <1>3, <1>4, WithinKeeps
        <4>2. old[i].id < undo.id \/ old[i].id = made.backups
          BY <4>1, <3>3, <1>2 DEF OneFile
        <4>3. list[m].id # id
          BY <1>3
        <4> QED  BY <4>1, <4>2, <4>3, <2>2
      <3>6. Ordered(list)
        <4>1. Ordered(old)
          BY <1>2 DEF SortedOK, Clean, Ordered
        <4> QED  BY <4>1, <1>3, <1>4, WithinKeeps
      <3>7. Saved => SavedIn(list, undo.id, undo.books)
        <4> SUFFICES ASSUME Saved PROVE SavedIn(list, undo.id, undo.books)
          OBVIOUS
        <4>1. PICK m \in 1 .. Len(old) : /\ old[m].id = undo.id /\ old[m].books = undo.books
                                         /\ old[m].whole
          BY <1>2 DEF Saved
        <4>2. old[m].id # id
          BY <4>1, <3>3, <3>4
        <4>3. PICK n \in 1 .. Len(list) : list[n] = old[m]
          BY <4>2, <1>3
        <4> QED  BY <4>1, <4>3 DEF SavedIn
      <3>8. Later \subseteq LaterIn(list, undo.id) /\ LaterIn(list, undo.id) \subseteq 1 .. MaxBackups
        <4>1. ASSUME NEW x \in Later PROVE x \in LaterIn(list, undo.id)
          <5>1. x \in 1 .. MaxBackups /\ undo.id < x /\ x # id
            BY <2>2, <1>10 DEF Later
          <5>2. PICK m \in 1 .. Len(old) : old[m].id = x
            BY <1>2 DEF Later
          <5>3. PICK n \in 1 .. Len(list) : list[n] = old[m]
            BY <5>1, <5>2, <1>3
          <5> QED  BY <5>1, <5>2, <5>3 DEF LaterIn
        <4> QED  BY <4>1 DEF LaterIn
      <3>9. PICK u, books : u = undo.id /\ books = undo.books
        OBVIOUS
      <3>10. SavedIn(list, u, books) \/ Cardinality(LaterIn(list, u)) >= Keep
        <4>1. PICK S : S = Later
          OBVIOUS
        <4>2. S \subseteq LaterIn(list, u) /\ LaterIn(list, u) \subseteq 1 .. MaxBackups
          BY <3>8, <3>9, <4>1
        <4>3. Cardinality(S) >= Keep => Cardinality(LaterIn(list, u)) >= Keep
          BY <4>2, LaterGrows
        <4> QED  BY <4>1, <4>3, <3>3, <3>7, <3>9
      <3>11. SavedIn(new, u, books) \/ Cardinality(LaterIn(new, u)) >= Keep
        <4>1. CASE then = "prune"
          <5>1. new = Prune(list)
            BY <4>1, <1>1, <1>2
          <5> QED  BY <5>1, <3>3, <3>5, <3>6, <3>9, <3>10, <1>3, PruningKeeps
        <4>2. CASE then # "prune"
          <5>1. new = list
            BY <4>2, <1>1, <1>2
          <5> QED  BY <5>1, <3>10
        <4> QED  BY <4>1, <4>2
      <3>12. SavedIn(new, u, books) => Saved'
        BY <3>9, <1>2, <1>7 DEF SavedIn, Saved
      <3>13. LaterIn(new, u) = Later'
        <4>1. ~Working'
          BY <2>1 DEF Working
        <4> QED  BY <4>1, <3>9, <1>2, <1>7 DEF LaterIn, Later
      <3>14. OneFile'
        <4> SUFFICES ASSUME NEW m \in 1 .. Len(new), NEW n \in 1 .. Len(new),
                            m # n, new[m].id = new[n].id
                     PROVE  new[m].id < undo.id
          BY <1>2, <1>7 DEF OneFile
        <4>1. m \in 1 .. Len(list) /\ n \in 1 .. Len(list) /\ new[m] = list[m] /\ new[n] = list[n]
          BY <1>4, <1>5
        <4> QED  BY <4>1, <3>5 DEF Solo
      <3>15. undo.id <= last'
        <4>1. id \in Int
          BY <2>2, <1>12
        <4> QED  BY <4>1, <2>1, <3>3, <3>4
      <3> QED  BY <3>11, <3>12, <3>13, <3>14, <3>15
    <2> QED  BY <2>4, <2>5, <2>6, <1>8, <1>9
  <1> QED  BY <1>13, <1>14

LEMMA DoneCopies ==
  ASSUME TypesOK, CopiesOK, WorkOK, ReadableOK, SortedOK, UndoOK, KeepClear \/ EncryptDone
  PROVE  CopiesOK' /\ WorkOK' /\ ReadableOK' /\ SortedOK' /\ UndoOK'
  <1>1. CASE KeepClear
    <2>1. /\ pc = "written" /\ After(backups)
          /\ UNCHANGED <<files, keyring, markers, made, current, undo, mishap>>
      BY <1>1 DEF KeepClear
    <2>2. then # "next" /\ Finished(backups, todo[1])
      BY <2>1, FinishedClear
    <2>3. PICK list : list = backups
      OBVIOUS
    <2>4. Finished(list, todo[1]) /\ After(list)
      BY <2>1, <2>2, <2>3 DEF After
    <2> QED  BY <2>1, <2>2, <2>4, AfterCopies
  <1>2. CASE EncryptDone
    <2>1. PICK clear, list : clear = FALSE /\ list = Removed(backups, todo[1], clear)
      OBVIOUS
    <2>2. /\ pc = "verify" /\ \A b \in Backup(todo[1]) : b.enc => Whole(b)
          /\ After(Removed(backups, todo[1], FALSE))
          /\ UNCHANGED <<files, keyring, markers, made, current, undo, mishap>>
      BY <1>2 DEF EncryptDone
    <2>3. list = Removed(backups, todo[1], FALSE)
      BY <2>1
    <2>4. After(list)
      BY <2>2, <2>3 DEF After
    <2>5. Finished(list, todo[1])
      BY <2>1, <2>2, FinishedCipher
    <2> QED  BY <2>2, <2>4, <2>5, AfterCopies
  <1> QED  BY <1>1, <1>2

-----------------------------------------------------------------------------
(* The encryption of snapshots *)

LEMMA ExistingCopies ==
  ASSUME TypesOK, CopiesOK, WorkOK, ReadableOK, SortedOK, UndoOK, EncryptExisting
  PROVE  CopiesOK' /\ WorkOK' /\ ReadableOK' /\ SortedOK' /\ UndoOK'
  <1> DEFINE clear == {n \in DOMAIN backups : ~backups[n].enc}
  <1>1. /\ pc = "up" /\ clear # {} /\ then' = "next" /\ pc' = "encrypt"
        /\ mishap' = mishap \union {"reordered"}
        /\ UNCHANGED <<restore, backups, made, undo, last>>
    BY DEF EncryptExisting, markers
  <1>2. PICK order \in SetToSeqs(clear) :
          todo' = [n \in DOMAIN order |-> backups[order[n]].id]
    BY DEF EncryptExisting
  <1>3. backups \in Seq(Copy) /\ Len(backups) \in Nat /\ DOMAIN backups = 1 .. Len(backups)
    BY DEF CopiesOK, ListOK
  <1>4. PICK c : c = Cardinality(clear)
    OBVIOUS
  <1>5. c \in Nat /\ c # 0
    <2>1. IsFiniteSet(1 .. Len(backups))
      BY <1>3, FS_Interval
    <2>2. clear \subseteq 1 .. Len(backups)
      BY <1>3
    <2>3. IsFiniteSet(clear)
      BY <2>1, <2>2, FS_Subset
    <2> HIDE DEF clear
    <2>4. Cardinality(clear) \in Nat /\ (Cardinality(clear) = 0 <=> clear = {})
      BY <2>3, FS_CardinalityType, FS_EmptySet
    <2> QED  BY <1>1, <1>4, <2>4
  <1>6. order \in [1 .. c -> clear] /\ \A i, j \in 1 .. c : i # j => order[i] # order[j]
    <2> HIDE DEF clear
    <2> QED  BY <1>2, <1>4 DEF SetToSeqs
  <1>7. ASSUME NEW i \in 1 .. c
        PROVE  order[i] \in 1 .. Len(backups) /\ ~backups[order[i]].enc
               /\ backups[order[i]].id \in 1 .. MaxBackups
    <2>1. order[i] \in clear
      BY <1>6
    <2>2. order[i] \in 1 .. Len(backups) /\ ~backups[order[i]].enc
      BY <2>1, <1>3
    <2>3. backups[order[i]] \in Copy
      BY <2>2, <1>3
    <2> QED  BY <2>2, <2>3 DEF Copy
  <1>8. todo' = [n \in 1 .. c |-> backups[order[n]].id]
    BY <1>2, <1>6
  <1> HIDE DEF clear
  <1>9. todo' \in Seq(1 .. MaxBackups) /\ Len(todo') = c /\ todo' # <<>>
    <2>1. todo' \in [1 .. c -> 1 .. MaxBackups]
      BY <1>7, <1>8
    <2>2. PICK t, S : t = todo' /\ S = 1 .. MaxBackups
      OBVIOUS
    <2>3. t \in [1 .. c -> S]
      BY <2>1, <2>2
    <2>4. t \in Seq(S)
      BY <2>3, <1>5, SeqDef
    <2>5. Len(t) = c
      BY <2>3, <2>4, <1>5, LenProperties
    <2>6. t # <<>>
      BY <2>5, <1>5
    <2> QED  BY <2>2, <2>4, <2>5, <2>6
  <1>10. \A i \in 1 .. Len(todo') :
           \E n \in 1 .. Len(backups) : backups[n].id = todo'[i] /\ ~backups[n].enc
    BY <1>7, <1>8, <1>9
  <1>11. ASSUME NEW i \in 1 .. Len(todo'), NEW j \in 1 .. Len(todo'), todo'[i] = todo'[j]
         PROVE  i = j
    <2>1. PICK m, n : m = order[i] /\ n = order[j]
      OBVIOUS
    <2>2. /\ m \in 1 .. Len(backups) /\ ~backups[m].enc
          /\ n \in 1 .. Len(backups) /\ ~backups[n].enc
      BY <2>1, <1>7, <1>9
    <2>3. backups[m].id = backups[n].id
      BY <2>1, <1>8, <1>9, <1>11
    <2>4. backups[m].enc = backups[n].enc
      <3>1. backups[m] \in Copy /\ backups[n] \in Copy
        BY <2>2, <1>3
      <3> QED  BY <2>2, <3>1 DEF Copy
    <2>5. m = n
      BY <2>2, <2>3, <2>4 DEF CopiesOK, ListOK
    <2> QED  BY <2>1, <2>5, <1>6, <1>9
  <1>12. Encrypting'
    BY <1>1, <1>10, <1>11 DEF Encrypting
  <1>13. WorkOK'
    BY <1>1, <1>9, <1>12 DEF WorkOK
  <1>14. CopiesOK' /\ ReadableOK' /\ SortedOK'
    BY <1>1 DEF CopiesOK, ListOK, ReadableOK, SortedOK
  <1>15. UndoOK'
    <2>1. ~Clean'
      BY <1>1 DEF Clean
    <2> QED  BY <1>1, <2>1 DEF UndoOK
  <1> QED  BY <1>13, <1>14, <1>15

\* The file of a ciphertext that is being written comes first.
LEMMA StartCopies ==
  ASSUME TypesOK, CopiesOK, WorkOK, ReadableOK, SortedOK, UndoOK, EncryptStart
  PROVE  CopiesOK' /\ WorkOK' /\ ReadableOK' /\ SortedOK' /\ UndoOK'
  <1>1. /\ pc = "encrypt" /\ pc' = "filling"
        /\ UNCHANGED <<todo, then, made, restore, undo, last, mishap, live, wal>>
    BY DEF EncryptStart, files, markers, history
  <1>2. PICK id, old, new : id = todo[1] /\ old = backups /\ new = backups'
    OBVIOUS
  <1>3. ListOK(old) /\ old \in Seq(Copy) /\ Len(old) \in Nat /\ DOMAIN old = 1 .. Len(old)
    BY <1>2 DEF CopiesOK, ListOK
  <1>4. PICK b \in Backup(id) : new = <<[b EXCEPT !.enc = TRUE, !.whole = FALSE]>> \o old
    BY <1>2 DEF EncryptStart
  <1>5. PICK k \in 1 .. Len(old) : b = old[k] /\ old[k].id = id
    BY <1>2, <1>3, <1>4 DEF Backup, Range
  <1>6. \A n \in 1 .. Len(old) : old[n].id = id => ~old[n].enc
    BY <1>2, <1>3 DEF EncryptStart, Backup, Range
  <1>7. PICK cipher : cipher = [b EXCEPT !.enc = TRUE, !.whole = FALSE]
    OBVIOUS
  <1>8. b \in Copy /\ b.id = id
    BY <1>3, <1>5
  <1>9. /\ cipher \in Copy /\ cipher.enc /\ cipher.id = id /\ cipher.books = b.books
        /\ cipher.enc = TRUE /\ ~cipher.whole
    BY <1>7, <1>8 DEF Copy
  <1>10. Grown(new, cipher, old)
    <2>1. \A n \in 1 .. Len(old) : ~(old[n].id = cipher.id /\ old[n].enc = cipher.enc)
      BY <1>6, <1>9
    <2>2. Addable(cipher, old)
      BY <1>3, <1>9, <2>1 DEF Addable
    <2>3. new = <<cipher>> \o old
      BY <1>4, <1>7
    <2> QED  BY <2>2, <2>3, Added
  <1>11. /\ ListOK(new) /\ Len(new) = Len(old) + 1
         /\ new[1] = cipher
         /\ \A n \in 1 .. Len(old) : n + 1 \in 1 .. Len(new) /\ new[n + 1] = old[n]
         /\ \A n \in 1 .. Len(new) : n # 1 => n - 1 \in 1 .. Len(old) /\ new[n] = old[n - 1]
    BY <1>3, <1>10 DEF Grown
  <1>12. \A n \in 1 .. Len(old) : old[n].id <= made.backups /\ old[n].id \in Int
    <2> SUFFICES ASSUME NEW n \in 1 .. Len(old)
                 PROVE  old[n].id <= made.backups /\ old[n].id \in Int
      OBVIOUS
    <2>1. old[n] \in Copy
      BY <1>3
    <2> QED  BY <2>1, <1>2 DEF CopiesOK, Copy
  <1>13. /\ 1 \in 1 .. Len(new)
         /\ \A n \in 1 .. Len(new) :
              \/ n = 1 /\ new[n].id = id
              \/ \E m \in 1 .. Len(old) : n = m + 1 /\ new[n] = old[m]
    <2>1. ASSUME NEW n \in 1 .. Len(new), n # 1
          PROVE  \E m \in 1 .. Len(old) : n = m + 1 /\ new[n] = old[m]
      <3>1. PICK m : m = n - 1
        OBVIOUS
      <3>2. m \in 1 .. Len(old) /\ new[n] = old[m] /\ n = m + 1
        BY <2>1, <3>1, <1>3, <1>11
      <3> QED  BY <3>2
    <2>2. 1 \in 1 .. Len(new)
      BY <1>3, <1>11
    <2> QED  BY <2>1, <2>2, <1>9, <1>11
  <1>14. CopiesOK'
    <2>1. \A n \in 1 .. Len(new) : new[n].id <= made.backups
      BY <1>5, <1>12, <1>13
    <2> QED  BY <1>1, <1>2, <1>11, <2>1 DEF CopiesOK, ListOK
  <1>15. /\ Working /\ todo # <<>> /\ todo \in Seq(1 .. MaxBackups) /\ then # "nothing"
         /\ then = "next" => Encrypting
         /\ then # "next" => Taking
    BY <1>1 DEF WorkOK, Working
  <1>16. new # <<>>
    <2>1. Len(<<>>) = 0
      OBVIOUS
    <2> QED  BY <2>1, <1>13
  <1>17. WorkOK'
    <2>1. then = "next" => Encrypting'
      <3> SUFFICES ASSUME then = "next" PROVE Encrypting'
        OBVIOUS
      <3>1. Encrypting
        BY <1>15
      <3>2. ASSUME NEW i \in 1 .. Len(todo)
            PROVE  \E n \in 1 .. Len(new) : new[n].id = todo[i] /\ ~new[n].enc
        <4>1. PICK m \in 1 .. Len(old) : old[m].id = todo[i] /\ ~old[m].enc
          BY <1>2, <3>1 DEF Encrypting
        <4>2. m + 1 \in 1 .. Len(new) /\ new[m + 1] = old[m]
          BY <1>11
        <4> QED  BY <4>1, <4>2
      <3> QED  BY <1>1, <1>2, <3>1, <3>2 DEF Encrypting
    <2>2. then # "next" => Taking'
      <3> SUFFICES ASSUME then # "next" PROVE Taking'
        OBVIOUS
      <3>1. Taking /\ id = made.backups
        BY <1>2, <1>15 DEF Taking
      <3>2. k = 1
        BY <1>1, <1>2, <1>5, <3>1 DEF Taking
      <3>3. then = "stage" => new[1].books = Content
        BY <1>2, <1>5, <1>9, <1>11, <3>1, <3>2 DEF Taking
      <3>4. new[1].id = made.backups
        BY <1>9, <1>11, <3>1
      <3>5. Content' = Content
        BY <1>1 DEF Content
      <3> QED  BY <1>1, <1>2, <1>16, <3>1, <3>3, <3>4, <3>5 DEF Taking
    <2>3. new # <<>> /\ new[1].id = todo[1] /\ new[1].enc /\ ~new[1].whole
      BY <1>2, <1>9, <1>11, <1>16
    <2>4. last' \in 0 .. made'.backups /\ then' \in {"nothing", "prune", "stage", "next"}
      BY <1>1 DEF WorkOK
    <2> QED  BY <1>1, <1>2, <1>15, <2>1, <2>2, <2>3, <2>4 DEF WorkOK
  <1>18. ReadableOK'
    <2> SUFFICES ASSUME last # 0, "encryption" \notin mishap
                 PROVE  \E n \in 1 .. Len(new) : new[n].id = last /\ new[n].whole
      BY <1>1, <1>2 DEF ReadableOK
    <2>1. PICK m \in 1 .. Len(old) : old[m].id = last /\ old[m].whole
      BY <1>2 DEF ReadableOK
    <2>2. m + 1 \in 1 .. Len(new) /\ new[m + 1] = old[m]
      BY <1>11
    <2> QED  BY <2>1, <2>2
  <1>19. ASSUME "reordered" \notin mishap PROVE id = made.backups
    BY <1>2, <1>15, <1>19 DEF Taking, Encrypting
  <1>20. SortedOK'
    <2> SUFFICES ASSUME "reordered" \notin mishap, NEW m \in 1 .. Len(new), NEW n \in 1 .. Len(new),
                        m <= n
                 PROVE  new[n].id <= new[m].id
      BY <1>1, <1>2 DEF SortedOK, Ordered
    <2>1. CASE m = 1
      <3>1. new[1].id = made.backups
        BY <1>9, <1>11, <1>19
      <3>2. new[n].id <= made.backups
        BY <1>1, <1>2, <1>14 DEF CopiesOK
      <3> QED  BY <2>1, <3>1, <3>2
    <2>2. CASE m # 1
      <3>1. PICK i \in 1 .. Len(old) : m = i + 1 /\ new[m] = old[i]
        BY <2>2, <1>13
      <3>2. n # 1
        BY <2>2, <1>3, <1>11
      <3>3. PICK j \in 1 .. Len(old) : n = j + 1 /\ new[n] = old[j]
        BY <3>2, <1>13
      <3>4. i <= j
        BY <3>1, <3>3, <1>3
      <3> QED  BY <3>1, <3>3, <3>4, <1>2 DEF SortedOK, Ordered
    <2> QED  BY <2>1, <2>2
  <1>21. UndoOK'
    <2>1. Awaited' = Awaited /\ Clean' = Clean
      BY <1>1 DEF Awaited, Clean
    <2>2. Saved => Saved'
      <3> SUFFICES ASSUME Saved
                   PROVE  \E n \in 1 .. Len(new) : /\ new[n].id = undo.id
                                                   /\ new[n].books = undo.books
                                                   /\ new[n].whole
        BY <1>1, <1>2 DEF Saved
      <3>1. PICK m \in 1 .. Len(old) : /\ old[m].id = undo.id /\ old[m].books = undo.books
                                       /\ old[m].whole
        BY <1>2 DEF Saved
      <3>2. m + 1 \in 1 .. Len(new) /\ new[m + 1] = old[m]
        BY <1>11
      <3> QED  BY <3>1, <3>2
    <2>3. Later \subseteq Later' /\ Later' \subseteq 1 .. MaxBackups
      <3>1. ASSUME NEW x \in Later PROVE x \in Later'
        <4>1. x \in 1 .. MaxBackups /\ undo.id < x /\ x # made.backups
          BY <1>15 DEF Later
        <4>2. PICK m \in 1 .. Len(old) : old[m].id = x
          BY <1>2 DEF Later
        <4>3. m + 1 \in 1 .. Len(new) /\ new[m + 1] = old[m]
          BY <1>11
        <4> QED  BY <4>1, <4>2, <4>3, <1>1, <1>2 DEF Later
      <3> QED  BY <3>1 DEF Later
    <2>4. Cardinality(Later) >= Keep => Cardinality(Later)' >= Keep
      <3>1. PICK S, T : S = Later /\ T = Later'
        OBVIOUS
      <3>2. Cardinality(S) >= Keep => Cardinality(T) >= Keep
        BY <2>3, <3>1, LaterGrows
      <3> QED  BY <3>1, <3>2
    <2>5. Clean /\ OneFile => OneFile'
      <3> SUFFICES ASSUME Clean, OneFile, NEW m \in 1 .. Len(new), NEW n \in 1 .. Len(new),
                          m # n, new[m].id = new[n].id, new[m].id # made.backups
                   PROVE  new[m].id < undo.id
        BY <1>1, <1>2 DEF OneFile
      <3>1. id = made.backups
        BY <1>19 DEF Clean
      <3>2. m # 1 /\ n # 1
        BY <3>1, <1>9, <1>11
      <3>3. PICK i, j \in 1 .. Len(old) :
              m = i + 1 /\ new[m] = old[i] /\ n = j + 1 /\ new[n] = old[j]
        BY <3>2, <1>13
      <3>4. i # j
        BY <3>3
      <3> QED  BY <3>3, <3>4, <1>1, <1>2 DEF OneFile
    <2>6. Serving
      BY <1>1 DEF Serving
    <2> QED  BY <1>1, <2>1, <2>2, <2>4, <2>5, <2>6 DEF UndoOK
  <1> QED  BY <1>14, <1>17, <1>18, <1>20, <1>21

\* A ciphertext that is written, and is as good as its copy in clear.
LEMMA FileCopies ==
  ASSUME TypesOK, CopiesOK, WorkOK, ReadableOK, SortedOK, UndoOK, EncryptFile
  PROVE  CopiesOK' /\ WorkOK' /\ ReadableOK' /\ SortedOK' /\ UndoOK'
  <1>1. /\ pc = "filling" /\ pc' = "verify"
        /\ UNCHANGED <<todo, then, made, restore, undo, last, mishap, live, wal>>
    BY DEF EncryptFile, files, markers, history
  <1>2. PICK id, old, new : id = todo[1] /\ old = backups /\ new = backups'
    OBVIOUS
  <1>3. ListOK(old) /\ old \in Seq(Copy) /\ Len(old) \in Nat /\ DOMAIN old = 1 .. Len(old)
    BY <1>2 DEF CopiesOK, ListOK
  <1>4. PICK w : w = \A b \in Backup(id) : b.enc \/ Whole(b)
    OBVIOUS
  <1>5. new = [n \in 1 .. Len(old) |->
                 IF old[n].id = id /\ old[n].enc THEN [old[n] EXCEPT !.whole = w] ELSE old[n]]
    BY <1>4, <1>2, <1>3 DEF EncryptFile
  <1>6. /\ 1 \in 1 .. Len(old)
        /\ \A n \in 1 .. Len(old) : (old[n].id = id /\ old[n].enc) => ~old[n].whole
    <2>1. old # <<>> /\ old[1].id = id /\ old[1].enc /\ ~old[1].whole
      BY <1>1, <1>2 DEF WorkOK
    <2>2. 1 \in 1 .. Len(old)
      BY <2>1, <1>3
    <2>3. ASSUME NEW n \in 1 .. Len(old), old[n].id = id, old[n].enc
          PROVE  n = 1
      <3>1. old[n] \in Copy /\ old[1] \in Copy
        BY <1>3, <2>2
      <3>2. old[n].enc = old[1].enc
        BY <2>1, <2>3, <3>1 DEF Copy
      <3> QED  BY <1>3, <2>1, <2>2, <2>3, <3>2 DEF ListOK
    <2> QED  BY <2>1, <2>2, <2>3
  <1>7. ASSUME NEW n \in 1 .. Len(old)
        PROVE  /\ new[n] \in Copy /\ new[n].id = old[n].id /\ new[n].enc = old[n].enc
               /\ new[n].books = old[n].books
               /\ old[n].whole => new[n].whole
    <2>1. old[n] \in Copy
      BY <1>3
    <2>2. new[n] = (IF old[n].id = id /\ old[n].enc THEN [old[n] EXCEPT !.whole = w] ELSE old[n])
      BY <1>5
    <2>3. PICK b : b = old[n]
      OBVIOUS
    <2>4. b \in Copy
      BY <2>1, <2>3
    <2>5. CASE b.id = id /\ b.enc
      <3>1. new[n] = [b EXCEPT !.whole = w]
        BY <2>2, <2>3, <2>5
      <3>2. w \in BOOLEAN
        BY <1>4
      <3>3. /\ new[n] \in Copy /\ new[n].id = b.id /\ new[n].enc = b.enc
            /\ new[n].books = b.books
        BY <2>4, <3>1, <3>2 DEF Copy
      <3> QED  BY <2>3, <2>5, <3>3, <1>6
    <2>6. CASE ~(b.id = id /\ b.enc)
      <3>1. new[n] = b
        BY <2>2, <2>3, <2>6
      <3> QED  BY <2>3, <2>4, <2>6, <3>1
    <2> QED  BY <2>5, <2>6
  <1>8. new \in Seq(Copy) /\ Len(new) = Len(old)
    <2>1. new \in [1 .. Len(old) -> Copy]
      <3>1. \A n \in 1 .. Len(old) : new[n] \in Copy
        BY <1>7
      <3> QED  BY <3>1, <1>5
    <2>2. new \in Seq(Copy)
      BY <2>1, <1>3, SeqDef
    <2>3. Len(new) = Len(old)
      BY <2>1, <2>2, <1>3, LenProperties
    <2> QED  BY <2>2, <2>3
  <1>9. CopiesOK'
    <2>1. \A m, n \in 1 .. Len(new) : new[m].id = new[n].id /\ new[m].enc = new[n].enc => m = n
      BY <1>3, <1>7, <1>8 DEF ListOK
    <2>2. \A n \in 1 .. Len(new) : new[n].id <= made.backups
      BY <1>2, <1>7, <1>8 DEF CopiesOK
    <2> QED  BY <1>1, <1>2, <1>8, <2>1, <2>2 DEF CopiesOK, ListOK
  <1>10. /\ Working /\ todo # <<>> /\ todo \in Seq(1 .. MaxBackups) /\ then # "nothing"
         /\ then = "next" => Encrypting
         /\ then # "next" => Taking
         /\ old # <<>> /\ old[1].id = id /\ old[1].enc
    BY <1>1, <1>2 DEF WorkOK, Working
  <1>11. 1 \in 1 .. Len(old) /\ 1 \in 1 .. Len(new) /\ new # <<>>
    <2>1. 1 \in 1 .. Len(old)
      BY <1>3, <1>10
    <2>2. Len(<<>>) = 0
      OBVIOUS
    <2> QED  BY <2>1, <2>2, <1>8
  <1>12. new[1].id = id /\ new[1].enc /\ new[1].books = old[1].books
    BY <1>7, <1>10, <1>11
  <1>13. WorkOK'
    <2>1. then = "next" => Encrypting'
      <3> SUFFICES ASSUME then = "next" PROVE Encrypting'
        OBVIOUS
      <3>1. Encrypting
        BY <1>10
      <3>2. ASSUME NEW i \in 1 .. Len(todo)
            PROVE  \E n \in 1 .. Len(new) : new[n].id = todo[i] /\ ~new[n].enc
        <4>1. PICK m \in 1 .. Len(old) : old[m].id = todo[i] /\ ~old[m].enc
          BY <1>2, <3>1 DEF Encrypting
        <4>2. m \in 1 .. Len(new) /\ new[m].id = old[m].id /\ new[m].enc = old[m].enc
          BY <1>7, <1>8
        <4>3. ~new[m].enc
          BY <4>1, <4>2
        <4> QED  BY <4>1, <4>2, <4>3
      <3> QED  BY <1>1, <1>2, <3>1, <3>2 DEF Encrypting
    <2>2. then # "next" => Taking'
      <3> SUFFICES ASSUME then # "next" PROVE Taking'
        OBVIOUS
      <3>1. Taking /\ id = made.backups
        BY <1>2, <1>10 DEF Taking
      <3>2. then = "stage" => new[1].books = Content
        BY <1>2, <1>12, <3>1 DEF Taking
      <3>3. Content' = Content
        BY <1>1 DEF Content
      <3> QED  BY <1>1, <1>2, <1>11, <1>12, <3>1, <3>2, <3>3 DEF Taking
    <2>3. last' \in 0 .. made'.backups /\ then' \in {"nothing", "prune", "stage", "next"}
      BY <1>1 DEF WorkOK
    <2> QED  BY <1>1, <1>2, <1>10, <1>11, <1>12, <2>1, <2>2, <2>3 DEF WorkOK
  <1>14. ReadableOK'
    <2> SUFFICES ASSUME last # 0, "encryption" \notin mishap
                 PROVE  \E n \in 1 .. Len(new) : new[n].id = last /\ new[n].whole
      BY <1>1, <1>2 DEF ReadableOK
    <2>1. PICK m \in 1 .. Len(old) : old[m].id = last /\ old[m].whole
      BY <1>2 DEF ReadableOK
    <2> QED  BY <2>1, <1>7, <1>8
  <1>15. SortedOK'
    <2> SUFFICES ASSUME "reordered" \notin mishap PROVE Ordered(new)
      BY <1>1, <1>2 DEF SortedOK
    <2>1. Ordered(old)
      BY <1>2 DEF SortedOK
    <2> QED  BY <2>1, <1>7, <1>8 DEF Ordered
  <1>16. UndoOK'
    <2>1. Awaited' = Awaited /\ Clean' = Clean
      BY <1>1 DEF Awaited, Clean
    <2>2. Saved => Saved'
      <3> SUFFICES ASSUME Saved
                   PROVE  \E n \in 1 .. Len(new) : /\ new[n].id = undo.id
                                                   /\ new[n].books = undo.books
                                                   /\ new[n].whole
        BY <1>1, <1>2 DEF Saved
      <3>1. PICK m \in 1 .. Len(old) : /\ old[m].id = undo.id /\ old[m].books = undo.books
                                       /\ old[m].whole
        BY <1>2 DEF Saved
      <3> QED  BY <3>1, <1>7, <1>8
    <2>3. Later \subseteq Later' /\ Later' \subseteq 1 .. MaxBackups
      <3>1. ASSUME NEW x \in Later PROVE x \in Later'
        <4>1. x \in 1 .. MaxBackups /\ undo.id < x /\ x # made.backups
          BY <1>10 DEF Later
        <4>2. PICK m \in 1 .. Len(old) : old[m].id = x
          BY <1>2 DEF Later
        <4>3. m \in 1 .. Len(new) /\ new[m].id = x
          BY <4>2, <1>7, <1>8
        <4> QED  BY <4>1, <4>3, <1>1, <1>2 DEF Later
      <3> QED  BY <3>1 DEF Later
    <2>4. Cardinality(Later) >= Keep => Cardinality(Later)' >= Keep
      <3>1. PICK S, T : S = Later /\ T = Later'
        OBVIOUS
      <3>2. Cardinality(S) >= Keep => Cardinality(T) >= Keep
        BY <2>3, <3>1, LaterGrows
      <3> QED  BY <3>1, <3>2
    <2>5. OneFile => OneFile'
      <3> SUFFICES ASSUME OneFile, NEW m \in 1 .. Len(new), NEW n \in 1 .. Len(new),
                          m # n, new[m].id = new[n].id, new[m].id # made.backups
                   PROVE  new[m].id < undo.id
        BY <1>1, <1>2 DEF OneFile
      <3>1. /\ m \in 1 .. Len(old) /\ new[m].id = old[m].id
            /\ n \in 1 .. Len(old) /\ new[n].id = old[n].id
        BY <1>7, <1>8
      <3> QED  BY <3>1, <1>2 DEF OneFile
    <2>6. Serving
      BY <1>1 DEF Serving
    <2> QED  BY <1>1, <2>1, <2>2, <2>4, <2>5, <2>6 DEF UndoOK
  <1> QED  BY <1>9, <1>13, <1>14, <1>15, <1>16

\* The list without a snapshot.
Purged(new, old, id) ==
  /\ ListOK(new) /\ Within(new, old)
  /\ \A n \in 1 .. Len(new) : new[n].id # id
  /\ \A m \in 1 .. Len(old) : old[m].id # id => \E n \in 1 .. Len(new) : new[n] = old[m]

\* What is left of the snapshots when an encryption fails: those of the others.
LEMMA WithoutBoth ==
  ASSUME NEW old, ListOK(old), NEW id, NEW clear, NEW cipher, {clear, cipher} = BOOLEAN,
         NEW rest, Without(rest, old, id, clear), NEW new, Without(new, rest, id, cipher)
  PROVE  Purged(new, old, id)
  <1>1. ListOK(rest) /\ Within(rest, old) /\ ListOK(new) /\ Within(new, rest)
    BY DEF Without
  <1>2. Within(new, old)
    BY <1>1, WithinTwice
  <1>3. ASSUME NEW n \in 1 .. Len(new) PROVE new[n].id # id
    <2>1. new \in Seq(Copy)
      BY <1>1 DEF ListOK
    <2>2. new[n] \in Copy
      BY <2>1
    <2>3. PICK m \in 1 .. Len(rest) : new[n] = rest[m]
      BY <1>1, WithinKeeps
    <2>4. ~(new[n].id = id /\ new[n].enc = clear)
      BY <2>3 DEF Without
    <2>5. ~(new[n].id = id /\ new[n].enc = cipher)
      BY DEF Without
    <2>6. new[n].enc = clear \/ new[n].enc = cipher
      BY <2>2 DEF Copy
    <2> QED  BY <2>4, <2>5, <2>6
  <1>4. ASSUME NEW m \in 1 .. Len(old), old[m].id # id
        PROVE  \E n \in 1 .. Len(new) : new[n] = old[m]
    <2>1. PICK i \in 1 .. Len(rest) : rest[i] = old[m]
      BY <1>4 DEF Without
    <2>2. PICK n \in 1 .. Len(new) : new[n] = rest[i]
      BY <2>1, <1>4 DEF Without
    <2> QED  BY <2>1, <2>2
  <1> QED  BY <1>1, <1>2, <1>3, <1>4 DEF Purged

LEMMA FailureCopies ==
  ASSUME TypesOK, CopiesOK, WorkOK, ReadableOK, SortedOK, UndoOK, EncryptFails
  PROVE  CopiesOK' /\ WorkOK' /\ ReadableOK' /\ SortedOK' /\ UndoOK'
  <1>1. /\ pc \in {"encrypt", "filling", "verify"} /\ pc' = "up" /\ todo' = <<>> /\ then' = "nothing"
        /\ mishap' = mishap \union (IF then = "next" THEN {"encryption"} ELSE {})
        /\ UNCHANGED <<made, restore, undo, last>>
    BY DEF EncryptFails, markers
  <1>2. PICK id, old, new : id = todo[1] /\ old = backups /\ new = backups'
    OBVIOUS
  <1>3. ListOK(old)
    BY <1>2 DEF CopiesOK
  <1>4. /\ ListOK(new) /\ Within(new, old)
        /\ \A n \in 1 .. Len(new) : new[n].id # id
        /\ \A m \in 1 .. Len(old) :
             old[m].id # id => \E n \in 1 .. Len(new) : new[n] = old[m]
    <2>1. PICK clear, cipher : clear = FALSE /\ cipher = TRUE
      OBVIOUS
    <2>2. PICK rest : rest = Removed(old, id, clear)
      OBVIOUS
    <2>3. new = Removed(rest, id, cipher)
      BY <1>2, <2>1, <2>2 DEF EncryptFails
    <2>4. Without(rest, old, id, clear)
      BY <1>3, <2>2, RemovedWithin
    <2>5. ListOK(rest)
      BY <2>4 DEF Without
    <2>6. Without(new, rest, id, cipher)
      BY <2>3, <2>5, RemovedWithin
    <2>7. {clear, cipher} = BOOLEAN
      BY <2>1
    <2>8. Purged(new, old, id)
      BY <1>3, <2>4, <2>6, <2>7, WithoutBoth
    <2> QED  BY <2>8 DEF Purged
  <1>5. /\ \A n \in 1 .. Len(new) : \E m \in 1 .. Len(old) : new[n] = old[m]
        /\ \A m, n \in 1 .. Len(new) :
             m # n => \E i, j \in 1 .. Len(old) : i # j /\ new[m] = old[i] /\ new[n] = old[j]
        /\ Ordered(old) => Ordered(new)
    BY <1>3, <1>4, WithinKeeps
  <1>6. CopiesOK'
    <2>1. \A m \in 1 .. Len(old) : old[m].id <= made.backups
      BY <1>2 DEF CopiesOK
    <2>2. \A n \in 1 .. Len(new) : new[n].id <= made.backups
      BY <2>1, <1>5
    <2>3. ListOK(new)
      BY <1>4
    <2>4. ListOK(backups')
      BY <2>3, <1>2
    <2> QED  BY <1>1, <1>2, <2>2, <2>4 DEF CopiesOK, ListOK
  <1>7. SortedOK'
    BY <1>1, <1>2, <1>5 DEF SortedOK
  <1>8. ~Working' /\ Working
    BY <1>1 DEF Working
  <1>9. WorkOK'
    <2>1. <<>> \in Seq(1 .. MaxBackups)
      OBVIOUS
    <2>2. last' \in 0 .. made'.backups
      BY <1>1 DEF WorkOK
    <2> QED  BY <1>1, <1>8, <2>1, <2>2 DEF WorkOK
  <1>10. CASE then = "next"
    <2>1. "encryption" \in mishap'
      BY <1>1, <1>10
    <2> QED  BY <1>1, <1>6, <1>7, <1>9, <2>1 DEF ReadableOK, UndoOK, Clean
  <1>11. CASE then # "next"
    <2>1. mishap' = mishap
      BY <1>1, <1>11
    <2>2. Taking /\ id = made.backups
      BY <1>2, <1>8, <1>11 DEF WorkOK, Taking
    <2>3. last < id /\ last \in Int /\ id \in Int
      BY <2>2 DEF Taking, WorkOK, TypesOK
    <2>4. ReadableOK'
      <3> SUFFICES ASSUME last # 0, "encryption" \notin mishap
                   PROVE  \E n \in 1 .. Len(new) : new[n].id = last /\ new[n].whole
        BY <1>1, <1>2, <2>1 DEF ReadableOK
      <3>1. PICK m \in 1 .. Len(old) : old[m].id = last /\ old[m].whole
        BY <1>2 DEF ReadableOK
      <3>2. old[m].id # id
        BY <2>3, <3>1
      <3>3. PICK n \in 1 .. Len(new) : new[n] = old[m]
        BY <1>4, <3>2
      <3> QED  BY <3>1, <3>3
    <2>5. UndoOK'
      <3>1. Awaited' => Awaited
        BY <1>1 DEF Awaited
      <3>2. Clean' = Clean
        BY <2>1 DEF Clean
      <3> SUFFICES ASSUME Clean, Awaited
                   PROVE  /\ undo.id <= last
                          /\ Saved' \/ Cardinality(Later)' >= Keep
                          /\ OneFile'
        BY <1>1, <3>1, <3>2 DEF UndoOK
      <3>3. /\ undo.id \in Nat /\ undo.id <= last
            /\ Saved \/ Cardinality(Later) >= Keep
            /\ OneFile
        <4>1. Serving
          BY <1>1 DEF Serving
        <4> QED  BY <4>1 DEF UndoOK
      <3>4. Saved => Saved'
        <4> SUFFICES ASSUME Saved
                     PROVE  \E n \in 1 .. Len(new) : /\ new[n].id = undo.id
                                                     /\ new[n].books = undo.books
                                                     /\ new[n].whole
          BY <1>1, <1>2 DEF Saved
        <4>1. PICK m \in 1 .. Len(old) : /\ old[m].id = undo.id /\ old[m].books = undo.books
                                         /\ old[m].whole
          BY <1>2 DEF Saved
        <4>2. old[m].id # id
          BY <2>3, <3>3, <4>1
        <4>3. PICK n \in 1 .. Len(new) : new[n] = old[m]
          BY <1>4, <4>2
        <4> QED  BY <4>1, <4>3
      <3>5. Later \subseteq Later' /\ Later' \subseteq 1 .. MaxBackups
        <4>1. ASSUME NEW x \in Later PROVE x \in Later'
          <5>1. x \in 1 .. MaxBackups /\ undo.id < x /\ x # id
            BY <1>8, <2>2 DEF Later
          <5>2. PICK m \in 1 .. Len(old) : old[m].id = x
            BY <1>2 DEF Later
          <5>3. PICK n \in 1 .. Len(new) : new[n] = old[m]
            BY <1>4, <5>1, <5>2
          <5> QED  BY <5>1, <5>2, <5>3, <1>1, <1>2, <1>8 DEF Later
        <4> QED  BY <4>1 DEF Later
      <3>6. Cardinality(Later) >= Keep => Cardinality(Later)' >= Keep
        <4>1. PICK S, T : S = Later /\ T = Later'
          OBVIOUS
        <4>2. Cardinality(S) >= Keep => Cardinality(T) >= Keep
          BY <3>5, <4>1, LaterGrows
        <4> QED  BY <4>1, <4>2
      <3>7. OneFile'
        <4> SUFFICES ASSUME NEW m \in 1 .. Len(new), NEW n \in 1 .. Len(new),
                            m # n, new[m].id = new[n].id
                     PROVE  new[m].id < undo.id
          BY <1>1, <1>2 DEF OneFile
        <4>1. PICK i, j \in 1 .. Len(old) : i # j /\ new[m] = old[i] /\ new[n] = old[j]
          BY <1>5
        <4>2. old[i].id < undo.id \/ old[i].id = made.backups
          BY <4>1, <3>3, <1>2 DEF OneFile
        <4> QED  BY <4>1, <4>2, <1>4, <2>2
      <3> QED  BY <3>3, <3>4, <3>6, <3>7
    <2> QED  BY <1>6, <1>7, <1>9, <2>4, <2>5
  <1> QED  BY <1>10, <1>11

-----------------------------------------------------------------------------
(* The snapshots: the results *)

\* A first start has no snapshot, and serves nothing yet.
LEMMA FirstCopies == Init => CopiesInv
  <1> SUFFICES ASSUME Init PROVE CopiesInv
    OBVIOUS
  <1>1. /\ pc = "down" /\ restore = FALSE /\ backups = <<>> /\ todo = <<>> /\ then = "nothing"
        /\ undo = [id |-> 0, books |-> 0] /\ last = 0 /\ made.backups = 0
    BY DEF Init
  <1>2. TypesOK
    <2>1. PICK key \in {NoKey, 1} :
            /\ sealed = [key |-> key, readable |-> key # NoKey] /\ wrap = key
            /\ made = [books |-> 0, backups |-> 0, keys |-> key, crashes |-> 0]
      BY DEF Init
    <2>2. key \in 0 .. MaxKeys
      BY <2>1, DbFilesAssumption DEF NoKey
    <2>3. NoFile \in FileType
      <3>1. Torn \in Torn .. MaxBooks /\ -1 \in -1 .. MaxKeys
        BY DbFilesAssumption DEF Torn
      <3> QED  BY <3>1 DEF NoFile, FileType
    <2>4. /\ sealed \in [key : 0 .. MaxKeys, readable : BOOLEAN] /\ wrap \in 0 .. MaxKeys
          /\ made \in [books : 0 .. MaxBooks, backups : 0 .. MaxBackups, keys : 0 .. MaxKeys,
                       crashes : 0 .. MaxCrashes]
      BY <2>1, <2>2, DbFilesAssumption
    <2>5. ~Serving
      BY <1>1 DEF Serving
    <2>6. /\ live = NoFile /\ aside = NoFile /\ converted = NoFile /\ staged = NoFile
          /\ wal = NoWal /\ restore = FALSE /\ pending = "none"
      BY DEF Init
    <2> QED  BY <2>3, <2>4, <2>5, <2>6 DEF TypesOK
  <1>3. ~Working /\ ~Awaited
    BY <1>1 DEF Working, Awaited
  <1>4. Len(backups) = 0 /\ backups \in Seq(Copy) /\ todo \in Seq(1 .. MaxBackups)
    BY <1>1
  <1>5. CopiesOK /\ SortedOK
    <2>1. \A n \in 1 .. Len(backups) : FALSE
      BY <1>4
    <2> QED  BY <1>4, <2>1 DEF CopiesOK, ListOK, SortedOK, Ordered
  <1>6. WorkOK /\ ReadableOK /\ UndoOK
    BY <1>1, <1>3, <1>4 DEF WorkOK, ReadableOK, UndoOK
  <1> QED  BY <1>2, <1>5, <1>6 DEF CopiesInv

\* Every step keeps the invariant of the snapshots.
LEMMA CopiesStep == ASSUME FilesInv, CopiesInv, [Next]_vars PROVE CopiesInv'
  <1>1. TypesOK /\ CopiesOK /\ WorkOK /\ ReadableOK /\ SortedOK /\ UndoOK
    BY DEF CopiesInv
  <1>2. TypesOK'
    BY <1>1, TypesStep
  <1>3. CASE UNCHANGED vars
    <2>1. UNCHANGED <<pc, live, wal, restore, backups, todo, then, made, undo, last, mishap>>
      BY <1>3 DEF vars, files, markers, copies, history
    <2>2. UNCHANGED Content /\ UNCHANGED Working /\ UNCHANGED Serving
      BY <2>1 DEF Content, Working, Serving
    <2>3. CopiesOK' /\ ReadableOK' /\ SortedOK'
      BY <1>1, <2>1 DEF CopiesOK, ListOK, ReadableOK, SortedOK, Ordered
    <2>4. WorkOK'
      BY <1>1, <2>1, <2>2 DEF WorkOK, Encrypting, Taking, Staged
    <2>5. UndoOK'
      <3>1. UNCHANGED Clean /\ UNCHANGED Awaited /\ UNCHANGED Saved /\ UNCHANGED OneFile
        BY <2>1 DEF Clean, Awaited, Saved, OneFile
      <3>2. UNCHANGED Later
        BY <2>1, <2>2 DEF Later
      <3> QED  BY <1>1, <2>1, <2>2, <3>1, <3>2 DEF UndoOK
    <2> QED  BY <1>2, <2>3, <2>4, <2>5 DEF CopiesInv
  <1>4. CASE Next
    <2>1. CASE Starting \/ CopyFails \/ PutBack
      BY <1>1, <1>2, <2>1, StartingCopies DEF CopiesInv
    <2>2. CASE CreateBackup \/ AskRestore
      BY <1>1, <1>2, <2>2, TakingCopies DEF CopiesInv
    <2>3. CASE SnapshotTorn
      BY <1>1, <1>2, <2>3, TornCopies DEF CopiesInv
    <2>4. CASE KeepClear \/ EncryptDone
      BY <1>1, <1>2, <2>4, DoneCopies DEF CopiesInv
    <2>5. CASE EncryptExisting
      BY <1>1, <1>2, <2>5, ExistingCopies DEF CopiesInv
    <2>6. CASE EncryptStart
      BY <1>1, <1>2, <2>6, StartCopies DEF CopiesInv
    <2>7. CASE EncryptFile
      BY <1>1, <1>2, <2>7, FileCopies DEF CopiesInv
    <2>8. CASE EncryptFails
      BY <1>1, <1>2, <2>8, FailureCopies DEF CopiesInv
    <2>9. CASE StageCopy
      BY <1>1, <1>2, <2>9, StagingCopies DEF CopiesInv
    <2>10. CASE \/ StageMark \/ CancelRestore \/ WrapKey \/ SealKey \/ MarkEncryption
               \/ DisableDatabaseEncryption \/ CancelDatabaseEncryption \/ RemoveWrap \/ RecoverKey
               \/ Write \/ Stop \/ Crash \/ LoseAccount
      BY <1>1, <1>2, <2>10, RequestCopies DEF CopiesInv
    <2> QED  BY <1>4, <2>1, <2>2, <2>3, <2>4, <2>5, <2>6, <2>7, <2>8, <2>9, <2>10
            DEF Next
  <1> QED  BY <1>3, <1>4

\* The invariant of the snapshots holds of every state.
THEOREM CopiesInvariant == Spec => []CopiesInv
  <1>1. Init => CopiesInv
    BY FirstCopies
  <1>2. FilesInv /\ CopiesInv /\ [Next]_vars => CopiesInv'
    BY CopiesStep
  <1>3. Spec => []FilesInv
    BY FilesInvariant
  <1> QED  BY <1>1, <1>2, <1>3, PTL DEF Spec

\* Whatever the requests, the failures of an encryption that a snapshot asked
\* for and the sudden stops, the last snapshot that was completed can be read
\* (encryptInPlace, Prune).
THEOREM LatestReadableTheorem == Spec => []LatestReadable
  <1>1. CopiesInv => LatestReadable
    <2> SUFFICES ASSUME CopiesInv, last # 0, "encryption" \notin mishap
                 PROVE  \E b \in Range(backups) : b.id = last /\ Whole(b)
      BY DEF LatestReadable
    <2>1. PICK n \in 1 .. Len(backups) : backups[n].id = last /\ backups[n].whole
      BY DEF CopiesInv, ReadableOK
    <2>2. DOMAIN backups = 1 .. Len(backups)
      BY DEF CopiesInv, CopiesOK, ListOK
    <2> QED  BY <2>1, <2>2 DEF Range, Whole
  <1> QED  BY <1>1, CopiesInvariant, PTL

\* A restoration replaces books whose snapshot is there, or after as many later
\* snapshots as pruning keeps, however long it was left staged and however
\* often the machine stopped (StageRestore of the handler, Prune).
THEOREM UndoKeptTheorem == Spec => []UndoKept
  <1>1. CopiesInv => UndoKept
    <2> SUFFICES ASSUME CopiesInv, pc \in {"copying", "copied"}, Clean
                 PROVE  \/ \E b \in Range(backups) : b.books = undo.books /\ Whole(b)
                        \/ Cardinality({b.id : b \in {x \in Range(backups) : x.id > undo.id}}) >= Keep
      BY DEF UndoKept, Clean
    <2>1. Saved \/ Cardinality(Later) >= Keep
      BY DEF CopiesInv, UndoOK, Awaited
    <2>2. DOMAIN backups = 1 .. Len(backups) /\ backups \in Seq(Copy)
      BY DEF CopiesInv, CopiesOK, ListOK
    <2>3. CASE Saved
      BY <2>2, <2>3 DEF Saved, Range, Whole
    <2>4. CASE Cardinality(Later) >= Keep
      <3>1. ~Working
        BY DEF Working
      <3>2. undo.id \in Nat
        BY DEF CopiesInv, UndoOK
      <3>3. PICK T : T = {b.id : b \in {x \in Range(backups) : x.id > undo.id}}
        OBVIOUS
      <3>4. Later \subseteq T
        <4> SUFFICES ASSUME NEW id \in Later PROVE id \in T
          OBVIOUS
        <4>1. id \in 1 .. MaxBackups /\ undo.id < id
          BY DEF Later
        <4>2. PICK n \in 1 .. Len(backups) : backups[n].id = id
          BY DEF Later
        <4>3. backups[n] \in Range(backups) /\ backups[n].id > undo.id
          BY <2>2, <3>2, <4>1, <4>2 DEF Range
        <4> QED  BY <3>3, <4>2, <4>3
      <3>5. T \subseteq 1 .. MaxBackups
        <4>1. ASSUME NEW b \in Range(backups) PROVE b.id \in 1 .. MaxBackups
          <5>1. PICK n \in 1 .. Len(backups) : b = backups[n]
            BY <2>2 DEF Range
          <5>2. b \in Copy
            BY <2>2, <5>1
          <5> QED  BY <5>2 DEF Copy
        <4> QED  BY <4>1, <3>3
      <3>6. PICK S : S = Later
        OBVIOUS
      <3>7. Cardinality(T) >= Keep
        BY <2>4, <3>4, <3>5, <3>6, LaterGrows
      <3> QED  BY <3>3, <3>7
    <2> QED  BY <2>1, <2>3, <2>4
  <1> QED  BY <1>1, CopiesInvariant, PTL

\* The files, the keys and the requests keep their types.
THEOREM FilesTyped == Spec => []TypeOK
  <1>1. FilesInv /\ CopiesInv => TypeOK
    <2> SUFFICES ASSUME FilesInv, CopiesInv PROVE TypeOK
      OBVIOUS
    <2>1. backups \in Seq(Copy) /\ todo \in Seq(1 .. MaxBackups)
      BY DEF CopiesInv, CopiesOK, ListOK, WorkOK
    <2>2. {live, aside, converted, staged} \subseteq FileType
      BY DEF CopiesInv, TypesOK
    <2> QED  BY <2>1, <2>2 DEF FilesInv, FilesOK, CopiesInv, TypesOK, TypeOK, Copy, FileType
  <1> QED  BY <1>1, FilesInvariant, CopiesInvariant, PTL
=============================================================================
