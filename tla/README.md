# LedgerAlps: a TLA+ model of the books

LedgerAlps is an accounting server for Swiss small businesses: one Go process,
one SQLite base (PostgreSQL is possible), an HTTP API and a web interface. It
promises bookkeeping in the sense of the Code of Obligations: a posted entry is
never changed, every posting leaves a link in a hash chain, a closed year takes
nothing more, documents, payments and entries agree, and a machine that stops at
a bad moment loses nothing.

The modules here are translated from the source under `src/internal`. TLC
checks them on small instances; TLAPS proves, for every value of the constants,
the safety of the ledger, of the audit chain and its attestations, of sales
documents, of supplier invoices, of bank statements, of the reports, of contacts, of
access and of the files of the base: every invariant and every action property that
TLC finds to hold is the subject of a theorem. Liveness alone is only checked.
Paths below are relative to `src/internal` unless they begin with
`docs/` or `cmd/`.

## 1. Inventory

### How the program runs

`db.Open` (`db/db.go`) gives the process a pool of up to 25 connections; every
HTTP request is a goroutine that takes connections from it. Services and
handlers issue statements either one by one on the pool or inside a transaction
(`BeginTx`). SQLite in WAL mode has one writer at a time and readers on
snapshots; the clear base is opened with `_txlock=immediate`, so a transaction
holds the write lock from BEGIN to COMMIT. What a handler reads outside its
transaction may be stale when it writes: this is the hard part of nearly
every component. There is one process-wide mutex for the books, `payMu` in
`services/invoicing/payments.go`.

### Components

| Component | State | Operations | Hard behaviour | What makes it correct |
|---|---|---|---|---|
| Journal and fiscal years (`services/accounting`, `handlers/journal_write.go`, `handlers/fiscal_year.go`, `db/fiscal_backfill.go`) | `fiscal_years`, `journal_entries`, `journal_lines` | create, post, verify an entry; close and declare a year; backfill at startup | checks made before the transaction; two posts or closings of one row; crash at startup | sealed entries, one link each, no gap in numbers, closed years stay closed |
| Audit chain (`services/accounting/audit_chain.go`, `handlers/audit_trace.go`, `services/invoicing/audit.go`) | `audit_logs` | append in a transaction of the caller or in one of its own | two appends at once, busy timeouts, lost clients, crash | one line of links; a posting and its link appear together |
| Verification and attestation (`handlers/audit.go`, `attestation*.go`) | files `attestation-integrite-<day>.json` | walk along the chain, attest it, compare an attestation with later books | books put back to a copy, a row changed, a file half written | damage is reported; an attestation is confirmed by its own books only |
| Sales documents and payments (`services/invoicing`) | `invoices`, `payments`, entries of the journal, `payMu` | create, update, transitions, convert a quote, credit note, payment | no transaction spans a document and its entry | payments add up, the books agree with the document |
| Supplier invoices and payment runs (`handlers/supplier_*.go`, `payments_run.go`) | `supplier_invoices` | enter, correct, book, cancel, pay by pain.001 | same shape as sales documents | booked and reversed once, sealed once booked, whole payment files |
| Bank reconciliation (`services/banking`, `services/iso20022/camt053.go`) | `bank_entries` | import, suggest, match, ignore | the same statement again, identical operations, batches | no operation lost or doubled |
| VAT, simplified accounting, reports, exports (`services/vat`, `services/simplified`, `handlers/reports.go`, `revenue.go`, `stats.go`, `accounts.go`, `maintenance.go`, `exports_accounting.go`, `export.go`) | none of their own | compute from the tables | statuses that fall out of a period, rounding, closings, transfers, documents attached to another year | reports, exports and archives agree with each other and with the ledger |
| Authentication (`handlers/auth.go`, `mfa*.go`, `trusted_device.go`, `password_change.go`) | `users`, `user_mfa`, recovery codes, trusted devices, refresh tokens, in-memory throttle | login, refresh, second factor, revoke | races with the removal of rights, counters at their limit | the second factor is asked for; codes are the last ones |
| Authorisation (`core/authz`, `middleware/authz.go`, `idle.go`, `handlers/users.go`) | `users`, last activity in memory | filter, administer accounts | tokens that outlive rights | work is done with the rights of now |
| Files of the base (`db/pending_*.go`, `dbcrypt*.go`, `backup*.go`) | files, markers and keys on disk | back up, stage and apply a restoration, encrypt, decrypt, recover | a stop between two renames | there is always one base that opens, with the right books |
| Contacts and recipients (`handlers/contacts.go`, `contact_anonymise.go`, `services/invoicing/service.go`) | `contacts`, the recipient on `invoices` | create, change, anonymise; freeze at issue; complete at startup | a contact that changes while its document is sent | a document sent keeps its own recipient |
| Migrations and retention; settings; exchange formats; layout of documents; launcher and command line; web interface | tables and files | single statements, straight SQL or output only | little | - |

A request touches several components: a transition of an invoice calls the
invoicing service, which calls `accounting.CreateEntry` and `PostEntry`, which
append to the chain; `record` then traces the action in the chain in a
transaction of its own. Startup runs, in order, a pending restoration, the
reconciliation of encryption, the opening, the migrations, the backfills, the
retention, and only then listens (`cmd/server/main.go`).

## 2. Modules

| Module | Models | Notes |
|---|---|---|
| `Ledger` | journal, fiscal years, closing, startup backfill | a transaction is one step, what precedes it is not |
| `AuditLog` | what the chain promises | abstract specification |
| `AuditAppend` | `AppendAuditEntry` statement by statement over SQLite's locks | refines `AuditLog` |
| `Attestation` | report on the chain, attestation, files of each day | the base may be put back to a copy, a row changed |
| `Invoicing` | sales documents, their entries and payments | every statement between two transactions is a step |
| `Suppliers` | supplier invoices, payment files | the same |
| `Banking` | reading and import of statements, suggestions, decisions | every statement of an import is a step |
| `Reports` | every report that states an amount, exports and the legal archive | operators over the state; an operation is one step |
| `Contacts` | contacts and the recipient of each document | reads apart from the transaction that writes |
| `Access` | accounts, sessions, second factor, rights | every statement is a step |
| `DbFiles` | the files of the base | every file operation is a step, with a stop between any two |
| `LedgerProofs`, `AuditProofs`, `InvoicingProofs`, `SuppliersProofs`, `ReportsProofs`, `ContactsProofs`, `AccessProofs`, `DbFilesProofs` | theorems | TLAPS; those on `Banking` are in `LedgerProofs`, those on `Attestation` in `AuditProofs` |
| `MC...` | instances for TLC | values of constants, symmetry, the constraint of the run |

Modules share no variables: what one needs of another it takes for one step. `Ledger`,
`Invoicing` and `Suppliers` take for one step what `AuditAppend` shows: a
transaction on the clear base holds the write lock from its beginning, and its
effect and its link are committed together or not at all. `Invoicing` and
`Suppliers` reduce `CreateEntry` and `PostEntry` of `Ledger` to the entry they
leave, and take every refusal of theirs as an end of the request. `Reports` takes
the operations of `Ledger` and `Invoicing` as steps and keeps the lines and dates
of their entries. `Attestation` takes a posting with its link as one step.

Definitions commented *Faulty variant* are not part of any specification. Each
is a definition with one plausible mistake; putting it in the place of the right
one makes a property fail, which shows that the property depends on that line.

`Abandon(p)` (`AbandonImport` in `Banking`) ends request `p` after any of its
statements: a refusal, a failed statement, a cancelled context, the death of the
process. `disturbed` is a history variable: rows that two requests treated at
once, or on which one stopped half-way. No guard reads it; some properties speak
of the other rows only, and say so.

### Ledger

Tables are sequences in order of insertion; NULL in `fiscal_year_id` is 0. Dates
are numbered accounting periods, `YearLength` of them to a calendar year, so that
fiscal years may start and end inside one. The lines of an entry are reduced to
their net debit on four accounts: a balance-sheet account, revenue, expense and
account 5900. `req[p]` is what connection `p` is doing and has read.

| Code | Actions |
|---|---|
| `CreateEntry`, `EnsureFiscalPeriod`, `nextReference` | `CreateEntry`, one transaction |
| `PostEntry`: status; period and sum; transaction | `PostLoad`, `PostCheck`, `PostCommit` |
| `CloseYear`: year; drafts; balances; transaction | `CloseLoad`, `CloseDrafts`, `CloseBalances`, `CloseCommit` |
| `handlers.CreateFiscalYear`: overlap; insertion | `DeclareYearCheck`, `DeclareYearInsert` |
| `ensureCalendarYear`, `attachOrphans` at startup | `BackfillYear`, `BackfillAttach` |
| an error or a cancelled request; the death of the process | `Abandon`, `Crash` |

The triggers of migrations 0001, 0013 and 0028 are in the actions they abort: a
second posting of an entry rolls back with its link, and the attachment of
orphans fails when a posted one would stay without a year. The UNIQUE columns
(`reference`, the name of a year) are guards. Initial states are an empty base,
and a base of a version before 1.4.6 with one posted entry that has no fiscal
year. The server is starting in both.

### AuditAppend

`conn[p]` holds the place of request `p` in its transaction, the version of the
base its snapshot shows and the link it read. `txlock` says how the base was
opened. A *poster* changes the books in the transaction of the link
(`accounting.PostEntry`, `CloseYear`); a *tracer* has committed its action before
(`recordOn`, `traceFor`). Busy timeouts, cancelled requests and a crash may
occur at every statement. A link's hash is identified with what it hashes, since
the hash function does not collide for our purpose.

### Attestation

`base` is one record: the rows of `audit_logs`, the entries posted, what was
changed. `PostEntry` adds a link, `Backup` and `Restore` copy the base and put
it back, `ChangeRow` alters any of the columns of one row together (what it
says, its digest, its version), or its link to the one before, or its number, or
removes it: the change nobody is supposed to make, which a verification is there
to tell. `damage` remembers what was changed: *plain*; *unseen*, what no walk can
see (`Effect`: what a row of version 1 says, the last row written anew with its digest or
removed); *lowered*, a row whose digest could be computed again and that
now says it is of version 1, for which it is not.
`ComputeChainReport` is the walk of `handlers/audit.go` with its five kinds of
break. `Download` is the attestation of the moment; `EmitBuild`, `EmitWrite`,
`EmitRename`, `EmitFails` are the file of each day, written beside and renamed,
then pruned; `TakeOut` carries one away. `VerifyAttestation` compares a held
attestation with the base of now, and `Favorable` is the verdict. A row of
version 1 bears the digest of values that were not stored (`NotStored`), as before
1.4.6.

### Invoicing

| Code | Actions |
|---|---|
| `UpdateInvoiceBy` | `UpdateLoad`, `UpdateCheck`, `UpdateCommit` |
| `TransitionBy` to sent | `TransitionLoad`, `Issue`, `IssueCheck`, `IssueAmounts`, `IssueCreate`, `IssuePost`, `IssueLink` |
| to cancelled, to draft, to archived | `SetStatus`, then `ReverseCreate`, `ReverseFlag`, `ReversePost`, or `ClearLink` |
| to paid | `SettleRead`, then a payment |
| `RecordPayment` | `PayLock`, `PayLoad`, `PayCreate`, `PayPost`, `PayStore`, or `StoreFails` and a reversal |
| `ConvertQuote`, `SetQuoteOutcome`, `CreateCreditNote`, `CreateInvoice` | one action each |

Left out: lines, VAT and rounding (a document is its total; they are in
`Reports`), recipients (in `Contacts`), document numbers, the choice of accounts.

### Suppliers

| Code | Actions |
|---|---|
| `CreateSupplierInvoice` | one action; a pair (supplier, reference) is unique |
| `UpdateSupplierInvoice` | `UpdateLoad`, `UpdateCommit`, which repeats the status |
| `DeleteSupplierInvoice` | `DeleteLoad`, `DeleteSupplierInvoice` |
| `TransitionSupplierInvoice`, `postSupplierInvoice` | `TransitionLoad`, `BookLoad`, `BookCreate`, `BookPost`, `BookLink`, `SetStatus` |
| `cancelOne`, `reverseSupplierEntry` | `CancelLoad`, then `CancelErase` for a draft, or `ReverseCreate`, `ReverseMark`, `ReversePost` |
| `buildRunTransactions`, `ExportPain001` | operators `Accepted`, `PaymentFile` over every selection |

`decidePayment` is the decision table of the accounts: `qr_iban` with a QR
reference, `iban` with the others. `AccountKinds` is what the form of a contact lets
it hold, a QR-IBAN as `iban` included: `ValidateIBAN` accepts it there, and it is then
paid with a creditor reference or with none. "invalid" stands for an account that did
not pass by the form; one from before the form, an ordinary account as `qr_iban`,
is left out. `amount_paid` is left out: no handler writes it.

### Banking

`ParseCamt053` reads a file: entries that are booked and whose amount can be read
(`IsRead`), their details, batches that `splitBatch` can account for. An import is
`Start`, then for each operation `Look` (the fingerprint of older versions) and
`Insert` (the UNIQUE fingerprint). `fingerprintV2` holds the rank of an operation
among the identical ones of its file. `Texts` are the values of a column of a file,
`Booked` what the bank booked, `BookedAndRead` what of it can be read; the amount of a
detail can always be read here. `Suggest` is read whenever the list is, and
`FindByAmount` takes the invoices within one centime; `Match`, `Unmatch`, `Ignore` are
the decisions, `InvoiceMoves` the life of the sales invoices.

### Reports

A journal is a bag of entries, each a set of lines; a document has a base, VAT and a
total rounded to 5 centimes in rappen. Operations change them, one step each, with
what they leave when refused: `SendDocument` sends a document without an entry when
the entry is refused, or when the company does not post on issue. `AddDocument` is the
insertion that `CreateDocument`, `InvoiceQuote` (`ConvertQuote`) and `CreditInvoice`
(`CreateCreditNote`) share. Each report is an operator of the state: `BalanceSheet`,
`IncomeStatement`, `GeneralLedger`, `TrialBalance`, `AccountBalance`,
`IntegrityCheck`, `mouvements`, `Etabli`, `Fortune`, `ChiffreAffaires`, `ARaging`,
`GetStats`, `MonthlyRevenue`, `Revenue`, `GenerateDeclaration`, the tables exported
(`ExportJournalCSV`, `ExportLedgerCSV`, `ExportTrialBalanceCSV`) and what
`LegalArchive` holds. The properties compare them.

`CreateDocument` refuses a closed year and attaches the document to its year.
`InvoiceQuote` and `CreditInvoice` do neither, and `UpdateInvoice` gives a draft
another date and leaves its year; `BackfillFiscalYears` is what a start attaches.
The tables an archive is made of are read at one instant here. The dashboard is
looked at on a day of `Looks`: `shownMonths` are the six months it names, `Invoiced`
the invoices its query takes, `MonthOf` the month of each day. Years are common ones,
February has 28 days.

### Contacts

A contact is its kind, its name and its address, complete or not. `UpdateContactLoad` and
`UpdateContactCommit`, `AnonymiseLoad`, `AnonymiseCheck` and `AnonymiseCommit`,
`UpdateInvoiceLoad` and `UpdateInvoiceCommit`, `TransitionLoad` and
`TransitionCommit`, `IssueRead` and `IssueCommit` are the reads and the
transactions of each handler. `CreateInvoice`, `ConvertQuote` and
`CreateCreditNote` copy the recipient in one. `Restart` is the backfill of
recipients at startup. Initial states are an empty base and one of an older
version with a document whose recipient was reconstituted.

### Access

Each request is read (`LoginRead`, `VerifyRead`, `RefreshRead`, ...), then passes
the steps of its handler, or first those of the filters (`DenyWrites`,
`RequirePasswordChanged`, `RequireMFARole`, `RequireMFAEnrolled`, `Require`), and
reaches `Work`. Login is `LoginRead`, `LoginFactor`, `LoginDevice`,
`IssueSession`, or a challenge answered by `VerifyRead`, the recovery code
(`CodeLook`, `CodeRight`, `CodeWrong`) and `VerifyState`. A read of the second
factor that fails counts as no factor (`LoginFactor`, the place "unread"), one of the
device as no device. `deniesWrites` refuses a reader by the method, the reads sent by
POST included. Administration is
`CreateUser`, `LastAdminTarget`, `LastAdminCount`, `UpdateUserRole`,
`Deactivate`, `Reactivate`, `ResetPassword`, `RemoveMFA`. `Expire`, `FallQuiet`,
`WindowPasses` and `Restart` are time and the loss of what is in memory.

### DbFiles

`live`, `wal`, `aside`, `converted`, `staged` are files, each the books it holds and
the key it is written under, or torn; `sealed` and `wrap` are the key sealed to the
account of the machine and the key wrapped with the recovery phrase; `restore` and
`pending` are markers. The start is `Start`, the restoration (`TruncateBase`,
`CopyStaged`, `DropSidecars`, `DropStaged`), the reconciliation (`Reconcile`,
`Convert`, `SetAside`, `PutInPlace`, `DropOriginal`, and to decrypt
`ReconcileDecrypt`, `ForgetSealed`, `ForgetWrapped`, `Unmark`), and `Open`. Requests
of the administrator are the actions from `SnapshotTorn` to `RecoverKey`. A `VACUUM
INTO` that succeeds is one step; one that fails, or in which the machine stops, is
`SnapshotTorn`: it leaves a torn file or an empty one, which is then listed, chosen,
encrypted and pruned as the others are. `Crash` stops the machine before any step,
`CopyFails` fills the disk, `LoseAccount` makes the sealed key unreadable. `mishap` is
a history of what went wrong, `current` of the books the user works on.

## 3. What is checked

| Run | Instance | Shows |
|---|---|---|
| `ledger` | 2 connections, 3 dates over 2 calendar years, 3 entries, 3 fiscal years | `PostedExactlyOnce`, `AtMostOneClosingEntry`, `NumberedWithoutGap`, `DatedInItsYear`, `Sealed` |
| `ledger_lock` | the same | *fails*: nothing is posted into a closed year |
| `audit` | 2 posters, 2 tracers, both kinds of base | the chain refines `AuditLog` (`ChainSpec`), books and chain agree, no stale snapshot on the clear base, the write lock is always released |
| `invoicing` | 2 requests on one invoice, totals 1 and 2, 3 entries, 2 payments; or 1 request and 3 documents that begin with a quote | `PaymentsAddUp`, `EntriesPosted`, `BooksMatchDocument`, `ConvertedOnce` |
| `suppliers` | 2 requests, 2 invoices of 2 suppliers, one with its QR-IBAN as ordinary account, 3 entries, every selection for payment | `BookedOnce`, `LinkPosted`, `ReversedOnce`, `FileIsWhole`, `SealedOnceBooked` |
| `banking` | 2 imports, 4 files, one row of an older version, 2 invoices | `NothingLostNorDoubled`, `ReadInFull` |
| `files` | 3 snapshots of which 2 are kept, 2 keys, one entry, one stop | `BooksKept`, `KeyHeld`, `UndoKept`, `LatestReadable`, `StartsAgain` |
| `access` | 2 accounts, 2 connections, 3 requests, 4 installations | `WorkAsAllowed`, `SecondFactorAsked`, `BootstrapOnce`, `CodesOfLastEnrolment`, `ThrottleBounds`, `QuietStaysOut` |
| `reports` | 2 years of one day, a document of 3 kinds of sale and a credit note on it, 2 entries by hand to choose from | `CarnetExplained`, `SheetExplained`, `DocumentsExplained` |
| `reports_turnover` | the same, 1 document | *fails*: a closing does not change the turnover |
| `attestation` | up to 3 postings after 0 or 2 old links, 1 row changed, 2 days, 1 file kept | `DamageReported`, `AttestationHolds` |
| `contacts` | 2 requests, 2 contacts, 2 documents, changes of one column or of all | `SentNamesItsRecipient`, `PrintedStays` |

### Why the bounds are enough

Two connections are what every race here needs: the one that read and the one
that wrote meanwhile. Four requests on the chain give three concurrent appends
around a finished one. Connections are symmetric where no liveness is checked.

`ledger`: three entries give two races on drafts and a closing entry; three dates
over two calendar years give a year closed and one that follows, a declared year
that straddles both, and an orphan whose calendar year is half taken; three
fiscal years admit a declared one, one made on the fly and the one a closing
adds. The theorems lift these bounds.

`invoicing`, `suppliers`: three entries hold an issue, its reversal and a second
issue, or an issue and two payments. Every statement names one document, so
requests meet on one; documents meet in conversions, in the ceiling of credit
notes and in a payment file, for which a second and a third are there. The
constraint `MCFocus` keeps apart what does not meet: `invoicing` follows either
requests that interleave on an invoice, up to the second payment and without a
concurrent modification or archiving, or a quote and one request at a time;
`suppliers` has the second invoice treated alone. A state beyond the constraint is
checked but not continued.

`banking`: operations that differ by the party alone, twice in a file and in the other
order in another, are the case a fingerprint must tell apart; one batch adds up and
one does not; one entry is not booked and one cannot be read; an invoice is a centime
away from an operation. `files`: pruning begins with the third snapshot when two are
kept, a second key comes from encrypting again, and one stop between any two steps is
what each step must survive; neither the third snapshot nor a torn one is combined
with keys or failures, which the theorems cover. `access`: two accounts give an
administrator and somebody it administers, or two administrators who act on each
other; a third request comes only for those who come back. `reports`: two days are two
years, so that a period, a closing and a following year exist; a sale with VAT, one
whose total is rounded and one rounded to nothing, each sent with its entry or
without; the first day is in December and the second in January, so that the six
months of the dashboard hold both, the first or the second, or, on a 31 January, are
not six; an entry by hand that puts
something on the receivables and on the VAT due, and a transfer between accounts of
money; none of them beside a credit note or beside a document in another year than its
date or sent without an entry, which the theorems cover. `attestation`: three postings
give a copy, what followed it and what replaces it. `contacts`: the second document is
made from the first; rows that two requests were about to write at once are not
followed.

Bounds named `Max...` are guards of the actions that insert a row. A request
stopped by one is still ended by `Abandon`. `AuditAppend`, `Suppliers`, `Access`,
`Reports` and `Attestation` may come to rest, when every request has run, every
row is there or the last day has come; their runs do not look for deadlock. The
others do.

### Fairness

`LockReleased` in `audit` is checked under weak fairness of each request's next
statement: a goroutine whose next statement can run is scheduled by the runtime
and runs it. Nothing is assumed of timeouts, of cancellations or of the crash,
which may never happen.

`StartsAgain` in `files` is checked under weak fairness of `Starting` and strong
fairness of `PutInPlace`. Whoever uses the program starts it again after a stop,
and the steps of the start wait for nobody; a rename that another program on the
machine refuses for a while succeeds in the end. Nothing is assumed of stops, of
full disks or of requests.

The other modules have no liveness property: the code retries nothing and
promises no request an answer.

## 4. What is proved

`LedgerProofs` proves, for every set of connections, dates and movements, every
`YearLength` and all bounds, from `LedgerAssumption` alone:

- `LedgerInvariant`, and of it `RowsTheorem`: rows have the types of their columns,
  every entry has its lines and its fiscal year, what a request has read exists;
- `PostedExactlyOnceTheorem`, `AtMostOneClosingEntryTheorem`,
  `NumberedWithoutGapTheorem`, `DatedInItsYearTheorem`: the invariants of `ledger`;
- `SealedTheorem`, `ClosedForeverTheorem`: its action property, and that no step
  changes a closed fiscal year.

None of the invariants is inductive alone. The inductive invariant (`LedgerInv`) is the
conjunction of the rows; the numbers 1..n of each year; the uniqueness of
references (the numbers alone do not exclude two closing references); the
existence of the entry each link names (otherwise a new entry could come with a
link); one link per posted entry; and the dates of attached entries.

The argument is in two halves. `StepEffect` says that a step of whatever action leaves
the journal as it is, adds one draft, posts one draft, adds one closing entry, or
attaches orphans to years, and that fiscal years are only added and closed. Each
conjunct of the invariant, and each action property, is then proved for those five
effects and never again for the single actions. `AtMostOneClosingEntry` follows from
the uniqueness of references: a closing's reference is computed from the end of its
year, which never changes. `Sealed` for a posted orphan follows from the trigger's
condition in `BackfillAttach`.

`AuditProofs` proves, for every set of posters and tracers, from
`AuditAppendAssumption` alone (nobody both posts and traces, the two sentinels
are no request and no link), and for both ways of opening the base:

- `ChainRefined`: `AuditAppend` implements `AuditLog`, initial state and step;
- `BooksMatchChainTheorem`, `ImmediateNeverStaleTheorem`, `AuditTypes`: the
  invariants of `audit`.

That a commit adds the link after the last one rests on a chain of facts, which
are the conjuncts of the inductive invariant `AuditInv`: sequence numbers are
positions, so the query finds the last link (`LastRowIsEndRow`); a snapshot of
the current version shows that link (`SnapshotsOK`); a transaction that has
written holds the lock and its snapshot is current (`WritersOK`), because the
insertion checked it and nobody else can commit since. On the clear base the lock is
held from BEGIN, so the check never fails (`ImmediateOK`). All actions but
`Act`, `ReadLast`, `Commit` and `Crash` only move one request, and share the
lemma `MoveKeeps`.

Its second part proves of `Attestation`, for any number of postings, copies,
restorations, days and files, and for every initial number of rows of version 1, from
`AttestationAssumption` alone:

- `DamageReportedTheorem`: the walk along the chain reports a base in which any columns
  of one row were changed, and reports no other, but for what bears on the last row,
  for a digest it cannot compute, and for a row lowered to version 1;
- `AttestationHoldsTheorem`: books that confirm an attestation hold, in the place of
  every row it was drawn from, one with its number, its digest and its link to the one
  before, that says the same if both digests can be computed; and books that hold the
  rows and that only the program wrote confirm it.

The second does not say that a covered row was not written anew: lowered to version
1 it may have been (`NothingRewritten` does not hold), and the attestation is confirmed.

`AttestationInv` speaks of every table there is: that of the base, those of the
copies, those an attestation held or on disk was drawn from. Each is a chain unless a
row of it was changed visibly (`BaseOK`, `DocumentOK`), and its links bear a digest
that the program wrote, of an entry or of what was not stored (`KnownTable`), or the
one a change put there: a changed digest is one that nothing else has. `NoFork` is
what the tables share: a digest, changed or not, has one number and one link before
it, in whatever table (`Twin`), because a base put back is continued by postings of a
new content. The first theorem needs that a table without a break is such a chain
(`SoundIsChained`), that one changed row breaks it where it was (`BreaksAfter`,
`BreaksBefore`, `RewrittenShows`), and that `Effect` names what a change shows
(`EffectIs`). The second goes down from the head: the verdict finds the head in both
tables, two links of one digest have one place and so links before them of one digest
(`SameLink`), and a least distance from the head at which the tables would differ does
not exist (`SameHistory`). One row is changed, once, as in the run: two changes may
hide each other, and the theorem would be false of them.

`InvoicingProofs` proves, for every set of requests, types and amounts and for
all bounds, from `InvoicingAssumption` alone:

- `EntriesPostedTheorem`: a document's link leads to its posted entry of issue,
  and a payment's entry is posted, for its document and its amount, and no
  reversal names it;
- `ConvertedOnceTheorem`: two documents never come from one quote;
- `PaymentsAddUpTheorem`: the amount paid of a document is the sum of its payments;
- `BooksMatchTheorem`: when no request is at work on a document that requests have
  treated one after the other, its entries in force are those its status calls for,
  of its amounts.

The first is not inductive. A payment stores, four statements later, an entry it
created, posted and could have had to reverse; in between, other requests post,
reverse and store theirs. `InvoicingInv` adds what each request remembers
(`RequestOK`: the document exists, the entry it holds is of that document and of
that amount, the amount paid that it read is still in the row as long as it holds
the mutex) and `Apart`: an entry is stored with a payment, or reversed, or one
request still has to do one of the two, never two of these. The mutex is what
keeps the amount read current; it is not what keeps entries apart, for which it is
enough that `CreateEntry` numbers each entry anew. `ApartStep` lists the six ways in
which a step may move the sets of `Apart`. `QuietStep`, `JournalStep` and
`TableKeeps` are the frames: a step that moves one request, one that adds or posts
an entry, one that writes a document. There is then one lemma per action.
`ConvertedOnce` is inductive once the rows are, because the conversion makes its
search in the transaction that inserts the invoice.

The last two are about sums over sets of payments and entries. `SumFunctionOnSet` is
a fold: what it gives is found by the first-order form of induction, a smallest
finite set for which there would be no sum (`LeastNumber`, `SmallestSet`,
`SumUnfolds`), and `SumAdds` is the one fact the rest uses. `BooksInv` says of a
document what holds while its one request is at work: the entry in force that the
request has still to link, to store with a payment or to reverse is set apart
(`Unsettled`), the others agree with the document (`Settled`), and what the request
has read still holds (`Knows`). A document leaves the invariant when two requests
treat it at once or one stops half-way (`disturbed`), and does not come back.

`SuppliersProofs` proves, for every set of requests, keys, references and totals
and for all bounds, from `SuppliersAssumption` alone:

- `LinkPostedTheorem`: the link of a supplier invoice leads to a posted entry of
  its own that is no reversal;
- `SealedOnceBookedTheorem`: no step changes the supplier, the reference or the
  amount of an invoice that is no draft, however long ago the request read it;
- `BookedOnceTheorem`, `ReversedOnceTheorem`: the purchase of an undisturbed invoice is
  posted at most once and taken back at most once, by its own amount;
- `FileIsWholeTheorem`: a payment file pays the whole of the selection, no reference
  of a supplier twice and a QR reference on a QR account only, or is refused.

`SuppliersInv` needs that one request at most owns an entry not yet posted
(`OwnedOnce`): a cancellation marks the draft it created as a reversal, and could
otherwise mark the one that a booking is about to post and link.
`BookingOK` says how far the owner has come: a booking has posted its entry when
it comes to the link, a cancellation has not when it comes to the mark. The second
theorem rests on the status that the `UPDATE` of a modification repeats in its
`WHERE`; what the request read before is not used. `BooksInv` adds to it the
chain from an invoice to its purchase and from the purchase to its reversal, with the
statement at which the one request of the invoice has come (`ChainOf`, `Settled`).

The second part of `LedgerProofs` proves of `Banking`, from `BankingAssumption`: files
are sequences of entries, the invoices and the rows of older versions are finitely many,
and no two of those rows differ in the party alone, which the fingerprint of then, a
UNIQUE column, did not tell apart.

- `NothingLostNorDoubledTheorem`: of operations that look the same the table holds as
  many as the statement that shows the most of them, once that import ended, however
  many imports run at once and wherever they stop;
- `ReadInFullTheorem`: what is read of a file makes what the bank booked in amounts that
  can be read, for every file, whatever batches are split;
- `BankingTyped`.

`BankingInv` bounds the rows from both sides: every operation an import has passed is
held (`Held`), and every row is of an older version or of a rank that some statement
begun reaches (`RankedRow`). Equality of numbers follows from two injections. The
second theorem is a statement about recursive functions over a file: the sums of its
prefixes are compared one entry and one detail at a time, by a least prefix where they
would differ.

`ReportsProofs` proves, for every set of days, of fiscal years, of sales and of entries
written by hand, on any accounts, and for all bounds, from `ReportsAssumption` alone
(amounts are natural numbers, an entry by hand has finitely many lines, the last day
ends a year):

- `CarnetExplainedTheorem`: the simplified accounts show what the accounts of money
  did, in every period;
- `SheetExplainedTheorem`: as long as no closing was posted unbalanced, the balance
  sheet lacks the result not yet closed and nothing else, trial balance, general ledger
  and exports agree, and the archives hold the entries of their documents;
- `DocumentsExplainedTheorem`: ageing, dashboard over the six months it shows,
  receivables, turnover and VAT declaration agree, up to the terms the property names,
  whatever the months of the days and the day the dashboard is looked at, where each of
  the six months has that day;
- `ReportsTypes`.

The first two are about entries alone: all are balanced but those of a closing
(`JournalOK`), whose lines are on sales, fees and the result, so that a closing moves
no money and no receivable. Splitting a sum over accounts, days or kinds of entries is
then arithmetic (`ReportsInv` is needed only for what it says of entries). The third
compares two tables. Its invariant, `Books`, says that for every set of days, what
issues and reversals dated in it have put on the receivables and on the VAT due is
what the documents of those days that are entered and neither draft nor cancelled
bill, and that payments have taken off the receivables what those documents have been
paid. A set of days, and not one period, because a document reissued keeps its days
apart from those of its earlier entries, and because payments are dated as they
please. A reversal that a closed year refused ends it (`stray`), as the property says.
The journal is a bag: `Added` and `AfterPosting` change one multiplicity, and what
that does to a sum is proved once (*What operations write*). The lemmas on sums are
those of `InvoicingProofs`, which the module extends.

`ContactsProofs` proves, from `ContactsAssumption` (names and addresses are not the
words that stand for nothing and for no value):

- `SentIsAddressed`: a document sent names an identity its contact has had, with its
  address;
- `PrintsStay`: no step changes what is printed of it, but the one completion that
  the start makes;
- `StayBillable`: a customer that can be billed ceases to be one by anonymisation
  only; `ContactsTyped`.

`ContactsInv` keeps, for each request, what it has read and still holds
(`ContactStands`, `DocumentStands`), as long as it is alone at the row (`Alone`).

`AccessProofs` proves, from `AccessAssumption` (the initial populations have roles,
`MaxFailures` and `MaxEnrolments` are positive, requests are finitely many), all that
the run `access` checks: `HandlersWorkAsAllowed`, `FactorAsked` (of logins whose reads
succeed), `OneBootstrap`, `CodesAreLast`, `ThrottleHolds`, `QuietNeedsLogin`, with
`AccessTyped`. In `AccessInv`, `Cleared` says what each filter has found and that it
stands as long as nobody changed the account meanwhile; `Throttled` counts the
failures with the requests that have passed the throttle and are not yet counted,
which is why the bound is the limit plus the requests in flight; `FoundedOnce` is what
the condition inside the insertion of `Bootstrap` gives.

`DbFilesProofs` proves, from `DbFilesAssumption` (`Keep` and `MaxKeys` positive, the
other bounds natural numbers):

- `KeyHeldTheorem`: some key opens the base after every file operation;
- `BooksKeptTheorem`: the base that is served holds the books the user left or asked
  to restore;
- `LatestReadableTheorem`: the last snapshot completed can be read, whatever torn
  files lie beside it;
- `UndoKeptTheorem`: what a restoration replaces is in a snapshot, or pruning kept as
  many later ones; `FilesTyped`.

`FilesInv` says for each step of the start which file has the books: the base, the one
set aside, the one converted or the one staged (`BooksOK`), and under which key
(`KeysOK`). It holds for any number of stops; the two known losses, a stop between the
renames and a copy that failed, are its hypothesis `Sound`. `CopiesInv` is about the
list of snapshots: each has at most one file in each form, the one at work comes
first (`Taking`, `Encrypting`, `Staged`), its ciphertext is as good as its copy in clear
before that copy goes (`WorkOK`), and as long as nobody encrypts old ones the
list is in their order (`SortedOK`). Pruning keeps a prefix (`PruningKeeps`): either
the prefix still reaches back to the snapshot taken for the restoration, and then
contains it, or all of its `Keep` files are later, and each of another snapshot
because only the one being encrypted has two (`OneFile`). `Removed` and the order of
`EncryptExisting` are written so that positions in the list can be reasoned about.

Only model-checked: liveness, `LockReleased` and `StartsAgain`, which is outside what
the prover handles. In `Ledger` no run and no theorem is about the amounts of
journal lines; they are the matter of `Reports`.

## 5. What the runs found

- **An entry posted into a closed year** (`ledger_lock`). `PostEntry` checks the
  period before its transaction and not in it. The entry must also have been created
  after the closing counted the drafts. The comment in the code and
  `docs/ARCHITECTURE.md` say this cannot be.
- **The turnover of a closed year is zero** (`reports_turnover`). `eligibilite`
  sums the revenue accounts of the year, and the closing entry, dated its last
  day, has brought them to zero. The business is then told that it may keep
  simplified accounts, whatever it sold.

The model shows more that has no run of its own. The first list is of what a comment
of the code says and the code does not do. Each is a property of a module, and TLC
finds it violated when it stands in the place of the invariants of the run named:

- `UnreadFactorRefused` in `access`: a second factor that cannot be read is not asked
  for. `mfaEnabled` answers no when its query fails (`auth.go:170-172`), and `Login`
  gives a session for the password alone, of which 137-141 say that it is not enough.
  The filter that reads the same column refuses on such a failure, and says why
  (`authz.go:207-217`).
- `ReaderComputes` in `access`: two routes are reads sent by POST, and
  `cmd/server/main.go:463-468` and 532-533 say that a reader must be able to use them;
  the filter on the method (`authz.go:285-290`) comes first and refuses them whatever
  the route declares. `WorkAsAllowed` therefore says nothing of the method.
- `NothingRewritten` in `attestation`: a covered row can be written anew under a
  confirmed attestation, against `attestation_verify.go:22-27` and 233-235. The walk
  computes the digest of a row unless the row itself says that it is of version 1
  (`audit.go:401-403`), and nothing covers what it says.
- `ReferenceSuitsAccount` in `suppliers`: a QR-IBAN typed as the ordinary account of a
  supplier is paid without a QR reference (`payments_run.go:208-231`), of which 56-58
  and 183-187 say that it is never done and that the bank returns such a file.
- `AllBookedRead` in `banking`: `ParseCamt053`, which returns all booked entries by its
  comment (`camt053.go:38`), skips one whose amount does not parse, without an error.
- `ExactAmount` in `banking`: a suggestion by exact amount may be a centime away, the
  tolerance meant for the rounding of floats being larger than a centime
  (`reconcile.go:300-308`).
- `SixMonthsShown` in `reports`: on the last days of a month, going back by months leads
  to days that do not exist and counts as the next month (`stats.go:278-281`): on
  31 January December is shown twice, and what was invoiced in November is not.

The second list is of properties that TLC finds violated in the same way, and of states
that the module reaches:

- *Journal.* A revenue account on the debit side, or an expense account on the credit
  side, gets no closing line while 5900 receives the whole result: the closing entry
  is posted unbalanced (`PostedBalances`, `fiscal_year.go:161-180`). Overlapping years
  appear although declaring one is refused (`YearsDisjoint`,
  `handlers/fiscal_year.go:132-140`); the theorems hold all the same, and an entry
  goes to the one that starts last. An orphan whose calendar year another fiscal year
  overlaps without covering its date stops every startup. Two fiscal years that end in
  one calendar year share the reference `CLOTURE-<year>`, so the second cannot be
  closed.
- *Audit chain.* `_txlock=immediate` is not set on the encrypted base: a trace is lost
  to a stale snapshot (`NeverStale`, `open_encrypted.go:27-48` against
  `sqlite_uri.go:65-80`). The chain stays whole, the action is not in it: the request
  reads the last link, another commits, the insertion fails with SQLITE_BUSY and
  nothing tries again.
- *Attestation.* The verdict for a chain broken after an attestation says that the
  entries it covers have not moved (`attestation_verify.go:225-228`). The digest of a
  link does not cover `prev_hash`, so the head identifies its own row and the break
  may lie inside what was covered. A file of the day written after a restoration
  replaces a more complete one.
- *Sales documents.* Two requests that send one draft both post its entry
  (`IssuedOnce`, `posting.go:107-125`). Credit notes exceed the invoice, the ceiling
  being checked before the transaction of an update and not at all when a cancelled
  note is reopened (`CreditWithinInvoice`, `service.go:375`, `1355-1358`). A quote
  already converted can be marked refused. A payment that began before a cancellation
  stores its status by id alone (`payments.go:326`): the invoice is cancelled, its
  entry of issue reversed, and it is then sent or paid again. The payments add up and
  lead to their entries all the same.
- *Suppliers.* A change of status is decided on the status read first and written by
  id alone (`supplier_invoices.go:454`): two requests that book a draft at once both
  post its charge, and an invoice cancelled in between is paid or booked again while
  its charge is taken back. A payment file may order what the books do not hold, an
  invoice that reached `booked` by way of `paid` (`FilePaysDebts`,
  `payments_run.go:126-131`). An invoice can be exported again until it is marked
  paid.
- *Banking.* Two identical operations of one day in two files count as one. A paid
  invoice is still suggested by its QR reference. That first rule reads
  `invoices.qr_reference` (`reconcile.go:279-298`), which no code writes: the
  reference on a payment slip is computed when it is printed. The instance gives one
  invoice a reference, as `reconcile_test.go` does, so that the rule is run.
- *Files.* A torn snapshot counts among those that pruning keeps, in the place of a
  good one; an empty one passes verification and can be restored. A stop between the
  two renames of `swapDatabase` leaves no base, and the next start makes an empty one
  beside the one set aside (`dbcrypt_migrate.go:148-156`). A copy that fails for want
  of room has truncated the base, while the log says that it was kept.
  `EncryptExisting` gives old snapshots new dates, so that pruning deletes by the
  wrong order (`PruneDeletesOldest`). The base that a restoration replaces is saved
  when the restoration is asked for, not when it is carried out (`ReplacedIsSaved`,
  `pending_restore.go:102-103`). A clear base beside an unreadable sealed key stops
  every start.
- *Access.* Two administrators who deactivate each other leave none (`AdminRemains`,
  `users.go:286-307`). An account that loses its rights after the filter read them
  does its work all the same (`authz.go:237`); `WorkAsAllowed` sets such requests
  aside. Setting up a second factor again may undo a confirmation that came in
  between.
- *Reports.* The income statement of a closed year is zero for the same reason as the
  turnover. An invoice archived within its period is in the turnover and not in the
  VAT declaration. The ageing shows the whole of an invoice paid in part. The archive
  of a fiscal year lacks documents whose entry it holds (`ArchiveOfYearWhole`): an
  invoice converted from a quote and a credit note have no year until the next start
  (`service.go:825-830`, `1043-1046`), and a draft given a date in another year stays
  in the first (`service.go:385-390`), for which `service.go:198-201` gives the reason
  a document is attached at all.
- *Contacts.* A contact anonymised can be filled again, `UpdateContact` never looking
  at `anonymised_at`. A correction read while an invoice was a draft may rewrite the
  recipient of the invoice sent meanwhile; a transition may freeze the contact a draft
  was addressed to before. A supplier without a name gets a document without one. Two
  changes of one customer at once can leave it without an address
  (`CustomersStayBillable` sets such rows aside).

## 6. What is not modelled, and what is left

Not modelled: migrations, which are straight SQL run once and whose result is the
initial state of the modules; the deletion of old traces by age; settings, one
row written by one statement; the layout of exports and PDFs; the text of QR
codes and the check digits of accounts; the launcher, the command line and its
restoration; the web interface. Of modelled components: the backfill of supplier
reversals, document numbers, the flat-rate method of the VAT, the windows of TOTP
codes, `LoginRateLimiter`, the mandate, the rotation of the signing key.

Only stated, not run, for they are simpler than what is: the type invariants, which
are proved (of `Invoicing` and of `Attestation`, as the rows of the inductive
invariant); `FilesWhole` in `Attestation`; `CustomersStayBillable` in `Contacts`,
which is proved.

What is left to prove is liveness. What could be stated next: the attestation under
more than one changed row, or one changed twice, where the verdict would have to name
what it cannot tell; the
amounts of documents under concurrent requests, which `Invoicing` has without their
lines and `Reports` with them but one request at a time.
