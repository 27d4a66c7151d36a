------------------------------ MODULE Banking -------------------------------
(***************************************************************************)
(* Bank statements: reading a camt.053 file, keeping its operations once,  *)
(* and matching them with sales invoices.                                  *)
(*                                                                         *)
(* An import runs without a transaction: per operation one SELECT on the   *)
(* old fingerprint and one INSERT that a UNIQUE constraint may refuse.     *)
(* Several imports, of the same file or of files that overlap, run at      *)
(* once, and any of them may stop half way and be started again.           *)
(*                                                                         *)
(* A fingerprint is the hash of some fields; it is modelled by the tuple   *)
(* of these fields, as a hash without collisions.  The date, the currency  *)
(* and the references of an operation are its ref; the counterparty and    *)
(* the remittance are its party.                                           *)
(***************************************************************************)
EXTENDS Integers, Sequences, FiniteSets, SequencesExt

CONSTANTS
  Importers,   \* connections that serve imports
  Texts,       \* references and names, "" for none
  Statements,  \* files that may be imported: sequences of booked entries
  Legacy,      \* operations kept by a version before the rank
  Invoices,    \* sales invoices: identifiers
  InvoiceOf    \* what a sales invoice carries: reference, amount, kind (the
               \* column of the reference is read here, and no code fills it)

NoInvoice == "none"

\* An entry of a statement, with the details its bank gives of it (readable:
\* its amount is written as a number), and what an import keeps.  Amounts are
\* centimes.
Transaction == [ref : Texts, party : Texts, amount : Int]
Booking == [booked : BOOLEAN, readable : BOOLEAN, credit : BOOLEAN, amount : Int,
            txs : Seq(Transaction)]
Operation == [ref : Texts, amount : Int, party : Texts, credit : BOOLEAN]

ASSUME BankingAssumption ==
  /\ "" \in Texts
  /\ Statements \subseteq Seq(Booking)
  /\ IsFiniteSet(Invoices) /\ NoInvoice \notin Invoices
  /\ Legacy \subseteq Operation /\ IsFiniteSet(Legacy)
  /\ \A a, b \in Legacy : a # b => [a EXCEPT !.party = b.party] # b

VARIABLES
  rows,      \* table bank_entries, by fingerprint
  import,    \* per importer: the operations to keep, the next one, the ranks
  started,   \* history: operations of the imports that began
  imported,  \* history: operations of the imports that ended
  status     \* status of each sales invoice

bankingVars == <<rows, import, started, imported, status>>

-----------------------------------------------------------------------------
(* Reading a file *)

\* withTxDetails: the reference and the party come from the detail; the
\* amount of a split batch too.
WithTxDetails(ntry, tx, amount) ==
  [ref |-> tx.ref, amount |-> amount, party |-> tx.party, credit |-> ntry.credit]

Total(txs) == FoldLeft(LAMBDA sum, tx : sum + tx.amount, 0, txs)

\* Faulty variant: the total is not compared.
CanSplitAnyTotal(ntry) == \A n \in DOMAIN ntry.txs : ntry.txs[n].amount > 0

\* splitBatch succeeds when every detail has its amount and they make the
\* total; a missing amount is 0.
CanSplit(ntry) ==
  /\ \A n \in DOMAIN ntry.txs : ntry.txs[n].amount > 0
  /\ Total(ntry.txs) = ntry.amount

ReadEntry(ntry) ==
  CASE Len(ntry.txs) = 1 -> <<WithTxDetails(ntry, ntry.txs[1], ntry.amount)>>
    [] Len(ntry.txs) > 1 /\ CanSplit(ntry) ->
         [n \in DOMAIN ntry.txs |-> WithTxDetails(ntry, ntry.txs[n], ntry.txs[n].amount)]
    [] OTHER -> <<[ref |-> "", amount |-> ntry.amount, party |-> "", credit |-> ntry.credit]>>

\* ParseCamt053: entries that are not booked are skipped, and so are those whose
\* amount cannot be read.
IsRead(ntry) == ntry.booked /\ ntry.readable

ParseCamt053(file) ==
  FlattenSeq([n \in DOMAIN file |-> IF IsRead(file[n]) THEN ReadEntry(file[n]) ELSE <<>>])

-----------------------------------------------------------------------------
(* Import *)

\* fingerprint: all but the party.
fingerprint(e) == <<"v1", e.ref, e.amount, e.credit>>

identityKey(e) == <<e.ref, e.amount, e.credit, e.party>>

\* Faulty variant: no rank.
fingerprintNoRank(e, rank) == <<"v2", e.ref, e.amount, e.credit, e.party>>

fingerprintV2(e, rank) == <<"v2", e.ref, e.amount, e.credit, e.party, rank>>

AtRest == [ops |-> <<>>, next |-> 1, looked |-> FALSE]

Importing(p) == import[p].next <= Len(import[p].ops)

Op(p) == import[p].ops[import[p].next]

\* Operations like the one at hand that came before it in the statement.
Rank(p) ==
  Cardinality({n \in 1 .. import[p].next - 1 : identityKey(import[p].ops[n]) = identityKey(Op(p))})

\* An import over an empty list of operations ends at once.
Start(p, file) ==
  /\ import[p] = AtRest
  /\ import' = [import EXCEPT ![p].ops = ParseCamt053(file)]
  /\ ParseCamt053(file) # <<>>
  /\ started' = started \cup {ParseCamt053(file)}
  /\ UNCHANGED <<rows, imported, status>>

\* The operation at hand is kept, or known: go to the next one, or end.
Advance(p) ==
  IF import[p].next = Len(import[p].ops)
  THEN /\ import' = [import EXCEPT ![p] = AtRest]
       /\ imported' = imported \cup {import[p].ops}
  ELSE /\ import' = [import EXCEPT ![p].next = @ + 1, ![p].looked = FALSE]
       /\ UNCHANGED imported

\* The first of its kind: does a row of the old version hold it?
Look(p) ==
  /\ Importing(p) /\ ~import[p].looked
  /\ IF /\ Rank(p) = 0
        /\ fingerprint(Op(p)) \in DOMAIN rows
        /\ rows[fingerprint(Op(p))].op.party = Op(p).party
     THEN Advance(p)
     ELSE import' = [import EXCEPT ![p].looked = TRUE] /\ UNCHANGED imported
  /\ UNCHANGED <<rows, started, status>>

NewRow(e) == [op |-> e, invoice |-> NoInvoice, ignored |-> FALSE]

\* INSERT; a fingerprint already there is a duplicate.
Insert(p) ==
  /\ Importing(p) /\ import[p].looked
  /\ LET print == fingerprintV2(Op(p), Rank(p))
     IN rows' = IF print \in DOMAIN rows THEN rows
                ELSE [f \in DOMAIN rows \cup {print} |-> IF f = print THEN NewRow(Op(p)) ELSE rows[f]]
  /\ Advance(p)
  /\ UNCHANGED <<started, status>>

\* A failed statement, a cancelled context or the death of the process: the
\* rows inserted stay.
AbandonImport(p) ==
  /\ import[p] # AtRest
  /\ import' = [import EXCEPT ![p] = AtRest]
  /\ UNCHANGED <<rows, started, imported, status>>

-----------------------------------------------------------------------------
(* Decisions *)

Match(f, i) ==
  /\ rows' = [rows EXCEPT ![f].invoice = i, ![f].ignored = FALSE]
  /\ UNCHANGED <<import, started, imported, status>>

Unmatch(f) ==
  /\ rows' = [rows EXCEPT ![f].invoice = NoInvoice]
  /\ UNCHANGED <<import, started, imported, status>>

Ignore(f, ignored) ==
  /\ rows' = [rows EXCEPT ![f].ignored = ignored]
  /\ UNCHANGED <<import, started, imported, status>>

\* List with or without what is settled: operations that get a suggestion.
Listed == {f \in DOMAIN rows : rows[f].invoice = NoInvoice /\ rows[f].op.credit}

FindByReference(e) == IF e.ref = "" THEN {} ELSE {i \in Invoices : InvoiceOf[i].ref = e.ref}

\* Within one centime of the amount, and not more.
FindByAmount(e) ==
  {i \in Invoices : status[i] = "sent" /\ InvoiceOf[i].kind = "invoice"
                    /\ InvoiceOf[i].amount - e.amount \in -1 .. 1}

\* suggest: the outcomes of LIMIT 1 on the reference, else the only invoice
\* about that amount, else nothing.
Suggest(e) ==
  IF FindByReference(e) # {} THEN [of : FindByReference(e), confidence : {"certaine"}]
  ELSE IF Cardinality(FindByAmount(e)) = 1
  THEN [of : FindByAmount(e), confidence : {"probable"}]
  ELSE {}

\* The life of sales invoices, as far as reconciliation looks at it; it is
\* Invoicing's, never a consequence of a match.
InvoiceMoves(i) ==
  /\ \/ status[i] = "draft" /\ status' = [status EXCEPT ![i] = "sent"]
     \/ status[i] = "sent" /\ status' = [status EXCEPT ![i] = "paid"]
  /\ UNCHANGED <<rows, import, started, imported>>

-----------------------------------------------------------------------------

BankingInit ==
  /\ rows = [f \in {fingerprint(e) : e \in Legacy} |->
               NewRow(CHOOSE e \in Legacy : fingerprint(e) = f)]
  /\ import = [p \in Importers |-> AtRest]
  /\ started = {} /\ imported = {}
  /\ status = [i \in Invoices |-> "draft"]

BankingNext ==
  \/ \E p \in Importers :
       (\E file \in Statements : Start(p, file)) \/ Look(p) \/ Insert(p) \/ AbandonImport(p)
  \/ \E f \in DOMAIN rows :
       (\E i \in Invoices : Match(f, i)) \/ Unmatch(f) \/ (\E b \in BOOLEAN : Ignore(f, b))
  \/ \E i \in Invoices : InvoiceMoves(i)

BankingSpec == BankingInit /\ [][BankingNext]_bankingVars

-----------------------------------------------------------------------------
(* Properties *)

Kept(e) == Cardinality({f \in DOMAIN rows : rows[f].op = e})

Times(e, ops) == Cardinality({n \in DOMAIN ops : ops[n] = e})

\* A version before the rank kept one row of operations that look the same.
LegacyTimes(e) == IF e \in Legacy THEN 1 ELSE 0

Files == {ParseCamt053(file) : file \in Statements}

\* The tables and the imports have their types.
BankingTypeOK ==
  /\ \A f \in DOMAIN rows : rows[f].invoice \in Invoices \cup {NoInvoice} /\ rows[f].ignored \in BOOLEAN
  /\ \A p \in Importers : import[p].next \in 1 .. Len(import[p].ops) + 1
  /\ imported \subseteq started /\ started \subseteq Files
  /\ status \in [Invoices -> {"draft", "sent", "paid"}]

\* Of operations that look the same, the table holds as many as the statement
\* that shows most of them: none is lost once its file is imported (two real
\* transfers alike are two), none is doubled by importing a file again, by
\* files that overlap, by two imports at once, by one that stopped half way,
\* or because an older version kept the row under its own fingerprint.
NothingLostNorDoubled ==
  /\ \A ops \in imported : \A n \in DOMAIN ops : Kept(ops[n]) >= Times(ops[n], ops)
  /\ \A e \in {rows[f].op : f \in DOMAIN rows} :
       Kept(e) = LegacyTimes(e) \/ \E ops \in started : Kept(e) <= Times(e, ops)

\* The amounts of a file that the bank booked, and of those the ones that can be
\* read: what is left out counts for nothing.
Booked(file) ==
  [n \in DOMAIN file |-> [amount |-> IF file[n].booked THEN file[n].amount ELSE 0]]

BookedAndRead(file) ==
  [n \in DOMAIN file |-> [amount |-> IF IsRead(file[n]) THEN file[n].amount ELSE 0]]

\* What an import keeps of a file is what the bank booked in amounts that can be
\* read, to the centime: a batch is split when its details account for the
\* whole of it, and kept as one operation otherwise.
ReadInFull ==
  \A ops \in started : \E file \in Statements :
    /\ ops = ParseCamt053(file)
    /\ Total(ops) = Total(BookedAndRead(file))

\* What camt053.go:38 says of ParseCamt053, that it returns all booked entries:
\* what is kept of a file is what the bank booked.  It does not hold.
AllBookedRead ==
  \A ops \in started : \E file \in Statements :
    ops = ParseCamt053(file) /\ Total(ops) = Total(Booked(file))

\* What reconcile.go:260-269 says of a suggestion that is not by reference, to
\* the user too: its amount is exactly that of the invoice.  It does not hold.
ExactAmount ==
  \A f \in Listed : \A s \in Suggest(rows[f].op) :
    s.confidence = "probable" => InvoiceOf[s.of].amount = rows[f].op.amount
=============================================================================
