----------------------------- MODULE Suppliers ------------------------------
(***************************************************************************)
(* Supplier invoices: their booking in the journal, their cancellation by  *)
(* a reversal, and the payment file sent to the bank.                      *)
(*                                                                         *)
(* Each handler reads the status, decides on it, and writes with           *)
(* statements of their own that name the invoice by its id; other requests *)
(* run in between.  Only the modification of a draft and its removal by a  *)
(* cancellation repeat the status in the statement that writes.  A         *)
(* cancelled batch is one cancellation after the other.  CreateEntry and   *)
(* PostEntry are those of Ledger, reduced to the entry they leave; their   *)
(* refusals, a missing account, a failed statement, a cancelled context    *)
(* and the death of the process end a request where it is: Abandon.        *)
(*                                                                         *)
(* amount_paid is left out: no handler writes it, it stays 0.              *)
(***************************************************************************)
EXTENDS Integers, Sequences, FiniteSets, TLC

CONSTANTS
  Requests,     \* connections that serve the requests of several steps
  Keys,         \* pairs (supplier, reference of the supplier)
  Account,      \* per key: what the record of the supplier holds as accounts
  References,   \* kinds of payment references on the invoices
  Totals,       \* totals of invoices
  MaxInvoices,  \* bound on the invoices
  MaxEntries    \* bound on the journal entries

\* What validateOptionalIBAN lets a contact hold: any valid account as iban, a
\* QR-IBAN too, and a QR-IBAN only as qr_iban.  "invalid" stands for a row
\* that did not pass by the form.
AccountKinds ==
  [iban : {"", "ordinary", "qr", "invalid"}, qr_iban : {"", "qr", "invalid"}]

ReferenceKinds == {"", "QRR", "SCOR", "other"}

ASSUME SuppliersAssumption ==
  /\ Account \in [Keys -> AccountKinds]
  /\ References \subseteq ReferenceKinds
  /\ Totals \subseteq Nat
  /\ MaxInvoices \in Nat /\ MaxEntries \in Nat

VARIABLES
  invoices,   \* table supplier_invoices; entry is 0 for NULL
  journal,    \* the entries of purchases and their reversals
  req,        \* what each request is doing and has read
  disturbed   \* history: invoices two requests treated at once, or one
              \* treated and did not finish

vars == <<invoices, journal, req, disturbed>>

Idle == [pc |-> "idle", inv |-> 0]

Invoices == DOMAIN invoices

Exists(i) == invoices[i].status # "deleted"

At(p, pc) == req[p].pc = pc

\* A request on invoice i begins; whoever is at work on i is disturbed.
Begin(p, r) ==
  /\ req[p] = Idle
  /\ req' = [req EXCEPT ![p] = r]
  /\ disturbed' = IF \E q \in Requests : req[q].inv = r.inv
                  THEN disturbed \cup {r.inv} ELSE disturbed

\* Record r with field f set to v.
With(r, f, v) == [g \in DOMAIN r \cup {f} |-> IF g = f THEN v ELSE r[g]]

\* The request goes on to pc with what it still has to remember.
Goto(p, pc, kept) ==
  req' = [req EXCEPT ![p] = With(With(kept, "pc", pc), "inv", req[p].inv)]

Nothing == <<>>

Finish(p) == req' = [req EXCEPT ![p] = Idle]

-----------------------------------------------------------------------------
(* Capture, modification and removal of a draft *)

\* UNIQUE (supplier_id, supplier_reference)
KeyFree(key, i) == \A j \in Invoices \ {i} : Exists(j) => invoices[j].key # key

CreateSupplierInvoice(key, ref, total) ==
  /\ Len(invoices) < MaxInvoices
  /\ KeyFree(key, 0)
  /\ invoices' = Append(invoices, [key |-> key, ref |-> ref, total |-> total,
                                   status |-> "draft", entry |-> 0])
  /\ UNCHANGED <<journal, req, disturbed>>

\* What the form replaces.
Rewritten(i, form) ==
  [invoices EXCEPT ![i].key = form.key, ![i].ref = form.ref, ![i].total = form.total]

UpdateLoad(p, i, key, ref, total) ==
  /\ invoices[i].status = "draft"
  /\ Begin(p, [pc |-> "update", inv |-> i, key |-> key, ref |-> ref, total |-> total])
  /\ UNCHANGED <<invoices, journal>>

\* Faulty variant: the UPDATE names the invoice by its id alone.
UpdateById(p) ==
  /\ At(p, "update")
  /\ LET i == req[p].inv
     IN invoices' = IF Exists(i) /\ KeyFree(req[p].key, i)
                    THEN Rewritten(i, req[p]) ELSE invoices
  /\ Finish(p)
  /\ UNCHANGED <<journal, disturbed>>

\* UPDATE ... WHERE id = ? AND status = 'draft', with the lines, in one
\* transaction; no row, or a duplicate, is a conflict.
UpdateCommit(p) ==
  /\ At(p, "update")
  /\ LET i == req[p].inv
     IN invoices' = IF invoices[i].status = "draft" /\ KeyFree(req[p].key, i)
                    THEN Rewritten(i, req[p]) ELSE invoices
  /\ Finish(p)
  /\ UNCHANGED <<journal, disturbed>>

DeleteLoad(p, i) ==
  /\ invoices[i].status = "draft"
  /\ Begin(p, [pc |-> "delete", inv |-> i])
  /\ UNCHANGED <<invoices, journal>>

\* DELETE ... WHERE id = ?
DeleteSupplierInvoice(p) ==
  /\ At(p, "delete")
  /\ invoices' = [invoices EXCEPT ![req[p].inv].status = "deleted"]
  /\ Finish(p)
  /\ UNCHANGED <<journal, disturbed>>

-----------------------------------------------------------------------------
(* Transitions and booking *)

supplierInvoiceStatuses == {"draft", "booked", "paid", "cancelled"}

\* Every target is accepted unless the invoice is cancelled; only booking
\* from a draft writes to the journal.
TransitionLoad(p, i, target) ==
  /\ invoices[i].status \in supplierInvoiceStatuses \ {"cancelled"}
  /\ LET books == target = "booked" /\ invoices[i].status = "draft"
     IN Begin(p, [pc |-> IF books THEN "book" ELSE "status", inv |-> i, target |-> target])
  /\ UNCHANGED <<invoices, journal>>

\* Faulty variant: the link of an earlier booking is not looked at.
BookWithoutLink(p) ==
  /\ At(p, "book")
  /\ LET i == req[p].inv
     IN IF ~Exists(i) THEN Finish(p)
        ELSE IF invoices[i].total = 0 THEN Goto(p, "status", [target |-> "booked"])
        ELSE Goto(p, "create", [amount |-> invoices[i].total])
  /\ UNCHANGED <<invoices, journal, disturbed>>

\* postSupplierInvoice, the reading: an invoice already linked, or of total
\* zero, has nothing to write; one deleted meanwhile is an error.
BookLoad(p) ==
  /\ At(p, "book")
  /\ LET i == req[p].inv
     IN IF ~Exists(i) THEN Finish(p)
        ELSE IF invoices[i].entry # 0 \/ invoices[i].total = 0
             THEN Goto(p, "status", [target |-> "booked"])
             ELSE Goto(p, "create", [amount |-> invoices[i].total])
  /\ UNCHANGED <<invoices, journal, disturbed>>

Draft(i, amount) == [inv |-> i, amount |-> amount, status |-> "draft", reverses |-> 0]

\* accounting.CreateEntry, at "create" for a booking, at "reverse" for a
\* reversal.
CreateEntry(p, amount, next) ==
  /\ Len(journal) < MaxEntries
  /\ journal' = Append(journal, Draft(req[p].inv, amount))
  /\ Goto(p, next, [new |-> Len(journal) + 1])
  /\ UNCHANGED <<invoices, disturbed>>

PostEntry(p, next, kept) ==
  /\ journal' = [journal EXCEPT ![req[p].new].status = "posted"]
  /\ Goto(p, next, kept)
  /\ UNCHANGED <<invoices, disturbed>>

BookCreate(p) == At(p, "create") /\ CreateEntry(p, req[p].amount, "post")

BookPost(p) == At(p, "post") /\ PostEntry(p, "link", [new |-> req[p].new])

\* Faulty variant: the link is written as soon as the entry exists.
LinkBeforePosting(p) ==
  /\ At(p, "post") \/ At(p, "link")
  /\ invoices' = IF Exists(req[p].inv)
                 THEN [invoices EXCEPT ![req[p].inv].entry = req[p].new] ELSE invoices
  /\ IF At(p, "post") THEN Goto(p, "post", [new |-> req[p].new])
     ELSE Goto(p, "status", [target |-> "booked"])
  /\ UNCHANGED <<journal, disturbed>>

\* The link comes last.
BookLink(p) ==
  /\ At(p, "link")
  /\ invoices' = IF Exists(req[p].inv)
                 THEN [invoices EXCEPT ![req[p].inv].entry = req[p].new] ELSE invoices
  /\ Goto(p, "status", [target |-> "booked"])
  /\ UNCHANGED <<journal, disturbed>>

\* UPDATE ... SET status = ? WHERE id = ?: of a transition, or the end of a
\* cancellation.
SetStatus(p) ==
  /\ At(p, "status")
  /\ invoices' = IF Exists(req[p].inv)
                 THEN [invoices EXCEPT ![req[p].inv].status = req[p].target] ELSE invoices
  /\ Finish(p)
  /\ UNCHANGED <<journal, disturbed>>

-----------------------------------------------------------------------------
(* Cancellation *)

\* Faulty variant: a cancelled invoice is treated like a booked one.
CancelAgain(p, i) ==
  /\ invoices[i].status \in {"draft", "booked", "cancelled"}
  /\ Begin(p, IF invoices[i].status = "draft" THEN [pc |-> "erase", inv |-> i]
              ELSE IF invoices[i].entry = 0
              THEN [pc |-> "status", inv |-> i, target |-> "cancelled"]
              ELSE [pc |-> "reverse", inv |-> i, entry |-> invoices[i].entry])
  /\ UNCHANGED <<invoices, journal>>

\* cancelOne: a draft is removed, a booked invoice is reversed; one already
\* cancelled is skipped and one paid is refused.
CancelLoad(p, i) ==
  /\ invoices[i].status \in {"draft", "booked"}
  /\ Begin(p, IF invoices[i].status = "draft" THEN [pc |-> "erase", inv |-> i]
              ELSE IF invoices[i].entry = 0
              THEN [pc |-> "status", inv |-> i, target |-> "cancelled"]
              ELSE [pc |-> "reverse", inv |-> i, entry |-> invoices[i].entry])
  /\ UNCHANGED <<invoices, journal>>

\* DELETE ... WHERE id = ? AND status = 'draft'
CancelErase(p) ==
  /\ At(p, "erase")
  /\ invoices' = IF invoices[req[p].inv].status = "draft"
                 THEN [invoices EXCEPT ![req[p].inv].status = "deleted"] ELSE invoices
  /\ Finish(p)
  /\ UNCHANGED <<journal, disturbed>>

\* reverseSupplierEntry: the lines of the entry with debit and credit
\* exchanged, so the same amount.
ReverseCreate(p) ==
  /\ At(p, "reverse")
  /\ Len(journal) < MaxEntries
  /\ journal' = Append(journal, Draft(req[p].inv, journal[req[p].entry].amount))
  /\ Goto(p, "mark", [entry |-> req[p].entry, new |-> Len(journal) + 1])
  /\ UNCHANGED <<invoices, disturbed>>

\* is_reversal and reversal_of_id, while the entry is a draft.
ReverseMark(p) ==
  /\ At(p, "mark")
  /\ journal' = [journal EXCEPT ![req[p].new].reverses = req[p].entry]
  /\ Goto(p, "settle", [new |-> req[p].new])
  /\ UNCHANGED <<invoices, disturbed>>

ReversePost(p) == At(p, "settle") /\ PostEntry(p, "status", [target |-> "cancelled"])

-----------------------------------------------------------------------------
(* Payment file *)

\* decidePayment: the account and the kind of reference of a transfer, or
\* what blocks it.
decidePayment(ref, account) ==
  LET on(iban) == IF iban \in {"", "invalid"} THEN [blocked |-> TRUE, iban |-> "", kind |-> ref]
                  ELSE [blocked |-> FALSE, iban |-> iban, kind |-> ref]
  IN CASE ref = "QRR"         -> on(account.qr_iban)
       [] ref \in {"SCOR", ""} -> on(account.iban)
       [] OTHER               -> [blocked |-> TRUE, iban |-> "", kind |-> ref]

\* loadPayable: one query, on the status and the amount that is left.
Payable(ids) == {i \in ids : invoices[i].status = "booked" /\ invoices[i].total > 0}

Transfer(i) ==
  LET how == decidePayment(invoices[i].ref, Account[invoices[i].key])
  IN [inv |-> i, amount |-> invoices[i].total, iban |-> how.iban, kind |-> how.kind]

Blocked(i) == decidePayment(invoices[i].ref, Account[invoices[i].key]).blocked

Ids(selection) == {selection[n] : n \in DOMAIN selection}

\* Faulty variant: what is no longer payable is left out of the file.
AcceptSome(selection) == Payable(Ids(selection)) # {} /\ \A i \in Payable(Ids(selection)) : ~Blocked(i)

\* buildRunTransactions refuses unless each identifier of the selection gives
\* a transfer.
Accepted(selection) ==
  /\ Cardinality(Payable(Ids(selection))) = Len(selection)
  /\ \A i \in Payable(Ids(selection)) : ~Blocked(i)

\* ExportPain001 of an accepted selection.  No status changes: the file is a
\* function of the table.
PaymentFile(selection) == {Transfer(i) : i \in Payable(Ids(selection))}

-----------------------------------------------------------------------------

\* An error, a cancelled context or the death of the process.
Abandon(p) ==
  /\ req[p] # Idle
  /\ disturbed' = disturbed \cup {req[p].inv}
  /\ Finish(p)
  /\ UNCHANGED <<invoices, journal>>

Init ==
  /\ invoices = <<>>
  /\ journal = <<>>
  /\ req = [p \in Requests |-> Idle]
  /\ disturbed = {}

Selections == {<<i>> : i \in Invoices} \cup {<<i, j>> : i, j \in Invoices}

Booking(p) == BookLoad(p) \/ BookCreate(p) \/ BookPost(p) \/ BookLink(p) \/ SetStatus(p)

Cancelling(p) == CancelErase(p) \/ ReverseCreate(p) \/ ReverseMark(p) \/ ReversePost(p)

Next ==
  \/ \E key \in Keys, ref \in References, total \in Totals :
       CreateSupplierInvoice(key, ref, total)
  \/ \E p \in Requests, i \in Invoices :
       \/ \E key \in Keys, ref \in References, total \in Totals : UpdateLoad(p, i, key, ref, total)
       \/ DeleteLoad(p, i)
       \/ \E target \in supplierInvoiceStatuses : TransitionLoad(p, i, target)
       \/ CancelLoad(p, i)
  \/ \E p \in Requests :
       UpdateCommit(p) \/ DeleteSupplierInvoice(p) \/ Booking(p) \/ Cancelling(p) \/ Abandon(p)

Spec == Init /\ [][Next]_vars

-----------------------------------------------------------------------------
(* Properties *)

Entries == DOMAIN journal

Posted(e) == journal[e].status = "posted"

\* The posted entries of the purchase itself.
Originals(i) == {e \in Entries : journal[e].inv = i /\ journal[e].reverses = 0 /\ Posted(e)}

Reversals(e) == {r \in Entries : journal[r].reverses = e /\ Posted(r)}

AtWork(i) == \E p \in Requests : req[p].inv = i

\* The tables and the requests have their types.
TypeOK ==
  /\ invoices \in Seq([key : Keys, ref : References, total : Totals,
                       status : supplierInvoiceStatuses \cup {"deleted"}, entry : 0 .. MaxEntries])
  /\ journal \in Seq([inv : Invoices, amount : Totals, status : {"draft", "posted"},
                      reverses : 0 .. MaxEntries])
  /\ Len(invoices) <= MaxInvoices /\ Len(journal) <= MaxEntries
  /\ \A p \in Requests : req[p].inv \in Invoices \cup {0}
  /\ disturbed \subseteq Invoices

\* However often an invoice goes back to draft and is booked again, its
\* charge is posted once: postSupplierInvoice is idempotent by the link.
\* Two bookings at once are the exception, and so is one that did not reach
\* the link.
BookedOnce ==
  \A i \in Invoices \ disturbed : Cardinality(Originals(i)) <= 1

\* Whatever runs at once and wherever a request ends, a link leads to a
\* posted entry of that invoice, never to a draft or to a reversal: the link
\* is written after the posting.
LinkPosted ==
  \A i \in Invoices :
    invoices[i].entry # 0 => invoices[i].entry \in Originals(i)

\* A cancellation takes back exactly what was posted, once, with the mark of
\* the reversal, and the invoice then stays cancelled: a second one is
\* skipped.
ReversedOnce ==
  \A i \in Invoices \ disturbed :
    \A e \in Originals(i) :
      /\ Cardinality(Reversals(e)) <= 1
      /\ \A r \in Reversals(e) : journal[r].amount = journal[e].amount
      /\ Reversals(e) # {} /\ ~AtWork(i) => invoices[i].status = "cancelled"

\* No request, however late, changes the amount or the reference of an
\* invoice that left the draft: UpdateSupplierInvoice repeats the status in
\* its UPDATE.
SealedOnceBooked ==
  [][\A i \in Invoices :
       invoices[i].status # "draft"
         => \A field \in {"key", "ref", "total"} : invoices'[i][field] = invoices[i][field]]_vars

\* A payment file pays each invoice of the selection, no invoice of a
\* supplier twice, and a QR reference on a QR account only.
FileIsWhole ==
  \A selection \in Selections :
    Accepted(selection) =>
      LET paid == PaymentFile(selection)
      IN /\ Cardinality(paid) = Len(selection)
         /\ \A s, t \in paid : invoices[s.inv].key = invoices[t.inv].key => s = t
         /\ \A t \in paid : invoices[t.inv].status = "booked" /\ (t.kind = "QRR" => t.iban = "qr")

\* payments_run.go says the other direction too: a QR-IBAN takes a QR
\* reference only.  But the account typed as iban is not looked at again, and
\* a QR-IBAN typed there is paid with a creditor reference or with none: it
\* does not hold.
ReferenceSuitsAccount ==
  \A selection \in Selections :
    Accepted(selection) => \A t \in PaymentFile(selection) : t.iban = "qr" => t.kind = "QRR"

\* What a payment file orders the bank to pay is a debt in the books: a
\* posted entry of that amount (payments_run.go: to pay before recording
\* would move cash without the debt).
FilePaysDebts ==
  \A selection \in Selections :
    Accepted(selection) =>
      \A t \in PaymentFile(selection) : \E e \in Originals(t.inv) : journal[e].amount = t.amount
=============================================================================
