----------------------------- MODULE Invoicing ------------------------------
(***************************************************************************)
(* Sales documents: invoices, credit notes and quotes, what their issue    *)
(* and their payments enter in the journal, and what a cancellation takes  *)
(* back.                                                                   *)
(*                                                                         *)
(* No transaction spans a document and its journal entry: a transition or  *)
(* a payment is a sequence of statements and of calls of the accounting    *)
(* service, one step each, between which other requests run.  The state    *)
(* machine is checked against the status read by the first statement, and  *)
(* the UPDATEs that follow name the document by its id alone.  Payments    *)
(* wait for each other on payMu.                                           *)
(*                                                                         *)
(* CreateEntry and PostEntry are those of Ledger, reduced to the entry     *)
(* they leave; their refusals (closed year, unbalanced lines), a missing   *)
(* account, a failed statement, a cancelled context and the death of the   *)
(* process all end a request where it is: Abandon.  The link each action   *)
(* traces in the audit chain is a tracer of AuditAppend.                   *)
(***************************************************************************)
EXTENDS Integers, Sequences, FiniteSets, FiniteSetsExt, TLC

CONSTANTS
  Requests,    \* connections that serve the requests of several steps
  Nobody,      \* holder of payMu when it is free
  Types,       \* kinds of documents users create
  Amounts,     \* totals of documents and amounts of payments
  MaxDocs,     \* bound on the documents
  MaxEntries,  \* bound on the journal entries
  MaxPayments  \* bound on the payments

ASSUME InvoicingAssumption ==
  /\ Nobody \notin Requests
  /\ Types \subseteq {"invoice", "credit_note", "quote"}
  /\ Amounts \subseteq Nat
  /\ MaxDocs \in Nat /\ MaxEntries \in Nat /\ MaxPayments \in Nat

VARIABLES
  invoices,   \* table invoices; entry, from and corrects are 0 for NULL
  journal,    \* the entries of documents and payments
  payments,   \* table payments; entry is 0 for NULL
  payMu,      \* request that holds the mutex of payments
  req,        \* what each request is doing and has read
  disturbed   \* history: documents two requests treated at once, or one
              \* treated and did not finish

vars == <<invoices, journal, payments, payMu, req, disturbed>>

Idle == [pc |-> "idle", doc |-> 0]

Docs == DOMAIN invoices

NewDocument(type, total) ==
  [type |-> type, status |-> "draft", total |-> total, paid |-> 0, entry |-> 0,
   from |-> 0, corrects |-> 0, outcome |-> "none"]

validTransitions ==
  [draft |-> {"sent", "cancelled"}, sent |-> {"paid", "cancelled"},
   paid |-> {"archived"}, cancelled |-> {"draft"}, archived |-> {}]

quoteTransitions ==
  [draft |-> {"sent", "cancelled"}, sent |-> {"cancelled", "archived"},
   paid |-> {}, cancelled |-> {"draft"}, archived |-> {}]

transitionsFor(type) == IF type = "quote" THEN quoteTransitions ELSE validTransitions

-----------------------------------------------------------------------------
(* Requests *)

At(p, pc) == req[p].pc = pc

\* A request on document d begins; whoever is at work on d is disturbed.
Begin(p, d, r) ==
  /\ req[p] = Idle
  /\ req' = [req EXCEPT ![p] = r]
  /\ disturbed' = IF \E q \in Requests : req[q].doc = d THEN disturbed \cup {d} ELSE disturbed

\* Record r with field f set to v.
With(r, f, v) == [g \in DOMAIN r \cup {f} |-> IF g = f THEN v ELSE r[g]]

\* The request goes on to pc and remembers no more than what it still uses.
Goto(p, pc, kept) ==
  req' = [req EXCEPT ![p] = With(With(kept, "pc", pc), "doc", req[p].doc)]

Keep(p, fields) == [f \in fields |-> req[p][f]]

Nothing == <<>>

Finish(p) ==
  /\ req' = [req EXCEPT ![p] = Idle]
  /\ payMu' = IF payMu = p THEN Nobody ELSE payMu

\* Any error, or the death of the process: what is committed stays, the
\* deferred unlock runs.
Abandon(p) ==
  /\ req[p] # Idle
  /\ disturbed' = disturbed \cup {req[p].doc}
  /\ Finish(p)
  /\ UNCHANGED <<invoices, journal, payments>>

Draft(kind, d, amount) ==
  [kind |-> kind, doc |-> d, amount |-> amount, status |-> "draft", reverses |-> 0]

\* accounting.CreateEntry: a draft; the caller keeps its identifier.
CreateEntry(p, entry, pc, kept) ==
  /\ Len(journal) < MaxEntries
  /\ journal' = Append(journal, entry)
  /\ Goto(p, pc, With(kept, "new", Len(journal) + 1))
  /\ UNCHANGED <<invoices, payments, payMu, disturbed>>

\* accounting.PostEntry of the entry just created.
PostEntry(p, next) ==
  /\ journal' = [journal EXCEPT ![req[p].new].status = "posted"]
  /\ next
  /\ UNCHANGED <<invoices, payments, disturbed>>

-----------------------------------------------------------------------------
(* Creation and modification of a draft *)

CreateInvoice(type, total) ==
  /\ Len(invoices) < MaxDocs
  /\ invoices' = Append(invoices, NewDocument(type, total))
  /\ UNCHANGED <<journal, payments, payMu, req, disturbed>>

\* Total of the credit notes of invoice i, note d apart.
Credited(i, d) ==
  MapThenSumSet(LAMBDA c : invoices[c].total,
    {c \in Docs \ {d} : invoices[c].corrects = i /\ invoices[c].status # "cancelled"})

\* checkCreditCap
WithinCreditCap(d, total) ==
  LET i == invoices[d].corrects
  IN invoices[d].type = "credit_note" /\ i # 0
       => Credited(i, d) + total <= invoices[i].total

\* UpdateInvoiceBy, first statement: an unpaid draft.
UpdateLoad(p, d, total) ==
  /\ invoices[d].paid = 0
  /\ invoices[d].status = "draft"
  /\ Begin(p, d, [pc |-> "update_check", doc |-> d, total |-> total])
  /\ UNCHANGED <<invoices, journal, payments, payMu>>

\* UpdateInvoiceBy, the ceiling of a credit note.
UpdateCheck(p) ==
  /\ At(p, "update_check")
  /\ IF WithinCreditCap(req[p].doc, req[p].total)
     THEN Goto(p, "update", Keep(p, {"total"})) /\ UNCHANGED payMu
     ELSE Finish(p)
  /\ UNCHANGED <<invoices, journal, payments, disturbed>>

\* UpdateInvoiceBy, its transaction.
UpdateCommit(p) ==
  /\ At(p, "update")
  /\ invoices' = [invoices EXCEPT ![req[p].doc].total = req[p].total]
  /\ Finish(p)
  /\ UNCHANGED <<journal, payments, disturbed>>

-----------------------------------------------------------------------------
(* Transitions *)

\* TransitionBy, first statement, and the checks on what it read.
TransitionLoad(p, d, to) ==
  LET doc == invoices[d]
  IN /\ to \in transitionsFor(doc.type)[doc.status]
     /\ ~(doc.status = "sent" /\ to = "cancelled" /\ doc.paid > 0)
     /\ Begin(p, d, [pc |-> CASE doc.status = "sent" /\ to = "paid"  -> "settle"
                              [] doc.status = "draft" /\ to = "sent" -> "issue"
                              [] OTHER                               -> "set_status",
                     doc |-> d, from |-> doc.status, to |-> to, link |-> doc.entry])
     /\ UNCHANGED <<invoices, journal, payments, payMu>>

\* settleBalance: the balance is paid, and a document without one is marked.
SettleRead(p) ==
  /\ At(p, "settle")
  /\ LET balance == invoices[req[p].doc].total - invoices[req[p].doc].paid
     IN IF balance <= 0
        THEN Goto(p, "set_status", Keep(p, {"from", "to", "link"}))
        ELSE Goto(p, "pay_lock", [amount |-> balance])
  /\ UNCHANGED <<invoices, journal, payments, payMu, disturbed>>

\* issue: the document is sent.  A company may have asked for its entry.
Issue(p) ==
  /\ At(p, "issue")
  /\ invoices' = [invoices EXCEPT ![req[p].doc].status = "sent"]
  /\ \/ /\ req[p].link = 0
        /\ Goto(p, "issue_link", Nothing)
        /\ UNCHANGED payMu
     \/ Finish(p)
  /\ UNCHANGED <<journal, payments, disturbed>>

\* PostIssuedDocument: not a quote, and no link yet.
IssueCheck(p) ==
  /\ At(p, "issue_link")
  /\ IF invoices[req[p].doc].type # "quote" /\ invoices[req[p].doc].entry = 0
     THEN Goto(p, "issue_amounts", Nothing) /\ UNCHANGED payMu
     ELSE Finish(p)
  /\ UNCHANGED <<invoices, journal, payments, disturbed>>

\* PostIssuedDocument, documentAmounts: nothing is entered for a total of zero.
IssueAmounts(p) ==
  /\ At(p, "issue_amounts")
  /\ IF invoices[req[p].doc].total = 0
     THEN Finish(p)
     ELSE /\ Goto(p, "issue_create", [amount |-> invoices[req[p].doc].total])
          /\ UNCHANGED payMu
  /\ UNCHANGED <<invoices, journal, payments, disturbed>>

\* Faulty variant: the link written before the entry is posted.
IssueCreateLinkFirst(p) ==
  /\ At(p, "issue_create")
  /\ Len(journal) < MaxEntries
  /\ journal' = Append(journal, Draft("issue", req[p].doc, req[p].amount))
  /\ Goto(p, "issue_post", [new |-> Len(journal) + 1])
  /\ invoices' = [invoices EXCEPT ![req[p].doc].entry = Len(journal) + 1]
  /\ UNCHANGED <<payments, payMu, disturbed>>

IssueCreate(p) ==
  /\ At(p, "issue_create")
  /\ CreateEntry(p, Draft("issue", req[p].doc, req[p].amount), "issue_post", Nothing)

IssuePost(p) ==
  /\ At(p, "issue_post")
  /\ PostEntry(p, Goto(p, "issue_set_link", Keep(p, {"new"})) /\ UNCHANGED payMu)

\* PostIssuedDocument: the link comes last.
IssueLink(p) ==
  /\ At(p, "issue_set_link")
  /\ invoices' = [invoices EXCEPT ![req[p].doc].entry = req[p].new]
  /\ Finish(p)
  /\ UNCHANGED <<journal, payments, disturbed>>

\* Faulty variant: the link of a reopened document kept.
SetStatusKeepingLink(p) ==
  /\ At(p, "set_status")
  /\ invoices' = [invoices EXCEPT ![req[p].doc].status = req[p].to]
  /\ IF req[p].from = "sent" /\ req[p].to = "cancelled" /\ req[p].link # 0
     THEN Goto(p, "reverse_create", Keep(p, {"link"})) /\ UNCHANGED payMu
     ELSE Finish(p)
  /\ UNCHANGED <<journal, payments, disturbed>>

\* TransitionBy, the other transitions: the status, then the reversal of the
\* entry of a cancelled document or the removal of a reopened one's link.
SetStatus(p) ==
  /\ At(p, "set_status")
  /\ invoices' = [invoices EXCEPT ![req[p].doc].status = req[p].to]
  /\ LET linked == req[p].link # 0
     IN CASE linked /\ req[p].from = "sent" /\ req[p].to = "cancelled" ->
               Goto(p, "reverse_create", Keep(p, {"link"})) /\ UNCHANGED payMu
          [] linked /\ req[p].from = "cancelled" /\ req[p].to = "draft" ->
               Goto(p, "clear_link", Nothing) /\ UNCHANGED payMu
          [] OTHER -> Finish(p)
  /\ UNCHANGED <<journal, payments, disturbed>>

ClearLink(p) ==
  /\ At(p, "clear_link")
  /\ invoices' = [invoices EXCEPT ![req[p].doc].entry = 0]
  /\ Finish(p)
  /\ UNCHANGED <<journal, payments, disturbed>>

\* createReversalEntry of entry req[p].link: a mirror draft, its mark, its
\* posting.
ReverseCreate(p) ==
  /\ At(p, "reverse_create")
  /\ CreateEntry(p, Draft("reversal", req[p].doc, journal[req[p].link].amount),
                 "reverse_flag", Keep(p, {"link"}))

ReverseFlag(p) ==
  /\ At(p, "reverse_flag")
  /\ journal' = [journal EXCEPT ![req[p].new].reverses = req[p].link]
  /\ Goto(p, "reverse_post", Keep(p, {"new"}))
  /\ UNCHANGED <<invoices, payments, payMu, disturbed>>

ReversePost(p) ==
  /\ At(p, "reverse_post")
  /\ PostEntry(p, Finish(p))

-----------------------------------------------------------------------------
(* Payments *)

\* CreatePayment calls RecordPayment.
CreatePayment(p, d, amount) ==
  /\ amount > 0
  /\ Begin(p, d, [pc |-> "pay_lock", doc |-> d, amount |-> amount])
  /\ UNCHANGED <<invoices, journal, payments, payMu>>

\* Faulty variant: no mutual exclusion.
PayLockWithoutWaiting(p) ==
  /\ At(p, "pay_lock")
  /\ payMu' = p
  /\ Goto(p, "pay_load", Keep(p, {"amount"}))
  /\ UNCHANGED <<invoices, journal, payments, disturbed>>

PayLock(p) ==
  /\ At(p, "pay_lock")
  /\ payMu = Nobody
  /\ payMu' = p
  /\ Goto(p, "pay_load", Keep(p, {"amount"}))
  /\ UNCHANGED <<invoices, journal, payments, disturbed>>

\* RecordPayment, its reading: a sent document that is no quote, and an amount
\* within its balance.  Without an entry of issue there is none of payment.
PayLoad(p) ==
  /\ At(p, "pay_load")
  /\ LET doc == invoices[req[p].doc]
     IN IF /\ doc.type # "quote" /\ doc.status = "sent"
           /\ req[p].amount <= doc.total - doc.paid
        THEN /\ Goto(p, IF doc.entry = 0 THEN "pay_store" ELSE "pay_create",
                     [amount |-> req[p].amount, total |-> doc.total, paid |-> doc.paid,
                      new |-> 0])
             /\ UNCHANGED payMu
        ELSE Finish(p)
  /\ UNCHANGED <<invoices, journal, payments, disturbed>>

PayCreate(p) ==
  /\ At(p, "pay_create")
  /\ CreateEntry(p, Draft("payment", req[p].doc, req[p].amount), "pay_post",
                 Keep(p, {"amount", "total", "paid"}))

\* Faulty variant: the entry of the payment left a draft.
PayPostForgotten(p) ==
  /\ At(p, "pay_post")
  /\ Goto(p, "pay_store", Keep(p, {"amount", "total", "paid", "new"}))
  /\ UNCHANGED <<invoices, journal, payments, payMu, disturbed>>

PayPost(p) ==
  /\ At(p, "pay_post")
  /\ PostEntry(p, /\ Goto(p, "pay_store", Keep(p, {"amount", "total", "paid", "new"}))
                  /\ UNCHANGED payMu)

\* storePayment: the payment and the document, in one transaction.
PayStore(p) ==
  /\ At(p, "pay_store")
  /\ Len(payments) < MaxPayments
  /\ payments' = Append(payments,
       [doc |-> req[p].doc, amount |-> req[p].amount, entry |-> req[p].new])
  /\ LET paid == req[p].paid + req[p].amount
     IN invoices' = [invoices EXCEPT
          ![req[p].doc].paid = paid,
          ![req[p].doc].status = IF paid >= req[p].total THEN "paid" ELSE "sent"]
  /\ Finish(p)
  /\ UNCHANGED <<journal, disturbed>>

\* storePayment fails: the entry of the payment, already posted, is reversed.
StoreFails(p) ==
  /\ At(p, "pay_store")
  /\ req[p].new # 0
  /\ Goto(p, "reverse_create", [link |-> req[p].new])
  /\ UNCHANGED <<invoices, journal, payments, payMu, disturbed>>

-----------------------------------------------------------------------------
(* Quotes and credit notes: one transaction each *)

\* Faulty variant: without the search for an earlier conversion.
ConvertQuoteAgain(q) ==
  /\ invoices[q].type = "quote" /\ invoices[q].status = "sent"
  /\ Len(invoices) < MaxDocs
  /\ invoices' = Append([invoices EXCEPT ![q].outcome = "accepted"],
                        [NewDocument("invoice", invoices[q].total) EXCEPT !.from = q])
  /\ UNCHANGED <<journal, payments, payMu, req, disturbed>>

\* A sent quote that was not converted yet.
ConvertQuote(q) ==
  /\ invoices[q].type = "quote" /\ invoices[q].status = "sent"
  /\ \A i \in Docs : invoices[i].from # q
  /\ Len(invoices) < MaxDocs
  /\ invoices' = Append([invoices EXCEPT ![q].outcome = "accepted"],
                        [NewDocument("invoice", invoices[q].total) EXCEPT !.from = q])
  /\ UNCHANGED <<journal, payments, payMu, req, disturbed>>

SetQuoteOutcome(q, outcome) ==
  /\ invoices[q].type = "quote"
  /\ invoices' = [invoices EXCEPT ![q].outcome = outcome]
  /\ UNCHANGED <<journal, payments, payMu, req, disturbed>>

CreateCreditNote(i, total) ==
  /\ invoices[i].type = "invoice" /\ invoices[i].status \in {"sent", "paid"}
  /\ Credited(i, 0) + total <= invoices[i].total
  /\ Len(invoices) < MaxDocs
  /\ invoices' = Append(invoices, [NewDocument("credit_note", total) EXCEPT !.corrects = i])
  /\ UNCHANGED <<journal, payments, payMu, req, disturbed>>

-----------------------------------------------------------------------------

Init ==
  /\ invoices = <<>>
  /\ journal = <<>>
  /\ payments = <<>>
  /\ payMu = Nobody
  /\ req = [p \in Requests |-> Idle]
  /\ disturbed = {}

Arrival(p) ==
  \E d \in Docs :
    \/ \E total \in Amounts : UpdateLoad(p, d, total)
    \/ \E to \in DOMAIN validTransitions : TransitionLoad(p, d, to)
    \/ \E amount \in Amounts : CreatePayment(p, d, amount)

Updating(p) == UpdateCheck(p) \/ UpdateCommit(p)

Issuing(p) ==
  \/ Issue(p) \/ IssueCheck(p) \/ IssueAmounts(p)
  \/ IssueCreate(p) \/ IssuePost(p) \/ IssueLink(p)

Moving(p) == SettleRead(p) \/ SetStatus(p) \/ ClearLink(p)

Reversing(p) == ReverseCreate(p) \/ ReverseFlag(p) \/ ReversePost(p)

Paying(p) ==
  \/ PayLock(p) \/ PayLoad(p) \/ PayCreate(p) \/ PayPost(p)
  \/ PayStore(p) \/ StoreFails(p)

Step(p) ==
  Updating(p) \/ Issuing(p) \/ Moving(p) \/ Reversing(p) \/ Paying(p) \/ Abandon(p)

OneShot ==
  \/ \E type \in Types, total \in Amounts : CreateInvoice(type, total)
  \/ \E d \in Docs :
       \/ ConvertQuote(d)
       \/ \E outcome \in {"refused", "expired"} : SetQuoteOutcome(d, outcome)
       \/ \E total \in Amounts : CreateCreditNote(d, total)

Next == OneShot \/ \E p \in Requests : Arrival(p) \/ Step(p)

Spec == Init /\ [][Next]_vars

-----------------------------------------------------------------------------
(* Properties *)

Document ==
  [type: {"invoice", "credit_note", "quote"}, status: DOMAIN validTransitions,
   total: Nat, paid: Nat, entry: 0 .. Len(journal), from: 0 .. Len(invoices),
   corrects: 0 .. Len(invoices), outcome: {"none", "accepted", "refused", "expired"}]

JournalEntry ==
  [kind: {"issue", "payment", "reversal"}, doc: Docs, amount: Nat,
   status: {"draft", "posted"}, reverses: 0 .. Len(journal)]

\* Rows of their columns' types, whose foreign keys exist.
TypeOK ==
  /\ \A d \in Docs : invoices[d] \in Document
  /\ \A e \in DOMAIN journal : journal[e] \in JournalEntry
  /\ \A k \in DOMAIN payments :
       payments[k] \in [doc: Docs, amount: Nat, entry: 0 .. Len(journal)]
  /\ payMu \in Requests \cup {Nobody}
  /\ \A p \in Requests : req[p].doc \in Docs \cup {0}
  /\ disturbed \subseteq Docs

PaidTo(d) ==
  SumFunctionOnSet([k \in DOMAIN payments |-> payments[k].amount],
                   {k \in DOMAIN payments : payments[k].doc = d})

\* The amount paid of a document is the sum of its payments, whatever payments,
\* transitions and errors race: payMu covers the reading of the balance and
\* the writing of the sum.
PaymentsAddUp == \A d \in Docs : invoices[d].paid = PaidTo(d)

Posted(e) == journal[e].status = "posted"

Reversed(e) == \E f \in DOMAIN journal : Posted(f) /\ journal[f].reverses = e

\* Entries of document d that the books count.
InForce(d, kind) ==
  {e \in DOMAIN journal :
     journal[e].kind = kind /\ journal[e].doc = d /\ Posted(e) /\ ~Reversed(e)}

\* What a row names is in the books, at every statement of every interleaving:
\* a payment's entry is posted before it, for the same document and amount, and
\* is never reversed under it; a document's link, written last, leads to a
\* posted entry of its own issue.
EntriesPosted ==
  /\ \A k \in DOMAIN payments :
       payments[k].entry # 0 =>
         /\ payments[k].entry \in InForce(payments[k].doc, "payment")
         /\ journal[payments[k].entry].amount = payments[k].amount
  /\ \A d \in Docs :
       invoices[d].entry # 0 =>
         /\ Posted(invoices[d].entry)
         /\ journal[invoices[d].entry].kind = "issue"
         /\ journal[invoices[d].entry].doc = d

\* A quote is invoiced once, however often it is converted, reopened or sent
\* again.
ConvertedOnce ==
  \A i, j \in Docs :
    invoices[i].from # 0 /\ invoices[i].from = invoices[j].from => i = j

Busy(d) == \E p \in Requests : req[p].doc = d

Due(d) ==
  invoices[d].entry # 0 /\ invoices[d].status \in {"sent", "paid", "archived"}

\* When requests treat a document one after the other and run to their end,
\* the books agree with it between two of them: the entry of issue in force is
\* the one it names, for its total, none when it is a draft or cancelled, and
\* the entries of payment in force add up to what was paid.  A payment that
\* could not be stored and was reversed is among those ends.
BooksMatchDocument ==
  \A d \in Docs \ disturbed :
    ~Busy(d) =>
      /\ InForce(d, "issue") = IF Due(d) THEN {invoices[d].entry} ELSE {}
      /\ Due(d) => journal[invoices[d].entry].amount = invoices[d].total
      /\ SumFunctionOnSet([e \in DOMAIN journal |-> journal[e].amount], InForce(d, "payment"))
           = IF Due(d) THEN invoices[d].paid ELSE 0

-----------------------------------------------------------------------------
(* What the documentation says of this code *)

\* A document linked to an entry does not produce a second one, so a double
\* click on "send" does not either.
IssuedOnce == \A d \in Docs : Cardinality(InForce(d, "issue")) <= 1

\* The credit notes of an invoice never exceed it.
CreditWithinInvoice == \A i \in Docs : Credited(i, 0) <= invoices[i].total
=============================================================================
