-------------------------- MODULE InvoicingProofs ---------------------------
(***************************************************************************)
(* What holds of sales documents, their payments and their entries for     *)
(* every set of requests, amounts and types, and for every bound.          *)
(***************************************************************************)
EXTENDS Invoicing, FiniteSetTheorems, WellFoundedInduction, TLAPS

-----------------------------------------------------------------------------
(* The inductive invariant *)

Entries == DOMAIN journal

PaymentRow == [doc : Docs, amount : Nat, entry : 0 .. Len(journal)]

RowsOK ==
  /\ invoices \in Seq(Document)
  /\ journal \in Seq(JournalEntry)
  /\ payments \in Seq(PaymentRow)
  /\ payMu \in Requests \cup {Nobody}
  /\ disturbed \subseteq Docs

\* Entry e is of this kind and of document d.
Of(e, kind, d) == e \in Entries /\ journal[e].kind = kind /\ journal[e].doc = d

Issued(e, d) == Of(e, "issue", d) /\ Posted(e)

\* A payment of this amount, posted.
Paid(e, d, amount) == Of(e, "payment", d) /\ journal[e].amount = amount /\ Posted(e)

\* A request between the reading of the balance and the writing of the sum.
Holding(p) == req[p].pc \in {"pay_load", "pay_create", "pay_post", "pay_store"}


RequestOK(p) ==
  /\ req[p].pc = "idle" => req[p] = Idle
  /\ req[p].pc # "idle" => req[p].doc \in Docs
  /\ req[p].pc \in {"update_check", "update"} => req[p].total \in Nat
  /\ req[p].pc \in {"settle", "issue", "set_status"} =>
       /\ req[p].to \in DOMAIN validTransitions
       /\ req[p].link # 0 => Issued(req[p].link, req[p].doc)
  /\ req[p].pc \in {"pay_lock", "pay_load", "issue_create"} => req[p].amount \in Nat
  /\ req[p].pc \in {"pay_create", "pay_post", "pay_store"} =>
       /\ req[p].amount \in Nat /\ req[p].total \in Nat
       /\ req[p].paid = invoices[req[p].doc].paid
  /\ Holding(p) => payMu = p
  /\ req[p].pc = "issue_post" => Of(req[p].new, "issue", req[p].doc)
  /\ req[p].pc = "issue_set_link" => Issued(req[p].new, req[p].doc)
  /\ req[p].pc = "pay_post" =>
       Of(req[p].new, "payment", req[p].doc) /\ journal[req[p].new].amount = req[p].amount
  /\ req[p].pc = "pay_store" =>
       req[p].new = 0 \/ Paid(req[p].new, req[p].doc, req[p].amount)
  /\ req[p].pc \in {"reverse_create", "reverse_flag"} => req[p].link \in Entries
  /\ req[p].pc \in {"reverse_flag", "reverse_post"} => req[p].new \in Entries

RequestsOK ==
  /\ req = [p \in Requests |-> req[p]]
  /\ \A p \in Requests : RequestOK(p)

\* The entries payments name, and those that an entry reverses.
Stored == {payments[k].entry : k \in DOMAIN payments} \ {0}

Undone == {journal[e].reverses : e \in Entries} \ {0}

\* The entry of payment a request has still to store, and the one it is to
\* reverse.
ToStore(p) == IF req[p].pc \in {"pay_post", "pay_store"} THEN {req[p].new} \ {0} ELSE {}

ToReverse(p) == IF req[p].pc \in {"reverse_create", "reverse_flag"} THEN {req[p].link} ELSE {}

\* An entry is stored with a payment, or reversed, or one request has still to
\* do one of the two: never two of these.
Apart ==
  /\ Stored \cap Undone = {}
  /\ \A p \in Requests :
       /\ ToStore(p) \cap (Stored \cup Undone) = {}
       /\ ToReverse(p) \cap Stored = {}
  /\ \A p, q \in Requests :
       /\ ToStore(p) \cap ToReverse(q) = {}
       /\ p # q => ToStore(p) \cap ToStore(q) = {}

LinksIssued == \A d \in Docs : invoices[d].entry # 0 => Issued(invoices[d].entry, d)

PaymentsPaid ==
  \A k \in DOMAIN payments :
    payments[k].entry # 0 => Paid(payments[k].entry, payments[k].doc, payments[k].amount)

InvoicingInv ==
  /\ RowsOK
  /\ RequestsOK
  /\ Apart
  /\ LinksIssued
  /\ PaymentsPaid
  /\ ConvertedOnce

-----------------------------------------------------------------------------
(* Lemmas *)

\* Entries are added and posted, and keep what they say.
JournalGrows ==
  /\ Entries \subseteq Entries'
  /\ \A e \in Entries :
       /\ journal'[e].kind = journal[e].kind
       /\ journal'[e].doc = journal[e].doc
       /\ journal'[e].amount = journal[e].amount
       /\ journal[e].status = "posted" => journal'[e].status = "posted"

\* What a request is doing after it went on.
LEMMA GotoEffect ==
  ASSUME NEW p \in Requests, RequestsOK, NEW pc, NEW kept, Goto(p, pc, kept),
         {"pc", "doc"} \cap DOMAIN kept = {}
  PROVE  /\ req' = [q \in Requests |-> req'[q]]
         /\ \A q \in Requests \ {p} : req'[q] = req[q]
         /\ req'[p].pc = pc
         /\ req'[p].doc = req[p].doc
         /\ \A f \in DOMAIN kept : req'[p][f] = kept[f]
<1> DEFINE r == With(With(kept, "pc", pc), "doc", req[p].doc)
<1>1. req' = [req EXCEPT ![p] = r] /\ DOMAIN req = Requests
  BY DEF Goto, RequestsOK
<1>2. r.pc = pc /\ r.doc = req[p].doc /\ \A f \in DOMAIN kept : r[f] = kept[f]
  BY DEF With
<1> QED
  BY <1>1, <1>2

\* The same of a request that ends: it gives the mutex back if it has it.
LEMMA FinishEffect ==
  ASSUME NEW p \in Requests, RequestsOK, Finish(p)
  PROVE  /\ req' = [q \in Requests |-> req'[q]]
         /\ \A q \in Requests \ {p} : req'[q] = req[q]
         /\ req'[p] = Idle
         /\ payMu' \in {payMu, Nobody}
         /\ \A q \in Requests \ {p} : payMu = q => payMu' = q
  BY DEF Finish, RequestsOK

\* The same of a request that begins.
LEMMA BeginEffect ==
  ASSUME NEW p \in Requests, RequestsOK, NEW d, NEW r, Begin(p, d, r)
  PROVE  /\ req' = [q \in Requests |-> req'[q]]
         /\ \A q \in Requests \ {p} : req'[q] = req[q]
         /\ req'[p] = r
         /\ disturbed' \subseteq disturbed \cup {d}
  BY DEF Begin, RequestsOK

\* The entries stored and reversed stay apart when a request takes on or
\* finishes one of the two.
LEMMA ApartStep ==
  ASSUME Apart, NEW p \in Requests, \A q \in Requests \ {p} : req'[q] = req[q],
         \/ /\ Stored' \subseteq Stored /\ Undone' \subseteq Undone
            /\ ToStore(p)' \subseteq ToStore(p) /\ ToReverse(p)' \subseteq ToReverse(p)
         \/ /\ Stored' \subseteq Stored \cup ToStore(p) /\ Undone' \subseteq Undone
            /\ ToStore(p)' = {} /\ ToReverse(p)' = {}
         \/ /\ Stored' \subseteq Stored /\ Undone' \subseteq Undone \cup ToReverse(p)
            /\ ToStore(p)' = {} /\ ToReverse(p)' = {}
         \/ /\ Stored' \subseteq Stored /\ Undone' \subseteq Undone
            /\ ToStore(p)' = {} /\ ToReverse(p)' \subseteq ToStore(p)
         \/ /\ Stored' \subseteq Stored /\ Undone' \subseteq Undone
            /\ ToStore(p)' \cap (Stored \cup Undone) = {} /\ ToReverse(p)' = {}
            /\ \A q \in Requests : ToStore(p)' \cap (ToStore(q) \cup ToReverse(q)) = {}
         \/ /\ Stored' \subseteq Stored /\ Undone' \subseteq Undone
            /\ ToStore(p)' = {} /\ ToReverse(p)' \cap Stored = {}
            /\ \A q \in Requests : ToStore(q) \cap ToReverse(p)' = {}
  PROVE  Apart'
<1>1. \A q \in Requests \ {p} : ToStore(q)' = ToStore(q) /\ ToReverse(q)' = ToReverse(q)
  BY DEF ToStore, ToReverse
<1> DEFINE s == Stored
           s2 == Stored'
           u == Undone
           u2 == Undone'
<1>2. /\ s \cap u = {}
      /\ \A q \in Requests : ToStore(q) \cap s = {} /\ ToStore(q) \cap u = {} /\ ToReverse(q) \cap s = {}
      /\ \A q, r \in Requests : ToStore(q) \cap ToReverse(r) = {}
      /\ \A q, r \in Requests : q # r => ToStore(q) \cap ToStore(r) = {}
  BY DEF Apart
<1>3. s2 \cap u2 = {}
  BY <1>2
<1>4. ASSUME NEW q \in Requests
      PROVE  ToStore(q)' \cap s2 = {} /\ ToStore(q)' \cap u2 = {} /\ ToReverse(q)' \cap s2 = {}
  <2>1. CASE q = p
    BY <1>2, <2>1
  <2>2. CASE q # p
    BY <1>1, <1>2, <2>2
  <2> QED
    BY <2>1, <2>2
<1>5. ASSUME NEW q \in Requests, NEW r \in Requests
      PROVE  ToStore(q)' \cap ToReverse(r)' = {} /\ (q # r => ToStore(q)' \cap ToStore(r)' = {})
  <2>1. CASE q = p /\ r = p
    BY <1>2, <2>1
  <2>2. CASE q = p /\ r # p
    BY <1>1, <1>2, <2>2
  <2>3. CASE q # p /\ r = p
    BY <1>1, <1>2, <2>3
  <2>4. CASE q # p /\ r # p
    BY <1>1, <1>2, <2>4
  <2> QED
    BY <2>1, <2>2, <2>3, <2>4
<1> QED
  BY <1>3, <1>4, <1>5 DEF Apart

\* The parts of the invariant the lemmas need most.
LEMMA Tables ==
  ASSUME InvoicingInv
  PROVE  /\ invoices \in Seq(Document) /\ journal \in Seq(JournalEntry)
         /\ payments \in Seq(PaymentRow)
         /\ Docs = 1 .. Len(invoices) /\ Entries = 1 .. Len(journal)
         /\ Len(invoices) \in Nat /\ Len(journal) \in Nat /\ Len(payments) \in Nat
         /\ payMu \in Requests \cup {Nobody}
         /\ disturbed \subseteq Docs
         /\ RequestsOK
         /\ \A p \in Requests : RequestOK(p)
  BY DEF InvoicingInv, RowsOK, RequestsOK, Docs, Entries

\* Another request keeps what it knows: the amount paid that it has read is
\* protected by the mutex it holds.
LEMMA OthersKnow ==
  ASSUME NEW q \in Requests, RequestOK(q), req'[q] = req[q],
         Docs \subseteq Docs', JournalGrows,
         payMu = q => payMu' = q /\ \A d \in Docs : invoices'[d].paid = invoices[d].paid
  PROVE  RequestOK(q)'
<1>1. /\ req[q].pc = "idle" => req[q] = Idle
      /\ req[q].pc # "idle" => req[q].doc \in Docs'
      /\ Holding(q) => payMu' = q
      /\ req[q].pc \in {"pay_create", "pay_post", "pay_store"} =>
           req[q].paid = invoices'[req[q].doc].paid
  BY DEF RequestOK, Holding
<1>2. req[q].pc \in {"settle", "issue", "set_status"} =>
        /\ req[q].to \in DOMAIN validTransitions
        /\ req[q].link # 0 => Issued(req[q].link, req[q].doc)
  BY DEF RequestOK
<1> QED
  BY <1>1, <1>2 DEF RequestOK, Holding, Of, Issued, Paid, Posted, JournalGrows

\* What every step of one request has to show, of its own request and of the
\* rows it writes.
LEMMA StepKeeps ==
  ASSUME InvoicingInv, NEW p \in Requests,
         req' = [q \in Requests |-> req'[q]],
         \A q \in Requests \ {p} : req'[q] = req[q],
         RequestOK(p)', RowsOK', Apart', JournalGrows,
         Docs' = Docs,
         \A d \in Docs :
           /\ invoices'[d].from = invoices[d].from
           /\ payMu = p \/ invoices'[d].paid = invoices[d].paid
           /\ invoices'[d].entry \in {0, invoices[d].entry} \/ Issued(invoices[d].entry, d)',
         \A q \in Requests \ {p} : payMu = q => payMu' = q,
         \A k \in DOMAIN payments' :
           \/ k \in DOMAIN payments /\ payments'[k] = payments[k]
           \/ payments'[k].entry = 0
           \/ Paid(payments[k].entry, payments[k].doc, payments[k].amount)'
  PROVE  InvoicingInv'
<1>1. RequestsOK'
  <2>1. \A q \in Requests \ {p} : RequestOK(q)'
    BY Tables, OthersKnow
  <2> QED
    BY <2>1 DEF RequestsOK
<1>2. LinksIssued'
  <2> SUFFICES ASSUME NEW d \in Docs, invoices'[d].entry # 0
               PROVE  Issued(invoices[d].entry, d)'
    BY DEF LinksIssued
  <2>1. CASE invoices'[d].entry = invoices[d].entry
    <3>1. Issued(invoices[d].entry, d)
      BY <2>1 DEF InvoicingInv, LinksIssued
    <3> QED
      BY <2>1, <3>1 DEF Issued, Of, Posted, JournalGrows
  <2> QED
    BY <2>1
<1>3. PaymentsPaid'
  <2> SUFFICES ASSUME NEW k \in DOMAIN payments', payments'[k].entry # 0
               PROVE  Paid(payments[k].entry, payments[k].doc, payments[k].amount)'
    BY DEF PaymentsPaid
  <2>1. CASE k \in DOMAIN payments /\ payments'[k] = payments[k]
    <3>1. Paid(payments[k].entry, payments[k].doc, payments[k].amount)
      BY <2>1 DEF InvoicingInv, PaymentsPaid
    <3> QED
      BY <2>1, <3>1 DEF Paid, Of, Posted, JournalGrows
  <2> QED
    BY <2>1
<1>4. ConvertedOnce'
  BY DEF InvoicingInv, ConvertedOnce
<1> QED
  BY <1>1, <1>2, <1>3, <1>4 DEF InvoicingInv

\* What is written of a document neither its payments nor the quote it comes
\* from depend on, and a link is removed or leads to an entry of issue.
DocsWritten ==
  /\ invoices' \in Seq(Document) /\ Len(invoices') = Len(invoices)
  /\ \A d \in Docs :
       /\ invoices'[d].from = invoices[d].from
       /\ invoices'[d].paid = invoices[d].paid
       /\ invoices'[d].entry \in {0, invoices[d].entry} \/ Issued(invoices'[d].entry, d)

\* A step that leaves the journal and the payments alone.
LEMMA QuietStep ==
  ASSUME InvoicingInv, NEW p \in Requests,
         req' = [q \in Requests |-> req'[q]],
         \A q \in Requests \ {p} : req'[q] = req[q],
         RequestOK(p)', DocsWritten, UNCHANGED <<journal, payments>>,
         payMu' \in Requests \cup {Nobody},
         \A q \in Requests \ {p} : payMu = q => payMu' = q,
         disturbed' \subseteq Docs,
         ToStore(p)' \subseteq ToStore(p), ToReverse(p)' \subseteq ToReverse(p)
  PROVE  InvoicingInv'
<1>1. Docs' = Docs /\ Entries' = Entries
  BY Tables DEF DocsWritten, Docs, Entries
<1>2. Document' = Document /\ JournalEntry' = JournalEntry /\ PaymentRow' = PaymentRow
  BY <1>1 DEF Document, JournalEntry, PaymentRow, DocsWritten
<1>3. RowsOK'
  BY <1>1, <1>2, Tables DEF RowsOK, DocsWritten
<1>4. JournalGrows
  BY <1>1 DEF JournalGrows
<1>5. Stored' = Stored /\ Undone' = Undone
  BY <1>1 DEF Stored, Undone
<1>6. Apart'
  BY <1>5, ApartStep DEF InvoicingInv
<1>7. \A d \in Docs :
        /\ invoices'[d].from = invoices[d].from
        /\ invoices'[d].paid = invoices[d].paid
        /\ invoices'[d].entry \in {0, invoices[d].entry} \/ Issued(invoices[d].entry, d)'
  BY <1>1 DEF DocsWritten, Issued, Of, Posted
<1> QED
  BY <1>1, <1>3, <1>4, <1>6, <1>7, StepKeeps

\* Documents that no statement writes.
LEMMA DocsUnchanged ==
  ASSUME InvoicingInv, UNCHANGED invoices
  PROVE  DocsWritten
  BY Tables DEF DocsWritten

\* A statement that writes the row of a document, its paid amount and its
\* origin apart.
LEMMA DocWritten ==
  ASSUME InvoicingInv, NEW d \in Docs, NEW row \in Document,
         invoices' = [invoices EXCEPT ![d] = row],
         row.from = invoices[d].from, row.paid = invoices[d].paid,
         row.entry \in {0, invoices[d].entry} \/ Issued(row.entry, d)
  PROVE  DocsWritten
<1>1. invoices' \in Seq(Document) /\ Len(invoices') = Len(invoices)
  BY Tables
<1>2. \A x \in Docs : invoices'[x] = IF x = d THEN row ELSE invoices[x]
  BY Tables DEF Docs
<1> QED
  BY <1>1, <1>2 DEF DocsWritten

\* A change of status.
LEMMA StatusWritten ==
  ASSUME InvoicingInv, NEW d \in Docs, NEW st \in DOMAIN validTransitions,
         invoices' = [invoices EXCEPT ![d].status = st]
  PROVE  DocsWritten
<1> DEFINE row == [invoices[d] EXCEPT !.status = st]
<1>1. invoices[d] \in Document
  BY Tables
<1>2. /\ row \in Document /\ row.from = invoices[d].from
      /\ row.paid = invoices[d].paid /\ row.entry = invoices[d].entry
  BY <1>1 DEF Document
<1>3. invoices' = [invoices EXCEPT ![d] = row]
  OBVIOUS
<1> HIDE DEF row
<1> QED
  BY <1>2, <1>3, DocWritten

\* A request that ends.
LEMMA FinishHolds ==
  ASSUME InvoicingInv, NEW p \in Requests, Finish(p), DocsWritten,
         UNCHANGED <<journal, payments>>, disturbed' \subseteq Docs
  PROVE  InvoicingInv'
<1>1. /\ req' = [q \in Requests |-> req'[q]]
      /\ \A q \in Requests \ {p} : req'[q] = req[q]
      /\ req'[p] = Idle
      /\ payMu' \in {payMu, Nobody}
      /\ \A q \in Requests \ {p} : payMu = q => payMu' = q
  BY Tables, FinishEffect
<1>2. RequestOK(p)'
  BY <1>1 DEF RequestOK, Idle, Holding
<1>3. ToStore(p)' = {} /\ ToReverse(p)' = {}
  BY <1>1 DEF ToStore, ToReverse, Idle
<1> QED
  BY <1>1, <1>2, <1>3, Tables, QuietStep

\* A request that goes on and has no entry to store or to reverse.
LEMMA GoOn ==
  ASSUME InvoicingInv, NEW p \in Requests, RequestOK(p)',
         req' = [q \in Requests |-> req'[q]],
         \A q \in Requests \ {p} : req'[q] = req[q],
         req'[p].pc \notin {"pay_post", "pay_store", "reverse_create", "reverse_flag"},
         DocsWritten, UNCHANGED <<journal, payments, disturbed>>,
         payMu' = payMu
  PROVE  InvoicingInv'
<1>1. ToStore(p)' = {} /\ ToReverse(p)' = {}
  BY DEF ToStore, ToReverse
<1> QED
  BY <1>1, Tables, QuietStep

-----------------------------------------------------------------------------
(* Every action keeps the invariant *)

LEMMA InitHolds ==
  ASSUME Init
  PROVE  InvoicingInv
<1>1. invoices = <<>> /\ journal = <<>> /\ payments = <<>> /\ disturbed = {} /\ payMu = Nobody
  BY DEF Init
<1>2. Docs = {} /\ Entries = {} /\ DOMAIN payments = {}
  BY <1>1 DEF Docs, Entries
<1>3. \A p \in Requests : req[p] = Idle
  BY DEF Init
<1>4. RowsOK
  BY <1>1 DEF RowsOK
<1>5. RequestsOK
  BY <1>3 DEF Init, RequestsOK, RequestOK, Idle, Holding
<1>6. \A p \in Requests : ToStore(p) = {} /\ ToReverse(p) = {}
  BY <1>3 DEF ToStore, ToReverse, Idle
<1>7. Apart
  BY <1>2, <1>6 DEF Apart, Stored, Undone
<1>8. LinksIssued /\ PaymentsPaid /\ ConvertedOnce
  BY <1>2 DEF LinksIssued, PaymentsPaid, ConvertedOnce
<1> QED
  BY <1>4, <1>5, <1>7, <1>8 DEF InvoicingInv

\* A request that begins remembers what RequestOK asks for.
LEMMA BeginHolds ==
  ASSUME InvoicingInv, NEW p \in Requests, NEW d \in Docs, NEW r, Begin(p, d, r),
         UNCHANGED <<invoices, journal, payments, payMu>>,
         r.doc = d,
         \/ r.pc = "update_check" /\ r.total \in Nat
         \/ r.pc = "pay_lock" /\ r.amount \in Nat
         \/ /\ r.pc \in {"settle", "issue", "set_status"}
            /\ r.to \in DOMAIN validTransitions /\ r.link = invoices[d].entry
  PROVE  InvoicingInv'
<1>1. /\ req' = [q \in Requests |-> req'[q]]
      /\ \A q \in Requests \ {p} : req'[q] = req[q]
      /\ req'[p] = r
      /\ disturbed' \subseteq disturbed \cup {d}
  BY Tables, BeginEffect
<1>2. invoices[d].entry # 0 => Issued(invoices[d].entry, d)
  BY DEF InvoicingInv, LinksIssued
<1>3. RequestOK(p)'
  BY <1>1, <1>2 DEF RequestOK, Holding, Docs, Issued, Of, Posted, Entries
<1>4. ToStore(p)' = {} /\ ToReverse(p)' = {}
  BY <1>1 DEF ToStore, ToReverse
<1> QED
  BY <1>1, <1>3, <1>4, DocsUnchanged, Tables, QuietStep

LEMMA ArrivalHolds ==
  ASSUME InvoicingInv, NEW p \in Requests, Arrival(p)
  PROVE  InvoicingInv'
<1>1. PICK d \in Docs :
        \/ \E total \in Amounts : UpdateLoad(p, d, total)
        \/ \E to \in DOMAIN validTransitions : TransitionLoad(p, d, to)
        \/ \E amount \in Amounts : CreatePayment(p, d, amount)
  BY DEF Arrival
<1>2. ASSUME NEW total \in Amounts, UpdateLoad(p, d, total)
      PROVE  InvoicingInv'
  <2> DEFINE r == [pc |-> "update_check", doc |-> d, total |-> total]
  <2>1. Begin(p, d, r) /\ UNCHANGED <<invoices, journal, payments, payMu>>
    BY <1>2 DEF UpdateLoad
  <2>2. r.doc = d /\ r.pc = "update_check" /\ r.total \in Nat
    BY InvoicingAssumption
  <2> HIDE DEF r
  <2> QED
    BY <2>1, <2>2, BeginHolds
<1>3. ASSUME NEW to \in DOMAIN validTransitions, TransitionLoad(p, d, to)
      PROVE  InvoicingInv'
  <2>1. PICK pc \in {"settle", "issue", "set_status"} :
          Begin(p, d, [pc |-> pc, doc |-> d, from |-> invoices[d].status, to |-> to,
                       link |-> invoices[d].entry])
    BY <1>3 DEF TransitionLoad
  <2> DEFINE r == [pc |-> pc, doc |-> d, from |-> invoices[d].status, to |-> to,
                   link |-> invoices[d].entry]
  <2>2. Begin(p, d, r) /\ UNCHANGED <<invoices, journal, payments, payMu>>
    BY <1>3, <2>1 DEF TransitionLoad
  <2>3. /\ r.doc = d /\ r.pc \in {"settle", "issue", "set_status"}
        /\ r.to \in DOMAIN validTransitions /\ r.link = invoices[d].entry
    OBVIOUS
  <2> HIDE DEF r
  <2> QED
    BY <2>2, <2>3, BeginHolds
<1>4. ASSUME NEW amount \in Amounts, CreatePayment(p, d, amount)
      PROVE  InvoicingInv'
  <2> DEFINE r == [pc |-> "pay_lock", doc |-> d, amount |-> amount]
  <2>1. Begin(p, d, r) /\ UNCHANGED <<invoices, journal, payments, payMu>>
    BY <1>4 DEF CreatePayment
  <2>2. r.doc = d /\ r.pc = "pay_lock" /\ r.amount \in Nat
    BY InvoicingAssumption
  <2> HIDE DEF r
  <2> QED
    BY <2>1, <2>2, BeginHolds
<1> QED
  BY <1>1, <1>2, <1>3, <1>4

\* An error wherever it comes.
LEMMA AbandonHolds ==
  ASSUME InvoicingInv, NEW p \in Requests, Abandon(p)
  PROVE  InvoicingInv'
<1>1. req[p] # Idle /\ RequestOK(p)
  BY Tables DEF Abandon
<1>2. disturbed' \subseteq Docs
  BY <1>1, Tables DEF Abandon, RequestOK
<1> QED
  BY <1>2, DocsUnchanged, FinishHolds DEF Abandon

\* The modification of a draft.
LEMMA UpdatingHolds ==
  ASSUME InvoicingInv, NEW p \in Requests, Updating(p)
  PROVE  InvoicingInv'
<1>1. RequestOK(p) /\ disturbed \subseteq Docs
  BY Tables
<1>2. CASE UpdateCheck(p) /\ Finish(p)
  BY <1>1, <1>2, DocsUnchanged, FinishHolds DEF UpdateCheck
<1>3. CASE UpdateCheck(p) /\ ~Finish(p)
  <2> DEFINE kept == Keep(p, {"total"})
  <2>1. DOMAIN kept = {"total"} /\ kept["total"] = req[p].total
    BY DEF Keep
  <2>2. Goto(p, "update", kept) /\ UNCHANGED <<invoices, journal, payments, payMu, disturbed>>
    BY <1>3 DEF UpdateCheck
  <2> HIDE DEF kept
  <2>3. /\ req' = [q \in Requests |-> req'[q]]
        /\ \A q \in Requests \ {p} : req'[q] = req[q]
        /\ req'[p].pc = "update" /\ req'[p].doc = req[p].doc /\ req'[p].total = req[p].total
    BY <2>1, <2>2, Tables, GotoEffect
  <2>4. RequestOK(p)'
    BY <1>1, <1>3, <2>2, <2>3 DEF RequestOK, Holding, Docs, UpdateCheck, At
  <2> QED
    BY <2>2, <2>3, <2>4, DocsUnchanged, GoOn
<1>4. CASE UpdateCommit(p)
  <2> DEFINE d == req[p].doc
             row == [invoices[d] EXCEPT !.total = req[p].total]
  <2>1. d \in Docs /\ req[p].total \in Nat
    BY <1>1, <1>4 DEF UpdateCommit, At, RequestOK
  <2>2. invoices[d] \in Document
    BY <2>1, Tables
  <2>3. /\ row \in Document /\ row.from = invoices[d].from
        /\ row.paid = invoices[d].paid /\ row.entry = invoices[d].entry
    BY <2>1, <2>2 DEF Document
  <2>4. invoices' = [invoices EXCEPT ![d] = row]
    BY <1>4 DEF UpdateCommit
  <2> HIDE DEF row
  <2>5. DocsWritten
    BY <2>1, <2>3, <2>4, DocWritten
  <2> QED
    BY <1>1, <1>4, <2>5, FinishHolds DEF UpdateCommit
<1> QED
  BY <1>2, <1>3, <1>4 DEF Updating

\* A transition that pays the balance first.
LEMMA SettleHolds ==
  ASSUME InvoicingInv, NEW p \in Requests, SettleRead(p)
  PROVE  InvoicingInv'
<1> DEFINE d == req[p].doc
           balance == invoices[d].total - invoices[d].paid
<1>1. RequestOK(p) /\ At(p, "settle") /\ UNCHANGED <<invoices, journal, payments, payMu, disturbed>>
  BY Tables DEF SettleRead
<1>2. d \in Docs
  BY <1>1 DEF RequestOK, At
<1>3. CASE balance <= 0
  <2> DEFINE kept == Keep(p, {"from", "to", "link"})
  <2>1. DOMAIN kept = {"from", "to", "link"} /\ kept["to"] = req[p].to /\ kept["link"] = req[p].link
    BY DEF Keep
  <2>2. Goto(p, "set_status", kept)
    BY <1>3 DEF SettleRead
  <2> HIDE DEF kept
  <2>3. /\ req' = [q \in Requests |-> req'[q]]
        /\ \A q \in Requests \ {p} : req'[q] = req[q]
        /\ req'[p].pc = "set_status" /\ req'[p].doc = req[p].doc
        /\ req'[p].to = req[p].to /\ req'[p].link = req[p].link
    BY <2>1, <2>2, Tables, GotoEffect
  <2>4. RequestOK(p)'
    BY <1>1, <1>2, <2>3 DEF RequestOK, Holding, Docs, At, Issued, Of, Posted, Entries
  <2> QED
    BY <1>1, <2>3, <2>4, DocsUnchanged, GoOn
<1>4. CASE ~(balance <= 0)
  <2> DEFINE kept == [amount |-> balance]
  <2>1. DOMAIN kept = {"amount"} /\ kept["amount"] = balance
    OBVIOUS
  <2>2. Goto(p, "pay_lock", kept)
    BY <1>4 DEF SettleRead
  <2> HIDE DEF kept
  <2>3. /\ req' = [q \in Requests |-> req'[q]]
        /\ \A q \in Requests \ {p} : req'[q] = req[q]
        /\ req'[p].pc = "pay_lock" /\ req'[p].doc = req[p].doc /\ req'[p].amount = balance
    BY <2>1, <2>2, Tables, GotoEffect
  <2>4. balance \in Nat
    <3>1. invoices[d] \in Document
      BY <1>2, Tables
    <3>2. invoices[d].total \in Nat /\ invoices[d].paid \in Nat
      BY <3>1 DEF Document
    <3> QED
      BY <1>4, <3>2
  <2>5. RequestOK(p)'
    BY <1>1, <1>2, <2>3, <2>4 DEF RequestOK, Holding, Docs
  <2> QED
    BY <1>1, <2>3, <2>5, DocsUnchanged, GoOn
<1> QED
  BY <1>3, <1>4

\* The status of a transition, and what comes after it.
LEMMA SetStatusHolds ==
  ASSUME InvoicingInv, NEW p \in Requests, SetStatus(p)
  PROVE  InvoicingInv'
<1> DEFINE d == req[p].doc
<1>1. RequestOK(p) /\ At(p, "set_status") /\ UNCHANGED <<journal, payments, disturbed>>
  BY Tables DEF SetStatus
<1>2. d \in Docs /\ req[p].to \in DOMAIN validTransitions
  BY <1>1 DEF RequestOK, At
<1>3. DocsWritten
  <2>1. invoices' = [invoices EXCEPT ![d].status = req[p].to]
    BY DEF SetStatus
  <2> QED
    BY <1>2, <2>1, StatusWritten
<1>4. Docs' = Docs
  BY <1>3, Tables DEF DocsWritten, Docs
<1>5. CASE Finish(p)
  BY <1>1, <1>3, <1>5, Tables, FinishHolds
<1>6. CASE Goto(p, "clear_link", Nothing) /\ UNCHANGED payMu
  <2>1. {"pc", "doc"} \cap DOMAIN Nothing = {}
    BY DEF Nothing
  <2>2. /\ req' = [q \in Requests |-> req'[q]]
        /\ \A q \in Requests \ {p} : req'[q] = req[q]
        /\ req'[p].pc = "clear_link" /\ req'[p].doc = req[p].doc
    BY <1>6, <2>1, Tables, GotoEffect
  <2>3. RequestOK(p)'
    BY <1>2, <1>4, <2>2 DEF RequestOK, Holding
  <2> QED
    BY <1>1, <1>3, <1>6, <2>2, <2>3, GoOn
<1>7. CASE req[p].link # 0 /\ Goto(p, "reverse_create", Keep(p, {"link"})) /\ UNCHANGED payMu
  <2> DEFINE kept == Keep(p, {"link"})
  <2>1. DOMAIN kept = {"link"} /\ kept["link"] = req[p].link
    BY DEF Keep
  <2> HIDE DEF kept
  <2>2. /\ req' = [q \in Requests |-> req'[q]]
        /\ \A q \in Requests \ {p} : req'[q] = req[q]
        /\ req'[p].pc = "reverse_create" /\ req'[p].doc = req[p].doc /\ req'[p].link = req[p].link
    BY <1>7, <2>1, Tables, GotoEffect DEF kept
  <2>3. Of(req[p].link, "issue", d)
    BY <1>1, <1>7 DEF RequestOK, At, Issued
  <2>4. RequestOK(p)'
    BY <1>1, <1>2, <1>4, <2>2, <2>3 DEF RequestOK, Holding, Of, Entries
  <2>5. Stored' = Stored /\ Undone' = Undone
    BY <1>1 DEF Stored, Undone, Entries
  <2>6. ToStore(p)' = {} /\ ToReverse(p)' = {req[p].link}
    BY <2>2 DEF ToStore, ToReverse
  <2>7. req[p].link \notin Stored
    BY <2>3 DEF Stored, InvoicingInv, PaymentsPaid, Paid, Of
  <2>8. \A q \in Requests : req[p].link \notin ToStore(q)
    BY <2>3, Tables DEF ToStore, RequestOK, Paid, Of
  <2>9. Apart'
    BY <2>2, <2>5, <2>6, <2>7, <2>8, ApartStep DEF InvoicingInv
  <2>10. Document' = Document /\ JournalEntry' = JournalEntry /\ PaymentRow' = PaymentRow
    BY <1>1, <1>3, <1>4 DEF Document, JournalEntry, PaymentRow, DocsWritten
  <2>11. RowsOK' /\ JournalGrows
    BY <1>1, <1>3, <1>4, <1>7, <2>10, Tables DEF RowsOK, DocsWritten, JournalGrows, Entries
  <2>12. \A x \in Docs :
          /\ invoices'[x].from = invoices[x].from
          /\ invoices'[x].paid = invoices[x].paid
          /\ invoices'[x].entry \in {0, invoices[x].entry} \/ Issued(invoices[x].entry, x)'
    BY <1>1, <1>3 DEF DocsWritten, Issued, Of, Posted, Entries
  <2> QED
    BY <1>1, <1>4, <1>7, <2>2, <2>4, <2>9, <2>11, <2>12, StepKeeps
<1> QED
  BY <1>5, <1>6, <1>7 DEF SetStatus

\* The removal of a link.
LEMMA ClearLinkHolds ==
  ASSUME InvoicingInv, NEW p \in Requests, ClearLink(p)
  PROVE  InvoicingInv'
<1> DEFINE d == req[p].doc
           row == [invoices[d] EXCEPT !.entry = 0]
<1>1. d \in Docs
  BY Tables DEF ClearLink, RequestOK, At
<1>2. invoices[d] \in Document
  BY <1>1, Tables
<1>3. /\ row \in Document /\ row.from = invoices[d].from
      /\ row.paid = invoices[d].paid /\ row.entry = 0
  <2>1. 0 \in 0 .. Len(journal)
    BY Tables
  <2> QED
    BY <1>2, <2>1 DEF Document
<1>4. invoices' = [invoices EXCEPT ![d] = row]
  BY DEF ClearLink
<1> HIDE DEF row
<1>5. DocsWritten
  BY <1>1, <1>3, <1>4, DocWritten
<1> QED
  BY <1>5, Tables, FinishHolds DEF ClearLink

\* The issue of a document, up to its amounts.
LEMMA IssueHolds ==
  ASSUME InvoicingInv, NEW p \in Requests, Issue(p) \/ IssueCheck(p) \/ IssueAmounts(p)
  PROVE  InvoicingInv'
<1> DEFINE d == req[p].doc
<1>1. RequestOK(p) /\ UNCHANGED <<journal, payments, disturbed>>
  BY Tables DEF Issue, IssueCheck, IssueAmounts
<1>2. d \in Docs
  BY <1>1 DEF RequestOK, At, Issue, IssueCheck, IssueAmounts
<1>3. DocsWritten
  <2>1. CASE Issue(p)
    <3>1. invoices' = [invoices EXCEPT ![d].status = "sent"] /\ "sent" \in DOMAIN validTransitions
      BY <2>1 DEF Issue, validTransitions
    <3> QED
      BY <1>2, <3>1, StatusWritten
  <2>2. CASE IssueCheck(p) \/ IssueAmounts(p)
    BY <2>2, DocsUnchanged DEF IssueCheck, IssueAmounts
  <2> QED
    BY <2>1, <2>2
<1>4. Docs' = Docs
  BY <1>3, Tables DEF DocsWritten, Docs
<1>5. CASE Finish(p)
  BY <1>1, <1>3, <1>5, Tables, FinishHolds
<1>6. CASE /\ Goto(p, "issue_link", Nothing) \/ Goto(p, "issue_amounts", Nothing)
           /\ UNCHANGED payMu
  <2>1. PICK pc \in {"issue_link", "issue_amounts"} : Goto(p, pc, Nothing)
    BY <1>6
  <2>2. {"pc", "doc"} \cap DOMAIN Nothing = {}
    BY DEF Nothing
  <2>3. /\ req' = [q \in Requests |-> req'[q]]
        /\ \A q \in Requests \ {p} : req'[q] = req[q]
        /\ req'[p].pc = pc /\ req'[p].doc = req[p].doc
    BY <2>1, <2>2, Tables, GotoEffect
  <2>4. RequestOK(p)'
    BY <1>2, <1>4, <2>3 DEF RequestOK, Holding
  <2> QED
    BY <1>1, <1>3, <1>6, <2>3, <2>4, GoOn
<1>7. CASE Goto(p, "issue_create", [amount |-> invoices[d].total]) /\ UNCHANGED payMu
  <2> DEFINE kept == [amount |-> invoices[d].total]
  <2>1. DOMAIN kept = {"amount"} /\ kept["amount"] = invoices[d].total
    OBVIOUS
  <2>2. Goto(p, "issue_create", kept)
    BY <1>7
  <2> HIDE DEF kept
  <2>3. /\ req' = [q \in Requests |-> req'[q]]
        /\ \A q \in Requests \ {p} : req'[q] = req[q]
        /\ req'[p].pc = "issue_create" /\ req'[p].doc = req[p].doc
        /\ req'[p].amount = invoices[d].total
    BY <2>1, <2>2, Tables, GotoEffect
  <2>4. invoices[d].total \in Nat
    <3>1. invoices[d] \in Document
      BY <1>2, Tables
    <3> QED
      BY <3>1 DEF Document
  <2>5. RequestOK(p)'
    BY <1>2, <1>4, <2>3, <2>4 DEF RequestOK, Holding
  <2> QED
    BY <1>1, <1>3, <1>7, <2>3, <2>5, GoOn
<1> QED
  BY <1>5, <1>6, <1>7 DEF Issue, IssueCheck, IssueAmounts

\* The link is written to an entry that is posted.
LEMMA IssueLinkHolds ==
  ASSUME InvoicingInv, NEW p \in Requests, IssueLink(p)
  PROVE  InvoicingInv'
<1> DEFINE d == req[p].doc
           row == [invoices[d] EXCEPT !.entry = req[p].new]
<1>1. d \in Docs /\ Issued(req[p].new, d)
  BY Tables DEF IssueLink, RequestOK, At
<1>2. invoices[d] \in Document /\ req[p].new \in 0 .. Len(journal)
  BY <1>1, Tables DEF Issued, Of
<1>3. /\ row \in Document /\ row.from = invoices[d].from
      /\ row.paid = invoices[d].paid /\ row.entry = req[p].new
  BY <1>2 DEF Document
<1>4. invoices' = [invoices EXCEPT ![d] = row]
  BY DEF IssueLink
<1> HIDE DEF row
<1>5. DocsWritten
  BY <1>1, <1>3, <1>4, DocWritten
<1> QED
  BY <1>5, Tables, FinishHolds DEF IssueLink

-----------------------------------------------------------------------------
(* Steps that write the journal *)

\* A statement that writes the journal alone, keeping what its entries say.
LEMMA JournalStep ==
  ASSUME InvoicingInv, NEW p \in Requests, RequestOK(p)', Apart', JournalGrows,
         req' = [q \in Requests |-> req'[q]],
         \A q \in Requests \ {p} : req'[q] = req[q],
         journal' \in Seq(JournalEntry'), Len(journal) <= Len(journal'),
         UNCHANGED <<invoices, payments, disturbed>>,
         payMu' \in {payMu, Nobody}, \A q \in Requests \ {p} : payMu = q => payMu' = q
  PROVE  InvoicingInv'
<1>1. Docs' = Docs
  BY DEF Docs
<1>2. Document \subseteq Document' /\ PaymentRow \subseteq PaymentRow'
  <2>1. Len(journal') \in Nat /\ 0 .. Len(journal) \subseteq 0 .. Len(journal')
    BY Tables
  <2>2. Len(invoices') = Len(invoices)
    OBVIOUS
  <2> QED
    BY <1>1, <2>1, <2>2 DEF Document, PaymentRow
<1>3. RowsOK'
  <2>1. invoices' \in Seq(Document') /\ payments' \in Seq(PaymentRow')
    BY <1>2, Tables
  <2> QED
    BY <1>1, <2>1, Tables DEF RowsOK
<1>4. \A d \in Docs :
        /\ invoices'[d].from = invoices[d].from
        /\ invoices'[d].paid = invoices[d].paid
        /\ invoices'[d].entry \in {0, invoices[d].entry}
  OBVIOUS
<1> QED
  BY <1>1, <1>3, <1>4, StepKeeps

\* A draft of a request is a row of the journal.
LEMMA DraftRow ==
  ASSUME InvoicingInv, NEW kind \in {"issue", "payment", "reversal"},
         NEW d \in Docs, NEW amount \in Nat
  PROVE  /\ Draft(kind, d, amount) \in JournalEntry
         /\ Draft(kind, d, amount).reverses = 0
<1>1. 0 \in 0 .. Len(journal)
  BY Tables
<1> QED
  BY <1>1 DEF Draft, JournalEntry

\* An entry appended to the journal, a draft.
LEMMA Creation ==
  ASSUME InvoicingInv, NEW p \in Requests,
         NEW entry \in JournalEntry, entry.reverses = 0,
         NEW pc, NEW kept, CreateEntry(p, entry, pc, kept),
         {"pc", "doc", "new"} \cap DOMAIN kept = {}
  PROVE  /\ req' = [q \in Requests |-> req'[q]]
         /\ \A q \in Requests \ {p} : req'[q] = req[q]
         /\ req'[p].pc = pc /\ req'[p].doc = req[p].doc
         /\ req'[p].new = Len(journal) + 1
         /\ \A f \in DOMAIN kept : req'[p][f] = kept[f]
         /\ journal' \in Seq(JournalEntry') /\ Len(journal) <= Len(journal')
         /\ JournalGrows
         /\ Len(journal) + 1 \in Entries' /\ Len(journal) + 1 \notin Entries
         /\ journal'[Len(journal) + 1] = entry
         /\ Stored' = Stored /\ Undone' = Undone
         /\ UNCHANGED <<invoices, payments, payMu, disturbed>>
<1> DEFINE e == Len(journal) + 1
           all == With(kept, "new", e)
<1>1. /\ journal' = Append(journal, entry) /\ Goto(p, pc, all)
      /\ UNCHANGED <<invoices, payments, payMu, disturbed>>
  BY DEF CreateEntry
<1>2. /\ DOMAIN all = DOMAIN kept \cup {"new"}
      /\ all["new"] = e
      /\ \A f \in DOMAIN kept : all[f] = kept[f]
  BY DEF With
<1> HIDE DEF all
<1>3. /\ req' = [q \in Requests |-> req'[q]]
      /\ \A q \in Requests \ {p} : req'[q] = req[q]
      /\ req'[p].pc = pc /\ req'[p].doc = req[p].doc
      /\ req'[p].new = e
      /\ \A f \in DOMAIN kept : req'[p][f] = kept[f]
  <2>1. {"pc", "doc"} \cap DOMAIN all = {} /\ RequestsOK
    BY <1>2, Tables
  <2>2. /\ req' = [q \in Requests |-> req'[q]]
        /\ \A q \in Requests \ {p} : req'[q] = req[q]
        /\ req'[p].pc = pc /\ req'[p].doc = req[p].doc
        /\ \A f \in DOMAIN all : req'[p][f] = all[f]
    BY <1>1, <2>1, GotoEffect
  <2> QED
    BY <1>2, <2>2
<1>4. /\ journal' \in Seq(JournalEntry) /\ Len(journal') = e
      /\ \A x \in Entries : journal'[x] = journal[x]
      /\ journal'[e] = entry
  BY <1>1, Tables
<1>5. Entries' = Entries \cup {e} /\ e \notin Entries
  BY <1>4, Tables DEF Entries
<1>6. JournalEntry \subseteq JournalEntry'
  <2>1. 0 .. Len(journal) \subseteq 0 .. Len(journal')
    BY <1>4, Tables
  <2>2. Docs' = Docs
    BY <1>1 DEF Docs
  <2> QED
    BY <2>1, <2>2 DEF JournalEntry
<1>7. journal' \in Seq(JournalEntry') /\ Len(journal) <= Len(journal')
  BY <1>4, <1>6, Tables
<1>8. JournalGrows
  BY <1>4, <1>5 DEF JournalGrows
<1>9. Stored' = Stored /\ Undone' = Undone
  BY <1>1, <1>4, <1>5 DEF Stored, Undone
<1> QED
  BY <1>1, <1>3, <1>4, <1>5, <1>7, <1>8, <1>9

\* The entry of an issue.
LEMMA IssueCreateHolds ==
  ASSUME InvoicingInv, NEW p \in Requests, IssueCreate(p)
  PROVE  InvoicingInv'
<1> DEFINE e == Len(journal) + 1
           entry == Draft("issue", req[p].doc, req[p].amount)
<1>1. RequestOK(p) /\ At(p, "issue_create")
  BY Tables DEF IssueCreate
<1>2. req[p].doc \in Docs /\ req[p].amount \in Nat
  BY <1>1 DEF RequestOK, At
<1>3. {"pc", "doc", "new"} \cap DOMAIN Nothing = {}
  BY DEF Nothing
<1>4. entry \in JournalEntry /\ entry.reverses = 0
  BY <1>2, DraftRow
<1>5. CreateEntry(p, entry, "issue_post", Nothing)
  BY DEF IssueCreate
<1> HIDE DEF entry
<1>6. /\ req' = [q \in Requests |-> req'[q]]
      /\ \A q \in Requests \ {p} : req'[q] = req[q]
      /\ req'[p].pc = "issue_post" /\ req'[p].doc = req[p].doc /\ req'[p].new = e
      /\ journal' \in Seq(JournalEntry') /\ Len(journal) <= Len(journal')
      /\ JournalGrows
      /\ e \in Entries' /\ journal'[e] = entry
      /\ Stored' = Stored /\ Undone' = Undone
      /\ UNCHANGED <<invoices, payments, payMu, disturbed>>
  BY <1>3, <1>4, <1>5, Creation
<1> HIDE DEF e
<1>7. RequestOK(p)'
  BY <1>2, <1>6 DEF RequestOK, Holding, Docs, Of, Draft, entry
<1>8. Apart'
  <2>1. ToStore(p)' = {} /\ ToReverse(p)' = {}
    BY <1>6 DEF ToStore, ToReverse
  <2> QED
    BY <1>6, <2>1, ApartStep DEF InvoicingInv
<1> QED
  BY <1>6, <1>7, <1>8, JournalStep

\* The entry of a payment: of all the entries, the only one that the request has
\* to store, and no other request has to do with it.
LEMMA PayCreateHolds ==
  ASSUME InvoicingInv, NEW p \in Requests, PayCreate(p)
  PROVE  InvoicingInv'
<1> DEFINE e == Len(journal) + 1
           entry == Draft("payment", req[p].doc, req[p].amount)
           kept == Keep(p, {"amount", "total", "paid"})
<1>1. RequestOK(p) /\ At(p, "pay_create")
  BY Tables DEF PayCreate
<1>2. /\ req[p].doc \in Docs /\ req[p].amount \in Nat /\ req[p].total \in Nat
      /\ req[p].paid = invoices[req[p].doc].paid /\ payMu = p
  BY <1>1 DEF RequestOK, At, Holding
<1>3. /\ DOMAIN kept = {"amount", "total", "paid"} /\ kept["amount"] = req[p].amount
      /\ kept["total"] = req[p].total /\ kept["paid"] = req[p].paid
  BY DEF Keep
<1>4. entry \in JournalEntry /\ entry.reverses = 0
  BY <1>2, DraftRow
<1>5. CreateEntry(p, entry, "pay_post", kept)
  BY DEF PayCreate
<1> HIDE DEF kept, entry
<1>6. /\ req' = [q \in Requests |-> req'[q]]
      /\ \A q \in Requests \ {p} : req'[q] = req[q]
      /\ req'[p].pc = "pay_post" /\ req'[p].doc = req[p].doc /\ req'[p].new = e
      /\ \A f \in DOMAIN kept : req'[p][f] = kept[f]
      /\ journal' \in Seq(JournalEntry') /\ Len(journal) <= Len(journal')
      /\ JournalGrows
      /\ e \in Entries' /\ e \notin Entries
      /\ journal'[e] = entry
      /\ Stored' = Stored /\ Undone' = Undone
      /\ UNCHANGED <<invoices, payments, payMu, disturbed>>
  BY <1>3, <1>4, <1>5, Creation
<1> HIDE DEF e
<1>7. /\ req'[p].amount = req[p].amount /\ req'[p].total = req[p].total
      /\ req'[p].paid = req[p].paid
  BY <1>3, <1>6
<1>8. RequestOK(p)'
  BY <1>2, <1>6, <1>7 DEF RequestOK, Holding, Docs, Of, Draft, entry
<1>9. Apart'
  <2>1. ToStore(p)' \subseteq {e} /\ ToReverse(p)' = {}
    BY <1>6 DEF ToStore, ToReverse
  <2>2. Stored \subseteq Entries /\ Undone \subseteq Entries
    <3>1. \A k \in DOMAIN payments : payments[k].entry # 0 => payments[k].entry \in Entries
      BY DEF InvoicingInv, PaymentsPaid, Paid, Of
    <3>2. \A x \in Entries : journal[x].reverses \in 0 .. Len(journal)
      <4>1. \A x \in Entries : journal[x] \in JournalEntry
        BY Tables
      <4> QED
        BY <4>1 DEF JournalEntry
    <3> QED
      BY <3>1, <3>2, Tables DEF Stored, Undone
  <2>3. \A q \in Requests : ToStore(q) \subseteq Entries /\ ToReverse(q) \subseteq Entries
    BY Tables DEF ToStore, ToReverse, RequestOK, Of, Paid
  <2> QED
    BY <1>6, <2>1, <2>2, <2>3, ApartStep DEF InvoicingInv
<1> QED
  BY <1>6, <1>8, <1>9, JournalStep

\* The mirror of an entry.
LEMMA ReverseCreateHolds ==
  ASSUME InvoicingInv, NEW p \in Requests, ReverseCreate(p)
  PROVE  InvoicingInv'
<1> DEFINE e == Len(journal) + 1
           entry == Draft("reversal", req[p].doc, journal[req[p].link].amount)
           kept == Keep(p, {"link"})
           amount == journal[req[p].link].amount
<1>1. RequestOK(p) /\ At(p, "reverse_create")
  BY Tables DEF ReverseCreate
<1>2. req[p].doc \in Docs /\ req[p].link \in Entries
  BY <1>1 DEF RequestOK, At
<1>3. amount \in Nat
  <2>1. journal[req[p].link] \in JournalEntry
    BY <1>2, Tables
  <2> QED
    BY <2>1 DEF JournalEntry
<1>4. DOMAIN kept = {"link"} /\ kept["link"] = req[p].link
  BY DEF Keep
<1>5. entry \in JournalEntry /\ entry.reverses = 0
  BY <1>2, <1>3, DraftRow
<1>6. CreateEntry(p, entry, "reverse_flag", kept)
  BY DEF ReverseCreate
<1> HIDE DEF kept, amount, entry
<1>7. /\ req' = [q \in Requests |-> req'[q]]
      /\ \A q \in Requests \ {p} : req'[q] = req[q]
      /\ req'[p].pc = "reverse_flag" /\ req'[p].doc = req[p].doc /\ req'[p].new = e
      /\ \A f \in DOMAIN kept : req'[p][f] = kept[f]
      /\ journal' \in Seq(JournalEntry') /\ Len(journal) <= Len(journal')
      /\ JournalGrows
      /\ e \in Entries'
      /\ Stored' = Stored /\ Undone' = Undone
      /\ UNCHANGED <<invoices, payments, payMu, disturbed>>
  BY <1>4, <1>5, <1>6, Creation
<1> HIDE DEF e
<1>8. req'[p].link = req[p].link
  BY <1>4, <1>7
<1>9. RequestOK(p)'
  BY <1>2, <1>7, <1>8 DEF RequestOK, Holding, Docs, JournalGrows
<1>10. Apart'
  <2>1. ToStore(p)' = {} /\ ToReverse(p)' = ToReverse(p)
    BY <1>1, <1>7, <1>8 DEF ToStore, ToReverse, At
  <2> QED
    BY <1>7, <2>1, ApartStep DEF InvoicingInv
<1> QED
  BY <1>7, <1>9, <1>10, JournalStep

\* A field written of one entry that does not say what the entry is.
LEMMA EntryWritten ==
  ASSUME InvoicingInv, NEW e \in Entries, NEW row \in JournalEntry,
         journal' = [journal EXCEPT ![e] = row], UNCHANGED invoices,
         row.kind = journal[e].kind, row.doc = journal[e].doc, row.amount = journal[e].amount,
         Posted(e) => row.status = "posted"
  PROVE  /\ journal' \in Seq(JournalEntry') /\ Len(journal) <= Len(journal')
         /\ JournalGrows
         /\ Entries' = Entries
         /\ journal'[e] = row
         /\ \A x \in Entries \ {e} : journal'[x] = journal[x]
<1>1. /\ journal' \in Seq(JournalEntry) /\ Len(journal') = Len(journal)
      /\ journal'[e] = row
      /\ \A x \in Entries \ {e} : journal'[x] = journal[x]
  BY Tables
<1>2. Docs' = Docs /\ Entries' = Entries
  BY <1>1, Tables DEF Docs, Entries
<1>3. JournalEntry' = JournalEntry
  BY <1>1, <1>2 DEF JournalEntry
<1>4. journal' \in Seq(JournalEntry') /\ Len(journal) <= Len(journal')
  BY <1>1, <1>3, Tables
<1>5. JournalGrows
  BY <1>1, <1>2 DEF JournalGrows, Posted
<1> QED
  BY <1>1, <1>2, <1>4, <1>5

\* PostEntry of the entry just created.
LEMMA Posting ==
  ASSUME InvoicingInv, NEW p \in Requests, req[p].new \in Entries,
         journal' = [journal EXCEPT ![req[p].new].status = "posted"], UNCHANGED <<invoices, payments>>
  PROVE  /\ journal' \in Seq(JournalEntry') /\ Len(journal) <= Len(journal')
         /\ JournalGrows
         /\ journal'[req[p].new].status = "posted"
         /\ Stored' = Stored /\ Undone' = Undone
<1> DEFINE e == req[p].new
           row == [journal[e] EXCEPT !.status = "posted"]
<1>1. journal[e] \in JournalEntry
  BY Tables
<1>2. /\ row \in JournalEntry /\ row.kind = journal[e].kind /\ row.doc = journal[e].doc
      /\ row.amount = journal[e].amount /\ row.status = "posted"
      /\ row.reverses = journal[e].reverses
  BY <1>1 DEF JournalEntry
<1>3. journal' = [journal EXCEPT ![e] = row]
  OBVIOUS
<1> HIDE DEF row, e
<1>4. e \in Entries
  BY DEF e
<1>5. /\ journal' \in Seq(JournalEntry') /\ Len(journal) <= Len(journal')
      /\ JournalGrows
      /\ Entries' = Entries
      /\ journal'[e] = row
      /\ \A x \in Entries \ {e} : journal'[x] = journal[x]
  BY <1>2, <1>3, <1>4, EntryWritten
<1>6. Stored' = Stored
  BY DEF Stored
<1>7. Undone' = Undone
  BY <1>2, <1>4, <1>5 DEF Undone
<1> QED
  BY <1>2, <1>5, <1>6, <1>7 DEF e

\* The postings: of an issue, of a payment and of a reversal.
LEMMA IssuePostHolds ==
  ASSUME InvoicingInv, NEW p \in Requests, IssuePost(p)
  PROVE  InvoicingInv'
<1>1. RequestOK(p) /\ At(p, "issue_post")
  BY Tables DEF IssuePost
<1>2. req[p].doc \in Docs /\ Of(req[p].new, "issue", req[p].doc) /\ req[p].new \in Entries
  BY <1>1 DEF RequestOK, At, Of
<1> DEFINE kept == Keep(p, {"new"})
<1>3. DOMAIN kept = {"new"} /\ kept["new"] = req[p].new
  BY DEF Keep
<1>4. /\ journal' = [journal EXCEPT ![req[p].new].status = "posted"]
      /\ Goto(p, "issue_set_link", kept)
      /\ UNCHANGED <<invoices, payments, payMu, disturbed>>
  BY DEF IssuePost, PostEntry
<1> HIDE DEF kept
<1>5. /\ journal' \in Seq(JournalEntry') /\ Len(journal) <= Len(journal')
      /\ JournalGrows
      /\ journal'[req[p].new].status = "posted"
      /\ Stored' = Stored /\ Undone' = Undone
  BY <1>2, <1>4, Posting
<1>6. /\ req' = [q \in Requests |-> req'[q]]
      /\ \A q \in Requests \ {p} : req'[q] = req[q]
      /\ req'[p].pc = "issue_set_link" /\ req'[p].doc = req[p].doc /\ req'[p].new = req[p].new
  BY <1>3, <1>4, Tables, GotoEffect
<1>7. RequestOK(p)'
  BY <1>2, <1>4, <1>5, <1>6 DEF RequestOK, Holding, Docs, Issued, Of, Posted, JournalGrows
<1>8. Apart'
  <2>1. ToStore(p)' = {} /\ ToReverse(p)' = {}
    BY <1>6 DEF ToStore, ToReverse
  <2> QED
    BY <1>5, <1>6, <2>1, ApartStep DEF InvoicingInv
<1> QED
  BY <1>4, <1>5, <1>6, <1>7, <1>8, JournalStep

LEMMA PayPostHolds ==
  ASSUME InvoicingInv, NEW p \in Requests, PayPost(p)
  PROVE  InvoicingInv'
<1>1. RequestOK(p) /\ At(p, "pay_post")
  BY Tables DEF PayPost
<1>2. /\ req[p].doc \in Docs /\ req[p].amount \in Nat /\ req[p].total \in Nat
      /\ req[p].paid = invoices[req[p].doc].paid /\ payMu = p
      /\ Of(req[p].new, "payment", req[p].doc) /\ req[p].new \in Entries
      /\ journal[req[p].new].amount = req[p].amount
  BY <1>1 DEF RequestOK, At, Holding, Of
<1> DEFINE kept == Keep(p, {"amount", "total", "paid", "new"})
<1>3. /\ DOMAIN kept = {"amount", "total", "paid", "new"} /\ kept["amount"] = req[p].amount
      /\ kept["total"] = req[p].total /\ kept["paid"] = req[p].paid /\ kept["new"] = req[p].new
  BY DEF Keep
<1>4. /\ journal' = [journal EXCEPT ![req[p].new].status = "posted"]
      /\ Goto(p, "pay_store", kept)
      /\ UNCHANGED <<invoices, payments, payMu, disturbed>>
  BY DEF PayPost, PostEntry
<1> HIDE DEF kept
<1>5. /\ journal' \in Seq(JournalEntry') /\ Len(journal) <= Len(journal')
      /\ JournalGrows
      /\ journal'[req[p].new].status = "posted"
      /\ Stored' = Stored /\ Undone' = Undone
  BY <1>2, <1>4, Posting
<1>6. /\ req' = [q \in Requests |-> req'[q]]
      /\ \A q \in Requests \ {p} : req'[q] = req[q]
      /\ req'[p].pc = "pay_store" /\ req'[p].doc = req[p].doc /\ req'[p].new = req[p].new
      /\ req'[p].amount = req[p].amount /\ req'[p].total = req[p].total
      /\ req'[p].paid = req[p].paid
  BY <1>3, <1>4, Tables, GotoEffect
<1>7. RequestOK(p)'
  BY <1>2, <1>4, <1>5, <1>6 DEF RequestOK, Holding, Docs, Paid, Of, Posted, JournalGrows
<1>8. Apart'
  <2>1. ToStore(p)' = ToStore(p) /\ ToReverse(p)' = {}
    BY <1>1, <1>6 DEF ToStore, ToReverse, At
  <2> QED
    BY <1>5, <1>6, <2>1, ApartStep DEF InvoicingInv
<1> QED
  BY <1>4, <1>5, <1>6, <1>7, <1>8, JournalStep

LEMMA ReversePostHolds ==
  ASSUME InvoicingInv, NEW p \in Requests, ReversePost(p)
  PROVE  InvoicingInv'
<1>1. req[p].new \in Entries
  BY Tables DEF ReversePost, RequestOK, At
<1>2. /\ journal' = [journal EXCEPT ![req[p].new].status = "posted"] /\ Finish(p)
      /\ UNCHANGED <<invoices, payments, disturbed>>
  BY DEF ReversePost, PostEntry
<1>3. /\ journal' \in Seq(JournalEntry') /\ Len(journal) <= Len(journal')
      /\ JournalGrows
      /\ Stored' = Stored /\ Undone' = Undone
  BY <1>1, <1>2, Posting
<1>4. /\ req' = [q \in Requests |-> req'[q]]
      /\ \A q \in Requests \ {p} : req'[q] = req[q]
      /\ req'[p] = Idle
      /\ payMu' \in {payMu, Nobody}
      /\ \A q \in Requests \ {p} : payMu = q => payMu' = q
  BY <1>2, Tables, FinishEffect
<1>5. RequestOK(p)'
  BY <1>4 DEF RequestOK, Idle, Holding
<1>6. Apart'
  <2>1. ToStore(p)' = {} /\ ToReverse(p)' = {}
    BY <1>4 DEF ToStore, ToReverse, Idle
  <2> QED
    BY <1>3, <1>4, <2>1, ApartStep DEF InvoicingInv
<1> QED
  BY <1>2, <1>3, <1>4, <1>5, <1>6, JournalStep

\* The mark of a reversal: what the request was to reverse is reversed.
LEMMA ReverseFlagHolds ==
  ASSUME InvoicingInv, NEW p \in Requests, ReverseFlag(p)
  PROVE  InvoicingInv'
<1> DEFINE e == req[p].new
           row == [journal[e] EXCEPT !.reverses = req[p].link]
           kept == Keep(p, {"new"})
<1>1. RequestOK(p) /\ At(p, "reverse_flag")
  BY Tables DEF ReverseFlag
<1>2. req[p].doc \in Docs /\ e \in Entries /\ req[p].link \in Entries
  BY <1>1 DEF RequestOK, At
<1>3. journal[e] \in JournalEntry /\ req[p].link \in 0 .. Len(journal)
  BY <1>2, Tables
<1>4. /\ row \in JournalEntry /\ row.kind = journal[e].kind /\ row.doc = journal[e].doc
      /\ row.amount = journal[e].amount /\ row.status = journal[e].status
      /\ row.reverses = req[p].link
  BY <1>3 DEF JournalEntry
<1>5. /\ journal' = [journal EXCEPT ![e] = row]
      /\ Goto(p, "reverse_post", kept)
      /\ UNCHANGED <<invoices, payments, payMu, disturbed>>
  BY DEF ReverseFlag
<1>6. DOMAIN kept = {"new"} /\ kept["new"] = req[p].new
  BY DEF Keep
<1> HIDE DEF row, kept
<1>7. /\ journal' \in Seq(JournalEntry') /\ Len(journal) <= Len(journal')
      /\ JournalGrows
      /\ Entries' = Entries
      /\ journal'[e] = row
      /\ \A x \in Entries \ {e} : journal'[x] = journal[x]
  BY <1>2, <1>4, <1>5, EntryWritten DEF Posted
<1>8. /\ req' = [q \in Requests |-> req'[q]]
      /\ \A q \in Requests \ {p} : req'[q] = req[q]
      /\ req'[p].pc = "reverse_post" /\ req'[p].doc = req[p].doc /\ req'[p].new = req[p].new
  BY <1>5, <1>6, Tables, GotoEffect
<1>9. RequestOK(p)'
  BY <1>2, <1>5, <1>7, <1>8 DEF RequestOK, Holding, Docs
<1>10. Apart'
  <2>1. ToStore(p)' = {} /\ ToReverse(p)' = {} /\ ToReverse(p) = {req[p].link}
    BY <1>1, <1>8 DEF ToStore, ToReverse, At
  <2>2. Stored' = Stored
    BY <1>5 DEF Stored
  <2>3. Undone' \subseteq Undone \cup {req[p].link}
    BY <1>4, <1>7 DEF Undone
  <2> QED
    BY <1>8, <2>1, <2>2, <2>3, ApartStep DEF InvoicingInv
<1> QED
  BY <1>5, <1>7, <1>8, <1>9, <1>10, JournalStep

-----------------------------------------------------------------------------
(* Payments *)

LEMMA PayLockHolds ==
  ASSUME InvoicingInv, NEW p \in Requests, PayLock(p)
  PROVE  InvoicingInv'
<1> DEFINE kept == Keep(p, {"amount"})
<1>1. RequestOK(p) /\ At(p, "pay_lock") /\ payMu = Nobody /\ payMu' = p
  BY Tables DEF PayLock
<1>2. req[p].doc \in Docs /\ req[p].amount \in Nat
  BY <1>1 DEF RequestOK, At
<1>3. DOMAIN kept = {"amount"} /\ kept["amount"] = req[p].amount
  BY DEF Keep
<1>4. Goto(p, "pay_load", kept) /\ UNCHANGED <<invoices, journal, payments, disturbed>>
  BY DEF PayLock
<1> HIDE DEF kept
<1>5. /\ req' = [q \in Requests |-> req'[q]]
      /\ \A q \in Requests \ {p} : req'[q] = req[q]
      /\ req'[p].pc = "pay_load" /\ req'[p].doc = req[p].doc /\ req'[p].amount = req[p].amount
  BY <1>3, <1>4, Tables, GotoEffect
<1>6. RequestOK(p)'
  BY <1>1, <1>2, <1>4, <1>5 DEF RequestOK, Holding, Docs
<1>7. ToStore(p)' = {} /\ ToReverse(p)' = {}
  BY <1>5 DEF ToStore, ToReverse
<1>8. \A q \in Requests \ {p} : payMu # q
  BY <1>1, InvoicingAssumption
<1> QED
  BY <1>1, <1>4, <1>5, <1>6, <1>7, <1>8, DocsUnchanged, Tables, QuietStep

\* The reading of the balance, under the mutex.
LEMMA PayLoadHolds ==
  ASSUME InvoicingInv, NEW p \in Requests, PayLoad(p)
  PROVE  InvoicingInv'
<1> DEFINE d == req[p].doc
           kept == [amount |-> req[p].amount, total |-> invoices[d].total,
                    paid |-> invoices[d].paid, new |-> 0]
<1>1. RequestOK(p) /\ At(p, "pay_load") /\ UNCHANGED <<invoices, journal, payments, disturbed>>
  BY Tables DEF PayLoad
<1>2. d \in Docs /\ req[p].amount \in Nat /\ payMu = p
  BY <1>1 DEF RequestOK, At, Holding
<1>3. CASE Finish(p)
  BY <1>1, <1>3, DocsUnchanged, Tables, FinishHolds
<1>4. CASE ~Finish(p)
  <2>1. PICK pc \in {"pay_store", "pay_create"} : Goto(p, pc, kept) /\ payMu' = payMu
    BY <1>4 DEF PayLoad
  <2>2. /\ DOMAIN kept = {"amount", "total", "paid", "new"} /\ kept["amount"] = req[p].amount
        /\ kept["total"] = invoices[d].total /\ kept["paid"] = invoices[d].paid /\ kept["new"] = 0
    OBVIOUS
  <2> HIDE DEF kept
  <2>3. /\ req' = [q \in Requests |-> req'[q]]
        /\ \A q \in Requests \ {p} : req'[q] = req[q]
        /\ req'[p].pc = pc /\ req'[p].doc = req[p].doc /\ req'[p].new = 0
        /\ req'[p].amount = req[p].amount /\ req'[p].total = invoices[d].total
        /\ req'[p].paid = invoices[d].paid
    BY <2>1, <2>2, Tables, GotoEffect
  <2>4. invoices[d].total \in Nat
    <3>1. invoices[d] \in Document
      BY <1>2, Tables
    <3> QED
      BY <3>1 DEF Document
  <2>5. RequestOK(p)'
    BY <1>1, <1>2, <2>1, <2>3, <2>4 DEF RequestOK, Holding, Docs
  <2>6. ToStore(p)' = {} /\ ToReverse(p)' = {}
    BY <2>3 DEF ToStore, ToReverse
  <2> QED
    BY <1>1, <2>1, <2>3, <2>5, <2>6, DocsUnchanged, Tables, QuietStep
<1> QED
  BY <1>3, <1>4

\* The storing fails: the entry the request had to store, it has to reverse.
LEMMA StoreFailsHolds ==
  ASSUME InvoicingInv, NEW p \in Requests, StoreFails(p)
  PROVE  InvoicingInv'
<1> DEFINE kept == [link |-> req[p].new]
<1>1. RequestOK(p) /\ At(p, "pay_store") /\ req[p].new # 0
      /\ UNCHANGED <<invoices, journal, payments, payMu, disturbed>>
  BY Tables DEF StoreFails
<1>2. req[p].doc \in Docs /\ req[p].new \in Entries
  BY <1>1 DEF RequestOK, At, Paid, Of
<1>3. DOMAIN kept = {"link"} /\ kept["link"] = req[p].new
  OBVIOUS
<1>4. Goto(p, "reverse_create", kept)
  BY DEF StoreFails
<1> HIDE DEF kept
<1>5. /\ req' = [q \in Requests |-> req'[q]]
      /\ \A q \in Requests \ {p} : req'[q] = req[q]
      /\ req'[p].pc = "reverse_create" /\ req'[p].doc = req[p].doc /\ req'[p].link = req[p].new
  BY <1>3, <1>4, Tables, GotoEffect
<1>6. Docs' = Docs /\ Entries' = Entries
  BY <1>1 DEF Docs, Entries
<1>7. RequestOK(p)'
  BY <1>2, <1>5, <1>6 DEF RequestOK, Holding
<1>8. Stored' = Stored /\ Undone' = Undone
  BY <1>1, <1>6 DEF Stored, Undone
<1>9. ToStore(p)' = {} /\ ToReverse(p)' \subseteq ToStore(p)
  BY <1>1, <1>5 DEF ToStore, ToReverse, At
<1>10. Apart'
  BY <1>5, <1>8, <1>9, ApartStep DEF InvoicingInv
<1>11. JournalGrows
  BY <1>1, <1>6 DEF JournalGrows
<1>12. journal' \in Seq(JournalEntry') /\ Len(journal) <= Len(journal')
  <2>1. JournalEntry' = JournalEntry
    BY <1>1, <1>6 DEF JournalEntry
  <2> QED
    BY <1>1, <2>1, Tables
<1> QED
  BY <1>1, <1>5, <1>7, <1>10, <1>11, <1>12, JournalStep

\* The payment and the document, in one transaction: what the document was
\* paid, and is paid now, is what the request has read and its amount more.
LEMMA PayStoreEffect ==
  ASSUME InvoicingInv, NEW p \in Requests, PayStore(p)
  PROVE  LET d == req[p].doc
             payment == [doc |-> d, amount |-> req[p].amount, entry |-> req[p].new]
         IN /\ d \in Docs /\ payMu = p
            /\ payments' = Append(payments, payment) /\ payment \in PaymentRow
            /\ invoices' \in Seq(Document) /\ Len(invoices') = Len(invoices)
            /\ invoices'[d].paid = invoices[d].paid + req[p].amount
            /\ \A x \in Docs : /\ invoices'[x].from = invoices[x].from
                               /\ invoices'[x].entry = invoices[x].entry
                               /\ x # d => invoices'[x].paid = invoices[x].paid
<1> DEFINE d == req[p].doc
           payment == [doc |-> d, amount |-> req[p].amount, entry |-> req[p].new]
           paid == req[p].paid + req[p].amount
           st == IF paid >= req[p].total THEN "paid" ELSE "sent"
           row == [invoices[d] EXCEPT !.paid = paid, !.status = st]
<1>1. RequestOK(p) /\ At(p, "pay_store")
  BY Tables DEF PayStore
<1>2. /\ d \in Docs /\ payMu = p /\ req[p].amount \in Nat
      /\ req[p].paid = invoices[d].paid
      /\ req[p].new = 0 \/ Paid(req[p].new, d, req[p].amount)
  BY <1>1 DEF RequestOK, At, Holding
<1>3. invoices[d] \in Document
  BY <1>2, Tables
<1>4. paid \in Nat /\ paid = invoices[d].paid + req[p].amount
  <2>1. invoices[d].paid \in Nat
    BY <1>3 DEF Document
  <2> QED
    BY <1>2, <2>1
<1>5. st \in DOMAIN validTransitions
  BY DEF validTransitions
<1> HIDE DEF paid, st
<1>6. /\ row \in Document /\ row.from = invoices[d].from
      /\ row.paid = paid /\ row.entry = invoices[d].entry
  BY <1>3, <1>4, <1>5 DEF Document
<1>7. invoices' = [invoices EXCEPT ![d] = row]
  <2>1. invoices' = [invoices EXCEPT ![d].paid = paid, ![d].status = st]
    BY DEF PayStore, paid, st
  <2> QED
    BY <1>2, <1>3, <2>1, Tables DEF Document, Docs
<1> HIDE DEF row
<1>8. invoices' \in Seq(Document) /\ Len(invoices') = Len(invoices)
  BY <1>2, <1>6, <1>7, Tables
<1>9. \A x \in Docs : invoices'[x] = IF x = d THEN row ELSE invoices[x]
  BY <1>7, Tables DEF Docs
<1>10. req[p].new \in 0 .. Len(journal)
  BY <1>2, Tables DEF Paid, Of
<1>11. payments' = Append(payments, payment) /\ payment \in PaymentRow
  BY <1>2, <1>10 DEF PayStore, PaymentRow
<1> QED
  BY <1>2, <1>4, <1>6, <1>8, <1>9, <1>11

LEMMA PayStoreHolds ==
  ASSUME InvoicingInv, NEW p \in Requests, PayStore(p)
  PROVE  InvoicingInv'
<1> DEFINE d == req[p].doc
           payment == [doc |-> d, amount |-> req[p].amount, entry |-> req[p].new]
<1>1. RequestOK(p) /\ At(p, "pay_store") /\ UNCHANGED <<journal, disturbed>> /\ Finish(p)
  BY Tables DEF PayStore
<1>2. /\ d \in Docs /\ payMu = p
      /\ payments' = Append(payments, payment) /\ payment \in PaymentRow
      /\ invoices' \in Seq(Document) /\ Len(invoices') = Len(invoices)
      /\ \A x \in Docs : /\ invoices'[x].from = invoices[x].from
                         /\ invoices'[x].entry = invoices[x].entry
  BY PayStoreEffect
<1>3. payment.entry = req[p].new /\ payment.doc = d /\ payment.amount = req[p].amount
  OBVIOUS
<1> HIDE DEF payment
<1>4. /\ req' = [q \in Requests |-> req'[q]]
      /\ \A q \in Requests \ {p} : req'[q] = req[q]
      /\ req'[p] = Idle
      /\ payMu' \in {payMu, Nobody}
      /\ \A q \in Requests \ {p} : payMu = q => payMu' = q
  BY <1>1, Tables, FinishEffect
<1>5. RequestOK(p)'
  BY <1>4 DEF RequestOK, Idle, Holding
<1>6. Docs' = Docs /\ Entries' = Entries
  BY <1>1, <1>2, Tables DEF Docs, Entries
<1>7. Document' = Document /\ JournalEntry' = JournalEntry /\ PaymentRow' = PaymentRow
  BY <1>1, <1>2, <1>6 DEF Document, JournalEntry, PaymentRow
<1>8. /\ payments' \in Seq(PaymentRow) /\ Len(payments') = Len(payments) + 1
      /\ \A k \in DOMAIN payments : payments'[k] = payments[k]
      /\ payments'[Len(payments) + 1] = payment
  BY <1>2, Tables
<1>9. \A k \in DOMAIN payments' : k \in DOMAIN payments \/ k = Len(payments) + 1
  BY <1>8, Tables
<1>10. RowsOK'
  BY <1>1, <1>2, <1>4, <1>6, <1>7, <1>8, Tables DEF RowsOK
<1>11. JournalGrows
  BY <1>1, <1>6 DEF JournalGrows
<1>12. Apart'
  <2>1. Undone' = Undone
    BY <1>1, <1>6 DEF Undone
  <2>2. ToStore(p)' = {} /\ ToReverse(p)' = {} /\ ToStore(p) = {req[p].new} \ {0}
    BY <1>1, <1>4 DEF ToStore, ToReverse, Idle, At
  <2>3. Stored' \subseteq Stored \cup ({req[p].new} \ {0})
    BY <1>3, <1>8, <1>9 DEF Stored
  <2> QED
    BY <1>4, <2>1, <2>2, <2>3, ApartStep DEF InvoicingInv
<1>13. req[p].new = 0 \/ Paid(req[p].new, d, req[p].amount)
  BY <1>1 DEF RequestOK, At
<1>14. \A k \in DOMAIN payments' :
         \/ k \in DOMAIN payments /\ payments'[k] = payments[k]
         \/ payments'[k].entry = 0
         \/ Paid(payments[k].entry, payments[k].doc, payments[k].amount)'
  BY <1>1, <1>3, <1>6, <1>8, <1>9, <1>13 DEF Paid, Of, Posted
<1> QED
  BY <1>2, <1>4, <1>5, <1>6, <1>10, <1>11, <1>12, <1>14, StepKeeps

-----------------------------------------------------------------------------
(* Creation, quotes and credit notes *)

\* A document added to the table, without entry or payment, and changes of
\* others that neither their payments nor their entries depend on.
LEMMA TableKeeps ==
  ASSUME InvoicingInv, UNCHANGED <<journal, payments, payMu, req, disturbed>>,
         invoices' \in Seq(Document'), Docs \subseteq Docs', Len(invoices) <= Len(invoices'),
         \A d \in Docs : /\ invoices'[d].paid = invoices[d].paid
                         /\ invoices'[d].entry = invoices[d].entry,
         \A d \in Docs' \ Docs : invoices'[d].entry = 0,
         ConvertedOnce'
  PROVE  InvoicingInv'
<1>1. Entries' = Entries /\ JournalGrows
  BY DEF Entries, JournalGrows
<1>2. RowsOK'
  <2>1. Len(invoices') \in Nat /\ 0 .. Len(invoices) \subseteq 0 .. Len(invoices')
    BY Tables
  <2>2. JournalEntry \subseteq JournalEntry' /\ PaymentRow \subseteq PaymentRow'
    BY DEF JournalEntry, PaymentRow
  <2>3. journal' \in Seq(JournalEntry') /\ payments' \in Seq(PaymentRow')
    BY <2>2, Tables
  <2> QED
    BY <2>3, Tables DEF RowsOK
<1>3. RequestsOK'
  <2>1. \A q \in Requests : RequestOK(q)'
    BY <1>1, Tables, OthersKnow
  <2> QED
    BY <2>1, Tables DEF RequestsOK
<1>4. Apart'
  <2>1. Stored' = Stored /\ Undone' = Undone
    BY <1>1 DEF Stored, Undone
  <2>2. \A q \in Requests : ToStore(q)' = ToStore(q) /\ ToReverse(q)' = ToReverse(q)
    BY DEF ToStore, ToReverse
  <2> QED
    BY <2>1, <2>2 DEF InvoicingInv, Apart
<1>5. LinksIssued'
  BY <1>1 DEF InvoicingInv, LinksIssued, Issued, Of, Posted
<1>6. PaymentsPaid'
  BY <1>1 DEF InvoicingInv, PaymentsPaid, Paid, Of, Posted
<1> QED
  BY <1>2, <1>3, <1>4, <1>5, <1>6 DEF InvoicingInv

\* Documents stay documents when the table grows.
LEMMA DocumentGrows ==
  ASSUME InvoicingInv, UNCHANGED journal, Len(invoices') = Len(invoices) + 1
  PROVE  Document \subseteq Document' /\ Docs \subseteq Docs'
<1>1. 0 .. Len(invoices) \subseteq 0 .. Len(invoices')
  BY Tables
<1>2. Document \subseteq Document'
  BY <1>1 DEF Document
<1>3. Docs \subseteq Docs'
  BY Tables DEF Docs
<1> QED
  BY <1>2, <1>3

\* A document created.
LEMMA CreateHolds ==
  ASSUME InvoicingInv, NEW row \in Document, row.entry = 0, row.from = 0,
         invoices' = Append(invoices, row),
         UNCHANGED <<journal, payments, payMu, req, disturbed>>
  PROVE  InvoicingInv'
<1>1. /\ invoices' \in Seq(Document) /\ Len(invoices') = Len(invoices) + 1
      /\ \A d \in Docs : invoices'[d] = invoices[d]
      /\ invoices'[Len(invoices) + 1] = row
  BY Tables
<1>2. Document \subseteq Document' /\ Docs \subseteq Docs'
  BY <1>1, DocumentGrows
<1>3. \A d \in Docs' : d \in Docs \/ invoices'[d] = row
  BY <1>1, Tables DEF Docs
<1>4. invoices' \in Seq(Document') /\ Len(invoices) <= Len(invoices')
  BY <1>1, <1>2, Tables
<1>5. ConvertedOnce'
  BY <1>1, <1>3 DEF InvoicingInv, ConvertedOnce
<1> QED
  BY <1>1, <1>2, <1>3, <1>4, <1>5, TableKeeps

\* A quote converted: no document comes from it yet.
LEMMA ConvertHolds ==
  ASSUME InvoicingInv, NEW q \in Docs, ConvertQuote(q)
  PROVE  InvoicingInv'
<1> DEFINE row == [NewDocument("invoice", invoices[q].total) EXCEPT !.from = q]
           quote == [invoices[q] EXCEPT !.outcome = "accepted"]
           marked == [invoices EXCEPT ![q] = quote]
<1>1. /\ invoices' = Append(marked, row)
      /\ \A i \in Docs : invoices[i].from # q
      /\ UNCHANGED <<journal, payments, payMu, req, disturbed>>
  BY DEF ConvertQuote
<1>2. invoices[q] \in Document /\ q \in 0 .. Len(invoices) /\ q # 0
  BY Tables
<1>3. row \in Document /\ row.entry = 0 /\ row.from = q
  <2>1. invoices[q].total \in Nat /\ 0 \in 0 .. Len(journal) /\ 0 \in 0 .. Len(invoices)
    <3>1. invoices[q].total \in Nat
      BY <1>2 DEF Document
    <3>2. Len(journal) \in Nat /\ Len(invoices) \in Nat
      BY Tables
    <3> QED
      BY <3>1, <3>2
  <2> QED
    BY <1>2, <2>1 DEF NewDocument, Document, validTransitions
<1>4. /\ quote \in Document /\ quote.entry = invoices[q].entry
      /\ quote.from = invoices[q].from /\ quote.paid = invoices[q].paid
  BY <1>2 DEF Document
<1> HIDE DEF row, quote
<1>5. /\ marked \in Seq(Document) /\ Len(marked) = Len(invoices)
      /\ \A d \in Docs : marked[d] = IF d = q THEN quote ELSE invoices[d]
  BY <1>4, Tables DEF Docs
<1> HIDE DEF marked
<1>6. /\ invoices' \in Seq(Document) /\ Len(invoices') = Len(invoices) + 1
      /\ \A d \in Docs : invoices'[d] = IF d = q THEN quote ELSE invoices[d]
      /\ invoices'[Len(invoices) + 1] = row
  <2>1. Len(invoices) \in Nat /\ Docs = 1 .. Len(invoices)
    BY Tables
  <2>2. /\ Append(marked, row) \in Seq(Document) /\ Len(Append(marked, row)) = Len(marked) + 1
        /\ \A d \in 1 .. Len(marked) : Append(marked, row)[d] = marked[d]
        /\ Append(marked, row)[Len(marked) + 1] = row
    BY <1>3, <1>5
  <2> QED
    BY <1>1, <1>5, <2>1, <2>2
<1>7. Document \subseteq Document' /\ Docs \subseteq Docs'
  BY <1>1, <1>6, DocumentGrows
<1>8. \A d \in Docs' : d \in Docs \/ d = Len(invoices) + 1
  BY <1>6, Tables DEF Docs
<1>9. invoices' \in Seq(Document') /\ Len(invoices) <= Len(invoices')
  BY <1>6, <1>7, Tables
<1>10. \A d \in Docs : /\ invoices'[d].from = invoices[d].from
                       /\ invoices'[d].paid = invoices[d].paid
                       /\ invoices'[d].entry = invoices[d].entry
  BY <1>4, <1>6
<1>11. \A d \in Docs' : \/ d \in Docs /\ invoices'[d].from = invoices[d].from
                        \/ d = Len(invoices) + 1 /\ invoices'[d].from = q
  BY <1>3, <1>6, <1>8, <1>10
<1>12. \A d \in Docs : invoices[d].from # q
  BY <1>1
<1>13. ConvertedOnce
  BY DEF InvoicingInv
<1>14. ConvertedOnce'
  <2> SUFFICES ASSUME NEW i \in Docs', NEW j \in Docs', invoices'[i].from # 0,
                      invoices'[i].from = invoices'[j].from
               PROVE  i = j
    BY DEF ConvertedOnce
  <2>1. CASE i \in Docs /\ invoices'[i].from = invoices[i].from
    <3>1. j \in Docs /\ invoices'[j].from = invoices[j].from
      BY <1>11, <1>12, <2>1
    <3> QED
      BY <1>13, <2>1, <3>1 DEF ConvertedOnce
  <2>2. CASE i = Len(invoices) + 1 /\ invoices'[i].from = q
    BY <1>11, <1>12, <2>2
  <2> QED
    BY <1>11, <2>1, <2>2
<1> QED
  BY <1>1, <1>3, <1>6, <1>7, <1>8, <1>9, <1>10, <1>14, TableKeeps

LEMMA OutcomeHolds ==
  ASSUME InvoicingInv, NEW q \in Docs, NEW outcome \in {"refused", "expired"},
         SetQuoteOutcome(q, outcome)
  PROVE  InvoicingInv'
<1> DEFINE quote == [invoices[q] EXCEPT !.outcome = outcome]
<1>1. invoices[q] \in Document
  BY Tables
<1>2. /\ quote \in Document /\ quote.entry = invoices[q].entry
      /\ quote.from = invoices[q].from /\ quote.paid = invoices[q].paid
  BY <1>1 DEF Document
<1>3. /\ invoices' = [invoices EXCEPT ![q] = quote]
      /\ UNCHANGED <<journal, payments, payMu, req, disturbed>>
  BY DEF SetQuoteOutcome
<1> HIDE DEF quote
<1>4. /\ invoices' \in Seq(Document) /\ Len(invoices') = Len(invoices)
      /\ \A d \in Docs : invoices'[d] = IF d = q THEN quote ELSE invoices[d]
  BY <1>2, <1>3, Tables DEF Docs
<1>5. Docs' = Docs
  BY <1>4, Tables DEF Docs
<1>6. Document' = Document
  BY <1>3, <1>4, <1>5 DEF Document
<1>7. \A d \in Docs : /\ invoices'[d].from = invoices[d].from
                      /\ invoices'[d].paid = invoices[d].paid
                      /\ invoices'[d].entry = invoices[d].entry
  BY <1>2, <1>4
<1>8. ConvertedOnce'
  BY <1>5, <1>7 DEF InvoicingInv, ConvertedOnce
<1> QED
  BY <1>3, <1>4, <1>5, <1>6, <1>7, <1>8, Tables, TableKeeps

LEMMA OneShotHolds ==
  ASSUME InvoicingInv, OneShot
  PROVE  InvoicingInv'
<1>1. ASSUME NEW type \in Types, NEW total \in Amounts, CreateInvoice(type, total)
      PROVE  InvoicingInv'
  <2> DEFINE row == NewDocument(type, total)
  <2>1. row \in Document /\ row.entry = 0 /\ row.from = 0
    <3>1. 0 \in 0 .. Len(journal) /\ 0 \in 0 .. Len(invoices)
      BY Tables
    <3> QED
      BY <3>1, InvoicingAssumption DEF NewDocument, Document, validTransitions
  <2>2. invoices' = Append(invoices, row) /\ UNCHANGED <<journal, payments, payMu, req, disturbed>>
    BY <1>1 DEF CreateInvoice
  <2> HIDE DEF row
  <2> QED
    BY <2>1, <2>2, CreateHolds
<1>2. ASSUME NEW d \in Docs, NEW total \in Amounts, CreateCreditNote(d, total)
      PROVE  InvoicingInv'
  <2> DEFINE row == [NewDocument("credit_note", total) EXCEPT !.corrects = d]
  <2>1. row \in Document /\ row.entry = 0 /\ row.from = 0
    <3>1. 0 \in 0 .. Len(journal) /\ 0 \in 0 .. Len(invoices) /\ d \in 0 .. Len(invoices)
      BY Tables
    <3> QED
      BY <3>1, InvoicingAssumption DEF NewDocument, Document, validTransitions
  <2>2. invoices' = Append(invoices, row) /\ UNCHANGED <<journal, payments, payMu, req, disturbed>>
    BY <1>2 DEF CreateCreditNote
  <2> HIDE DEF row
  <2> QED
    BY <2>1, <2>2, CreateHolds
<1> QED
  BY <1>1, <1>2, ConvertHolds, OutcomeHolds DEF OneShot

-----------------------------------------------------------------------------
(* Theorems *)

\* Every step keeps the inductive invariant.
LEMMA NextHolds ==
  ASSUME InvoicingInv, [Next]_vars
  PROVE  InvoicingInv'
<1>1. CASE OneShot
  BY <1>1, OneShotHolds
<1>2. ASSUME NEW p \in Requests, Arrival(p)
      PROVE  InvoicingInv'
  BY <1>2, ArrivalHolds
<1>3. ASSUME NEW p \in Requests, Updating(p) \/ Issuing(p) \/ Moving(p)
      PROVE  InvoicingInv'
  BY <1>3, UpdatingHolds, IssueHolds, IssueCreateHolds, IssuePostHolds, IssueLinkHolds,
     SettleHolds, SetStatusHolds, ClearLinkHolds
     DEF Issuing, Moving
<1>4. ASSUME NEW p \in Requests, Reversing(p) \/ Paying(p) \/ Abandon(p)
      PROVE  InvoicingInv'
  BY <1>4, ReverseCreateHolds, ReverseFlagHolds, ReversePostHolds, PayLockHolds, PayLoadHolds,
     PayCreateHolds, PayPostHolds, PayStoreHolds, StoreFailsHolds, AbandonHolds
     DEF Reversing, Paying
<1>5. CASE UNCHANGED vars
  <2>1. UNCHANGED <<invoices, journal, payments, payMu, req, disturbed>>
    BY <1>5 DEF vars
  <2>2. Docs' = Docs /\ Document' = Document
    BY <2>1 DEF Docs, Document
  <2>3. invoices' \in Seq(Document')
    BY <2>1, <2>2, Tables
  <2>4. ConvertedOnce'
    BY <2>1, <2>2 DEF InvoicingInv, ConvertedOnce
  <2> QED
    BY <2>1, <2>2, <2>3, <2>4, Tables, TableKeeps
<1> QED
  BY <1>1, <1>2, <1>3, <1>4, <1>5 DEF Next, Step

\* The rows, what each request remembers, the entry each one has to store or
\* to reverse and what is stored and reversed stay as InvoicingInv says, for any
\* number of requests and documents.
THEOREM InvoicingInvariant == Spec => []InvoicingInv
<1>1. Init => InvoicingInv
  BY InitHolds
<1>2. InvoicingInv /\ [Next]_vars => InvoicingInv'
  BY NextHolds
<1> QED
  BY <1>1, <1>2, PTL DEF Spec

\* What a row names is in the books: a document's link leads to a posted entry
\* of its issue, a payment's entry is posted, for its document and its amount,
\* and no reversal ever takes it back.
THEOREM EntriesPostedTheorem == Spec => []EntriesPosted
<1>1. InvoicingInv => EntriesPosted
  <2> SUFFICES ASSUME InvoicingInv
               PROVE  EntriesPosted
    OBVIOUS
  <2>1. ASSUME NEW k \in DOMAIN payments, payments[k].entry # 0
        PROVE  /\ payments[k].entry \in InForce(payments[k].doc, "payment")
               /\ journal[payments[k].entry].amount = payments[k].amount
    <3>1. Paid(payments[k].entry, payments[k].doc, payments[k].amount)
      BY <2>1 DEF InvoicingInv, PaymentsPaid
    <3>2. ~Reversed(payments[k].entry)
      BY <2>1 DEF InvoicingInv, Apart, Stored, Undone, Reversed, Entries
    <3> QED
      BY <3>1, <3>2 DEF Paid, Of, InForce, Entries
  <2>2. ASSUME NEW d \in Docs, invoices[d].entry # 0
        PROVE  /\ Posted(invoices[d].entry)
               /\ journal[invoices[d].entry].kind = "issue"
               /\ journal[invoices[d].entry].doc = d
    BY <2>2 DEF InvoicingInv, LinksIssued, Issued, Of
  <2> QED
    BY <2>1, <2>2 DEF EntriesPosted
<1> QED
  BY <1>1, InvoicingInvariant, PTL

\* Two documents never come from one quote.
THEOREM ConvertedOnceTheorem == Spec => []ConvertedOnce
<1>1. InvoicingInv => ConvertedOnce
  BY DEF InvoicingInv
<1> QED
  BY <1>1, InvoicingInvariant, PTL

-----------------------------------------------------------------------------
(* Sums *)

(***************************************************************************)
(* The sum of a function over a finite set, as SumFunctionOnSet computes   *)
(* it: it takes an element, and sums the rest.  What holds of every finite *)
(* set is proved from a smallest one that would not have it.               *)
(***************************************************************************)

\* A set of natural numbers that is not empty has a least element.
LEMMA LeastNumber ==
  ASSUME NEW T \in SUBSET Nat, T # {}
  PROVE  \E n \in T : \A m \in T : n <= m
<1> DEFINE R == {ss \in Nat \X Nat : ss[1] < ss[2]}
<1>1. IsWellFoundedOn(R, Nat)
  <2>1. OpToRel(<, Nat) = R
    BY DEF OpToRel
  <2> QED
    BY <2>1, NatLessThanWellFounded
<1>2. PICK n \in T : \A m \in T : ~(<<m, n>> \in R)
  <2> HIDE DEF R
  <2> QED
    BY <1>1, WFMin
<1>3. ASSUME NEW m \in T
      PROVE  n <= m
  <2>1. n \in Nat /\ m \in Nat
    OBVIOUS
  <2>2. ~(m < n)
    <3>1. m < n => <<m, n>> \in R
      BY <2>1
    <3> QED
      BY <1>2, <3>1
  <2> QED
    BY <2>1, <2>2
<1> QED
  BY <1>3

\* Of the sets that are not as they should be, one is smallest.
LEMMA SmallestSet ==
  ASSUME NEW B, B # {}, \A s \in B : IsFiniteSet(s)
  PROVE  \E s \in B : \A t \in B : Cardinality(s) <= Cardinality(t)
<1> DEFINE N == {Cardinality(s) : s \in B}
<1>1. N \in SUBSET Nat /\ N # {}
  BY FS_CardinalityType
<1> HIDE DEF N
<1>2. PICK n \in N : \A m \in N : n <= m
  BY <1>1, LeastNumber
<1>3. PICK s \in B : n = Cardinality(s)
  BY DEF N
<1>4. \A t \in B : Cardinality(t) \in N
  BY DEF N
<1> QED
  BY <1>2, <1>3, <1>4

\* The element a sum takes first, and what is left of the set.
Taken(s) == CHOOSE x \in s : TRUE
Left(s) == s \ {Taken(s)}

LEMMA RestSmaller ==
  ASSUME NEW s, IsFiniteSet(s), s # {}
  PROVE  /\ Taken(s) \in s /\ Left(s) \subseteq s /\ IsFiniteSet(Left(s))
         /\ Cardinality(Left(s)) = Cardinality(s) - 1
         /\ Cardinality(s) \in Nat /\ Cardinality(Left(s)) \in Nat
         /\ Cardinality(Left(s)) < Cardinality(s)
<1>1. Taken(s) \in s
  BY DEF Taken
<1>2. /\ IsFiniteSet(Left(s)) /\ Cardinality(Left(s)) = Cardinality(s) - 1
  BY <1>1, FS_RemoveElement DEF Left
<1>3. Cardinality(s) \in Nat /\ Cardinality(Left(s)) \in Nat
  BY <1>2, FS_CardinalityType
<1> QED
  BY <1>1, <1>2, <1>3 DEF Left

\* g holds the sum of f over each set of C.
Sums(g, f, C) == g = [s \in C |-> IF s = {} THEN 0 ELSE f[Taken(s)] + g[Left(s)]]

LEMMA SumIsChosen ==
  ASSUME NEW f, NEW S
  PROVE  SumFunctionOnSet(f, S) = (CHOOSE g : Sums(g, f, SUBSET S))[S]
  BY DEF SumFunctionOnSet, FoldFunctionOnSet, MapThenFoldSet, Sums, Taken, Left

\* Two of them agree on the sets they have in common.
LEMMA SumsAgree ==
  ASSUME NEW f, NEW C, NEW D \in SUBSET C,
         \A s \in D : IsFiniteSet(s) /\ (s # {} => Left(s) \in D),
         NEW g, Sums(g, f, C), NEW h, Sums(h, f, D)
  PROVE  \A t \in D : g[t] = h[t]
<1> DEFINE B == {t \in D : g[t] # h[t]}
<1> SUFFICES ASSUME B # {} PROVE FALSE
  OBVIOUS
<1>2. PICK t \in B : \A u \in B : Cardinality(t) <= Cardinality(u)
  <2>1. \A u \in B : IsFiniteSet(u)
    OBVIOUS
  <2> HIDE DEF B
  <2> QED
    BY <2>1, SmallestSet
<1>3. t \in D /\ g[t] # h[t] /\ t \in C /\ IsFiniteSet(t)
  OBVIOUS
<1>4. /\ g[t] = IF t = {} THEN 0 ELSE f[Taken(t)] + g[Left(t)]
      /\ h[t] = IF t = {} THEN 0 ELSE f[Taken(t)] + h[Left(t)]
  BY <1>3 DEF Sums
<1>5. t # {}
  BY <1>3, <1>4
<1>6. Left(t) \in D /\ Cardinality(Left(t)) < Cardinality(t)
      /\ Cardinality(Left(t)) \in Nat /\ Cardinality(t) \in Nat
  BY <1>3, <1>5, RestSmaller
<1>7. Left(t) \notin B
  BY <1>2, <1>6
<1> QED
  BY <1>3, <1>4, <1>5, <1>6, <1>7

\* There is one, for every finite set.
LEMMA SumsExist ==
  ASSUME NEW f, NEW S, IsFiniteSet(S)
  PROVE  \E g : Sums(g, f, SUBSET S)
<1> DEFINE C(n) == {s \in SUBSET S : Cardinality(s) <= n}
           B == {n \in Nat : ~ \E g : Sums(g, f, C(n))}
<1>0. \A s \in SUBSET S : IsFiniteSet(s) /\ Cardinality(s) \in Nat /\ Cardinality(s) <= Cardinality(S)
  BY FS_Subset, FS_CardinalityType
<1>1. B = {}
  <2> SUFFICES ASSUME B # {} PROVE FALSE
    OBVIOUS
  <2>1. PICK n \in B : \A m \in B : n <= m
    <3>1. B \in SUBSET Nat
      OBVIOUS
    <3> HIDE DEF B
    <3> QED
      BY <3>1, LeastNumber
  <2>2. n \in Nat /\ ~ \E g : Sums(g, f, C(n))
    OBVIOUS
  <2>3. n # 0
    <3> DEFINE g == [s \in C(0) |-> 0]
    <3>1. \A s \in C(0) : s = {}
      BY <1>0, FS_EmptySet
    <3>2. Sums(g, f, C(0))
      BY <3>1 DEF Sums
    <3> HIDE DEF g
    <3> QED
      BY <2>2, <3>2
  <2>4. n - 1 \in Nat /\ n - 1 \notin B
    <3>1. n - 1 \in Nat /\ ~(n <= n - 1)
      BY <2>2, <2>3
    <3> HIDE DEF B
    <3> QED
      BY <2>1, <3>1
  <2>5. PICK g : Sums(g, f, C(n - 1))
    BY <2>4
  <2> DEFINE sum(s) == IF s = {} THEN 0 ELSE f[Taken(s)] + g[Left(s)]
             h == [s \in C(n) |-> sum(s)]
  <2>6. \A s \in C(n) : s # {} => Left(s) \in C(n - 1) /\ Left(s) \in C(n)
    BY <1>0, <2>2, RestSmaller
  <2>7. \A s \in C(n - 1) : g[s] = sum(s)
    BY <2>5 DEF Sums
  <2>8. \A s \in C(n) : s # {} => h[Left(s)] = g[Left(s)]
    BY <2>6, <2>7
  <2>9. h = [s \in C(n) |-> IF s = {} THEN 0 ELSE f[Taken(s)] + h[Left(s)]]
    BY <2>8
  <2>10. Sums(h, f, C(n))
    <3> HIDE DEF h
    <3> QED
      BY <2>9 DEF Sums
  <2> QED
    BY <2>2, <2>10
<1>2. C(Cardinality(S)) = SUBSET S
  BY <1>0
<1>3. Cardinality(S) \in Nat
  BY FS_CardinalityType
<1>4. \E g : Sums(g, f, C(Cardinality(S)))
  BY <1>1, <1>3
<1> QED
  BY <1>2, <1>4

\* A sum is nothing for no element, and otherwise that of the rest of the set
\* and one value more.
LEMMA SumUnfolds ==
  ASSUME NEW f, NEW S, IsFiniteSet(S)
  PROVE  /\ SumFunctionOnSet(f, {}) = 0
         /\ S # {} => SumFunctionOnSet(f, S) = f[Taken(S)] + SumFunctionOnSet(f, Left(S))
<1>1. ASSUME NEW T, IsFiniteSet(T)
      PROVE  \E g : Sums(g, f, SUBSET T) /\ SumFunctionOnSet(f, T) = g[T]
  <2> DEFINE g == CHOOSE h : Sums(h, f, SUBSET T)
  <2>1. Sums(g, f, SUBSET T)
    BY <1>1, SumsExist
  <2>2. SumFunctionOnSet(f, T) = g[T]
    BY SumIsChosen
  <2> HIDE DEF g
  <2> QED
    BY <2>1, <2>2
<1>2. SumFunctionOnSet(f, {}) = 0
  <2>1. PICK g : Sums(g, f, SUBSET {}) /\ SumFunctionOnSet(f, {}) = g[{}]
    BY <1>1, FS_EmptySet
  <2> QED
    BY <2>1 DEF Sums
<1>3. ASSUME S # {}
      PROVE  SumFunctionOnSet(f, S) = f[Taken(S)] + SumFunctionOnSet(f, Left(S))
  <2>1. PICK g : Sums(g, f, SUBSET S) /\ SumFunctionOnSet(f, S) = g[S]
    BY <1>1
  <2>2. Left(S) \subseteq S /\ IsFiniteSet(Left(S))
    BY <1>3, RestSmaller
  <2>3. PICK h : Sums(h, f, SUBSET Left(S)) /\ SumFunctionOnSet(f, Left(S)) = h[Left(S)]
    BY <1>1, <2>2
  <2>4. g[Left(S)] = h[Left(S)]
    <3> DEFINE C == SUBSET S
               D == SUBSET Left(S)
    <3>1. D \in SUBSET C /\ Left(S) \in D
      BY <2>2
    <3>2. \A s \in D : IsFiniteSet(s) /\ (s # {} => Left(s) \in D)
      BY <2>2, FS_Subset, RestSmaller
    <3> HIDE DEF C, D
    <3>3. Sums(g, f, C) /\ Sums(h, f, D)
      BY <2>1, <2>3 DEF C, D
    <3>4. \A t \in D : g[t] = h[t]
      BY <3>1, <3>2, <3>3, SumsAgree
    <3> QED
      BY <3>1, <3>4
  <2>5. g[S] = f[Taken(S)] + g[Left(S)]
    BY <1>3, <2>1 DEF Sums
  <2> QED
    BY <2>1, <2>3, <2>4, <2>5
<1> QED
  BY <1>2, <1>3

\* A sum of numbers is a number, and depends on the values over the set alone.
LEMMA SumSame ==
  ASSUME NEW S, IsFiniteSet(S), NEW f, NEW g,
         \A x \in S : f[x] \in Int /\ f[x] = g[x]
  PROVE  SumFunctionOnSet(f, S) \in Int /\ SumFunctionOnSet(f, S) = SumFunctionOnSet(g, S)
<1> DEFINE Good(s) == /\ SumFunctionOnSet(f, s) \in Int
                      /\ SumFunctionOnSet(f, s) = SumFunctionOnSet(g, s)
           B == {s \in SUBSET S : ~Good(s)}
<1>1. B = {}
  <2> SUFFICES ASSUME B # {} PROVE FALSE
    OBVIOUS
  <2>1. \A s \in SUBSET S : IsFiniteSet(s)
    BY FS_Subset
  <2>2. PICK s \in B : \A u \in B : Cardinality(s) <= Cardinality(u)
    <3>1. \A u \in B : IsFiniteSet(u)
      BY <2>1
    <3> HIDE DEF B
    <3> QED
      BY <3>1, SmallestSet
  <2>3. s \in SUBSET S /\ ~Good(s) /\ IsFiniteSet(s)
    BY <2>1
  <2>4. s # {}
    <3>1. SumFunctionOnSet(f, {}) = 0 /\ SumFunctionOnSet(g, {}) = 0
      BY SumUnfolds
    <3> QED
      BY <2>3, <3>1
  <2>5. Taken(s) \in s /\ Left(s) \in SUBSET S /\ Cardinality(Left(s)) < Cardinality(s)
        /\ Cardinality(Left(s)) \in Nat /\ Cardinality(s) \in Nat
    BY <2>3, <2>4, RestSmaller
  <2>6. Good(Left(s))
    <3>1. Left(s) \notin B
      BY <2>2, <2>5
    <3> QED
      BY <2>5, <3>1
  <2>7. /\ SumFunctionOnSet(f, s) = f[Taken(s)] + SumFunctionOnSet(f, Left(s))
        /\ SumFunctionOnSet(g, s) = g[Taken(s)] + SumFunctionOnSet(g, Left(s))
    BY <2>3, <2>4, SumUnfolds
  <2>8. f[Taken(s)] \in Int /\ f[Taken(s)] = g[Taken(s)]
    BY <2>3, <2>5
  <2> QED
    BY <2>3, <2>6, <2>7, <2>8
<1>2. S \in SUBSET S /\ S \notin B
  BY <1>1
<1> QED
  BY <1>2

\* One element more adds its value, whichever is taken first.
LEMMA SumAdds ==
  ASSUME NEW S, IsFiniteSet(S), NEW x, x \notin S, NEW f,
         \A y \in S \cup {x} : f[y] \in Int
  PROVE  SumFunctionOnSet(f, S \cup {x}) = f[x] + SumFunctionOnSet(f, S)
<1> DEFINE U == S \cup {x}
           Sum(s) == SumFunctionOnSet(f, s)
           Good(s) == \A y \in s : Sum(s) = f[y] + Sum(s \ {y})
           B == {s \in SUBSET U : ~Good(s)}
<1>0. IsFiniteSet(U)
  BY FS_AddElement
<1>1. \A s \in SUBSET U : IsFiniteSet(s) /\ Sum(s) \in Int
  <2>1. \A s \in SUBSET U : IsFiniteSet(s)
    BY <1>0, FS_Subset
  <2> QED
    BY <2>1, SumSame
<1>2. B = {}
  <2> SUFFICES ASSUME B # {} PROVE FALSE
    OBVIOUS
  <2>2. PICK s \in B : \A u \in B : Cardinality(s) <= Cardinality(u)
    <3>1. \A u \in B : IsFiniteSet(u)
      BY <1>1
    <3> HIDE DEF B
    <3> QED
      BY <3>1, SmallestSet
  <2>3. s \in SUBSET U /\ ~Good(s) /\ IsFiniteSet(s)
    BY <1>1
  <2>4. PICK y \in s : Sum(s) # f[y] + Sum(s \ {y})
    BY <2>3
  <2> DEFINE c == Taken(s)
  <2>5. c \in s /\ Left(s) = s \ {c}
    BY RestSmaller, <2>3, <2>4 DEF Left
  <2>6. Sum(s) = f[c] + Sum(s \ {c})
    BY <2>3, <2>4, <2>5, SumUnfolds
  <2>7. y # c
    BY <2>4, <2>6
  <2>8. \A z \in s : Good(s \ {z})
    <3> TAKE z \in s
    <3>1. s \ {z} \in SUBSET U /\ Cardinality(s \ {z}) = Cardinality(s) - 1
      BY <2>3, FS_RemoveElement
    <3>2. Cardinality(s) \in Nat
      BY <2>3, FS_CardinalityType
    <3>3. s \ {z} \notin B
      <4> HIDE DEF B
      <4> QED
        BY <2>2, <3>1, <3>2
    <3> QED
      BY <3>1, <3>3
  <2>9. /\ Sum(s \ {c}) = f[y] + Sum((s \ {c}) \ {y})
        /\ Sum(s \ {y}) = f[c] + Sum((s \ {y}) \ {c})
    <3>1. y \in s \ {c} /\ c \in s \ {y}
      BY <2>5, <2>7
    <3> QED
      BY <2>5, <2>8, <3>1
  <2>10. (s \ {c}) \ {y} = (s \ {y}) \ {c}
    OBVIOUS
  <2>11. Sum((s \ {c}) \ {y}) \in Int /\ f[c] \in Int /\ f[y] \in Int
    BY <1>1, <2>3, <2>5
  <2>12. PICK r : r = (s \ {c}) \ {y}
    OBVIOUS
  <2>13. /\ Sum(s \ {c}) = f[y] + Sum(r)
         /\ Sum(s \ {y}) = f[c] + Sum(r)
         /\ Sum(r) \in Int
    BY <2>9, <2>10, <2>11, <2>12
  <2>14. Sum(s) = f[c] + (f[y] + Sum(r)) /\ Sum(s) # f[y] + (f[c] + Sum(r))
    BY <2>4, <2>6, <2>13
  <2> HIDE DEF c, Sum
  <2> QED
    BY <2>11, <2>13, <2>14
<1>3. Good(U)
  BY <1>2
<1>4. U \ {x} = S
  OBVIOUS
<1> QED
  BY <1>3, <1>4


-----------------------------------------------------------------------------
(* What was paid *)

\* A step of a request writes the row of its own document alone, and nothing
\* but the writing of a payment changes what was paid of it.
LEMMA StepWrites ==
  ASSUME InvoicingInv, NEW p \in Requests, Arrival(p) \/ Step(p)
  PROVE  /\ Len(invoices') = Len(invoices) /\ Docs' = Docs
         /\ \A d \in Docs : d # req[p].doc => invoices'[d] = invoices[d]
         /\ PayStore(p) \/ /\ UNCHANGED payments
                           /\ \A d \in Docs : invoices'[d].paid = invoices[d].paid
<1>1. invoices \in Seq(Document) /\ Docs = 1 .. Len(invoices)
  BY Tables
<1>2. CASE Arrival(p) \/ Abandon(p) \/ Reversing(p) \/ (Paying(p) /\ ~PayStore(p))
  <2>1. UNCHANGED <<invoices, payments>>
    BY <1>2 DEF Arrival, UpdateLoad, TransitionLoad, CreatePayment, Abandon, Reversing,
         ReverseCreate, ReverseFlag, ReversePost, CreateEntry, PostEntry, Paying, PayLock, PayLoad,
         PayCreate, PayPost, StoreFails
  <2> QED
    BY <2>1, <1>1 DEF Docs
<1>3. CASE PayStore(p)
  <2>1. PICK paid, st : invoices' = [invoices EXCEPT ![req[p].doc].paid = paid, ![req[p].doc].status = st]
    BY <1>3 DEF PayStore
  <2> QED
    BY <1>1, <1>3, <2>1 DEF Docs
<1>4. CASE Updating(p) \/ Issuing(p) \/ Moving(p)
  <2>1. /\ UNCHANGED payments
        /\ \/ UNCHANGED invoices
           \/ \E v : invoices' = [invoices EXCEPT ![req[p].doc].total = v]
           \/ \E v : invoices' = [invoices EXCEPT ![req[p].doc].status = v]
           \/ \E v : invoices' = [invoices EXCEPT ![req[p].doc].entry = v]
    BY <1>4 DEF Updating, UpdateCheck, UpdateCommit, Issuing, Issue, IssueCheck, IssueAmounts,
         IssueCreate, IssuePost, IssueLink, CreateEntry, PostEntry, Moving, SettleRead, SetStatus,
         ClearLink
  <2>2. \A d \in Docs : invoices[d] \in Document
    BY <1>1
  <2>3. CASE UNCHANGED invoices
    BY <1>1, <2>1, <2>3 DEF Docs
  <2>4. ASSUME NEW row, req[p].doc \in Docs => row.paid = invoices[req[p].doc].paid,
               invoices' = [invoices EXCEPT ![req[p].doc] = row]
        PROVE  /\ Len(invoices') = Len(invoices) /\ Docs' = Docs
               /\ \A d \in Docs : d # req[p].doc => invoices'[d] = invoices[d]
               /\ \A d \in Docs : invoices'[d].paid = invoices[d].paid
    <3>1. /\ DOMAIN invoices' = DOMAIN invoices
          /\ \A d \in Docs : invoices'[d] = IF d = req[p].doc THEN row ELSE invoices[d]
      BY <1>1, <2>4 DEF Docs
    <3>2. Len(invoices') = Len(invoices)
      BY <1>1, <2>4
    <3> QED
      BY <2>4, <3>1, <3>2 DEF Docs
  <2>5. ASSUME NEW v
        PROVE  LET row == invoices[req[p].doc]
               IN req[p].doc \in Docs =>
                    /\ [row EXCEPT !.total = v].paid = row.paid
                    /\ [row EXCEPT !.status = v].paid = row.paid
                    /\ [row EXCEPT !.entry = v].paid = row.paid
    <3> SUFFICES ASSUME req[p].doc \in Docs,
                        NEW row, row = invoices[req[p].doc]
                 PROVE  /\ [row EXCEPT !.total = v].paid = row.paid
                        /\ [row EXCEPT !.status = v].paid = row.paid
                        /\ [row EXCEPT !.entry = v].paid = row.paid
      OBVIOUS
    <3>1. row \in Document
      BY <2>2
    <3> QED
      BY <3>1 DEF Document
  <2>6. CASE \E v : \/ invoices' = [invoices EXCEPT ![req[p].doc].total = v]
                   \/ invoices' = [invoices EXCEPT ![req[p].doc].status = v]
                   \/ invoices' = [invoices EXCEPT ![req[p].doc].entry = v]
    <3>1. PICK row : /\ invoices' = [invoices EXCEPT ![req[p].doc] = row]
                     /\ req[p].doc \in Docs => row.paid = invoices[req[p].doc].paid
      BY <2>5, <2>6
    <3> QED
      BY <2>1, <2>4, <3>1
  <2> QED
    BY <2>1, <2>3, <2>6
<1> QED
  BY <1>2, <1>3, <1>4 DEF Step

\* A request of one statement changes the outcome of a quote at most, and a
\* document it adds owes nothing and has no entry.
RowKept(d) ==
  /\ invoices'[d].type = invoices[d].type
  /\ invoices'[d].status = invoices[d].status
  /\ invoices'[d].total = invoices[d].total
  /\ invoices'[d].paid = invoices[d].paid
  /\ invoices'[d].entry = invoices[d].entry

TableGrows ==
  /\ Docs \subseteq Docs'
  /\ \A d \in Docs : RowKept(d)
  /\ \A d \in Docs' \ Docs :
       /\ invoices'[d].status = "draft" /\ invoices'[d].paid = 0 /\ invoices'[d].entry = 0
  /\ UNCHANGED <<journal, payments, payMu, req, disturbed>>

LEMMA OneShotWrites ==
  ASSUME InvoicingInv, OneShot
  PROVE  TableGrows
<1>1. invoices \in Seq(Document) /\ Docs = 1 .. Len(invoices) /\ Len(invoices) \in Nat
      /\ \A d \in Docs : invoices[d] \in Document
  BY Tables
<1>2. UNCHANGED <<journal, payments, payMu, req, disturbed>>
  BY DEF OneShot, CreateInvoice, ConvertQuote, SetQuoteOutcome, CreateCreditNote
<1>3. ASSUME NEW marked \in Seq(Document), Len(marked) = Len(invoices),
             \A d \in Docs : /\ marked[d].type = invoices[d].type
                             /\ marked[d].status = invoices[d].status
                             /\ marked[d].total = invoices[d].total
                             /\ marked[d].paid = invoices[d].paid
                             /\ marked[d].entry = invoices[d].entry,
             \/ invoices' = marked
             \/ \E row : /\ row.status = "draft" /\ row.paid = 0 /\ row.entry = 0
                         /\ invoices' = Append(marked, row)
      PROVE  TableGrows
  <2>1. CASE invoices' = marked
    BY <1>1, <1>2, <1>3, <2>1 DEF TableGrows, RowKept, Docs
  <2>2. ASSUME NEW row, row.status = "draft", row.paid = 0, row.entry = 0,
               invoices' = Append(marked, row)
        PROVE  TableGrows
    <3>1. /\ Docs' = Docs \cup {Len(invoices) + 1}
          /\ \A d \in Docs : invoices'[d] = marked[d]
          /\ invoices'[Len(invoices) + 1] = row
      BY <1>1, <1>3, <2>2 DEF Docs
    <3> QED
      BY <1>2, <1>3, <2>2, <3>1 DEF TableGrows, RowKept
  <2> QED
    BY <1>3, <2>1, <2>2
<1>4. CASE \E row : /\ row.status = "draft" /\ row.paid = 0 /\ row.entry = 0
                    /\ invoices' = Append(invoices, row)
  BY <1>1, <1>3, <1>4
<1>5. ASSUME NEW q \in Docs, NEW o \in {"accepted", "refused", "expired"},
             NEW marked, marked = [invoices EXCEPT ![q].outcome = o],
             \/ invoices' = marked
             \/ \E row : /\ row.status = "draft" /\ row.paid = 0 /\ row.entry = 0
                         /\ invoices' = Append(marked, row)
      PROVE  TableGrows
  <2> DEFINE row == [invoices[q] EXCEPT !.outcome = o]
  <2>1. /\ row \in Document /\ row.type = invoices[q].type /\ row.status = invoices[q].status
        /\ row.total = invoices[q].total /\ row.paid = invoices[q].paid
        /\ row.entry = invoices[q].entry
    BY <1>1 DEF Document
  <2>2. marked = [invoices EXCEPT ![q] = row]
    BY <1>5
  <2> HIDE DEF row
  <2>3. marked \in Seq(Document) /\ Len(marked) = Len(invoices)
    BY <1>1, <2>1, <2>2
  <2>4. \A d \in Docs : marked[d] = IF d = q THEN row ELSE invoices[d]
    BY <1>1, <2>2 DEF Docs
  <2>5. \A d \in Docs : /\ marked[d].type = invoices[d].type
                       /\ marked[d].status = invoices[d].status
                       /\ marked[d].total = invoices[d].total
                       /\ marked[d].paid = invoices[d].paid
                       /\ marked[d].entry = invoices[d].entry
    BY <2>1, <2>4
  <2> HIDE DEF row
  <2> QED
    BY <1>3, <1>5, <2>3, <2>5
<1>6. ASSUME NEW type \in Types, NEW total \in Amounts, CreateInvoice(type, total)
      PROVE  TableGrows
  BY <1>4, <1>6 DEF CreateInvoice, NewDocument
<1>7. ASSUME NEW d \in Docs, NEW total \in Amounts, CreateCreditNote(d, total)
      PROVE  TableGrows
  BY <1>4, <1>7 DEF CreateCreditNote, NewDocument
<1>8. ASSUME NEW d \in Docs, ConvertQuote(d)
      PROVE  TableGrows
  <2>1. PICK row : /\ row.status = "draft" /\ row.paid = 0 /\ row.entry = 0
                   /\ invoices' = Append([invoices EXCEPT ![d].outcome = "accepted"], row)
    BY <1>8 DEF ConvertQuote, NewDocument
  <2> QED
    BY <1>5, <2>1
<1>9. ASSUME NEW d \in Docs, NEW o \in {"refused", "expired"}, SetQuoteOutcome(d, o)
      PROVE  TableGrows
  BY <1>5, <1>9 DEF SetQuoteOutcome
<1> QED
  BY <1>6, <1>7, <1>8, <1>9 DEF OneShot

\* The payments of a document.
PaymentsOf(d) == {k \in DOMAIN payments : payments[k].doc = d}

AmountsPaid == [k \in DOMAIN payments |-> payments[k].amount]

\* What has been paid of a document is a number, nothing without a payment.
LEMMA PaidToNumber ==
  ASSUME InvoicingInv
  PROVE  /\ \A d : IsFiniteSet(PaymentsOf(d)) /\ \A k \in PaymentsOf(d) : AmountsPaid[k] \in Nat
         /\ \A d : PaidTo(d) = SumFunctionOnSet(AmountsPaid, PaymentsOf(d))
         /\ \A d : d \notin Docs => PaidTo(d) = 0
<1>1. \A k \in DOMAIN payments : payments[k].amount \in Nat /\ payments[k].doc \in Docs
  <2>1. \A k \in DOMAIN payments : payments[k] \in PaymentRow
    BY Tables
  <2> QED
    BY <2>1 DEF PaymentRow
<1>2. IsFiniteSet(DOMAIN payments)
  <2>1. DOMAIN payments = 1 .. Len(payments) /\ 1 \in Int /\ Len(payments) \in Int
    BY Tables
  <2> QED
    BY <2>1, FS_Interval
<1>3. \A d : IsFiniteSet(PaymentsOf(d))
  BY <1>2, FS_Subset DEF PaymentsOf
<1>4. \A d : PaidTo(d) = SumFunctionOnSet(AmountsPaid, PaymentsOf(d))
  BY DEF PaidTo, PaymentsOf, AmountsPaid
<1>5. \A d : d \notin Docs => PaymentsOf(d) = {}
  BY <1>1 DEF PaymentsOf
<1>6. \A f : SumFunctionOnSet(f, {}) = 0
  BY SumUnfolds, FS_EmptySet
<1> QED
  BY <1>1, <1>3, <1>4, <1>5, <1>6 DEF PaymentsOf, AmountsPaid

\* A payment stored adds its amount to what was paid of its document.
LEMMA PaymentStored ==
  ASSUME InvoicingInv, NEW p \in Requests, PayStore(p)
  PROVE  \A d : PaidTo(d)' = PaidTo(d) + IF d = req[p].doc THEN req[p].amount ELSE 0
<1> DEFINE n == Len(payments) + 1
           old == AmountsPaid
           new == [k \in DOMAIN payments' |-> payments'[k].amount]
<1>1. /\ DOMAIN payments' = DOMAIN payments \cup {n} /\ n \notin DOMAIN payments
      /\ \A k \in DOMAIN payments : payments'[k] = payments[k]
      /\ payments'[n].doc = req[p].doc /\ payments'[n].amount = req[p].amount
  <2> DEFINE payment == [doc |-> req[p].doc, amount |-> req[p].amount, entry |-> req[p].new]
  <2>1. payments' = Append(payments, payment) /\ payment.doc = req[p].doc
        /\ payment.amount = req[p].amount
    BY DEF PayStore
  <2> HIDE DEF payment
  <2> QED
    BY <2>1, Tables
<1>2. req[p].amount \in Nat
  BY Tables DEF PayStore, RequestOK, At
<1> TAKE d
<1> DEFINE S == PaymentsOf(d)
           T == {k \in DOMAIN payments' : payments'[k].doc = d}
<1>3. PaidTo(d)' = SumFunctionOnSet(new, T)
  BY DEF PaidTo
<1>4. PaidTo(d) = SumFunctionOnSet(old, S) /\ IsFiniteSet(S) /\ \A k \in S : old[k] \in Nat
  BY PaidToNumber
<1>5. n \notin S /\ T = IF d = req[p].doc THEN S \cup {n} ELSE S
  BY <1>1 DEF PaymentsOf
<1>6. (\A k \in S : new[k] = old[k]) /\ new[n] = req[p].amount
  BY <1>1 DEF PaymentsOf, AmountsPaid
<1> HIDE DEF n, old, new, S, T
<1>7. SumFunctionOnSet(old, S) \in Int /\ SumFunctionOnSet(old, S) = SumFunctionOnSet(new, S)
  <2>1. \A k \in S : old[k] \in Int /\ old[k] = new[k]
    BY <1>4, <1>6
  <2> QED
    BY <1>4, <2>1, SumSame
<1>8. CASE d = req[p].doc
  <2>1. \A k \in S \cup {n} : new[k] \in Int
    BY <1>2, <1>4, <1>6
  <2>2. SumFunctionOnSet(new, S \cup {n}) = new[n] + SumFunctionOnSet(new, S)
    BY <1>4, <1>5, <2>1, SumAdds
  <2> QED
    BY <1>2, <1>3, <1>4, <1>5, <1>6, <1>7, <1>8, <2>2
<1>9. CASE d # req[p].doc
  BY <1>3, <1>4, <1>5, <1>7, <1>9
<1> QED
  BY <1>8, <1>9

\* Every step keeps what was paid the sum of the payments.
LEMMA PaidStep ==
  ASSUME InvoicingInv, PaymentsAddUp, [Next]_vars
  PROVE  PaymentsAddUp'
<1>1. CASE OneShot
  <2>1. TableGrows /\ InvoicingInv'
    BY <1>1, OneShotWrites, OneShotHolds
  <2>2. \A d : PaidTo(d)' = PaidTo(d)
    BY <2>1 DEF PaidTo, TableGrows
  <2>3. \A d \in Docs' \ Docs : PaidTo(d) = 0
    BY PaidToNumber
  <2> QED
    BY <2>1, <2>2, <2>3 DEF PaymentsAddUp, TableGrows, RowKept
<1>2. ASSUME NEW p \in Requests, Arrival(p) \/ Step(p)
      PROVE  PaymentsAddUp'
  <2>1. CASE PayStore(p)
    <3>1. \A d : PaidTo(d)' = PaidTo(d) + IF d = req[p].doc THEN req[p].amount ELSE 0
      BY <2>1, PaymentStored
    <3>2. /\ Docs' = Docs
          /\ invoices'[req[p].doc].paid = invoices[req[p].doc].paid + req[p].amount
          /\ \A d \in Docs : d # req[p].doc => invoices'[d].paid = invoices[d].paid
      BY <1>2, <2>1, StepWrites, PayStoreEffect
    <3>3. \A d \in Docs : invoices[d].paid \in Nat
      <4>1. \A d \in Docs : invoices[d] \in Document
        BY Tables
      <4> QED
        BY <4>1 DEF Document
    <3> QED
      BY <3>1, <3>2, <3>3 DEF PaymentsAddUp
  <2>2. CASE ~PayStore(p)
    <3>1. /\ Docs' = Docs /\ UNCHANGED payments
          /\ \A d \in Docs : invoices'[d].paid = invoices[d].paid
      BY <1>2, <2>2, StepWrites
    <3>2. \A d : PaidTo(d)' = PaidTo(d)
      BY <3>1 DEF PaidTo
    <3> QED
      BY <3>1, <3>2 DEF PaymentsAddUp
  <2> QED
    BY <2>1, <2>2
<1>3. CASE UNCHANGED vars
  <2>1. UNCHANGED <<invoices, payments>> /\ Docs' = Docs
    BY <1>3 DEF vars, Docs
  <2>2. \A d : PaidTo(d)' = PaidTo(d)
    BY <2>1 DEF PaidTo
  <2> QED
    BY <2>1, <2>2 DEF PaymentsAddUp
<1> QED
  BY <1>1, <1>2, <1>3 DEF Next

\* The amount paid of a document is the sum of its payments, for any number of
\* requests, documents and payments, whatever errors stop them: the mutex covers
\* the reading of the balance and the writing of the sum.
THEOREM PaymentsAddUpTheorem == Spec => []PaymentsAddUp
<1>1. Init => PaymentsAddUp
  BY DEF Init, PaymentsAddUp, Docs
<1>2. InvoicingInv /\ PaymentsAddUp /\ [Next]_vars => PaymentsAddUp'
  BY PaidStep
<1> QED
  BY <1>1, <1>2, InvoicingInvariant, PTL DEF Spec


-----------------------------------------------------------------------------
(* The books and the documents: the inductive invariant *)

(***************************************************************************)
(* BooksMatchDocument speaks of a document no request is at work on.  What *)
(* holds while the one request of an undisturbed document is at work, and  *)
(* brings the books and the document in line one statement at a time, is   *)
(* the rest of this invariant: the entries that are already in force and   *)
(* whose document has still to follow, and what the request knows of the   *)
(* document as long as nobody disturbs it.                                 *)
(***************************************************************************)

\* Entries reverse entries of their own document, and are then reversals.
ReversesOwn(e) ==
  journal[e].reverses # 0 =>
    /\ journal[e].kind = "reversal"
    /\ journal[journal[e].reverses].doc = journal[e].doc

ReversingOwn(p) ==
  /\ req[p].pc \in {"reverse_create", "reverse_flag"} => journal[req[p].link].doc = req[p].doc
  /\ req[p].pc \in {"reverse_flag", "reverse_post"} => Of(req[p].new, "reversal", req[p].doc)

ReversalsOK ==
  /\ \A e \in Entries : ReversesOwn(e)
  /\ \A p \in Requests : ReversingOwn(p)

\* The entry in force that a request has still to bring its document in line
\* with, or to reverse.
Unsettled(p) ==
  CASE req[p].pc \in {"issue_set_link", "pay_store"}    -> {req[p].new}
    [] req[p].pc \in {"reverse_create", "reverse_flag"} -> {req[p].link}
    [] req[p].pc = "reverse_post"                       -> {journal[req[p].new].reverses}
    [] OTHER                                            -> {}

WorkingOn(d) == {p \in Requests : req[p].doc = d}

\* The entries of document d in force, those apart.
Standing(d, kind) == InForce(d, kind) \ UNION {Unsettled(p) : p \in WorkingOn(d)}

EntryAmounts == [e \in DOMAIN journal |-> journal[e].amount]

\* The books agree with document d, but for what a request has still to settle.
Settled(d) ==
  /\ Standing(d, "issue") = IF Due(d) THEN {invoices[d].entry} ELSE {}
  /\ Due(d) => journal[invoices[d].entry].amount = invoices[d].total
  /\ SumFunctionOnSet(EntryAmounts, Standing(d, "payment"))
       = IF Due(d) THEN invoices[d].paid ELSE 0
  /\ invoices[d].status \in {"draft", "cancelled"} => invoices[d].paid = 0

\* A draft has no link; one that was reopened still has it, to be removed.
DraftUnlinked(d) ==
  invoices[d].status = "draft" =>
    invoices[d].entry = 0 \/ \E p \in Requests : req[p].doc = d /\ req[p].pc = "clear_link"

\* The transitions of SetStatus.
Moves == {<<"draft", "cancelled">>, <<"sent", "cancelled">>, <<"sent", "paid">>,
          <<"sent", "archived">>, <<"paid", "archived">>, <<"cancelled", "draft">>}

\* What a request alone on document d knows of it: what it has read still holds.
Knows(p, d) ==
  /\ req[p].pc \in {"clear_link", "update_check", "update"} => invoices[d].status = "draft"
  /\ req[p].pc \in {"settle", "issue", "set_status"} =>
       /\ req[p].from = invoices[d].status /\ req[p].link = invoices[d].entry
       /\ req[p].pc = "settle" => req[p].from = "sent" /\ req[p].to = "paid"
       /\ req[p].pc = "issue" => req[p].from = "draft" /\ req[p].to = "sent"
       /\ req[p].pc = "set_status" => <<req[p].from, req[p].to>> \in Moves
       /\ req[p].to = "cancelled" => invoices[d].paid = 0
  /\ req[p].pc \in {"issue_link", "issue_amounts", "issue_create", "issue_post", "issue_set_link"} =>
       invoices[d].status = "sent" /\ invoices[d].entry = 0 /\ invoices[d].paid = 0
  /\ req[p].pc = "issue_create" => req[p].amount = invoices[d].total
  /\ req[p].pc \in {"issue_post", "issue_set_link"} => journal[req[p].new].amount = invoices[d].total
  /\ req[p].pc = "issue_set_link" => req[p].new \in InForce(d, "issue")
  /\ req[p].pc \in {"issue_post", "pay_post"} => ~Posted(req[p].new) /\ ~Reversed(req[p].new)
  /\ req[p].pc \in {"pay_create", "pay_post", "pay_store"} => invoices[d].status = "sent"
  /\ req[p].pc \in {"pay_create", "pay_post"} => invoices[d].entry # 0
  /\ req[p].pc = "pay_store" =>
       IF invoices[d].entry = 0 THEN req[p].new = 0 ELSE req[p].new \in InForce(d, "payment")
  /\ req[p].pc = "reverse_flag" => ~Posted(req[p].new)

Alone(d) == \A p, q \in Requests : req[p].doc = d /\ req[q].doc = d => p = q

DocumentOK(d) ==
  /\ Alone(d)
  /\ Settled(d)
  /\ DraftUnlinked(d)
  /\ \A p \in Requests : req[p].doc = d => Knows(p, d)

BooksInv ==
  /\ ReversalsOK
  /\ \A d \in Docs \ disturbed : DocumentOK(d)

\* Nothing is at work on a document that no request names: the books agree.
LEMMA BooksGive ==
  ASSUME InvoicingInv, BooksInv
  PROVE  BooksMatchDocument
<1> SUFFICES ASSUME NEW d \in Docs \ disturbed, ~Busy(d)
             PROVE  /\ InForce(d, "issue") = IF Due(d) THEN {invoices[d].entry} ELSE {}
                    /\ Due(d) => journal[invoices[d].entry].amount = invoices[d].total
                    /\ SumFunctionOnSet(EntryAmounts, InForce(d, "payment"))
                         = IF Due(d) THEN invoices[d].paid ELSE 0
  BY DEF BooksMatchDocument, EntryAmounts
<1>1. WorkingOn(d) = {}
  BY DEF Busy, WorkingOn
<1>2. \A kind : Standing(d, kind) = InForce(d, kind)
  BY <1>1 DEF Standing
<1>3. Settled(d)
  BY DEF BooksInv, DocumentOK
<1> QED
  BY <1>2, <1>3 DEF Settled

\* What stands of a document that one request is at work on.
LEMMA StandingOf ==
  ASSUME NEW p \in Requests, NEW d, req[p].doc = d, Alone(d), NEW kind
  PROVE  Standing(d, kind) = InForce(d, kind) \ Unsettled(p)
<1>1. WorkingOn(d) = {p}
  BY DEF WorkingOn, Alone
<1> QED
  BY <1>1 DEF Standing

\* Amounts of entries stay, and so does what any of them add up to.
LEMMA SameAmounts ==
  ASSUME InvoicingInv, JournalGrows, NEW S \in SUBSET Entries
  PROVE  /\ IsFiniteSet(S)
         /\ \A e \in S : EntryAmounts[e] \in Int /\ EntryAmounts'[e] = EntryAmounts[e]
         /\ SumFunctionOnSet(EntryAmounts, S) \in Int
         /\ SumFunctionOnSet(EntryAmounts', S) = SumFunctionOnSet(EntryAmounts, S)
<1>1. IsFiniteSet(S)
  <2>1. Entries = 1 .. Len(journal) /\ 1 \in Int /\ Len(journal) \in Int
    BY Tables
  <2>2. IsFiniteSet(Entries)
    BY <2>1, FS_Interval
  <2> QED
    BY <2>2, FS_Subset
<1>2. \A e \in Entries : journal[e].amount \in Int /\ journal'[e].amount = journal[e].amount
  <2>1. \A e \in Entries : journal[e] \in JournalEntry
    BY Tables
  <2> QED
    BY <2>1 DEF JournalEntry, JournalGrows
<1>3. \A e \in S : EntryAmounts[e] \in Int /\ EntryAmounts'[e] = EntryAmounts[e]
  BY <1>2 DEF EntryAmounts, JournalGrows, Entries
<1>4. PICK f, g : f = EntryAmounts /\ g = EntryAmounts'
  OBVIOUS
<1>5. SumFunctionOnSet(f, S) \in Int /\ SumFunctionOnSet(f, S) = SumFunctionOnSet(g, S)
  <2>1. \A e \in S : f[e] \in Int /\ f[e] = g[e]
    BY <1>3, <1>4
  <2> QED
    BY <1>1, <2>1, SumSame
<1> QED
  BY <1>1, <1>3, <1>4, <1>5

\* A document stays in line with the books when what stands of it stays.
LEMMA StaysSettled ==
  ASSUME InvoicingInv, JournalGrows, NEW d \in Docs, Settled(d),
         Standing(d, "issue")' = Standing(d, "issue"),
         Standing(d, "payment")' = Standing(d, "payment"),
         Due(d)' = Due(d),
         Due(d) => /\ invoices'[d].total = invoices[d].total
                   /\ invoices'[d].paid = invoices[d].paid
                   /\ invoices'[d].entry = invoices[d].entry,
         invoices'[d].status \in {"draft", "cancelled"} => invoices'[d].paid = 0
  PROVE  Settled(d)'
<1>1. Due(d) => invoices[d].entry \in Entries
  BY DEF Due, InvoicingInv, LinksIssued, Issued, Of
<1>2. PICK S : S = Standing(d, "payment")
  OBVIOUS
<1>3. S \in SUBSET Entries
  BY <1>2 DEF Standing, InForce, Entries
<1>4. SumFunctionOnSet(EntryAmounts', S) = SumFunctionOnSet(EntryAmounts, S)
  BY <1>3, SameAmounts
<1>5. SumFunctionOnSet(EntryAmounts, Standing(d, "payment"))'
        = SumFunctionOnSet(EntryAmounts, Standing(d, "payment"))
  BY <1>2, <1>4
<1>6. Due(d) => journal'[invoices'[d].entry].amount = invoices'[d].total
  BY <1>1 DEF Settled, JournalGrows
<1> QED
  BY <1>5, <1>6 DEF Settled


\* The journal changes for document c alone: no entry of another one is written,
\* added or reversed.
OnlyOf(c) ==
  /\ JournalGrows
  /\ \A e \in Entries :
       journal[e].doc # c => journal'[e] = journal[e] /\ (Reversed(e)' <=> Reversed(e))
  /\ \A e \in Entries' \ Entries : journal'[e].doc = c

LEMMA OthersForce ==
  ASSUME NEW c, OnlyOf(c), NEW d, d # c, NEW kind
  PROVE  InForce(d, kind)' = InForce(d, kind)
<1>1. ASSUME NEW e, e \in InForce(d, kind)
      PROVE  e \in InForce(d, kind)'
  <2>1. e \in Entries /\ journal[e].doc # c
    BY <1>1 DEF InForce, Entries
  <2>2. e \in Entries' /\ journal'[e] = journal[e] /\ (Reversed(e)' <=> Reversed(e))
    BY <2>1 DEF OnlyOf, JournalGrows
  <2> QED
    BY <1>1, <2>2 DEF InForce, Posted, Entries
<1>2. ASSUME NEW e, e \in InForce(d, kind)'
      PROVE  e \in InForce(d, kind)
  <2>1. e \in Entries' /\ journal'[e].doc # c /\ journal'[e].doc = d
    BY <1>2 DEF InForce, Entries
  <2>2. e \in Entries /\ journal[e].doc # c
    BY <2>1 DEF OnlyOf, JournalGrows
  <2>3. journal'[e] = journal[e] /\ (Reversed(e)' <=> Reversed(e))
    BY <2>2 DEF OnlyOf
  <2> QED
    BY <1>2, <2>2, <2>3 DEF InForce, Posted, Entries
<1> QED
  BY <1>1, <1>2

\* The entries a request remembers are of its document.
LEMMA RemembersOwn ==
  ASSUME InvoicingInv, ReversalsOK, NEW p \in Requests
  PROVE  /\ req[p].pc \in {"issue_post", "issue_set_link", "pay_post", "reverse_flag", "reverse_post"} =>
              req[p].new \in Entries /\ journal[req[p].new].doc = req[p].doc
         /\ req[p].pc = "pay_store" /\ req[p].new # 0 =>
              req[p].new \in Entries /\ journal[req[p].new].doc = req[p].doc
<1>1. RequestOK(p) /\ ReversingOwn(p)
  BY Tables DEF ReversalsOK
<1> QED
  BY <1>1 DEF RequestOK, ReversingOwn, Of, Issued, Paid

\* A request changes nothing for the documents it is not at work on.
LEMMA OtherDocument ==
  ASSUME InvoicingInv, ReversalsOK, NEW c \in Docs, OnlyOf(c),
         NEW p \in Requests, \A q \in Requests \ {p} : req'[q] = req[q],
         req[p].doc \in {0, c}, req'[p].doc \in {0, c},
         NEW d \in Docs, d # c, invoices'[d] = invoices[d],
         DocumentOK(d)
  PROVE  DocumentOK(d)'
<1>0. d # 0
  BY Tables
<1>1. \A q \in Requests : (req'[q].doc = d <=> req[q].doc = d)
                          /\ (req[q].doc = d => q # p /\ req'[q] = req[q])
  BY <1>0
<1>2. \A kind : InForce(d, kind)' = InForce(d, kind)
  BY OthersForce
<1>3. ASSUME NEW q \in Requests, req[q].doc = d
      PROVE  /\ Unsettled(q)' = Unsettled(q)
             /\ Knows(q, d)'
  <2>1. req'[q] = req[q]
    BY <1>1, <1>3
  <2>0. PICK e : e = req[q].new
    OBVIOUS
  <2>2. req[q].pc \in {"issue_post", "issue_set_link", "pay_post", "reverse_flag", "reverse_post"} =>
          e \in Entries /\ journal[e].doc # c
    BY <1>3, <2>0, RemembersOwn
  <2>3. req[q].pc \in {"issue_post", "issue_set_link", "pay_post", "reverse_flag", "reverse_post"} =>
          journal'[e] = journal[e] /\ (Reversed(e)' <=> Reversed(e))
    BY <2>2 DEF OnlyOf
  <2>4. Unsettled(q)' = Unsettled(q)
    BY <2>0, <2>1, <2>3 DEF Unsettled
  <2>5. Knows(q, d)
    BY <1>3 DEF DocumentOK
  <2>6. InForce(d, "issue")' = InForce(d, "issue") /\ InForce(d, "payment")' = InForce(d, "payment")
    BY <1>2
  <2>7. req[q].pc \in {"issue_post", "pay_post"} =>
          (~Posted(req[q].new) /\ ~Reversed(req[q].new))'
    BY <2>0, <2>1, <2>3, <2>5 DEF Knows, Posted, Reversed
  <2>8. req[q].pc = "reverse_flag" => ~Posted(req[q].new)'
    BY <2>0, <2>1, <2>3, <2>5 DEF Knows, Posted
  <2>9. req[q].pc \in {"issue_post", "issue_set_link"} =>
          journal'[req'[q].new].amount = invoices'[d].total
    BY <2>0, <2>1, <2>3, <2>5 DEF Knows
  <2> QED
    BY <2>1, <2>4, <2>5, <2>6, <2>7, <2>8, <2>9 DEF Knows
<1>4. WorkingOn(d)' = WorkingOn(d) /\ \A q \in WorkingOn(d) : Unsettled(q)' = Unsettled(q)
  BY <1>1, <1>3 DEF WorkingOn
<1>5. \A kind : Standing(d, kind)' = Standing(d, kind)
  BY <1>2, <1>4 DEF Standing
<1>6. Due(d)' = Due(d)
  BY DEF Due
<1>7. Settled(d) /\ (invoices'[d].status \in {"draft", "cancelled"} => invoices'[d].paid = 0)
  BY DEF DocumentOK, Settled
<1>8. Settled(d)'
  BY <1>5, <1>6, <1>7, StaysSettled DEF OnlyOf
<1>9. Alone(d)'
  BY <1>1 DEF DocumentOK, Alone
<1>10. DraftUnlinked(d)'
  BY <1>1 DEF DocumentOK, DraftUnlinked
<1>11. \A q \in Requests : req'[q].doc = d => Knows(q, d)'
  BY <1>1, <1>3
<1> QED
  BY <1>8, <1>9, <1>10, <1>11 DEF DocumentOK

\* What a step keeps of the document it is at work on, which nobody disturbs.
OwnKept(p, c) ==
  /\ Settled(c)'
  /\ invoices'[c].status = "draft" => invoices'[c].entry = 0 \/ req'[p].pc = "clear_link"
  /\ req'[p].doc = c => Knows(p, c)'

\* What every step of a request has to show.
LEMMA BooksStep ==
  ASSUME InvoicingInv, BooksInv, NEW p \in Requests, Step(p), NEW c \in Docs, c = req[p].doc,
         \A q \in Requests \ {p} : req'[q] = req[q],
         req'[p].doc \in {0, c}, req'[p].pc = "clear_link" => req'[p].doc = c,
         disturbed \subseteq disturbed',
         OnlyOf(c), ReversalsOK',
         c \notin disturbed' => OwnKept(p, c)
  PROVE  BooksInv'
<1>1. Docs' = Docs /\ \A d \in Docs : d # c => invoices'[d] = invoices[d]
  BY StepWrites
<1>2. ASSUME NEW d \in Docs, d \notin disturbed', d # c
      PROVE  DocumentOK(d)'
  <2>1. DocumentOK(d)
    BY <1>2 DEF BooksInv
  <2> QED
    BY <1>1, <1>2, <2>1, OtherDocument DEF BooksInv
<1>3. ASSUME c \notin disturbed'
      PROVE  DocumentOK(c)'
  <2>1. Alone(c)
    BY <1>3 DEF BooksInv, DocumentOK
  <2>2. \A q \in Requests : req'[q].doc = c => q = p
    BY <2>1 DEF Alone
  <2>3. Alone(c)'
    BY <2>2 DEF Alone
  <2>4. DraftUnlinked(c)'
    BY <1>3 DEF OwnKept, DraftUnlinked
  <2>5. \A q \in Requests : req'[q].doc = c => Knows(q, c)'
    BY <1>3, <2>2 DEF OwnKept
  <2> QED
    BY <1>3, <2>3, <2>4, <2>5 DEF OwnKept, DocumentOK
<1>4. \A d \in Docs' \ disturbed' : DocumentOK(d)'
  BY <1>1, <1>2, <1>3
<1> QED
  BY <1>4 DEF BooksInv


\* What is known of the document a step is at work on.
LEMMA OwnFacts ==
  ASSUME InvoicingInv, BooksInv, NEW p \in Requests, NEW c \in Docs \ disturbed, c = req[p].doc
  PROVE  /\ c # 0 /\ invoices[c] \in Document
         /\ Alone(c) /\ Settled(c) /\ Knows(p, c)
         /\ invoices[c].status = "draft" => invoices[c].entry = 0 \/ req[p].pc = "clear_link"
         /\ invoices[c].status \in {"draft", "cancelled"} => invoices[c].paid = 0
         /\ \A kind : Standing(c, kind) = InForce(c, kind) \ Unsettled(p)
<1>1. c # 0 /\ invoices[c] \in Document
  BY Tables
<1>2. DocumentOK(c)
  BY DEF BooksInv
<1>3. Alone(c) /\ Settled(c) /\ Knows(p, c)
  BY <1>2 DEF DocumentOK
<1>4. \A kind : Standing(c, kind) = InForce(c, kind) \ Unsettled(p)
  BY <1>3, StandingOf
<1>5. invoices[c].status = "draft" => invoices[c].entry = 0 \/ req[p].pc = "clear_link"
  BY <1>2, <1>3 DEF DocumentOK, DraftUnlinked, Alone
<1> QED
  BY <1>1, <1>3, <1>4, <1>5 DEF Settled

\* What stands of it afterwards.
LEMMA OwnStands ==
  ASSUME NEW p \in Requests, NEW c, c = req[p].doc, c # 0, Alone(c),
         \A q \in Requests \ {p} : req'[q] = req[q],
         req'[p] = Idle \/ req'[p].doc = c, NEW kind
  PROVE  Standing(c, kind)' = InForce(c, kind)' \ Unsettled(p)'
<1>1. \A q \in Requests : req'[q].doc = c => q = p
  BY DEF Alone
<1>2. CASE req'[p].doc = c
  <2>1. WorkingOn(c)' = {p}
    BY <1>1, <1>2 DEF WorkingOn
  <2> QED
    BY <2>1 DEF Standing
<1>3. CASE req'[p] = Idle
  <2>1. WorkingOn(c)' = {}
    BY <1>1, <1>3 DEF WorkingOn, Idle
  <2>2. Unsettled(p)' = {}
    BY <1>3 DEF Unsettled, Idle
  <2> QED
    BY <2>1, <2>2 DEF Standing
<1> QED
  BY <1>2, <1>3

\* The journal left alone.
LEMMA QuietJournal ==
  ASSUME InvoicingInv, ReversalsOK, UNCHANGED journal, NEW c, NEW p \in Requests,
         \A q \in Requests \ {p} : req'[q] = req[q],
         ReversingOwn(p)'
  PROVE  /\ OnlyOf(c)
         /\ ReversalsOK'
         /\ \A d, kind : InForce(d, kind)' = InForce(d, kind)
<1>1. Entries' = Entries
  BY DEF Entries
<1>2. \A e : Reversed(e)' <=> Reversed(e)
  BY DEF Reversed, Posted
<1>3. JournalGrows
  BY <1>1 DEF JournalGrows
<1>4. \A d, kind : InForce(d, kind)' = InForce(d, kind)
  BY <1>2 DEF InForce, Posted
<1>5. \A q \in Requests \ {p} : ReversingOwn(q)'
  BY <1>1 DEF ReversalsOK, ReversingOwn, Of
<1>6. \A e \in Entries' : ReversesOwn(e)'
  BY <1>1 DEF ReversalsOK, ReversesOwn
<1> QED
  BY <1>1, <1>2, <1>3, <1>4, <1>5, <1>6 DEF OnlyOf, ReversalsOK

\* A step that leaves the journal alone, and whose document neither becomes due
\* nor stops being due.
LEMMA QuietBooks ==
  ASSUME InvoicingInv, BooksInv, NEW p \in Requests, Step(p), NEW c \in Docs, c = req[p].doc,
         UNCHANGED <<journal, disturbed>>,
         \A q \in Requests \ {p} : req'[q] = req[q],
         req'[p] = Idle \/ req'[p].doc = c,
         ReversingOwn(p)',
         c \notin disturbed =>
           /\ Unsettled(p)' \cap Entries = Unsettled(p) \cap Entries
           /\ Due(c)' = Due(c)
           /\ Due(c) => /\ invoices'[c].total = invoices[c].total
                        /\ invoices'[c].paid = invoices[c].paid
                        /\ invoices'[c].entry = invoices[c].entry
           /\ invoices'[c].status \in {"draft", "cancelled"} => invoices'[c].paid = 0
           /\ invoices'[c].status = "draft" => invoices'[c].entry = 0 \/ req'[p].pc = "clear_link"
           /\ req'[p].doc = c => Knows(p, c)'
  PROVE  BooksInv'
<1>1. /\ OnlyOf(c) /\ ReversalsOK'
      /\ \A d, kind : InForce(d, kind)' = InForce(d, kind)
  BY QuietJournal DEF BooksInv
<1>2. ASSUME c \notin disturbed
      PROVE  OwnKept(p, c)
  <2>1. /\ c # 0 /\ Alone(c) /\ Settled(c)
        /\ \A kind : Standing(c, kind) = InForce(c, kind) \ Unsettled(p)
    BY <1>2, OwnFacts
  <2>2. /\ Standing(c, "issue")' = InForce(c, "issue")' \ Unsettled(p)'
        /\ Standing(c, "payment")' = InForce(c, "payment")' \ Unsettled(p)'
    BY <2>1, OwnStands
  <2>3. \A kind : InForce(c, kind) \subseteq Entries
    BY DEF InForce, Entries
  <2>4. /\ Standing(c, "issue")' = Standing(c, "issue")
        /\ Standing(c, "payment")' = Standing(c, "payment")
    <3>1. PICK u, v : u = Unsettled(p) /\ v = Unsettled(p)'
      OBVIOUS
    <3>2. u \cap Entries = v \cap Entries
      BY <1>2, <3>1
    <3>3. \A S \in SUBSET Entries : S \ u = S \ v
      BY <3>2
    <3> QED
      BY <1>1, <2>1, <2>2, <2>3, <3>1, <3>3
  <2>5. Settled(c)'
    BY <1>1, <1>2, <2>1, <2>4, StaysSettled DEF OnlyOf
  <2> QED
    BY <1>2, <2>5 DEF OwnKept
<1>3. req'[p].doc \in {0, c} /\ (req'[p].pc = "clear_link" => req'[p].doc = c)
  BY DEF Idle
<1> QED
  BY <1>1, <1>2, <1>3, BooksStep

\* A request that ends knows nothing and has nothing to settle.
LEMMA Ended ==
  ASSUME InvoicingInv, NEW p \in Requests, Finish(p), NEW c \in Docs
  PROVE  /\ \A q \in Requests \ {p} : req'[q] = req[q]
         /\ req'[p] = Idle /\ req'[p].doc # c
         /\ Unsettled(p)' = {}
         /\ ReversingOwn(p)'
<1>1. req'[p] = Idle /\ \A q \in Requests \ {p} : req'[q] = req[q]
  BY Tables, FinishEffect
<1>2. c # 0
  BY Tables
<1> QED
  BY <1>1, <1>2 DEF Idle, Unsettled, ReversingOwn

\* One field of a row written.
LEMMA FieldWritten ==
  ASSUME InvoicingInv, NEW c \in Docs, NEW v
  PROVE  /\ invoices' = [invoices EXCEPT ![c].total = v] =>
              /\ invoices'[c].total = v /\ invoices'[c].status = invoices[c].status
              /\ invoices'[c].paid = invoices[c].paid /\ invoices'[c].entry = invoices[c].entry
         /\ invoices' = [invoices EXCEPT ![c].status = v] =>
              /\ invoices'[c].status = v /\ invoices'[c].total = invoices[c].total
              /\ invoices'[c].paid = invoices[c].paid /\ invoices'[c].entry = invoices[c].entry
         /\ invoices' = [invoices EXCEPT ![c].entry = v] =>
              /\ invoices'[c].entry = v /\ invoices'[c].total = invoices[c].total
              /\ invoices'[c].paid = invoices[c].paid /\ invoices'[c].status = invoices[c].status
<1>1. PICK row : row = invoices[c]
  OBVIOUS
<1>2. row \in Document /\ c \in DOMAIN invoices
  BY <1>1, Tables DEF Docs
<1>3. /\ invoices' = [invoices EXCEPT ![c].total = v] => invoices'[c] = [row EXCEPT !.total = v]
      /\ invoices' = [invoices EXCEPT ![c].status = v] => invoices'[c] = [row EXCEPT !.status = v]
      /\ invoices' = [invoices EXCEPT ![c].entry = v] => invoices'[c] = [row EXCEPT !.entry = v]
  BY <1>1, <1>2
<1> QED
  BY <1>1, <1>2, <1>3 DEF Document

\* The modification of a draft: it has no entry in force.
LEMMA UpdatingBooks ==
  ASSUME InvoicingInv, BooksInv, NEW p \in Requests, Updating(p)
  PROVE  BooksInv'
<1>1. PICK c : c = req[p].doc
  OBVIOUS
<1>2. c \in Docs /\ Step(p) /\ RequestsOK
  BY <1>1, Tables DEF Updating, UpdateCheck, UpdateCommit, At, RequestOK, Step
<1>3. CASE UpdateCheck(p)
  <2>1. UNCHANGED <<invoices, journal, disturbed>> /\ Unsettled(p) = {}
        /\ req[p].pc = "update_check"
    BY <1>3 DEF UpdateCheck, At, Unsettled
  <2>2. Due(c)' = Due(c)
    BY <2>1 DEF Due
  <2>3. CASE Finish(p)
    BY <1>1, <1>2, <2>1, <2>2, <2>3, Ended, OwnFacts, QuietBooks
  <2>4. CASE Goto(p, "update", Keep(p, {"total"}))
    <3>1. /\ \A q \in Requests \ {p} : req'[q] = req[q]
          /\ req'[p].pc = "update" /\ req'[p].doc = c
      BY <1>1, <1>2, <2>4, GotoEffect DEF Keep
    <3>2. Unsettled(p)' = {} /\ ReversingOwn(p)'
      BY <3>1 DEF Unsettled, ReversingOwn
    <3>3. Knows(p, c) => Knows(p, c)'
      BY <2>1, <3>1 DEF Knows
    <3> QED
      BY <1>1, <1>2, <2>1, <2>2, <3>1, <3>2, <3>3, OwnFacts, QuietBooks
  <2> QED
    BY <1>3, <2>3, <2>4 DEF UpdateCheck
<1>4. CASE UpdateCommit(p)
  <2>1. /\ UNCHANGED <<journal, disturbed>> /\ Unsettled(p) = {} /\ Finish(p)
        /\ invoices' = [invoices EXCEPT ![c].total = req[p].total]
        /\ req[p].pc = "update"
    BY <1>1, <1>4 DEF UpdateCommit, At, Unsettled
  <2>2. /\ invoices'[c].status = invoices[c].status /\ invoices'[c].paid = invoices[c].paid
        /\ invoices'[c].entry = invoices[c].entry
    BY <1>2, <2>1, FieldWritten
  <2>3. Due(c)' = Due(c)
    BY <2>2 DEF Due
  <2>4. Knows(p, c) => invoices[c].status = "draft" /\ ~Due(c)
    BY <2>1 DEF Knows, Due
  <2> QED
    BY <1>1, <1>2, <2>1, <2>2, <2>3, <2>4, Ended, OwnFacts, QuietBooks
<1> QED
  BY <1>3, <1>4 DEF Updating


\* The balance read: it is paid, or the document is marked.
LEMMA SettleBooks ==
  ASSUME InvoicingInv, BooksInv, NEW p \in Requests, SettleRead(p)
  PROVE  BooksInv'
<1>1. PICK c : c = req[p].doc
  OBVIOUS
<1>2. c \in Docs /\ Step(p) /\ RequestsOK
  BY <1>1, Tables DEF SettleRead, At, RequestOK, Step, Moving
<1>3. /\ UNCHANGED <<invoices, journal, disturbed>> /\ Unsettled(p) = {}
      /\ req[p].pc = "settle"
  BY DEF SettleRead, At, Unsettled
<1>4. Due(c)' = Due(c)
  BY <1>3 DEF Due
<1>5. CASE Goto(p, "set_status", Keep(p, {"from", "to", "link"}))
  <2>1. /\ \A q \in Requests \ {p} : req'[q] = req[q]
        /\ req'[p].pc = "set_status" /\ req'[p].doc = c
        /\ req'[p].from = req[p].from /\ req'[p].to = req[p].to /\ req'[p].link = req[p].link
    BY <1>1, <1>2, <1>5, GotoEffect DEF Keep
  <2>2. Unsettled(p)' = {} /\ ReversingOwn(p)'
    BY <2>1 DEF Unsettled, ReversingOwn
  <2>3. Knows(p, c) => Knows(p, c)'
    BY <1>3, <2>1 DEF Knows, Moves
  <2> QED
    BY <1>1, <1>2, <1>3, <1>4, <2>1, <2>2, <2>3, OwnFacts, QuietBooks
<1>6. ASSUME NEW amount, Goto(p, "pay_lock", [amount |-> amount])
      PROVE  BooksInv'
  <2>1. /\ \A q \in Requests \ {p} : req'[q] = req[q]
        /\ req'[p].pc = "pay_lock" /\ req'[p].doc = c
    BY <1>1, <1>2, <1>6, GotoEffect
  <2>2. Unsettled(p)' = {} /\ ReversingOwn(p)' /\ Knows(p, c)'
    BY <2>1 DEF Unsettled, ReversingOwn, Knows
  <2> QED
    BY <1>1, <1>2, <1>3, <1>4, <2>1, <2>2, OwnFacts, QuietBooks
<1> QED
  BY <1>5, <1>6 DEF SettleRead

\* A sent document with an entry is cancelled: its entry, the only one of issue
\* in force, is the one the request goes on to reverse.
LEMMA CancelBooks ==
  ASSUME InvoicingInv, BooksInv, NEW p \in Requests, SetStatus(p),
         req[p].link # 0, req[p].from = "sent", req[p].to = "cancelled"
  PROVE  BooksInv'
<1>1. PICK c : c = req[p].doc
  OBVIOUS
<1>2. c \in Docs /\ Step(p) /\ RequestsOK /\ Issued(req[p].link, c)
  BY <1>1, Tables DEF SetStatus, At, RequestOK, Step, Moving
<1>3. /\ UNCHANGED <<journal, disturbed>> /\ Unsettled(p) = {} /\ req[p].pc = "set_status"
      /\ invoices' = [invoices EXCEPT ![c].status = "cancelled"]
      /\ Goto(p, "reverse_create", Keep(p, {"link"}))
  BY <1>1 DEF SetStatus, At, Unsettled
<1>4. /\ \A q \in Requests \ {p} : req'[q] = req[q]
      /\ req'[p].pc = "reverse_create" /\ req'[p].doc = c /\ req'[p].link = req[p].link
  BY <1>1, <1>2, <1>3, GotoEffect DEF Keep
<1>5. ReversingOwn(p)'
  BY <1>2, <1>3, <1>4 DEF ReversingOwn, Issued, Of
<1>6. /\ OnlyOf(c) /\ ReversalsOK'
      /\ \A d, kind : InForce(d, kind)' = InForce(d, kind)
  BY <1>3, <1>4, <1>5, QuietJournal DEF BooksInv
<1>7. ASSUME c \notin disturbed
      PROVE  OwnKept(p, c)
  <2>1. /\ c # 0 /\ Alone(c) /\ Settled(c) /\ Knows(p, c)
        /\ \A kind : Standing(c, kind) = InForce(c, kind)
    <3>1. c \in Docs \ disturbed
      BY <1>2, <1>7
    <3>2. /\ c # 0 /\ Alone(c) /\ Settled(c) /\ Knows(p, c)
          /\ \A kind : Standing(c, kind) = InForce(c, kind) \ Unsettled(p)
      BY <1>1, <3>1, OwnFacts
    <3>3. Unsettled(p) = {}
      BY <1>3
    <3>4. \A kind : InForce(c, kind) \ {} = InForce(c, kind)
      OBVIOUS
    <3> QED
      BY <3>2, <3>3, <3>4
  <2>2. /\ invoices[c].status = "sent" /\ invoices[c].entry = req[p].link /\ invoices[c].paid = 0
    BY <1>3, <2>1 DEF Knows
  <2>3. /\ invoices'[c].status = "cancelled" /\ invoices'[c].paid = 0
    <3>1. invoices' = [invoices EXCEPT ![c].status = "cancelled"] =>
            invoices'[c].status = "cancelled" /\ invoices'[c].paid = invoices[c].paid
      BY <1>2, FieldWritten
    <3> QED
      BY <1>3, <2>2, <3>1
  <2>4. Due(c) /\ ~Due(c)'
    BY <2>2, <2>3 DEF Due
  <2>5. Unsettled(p)' = {req[p].link}
    BY <1>4 DEF Unsettled
  <2>6. /\ Standing(c, "issue")' = InForce(c, "issue") \ {req[p].link}
        /\ Standing(c, "payment")' = InForce(c, "payment") \ {req[p].link}
    BY <1>1, <1>4, <1>6, <2>1, <2>5, OwnStands
  <2>7. Standing(c, "issue")' = {}
    BY <2>1, <2>2, <2>4, <2>6 DEF Settled
  <2>8. Standing(c, "payment")' = Standing(c, "payment")
    BY <1>2, <2>1, <2>6 DEF InForce, Issued, Of
  <2>9. SumFunctionOnSet(EntryAmounts, Standing(c, "payment"))' = 0
    <3>1. EntryAmounts' = EntryAmounts
      BY <1>3 DEF EntryAmounts
    <3> QED
      BY <2>1, <2>2, <2>8, <3>1 DEF Settled
  <2>10. Settled(c)'
    BY <2>3, <2>4, <2>7, <2>9 DEF Settled
  <2>11. Knows(p, c)'
    BY <1>4 DEF Knows
  <2> QED
    BY <2>3, <2>10, <2>11 DEF OwnKept
<1> QED
  BY <1>1, <1>2, <1>3, <1>4, <1>6, <1>7, BooksStep

\* The other changes of status: a document that is due stays due.
LEMMA SetStatusBooks ==
  ASSUME InvoicingInv, BooksInv, NEW p \in Requests, SetStatus(p)
  PROVE  BooksInv'
<1>1. PICK c : c = req[p].doc
  OBVIOUS
<1>2. c \in Docs /\ Step(p) /\ RequestsOK
  BY <1>1, Tables DEF SetStatus, At, RequestOK, Step, Moving
<1>3. /\ UNCHANGED <<journal, disturbed>> /\ Unsettled(p) = {} /\ req[p].pc = "set_status"
      /\ invoices' = [invoices EXCEPT ![c].status = req[p].to]
  BY <1>1 DEF SetStatus, At, Unsettled
<1>4. /\ invoices'[c].status = req[p].to /\ invoices'[c].total = invoices[c].total
      /\ invoices'[c].paid = invoices[c].paid /\ invoices'[c].entry = invoices[c].entry
  BY <1>2, <1>3, FieldWritten
<1>5. c \notin disturbed =>
        /\ req[p].from = invoices[c].status /\ req[p].link = invoices[c].entry
        /\ <<req[p].from, req[p].to>> \in Moves
        /\ req[p].to = "cancelled" => invoices[c].paid = 0
        /\ invoices[c].status = "draft" => invoices[c].entry = 0
        /\ invoices[c].status \in {"draft", "cancelled"} => invoices[c].paid = 0
  BY <1>1, <1>2, <1>3, OwnFacts DEF Knows
<1>6. CASE req[p].link # 0 /\ req[p].from = "sent" /\ req[p].to = "cancelled"
  BY <1>6, CancelBooks
<1>7. CASE req[p].link # 0 /\ req[p].from = "cancelled" /\ req[p].to = "draft"
  <2>1. Goto(p, "clear_link", Nothing)
    BY <1>7 DEF SetStatus
  <2>2. /\ \A q \in Requests \ {p} : req'[q] = req[q]
        /\ req'[p].pc = "clear_link" /\ req'[p].doc = c
    BY <1>1, <1>2, <2>1, GotoEffect DEF Nothing
  <2>3. Unsettled(p)' = {} /\ ReversingOwn(p)'
    BY <2>2 DEF Unsettled, ReversingOwn
  <2>4. c \notin disturbed =>
          /\ ~Due(c) /\ ~Due(c)' /\ Knows(p, c)'
          /\ invoices'[c].paid = 0
    BY <1>4, <1>5, <1>7, <2>2 DEF Due, Knows
  <2>5. req'[p].pc = "clear_link" /\ req'[p].doc = c
    BY <2>2
  <2>6. c \notin disturbed =>
          /\ Due(c)' = Due(c)
          /\ Due(c) => /\ invoices'[c].total = invoices[c].total
                       /\ invoices'[c].paid = invoices[c].paid
                       /\ invoices'[c].entry = invoices[c].entry
    BY <1>4, <2>4 DEF Due
  <2> QED
    BY <1>1, <1>2, <1>3, <2>2, <2>3, <2>4, <2>5, <2>6, QuietBooks
<1>8. CASE ~(req[p].link # 0 /\ req[p].from = "sent" /\ req[p].to = "cancelled")
           /\ ~(req[p].link # 0 /\ req[p].from = "cancelled" /\ req[p].to = "draft")
  <2>1. Finish(p)
    BY <1>8 DEF SetStatus
  <2>2. c \notin disturbed =>
          /\ Due(c)' = Due(c)
          /\ invoices'[c].status \in {"draft", "cancelled"} => invoices'[c].paid = 0
          /\ invoices'[c].status = "draft" => invoices'[c].entry = 0
    BY <1>4, <1>5, <1>8 DEF Due, Moves
  <2> QED
    BY <1>1, <1>2, <1>3, <1>4, <2>1, <2>2, Ended, QuietBooks
<1> QED
  BY <1>6, <1>7, <1>8

\* The removal of a reopened document's link.
LEMMA ClearLinkBooks ==
  ASSUME InvoicingInv, BooksInv, NEW p \in Requests, ClearLink(p)
  PROVE  BooksInv'
<1>1. PICK c : c = req[p].doc
  OBVIOUS
<1>2. c \in Docs /\ Step(p)
  BY <1>1, Tables DEF ClearLink, At, RequestOK, Step, Moving
<1>3. /\ UNCHANGED <<journal, disturbed>> /\ Unsettled(p) = {} /\ req[p].pc = "clear_link"
      /\ invoices' = [invoices EXCEPT ![c].entry = 0] /\ Finish(p)
  BY <1>1 DEF ClearLink, At, Unsettled
<1>4. /\ invoices'[c].status = invoices[c].status
      /\ invoices'[c].paid = invoices[c].paid /\ invoices'[c].entry = 0
  BY <1>2, <1>3, FieldWritten
<1>5. c \notin disturbed => ~Due(c) /\ ~Due(c)'
  <2>1. c \notin disturbed => invoices[c].status = "draft"
    BY <1>1, <1>2, <1>3, OwnFacts DEF Knows
  <2> QED
    BY <1>4, <2>1 DEF Due
<1>6. c \notin disturbed =>
        /\ Due(c)' = Due(c)
        /\ Due(c) => /\ invoices'[c].total = invoices[c].total
                     /\ invoices'[c].paid = invoices[c].paid
                     /\ invoices'[c].entry = invoices[c].entry
        /\ invoices'[c].status \in {"draft", "cancelled"} => invoices'[c].paid = 0
  BY <1>1, <1>2, <1>4, <1>5, OwnFacts DEF Due
<1>7. /\ \A q \in Requests \ {p} : req'[q] = req[q]
      /\ req'[p] = Idle /\ req'[p].doc # c /\ Unsettled(p)' = {} /\ ReversingOwn(p)'
  BY <1>2, <1>3, Ended
<1> QED
  BY <1>1, <1>2, <1>3, <1>4, <1>6, <1>7, QuietBooks


\* A draft is sent: it has no link, and none of its entries is in force.
LEMMA IssueBooks ==
  ASSUME InvoicingInv, BooksInv, NEW p \in Requests, Issue(p)
  PROVE  BooksInv'
<1>1. PICK c : c = req[p].doc
  OBVIOUS
<1>2. c \in Docs /\ Step(p) /\ RequestsOK
  BY <1>1, Tables DEF Issue, At, RequestOK, Step, Issuing
<1>3. /\ UNCHANGED <<journal, disturbed>> /\ Unsettled(p) = {} /\ req[p].pc = "issue"
      /\ invoices' = [invoices EXCEPT ![c].status = "sent"]
  BY <1>1 DEF Issue, At, Unsettled
<1>4. /\ invoices'[c].status = "sent" /\ invoices'[c].total = invoices[c].total
      /\ invoices'[c].paid = invoices[c].paid /\ invoices'[c].entry = invoices[c].entry
  BY <1>2, <1>3, FieldWritten
<1>5. c \notin disturbed => invoices[c].entry = 0 /\ invoices[c].paid = 0
  <2> SUFFICES ASSUME c \notin disturbed
               PROVE  invoices[c].entry = 0 /\ invoices[c].paid = 0
    OBVIOUS
  <2>1. /\ Knows(p, c)
        /\ invoices[c].status = "draft" => invoices[c].entry = 0 \/ req[p].pc = "clear_link"
        /\ invoices[c].status \in {"draft", "cancelled"} => invoices[c].paid = 0
    BY <1>1, <1>2, OwnFacts
  <2>2. invoices[c].status = "draft"
    BY <1>3, <2>1 DEF Knows
  <2> QED
    BY <1>3, <2>1, <2>2
<1>6. c \notin disturbed =>
        /\ Due(c)' = Due(c)
        /\ Due(c) => /\ invoices'[c].total = invoices[c].total
                     /\ invoices'[c].paid = invoices[c].paid
                     /\ invoices'[c].entry = invoices[c].entry
        /\ invoices'[c].status \in {"draft", "cancelled"} => invoices'[c].paid = 0
        /\ invoices'[c].status = "draft" => invoices'[c].entry = 0
  <2>1. c \notin disturbed => ~Due(c) /\ ~Due(c)'
    BY <1>4, <1>5 DEF Due
  <2>2. c \notin disturbed => Due(c)' = Due(c)
    BY <1>4, <1>5 DEF Due
  <2> QED
    BY <1>4, <1>5, <2>1, <2>2
<1>7. CASE Finish(p)
  BY <1>1, <1>2, <1>3, <1>6, <1>7, Ended, QuietBooks
<1>8. CASE Goto(p, "issue_link", Nothing)
  <2>1. /\ \A q \in Requests \ {p} : req'[q] = req[q]
        /\ req'[p].pc = "issue_link" /\ req'[p].doc = c
    BY <1>1, <1>2, <1>8, GotoEffect DEF Nothing
  <2>2. /\ Unsettled(p)' = {} /\ ReversingOwn(p)'
        /\ c \notin disturbed => Knows(p, c)'
    BY <1>4, <1>5, <2>1 DEF Unsettled, ReversingOwn, Knows
  <2> QED
    BY <1>1, <1>2, <1>3, <1>6, <2>1, <2>2, QuietBooks
<1> QED
  BY <1>7, <1>8 DEF Issue

\* A request that reads a document and goes on, or ends.
LEMMA ReadBooks ==
  ASSUME InvoicingInv, BooksInv, NEW p \in Requests, Step(p), NEW c \in Docs, c = req[p].doc,
         UNCHANGED <<invoices, journal, disturbed>>,
         Unsettled(p) \cap Entries = {}, req[p].pc # "clear_link",
         \/ Finish(p)
         \/ /\ \A q \in Requests \ {p} : req'[q] = req[q]
            /\ req'[p].doc = c /\ Unsettled(p)' \cap Entries = {} /\ ReversingOwn(p)'
            /\ c \notin disturbed => Knows(p, c)'
  PROVE  BooksInv'
<1>1. c \notin disturbed =>
        /\ Due(c)' = Due(c)
        /\ invoices'[c].status \in {"draft", "cancelled"} => invoices'[c].paid = 0
        /\ invoices'[c].status = "draft" => invoices'[c].entry = 0
  BY OwnFacts DEF Due
<1>2. CASE Finish(p)
  <2>1. /\ \A q \in Requests \ {p} : req'[q] = req[q]
        /\ req'[p] = Idle /\ req'[p].doc # c /\ Unsettled(p)' = {} /\ ReversingOwn(p)'
    BY <1>2, Ended
  <2> QED
    BY <1>1, <2>1, QuietBooks
<1>3. CASE ~Finish(p)
  BY <1>1, <1>3, QuietBooks
<1> QED
  BY <1>2, <1>3

\* The checks before the entry of an issue.
LEMMA IssueCheckBooks ==
  ASSUME InvoicingInv, BooksInv, NEW p \in Requests, IssueCheck(p) \/ IssueAmounts(p)
  PROVE  BooksInv'
<1>1. PICK c : c = req[p].doc
  OBVIOUS
<1>2. c \in Docs /\ Step(p) /\ RequestsOK
  BY <1>1, Tables DEF IssueCheck, IssueAmounts, At, RequestOK, Step, Issuing
<1>3. /\ UNCHANGED <<invoices, journal, disturbed>> /\ Unsettled(p) = {}
      /\ req[p].pc \in {"issue_link", "issue_amounts"}
  BY DEF IssueCheck, IssueAmounts, At, Unsettled
<1>4. c \notin disturbed => invoices[c].status = "sent" /\ invoices[c].entry = 0 /\ invoices[c].paid = 0
  BY <1>1, <1>2, <1>3, OwnFacts DEF Knows
<1>5. CASE Finish(p)
  BY <1>1, <1>2, <1>3, <1>5, ReadBooks
<1>6. CASE Goto(p, "issue_amounts", Nothing)
  <2>1. /\ \A q \in Requests \ {p} : req'[q] = req[q]
        /\ req'[p].pc = "issue_amounts" /\ req'[p].doc = c
    BY <1>1, <1>2, <1>6, GotoEffect DEF Nothing
  <2>2. /\ Unsettled(p)' = {} /\ ReversingOwn(p)'
        /\ c \notin disturbed => Knows(p, c)'
    BY <1>3, <1>4, <2>1 DEF Unsettled, ReversingOwn, Knows
  <2> QED
    BY <1>1, <1>2, <1>3, <2>1, <2>2, ReadBooks
<1>7. CASE Goto(p, "issue_create", [amount |-> invoices[c].total])
  <2>1. /\ \A q \in Requests \ {p} : req'[q] = req[q]
        /\ req'[p].pc = "issue_create" /\ req'[p].doc = c /\ req'[p].amount = invoices[c].total
    BY <1>1, <1>2, <1>7, GotoEffect
  <2>2. /\ Unsettled(p)' = {} /\ ReversingOwn(p)'
        /\ c \notin disturbed => Knows(p, c)'
    BY <1>3, <1>4, <2>1 DEF Unsettled, ReversingOwn, Knows
  <2> QED
    BY <1>1, <1>2, <1>3, <2>1, <2>2, ReadBooks
<1> QED
  BY <1>1, <1>5, <1>6, <1>7 DEF IssueCheck, IssueAmounts

\* The mutex taken, and the document read: one without an entry of issue has
\* none of payment either.
LEMMA PayReadBooks ==
  ASSUME InvoicingInv, BooksInv, NEW p \in Requests, PayLock(p) \/ PayLoad(p)
  PROVE  BooksInv'
<1>1. PICK c : c = req[p].doc
  OBVIOUS
<1>2. c \in Docs /\ Step(p) /\ RequestsOK /\ 0 \notin Entries
  BY <1>1, Tables DEF PayLock, PayLoad, At, RequestOK, Step, Paying
<1>3. /\ UNCHANGED <<invoices, journal, disturbed>> /\ Unsettled(p) = {}
      /\ req[p].pc \in {"pay_lock", "pay_load"}
  BY DEF PayLock, PayLoad, At, Unsettled
<1>4. CASE Finish(p)
  BY <1>1, <1>2, <1>3, <1>4, ReadBooks
<1>5. CASE Goto(p, "pay_load", Keep(p, {"amount"}))
  <2>1. /\ \A q \in Requests \ {p} : req'[q] = req[q]
        /\ req'[p].pc = "pay_load" /\ req'[p].doc = c
    BY <1>1, <1>2, <1>5, GotoEffect DEF Keep
  <2>2. Unsettled(p)' = {} /\ ReversingOwn(p)' /\ Knows(p, c)'
    BY <2>1 DEF Unsettled, ReversingOwn, Knows
  <2> QED
    BY <1>1, <1>2, <1>3, <2>1, <2>2, ReadBooks
<1>6. ASSUME invoices[c].status = "sent", NEW kept,
             kept = [amount |-> req[p].amount, total |-> invoices[c].total,
                     paid |-> invoices[c].paid, new |-> 0],
             Goto(p, IF invoices[c].entry = 0 THEN "pay_store" ELSE "pay_create", kept)
      PROVE  BooksInv'
  <2>1. /\ DOMAIN kept = {"amount", "total", "paid", "new"} /\ kept["new"] = 0
    BY <1>6
  <2>2. /\ \A q \in Requests \ {p} : req'[q] = req[q]
        /\ req'[p].pc = IF invoices[c].entry = 0 THEN "pay_store" ELSE "pay_create"
        /\ req'[p].doc = c /\ req'[p].new = 0
    BY <1>1, <1>2, <1>6, <2>1, GotoEffect
  <2>3. Unsettled(p)' \cap Entries = {} /\ ReversingOwn(p)' /\ Knows(p, c)'
    BY <1>2, <1>3, <1>6, <2>2 DEF Unsettled, ReversingOwn, Knows
  <2> QED
    BY <1>1, <1>2, <1>3, <2>2, <2>3, ReadBooks
<1> QED
  BY <1>1, <1>4, <1>5, <1>6 DEF PayLock, PayLoad

\* A payment that could not be stored: its entry is to be reversed instead.
LEMMA StoreFailsBooks ==
  ASSUME InvoicingInv, BooksInv, NEW p \in Requests, StoreFails(p)
  PROVE  BooksInv'
<1>1. PICK c : c = req[p].doc
  OBVIOUS
<1>2. c \in Docs /\ Step(p) /\ RequestsOK /\ Paid(req[p].new, c, req[p].amount)
  BY <1>1, Tables DEF StoreFails, At, RequestOK, Step, Paying
<1>3. /\ UNCHANGED <<invoices, journal, disturbed>> /\ Unsettled(p) = {req[p].new}
      /\ req[p].pc = "pay_store" /\ Goto(p, "reverse_create", [link |-> req[p].new])
  BY DEF StoreFails, At, Unsettled
<1>4. /\ \A q \in Requests \ {p} : req'[q] = req[q]
      /\ req'[p].pc = "reverse_create" /\ req'[p].doc = c /\ req'[p].link = req[p].new
  BY <1>1, <1>2, <1>3, GotoEffect
<1>5. Unsettled(p)' = {req[p].new} /\ ReversingOwn(p)' /\ Knows(p, c)'
  BY <1>2, <1>3, <1>4 DEF Unsettled, ReversingOwn, Knows, Paid, Of
<1>6. c \notin disturbed =>
        /\ Due(c)' = Due(c)
        /\ invoices'[c].status \in {"draft", "cancelled"} => invoices'[c].paid = 0
        /\ invoices'[c].status = "draft" => invoices'[c].entry = 0
  BY <1>1, <1>2, <1>3, OwnFacts DEF Due
<1> QED
  BY <1>1, <1>2, <1>3, <1>4, <1>5, <1>6, QuietBooks


\* The link comes last: the entry of issue, in force until then without its
\* document, is now the one it names.
LEMMA IssueLinkBooks ==
  ASSUME InvoicingInv, BooksInv, NEW p \in Requests, IssueLink(p)
  PROVE  BooksInv'
<1>1. PICK c : c = req[p].doc
  OBVIOUS
<1>2. PICK e : e = req[p].new
  OBVIOUS
<1>3. c \in Docs /\ Step(p) /\ Issued(e, c) /\ 0 \notin Entries
  BY <1>1, <1>2, Tables DEF IssueLink, At, RequestOK, Step, Issuing
<1>4. /\ UNCHANGED <<journal, disturbed>> /\ Unsettled(p) = {e} /\ req[p].pc = "issue_set_link"
      /\ invoices' = [invoices EXCEPT ![c].entry = e] /\ Finish(p)
  BY <1>1, <1>2 DEF IssueLink, At, Unsettled
<1>5. /\ invoices'[c].status = invoices[c].status /\ invoices'[c].total = invoices[c].total
      /\ invoices'[c].paid = invoices[c].paid /\ invoices'[c].entry = e
  BY <1>3, <1>4, FieldWritten
<1>6. /\ \A q \in Requests \ {p} : req'[q] = req[q]
      /\ req'[p] = Idle /\ req'[p].doc # c /\ Unsettled(p)' = {} /\ ReversingOwn(p)'
  BY <1>3, <1>4, Ended
<1>7. /\ OnlyOf(c) /\ ReversalsOK'
      /\ \A d, kind : InForce(d, kind)' = InForce(d, kind)
  BY <1>4, <1>6, QuietJournal DEF BooksInv
<1>8. ASSUME c \notin disturbed
      PROVE  OwnKept(p, c)
  <2>1. /\ c # 0 /\ Alone(c) /\ Settled(c) /\ Knows(p, c)
        /\ \A kind : Standing(c, kind) = InForce(c, kind) \ {e}
    BY <1>1, <1>3, <1>4, <1>8, OwnFacts
  <2>2. /\ invoices[c].status = "sent" /\ invoices[c].entry = 0 /\ invoices[c].paid = 0
        /\ journal[e].amount = invoices[c].total /\ e \in InForce(c, "issue")
    BY <1>2, <1>4, <2>1 DEF Knows
  <2>3. ~Due(c) /\ Due(c)'
    BY <1>3, <1>5, <2>2 DEF Due, Issued, Of
  <2>4. /\ Standing(c, "issue")' = InForce(c, "issue")
        /\ Standing(c, "payment")' = InForce(c, "payment")
    <3>1. /\ Standing(c, "issue")' = InForce(c, "issue")' \ Unsettled(p)'
          /\ Standing(c, "payment")' = InForce(c, "payment")' \ Unsettled(p)'
      BY <1>1, <1>6, <2>1, OwnStands
    <3> QED
      BY <1>6, <1>7, <3>1
  <2>5. Standing(c, "issue")' = {e}
    BY <2>1, <2>2, <2>3, <2>4 DEF Settled
  <2>6. Standing(c, "payment")' = Standing(c, "payment")
    BY <1>3, <2>1, <2>4 DEF InForce, Issued, Of
  <2>7. SumFunctionOnSet(EntryAmounts, Standing(c, "payment"))' = 0
    <3>1. EntryAmounts' = EntryAmounts
      BY <1>4 DEF EntryAmounts
    <3> QED
      BY <2>1, <2>3, <2>6, <3>1 DEF Settled
  <2>8. Settled(c)'
    BY <1>4, <1>5, <2>2, <2>3, <2>5, <2>7 DEF Settled
  <2> QED
    BY <1>5, <1>6, <2>2, <2>8 DEF OwnKept
<1>9. req'[p].doc \in {0, c} /\ req'[p].pc # "clear_link"
  BY <1>6 DEF Idle
<1> QED
  BY <1>1, <1>3, <1>4, <1>6, <1>7, <1>8, <1>9, BooksStep

\* The row a payment leaves.
LEMMA PaidRow ==
  ASSUME InvoicingInv, NEW p \in Requests, PayStore(p), NEW c \in Docs, c = req[p].doc
  PROVE  /\ invoices'[c].status \in {"paid", "sent"}
         /\ invoices'[c].total = invoices[c].total /\ invoices'[c].entry = invoices[c].entry
         /\ invoices'[c].paid = invoices[c].paid + req[p].amount
<1>1. PICK paid, st : /\ invoices' = [invoices EXCEPT ![c].paid = paid, ![c].status = st]
                      /\ st \in {"paid", "sent"}
  BY DEF PayStore
<1>2. PICK row : row = invoices[c]
  OBVIOUS
<1>3. row \in Document /\ c \in DOMAIN invoices
  BY <1>2, Tables DEF Docs
<1>4. invoices'[c] = [row EXCEPT !.paid = paid, !.status = st]
  BY <1>1, <1>2, <1>3 DEF Document
<1>5. invoices'[c].status = st /\ invoices'[c].total = row.total
  BY <1>3, <1>4 DEF Document
<1>6. /\ invoices'[c].entry = invoices[c].entry
      /\ invoices'[c].paid = invoices[c].paid + req[p].amount
  BY PayStoreEffect
<1> QED
  BY <1>1, <1>2, <1>5, <1>6

\* A payment stored: its entry, in force until then without its payment, is
\* one more of the entries that add up to what was paid.
LEMMA PayStoreBooks ==
  ASSUME InvoicingInv, BooksInv, NEW p \in Requests, PayStore(p)
  PROVE  BooksInv'
<1>1. PICK c : c = req[p].doc
  OBVIOUS
<1>2. PICK e : e = req[p].new
  OBVIOUS
<1>3. /\ c \in Docs /\ Step(p) /\ 0 \notin Entries
      /\ e = 0 \/ Paid(e, c, req[p].amount)
  BY <1>1, <1>2, Tables DEF PayStore, At, RequestOK, Step, Paying
<1>4. /\ UNCHANGED <<journal, disturbed>> /\ Unsettled(p) = {e} /\ req[p].pc = "pay_store" /\ Finish(p)
  BY <1>1, <1>2 DEF PayStore, At, Unsettled
<1>5. /\ invoices'[c].status \in {"paid", "sent"}
      /\ invoices'[c].total = invoices[c].total /\ invoices'[c].entry = invoices[c].entry
      /\ invoices'[c].paid = invoices[c].paid + req[p].amount
  BY <1>1, <1>3, PaidRow
<1>6. /\ \A q \in Requests \ {p} : req'[q] = req[q]
      /\ req'[p] = Idle /\ req'[p].doc # c /\ Unsettled(p)' = {} /\ ReversingOwn(p)'
  BY <1>3, <1>4, Ended
<1>7. /\ OnlyOf(c) /\ ReversalsOK'
      /\ \A d, kind : InForce(d, kind)' = InForce(d, kind)
  BY <1>4, <1>6, QuietJournal DEF BooksInv
<1>8. ASSUME c \notin disturbed
      PROVE  OwnKept(p, c)
  <2>1. /\ c # 0 /\ Alone(c) /\ Settled(c) /\ Knows(p, c)
        /\ \A kind : Standing(c, kind) = InForce(c, kind) \ {e}
    BY <1>1, <1>3, <1>4, <1>8, OwnFacts
  <2>2. /\ invoices[c].status = "sent"
        /\ IF invoices[c].entry = 0 THEN e = 0 ELSE e \in InForce(c, "payment")
    BY <1>2, <1>4, <2>1 DEF Knows
  <2>3. /\ Standing(c, "issue")' = InForce(c, "issue")
        /\ Standing(c, "payment")' = InForce(c, "payment")
    <3>1. /\ Standing(c, "issue")' = InForce(c, "issue")' \ Unsettled(p)'
          /\ Standing(c, "payment")' = InForce(c, "payment")' \ Unsettled(p)'
      BY <1>1, <1>6, <2>1, OwnStands
    <3> QED
      BY <1>6, <1>7, <3>1
  <2>4. Standing(c, "issue")' = Standing(c, "issue")
    BY <1>3, <2>1, <2>3 DEF InForce, Paid, Of, Entries
  <2>5. EntryAmounts' = EntryAmounts
    BY <1>4 DEF EntryAmounts
  <2>6. CASE invoices[c].entry = 0
    <3>1. ~Due(c) /\ ~Due(c)'
      BY <1>5, <2>6 DEF Due
    <3>2. e = 0
      BY <2>2, <2>6
    <3>3. InForce(c, "payment") \ {0} = InForce(c, "payment")
      <4>1. InForce(c, "payment") \subseteq Entries
        BY DEF InForce, Entries
      <4>2. 0 \notin Entries
        BY <1>3
      <4> QED
        BY <4>1, <4>2
    <3>4. Standing(c, "payment") = InForce(c, "payment") \ {e}
      BY <2>1
    <3>5. Standing(c, "payment")' = InForce(c, "payment")
      BY <2>3
    <3>6. Standing(c, "payment")' = Standing(c, "payment")
      BY <3>2, <3>3, <3>4, <3>5
    <3> QED
      BY <1>5, <1>6, <2>1, <2>4, <2>5, <3>1, <3>6 DEF OwnKept, Settled
  <2>7. CASE invoices[c].entry # 0
    <3>1. Due(c) /\ Due(c)'
      BY <1>5, <2>2, <2>7 DEF Due
    <3>2. /\ e \in InForce(c, "payment") /\ e \in Entries
          /\ journal[e].amount = req[p].amount
      BY <1>3, <2>2, <2>7 DEF InForce, Paid, Entries
    <3>3. PICK S, f : S = Standing(c, "payment") /\ f = EntryAmounts
      OBVIOUS
    <3>4. S = InForce(c, "payment") \ {e} /\ S \cup {e} = InForce(c, "payment") /\ e \notin S
      BY <2>1, <3>2, <3>3
    <3>5. IsFiniteSet(S) /\ (\A x \in S \cup {e} : f[x] \in Int) /\ f[e] = req[p].amount
      <4>1. S \cup {e} \in SUBSET Entries /\ S \in SUBSET Entries
        BY <3>2, <3>4 DEF InForce, Entries
      <4>2. JournalGrows
        BY <1>7 DEF OnlyOf
      <4>3. IsFiniteSet(S)
        BY <4>1, <4>2, SameAmounts
      <4>4. \A x \in S \cup {e} : EntryAmounts[x] \in Int
        BY <4>1, <4>2, SameAmounts
      <4>5. EntryAmounts[e] = journal[e].amount
        BY <3>2 DEF EntryAmounts, Entries
      <4> QED
        BY <3>2, <3>3, <4>3, <4>4, <4>5
    <3>6. SumFunctionOnSet(f, S \cup {e}) = f[e] + SumFunctionOnSet(f, S)
      BY <3>4, <3>5, SumAdds
    <3>7. SumFunctionOnSet(f, S) = invoices[c].paid
      BY <2>1, <3>1, <3>3 DEF Settled
    <3>8. req[p].amount \in Nat /\ invoices[c].paid \in Nat
      <4>1. invoices[c] \in Document
        BY <1>3, Tables
      <4>2. RequestOK(p)
        BY Tables
      <4> QED
        BY <1>4, <4>1, <4>2 DEF Document, RequestOK
    <3>9. SumFunctionOnSet(f, S \cup {e}) = invoices'[c].paid
      BY <1>5, <3>5, <3>6, <3>7, <3>8
    <3>10. SumFunctionOnSet(EntryAmounts, Standing(c, "payment"))' = invoices'[c].paid
      BY <2>3, <2>5, <3>3, <3>4, <3>9
    <3>11. Settled(c)'
      BY <1>4, <1>5, <2>1, <2>4, <3>1, <3>10 DEF Settled
    <3> QED
      BY <1>5, <1>6, <3>11 DEF OwnKept
  <2> QED
    BY <2>6, <2>7
<1>9. req'[p].doc \in {0, c} /\ req'[p].pc # "clear_link"
  BY <1>6 DEF Idle
<1> QED
  BY <1>1, <1>3, <1>4, <1>6, <1>7, <1>8, <1>9, BooksStep


\* Reversals stay those of entries of their own document.
LEMMA ReversalsStay ==
  ASSUME InvoicingInv, ReversalsOK, JournalGrows, NEW p \in Requests,
         \A q \in Requests \ {p} : req'[q] = req[q],
         ReversingOwn(p)',
         \A x \in Entries' :
           \/ journal'[x].reverses = 0
           \/ x \in Entries /\ journal'[x].reverses = journal[x].reverses
           \/ /\ journal'[x].kind = "reversal"
              /\ journal'[journal'[x].reverses].doc = journal'[x].doc
  PROVE  ReversalsOK'
<1>1. \A x \in Entries : journal[x].reverses # 0 => journal[x].reverses \in Entries
  <2>1. \A x \in Entries : journal[x].reverses \in 0 .. Len(journal)
    <3>1. \A x \in Entries : journal[x] \in JournalEntry
      BY Tables
    <3> QED
      BY <3>1 DEF JournalEntry
  <2> QED
    BY <2>1, Tables
<1>2. ASSUME NEW x \in Entries'
      PROVE  ReversesOwn(x)'
  <2>1. CASE x \in Entries /\ journal'[x].reverses = journal[x].reverses
    BY <1>1, <2>1 DEF ReversalsOK, ReversesOwn, JournalGrows
  <2>2. CASE ~(x \in Entries /\ journal'[x].reverses = journal[x].reverses)
    BY <1>2, <2>2 DEF ReversesOwn
  <2> QED
    BY <2>1, <2>2
<1>3. ASSUME NEW q \in Requests, q # p
      PROVE  ReversingOwn(q)'
  <2>1. /\ req'[q] = req[q] /\ ReversingOwn(q)
        /\ req[q].pc \in {"reverse_create", "reverse_flag"} => req[q].link \in Entries
    BY <1>3, Tables DEF ReversalsOK, RequestOK
  <2> QED
    BY <2>1 DEF ReversingOwn, Of, JournalGrows
<1> QED
  BY <1>2, <1>3 DEF ReversalsOK

\* What a step that writes the journal alone has to show.
LEMMA JournalBooks ==
  ASSUME InvoicingInv, BooksInv, NEW p \in Requests, Step(p), NEW c \in Docs, c = req[p].doc,
         UNCHANGED <<invoices, disturbed>>,
         \A q \in Requests \ {p} : req'[q] = req[q],
         req'[p] = Idle \/ req'[p].doc = c,
         req[p].pc # "clear_link", req'[p].pc # "clear_link",
         OnlyOf(c), ReversalsOK',
         c \notin disturbed =>
           /\ InForce(c, "issue")' \ Unsettled(p)' = InForce(c, "issue") \ Unsettled(p)
           /\ InForce(c, "payment")' \ Unsettled(p)' = InForce(c, "payment") \ Unsettled(p)
           /\ req'[p].doc = c => Knows(p, c)'
  PROVE  BooksInv'
<1>1. ASSUME c \notin disturbed
      PROVE  OwnKept(p, c)
  <2>1. /\ c # 0 /\ Alone(c) /\ Settled(c)
        /\ \A kind : Standing(c, kind) = InForce(c, kind) \ Unsettled(p)
        /\ invoices[c].status = "draft" => invoices[c].entry = 0
        /\ invoices[c].status \in {"draft", "cancelled"} => invoices[c].paid = 0
    BY <1>1, OwnFacts
  <2>2. /\ Standing(c, "issue")' = InForce(c, "issue")' \ Unsettled(p)'
        /\ Standing(c, "payment")' = InForce(c, "payment")' \ Unsettled(p)'
    BY <2>1, OwnStands
  <2>3. /\ Standing(c, "issue")' = Standing(c, "issue")
        /\ Standing(c, "payment")' = Standing(c, "payment")
    BY <1>1, <2>1, <2>2
  <2>4. Due(c)' = Due(c)
    BY DEF Due
  <2>5. Settled(c)'
    BY <2>1, <2>3, <2>4, StaysSettled DEF OnlyOf
  <2> QED
    BY <1>1, <2>1, <2>5 DEF OwnKept
<1>2. req'[p].doc \in {0, c}
  BY DEF Idle
<1> QED
  BY <1>1, <1>2, BooksStep

\* A draft added to the journal.
LEMMA AddedEntry ==
  ASSUME InvoicingInv, NEW entry, entry.status = "draft", entry.reverses = 0,
         journal' = Append(journal, entry), NEW e, e = Len(journal) + 1
  PROVE  /\ Entries' = Entries \cup {e} /\ e \notin Entries
         /\ \A x \in Entries : journal'[x] = journal[x]
         /\ journal'[e] = entry
         /\ \A c : entry.doc = c => OnlyOf(c)
         /\ ~Posted(e)' /\ ~Reversed(e)'
         /\ \A d, kind : InForce(d, kind)' = InForce(d, kind)
<1>1. /\ Entries' = Entries \cup {e} /\ e \notin Entries
      /\ \A x \in Entries : journal'[x] = journal[x]
      /\ journal'[e] = entry
  BY Tables DEF Entries
<1>2. \A x \in Entries : journal[x].reverses # e
  <2>1. \A x \in Entries : journal[x] \in JournalEntry
    BY Tables
  <2>2. \A x \in Entries : journal[x].reverses \in 0 .. Len(journal)
    BY <2>1 DEF JournalEntry
  <2> QED
    BY <2>2, Tables
<1>3. ASSUME NEW x, x \in Entries'
      PROVE  Reversed(x)' <=> Reversed(x)
  <2>1. x # 0
    BY <1>1, <1>3, Tables
  <2> QED
    BY <1>1, <2>1 DEF Reversed, Posted, Entries
<1>4. ~Posted(e)' /\ ~Reversed(e)'
  <2>1. ~Reversed(e)
    BY <1>2 DEF Reversed, Entries
  <2> QED
    BY <1>1, <1>3, <2>1 DEF Posted
<1>5. ASSUME NEW d, NEW kind
      PROVE  InForce(d, kind)' = InForce(d, kind)
  <2>1. ASSUME NEW x, x \in Entries
        PROVE  x \in InForce(d, kind)' <=> x \in InForce(d, kind)
    BY <1>1, <1>3, <2>1 DEF InForce, Posted, Entries
  <2>2. e \notin InForce(d, kind)' /\ e \notin InForce(d, kind)
    BY <1>1, <1>4 DEF InForce, Entries
  <2>3. InForce(d, kind)' \subseteq Entries' /\ InForce(d, kind) \subseteq Entries
    BY DEF InForce, Entries
  <2> QED
    BY <1>1, <2>1, <2>2, <2>3
<1>6. ASSUME NEW c, entry.doc = c
      PROVE  OnlyOf(c)
  <2>1. JournalGrows
    BY <1>1 DEF JournalGrows
  <2> QED
    BY <1>1, <1>3, <1>6, <2>1 DEF OnlyOf
<1> QED
  BY <1>1, <1>4, <1>5, <1>6

\* What a step that creates an entry has to show.
LEMMA CreateBooks ==
  ASSUME InvoicingInv, BooksInv, NEW p \in Requests, Step(p), NEW c \in Docs, c = req[p].doc,
         UNCHANGED <<invoices, disturbed>>,
         NEW entry, entry.doc = c, entry.status = "draft", entry.reverses = 0,
         journal' = Append(journal, entry),
         \A q \in Requests \ {p} : req'[q] = req[q],
         req'[p].doc = c, req[p].pc # "clear_link", req'[p].pc # "clear_link",
         ReversingOwn(p)', Unsettled(p)' = Unsettled(p),
         c \notin disturbed => Knows(p, c)'
  PROVE  BooksInv'
<1>1. PICK e : e = Len(journal) + 1
  OBVIOUS
<1>2. /\ Entries' = Entries \cup {e}
      /\ \A x \in Entries : journal'[x] = journal[x]
      /\ journal'[e] = entry
      /\ OnlyOf(c)
      /\ \A d, kind : InForce(d, kind)' = InForce(d, kind)
  <2>1. /\ Entries' = Entries \cup {e}
        /\ \A x \in Entries : journal'[x] = journal[x]
        /\ journal'[e] = entry
    BY <1>1, AddedEntry
  <2>2. OnlyOf(c)
    BY <1>1, AddedEntry
  <2>3. \A d, kind : InForce(d, kind)' = InForce(d, kind)
    BY <1>1, AddedEntry
  <2> QED
    BY <2>1, <2>2, <2>3
<1>3. ReversalsOK'
  <2>1. \A x \in Entries' :
          journal'[x].reverses = 0 \/ (x \in Entries /\ journal'[x].reverses = journal[x].reverses)
    BY <1>2
  <2> QED
    BY <1>2, <2>1, ReversalsStay DEF OnlyOf, BooksInv
<1> QED
  BY <1>2, <1>3, JournalBooks

\* The entry of an issue, of a payment and of a reversal.
LEMMA CreatesBooks ==
  ASSUME InvoicingInv, BooksInv, NEW p \in Requests, IssueCreate(p) \/ PayCreate(p) \/ ReverseCreate(p)
  PROVE  BooksInv'
<1>1. PICK c : c = req[p].doc
  OBVIOUS
<1>2. PICK e : e = Len(journal) + 1
  OBVIOUS
<1>3. c \in Docs /\ Step(p) /\ RequestsOK
  BY <1>1, Tables DEF IssueCreate, PayCreate, ReverseCreate, At, RequestOK, Step, Issuing, Paying,
       Reversing
<1>4. ASSUME NEW kind, NEW amount, NEW pc, NEW kept, {"pc", "doc", "new"} \cap DOMAIN kept = {},
             CreateEntry(p, Draft(kind, c, amount), pc, kept)
      PROVE  /\ UNCHANGED <<invoices, disturbed>>
             /\ Draft(kind, c, amount).doc = c /\ Draft(kind, c, amount).status = "draft"
             /\ Draft(kind, c, amount).reverses = 0 /\ Draft(kind, c, amount).kind = kind
             /\ Draft(kind, c, amount).amount = amount
             /\ journal' = Append(journal, Draft(kind, c, amount))
             /\ \A q \in Requests \ {p} : req'[q] = req[q]
             /\ req'[p].doc = c /\ req'[p].pc = pc /\ req'[p].new = e
             /\ \A f \in DOMAIN kept : req'[p][f] = kept[f]
             /\ Entries' = Entries \cup {e} /\ journal'[e] = Draft(kind, c, amount)
             /\ \A x \in Entries : journal'[x] = journal[x]
             /\ ~Posted(e)' /\ ~Reversed(e)'
  <2> DEFINE entry == Draft(kind, c, amount)
             all == With(kept, "new", e)
  <2>1. entry.doc = c /\ entry.status = "draft" /\ entry.reverses = 0 /\ entry.kind = kind
        /\ entry.amount = amount
    BY DEF Draft
  <2>2. /\ journal' = Append(journal, entry) /\ Goto(p, pc, all)
        /\ UNCHANGED <<invoices, disturbed>>
    BY <1>2, <1>4 DEF CreateEntry
  <2>3. /\ DOMAIN all = DOMAIN kept \cup {"new"} /\ all["new"] = e
        /\ \A f \in DOMAIN kept : all[f] = kept[f]
    BY <1>4 DEF With
  <2> HIDE DEF entry, all
  <2>4. {"pc", "doc"} \cap DOMAIN all = {}
    BY <1>4, <2>3
  <2>5. /\ \A q \in Requests \ {p} : req'[q] = req[q]
        /\ req'[p].pc = pc /\ req'[p].doc = c
        /\ \A f \in DOMAIN all : req'[p][f] = all[f]
    BY <1>1, <1>3, <2>2, <2>4, GotoEffect
  <2>6. /\ Entries' = Entries \cup {e} /\ journal'[e] = entry
        /\ \A x \in Entries : journal'[x] = journal[x]
        /\ ~Posted(e)' /\ ~Reversed(e)'
    BY <1>2, <2>1, <2>2, AddedEntry
  <2> QED
    BY <2>1, <2>2, <2>3, <2>5, <2>6 DEF entry
<1>5. c \notin disturbed => Knows(p, c)
  BY <1>1, <1>3, OwnFacts
<1>6. CASE IssueCreate(p)
  <2>1. /\ req[p].pc = "issue_create"
        /\ CreateEntry(p, Draft("issue", c, req[p].amount), "issue_post", Nothing)
        /\ {"pc", "doc", "new"} \cap DOMAIN Nothing = {}
    BY <1>1, <1>6 DEF IssueCreate, At, Nothing
  <2>2. PICK entry : entry = Draft("issue", c, req[p].amount)
    OBVIOUS
  <2>3. /\ UNCHANGED <<invoices, disturbed>>
        /\ entry.doc = c /\ entry.status = "draft" /\ entry.reverses = 0
        /\ entry.amount = req[p].amount /\ journal' = Append(journal, entry)
        /\ \A q \in Requests \ {p} : req'[q] = req[q]
        /\ req'[p].doc = c /\ req'[p].pc = "issue_post" /\ req'[p].new = e
        /\ journal'[e] = entry /\ ~Posted(e)' /\ ~Reversed(e)'
    BY <1>4, <2>1, <2>2
  <2>4. ReversingOwn(p)' /\ Unsettled(p)' = Unsettled(p)
    BY <2>1, <2>3 DEF ReversingOwn, Unsettled
  <2>5. ~Posted(req[p].new)' /\ ~Reversed(req[p].new)'
    BY <2>3 DEF Posted, Reversed
  <2>6. c \notin disturbed => Knows(p, c)'
    BY <1>5, <2>1, <2>3, <2>5 DEF Knows
  <2> QED
    BY <1>1, <1>3, <2>1, <2>3, <2>4, <2>6, CreateBooks
<1>7. CASE PayCreate(p)
  <2> DEFINE kept == Keep(p, {"amount", "total", "paid"})
  <2>1. /\ req[p].pc = "pay_create"
        /\ CreateEntry(p, Draft("payment", c, req[p].amount), "pay_post", kept)
        /\ {"pc", "doc", "new"} \cap DOMAIN kept = {}
    BY <1>1, <1>7 DEF PayCreate, At, Keep
  <2> HIDE DEF kept
  <2>2. PICK entry : entry = Draft("payment", c, req[p].amount)
    OBVIOUS
  <2>3. /\ UNCHANGED <<invoices, disturbed>>
        /\ entry.doc = c /\ entry.status = "draft" /\ entry.reverses = 0
        /\ journal' = Append(journal, entry)
        /\ \A q \in Requests \ {p} : req'[q] = req[q]
        /\ req'[p].doc = c /\ req'[p].pc = "pay_post" /\ req'[p].new = e
        /\ ~Posted(e)' /\ ~Reversed(e)'
    BY <1>4, <2>1, <2>2
  <2>4. ReversingOwn(p)' /\ Unsettled(p)' = Unsettled(p)
    BY <2>1, <2>3 DEF ReversingOwn, Unsettled
  <2>5. ~Posted(req[p].new)' /\ ~Reversed(req[p].new)'
    BY <2>3 DEF Posted, Reversed
  <2>6. c \notin disturbed => Knows(p, c)'
    BY <1>5, <2>1, <2>3, <2>5 DEF Knows
  <2> QED
    BY <1>1, <1>3, <2>1, <2>3, <2>4, <2>6, CreateBooks
<1>8. CASE ReverseCreate(p)
  <2> DEFINE kept == Keep(p, {"link"})
  <2>1. /\ req[p].pc = "reverse_create"
        /\ CreateEntry(p, Draft("reversal", c, journal[req[p].link].amount), "reverse_flag", kept)
        /\ {"pc", "doc", "new"} \cap DOMAIN kept = {}
        /\ DOMAIN kept = {"link"} /\ kept["link"] = req[p].link
    BY <1>1, <1>8 DEF ReverseCreate, At, Keep
  <2> HIDE DEF kept
  <2>2. PICK entry : entry = Draft("reversal", c, journal[req[p].link].amount)
    OBVIOUS
  <2>3. /\ UNCHANGED <<invoices, disturbed>>
        /\ entry.doc = c /\ entry.status = "draft" /\ entry.reverses = 0 /\ entry.kind = "reversal"
        /\ journal' = Append(journal, entry)
        /\ \A q \in Requests \ {p} : req'[q] = req[q]
        /\ req'[p].doc = c /\ req'[p].pc = "reverse_flag" /\ req'[p].new = e
        /\ \A f \in DOMAIN kept : req'[p][f] = kept[f]
        /\ Entries' = Entries \cup {e} /\ journal'[e] = entry
        /\ \A x \in Entries : journal'[x] = journal[x]
        /\ ~Posted(e)'
    BY <1>4, <2>1, <2>2
  <2>4. req'[p].link = req[p].link
    BY <2>1, <2>3
  <2>5. req[p].link \in Entries /\ journal[req[p].link].doc = c
    BY <1>1, <2>1, Tables DEF RequestOK, BooksInv, ReversalsOK, ReversingOwn
  <2>6. ReversingOwn(p)' /\ Unsettled(p)' = Unsettled(p)
    BY <2>1, <2>3, <2>4, <2>5 DEF ReversingOwn, Unsettled, Of
  <2>7. ~Posted(req[p].new)'
    BY <2>3 DEF Posted
  <2>8. Knows(p, c)'
    BY <2>3, <2>7 DEF Knows
  <2> QED
    BY <1>1, <1>3, <2>1, <2>3, <2>6, <2>8, CreateBooks
<1> QED
  BY <1>6, <1>7, <1>8


\* An entry posted: what it reverses is no longer in force.
LEMMA PostedEntry ==
  ASSUME InvoicingInv, NEW n \in Entries, ReversesOwn(n), UNCHANGED invoices,
         journal' = [journal EXCEPT ![n].status = "posted"]
  PROVE  /\ Entries' = Entries
         /\ \A x \in Entries :
              /\ journal'[x].kind = journal[x].kind /\ journal'[x].doc = journal[x].doc
              /\ journal'[x].amount = journal[x].amount
              /\ journal'[x].reverses = journal[x].reverses
              /\ Posted(x)' <=> (Posted(x) \/ x = n)
              /\ Reversed(x)' <=> (Reversed(x) \/ x = journal[n].reverses)
         /\ \A c : journal[n].doc = c => OnlyOf(c)
<1> DEFINE row == [journal[n] EXCEPT !.status = "posted"]
<1>1. journal[n] \in JournalEntry
  BY Tables
<1>2. /\ row \in JournalEntry /\ row.kind = journal[n].kind /\ row.doc = journal[n].doc
      /\ row.amount = journal[n].amount /\ row.status = "posted"
      /\ row.reverses = journal[n].reverses
  BY <1>1 DEF JournalEntry
<1>3. journal' = [journal EXCEPT ![n] = row]
  OBVIOUS
<1> HIDE DEF row
<1>4. /\ JournalGrows /\ Entries' = Entries /\ journal'[n] = row
      /\ \A x \in Entries \ {n} : journal'[x] = journal[x]
  BY <1>2, <1>3, EntryWritten
<1>5. ASSUME NEW x \in Entries
      PROVE  /\ journal'[x].kind = journal[x].kind /\ journal'[x].doc = journal[x].doc
             /\ journal'[x].amount = journal[x].amount
             /\ journal'[x].reverses = journal[x].reverses
             /\ Posted(x)' <=> (Posted(x) \/ x = n)
  BY <1>2, <1>4 DEF Posted
<1>6. ASSUME NEW x \in Entries
      PROVE  Reversed(x)' <=> (Reversed(x) \/ x = journal[n].reverses)
  <2>1. \A f \in Entries : journal'[f].reverses = journal[f].reverses
                           /\ (journal'[f].status = "posted" <=> journal[f].status = "posted" \/ f = n)
    BY <1>5 DEF Posted
  <2> QED
    BY <1>4, <2>1 DEF Reversed, Posted, Entries
<1>7. ASSUME NEW c, journal[n].doc = c
      PROVE  OnlyOf(c)
  <2>1. ASSUME NEW x \in Entries, journal[x].doc # c
        PROVE  journal'[x] = journal[x] /\ (Reversed(x)' <=> Reversed(x))
    <3>1. x # n
      BY <1>7, <2>1
    <3>2. x # journal[n].reverses
      <4>1. 0 \notin Entries
        BY Tables
      <4> QED
        BY <1>7, <2>1, <4>1 DEF ReversesOwn
    <3> QED
      BY <1>4, <1>6, <3>1, <3>2
  <2> QED
    BY <1>4, <2>1 DEF OnlyOf
<1> QED
  BY <1>4, <1>5, <1>6, <1>7

\* The posting of an issue or of a payment: the entry is in force, and its
\* document has to follow.
LEMMA PostsBooks ==
  ASSUME InvoicingInv, BooksInv, NEW p \in Requests, IssuePost(p) \/ PayPost(p)
  PROVE  BooksInv'
<1>1. PICK c : c = req[p].doc
  OBVIOUS
<1>2. PICK n : n = req[p].new
  OBVIOUS
<1>3. PICK kind \in {"issue", "payment"} : (kind = "issue" /\ IssuePost(p)) \/ (kind = "payment" /\ PayPost(p))
  OBVIOUS
<1>4. /\ c \in Docs /\ Step(p) /\ RequestsOK /\ Of(n, kind, c)
      /\ req[p].pc = IF kind = "issue" THEN "issue_post" ELSE "pay_post"
  BY <1>1, <1>2, <1>3, Tables DEF IssuePost, PayPost, At, RequestOK, Step, Issuing, Paying
<1>5. /\ journal' = [journal EXCEPT ![n].status = "posted"]
      /\ UNCHANGED <<invoices, disturbed>>
  BY <1>2, <1>3 DEF IssuePost, PayPost, PostEntry
<1>6. /\ \A q \in Requests \ {p} : req'[q] = req[q]
      /\ req'[p].pc = IF kind = "issue" THEN "issue_set_link" ELSE "pay_store"
      /\ req'[p].doc = c /\ req'[p].new = n
  <2>1. CASE kind = "issue"
    <3> DEFINE kept == Keep(p, {"new"})
    <3>1. Goto(p, "issue_set_link", kept) /\ DOMAIN kept = {"new"} /\ kept["new"] = n
      BY <1>2, <1>3, <2>1 DEF IssuePost, PostEntry, Keep
    <3> HIDE DEF kept
    <3> QED
      BY <1>1, <1>4, <2>1, <3>1, GotoEffect
  <2>2. CASE kind = "payment"
    <3> DEFINE kept == Keep(p, {"amount", "total", "paid", "new"})
    <3>1. /\ Goto(p, "pay_store", kept) /\ DOMAIN kept = {"amount", "total", "paid", "new"}
          /\ kept["new"] = n
      BY <1>2, <1>3, <2>2 DEF PayPost, PostEntry, Keep
    <3> HIDE DEF kept
    <3> QED
      BY <1>1, <1>4, <2>2, <3>1, GotoEffect
  <2> QED
    BY <2>1, <2>2
<1>7. n \in Entries /\ journal[n].doc = c /\ ReversesOwn(n) /\ journal[n].reverses = 0
      /\ journal[n].kind = kind
  <2>1. n \in Entries /\ journal[n].doc = c /\ journal[n].kind = kind
    BY <1>4 DEF Of
  <2>2. ReversesOwn(n)
    BY <2>1 DEF BooksInv, ReversalsOK
  <2> QED
    BY <1>3, <2>1, <2>2 DEF ReversesOwn
<1>8. /\ Entries' = Entries
      /\ \A x \in Entries :
           /\ journal'[x].kind = journal[x].kind /\ journal'[x].doc = journal[x].doc
           /\ journal'[x].amount = journal[x].amount
           /\ journal'[x].reverses = journal[x].reverses
           /\ Posted(x)' <=> (Posted(x) \/ x = n)
           /\ Reversed(x)' <=> (Reversed(x) \/ x = journal[n].reverses)
      /\ OnlyOf(c)
  BY <1>5, <1>7, PostedEntry
<1>9. 0 \notin Entries
  BY Tables
<1>10. ReversalsOK'
  <2>1. ReversingOwn(p)'
    BY <1>3, <1>6 DEF ReversingOwn
  <2> QED
    BY <1>6, <1>8, <2>1, ReversalsStay DEF OnlyOf, BooksInv
<1>11. ASSUME c \notin disturbed
       PROVE  /\ InForce(c, "issue")' \ {n} = InForce(c, "issue")
              /\ InForce(c, "payment")' \ {n} = InForce(c, "payment")
              /\ Knows(p, c)'
  <2>1. Knows(p, c)
    BY <1>1, <1>4, <1>11, OwnFacts
  <2>2. ~Posted(n) /\ ~Reversed(n)
    BY <1>2, <1>3, <1>4, <2>1 DEF Knows
  <2>3. ASSUME NEW k
        PROVE  InForce(c, k)' \ {n} = InForce(c, k)
    <3>1. ASSUME NEW x \in Entries
          PROVE  x \in InForce(c, k)' \ {n} <=> x \in InForce(c, k)
      BY <1>7, <1>8, <1>9, <2>2 DEF InForce, Entries
    <3>2. InForce(c, k)' \subseteq Entries' /\ InForce(c, k) \subseteq Entries
      BY DEF InForce, Entries
    <3> QED
      BY <1>8, <3>1, <3>2
  <2>4. n \in InForce(c, kind)'
    BY <1>7, <1>8, <1>9, <2>2 DEF InForce, Entries
  <2>5. Knows(p, c)'
    <3>1. CASE kind = "issue"
      BY <1>2, <1>4, <1>5, <1>6, <1>7, <1>8, <2>1, <2>4, <3>1 DEF Knows
    <3>2. CASE kind = "payment"
      BY <1>2, <1>4, <1>5, <1>6, <1>7, <1>8, <2>1, <2>4, <3>2 DEF Knows
    <3> QED
      BY <1>3, <3>1, <3>2
  <2> QED
    BY <2>3, <2>5
<1>12. Unsettled(p) = {} /\ Unsettled(p)' = {n}
  BY <1>3, <1>4, <1>6 DEF Unsettled
<1>13. c \notin disturbed =>
         /\ InForce(c, "issue")' \ Unsettled(p)' = InForce(c, "issue") \ Unsettled(p)
         /\ InForce(c, "payment")' \ Unsettled(p)' = InForce(c, "payment") \ Unsettled(p)
         /\ req'[p].doc = c => Knows(p, c)'
  BY <1>11, <1>12
<1>14. req[p].pc # "clear_link" /\ req'[p].pc # "clear_link"
  BY <1>4, <1>6
<1> QED
  BY <1>1, <1>4, <1>5, <1>6, <1>8, <1>10, <1>13, <1>14, JournalBooks

\* The mark of a reversal, not posted yet: what it reverses is still in force.
LEMMA ReverseFlagBooks ==
  ASSUME InvoicingInv, BooksInv, NEW p \in Requests, ReverseFlag(p)
  PROVE  BooksInv'
<1>1. PICK c : c = req[p].doc
  OBVIOUS
<1>2. PICK n, r : n = req[p].new /\ r = req[p].link
  OBVIOUS
<1>3. /\ c \in Docs /\ Step(p) /\ RequestsOK /\ req[p].pc = "reverse_flag"
      /\ n \in Entries /\ r \in Entries
  BY <1>1, <1>2, Tables DEF ReverseFlag, At, RequestOK, Step, Reversing
<1>4. journal[n].kind = "reversal" /\ journal[n].doc = c /\ journal[r].doc = c
  BY <1>1, <1>2, <1>3 DEF BooksInv, ReversalsOK, ReversingOwn, Of
<1>5. /\ journal' = [journal EXCEPT ![n].reverses = r]
      /\ Goto(p, "reverse_post", Keep(p, {"new"}))
      /\ UNCHANGED <<invoices, disturbed>>
  BY <1>2 DEF ReverseFlag
<1>6. /\ \A q \in Requests \ {p} : req'[q] = req[q]
      /\ req'[p].pc = "reverse_post" /\ req'[p].doc = c /\ req'[p].new = n
  BY <1>1, <1>2, <1>3, <1>5, GotoEffect DEF Keep
<1> DEFINE row == [journal[n] EXCEPT !.reverses = r]
<1>7. journal[n] \in JournalEntry /\ r \in 0 .. Len(journal)
  BY <1>3, Tables
<1>8. /\ row \in JournalEntry /\ row.kind = journal[n].kind /\ row.doc = journal[n].doc
      /\ row.amount = journal[n].amount /\ row.status = journal[n].status
      /\ row.reverses = r
  BY <1>7 DEF JournalEntry
<1>9. journal' = [journal EXCEPT ![n] = row]
  BY <1>5
<1> HIDE DEF row
<1>10. /\ JournalGrows /\ Entries' = Entries /\ journal'[n] = row
       /\ \A x \in Entries \ {n} : journal'[x] = journal[x]
  <2>1. Posted(n) => row.status = "posted"
    BY <1>8 DEF Posted
  <2>2. UNCHANGED invoices
    BY <1>5
  <2> QED
    BY <1>3, <1>8, <1>9, <2>1, <2>2, EntryWritten
<1>11. ASSUME NEW x \in Entries, x # r, x # journal[n].reverses \/ ~Posted(n)
       PROVE  Reversed(x)' <=> Reversed(x)
  <2>1. \A f \in Entries : /\ journal'[f].status = journal[f].status
                           /\ f # n => journal'[f].reverses = journal[f].reverses
    BY <1>8, <1>10
  <2>2. journal'[n].reverses = r
    BY <1>8, <1>10
  <2> QED
    BY <1>3, <1>10, <1>11, <2>1, <2>2 DEF Reversed, Posted, Entries
<1>12. 0 \notin Entries /\ ReversesOwn(n)
  BY <1>3, Tables DEF BooksInv, ReversalsOK
<1>13. OnlyOf(c)
  <2>1. ASSUME NEW x \in Entries, journal[x].doc # c
        PROVE  journal'[x] = journal[x] /\ (Reversed(x)' <=> Reversed(x))
    <3>1. x # n /\ x # r
      BY <1>4, <2>1
    <3>2. x # journal[n].reverses
      BY <1>4, <1>12, <2>1 DEF ReversesOwn
    <3> QED
      BY <1>10, <1>11, <3>1, <3>2
  <2> QED
    BY <1>10, <2>1 DEF OnlyOf
<1>14. ReversalsOK'
  <2>1. ReversingOwn(p)'
    BY <1>3, <1>4, <1>6, <1>8, <1>10 DEF ReversingOwn, Of
  <2>2. \A x \in Entries' :
          \/ x \in Entries /\ journal'[x].reverses = journal[x].reverses
          \/ /\ journal'[x].kind = "reversal"
             /\ journal'[journal'[x].reverses].doc = journal'[x].doc
    BY <1>3, <1>4, <1>8, <1>10 DEF JournalGrows
  <2> QED
    BY <1>6, <1>10, <2>1, <2>2, ReversalsStay DEF BooksInv
<1>15. Unsettled(p) = {r} /\ Unsettled(p)' = {r}
  BY <1>2, <1>3, <1>6, <1>8, <1>10 DEF Unsettled
<1>16. ASSUME c \notin disturbed, NEW k \in {"issue", "payment"}
       PROVE  InForce(c, k)' \ {r} = InForce(c, k) \ {r}
  <2>1. ~Posted(n)
    BY <1>1, <1>2, <1>3, <1>16, OwnFacts DEF Knows
  <2>2. ASSUME NEW x \in Entries, x # r
        PROVE  x \in InForce(c, k)' <=> x \in InForce(c, k)
    <3>1. Reversed(x)' <=> Reversed(x)
      BY <1>11, <2>1, <2>2
    <3>2. CASE x = n
      BY <1>4, <1>8, <1>10, <1>16, <3>2 DEF InForce
    <3>3. CASE x # n
      BY <1>10, <3>1, <3>3 DEF InForce, Posted, Entries
    <3> QED
      BY <3>2, <3>3
  <2>3. InForce(c, k)' \subseteq Entries' /\ InForce(c, k) \subseteq Entries
    BY DEF InForce, Entries
  <2> QED
    BY <1>10, <2>2, <2>3
<1>17. Knows(p, c)'
  BY <1>6 DEF Knows
<1>18. c \notin disturbed =>
         /\ InForce(c, "issue")' \ Unsettled(p)' = InForce(c, "issue") \ Unsettled(p)
         /\ InForce(c, "payment")' \ Unsettled(p)' = InForce(c, "payment") \ Unsettled(p)
  BY <1>15, <1>16
<1> QED
  BY <1>1, <1>3, <1>5, <1>6, <1>13, <1>14, <1>17, <1>18, JournalBooks

\* The posting of a reversal: the entry the request had still to reverse is no
\* longer in force.
LEMMA ReversePostBooks ==
  ASSUME InvoicingInv, BooksInv, NEW p \in Requests, ReversePost(p)
  PROVE  BooksInv'
<1>1. PICK c : c = req[p].doc
  OBVIOUS
<1>2. PICK n : n = req[p].new
  OBVIOUS
<1>3. /\ c \in Docs /\ Step(p) /\ req[p].pc = "reverse_post" /\ n \in Entries
  BY <1>1, <1>2, Tables DEF ReversePost, At, RequestOK, Step, Reversing
<1>4. journal[n].kind = "reversal" /\ journal[n].doc = c /\ ReversesOwn(n)
  BY <1>1, <1>2, <1>3 DEF BooksInv, ReversalsOK, ReversingOwn, Of
<1>5. /\ journal' = [journal EXCEPT ![n].status = "posted"]
      /\ Finish(p) /\ UNCHANGED <<invoices, disturbed>>
  BY <1>2 DEF ReversePost, PostEntry
<1>6. /\ \A q \in Requests \ {p} : req'[q] = req[q]
      /\ req'[p] = Idle /\ req'[p].doc # c /\ Unsettled(p)' = {} /\ ReversingOwn(p)'
      /\ req'[p].pc # "clear_link"
  BY <1>3, <1>5, Ended DEF Idle
<1>7. /\ Entries' = Entries
      /\ \A x \in Entries :
           /\ journal'[x].kind = journal[x].kind /\ journal'[x].doc = journal[x].doc
           /\ journal'[x].reverses = journal[x].reverses
           /\ Posted(x)' <=> (Posted(x) \/ x = n)
           /\ Reversed(x)' <=> (Reversed(x) \/ x = journal[n].reverses)
      /\ OnlyOf(c)
  BY <1>3, <1>4, <1>5, PostedEntry
<1>8. ReversalsOK'
  BY <1>6, <1>7, ReversalsStay DEF OnlyOf, BooksInv
<1>9. PICK r : r = journal[n].reverses
  OBVIOUS
<1>10. Unsettled(p) = {r}
  BY <1>2, <1>3, <1>9 DEF Unsettled
<1>11. ASSUME NEW k \in {"issue", "payment"}
       PROVE  InForce(c, k)' = InForce(c, k) \ {r}
  <2>1. ASSUME NEW x \in Entries
        PROVE  x \in InForce(c, k)' <=> x \in InForce(c, k) \ {r}
    <3>1. CASE x = n
      BY <1>4, <1>7, <1>11, <3>1 DEF InForce
    <3>2. CASE x # n
      BY <1>7, <1>9, <3>2 DEF InForce, Entries
    <3> QED
      BY <3>1, <3>2
  <2>2. InForce(c, k)' \subseteq Entries' /\ InForce(c, k) \subseteq Entries
    BY DEF InForce, Entries
  <2> QED
    BY <1>7, <2>1, <2>2
<1>12. /\ InForce(c, "issue")' \ Unsettled(p)' = InForce(c, "issue") \ Unsettled(p)
       /\ InForce(c, "payment")' \ Unsettled(p)' = InForce(c, "payment") \ Unsettled(p)
  <2>1. \A S : S \ {} = S
    OBVIOUS
  <2> QED
    BY <1>6, <1>10, <1>11, <2>1
<1> QED
  BY <1>1, <1>3, <1>5, <1>6, <1>7, <1>8, <1>12, JournalBooks


\* An error, wherever it comes: its document is disturbed.
LEMMA AbandonBooks ==
  ASSUME InvoicingInv, BooksInv, NEW p \in Requests, Abandon(p)
  PROVE  BooksInv'
<1>1. PICK c : c = req[p].doc
  OBVIOUS
<1>2. c \in Docs /\ Step(p)
  BY <1>1, Tables DEF Abandon, RequestOK, Step
<1>3. /\ UNCHANGED journal /\ Finish(p)
      /\ disturbed \subseteq disturbed' /\ c \in disturbed'
  BY <1>1 DEF Abandon
<1>4. /\ \A q \in Requests \ {p} : req'[q] = req[q]
      /\ req'[p] = Idle /\ ReversingOwn(p)'
  BY <1>2, <1>3, Ended
<1>5. OnlyOf(c) /\ ReversalsOK'
  BY <1>3, <1>4, QuietJournal DEF BooksInv
<1>6. req'[p].doc \in {0, c} /\ req'[p].pc # "clear_link"
  BY <1>4 DEF Idle
<1> QED
  BY <1>1, <1>2, <1>3, <1>4, <1>5, <1>6, BooksStep

\* A request that begins on a document nobody is at work on.
LEMMA BeginBooks ==
  ASSUME InvoicingInv, BooksInv, NEW p \in Requests, NEW d \in Docs, NEW r, Begin(p, d, r),
         UNCHANGED <<invoices, journal>>,
         r.doc = d, r.pc \in {"update_check", "pay_lock", "settle", "issue", "set_status"},
         (invoices[d].status \in {"draft", "cancelled"} => invoices[d].paid = 0) => Knows(p, d)'
  PROVE  BooksInv'
<1>1. /\ \A q \in Requests \ {p} : req'[q] = req[q]
      /\ req'[p] = r /\ req[p] = Idle
      /\ disturbed \subseteq disturbed'
      /\ d \notin disturbed' => \A q \in Requests : req[q].doc # d
  BY Tables, BeginEffect DEF Begin
<1>2. ReversingOwn(p)' /\ Unsettled(p)' = {}
  BY <1>1 DEF ReversingOwn, Unsettled
<1>3. OnlyOf(d) /\ ReversalsOK' /\ \A x, kind : InForce(x, kind)' = InForce(x, kind)
  BY <1>1, <1>2, QuietJournal DEF BooksInv
<1>4. Docs' = Docs
  BY DEF Docs
<1>5. ASSUME NEW x \in Docs, x \notin disturbed', x # d
      PROVE  DocumentOK(x)'
  <2>1. DocumentOK(x) /\ ReversalsOK
    BY <1>1, <1>5 DEF BooksInv
  <2>2. req[p].doc \in {0, d} /\ req'[p].doc \in {0, d}
    BY <1>1 DEF Idle
  <2> QED
    BY <1>1, <1>3, <1>5, <2>1, <2>2, OtherDocument
<1>6. ASSUME d \notin disturbed'
      PROVE  DocumentOK(d)'
  <2>1. DocumentOK(d)
    BY <1>1, <1>6 DEF BooksInv
  <2>2. \A q \in Requests : req'[q].doc = d <=> q = p
    BY <1>1, <1>6
  <2>3. WorkingOn(d) = {} /\ WorkingOn(d)' = {p}
    BY <1>1, <1>6, <2>2 DEF WorkingOn
  <2>4. /\ Standing(d, "issue")' = Standing(d, "issue")
        /\ Standing(d, "payment")' = Standing(d, "payment")
    BY <1>2, <1>3, <2>3 DEF Standing
  <2>5. Due(d)' = Due(d)
    BY DEF Due
  <2>6. Settled(d)
    BY <2>1 DEF DocumentOK
  <2>7. invoices[d].status \in {"draft", "cancelled"} => invoices[d].paid = 0
    BY <2>6 DEF Settled
  <2>8. Settled(d)'
    BY <1>3, <2>4, <2>5, <2>6, <2>7, StaysSettled DEF OnlyOf
  <2>9. Alone(d)'
    BY <2>2 DEF Alone
  <2>10. DraftUnlinked(d)'
    BY <1>1, <1>6, <2>1 DEF DocumentOK, DraftUnlinked
  <2>11. \A q \in Requests : req'[q].doc = d => Knows(q, d)'
    BY <2>2, <2>7
  <2> QED
    BY <2>8, <2>9, <2>10, <2>11 DEF DocumentOK
<1> QED
  BY <1>3, <1>4, <1>5, <1>6 DEF BooksInv

\* Every arrival: the state machine holds what the request has read.
LEMMA ArrivalBooks ==
  ASSUME InvoicingInv, BooksInv, NEW p \in Requests, Arrival(p)
  PROVE  BooksInv'
<1>1. PICK d \in Docs :
        \/ \E total \in Amounts : UpdateLoad(p, d, total)
        \/ \E to \in DOMAIN validTransitions : TransitionLoad(p, d, to)
        \/ \E amount \in Amounts : CreatePayment(p, d, amount)
  BY DEF Arrival
<1>2. RequestsOK
  BY Tables
<1>3. ASSUME NEW total \in Amounts, UpdateLoad(p, d, total)
      PROVE  BooksInv'
  <2> DEFINE r == [pc |-> "update_check", doc |-> d, total |-> total]
  <2>1. Begin(p, d, r) /\ UNCHANGED <<invoices, journal>> /\ invoices[d].status = "draft"
    BY <1>3 DEF UpdateLoad
  <2>2. r.doc = d /\ r.pc = "update_check"
    OBVIOUS
  <2> HIDE DEF r
  <2>3. req'[p] = r
    BY <1>2, <2>1, BeginEffect
  <2>4. Knows(p, d)'
    BY <2>1, <2>2, <2>3 DEF Knows
  <2> QED
    BY <2>1, <2>2, <2>4, BeginBooks
<1>4. ASSUME NEW amount \in Amounts, CreatePayment(p, d, amount)
      PROVE  BooksInv'
  <2> DEFINE r == [pc |-> "pay_lock", doc |-> d, amount |-> amount]
  <2>1. Begin(p, d, r) /\ UNCHANGED <<invoices, journal>>
    BY <1>4 DEF CreatePayment
  <2>2. r.doc = d /\ r.pc = "pay_lock"
    OBVIOUS
  <2> HIDE DEF r
  <2>3. req'[p] = r
    BY <1>2, <2>1, BeginEffect
  <2>4. Knows(p, d)'
    BY <2>2, <2>3 DEF Knows
  <2> QED
    BY <2>1, <2>2, <2>4, BeginBooks
<1>5. ASSUME NEW to \in DOMAIN validTransitions, TransitionLoad(p, d, to)
      PROVE  BooksInv'
  <2>1. PICK st : st = invoices[d].status
    OBVIOUS
  <2>2. PICK pc : pc = CASE st = "sent" /\ to = "paid"  -> "settle"
                         [] st = "draft" /\ to = "sent" -> "issue"
                         [] OTHER                       -> "set_status"
    OBVIOUS
  <2> DEFINE r == [pc |-> pc, doc |-> d, from |-> st, to |-> to, link |-> invoices[d].entry]
  <2>3. Begin(p, d, r) /\ UNCHANGED <<invoices, journal>>
    BY <1>5, <2>1, <2>2 DEF TransitionLoad
  <2>4. /\ r.doc = d /\ r.pc = pc /\ r.from = st /\ r.to = to /\ r.link = invoices[d].entry
    OBVIOUS
  <2> HIDE DEF r
  <2>5. req'[p] = r
    BY <1>2, <2>3, BeginEffect
  <2>6. invoices[d] \in Document
    BY Tables
  <2>7. st \in DOMAIN validTransitions /\ invoices[d].paid \in Nat
    BY <2>1, <2>6 DEF Document
  <2>8. /\ to \in transitionsFor(invoices[d].type)[st]
        /\ ~(st = "sent" /\ to = "cancelled" /\ invoices[d].paid > 0)
    BY <1>5, <2>1 DEF TransitionLoad
  <2>9. <<st, to>> \in Moves \cup {<<"draft", "sent">>}
    BY <2>7, <2>8 DEF transitionsFor, validTransitions, quoteTransitions, Moves
  <2>10. /\ pc \in {"settle", "issue", "set_status"}
         /\ pc = "settle" => st = "sent" /\ to = "paid"
         /\ pc = "issue" => st = "draft" /\ to = "sent"
         /\ pc = "set_status" => <<st, to>> \in Moves
    BY <2>2, <2>9
  <2>11. ASSUME invoices[d].status \in {"draft", "cancelled"} => invoices[d].paid = 0
         PROVE  Knows(p, d)'
    <3>1. to = "cancelled" => invoices[d].paid = 0
      BY <2>1, <2>7, <2>8, <2>9, <2>11 DEF Moves
    <3> QED
      BY <2>1, <2>3, <2>4, <2>5, <2>10, <3>1 DEF Knows
  <2> QED
    BY <2>3, <2>4, <2>10, <2>11, BeginBooks
<1> QED
  BY <1>1, <1>3, <1>4, <1>5

\* A document whose row keeps what the books depend on, while no request moves.
LEMMA SameDocument ==
  ASSUME InvoicingInv, NEW d \in Docs, UNCHANGED <<journal, req>>, RowKept(d), DocumentOK(d)
  PROVE  DocumentOK(d)'
<1>1. /\ \A x, kind : InForce(x, kind)' = InForce(x, kind)
      /\ \A e : (Posted(e)' <=> Posted(e)) /\ (Reversed(e)' <=> Reversed(e))
  BY DEF InForce, Posted, Reversed
<1>2. \A q \in Requests : Unsettled(q)' = Unsettled(q)
  BY DEF Unsettled
<1>3. \A kind : Standing(d, kind)' = Standing(d, kind)
  BY <1>1, <1>2 DEF Standing, WorkingOn
<1>4. Due(d)' = Due(d)
  BY DEF Due, RowKept
<1>5. JournalGrows
  BY DEF JournalGrows, Entries
<1>6. Settled(d)'
  <2>1. Settled(d) /\ (invoices[d].status \in {"draft", "cancelled"} => invoices[d].paid = 0)
    BY DEF DocumentOK, Settled
  <2> QED
    BY <1>3, <1>4, <1>5, <2>1, StaysSettled DEF RowKept
<1>7. ASSUME NEW q \in Requests, req[q].doc = d
      PROVE  Knows(q, d)'
  <2>1. Knows(q, d)
    BY <1>7 DEF DocumentOK
  <2>2. (Posted(req[q].new)' <=> Posted(req[q].new)) /\ (Reversed(req[q].new)' <=> Reversed(req[q].new))
    BY DEF Posted, Reversed
  <2> QED
    BY <1>1, <2>1, <2>2 DEF Knows, RowKept
<1>8. Alone(d)' /\ DraftUnlinked(d)'
  BY DEF DocumentOK, Alone, DraftUnlinked, RowKept
<1> QED
  BY <1>6, <1>7, <1>8 DEF DocumentOK

\* A document just created has no entry, and nobody is at work on it.
LEMMA NewDocumentBooks ==
  ASSUME InvoicingInv, NEW d, d \notin Docs, d # 0, UNCHANGED <<journal, req>>,
         invoices'[d].status = "draft", invoices'[d].paid = 0, invoices'[d].entry = 0
  PROVE  DocumentOK(d)'
<1>1. \A e \in Entries : journal[e].doc # d
  <2>1. \A e \in Entries : journal[e] \in JournalEntry
    BY Tables
  <2> QED
    BY <2>1 DEF JournalEntry
<1>2. \A q \in Requests : req[q].doc # d
  BY Tables DEF RequestOK, Idle
<1>3. \A kind : Standing(d, kind)' = {}
  BY <1>1 DEF Standing, InForce, Entries
<1>4. ~Due(d)'
  BY DEF Due
<1>5. SumFunctionOnSet(EntryAmounts, Standing(d, "payment"))' = 0
  <2>1. \A f : SumFunctionOnSet(f, {}) = 0
    BY SumUnfolds, FS_EmptySet
  <2> QED
    BY <1>3, <2>1
<1>6. Settled(d)'
  BY <1>3, <1>4, <1>5 DEF Settled
<1>7. Alone(d)' /\ DraftUnlinked(d)' /\ \A q \in Requests : req'[q].doc = d => Knows(q, d)'
  BY <1>2 DEF Alone, DraftUnlinked
<1> QED
  BY <1>6, <1>7 DEF DocumentOK

LEMMA BooksNext ==
  ASSUME InvoicingInv, BooksInv, [Next]_vars
  PROVE  BooksInv'
<1>1. ASSUME UNCHANGED <<journal, req>>
      PROVE  ReversalsOK'
  BY <1>1 DEF BooksInv, ReversalsOK, ReversesOwn, ReversingOwn, Of, Entries
<1>2. CASE OneShot
  <2>1. TableGrows
    BY <1>2, OneShotWrites
  <2>2. ReversalsOK'
    BY <1>1, <2>1 DEF TableGrows
  <2>3. ASSUME NEW d \in Docs' \ disturbed'
        PROVE  DocumentOK(d)'
    <3>1. CASE d \in Docs
      <4>1. DocumentOK(d)
        BY <2>1, <2>3, <3>1 DEF BooksInv, TableGrows
      <4> QED
        BY <2>1, <3>1, <4>1, SameDocument DEF TableGrows
    <3>2. CASE d \notin Docs
      <4>1. d # 0
        <5>1. InvoicingInv'
          BY <1>2, OneShotHolds
        <5>2. invoices' \in Seq(Document')
          BY <5>1 DEF InvoicingInv, RowsOK
        <5> QED
          BY <5>2, <2>3 DEF Docs
      <4> QED
        BY <2>1, <2>3, <3>2, <4>1, NewDocumentBooks DEF TableGrows
    <3> QED
      BY <3>1, <3>2
  <2> QED
    BY <2>2, <2>3 DEF BooksInv
<1>3. ASSUME NEW p \in Requests, Arrival(p)
      PROVE  BooksInv'
  BY <1>3, ArrivalBooks
<1>4. ASSUME NEW p \in Requests, Updating(p) \/ Issuing(p) \/ Moving(p)
      PROVE  BooksInv'
  BY <1>4, UpdatingBooks, IssueBooks, IssueCheckBooks, CreatesBooks, PostsBooks, IssueLinkBooks,
     SettleBooks, SetStatusBooks, ClearLinkBooks
     DEF Issuing, Moving
<1>5. ASSUME NEW p \in Requests, Reversing(p) \/ Paying(p) \/ Abandon(p)
      PROVE  BooksInv'
  BY <1>5, CreatesBooks, ReverseFlagBooks, ReversePostBooks, PayReadBooks, PostsBooks,
     PayStoreBooks, StoreFailsBooks, AbandonBooks
     DEF Reversing, Paying
<1>6. CASE UNCHANGED vars
  <2>1. UNCHANGED <<invoices, journal, req, disturbed>> /\ Docs' = Docs
    BY <1>6 DEF vars, Docs
  <2>2. ASSUME NEW d \in Docs' \ disturbed'
        PROVE  DocumentOK(d)'
    <3>1. DocumentOK(d) /\ RowKept(d) /\ d \in Docs
      BY <2>1, <2>2 DEF BooksInv, RowKept
    <3> QED
      BY <2>1, <3>1, SameDocument
  <2> QED
    BY <1>1, <2>1, <2>2 DEF BooksInv
<1> QED
  BY <1>2, <1>3, <1>4, <1>5, <1>6 DEF Next, Step

\* Between the requests of a document that treat it one after the other and run
\* to their end, the books agree with it: one entry of issue in force, the one
\* it names and for its total, when it is due and none otherwise, and entries
\* of payment in force that add up to what was paid.  It holds for any number
\* of other requests, on any other documents, at any of their statements.
THEOREM BooksMatchTheorem == Spec => []BooksMatchDocument
<1>1. Init => BooksInv
  BY DEF Init, BooksInv, ReversalsOK, ReversingOwn, Docs, Entries, Idle
<1>2. InvoicingInv /\ BooksInv /\ [Next]_vars => BooksInv'
  BY BooksNext
<1>3. InvoicingInv /\ BooksInv => BooksMatchDocument
  BY BooksGive
<1> QED
  BY <1>1, <1>2, <1>3, InvoicingInvariant, PTL DEF Spec
=============================================================================
