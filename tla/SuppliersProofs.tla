-------------------------- MODULE SuppliersProofs ---------------------------
(***************************************************************************)
(* What holds of supplier invoices for every set of requests, keys and     *)
(* totals, and for every bound.                                            *)
(***************************************************************************)
EXTENDS Suppliers, FiniteSetTheorems, TLAPS

-----------------------------------------------------------------------------
(* The inductive invariant *)

\* At most one request owns the entry it has created, until it is posted.
Owner(p) == req[p].pc \in {"post", "mark", "settle"}

OwnedOnce ==
  \A p, q \in Requests : Owner(p) /\ Owner(q) /\ req[p].new = req[q].new => p = q

\* What a request remembers is of its type and names rows that exist.
RequestOK(p) ==
  /\ req[p].pc = "idle" => req[p] = Idle
  /\ req[p].pc # "idle" => req[p].inv \in Invoices
  /\ At(p, "update") => /\ req[p].key \in Keys
                        /\ req[p].ref \in References
                        /\ req[p].total \in Totals
  /\ At(p, "status") => req[p].target \in supplierInvoiceStatuses
  /\ At(p, "create") => req[p].amount \in Totals
  /\ At(p, "reverse") \/ At(p, "mark") => req[p].entry \in Entries
  /\ Owner(p) \/ At(p, "link") => req[p].new \in Entries

RequestsOK ==
  /\ req = [p \in Requests |-> req[p]]
  /\ \A p \in Requests : RequestOK(p)

\* The entry a booking has created is of its invoice and no reversal, and
\* posted when the request comes to write the link; that of a reversal is a
\* draft until it has its mark.
BookingOK(p) ==
  /\ At(p, "post") \/ At(p, "link") =>
       journal[req[p].new].inv = req[p].inv /\ journal[req[p].new].reverses = 0
  /\ At(p, "link") => Posted(req[p].new)
  /\ At(p, "mark") => ~Posted(req[p].new)

SuppliersInv ==
  /\ TypeOK
  /\ RequestsOK
  /\ OwnedOnce
  /\ \A p \in Requests : BookingOK(p)
  /\ LinkPosted

-----------------------------------------------------------------------------
(* Lemmas *)

InvoiceRow ==
  [key : Keys, ref : References, total : Totals,
   status : supplierInvoiceStatuses \cup {"deleted"}, entry : 0 .. MaxEntries]

EntryRow ==
  [inv : Invoices, amount : Totals, status : {"draft", "posted"}, reverses : 0 .. MaxEntries]

\* What a request is doing after it went on.
LEMMA GotoEffect ==
  ASSUME NEW p \in Requests, RequestsOK, NEW pc, NEW kept, Goto(p, pc, kept),
         {"pc", "inv"} \cap DOMAIN kept = {}
  PROVE  /\ req' = [q \in Requests |-> req'[q]]
         /\ \A q \in Requests \ {p} : req'[q] = req[q]
         /\ req'[p].pc = pc
         /\ req'[p].inv = req[p].inv
         /\ \A f \in DOMAIN kept : req'[p][f] = kept[f]
<1> DEFINE r == With(With(kept, "pc", pc), "inv", req[p].inv)
<1>1. req' = [req EXCEPT ![p] = r] /\ DOMAIN req = Requests
  BY DEF Goto, RequestsOK
<1>2. r.pc = pc /\ r.inv = req[p].inv /\ \A f \in DOMAIN kept : r[f] = kept[f]
  BY DEF With
<1> QED
  BY <1>1, <1>2

\* The same of a request that ends.
LEMMA FinishEffect ==
  ASSUME NEW p \in Requests, RequestsOK, Finish(p)
  PROVE  /\ req' = [q \in Requests |-> req'[q]]
         /\ \A q \in Requests \ {p} : req'[q] = req[q]
         /\ req'[p] = Idle
  BY DEF Finish, RequestsOK

\* The same of a request that begins.
LEMMA BeginEffect ==
  ASSUME NEW p \in Requests, RequestsOK, NEW r, Begin(p, r)
  PROVE  /\ req' = [q \in Requests |-> req'[q]]
         /\ \A q \in Requests \ {p} : req'[q] = req[q]
         /\ req'[p] = r
  BY DEF Begin, RequestsOK

\* A step of one request that changes no posted entry, and no entry another
\* request has still to post, disturbs none of the others.
LEMMA OthersKeep ==
  ASSUME SuppliersInv, NEW p \in Requests,
         req' = [q \in Requests |-> req'[q]],
         \A q \in Requests \ {p} : req'[q] = req[q],
         Invoices \subseteq Invoices', Entries \subseteq Entries',
         RequestOK(p)', BookingOK(p)',
         \A e \in Entries : Posted(e) => journal'[e] = journal[e],
         \A q \in Requests \ {p} : Owner(q) =>
           /\ journal'[req[q].new] = journal[req[q].new]
           /\ Owner(p)' => req'[p].new # req[q].new
  PROVE  RequestsOK' /\ OwnedOnce' /\ \A q \in Requests : BookingOK(q)'
<1>1. ASSUME NEW q \in Requests \ {p}
      PROVE  RequestOK(q)' /\ BookingOK(q)' /\ Owner(q)' = Owner(q)
  <2>1. req'[q] = req[q] /\ RequestOK(q) /\ BookingOK(q)
    BY DEF SuppliersInv, RequestsOK
  <2>2. RequestOK(q)'
    BY <2>1 DEF RequestOK, At, Owner
  <2>3. Owner(q)' = Owner(q)
    BY <2>1 DEF Owner
  <2>4. At(q, "post") \/ At(q, "mark") => journal'[req[q].new] = journal[req[q].new]
    BY DEF Owner, At
  <2>5. At(q, "link") => journal'[req[q].new] = journal[req[q].new]
    BY <2>1 DEF RequestOK, BookingOK
  <2>6. BookingOK(q)'
    BY <2>1, <2>4, <2>5 DEF BookingOK, At, Posted
  <2> QED
    BY <2>2, <2>3, <2>6
<1>2. RequestsOK'
  BY <1>1 DEF RequestsOK
<1>3. \A q \in Requests : BookingOK(q)'
  BY <1>1
<1>4. OwnedOnce'
  <2> SUFFICES ASSUME NEW q \in Requests, NEW r \in Requests,
                      Owner(q)', Owner(r)', req'[q].new = req'[r].new
               PROVE  q = r
    BY DEF OwnedOnce
  <2>1. CASE q = p /\ r # p
    BY <2>1, <1>1
  <2>2. CASE q # p /\ r = p
    BY <2>2, <1>1
  <2>3. CASE q # p /\ r # p
    <3>1. Owner(q) /\ Owner(r) /\ req[q].new = req[r].new
      BY <2>3, <1>1
    <3> QED
      BY <3>1 DEF SuppliersInv, OwnedOnce
  <2> QED
    BY <2>1, <2>2, <2>3
<1> QED
  BY <1>2, <1>3, <1>4

\* What every step of one request has to show, of its own request and of the
\* rows it writes.
LEMMA StepKeeps ==
  ASSUME SuppliersInv, NEW p \in Requests,
         req' = [q \in Requests |-> req'[q]],
         \A q \in Requests \ {p} : req'[q] = req[q],
         RequestOK(p)', BookingOK(p)',
         invoices' \in Seq(InvoiceRow), Len(invoices') = Len(invoices),
         journal' \in Seq(EntryRow),
         Len(journal) <= Len(journal'), Len(journal') <= MaxEntries,
         disturbed' \subseteq Invoices,
         \A e \in Entries : Posted(e) => journal'[e] = journal[e],
         \A q \in Requests \ {p} : Owner(q) =>
           /\ journal'[req[q].new] = journal[req[q].new]
           /\ Owner(p)' => req'[p].new # req[q].new,
         \A i \in Invoices : invoices'[i].entry \in {0, invoices[i].entry} \cup Originals(i)'
  PROVE  SuppliersInv'
<1>1. Invoices' = Invoices /\ Entries \subseteq Entries' /\ EntryRow' = EntryRow
  <2>1. invoices \in Seq(InvoiceRow) /\ journal \in Seq(EntryRow)
    BY DEF SuppliersInv, TypeOK, InvoiceRow, EntryRow
  <2>2. Invoices' = Invoices
    BY <2>1 DEF Invoices
  <2>3. Entries \subseteq Entries'
    BY <2>1 DEF Entries
  <2> QED
    BY <2>2, <2>3 DEF EntryRow
<1>2. RequestsOK' /\ OwnedOnce' /\ \A q \in Requests : BookingOK(q)'
  BY <1>1, OthersKeep
<1>3. \A q \in Requests : req'[q].inv \in Invoices \cup {0}
  BY <1>1, <1>2 DEF RequestsOK, RequestOK, Idle
<1>4. TypeOK'
  BY <1>1, <1>3 DEF TypeOK, InvoiceRow, EntryRow, SuppliersInv
<1>5. LinkPosted'
  BY <1>1 DEF SuppliersInv, LinkPosted, Originals, Posted
<1> QED
  BY <1>2, <1>4, <1>5 DEF SuppliersInv

\* A step that leaves the journal alone, and lets no request own an entry.
LEMMA QuietStep ==
  ASSUME SuppliersInv, NEW p \in Requests,
         req' = [q \in Requests |-> req'[q]],
         \A q \in Requests \ {p} : req'[q] = req[q],
         RequestOK(p)', BookingOK(p)', ~Owner(p)',
         invoices' \in Seq(InvoiceRow), Len(invoices') = Len(invoices),
         journal' = journal, disturbed' \subseteq Invoices,
         \A i \in Invoices : invoices'[i].entry \in {0, invoices[i].entry} \cup Originals(i)'
  PROVE  SuppliersInv'
<1>1. journal' \in Seq(EntryRow) /\ Len(journal) <= Len(journal') /\ Len(journal') <= MaxEntries
  BY SuppliersAssumption DEF SuppliersInv, TypeOK, EntryRow
<1> QED
  BY <1>1, StepKeeps

\* The types of the tables, in the words of the lemmas.
LEMMA Tables ==
  ASSUME SuppliersInv
  PROVE  /\ invoices \in Seq(InvoiceRow) /\ journal \in Seq(EntryRow)
         /\ Invoices = 1 .. Len(invoices) /\ Entries = 1 .. Len(journal)
         /\ Len(invoices) \in Nat /\ Len(journal) \in Nat /\ Len(journal) <= MaxEntries
         /\ disturbed \subseteq Invoices
         /\ RequestsOK
  BY DEF SuppliersInv, TypeOK, InvoiceRow, EntryRow, Invoices, Entries

-----------------------------------------------------------------------------
(* Every action keeps the invariant *)

LEMMA InitHolds ==
  ASSUME Init
  PROVE  SuppliersInv
<1>1. invoices = <<>> /\ journal = <<>> /\ Invoices = {} /\ Entries = {} /\ disturbed = {}
  BY DEF Init, Invoices, Entries
<1>2. \A p \in Requests : req[p] = Idle /\ ~Owner(p)
  BY DEF Init, Idle, Owner
<1>3. TypeOK
  BY <1>1, <1>2, SuppliersAssumption DEF TypeOK, Idle
<1>4. RequestsOK
  BY <1>2 DEF RequestsOK, RequestOK, Idle, At, Owner, Init
<1>5. OwnedOnce /\ LinkPosted /\ \A p \in Requests : BookingOK(p)
  BY <1>1, <1>2 DEF OwnedOnce, LinkPosted, BookingOK, At, Idle
<1> QED
  BY <1>3, <1>4, <1>5 DEF SuppliersInv

\* A request that begins remembers what RequestOK asks for.
LEMMA BeginHolds ==
  ASSUME SuppliersInv, NEW p \in Requests, NEW r, Begin(p, r), UNCHANGED <<invoices, journal>>,
         r.inv \in Invoices,
         \/ r.pc \in {"delete", "book", "erase"}
         \/ r.pc = "update" /\ r.key \in Keys /\ r.ref \in References /\ r.total \in Totals
         \/ r.pc = "status" /\ r.target \in supplierInvoiceStatuses
         \/ r.pc = "reverse" /\ r.entry \in Entries
  PROVE  SuppliersInv'
<1>1. /\ req' = [q \in Requests |-> req'[q]]
      /\ \A q \in Requests \ {p} : req'[q] = req[q]
      /\ req'[p] = r
  BY Tables, BeginEffect
<1>2. RequestOK(p)' /\ BookingOK(p)' /\ ~Owner(p)'
  BY <1>1 DEF RequestOK, BookingOK, Owner, At, Invoices, Entries
<1>3. disturbed' \subseteq Invoices
  BY Tables DEF Begin
<1> QED
  BY <1>1, <1>2, <1>3, Tables, QuietStep

\* A request that ends leaves nothing to do.
LEMMA FinishHolds ==
  ASSUME SuppliersInv, NEW p \in Requests, Finish(p), journal' = journal,
         disturbed' \subseteq Invoices,
         invoices' \in Seq(InvoiceRow), Len(invoices') = Len(invoices),
         \A i \in Invoices : invoices'[i].entry = invoices[i].entry
  PROVE  SuppliersInv'
<1>1. /\ req' = [q \in Requests |-> req'[q]]
      /\ \A q \in Requests \ {p} : req'[q] = req[q]
      /\ req'[p] = Idle
  BY Tables, FinishEffect
<1>2. RequestOK(p)' /\ BookingOK(p)' /\ ~Owner(p)'
  BY <1>1 DEF RequestOK, BookingOK, Owner, At, Idle
<1> QED
  BY <1>1, <1>2, QuietStep

LEMMA CreateHolds ==
  ASSUME SuppliersInv, NEW key \in Keys, NEW ref \in References, NEW total \in Totals,
         CreateSupplierInvoice(key, ref, total)
  PROVE  SuppliersInv'
<1> DEFINE row == [key |-> key, ref |-> ref, total |-> total, status |-> "draft", entry |-> 0]
<1>1. row \in InvoiceRow
  BY SuppliersAssumption DEF InvoiceRow, supplierInvoiceStatuses
<1>2. /\ invoices' = Append(invoices, row) /\ UNCHANGED <<journal, req, disturbed>>
      /\ Len(invoices) < MaxInvoices
  BY DEF CreateSupplierInvoice
<1> HIDE DEF row
<1>3. /\ invoices' \in Seq(InvoiceRow) /\ Len(invoices') = Len(invoices) + 1
      /\ \A i \in Invoices : invoices'[i] = invoices[i]
      /\ invoices'[Len(invoices) + 1] = row
  BY <1>1, <1>2, Tables
<1>4. Invoices' = 1 .. (Len(invoices) + 1) /\ Invoices \subseteq Invoices' /\ Entries' = Entries
  BY <1>2, <1>3, Tables DEF Invoices, Entries
<1>5. Len(invoices') <= MaxInvoices
  BY <1>2, <1>3, Tables, SuppliersAssumption
<1>6. TypeOK'
  <2>1. journal' \in Seq(EntryRow)'
    <3>1. EntryRow \subseteq EntryRow'
      BY <1>4 DEF EntryRow
    <3>2. journal' \in Seq(EntryRow)
      BY <1>2, Tables
    <3> QED
      BY <3>1, <3>2
  <2> QED
    BY <2>1, <1>2, <1>3, <1>4, <1>5 DEF SuppliersInv, TypeOK, InvoiceRow, EntryRow
<1>7. RequestsOK' /\ OwnedOnce'
  BY <1>2, <1>4 DEF SuppliersInv, RequestsOK, RequestOK, OwnedOnce, Owner, At
<1>8. \A p \in Requests : BookingOK(p)'
  BY <1>2 DEF SuppliersInv, BookingOK, At, Posted
<1>9. LinkPosted'
  <2>1. \A i \in Invoices' : i \in Invoices \/ invoices'[i].entry = 0
    BY <1>3, <1>4, Tables DEF row
  <2> QED
    BY <2>1, <1>2, <1>3, <1>4 DEF SuppliersInv, LinkPosted, Originals, Posted
<1> QED
  BY <1>6, <1>7, <1>8, <1>9 DEF SuppliersInv

\* A statement that writes fields of one row, the link apart, gives a table of
\* the same length whose links are where they were.
LEMMA RowWritten ==
  ASSUME invoices \in Seq(InvoiceRow), NEW i \in Invoices, NEW row \in InvoiceRow,
         row.entry = invoices[i].entry
  PROVE  /\ [invoices EXCEPT ![i] = row] \in Seq(InvoiceRow)
         /\ Len([invoices EXCEPT ![i] = row]) = Len(invoices)
         /\ \A j \in Invoices : [invoices EXCEPT ![i] = row][j].entry = invoices[j].entry
  BY DEF Invoices

\* A change of status writes one row.
LEMMA StatusWritten ==
  ASSUME SuppliersInv, NEW i \in Invoices, NEW st \in supplierInvoiceStatuses \cup {"deleted"},
         invoices' = [invoices EXCEPT ![i].status = st]
  PROVE  /\ invoices' \in Seq(InvoiceRow) /\ Len(invoices') = Len(invoices)
         /\ \A j \in Invoices : invoices'[j].entry = invoices[j].entry
<1> DEFINE row == [invoices[i] EXCEPT !.status = st]
<1>1. invoices[i] \in InvoiceRow
  BY Tables
<1>2. row \in InvoiceRow /\ row.entry = invoices[i].entry
  BY <1>1 DEF InvoiceRow
<1>3. invoices' = [invoices EXCEPT ![i] = row]
  OBVIOUS
<1> HIDE DEF row
<1>4. invoices \in Seq(InvoiceRow)
  BY Tables
<1>5. /\ [invoices EXCEPT ![i] = row] \in Seq(InvoiceRow)
      /\ Len([invoices EXCEPT ![i] = row]) = Len(invoices)
      /\ \A j \in Invoices : [invoices EXCEPT ![i] = row][j].entry = invoices[j].entry
  BY <1>2, <1>4, RowWritten
<1> QED
  BY <1>3, <1>5

\* The requests that begin, and those that only read.
LEMMA LoadsHold ==
  ASSUME SuppliersInv, NEW p \in Requests, NEW i \in Invoices,
         \/ \E key \in Keys, ref \in References, total \in Totals : UpdateLoad(p, i, key, ref, total)
         \/ DeleteLoad(p, i)
         \/ \E target \in supplierInvoiceStatuses : TransitionLoad(p, i, target)
         \/ CancelLoad(p, i)
  PROVE  SuppliersInv'
<1>1. CASE \E key \in Keys, ref \in References, total \in Totals : UpdateLoad(p, i, key, ref, total)
  <2>1. PICK key \in Keys, ref \in References, total \in Totals : UpdateLoad(p, i, key, ref, total)
    BY <1>1
  <2> DEFINE r == [pc |-> "update", inv |-> i, key |-> key, ref |-> ref, total |-> total]
  <2>2. Begin(p, r) /\ UNCHANGED <<invoices, journal>>
    BY <2>1 DEF UpdateLoad
  <2>3. r.inv = i /\ r.pc = "update" /\ r.key = key /\ r.ref = ref /\ r.total = total
    OBVIOUS
  <2> HIDE DEF r
  <2> QED
    BY <2>2, <2>3, BeginHolds
<1>2. CASE DeleteLoad(p, i)
  <2> DEFINE r == [pc |-> "delete", inv |-> i]
  <2>1. Begin(p, r) /\ UNCHANGED <<invoices, journal>>
    BY <1>2 DEF DeleteLoad
  <2>2. r.inv = i /\ r.pc = "delete"
    OBVIOUS
  <2> HIDE DEF r
  <2> QED
    BY <2>1, <2>2, BeginHolds
<1>3. CASE \E target \in supplierInvoiceStatuses : TransitionLoad(p, i, target)
  <2>1. PICK target \in supplierInvoiceStatuses : TransitionLoad(p, i, target)
    BY <1>3
  <2>2. PICK pc \in {"book", "status"} :
          Begin(p, [pc |-> pc, inv |-> i, target |-> target])
    BY <2>1 DEF TransitionLoad
  <2> DEFINE r == [pc |-> pc, inv |-> i, target |-> target]
  <2>3. Begin(p, r) /\ UNCHANGED <<invoices, journal>>
    BY <2>1, <2>2 DEF TransitionLoad
  <2>4. r.inv = i /\ r.pc \in {"book", "status"} /\ r.target = target
    OBVIOUS
  <2> HIDE DEF r
  <2> QED
    BY <2>3, <2>4, BeginHolds
<1>4. CASE CancelLoad(p, i)
  <2> DEFINE r == IF invoices[i].status = "draft" THEN [pc |-> "erase", inv |-> i]
                  ELSE IF invoices[i].entry = 0
                  THEN [pc |-> "status", inv |-> i, target |-> "cancelled"]
                  ELSE [pc |-> "reverse", inv |-> i, entry |-> invoices[i].entry]
  <2>1. Begin(p, r) /\ UNCHANGED <<invoices, journal>>
    BY <1>4 DEF CancelLoad
  <2>2. invoices[i].entry # 0 => invoices[i].entry \in Entries
    BY DEF SuppliersInv, LinkPosted, Originals
  <2>3. /\ r.inv = i
        /\ \/ r.pc = "erase"
           \/ r.pc = "status" /\ r.target \in supplierInvoiceStatuses
           \/ r.pc = "reverse" /\ r.entry \in Entries
    BY <2>2 DEF supplierInvoiceStatuses
  <2> HIDE DEF r
  <2> QED
    BY <2>1, <2>3, BeginHolds
<1> QED
  BY <1>1, <1>2, <1>3, <1>4

\* The statements that write the row of the invoice, the link apart.
LEMMA WritesHold ==
  ASSUME SuppliersInv, NEW p \in Requests,
         UpdateCommit(p) \/ DeleteSupplierInvoice(p) \/ SetStatus(p) \/ CancelErase(p) \/ Abandon(p)
  PROVE  SuppliersInv'
<1> DEFINE i == req[p].inv
<1>1. RequestOK(p) /\ invoices \in Seq(InvoiceRow) /\ disturbed \subseteq Invoices
  BY Tables DEF RequestsOK
<1>2. req[p].pc # "idle" => i \in Invoices
  BY <1>1 DEF RequestOK
<1>3. Finish(p) /\ journal' = journal
  BY DEF UpdateCommit, DeleteSupplierInvoice, SetStatus, CancelErase, Abandon
<1>4. disturbed' \subseteq Invoices
  <2>1. CASE Abandon(p)
    BY <2>1, <1>1, <1>2 DEF Abandon, RequestOK
  <2>2. CASE ~Abandon(p)
    BY <2>2, <1>1 DEF UpdateCommit, DeleteSupplierInvoice, SetStatus, CancelErase
  <2> QED
    BY <2>1, <2>2
<1> DEFINE Kept == /\ invoices' \in Seq(InvoiceRow) /\ Len(invoices') = Len(invoices)
                   /\ \A j \in Invoices : invoices'[j].entry = invoices[j].entry
<1>5. CASE UNCHANGED invoices
  BY <1>5, <1>1, <1>3, <1>4, FinishHolds
<1>6. CASE UpdateCommit(p) /\ invoices' = Rewritten(i, req[p])
  <2>1. i \in Invoices /\ req[p].key \in Keys /\ req[p].ref \in References /\ req[p].total \in Totals
    BY <1>1, <1>2, <1>6 DEF UpdateCommit, At, RequestOK
  <2>2. invoices[i] \in InvoiceRow
    BY <1>1, <2>1 DEF Invoices
  <2> DEFINE row == [invoices[i] EXCEPT !.key = req[p].key, !.ref = req[p].ref, !.total = req[p].total]
  <2>3. row \in InvoiceRow /\ row.entry = invoices[i].entry
    BY <2>1, <2>2 DEF InvoiceRow
  <2>4. invoices' = [invoices EXCEPT ![i] = row]
    BY <1>1, <1>6, <2>1, <2>2 DEF Rewritten, InvoiceRow, Invoices
  <2> HIDE DEF row
  <2>5. Kept
    BY <1>1, <2>1, <2>3, <2>4, RowWritten
  <2> QED
    BY <2>5, <1>3, <1>4, FinishHolds
<1>7. CASE \E st \in supplierInvoiceStatuses \cup {"deleted"} :
             invoices' = [invoices EXCEPT ![i].status = st] /\ req[p].pc # "idle"
  <2>1. Kept
    BY <1>2, <1>7, StatusWritten
  <2> QED
    BY <2>1, <1>3, <1>4, FinishHolds
<1>8. \/ UNCHANGED invoices
      \/ UpdateCommit(p) /\ invoices' = Rewritten(i, req[p])
      \/ \E st \in supplierInvoiceStatuses \cup {"deleted"} :
           invoices' = [invoices EXCEPT ![i].status = st] /\ req[p].pc # "idle"
  <2>1. CASE UpdateCommit(p)
    BY <2>1 DEF UpdateCommit
  <2>2. CASE DeleteSupplierInvoice(p)
    BY <2>2 DEF DeleteSupplierInvoice, At
  <2>3. CASE SetStatus(p)
    BY <2>3, <1>1 DEF SetStatus, At, RequestOK
  <2>4. CASE CancelErase(p)
    BY <2>4 DEF CancelErase, At
  <2>5. CASE Abandon(p)
    BY <2>5 DEF Abandon
  <2> QED
    BY <2>1, <2>2, <2>3, <2>4, <2>5
<1> QED
  BY <1>5, <1>6, <1>7, <1>8

\* The reading before a booking.
LEMMA BookLoadHolds ==
  ASSUME SuppliersInv, NEW p \in Requests, BookLoad(p)
  PROVE  SuppliersInv'
<1>1. RequestOK(p) /\ At(p, "book") /\ UNCHANGED <<invoices, journal, disturbed>>
  BY Tables DEF RequestsOK, BookLoad
<1>2. req[p].inv \in Invoices
  BY <1>1 DEF RequestOK, At
<1>3. CASE Finish(p)
  BY <1>1, <1>3, Tables, FinishHolds
<1>4. CASE Goto(p, "status", [target |-> "booked"])
  <2> DEFINE kept == [target |-> "booked"]
  <2>1. DOMAIN kept = {"target"} /\ kept["target"] = "booked"
    OBVIOUS
  <2>2. Goto(p, "status", kept)
    BY <1>4
  <2> HIDE DEF kept
  <2>3. /\ req' = [q \in Requests |-> req'[q]]
        /\ \A q \in Requests \ {p} : req'[q] = req[q]
        /\ req'[p].pc = "status" /\ req'[p].inv = req[p].inv
        /\ req'[p].target = "booked"
    BY <2>1, <2>2, Tables, GotoEffect
  <2>4. RequestOK(p)' /\ BookingOK(p)' /\ ~Owner(p)'
    BY <1>1, <1>2, <2>3 DEF RequestOK, BookingOK, At, Owner, supplierInvoiceStatuses, Invoices
  <2> QED
    BY <1>1, <2>3, <2>4, Tables, QuietStep
<1>5. CASE Goto(p, "create", [amount |-> invoices[req[p].inv].total])
  <2> DEFINE kept == [amount |-> invoices[req[p].inv].total]
  <2>1. DOMAIN kept = {"amount"} /\ kept["amount"] = invoices[req[p].inv].total
    OBVIOUS
  <2>2. Goto(p, "create", kept)
    BY <1>5
  <2> HIDE DEF kept
  <2>3. /\ req' = [q \in Requests |-> req'[q]]
        /\ \A q \in Requests \ {p} : req'[q] = req[q]
        /\ req'[p].pc = "create" /\ req'[p].inv = req[p].inv
        /\ req'[p].amount = invoices[req[p].inv].total
    BY <2>1, <2>2, Tables, GotoEffect
  <2>4. invoices[req[p].inv].total \in Totals
    <3>1. invoices[req[p].inv] \in InvoiceRow
      BY <1>2, Tables
    <3> QED
      BY <3>1 DEF InvoiceRow
  <2>5. RequestOK(p)' /\ BookingOK(p)' /\ ~Owner(p)'
    BY <1>1, <1>2, <2>3, <2>4 DEF RequestOK, BookingOK, At, Owner, Invoices
  <2> QED
    BY <1>1, <2>3, <2>5, Tables, QuietStep
<1> QED
  BY <1>3, <1>4, <1>5 DEF BookLoad

\* An entry appended to the journal: a draft of the request that created it.
LEMMA CreationHolds ==
  ASSUME SuppliersInv, NEW p \in Requests, NEW amount \in Totals, NEW pc \in {"post", "mark"},
         NEW kept, Goto(p, pc, kept), {"pc", "inv"} \cap DOMAIN kept = {},
         "new" \in DOMAIN kept, kept.new = Len(journal) + 1,
         pc = "mark" => "entry" \in DOMAIN kept /\ kept.entry \in Entries,
         req[p].inv \in Invoices,
         Len(journal) < MaxEntries,
         journal' = Append(journal, Draft(req[p].inv, amount)),
         UNCHANGED <<invoices, disturbed>>
  PROVE  SuppliersInv'
<1> DEFINE e == Len(journal) + 1
<1>1. Draft(req[p].inv, amount) \in EntryRow
  BY SuppliersAssumption DEF Draft, EntryRow
<1>2. /\ journal' \in Seq(EntryRow) /\ Len(journal') = e
      /\ \A x \in Entries : journal'[x] = journal[x]
      /\ journal'[e] = Draft(req[p].inv, amount)
  BY <1>1, Tables
<1>3. e \in Entries' /\ e \notin Entries /\ Entries \subseteq Entries'
  BY <1>2, Tables DEF Entries
<1>4. /\ req' = [q \in Requests |-> req'[q]]
      /\ \A q \in Requests \ {p} : req'[q] = req[q]
      /\ req'[p].pc = pc /\ req'[p].inv = req[p].inv
      /\ \A f \in DOMAIN kept : req'[p][f] = kept[f]
  BY Tables, GotoEffect
<1>5. req'[p].new = e /\ (pc = "mark" => req'[p].entry \in Entries)
  BY <1>4
<1>6. RequestOK(p)'
  BY <1>3, <1>4, <1>5 DEF RequestOK, At, Owner, Invoices
<1>7. BookingOK(p)'
  BY <1>2, <1>4, <1>5 DEF BookingOK, At, Posted, Draft
<1>8. \A q \in Requests : Owner(q) => req[q].new \in Entries
  BY DEF SuppliersInv, RequestsOK, RequestOK
<1>9. \A q \in Requests \ {p} : Owner(q) =>
        journal'[req[q].new] = journal[req[q].new] /\ req'[p].new # req[q].new
  BY <1>2, <1>3, <1>5, <1>8
<1>10. Len(journal) <= Len(journal') /\ Len(journal') <= MaxEntries
  BY <1>2, Tables, SuppliersAssumption
<1> HIDE DEF e
<1> QED
  BY <1>2, <1>4, <1>6, <1>7, <1>9, <1>10, Tables, StepKeeps

LEMMA BookCreateHolds ==
  ASSUME SuppliersInv, NEW p \in Requests, BookCreate(p)
  PROVE  SuppliersInv'
<1>1. RequestOK(p) /\ At(p, "create")
  BY Tables DEF RequestsOK, BookCreate
<1>2. req[p].amount \in Totals /\ req[p].inv \in Invoices
  BY <1>1 DEF RequestOK, At
<1> DEFINE kept == [new |-> Len(journal) + 1]
<1>3. /\ Goto(p, "post", kept) /\ Len(journal) < MaxEntries
      /\ journal' = Append(journal, Draft(req[p].inv, req[p].amount))
      /\ UNCHANGED <<invoices, disturbed>>
  BY DEF BookCreate, CreateEntry
<1>4. DOMAIN kept = {"new"} /\ kept.new = Len(journal) + 1
  OBVIOUS
<1> HIDE DEF kept
<1> QED
  BY <1>2, <1>3, <1>4, CreationHolds

LEMMA ReverseCreateHolds ==
  ASSUME SuppliersInv, NEW p \in Requests, ReverseCreate(p)
  PROVE  SuppliersInv'
<1>1. RequestOK(p) /\ At(p, "reverse")
  BY Tables DEF RequestsOK, ReverseCreate
<1>2. req[p].entry \in Entries /\ req[p].inv \in Invoices
  BY <1>1 DEF RequestOK, At
<1>3. journal[req[p].entry].amount \in Totals
  <2>1. journal[req[p].entry] \in EntryRow
    BY <1>2, Tables
  <2> QED
    BY <2>1 DEF EntryRow
<1> DEFINE kept == [entry |-> req[p].entry, new |-> Len(journal) + 1]
<1>4. /\ Goto(p, "mark", kept) /\ Len(journal) < MaxEntries
      /\ journal' = Append(journal, Draft(req[p].inv, journal[req[p].entry].amount))
      /\ UNCHANGED <<invoices, disturbed>>
  BY DEF ReverseCreate
<1>5. DOMAIN kept = {"entry", "new"} /\ kept.new = Len(journal) + 1 /\ kept.entry = req[p].entry
  OBVIOUS
<1> HIDE DEF kept
<1> QED
  BY <1>2, <1>3, <1>4, <1>5, CreationHolds

\* A statement that writes a field of the entry its request owns, posted or
\* not, disturbs no other.
LEMMA OwnedWritten ==
  ASSUME SuppliersInv, NEW p \in Requests, Owner(p), NEW row \in EntryRow,
         journal' = [journal EXCEPT ![req[p].new] = row],
         Posted(req[p].new) => row = journal[req[p].new]
  PROVE  /\ req[p].new \in Entries /\ req[p].inv \in Invoices
         /\ journal' \in Seq(EntryRow) /\ Len(journal') = Len(journal)
         /\ Entries' = Entries
         /\ journal'[req[p].new] = row
         /\ \A e \in Entries : Posted(e) => journal'[e] = journal[e]
         /\ \A q \in Requests \ {p} : Owner(q) =>
              journal'[req[q].new] = journal[req[q].new] /\ req[p].new # req[q].new
<1>1. /\ req[p].new \in Entries /\ req[p].inv \in Invoices
      /\ \A q \in Requests : Owner(q) => req[q].new \in Entries
  BY DEF SuppliersInv, RequestsOK, RequestOK, Owner
<1>2. \A q \in Requests \ {p} : Owner(q) => req[p].new # req[q].new
  BY DEF SuppliersInv, OwnedOnce
<1>3. /\ journal' \in Seq(EntryRow) /\ Len(journal') = Len(journal)
      /\ journal'[req[p].new] = row
      /\ \A e \in Entries : e # req[p].new => journal'[e] = journal[e]
  BY <1>1, Tables
<1>4. Entries' = Entries
  BY <1>3, Tables DEF Entries
<1> QED
  BY <1>1, <1>2, <1>3, <1>4

\* PostEntry of the entry the request owns.
LEMMA PostingHolds ==
  ASSUME SuppliersInv, NEW p \in Requests, BookPost(p) \/ ReversePost(p)
  PROVE  SuppliersInv'
<1> DEFINE e == req[p].new
           row == [journal[e] EXCEPT !.status = "posted"]
<1>1. Owner(p) /\ RequestOK(p) /\ BookingOK(p)
  BY Tables DEF BookPost, ReversePost, At, Owner, RequestsOK, SuppliersInv
<1>2. e \in Entries /\ journal[e] \in EntryRow
  BY <1>1, Tables DEF RequestOK
<1>3. /\ row \in EntryRow /\ row.inv = journal[e].inv /\ row.reverses = journal[e].reverses
      /\ row.status = "posted"
      /\ (Posted(e) => row = journal[e])
  BY <1>2 DEF EntryRow, Posted
<1>4. journal' = [journal EXCEPT ![e] = row] /\ UNCHANGED <<invoices, disturbed>>
  BY DEF BookPost, ReversePost, PostEntry
<1> HIDE DEF row
<1>5. /\ req[p].inv \in Invoices
      /\ journal' \in Seq(EntryRow) /\ Len(journal') = Len(journal)
      /\ Entries' = Entries /\ journal'[e] = row
      /\ \A x \in Entries : Posted(x) => journal'[x] = journal[x]
      /\ \A q \in Requests \ {p} : Owner(q) =>
           journal'[req[q].new] = journal[req[q].new] /\ req[p].new # req[q].new
  BY <1>1, <1>3, <1>4, OwnedWritten
<1>6. /\ req' = [q \in Requests |-> req'[q]]
      /\ \A q \in Requests \ {p} : req'[q] = req[q]
      /\ RequestOK(p)' /\ BookingOK(p)' /\ ~Owner(p)'
  <2>1. CASE BookPost(p)
    <3> DEFINE kept == [new |-> req[p].new]
    <3>1. DOMAIN kept = {"new"} /\ kept["new"] = e
      OBVIOUS
    <3>2. Goto(p, "link", kept) /\ At(p, "post")
      BY <2>1 DEF BookPost, PostEntry
    <3> HIDE DEF kept
    <3>3. /\ req' = [q \in Requests |-> req'[q]]
          /\ \A q \in Requests \ {p} : req'[q] = req[q]
          /\ req'[p].pc = "link" /\ req'[p].inv = req[p].inv /\ req'[p].new = e
      BY <3>1, <3>2, Tables, GotoEffect
    <3>4. RequestOK(p)' /\ ~Owner(p)'
      BY <1>2, <1>4, <1>5, <3>3 DEF RequestOK, At, Owner, Invoices
    <3>5. BookingOK(p)'
      BY <1>1, <1>3, <1>5, <3>2, <3>3 DEF BookingOK, At, Posted
    <3> QED
      BY <3>3, <3>4, <3>5
  <2>2. CASE ReversePost(p)
    <3> DEFINE kept == [target |-> "cancelled"]
    <3>1. DOMAIN kept = {"target"} /\ kept["target"] = "cancelled"
      OBVIOUS
    <3>2. Goto(p, "status", kept)
      BY <2>2 DEF ReversePost, PostEntry
    <3> HIDE DEF kept
    <3>3. /\ req' = [q \in Requests |-> req'[q]]
          /\ \A q \in Requests \ {p} : req'[q] = req[q]
          /\ req'[p].pc = "status" /\ req'[p].inv = req[p].inv /\ req'[p].target = "cancelled"
      BY <3>1, <3>2, Tables, GotoEffect
    <3>4. RequestOK(p)' /\ BookingOK(p)' /\ ~Owner(p)'
      BY <1>4, <1>5, <3>3 DEF RequestOK, BookingOK, At, Owner, Invoices, supplierInvoiceStatuses
    <3> QED
      BY <3>3, <3>4
  <2> QED
    BY <2>1, <2>2
<1> QED
  BY <1>4, <1>5, <1>6, Tables, SuppliersAssumption, StepKeeps

\* The mark of a reversal, on an entry that is still a draft.
LEMMA MarkHolds ==
  ASSUME SuppliersInv, NEW p \in Requests, ReverseMark(p)
  PROVE  SuppliersInv'
<1> DEFINE e == req[p].new
           row == [journal[e] EXCEPT !.reverses = req[p].entry]
<1>1. Owner(p) /\ RequestOK(p) /\ BookingOK(p) /\ At(p, "mark")
  BY Tables DEF ReverseMark, At, Owner, RequestsOK, SuppliersInv
<1>2. e \in Entries /\ journal[e] \in EntryRow /\ req[p].entry \in 0 .. MaxEntries
  BY <1>1, Tables, SuppliersAssumption DEF RequestOK
<1>3. row \in EntryRow /\ ~Posted(e)
  BY <1>1, <1>2 DEF EntryRow, BookingOK
<1>4. journal' = [journal EXCEPT ![e] = row] /\ UNCHANGED <<invoices, disturbed>>
  BY DEF ReverseMark
<1> HIDE DEF row
<1>5. /\ req[p].inv \in Invoices
      /\ journal' \in Seq(EntryRow) /\ Len(journal') = Len(journal)
      /\ Entries' = Entries
      /\ \A x \in Entries : Posted(x) => journal'[x] = journal[x]
      /\ \A q \in Requests \ {p} : Owner(q) =>
           journal'[req[q].new] = journal[req[q].new] /\ req[p].new # req[q].new
  BY <1>1, <1>3, <1>4, OwnedWritten
<1> DEFINE kept == [new |-> req[p].new]
<1>6. DOMAIN kept = {"new"} /\ kept["new"] = e
  OBVIOUS
<1>7. Goto(p, "settle", kept)
  BY DEF ReverseMark
<1> HIDE DEF kept
<1>8. /\ req' = [q \in Requests |-> req'[q]]
      /\ \A q \in Requests \ {p} : req'[q] = req[q]
      /\ req'[p].pc = "settle" /\ req'[p].inv = req[p].inv /\ req'[p].new = e
  BY <1>6, <1>7, Tables, GotoEffect
<1>9. RequestOK(p)' /\ BookingOK(p)'
  BY <1>2, <1>4, <1>5, <1>8 DEF RequestOK, BookingOK, At, Owner, Invoices
<1> QED
  BY <1>4, <1>5, <1>8, <1>9, Tables, SuppliersAssumption, StepKeeps

\* The link is written to an entry that is posted.
LEMMA LinkHolds ==
  ASSUME SuppliersInv, NEW p \in Requests, BookLink(p)
  PROVE  SuppliersInv'
<1> DEFINE i == req[p].inv
           row == [invoices[i] EXCEPT !.entry = req[p].new]
<1>1. RequestOK(p) /\ BookingOK(p) /\ At(p, "link") /\ UNCHANGED <<journal, disturbed>>
  BY Tables DEF RequestsOK, SuppliersInv, BookLink
<1>2. i \in Invoices /\ req[p].new \in Originals(i)
  BY <1>1 DEF RequestOK, BookingOK, At, Originals
<1>3. invoices[i] \in InvoiceRow /\ req[p].new \in 0 .. MaxEntries
  BY <1>2, Tables, SuppliersAssumption DEF Originals
<1>4. row \in InvoiceRow /\ row.entry = req[p].new
  BY <1>3 DEF InvoiceRow
<1>5. invoices' = invoices \/ invoices' = [invoices EXCEPT ![i] = row]
  BY DEF BookLink
<1> HIDE DEF row
<1>6. /\ invoices' \in Seq(InvoiceRow) /\ Len(invoices') = Len(invoices)
      /\ \A j \in Invoices : invoices'[j].entry \in {0, invoices[j].entry} \cup Originals(j)'
  <2>1. \A j \in Invoices : Originals(j)' = Originals(j)
    BY <1>1 DEF Originals, Entries, Posted
  <2>2. invoices' \in Seq(InvoiceRow) /\ Len(invoices') = Len(invoices)
    BY <1>2, <1>4, <1>5, Tables
  <2>3. \A j \in Invoices : \/ invoices'[j].entry = invoices[j].entry
                            \/ j = i /\ invoices'[j].entry = req[p].new
    BY <1>2, <1>4, <1>5, Tables
  <2> QED
    BY <1>2, <2>1, <2>2, <2>3
<1> DEFINE kept == [target |-> "booked"]
<1>7. DOMAIN kept = {"target"} /\ kept["target"] = "booked"
  OBVIOUS
<1>8. Goto(p, "status", kept)
  BY DEF BookLink
<1> HIDE DEF kept
<1>9. /\ req' = [q \in Requests |-> req'[q]]
      /\ \A q \in Requests \ {p} : req'[q] = req[q]
      /\ req'[p].pc = "status" /\ req'[p].inv = req[p].inv /\ req'[p].target = "booked"
  BY <1>7, <1>8, Tables, GotoEffect
<1>10. Invoices' = Invoices
  BY <1>6, Tables DEF Invoices
<1>11. RequestOK(p)' /\ BookingOK(p)' /\ ~Owner(p)'
  BY <1>2, <1>9, <1>10 DEF RequestOK, BookingOK, At, Owner, supplierInvoiceStatuses
<1> QED
  BY <1>1, <1>6, <1>9, <1>11, Tables, QuietStep

-----------------------------------------------------------------------------
(* Theorems *)

\* Every step keeps the inductive invariant.
LEMMA NextHolds ==
  ASSUME SuppliersInv, [Next]_vars
  PROVE  SuppliersInv'
<1>1. CASE \E key \in Keys, ref \in References, total \in Totals :
             CreateSupplierInvoice(key, ref, total)
  BY <1>1, CreateHolds
<1>2. CASE \E p \in Requests, i \in Invoices :
             \/ \E key \in Keys, ref \in References, total \in Totals :
                  UpdateLoad(p, i, key, ref, total)
             \/ DeleteLoad(p, i)
             \/ \E target \in supplierInvoiceStatuses : TransitionLoad(p, i, target)
             \/ CancelLoad(p, i)
  BY <1>2, LoadsHold
<1>3. ASSUME NEW p \in Requests,
             UpdateCommit(p) \/ DeleteSupplierInvoice(p) \/ Booking(p) \/ Cancelling(p) \/ Abandon(p)
      PROVE  SuppliersInv'
  BY <1>3, WritesHold, BookLoadHolds, BookCreateHolds, PostingHolds, LinkHolds,
     ReverseCreateHolds, MarkHolds
     DEF Booking, Cancelling
<1>4. CASE UNCHANGED vars
  <2>1. UNCHANGED <<invoices, journal, req, disturbed>>
    BY <1>4 DEF vars
  <2>2. Invoices' = Invoices /\ Entries' = Entries
    BY <2>1 DEF Invoices, Entries
  <2>3. TypeOK'
    BY <2>1, <2>2 DEF SuppliersInv, TypeOK
  <2>4. LinkPosted'
    BY <2>1, <2>2 DEF SuppliersInv, LinkPosted, Originals, Posted
  <2>5. RequestsOK' /\ OwnedOnce'
    BY <2>1, <2>2 DEF SuppliersInv, RequestsOK, RequestOK, OwnedOnce, Owner, At
  <2>6. \A p \in Requests : BookingOK(p)'
    BY <2>1 DEF SuppliersInv, BookingOK, At, Posted
  <2> QED
    BY <2>3, <2>4, <2>5, <2>6 DEF SuppliersInv
<1> QED
  BY <1>1, <1>2, <1>3, <1>4 DEF Next

\* The rows, what each request remembers, and the entry each one owns stay as
\* SuppliersInv says, for any number of requests and invoices.
THEOREM SuppliersInvariant == Spec => []SuppliersInv
<1>1. Init => SuppliersInv
  BY InitHolds
<1>2. SuppliersInv /\ [Next]_vars => SuppliersInv'
  BY NextHolds
<1> QED
  BY <1>1, <1>2, PTL DEF Spec

\* A link leads to a posted entry of its invoice that is no reversal: the
\* booking posts before it writes the link, and no statement unposts or marks
\* a posted entry.
THEOREM LinkPostedTheorem == Spec => []LinkPosted
<1>1. SuppliersInv => LinkPosted
  BY DEF SuppliersInv
<1> QED
  BY <1>1, SuppliersInvariant, PTL

\* What the property forbids, of one step.
SealKept ==
  \A i \in Invoices :
    invoices[i].status # "draft"
      => \A field \in {"key", "ref", "total"} : invoices'[i][field] = invoices[i][field]

\* A statement that writes the link or the status of a row keeps the rest of it.
LEMMA OtherFields ==
  ASSUME SuppliersInv, NEW i \in Invoices, NEW x,
         \/ invoices' = [invoices EXCEPT ![i].status = x]
         \/ invoices' = [invoices EXCEPT ![i].entry = x]
  PROVE  SealKept
<1>1. \A j \in Invoices : invoices[j] \in InvoiceRow
  BY Tables
<1>2. DOMAIN invoices = Invoices
  BY DEF Invoices
<1>3. \A j \in Invoices : /\ invoices'[j].key = invoices[j].key
                          /\ invoices'[j].ref = invoices[j].ref
                          /\ invoices'[j].total = invoices[j].total
  BY <1>1, <1>2 DEF InvoiceRow
<1> QED
  BY <1>3 DEF SealKept

\* No step changes the amount or the reference of an invoice that left the
\* draft.
LEMMA StepSeals ==
  ASSUME SuppliersInv, [Next]_vars
  PROVE  SealKept
<1>1. CASE UNCHANGED invoices
  BY <1>1 DEF SealKept
<1>2. ASSUME NEW key \in Keys, NEW ref \in References, NEW total \in Totals,
             CreateSupplierInvoice(key, ref, total)
      PROVE  SealKept
  <2> DEFINE row == [key |-> key, ref |-> ref, total |-> total, status |-> "draft", entry |-> 0]
  <2>1. invoices' = Append(invoices, row)
    BY <1>2 DEF CreateSupplierInvoice
  <2>2. row \in InvoiceRow
    BY SuppliersAssumption DEF InvoiceRow, supplierInvoiceStatuses
  <2> HIDE DEF row
  <2>3. \A i \in Invoices : invoices'[i] = invoices[i]
    BY <2>1, <2>2, Tables
  <2> QED
    BY <2>3 DEF SealKept
<1>3. ASSUME NEW p \in Requests, UpdateCommit(p), ~UNCHANGED invoices
      PROVE  SealKept
  <2> DEFINE i == req[p].inv
  <2>1. invoices[i].status = "draft" /\ invoices' = Rewritten(i, req[p])
    BY <1>3 DEF UpdateCommit
  <2>2. i \in Invoices
    BY <1>3, Tables DEF UpdateCommit, At, RequestsOK, RequestOK
  <2>3. \A j \in Invoices : j # i => invoices'[j] = invoices[j]
    BY <2>1, <2>2 DEF Rewritten, Invoices
  <2> QED
    BY <2>1, <2>3 DEF SealKept
<1>4. ASSUME NEW p \in Requests, ~UNCHANGED invoices,
             DeleteSupplierInvoice(p) \/ BookLink(p) \/ SetStatus(p) \/ CancelErase(p)
      PROVE  SealKept
  <2>1. req[p].inv \in Invoices
    BY <1>4, Tables DEF DeleteSupplierInvoice, BookLink, SetStatus, CancelErase, At,
                        RequestsOK, RequestOK
  <2>2. \E x : \/ invoices' = [invoices EXCEPT ![req[p].inv].status = x]
               \/ invoices' = [invoices EXCEPT ![req[p].inv].entry = x]
    BY <1>4 DEF DeleteSupplierInvoice, BookLink, SetStatus, CancelErase
  <2> QED
    BY <2>1, <2>2, OtherFields
<1>5. \/ UNCHANGED invoices
      \/ \E key \in Keys, ref \in References, total \in Totals :
           CreateSupplierInvoice(key, ref, total)
      \/ \E p \in Requests :
           \/ UpdateCommit(p) \/ DeleteSupplierInvoice(p) \/ BookLink(p)
           \/ SetStatus(p) \/ CancelErase(p)
  <2>1. CASE UNCHANGED vars
    BY <2>1 DEF vars
  <2>2. CASE Next
    BY <2>2 DEF Next, UpdateLoad, DeleteLoad, TransitionLoad, CancelLoad, Booking, Cancelling,
                BookLoad, BookCreate, CreateEntry, BookPost, PostEntry, ReverseCreate,
                ReverseMark, ReversePost, Abandon
  <2> QED
    BY <2>1, <2>2
<1> QED
  BY <1>1, <1>2, <1>3, <1>4, <1>5

\* An invoice that left the draft keeps its supplier, its reference and its
\* amount, however late a modification read it: the UPDATE repeats the status.
THEOREM SealedOnceBookedTheorem == Spec => SealedOnceBooked
<1>1. SuppliersInv /\ [Next]_vars => [SealKept]_vars
  BY StepSeals
<1> QED
  BY <1>1, SuppliersInvariant, PTL DEF Spec, SealedOnceBooked, SealKept

-----------------------------------------------------------------------------
(* Bookings and reversals *)

\* The entry a request has created is a draft of its invoice until it posts
\* it, and the entry it reverses is the posted purchase of that invoice.
ChainOf(p) ==
  /\ Owner(p) => ~Posted(req[p].new) /\ journal[req[p].new].inv = req[p].inv
  /\ At(p, "reverse") \/ At(p, "mark") => req[p].entry \in Originals(req[p].inv)
  /\ At(p, "mark") => journal[req[p].new].amount = journal[req[p].entry].amount
  /\ At(p, "settle") => journal[req[p].new].reverses # 0

\* A marked entry reverses a posted purchase of its invoice, of its amount.
ReversalOK(r) ==
  journal[r].reverses # 0 =>
    /\ journal[r].reverses \in Originals(journal[r].inv)
    /\ journal[r].amount = journal[journal[r].reverses].amount

\* Of an invoice that requests have treated one after the other: who treats it
\* is alone and has no link to overwrite; its purchase is posted once, and
\* linked or about to be; it is taken back once, and is cancelled then or
\* about to be.
Settled(i) ==
  /\ \A p, q \in Requests : req[p].inv = i /\ req[q].inv = i => p = q
  /\ \A p \in Requests :
       req[p].inv = i =>
         Exists(i) /\ (req[p].pc \in {"create", "post", "link"} => invoices[i].entry = 0)
  /\ \A e \in Originals(i) :
       /\ \/ e = invoices[i].entry
          \/ \E p \in Requests : At(p, "link") /\ req[p].inv = i /\ req[p].new = e
       /\ \A r, s \in Reversals(e) : r = s
       /\ Reversals(e) # {} =>
            \/ invoices[i].status = "cancelled" /\ ~AtWork(i)
            \/ \E p \in Requests : At(p, "status") /\ req[p].inv = i /\ req[p].target = "cancelled"

\* UNIQUE (supplier_id, supplier_reference)
KeysUnique ==
  \A i, j \in Invoices :
    Exists(i) /\ Exists(j) /\ invoices[i].key = invoices[j].key => i = j

BooksInv ==
  /\ \A p \in Requests : ChainOf(p)
  /\ \A r \in Entries : ReversalOK(r)
  /\ \A i \in Invoices \ disturbed : Settled(i)
  /\ KeysUnique

\* A step of request p and of no other.
Moves(p) ==
  /\ req' = [q \in Requests |-> req'[q]]
  /\ \A q \in Requests \ {p} : req'[q] = req[q]

\* What is posted stays as it is.
JournalKept ==
  /\ Entries \subseteq Entries'
  /\ \A e \in Entries : Posted(e) => journal'[e] = journal[e]

LEMMA OriginalsGrow ==
  ASSUME JournalKept, NEW i
  PROVE  Originals(i) \subseteq Originals(i)'
  BY DEF JournalKept, Originals, Posted

\* No entry is numbered 0.
LEMMA NoEntryZero ==
  ASSUME SuppliersInv
  PROVE  0 \notin Entries /\ \A i : Originals(i) \subseteq Entries
  BY Tables DEF Originals

LEMMA ChainKept ==
  ASSUME SuppliersInv, BooksInv, NEW p \in Requests, Moves(p), JournalKept, ChainOf(p)',
         \A q \in Requests \ {p} : Owner(q) => journal'[req[q].new] = journal[req[q].new]
  PROVE  \A q \in Requests : ChainOf(q)'
<1> SUFFICES ASSUME NEW q \in Requests \ {p} PROVE ChainOf(q)'
  OBVIOUS
<1>1. req'[q] = req[q] /\ ChainOf(q)
  BY DEF Moves, BooksInv
<1>2. Owner(q) => /\ journal'[req[q].new] = journal[req[q].new]
                  /\ Owner(q)'
  BY <1>1 DEF Owner
<1>3. Owner(q)' => ~Posted(req[q].new)' /\ journal'[req'[q].new].inv = req'[q].inv
  BY <1>1, <1>2 DEF ChainOf, Owner, Posted
<1>4. (At(q, "reverse") \/ At(q, "mark") => req[q].entry \in Originals(req[q].inv))'
  BY <1>1 DEF ChainOf, At, Originals, Posted, JournalKept
<1>5. At(q, "mark")' => journal'[req'[q].new].amount = journal'[req'[q].entry].amount
  <2> SUFFICES ASSUME At(q, "mark")
               PROVE  journal'[req[q].new].amount = journal'[req[q].entry].amount
    BY <1>1 DEF At
  <2>1. journal'[req[q].new] = journal[req[q].new]
    BY <1>2 DEF At, Owner
  <2>2. journal'[req[q].entry] = journal[req[q].entry]
    BY <1>1 DEF ChainOf, Originals, JournalKept
  <2> QED
    BY <1>1, <2>1, <2>2 DEF ChainOf
<1>6. At(q, "settle")' => journal'[req'[q].new].reverses # 0
  BY <1>1, <1>2 DEF ChainOf, At, Owner
<1> QED
  BY <1>3, <1>4, <1>5, <1>6 DEF ChainOf, Owner, At, Posted, Originals

LEMMA ReversalsKept ==
  ASSUME SuppliersInv, BooksInv, JournalKept,
         \A r \in Entries' :
           \/ /\ r \in Entries
              /\ journal'[r].reverses = journal[r].reverses
              /\ journal'[r].inv = journal[r].inv /\ journal'[r].amount = journal[r].amount
           \/ ReversalOK(r)'
  PROVE  \A r \in Entries' : ReversalOK(r)'
<1> SUFFICES ASSUME NEW r \in Entries, journal'[r].reverses = journal[r].reverses,
                    journal'[r].inv = journal[r].inv, journal'[r].amount = journal[r].amount,
                    journal[r].reverses # 0
             PROVE  /\ journal[r].reverses \in Originals(journal[r].inv)'
                    /\ journal[r].amount = journal'[journal[r].reverses].amount
  BY DEF ReversalOK
<1>1. /\ journal[r].reverses \in Originals(journal[r].inv)
      /\ journal[r].amount = journal[journal[r].reverses].amount
  BY DEF BooksInv, ReversalOK
<1>2. journal'[journal[r].reverses] = journal[journal[r].reverses]
  BY <1>1 DEF Originals, JournalKept
<1> QED
  BY <1>1, <1>2, OriginalsGrow

\* The entries of an invoice are as they were, and no entry of it is new.
EntriesSame(j) ==
  \A e \in Entries' :
    \/ e \in Entries /\ journal'[e] = journal[e]
    \/ journal'[e].inv # j /\ (e \in Entries => journal[e].inv # j)

\* Its purchases and what reverses them, then, are too.
LEMMA BookedSame ==
  ASSUME SuppliersInv, BooksInv, JournalKept, \A r \in Entries' : ReversalOK(r)',
         NEW j, EntriesSame(j)
  PROVE  /\ Originals(j)' = Originals(j)
         /\ \A e \in Originals(j) : Reversals(e)' = Reversals(e)
<1>1. Originals(j)' = Originals(j)
  <2>1. ASSUME NEW e \in Originals(j)'
        PROVE  e \in Originals(j)
    <3>1. e \in Entries /\ journal'[e] = journal[e]
      BY <2>1 DEF Originals, EntriesSame
    <3> QED
      BY <2>1, <3>1 DEF Originals, Posted
  <2> QED
    BY <2>1, OriginalsGrow
<1>2. ASSUME NEW e \in Originals(j)
      PROVE  Reversals(e)' = Reversals(e)
  <2>0. e # 0
    BY NoEntryZero
  <2>1. ASSUME NEW r \in Reversals(e)
        PROVE  r \in Reversals(e)'
    BY <2>1 DEF Reversals, Posted, JournalKept
  <2>2. ASSUME NEW r \in Reversals(e)'
        PROVE  r \in Reversals(e)
    <3>1. r \in Entries' /\ journal'[r].reverses = e /\ journal'[r].status = "posted"
      BY <2>2 DEF Reversals, Posted
    <3>2. e \in Entries' /\ journal'[e].inv = journal'[r].inv
      BY <2>0, <3>1 DEF ReversalOK, Originals
    <3>3. journal'[r].inv = j
      BY <1>1, <3>2 DEF Originals
    <3>4. r \in Entries /\ journal'[r] = journal[r]
      BY <3>1, <3>3 DEF EntriesSame
    <3> QED
      BY <3>1, <3>4 DEF Reversals, Posted
  <2> QED
    BY <2>1, <2>2
<1> QED
  BY <1>1, <1>2

\* An invoice on which the request is not at work stays as it was.
LEMMA SettledKept ==
  ASSUME SuppliersInv, BooksInv, NEW p \in Requests, Moves(p), JournalKept,
         \A r \in Entries' : ReversalOK(r)',
         NEW j \in Invoices \ disturbed, req[p].inv # j, req'[p].inv # j,
         invoices'[j] = invoices[j], EntriesSame(j)
  PROVE  Settled(j)'
<1>1. Settled(j)
  BY DEF BooksInv
<1>2. \A q \in Requests : (req'[q].inv = j \/ req[q].inv = j) => req'[q] = req[q]
  BY DEF Moves
<1>3. Originals(j)' = Originals(j) /\ \A e \in Originals(j) : Reversals(e)' = Reversals(e)
  BY BookedSame
<1>4. AtWork(j)' = AtWork(j)
  BY <1>2 DEF AtWork
<1>5. Exists(j)' = Exists(j)
  BY DEF Exists
<1>6. ASSUME NEW e \in Originals(j)
      PROVE  /\ \/ e = invoices'[j].entry
                \/ \E q \in Requests : At(q, "link")' /\ req'[q].inv = j /\ req'[q].new = e
             /\ \A r, s \in Reversals(e) : r = s
             /\ Reversals(e) # {} =>
                  \/ invoices'[j].status = "cancelled" /\ ~AtWork(j)
                  \/ \E q \in Requests : At(q, "status")' /\ req'[q].inv = j
                                          /\ req'[q].target = "cancelled"
  <2>1. /\ \/ e = invoices[j].entry
           \/ \E q \in Requests : At(q, "link") /\ req[q].inv = j /\ req[q].new = e
        /\ \A r, s \in Reversals(e) : r = s
        /\ Reversals(e) # {} =>
             \/ invoices[j].status = "cancelled" /\ ~AtWork(j)
             \/ \E q \in Requests : At(q, "status") /\ req[q].inv = j
                                     /\ req[q].target = "cancelled"
    BY <1>1 DEF Settled
  <2> QED
    BY <1>2, <2>1 DEF At
<1> QED
  BY <1>1, <1>2, <1>3, <1>4, <1>5, <1>6 DEF Settled

\* No key is taken twice by a step that gives no row another key and brings
\* no deleted row back.
LEMMA KeysKept ==
  ASSUME BooksInv, Invoices' = Invoices,
         \A i \in Invoices : invoices'[i].key = invoices[i].key /\ (Exists(i)' => Exists(i))
  PROVE  KeysUnique'
  BY DEF BooksInv, KeysUnique

\* What a step on invoice i has to show of the bookings.
LEMMA StepBooks ==
  ASSUME SuppliersInv, BooksInv, NEW p \in Requests, Moves(p), JournalKept, ChainOf(p)',
         NEW i \in Invoices, req[p].inv \in {i, 0}, req'[p].inv \in {i, 0},
         Invoices' = Invoices, \A j \in Invoices \ {i} : invoices'[j] = invoices[j],
         \A q \in Requests \ {p} : Owner(q) => journal'[req[q].new] = journal[req[q].new],
         \A r \in Entries' :
           \/ r \in Entries /\ journal'[r] = journal[r]
           \/ /\ journal'[r].inv = i
              /\ r \in Entries => /\ journal[r].inv = i
                                  /\ journal'[r].amount = journal[r].amount
              /\ (r \in Entries /\ journal'[r].reverses = journal[r].reverses) \/ ReversalOK(r)',
         disturbed \subseteq disturbed',
         i \notin disturbed' /\ (\A r \in Entries' : ReversalOK(r)') => Settled(i)',
         KeysUnique'
  PROVE  BooksInv'
<1>1. \A q \in Requests : ChainOf(q)'
  BY ChainKept
<1>2. \A r \in Entries' : ReversalOK(r)'
  BY ReversalsKept
<1>3. \A j \in Invoices \ disturbed' : Settled(j)'
  <2> SUFFICES ASSUME NEW j \in Invoices \ disturbed', j # i PROVE Settled(j)'
    BY <1>2
  <2>1. EntriesSame(j)
    BY DEF EntriesSame
  <2>2. req[p].inv # j /\ req'[p].inv # j
    BY Tables
  <2> QED
    BY <1>2, <2>1, <2>2, SettledKept
<1> QED
  BY <1>1, <1>2, <1>3 DEF BooksInv

\* The same of a step that leaves the journal alone.
LEMMA QuietBooks ==
  ASSUME SuppliersInv, BooksInv, NEW p \in Requests, Moves(p), journal' = journal, ChainOf(p)',
         NEW i \in Invoices, req[p].inv \in {i, 0}, req'[p].inv \in {i, 0},
         Invoices' = Invoices, \A j \in Invoices \ {i} : invoices'[j] = invoices[j],
         disturbed \subseteq disturbed', i \notin disturbed' => Settled(i)', KeysUnique'
  PROVE  BooksInv'
<1>1. Entries' = Entries /\ JournalKept
  BY DEF Entries, JournalKept
<1> QED
  BY <1>1, StepBooks

\* While a request other than the end of a cancellation is at work on it, no
\* purchase of an invoice has been taken back.
LEMMA NotReversed ==
  ASSUME BooksInv, NEW p \in Requests, NEW i \in Invoices \ disturbed, req[p].inv = i,
         ~(At(p, "status") /\ req[p].target = "cancelled"), NEW e \in Originals(i)
  PROVE  Reversals(e) = {}
<1>1. Settled(i) /\ AtWork(i)
  BY DEF BooksInv, AtWork
<1> QED
  BY <1>1 DEF Settled

\* Without a new entry, purchases and reversals are what they were.
LEMMA SameEntries ==
  ASSUME journal' = journal
  PROVE  \A i : Originals(i)' = Originals(i) /\ Reversals(i)' = Reversals(i)
  BY DEF Originals, Reversals, Posted, Entries

\* A request that begins finds the invoice alone, or disturbs it.
LEMMA BeginBooks ==
  ASSUME SuppliersInv, BooksInv, NEW p \in Requests, NEW i \in Invoices, NEW r, Begin(p, r),
         UNCHANGED <<invoices, journal>>, r.inv = i, Exists(i), invoices[i].status # "cancelled",
         \/ r.pc \in {"update", "delete", "book", "erase", "status"}
         \/ r.pc = "reverse" /\ r.entry \in Originals(i)
  PROVE  BooksInv'
<1>1. Moves(p) /\ req'[p] = r
  BY Tables, BeginEffect DEF Moves
<1>2. Invoices' = Invoices /\ KeysUnique'
  BY DEF BooksInv, KeysUnique, Exists, Invoices
<1>3. req[p].inv = 0 /\ disturbed \subseteq disturbed'
  BY DEF Begin, Idle
<1>4. ChainOf(p)'
  BY <1>1, SameEntries DEF ChainOf, Owner, At
<1>5. ASSUME i \notin disturbed'
      PROVE  Settled(i)'
  <2>1. \A q \in Requests : req[q].inv # i
    BY <1>5 DEF Begin
  <2>2. Settled(i) /\ ~AtWork(i)
    BY <1>3, <1>5, <2>1 DEF BooksInv, AtWork
  <2>3. \A q \in Requests : req'[q].inv = i => q = p
    BY <1>1, <2>1 DEF Moves
  <2>4. \A e \in Originals(i) : e = invoices[i].entry /\ Reversals(e) = {}
    BY <2>1, <2>2 DEF Settled
  <2>5. Exists(i)' /\ invoices'[i].entry = invoices[i].entry
    BY DEF Exists
  <2> QED
    BY <1>1, <2>3, <2>4, <2>5, SameEntries DEF Settled
<1> QED
  BY <1>1, <1>2, <1>3, <1>4, <1>5, QuietBooks

\* A request that ends leaves the invoice to others.
LEMMA FinishBooks ==
  ASSUME SuppliersInv, BooksInv, NEW p \in Requests, Finish(p), journal' = journal,
         NEW i \in Invoices, req[p].inv = i, ~At(p, "link"), disturbed \subseteq disturbed',
         Invoices' = Invoices, \A j \in Invoices \ {i} : invoices'[j] = invoices[j],
         i \notin disturbed' =>
           /\ invoices'[i].entry = invoices[i].entry
           /\ \A e \in Originals(i) : Reversals(e) # {} => invoices'[i].status = "cancelled",
         KeysUnique'
  PROVE  BooksInv'
<1>1. Moves(p) /\ req'[p] = Idle
  BY Tables, FinishEffect DEF Moves
<1>2. ChainOf(p)' /\ req'[p].inv = 0
  BY <1>1 DEF ChainOf, Owner, At, Idle
<1>3. ASSUME i \notin disturbed'
      PROVE  Settled(i)'
  <2>1. Settled(i)
    BY <1>3 DEF BooksInv
  <2>2. \A q \in Requests : req'[q].inv # i
    <3>1. \A q \in Requests \ {p} : req[q].inv # i
      BY <2>1 DEF Settled
    <3> QED
      BY <1>1, <1>2, <3>1, Tables DEF Moves
  <2>3. \A e \in Originals(i) : e = invoices'[i].entry
    <3>1. ASSUME NEW q \in Requests, At(q, "link"), req[q].inv = i PROVE FALSE
      BY <2>1, <3>1 DEF Settled
    <3> QED
      BY <1>3, <2>1, <3>1 DEF Settled
  <2>4. \A e \in Originals(i) :
          /\ \A r, s \in Reversals(e) : r = s
          /\ Reversals(e) # {} => invoices'[i].status = "cancelled"
    BY <1>3, <2>1 DEF Settled
  <2>5. ~AtWork(i)'
    BY <2>2 DEF AtWork
  <2> QED
    BY <2>2, <2>3, <2>4, <2>5, SameEntries DEF Settled
<1> QED
  BY <1>1, <1>2, <1>3, QuietBooks

\* A request that goes on, from one that has reversed nothing.
LEMMA GoBooks ==
  ASSUME SuppliersInv, BooksInv, NEW p \in Requests, Moves(p), journal' = journal,
         UNCHANGED <<invoices, disturbed>>, NEW i \in Invoices, req[p].inv = i, req'[p].inv = i,
         At(p, "book"),
         \/ req'[p].pc = "status"
         \/ req'[p].pc = "create" /\ invoices[i].entry = 0
  PROVE  BooksInv'
<1>1. ChainOf(p)'
  BY DEF ChainOf, Owner, At
<1>2. Invoices' = Invoices /\ KeysUnique'
  BY DEF BooksInv, KeysUnique, Exists, Invoices
<1>3. ASSUME i \notin disturbed'
      PROVE  Settled(i)'
  <2>1. Settled(i)
    BY <1>3 DEF BooksInv
  <2>2. \A q \in Requests : req'[q].inv = i => q = p
    BY <2>1 DEF Settled, Moves
  <2>3. \A e \in Originals(i) : e = invoices[i].entry /\ Reversals(e) = {}
    <3>1. ASSUME NEW e \in Originals(i) PROVE Reversals(e) = {}
      BY <1>3, NotReversed DEF At
    <3>2. ASSUME NEW q \in Requests, At(q, "link"), req[q].inv = i PROVE FALSE
      BY <2>1, <3>2 DEF Settled, At
    <3> QED
      BY <2>1, <3>1, <3>2 DEF Settled
  <2>4. Exists(i)'
    BY <2>1 DEF Settled, Exists
  <2> QED
    BY <2>2, <2>3, <2>4, SameEntries DEF Settled
<1> QED
  BY <1>1, <1>2, <1>3, QuietBooks

\* A draft that one request has created, of the invoice it is at work on.
LEMMA CreationBooks ==
  ASSUME SuppliersInv, BooksInv, NEW p \in Requests, Moves(p), UNCHANGED <<invoices, disturbed>>,
         NEW i \in Invoices, req[p].inv = i, req'[p].inv = i, NEW amount \in Totals,
         Len(journal) < MaxEntries, journal' = Append(journal, Draft(i, amount)),
         req'[p].new = Len(journal) + 1,
         \/ At(p, "create") /\ req'[p].pc = "post"
         \/ /\ At(p, "reverse") /\ req'[p].pc = "mark" /\ req'[p].entry = req[p].entry
            /\ amount = journal[req[p].entry].amount
  PROVE  BooksInv'
<1>0. PICK e : e = Len(journal) + 1
  OBVIOUS
<1> DEFINE row == Draft(i, amount)
<1>1. row \in EntryRow /\ row.inv = i /\ row.reverses = 0 /\ row.status = "draft"
      /\ row.amount = amount
  BY SuppliersAssumption DEF Draft, EntryRow
<1> HIDE DEF row
<1>2. /\ \A x \in Entries : journal'[x] = journal[x]
      /\ journal'[e] = row /\ Entries' = Entries \cup {e} /\ e \notin Entries
  <2>1. /\ journal' \in Seq(EntryRow) /\ Len(journal') = e
        /\ \A x \in Entries : journal'[x] = journal[x]
        /\ journal'[e] = row
    BY <1>0, <1>1, Tables DEF row
  <2>2. Entries' = 1 .. e
    BY <2>1 DEF Entries
  <2> QED
    BY <1>0, <2>1, <2>2, Tables
<1>3. JournalKept
  BY <1>2 DEF JournalKept
<1>4. ReversalOK(e)'
  BY <1>1, <1>2 DEF ReversalOK
<1>5. \A q \in Requests \ {p} : Owner(q) => journal'[req[q].new] = journal[req[q].new]
  <2>1. \A q \in Requests : Owner(q) => req[q].new \in Entries
    BY Tables DEF RequestsOK, RequestOK
  <2> QED
    BY <1>2, <2>1
<1>6. Invoices' = Invoices /\ KeysUnique'
  BY DEF BooksInv, KeysUnique, Exists, Invoices
<1>7. Originals(i)' = Originals(i) /\ \A x \in Entries : Reversals(x)' = Reversals(x)
  BY <1>1, <1>2 DEF Originals, Reversals, Posted
<1>8. ChainOf(p)'
  <2>1. CASE At(p, "create") /\ req'[p].pc = "post"
    <3>1. /\ req'[p].pc = "post" /\ req'[p].new = e /\ req'[p].inv = i
          /\ journal'[e].status = "draft" /\ journal'[e].inv = i
      BY <1>0, <1>1, <1>2, <2>1
    <3> QED
      BY <3>1 DEF ChainOf, Owner, At, Posted
  <2>2. CASE /\ At(p, "reverse") /\ req'[p].pc = "mark" /\ req'[p].entry = req[p].entry
             /\ amount = journal[req[p].entry].amount
    <3>1. req[p].entry \in Originals(i)
      BY <2>2 DEF BooksInv, ChainOf
    <3>2. /\ req'[p].pc = "mark" /\ req'[p].new = e /\ req'[p].inv = i
          /\ req'[p].entry = req[p].entry
          /\ journal'[e].status = "draft" /\ journal'[e].inv = i
          /\ journal'[e].amount = journal[req[p].entry].amount
      BY <1>0, <1>1, <1>2, <2>2
    <3>3. /\ req[p].entry \in Entries' /\ journal'[req[p].entry] = journal[req[p].entry]
          /\ journal[req[p].entry].inv = i /\ journal[req[p].entry].reverses = 0
          /\ journal[req[p].entry].status = "posted"
      BY <1>2, <3>1 DEF Originals, Posted
    <3> QED
      BY <3>2, <3>3 DEF ChainOf, Owner, At, Posted, Originals
  <2> QED
    BY <2>1, <2>2
<1>9. ASSUME i \notin disturbed'
      PROVE  Settled(i)'
  <2>1. Settled(i)
    BY <1>9 DEF BooksInv
  <2>2. \A q \in Requests : req'[q].inv = i => q = p
    BY <2>1 DEF Settled, Moves
  <2>3. \A x \in Originals(i) : x = invoices[i].entry /\ Reversals(x) = {}
    <3>1. ASSUME NEW x \in Originals(i) PROVE Reversals(x) = {}
      BY <1>9, NotReversed DEF At
    <3>2. ASSUME NEW q \in Requests, At(q, "link"), req[q].inv = i PROVE FALSE
      BY <2>1, <3>2 DEF Settled, At
    <3> QED
      BY <2>1, <3>1, <3>2 DEF Settled
  <2>4. Exists(i)' /\ (req'[p].pc \in {"create", "post", "link"} => invoices'[i].entry = 0)
    BY <2>1 DEF Settled, Exists, At
  <2>5. Originals(i) \subseteq Entries
    BY DEF Originals
  <2> QED
    BY <1>7, <2>2, <2>3, <2>4, <2>5 DEF Settled
<1>10. \A r \in Entries' :
         \/ r \in Entries /\ journal'[r] = journal[r]
         \/ /\ journal'[r].inv = i
            /\ r \in Entries => /\ journal[r].inv = i
                                /\ journal'[r].amount = journal[r].amount
            /\ (r \in Entries /\ journal'[r].reverses = journal[r].reverses) \/ ReversalOK(r)'
  BY <1>1, <1>2, <1>4
<1> QED
  BY <1>3, <1>5, <1>6, <1>8, <1>9, <1>10, StepBooks

\* A write over the draft that the request owns.
LEMMA DraftWritten ==
  ASSUME SuppliersInv, BooksInv, NEW p \in Requests, Owner(p), NEW row \in EntryRow,
         journal' = [journal EXCEPT ![req[p].new] = row]
  PROVE  /\ ~Posted(req[p].new) /\ Entries' = Entries /\ journal'[req[p].new] = row
         /\ journal[req[p].new].inv = req[p].inv
         /\ \A x \in Entries : x # req[p].new => journal'[x] = journal[x]
         /\ JournalKept
         /\ \A q \in Requests \ {p} : Owner(q) => journal'[req[q].new] = journal[req[q].new]
<1>1. ~Posted(req[p].new) /\ journal[req[p].new].inv = req[p].inv
  BY DEF BooksInv, ChainOf
<1>2. Posted(req[p].new) => row = journal[req[p].new]
  BY <1>1
<1>3. /\ req[p].new \in Entries /\ Entries' = Entries /\ journal'[req[p].new] = row
      /\ \A x \in Entries : Posted(x) => journal'[x] = journal[x]
      /\ \A q \in Requests \ {p} : Owner(q) =>
           journal'[req[q].new] = journal[req[q].new] /\ req[p].new # req[q].new
  BY <1>2, OwnedWritten
<1>4. \A x \in Entries : x # req[p].new => journal'[x] = journal[x]
  BY <1>3, Tables
<1> QED
  BY <1>1, <1>3, <1>4 DEF JournalKept

LEMMA BookPostBooks ==
  ASSUME SuppliersInv, BooksInv, NEW p \in Requests, BookPost(p), Moves(p),
         req'[p].pc = "link", req'[p].inv = req[p].inv, req'[p].new = req[p].new
  PROVE  BooksInv'
<1>1. PICK e : e = req[p].new
  OBVIOUS
<1>2. PICK i : i = req[p].inv
  OBVIOUS
<1>3. At(p, "post") /\ Owner(p) /\ i \in Invoices /\ e \in Entries
  BY <1>1, <1>2, Tables DEF BookPost, At, Owner, RequestsOK, RequestOK
<1> DEFINE row == [journal[e] EXCEPT !.status = "posted"]
<1>4. row \in EntryRow /\ row.status = "posted" /\ row.inv = i /\ row.reverses = 0
      /\ row.amount = journal[e].amount
  <2>1. journal[e] \in EntryRow
    BY <1>3, Tables
  <2>2. journal[e].inv = i /\ journal[e].reverses = 0
    BY <1>1, <1>2, <1>3 DEF SuppliersInv, BookingOK
  <2> QED
    BY <2>1, <2>2 DEF EntryRow
<1>5. journal' = [journal EXCEPT ![req[p].new] = row] /\ UNCHANGED <<invoices, disturbed>>
  BY <1>1 DEF BookPost, PostEntry
<1> HIDE DEF row
<1>6. /\ ~Posted(e) /\ Entries' = Entries /\ journal'[e] = row /\ journal[e].inv = i
      /\ \A x \in Entries : x # e => journal'[x] = journal[x]
      /\ JournalKept
      /\ \A q \in Requests \ {p} : Owner(q) => journal'[req[q].new] = journal[req[q].new]
  <2>1. /\ ~Posted(req[p].new) /\ Entries' = Entries /\ journal'[req[p].new] = row
        /\ journal[req[p].new].inv = req[p].inv
        /\ \A x \in Entries : x # req[p].new => journal'[x] = journal[x]
        /\ JournalKept
        /\ \A q \in Requests \ {p} : Owner(q) => journal'[req[q].new] = journal[req[q].new]
    BY <1>3, <1>4, <1>5, DraftWritten
  <2> QED
    BY <1>1, <1>2, <2>1
<1>7. Invoices' = Invoices /\ KeysUnique'
  BY <1>5 DEF BooksInv, KeysUnique, Exists, Invoices
<1>8. ChainOf(p)'
  BY DEF ChainOf, Owner, At
<1>9. ASSUME i \notin disturbed'
      PROVE  Settled(i)'
  <2>1. Settled(i)
    BY <1>3, <1>5, <1>9 DEF BooksInv
  <2>2. \A q \in Requests : req'[q].inv = i => q = p
    BY <1>2, <2>1 DEF Settled, Moves
  <2>3. Exists(i)' /\ invoices'[i].entry = 0
    BY <1>2, <1>3, <1>5, <2>1 DEF Settled, Exists, At
  <2>4. Originals(i) = {}
    <3>1. invoices[i].entry = 0
      BY <1>5, <2>3
    <3>2. ASSUME NEW q \in Requests, At(q, "link"), req[q].inv = i PROVE FALSE
      BY <1>2, <1>3, <2>1, <3>2 DEF Settled, At
    <3> QED
      BY <2>1, <3>1, <3>2, NoEntryZero DEF Settled
  <2>5. \A x \in Originals(i)' : x = e
    BY <1>6, <2>4 DEF Originals, Posted
  <2>6. Reversals(e)' = {}
    <3> SUFFICES ASSUME NEW r \in Entries, r # e, journal[r].reverses = e PROVE FALSE
      BY <1>3, <1>4, <1>6, NoEntryZero DEF Reversals
    <3>1. Posted(e)
      BY <1>3, NoEntryZero DEF BooksInv, ReversalOK, Originals
    <3> QED
      BY <1>6, <3>1
  <2>7. At(p, "link")' /\ req'[p].inv = i /\ req'[p].new = e
    BY <1>1, <1>2 DEF At
  <2> QED
    BY <2>2, <2>3, <2>5, <2>6, <2>7 DEF Settled
<1>10. \A r \in Entries' :
         \/ r \in Entries /\ journal'[r] = journal[r]
         \/ /\ journal'[r].inv = i /\ journal[r].inv = i /\ r \in Entries
            /\ journal'[r].amount = journal[r].amount
            /\ ReversalOK(r)'
  <2>1. ReversalOK(e)'
    BY <1>4, <1>6 DEF ReversalOK
  <2> QED
    BY <1>4, <1>6, <2>1
<1> QED
  BY <1>2, <1>3, <1>5, <1>6, <1>7, <1>8, <1>9, <1>10, StepBooks

LEMMA ReverseMarkBooks ==
  ASSUME SuppliersInv, BooksInv, NEW p \in Requests, ReverseMark(p), Moves(p),
         req'[p].pc = "settle", req'[p].inv = req[p].inv, req'[p].new = req[p].new
  PROVE  BooksInv'
<1>1. PICK e : e = req[p].new
  OBVIOUS
<1>2. PICK i : i = req[p].inv
  OBVIOUS
<1>3. PICK x : x = req[p].entry
  OBVIOUS
<1>4. At(p, "mark") /\ Owner(p) /\ i \in Invoices /\ e \in Entries /\ x \in Entries
  BY <1>1, <1>2, <1>3, Tables DEF ReverseMark, At, Owner, RequestsOK, RequestOK
<1>5. x \in Originals(i) /\ journal[e].amount = journal[x].amount
  BY <1>1, <1>2, <1>3, <1>4 DEF BooksInv, ChainOf
<1> DEFINE row == [journal[e] EXCEPT !.reverses = x]
<1>6. row \in EntryRow /\ row.status = journal[e].status /\ row.inv = journal[e].inv
      /\ row.reverses = x /\ row.amount = journal[e].amount
  <2>1. journal[e] \in EntryRow /\ x \in 0 .. MaxEntries
    BY <1>4, Tables, SuppliersAssumption
  <2> QED
    BY <2>1 DEF EntryRow
<1>7. journal' = [journal EXCEPT ![req[p].new] = row] /\ UNCHANGED <<invoices, disturbed>>
  BY <1>1, <1>3 DEF ReverseMark
<1> HIDE DEF row
<1>8. /\ ~Posted(e) /\ Entries' = Entries /\ journal'[e] = row /\ journal[e].inv = i
      /\ \A y \in Entries : y # e => journal'[y] = journal[y]
      /\ JournalKept
      /\ \A q \in Requests \ {p} : Owner(q) => journal'[req[q].new] = journal[req[q].new]
  <2>1. /\ ~Posted(req[p].new) /\ Entries' = Entries /\ journal'[req[p].new] = row
        /\ journal[req[p].new].inv = req[p].inv
        /\ \A y \in Entries : y # req[p].new => journal'[y] = journal[y]
        /\ JournalKept
        /\ \A q \in Requests \ {p} : Owner(q) => journal'[req[q].new] = journal[req[q].new]
    BY <1>4, <1>6, <1>7, DraftWritten
  <2> QED
    BY <1>1, <1>2, <2>1
<1>9. Originals(i)' = Originals(i) /\ \A y : Reversals(y)' = Reversals(y)
  BY <1>6, <1>8 DEF Originals, Reversals, Posted
<1>10. Invoices' = Invoices /\ KeysUnique'
  BY <1>7 DEF BooksInv, KeysUnique, Exists, Invoices
<1>11. ChainOf(p)'
  <2>1. journal'[e].status # "posted" /\ journal'[e].inv = i /\ journal'[e].reverses # 0
    BY <1>4, <1>6, <1>8, NoEntryZero DEF Posted
  <2> QED
    BY <1>1, <1>2, <2>1 DEF ChainOf, Owner, At, Posted
<1>12. ReversalOK(e)'
  <2>1. x # e /\ journal'[x] = journal[x]
    BY <1>4, <1>5, <1>8 DEF Originals
  <2>2. x \in Originals(i)'
    BY <1>5, <1>9
  <2>3. /\ journal'[e].reverses = x /\ journal'[e].inv = i
        /\ journal'[e].amount = journal'[x].amount
    BY <1>5, <1>6, <1>8, <2>1
  <2> QED
    BY <2>2, <2>3 DEF ReversalOK, Originals, Posted
<1>13. ASSUME i \notin disturbed'
       PROVE  Settled(i)'
  <2>1. Settled(i)
    BY <1>4, <1>7, <1>13 DEF BooksInv
  <2>2. \A q \in Requests : req'[q].inv = i => q = p
    BY <1>2, <2>1 DEF Settled, Moves
  <2>3. Exists(i)' /\ req'[p].pc \notin {"create", "post", "link"}
    BY <1>2, <1>7, <2>1 DEF Settled, Exists
  <2>4. \A y \in Originals(i) : y = invoices'[i].entry /\ Reversals(y) = {}
    <3>1. ASSUME NEW y \in Originals(i) PROVE Reversals(y) = {}
      BY <1>2, <1>4, <1>7, <1>13, NotReversed DEF At
    <3>2. ASSUME NEW q \in Requests, At(q, "link"), req[q].inv = i PROVE FALSE
      BY <1>2, <1>4, <2>1, <3>2 DEF Settled, At
    <3> QED
      BY <1>7, <2>1, <3>1, <3>2 DEF Settled
  <2> QED
    BY <1>9, <2>2, <2>3, <2>4 DEF Settled
<1>14. \A r \in Entries' :
         \/ r \in Entries /\ journal'[r] = journal[r]
         \/ /\ journal'[r].inv = i /\ journal[r].inv = i /\ r \in Entries
            /\ journal'[r].amount = journal[r].amount
            /\ ReversalOK(r)'
  BY <1>6, <1>8, <1>12
<1> QED
  BY <1>2, <1>4, <1>7, <1>8, <1>10, <1>11, <1>13, <1>14, StepBooks

LEMMA ReversePostBooks ==
  ASSUME SuppliersInv, BooksInv, NEW p \in Requests, ReversePost(p), Moves(p),
         req'[p].pc = "status", req'[p].inv = req[p].inv, req'[p].target = "cancelled"
  PROVE  BooksInv'
<1>1. PICK e : e = req[p].new
  OBVIOUS
<1>2. PICK i : i = req[p].inv
  OBVIOUS
<1>3. At(p, "settle") /\ Owner(p) /\ i \in Invoices /\ e \in Entries
  BY <1>1, <1>2, Tables DEF ReversePost, At, Owner, RequestsOK, RequestOK
<1>4. journal[e].reverses # 0
  BY <1>1, <1>3 DEF BooksInv, ChainOf
<1> DEFINE row == [journal[e] EXCEPT !.status = "posted"]
<1>5. row \in EntryRow /\ row.inv = journal[e].inv
      /\ row.reverses = journal[e].reverses /\ row.amount = journal[e].amount
  <2>1. journal[e] \in EntryRow
    BY <1>3, Tables
  <2> QED
    BY <2>1 DEF EntryRow
<1>6. journal' = [journal EXCEPT ![req[p].new] = row] /\ UNCHANGED <<invoices, disturbed>>
  BY <1>1 DEF ReversePost, PostEntry
<1> HIDE DEF row
<1>7. /\ Entries' = Entries /\ journal'[e] = row /\ journal[e].inv = i
      /\ \A x \in Entries : x # e => journal'[x] = journal[x]
      /\ JournalKept
      /\ \A q \in Requests \ {p} : Owner(q) => journal'[req[q].new] = journal[req[q].new]
  <2>1. /\ ~Posted(req[p].new) /\ Entries' = Entries /\ journal'[req[p].new] = row
        /\ journal[req[p].new].inv = req[p].inv
        /\ \A x \in Entries : x # req[p].new => journal'[x] = journal[x]
        /\ JournalKept
        /\ \A q \in Requests \ {p} : Owner(q) => journal'[req[q].new] = journal[req[q].new]
    BY <1>3, <1>5, <1>6, DraftWritten
  <2> QED
    BY <1>1, <1>2, <2>1
<1>8. Invoices' = Invoices /\ KeysUnique'
  BY <1>6 DEF BooksInv, KeysUnique, Exists, Invoices
<1>9. ChainOf(p)'
  BY DEF ChainOf, Owner, At
<1>10. ASSUME i \notin disturbed'
       PROVE  Settled(i)'
  <2>1. Settled(i)
    BY <1>3, <1>6, <1>10 DEF BooksInv
  <2>2. \A q \in Requests : req'[q].inv = i => q = p
    BY <1>2, <2>1 DEF Settled, Moves
  <2>3. Exists(i)'
    BY <1>2, <1>6, <2>1 DEF Settled, Exists
  <2>4. \A y \in Originals(i) : y = invoices'[i].entry /\ Reversals(y) = {}
    <3>1. ASSUME NEW y \in Originals(i) PROVE Reversals(y) = {}
      BY <1>2, <1>3, <1>6, <1>10, NotReversed DEF At
    <3>2. ASSUME NEW q \in Requests, At(q, "link"), req[q].inv = i PROVE FALSE
      BY <1>2, <1>3, <2>1, <3>2 DEF Settled, At
    <3> QED
      BY <1>6, <2>1, <3>1, <3>2 DEF Settled
  <2>5. \A y \in Originals(i)' : y \in Originals(i)
    BY <1>4, <1>5, <1>7 DEF Originals, Posted
  <2>6. ASSUME NEW y \in Originals(i)
        PROVE  \A r \in Reversals(y)' : r = e
    <3>1. Reversals(y) = {}
      BY <2>4
    <3> QED
      BY <1>7, <3>1 DEF Reversals, Posted
  <2>7. At(p, "status")' /\ req'[p].inv = i /\ req'[p].target = "cancelled"
    BY <1>2 DEF At
  <2> QED
    BY <2>2, <2>3, <2>4, <2>5, <2>6, <2>7 DEF Settled, At
<1>11. \A r \in Entries' :
         \/ r \in Entries /\ journal'[r] = journal[r]
         \/ /\ journal'[r].inv = i /\ journal[r].inv = i /\ r \in Entries
            /\ journal'[r].amount = journal[r].amount
            /\ journal'[r].reverses = journal[r].reverses
  BY <1>5, <1>7
<1> QED
  BY <1>2, <1>3, <1>6, <1>7, <1>8, <1>9, <1>10, <1>11, StepBooks

\* The link is written to the one purchase of the invoice.
LEMMA BookLinkBooks ==
  ASSUME SuppliersInv, BooksInv, NEW p \in Requests, BookLink(p), Moves(p),
         req'[p].pc = "status", req'[p].inv = req[p].inv
  PROVE  BooksInv'
<1>1. PICK i : i = req[p].inv
  OBVIOUS
<1>2. At(p, "link") /\ i \in Invoices /\ UNCHANGED <<journal, disturbed>>
  BY <1>1, Tables DEF BookLink, At, RequestsOK, RequestOK
<1>3. /\ invoices' = invoices \/ invoices' = [invoices EXCEPT ![i].entry = req[p].new]
      /\ Exists(i) => invoices' = [invoices EXCEPT ![i].entry = req[p].new]
  BY <1>1 DEF BookLink
<1>4. /\ Invoices' = Invoices
      /\ \A j \in Invoices \ {i} : invoices'[j] = invoices[j]
      /\ \A j \in Invoices : invoices'[j].key = invoices[j].key /\ (Exists(j)' = Exists(j))
      /\ Exists(i) => invoices'[i].entry = req[p].new
  <2>1. \A j \in Invoices : invoices[j] \in InvoiceRow
    BY Tables
  <2> QED
    BY <1>2, <1>3, <2>1 DEF Invoices, Exists, InvoiceRow
<1>5. KeysUnique'
  BY <1>4, KeysKept
<1>6. ChainOf(p)'
  BY DEF ChainOf, Owner, At
<1>7. ASSUME i \notin disturbed'
      PROVE  Settled(i)'
  <2>1. Settled(i)
    BY <1>2, <1>7 DEF BooksInv
  <2>2. \A q \in Requests : req'[q].inv = i => q = p
    BY <1>1, <2>1 DEF Settled, Moves
  <2>3. Exists(i) /\ Exists(i)' /\ invoices[i].entry = 0
    BY <1>1, <1>2, <1>4, <2>1 DEF Settled, At
  <2>4. \A y \in Originals(i) : y = invoices'[i].entry /\ Reversals(y) = {}
    <3>1. ASSUME NEW y \in Originals(i) PROVE Reversals(y) = {}
      BY <1>1, <1>2, <1>7, NotReversed DEF At
    <3>2. ASSUME NEW y \in Originals(i) PROVE y = req[p].new
      <4>1. y # 0
        BY NoEntryZero
      <4>2. PICK q \in Requests : At(q, "link") /\ req[q].inv = i /\ req[q].new = y
        BY <2>1, <2>3, <4>1 DEF Settled
      <4> QED
        BY <1>1, <2>1, <4>2 DEF Settled
    <3> QED
      BY <1>4, <2>3, <3>1, <3>2
  <2> QED
    BY <1>2, <2>2, <2>3, <2>4, SameEntries DEF Settled
<1> QED
  BY <1>1, <1>2, <1>4, <1>5, <1>6, <1>7, QuietBooks

LEMMA LoadsBook ==
  ASSUME SuppliersInv, BooksInv, NEW p \in Requests, NEW i \in Invoices,
         \/ \E key \in Keys, ref \in References, total \in Totals : UpdateLoad(p, i, key, ref, total)
         \/ DeleteLoad(p, i)
         \/ \E target \in supplierInvoiceStatuses : TransitionLoad(p, i, target)
         \/ CancelLoad(p, i)
  PROVE  BooksInv'
<1>1. Exists(i) /\ invoices[i].status # "cancelled" /\ UNCHANGED <<invoices, journal>>
  BY DEF UpdateLoad, DeleteLoad, TransitionLoad, CancelLoad, Exists, supplierInvoiceStatuses
<1>2. CASE \E key \in Keys, ref \in References, total \in Totals : UpdateLoad(p, i, key, ref, total)
  <2>1. PICK key \in Keys, ref \in References, total \in Totals : UpdateLoad(p, i, key, ref, total)
    BY <1>2
  <2> DEFINE r == [pc |-> "update", inv |-> i, key |-> key, ref |-> ref, total |-> total]
  <2>2. Begin(p, r) /\ r.inv = i /\ r.pc = "update"
    BY <2>1 DEF UpdateLoad
  <2> HIDE DEF r
  <2> QED
    BY <1>1, <2>2, BeginBooks
<1>3. CASE DeleteLoad(p, i)
  <2> DEFINE r == [pc |-> "delete", inv |-> i]
  <2>1. Begin(p, r) /\ r.inv = i /\ r.pc = "delete"
    BY <1>3 DEF DeleteLoad
  <2> HIDE DEF r
  <2> QED
    BY <1>1, <2>1, BeginBooks
<1>4. CASE \E target \in supplierInvoiceStatuses : TransitionLoad(p, i, target)
  <2>1. PICK target \in supplierInvoiceStatuses : TransitionLoad(p, i, target)
    BY <1>4
  <2>2. PICK pc \in {"book", "status"} : Begin(p, [pc |-> pc, inv |-> i, target |-> target])
    BY <2>1 DEF TransitionLoad
  <2> DEFINE r == [pc |-> pc, inv |-> i, target |-> target]
  <2>3. Begin(p, r) /\ r.inv = i /\ r.pc \in {"book", "status"}
    BY <2>2
  <2> HIDE DEF r
  <2> QED
    BY <1>1, <2>3, BeginBooks
<1>5. CASE CancelLoad(p, i)
  <2> DEFINE r == IF invoices[i].status = "draft" THEN [pc |-> "erase", inv |-> i]
                  ELSE IF invoices[i].entry = 0
                  THEN [pc |-> "status", inv |-> i, target |-> "cancelled"]
                  ELSE [pc |-> "reverse", inv |-> i, entry |-> invoices[i].entry]
  <2>1. Begin(p, r)
    BY <1>5 DEF CancelLoad
  <2>2. invoices[i].entry # 0 => invoices[i].entry \in Originals(i)
    BY DEF SuppliersInv, LinkPosted
  <2>3. r.inv = i /\ (r.pc \in {"erase", "status"} \/ (r.pc = "reverse" /\ r.entry \in Originals(i)))
    <3>1. CASE invoices[i].status = "draft"
      <4>1. r.inv = i /\ r.pc = "erase"
        BY <3>1
      <4> QED
        BY <4>1
    <3>2. CASE invoices[i].status # "draft" /\ invoices[i].entry = 0
      <4>1. r.inv = i /\ r.pc = "status"
        BY <3>2
      <4> QED
        BY <4>1
    <3>3. CASE invoices[i].status # "draft" /\ invoices[i].entry # 0
      <4>1. r.inv = i /\ r.pc = "reverse" /\ r.entry = invoices[i].entry
        BY <3>3
      <4> QED
        BY <2>2, <3>3, <4>1
    <3> QED
      BY <3>1, <3>2, <3>3
  <2> HIDE DEF r
  <2> QED
    BY <1>1, <2>1, <2>3, BeginBooks
<1> QED
  BY <1>2, <1>3, <1>4, <1>5

\* The change of a draft takes a free key, or leaves the row alone.
LEMMA UpdateBooks ==
  ASSUME SuppliersInv, BooksInv, NEW p \in Requests, UpdateCommit(p)
  PROVE  BooksInv'
<1>1. PICK i : i = req[p].inv
  OBVIOUS
<1>2. At(p, "update") /\ i \in Invoices /\ Finish(p) /\ UNCHANGED <<journal, disturbed>>
  BY <1>1, Tables DEF UpdateCommit, At, RequestsOK, RequestOK
<1>3. \/ invoices' = invoices
      \/ KeyFree(req[p].key, i) /\ invoices' = Rewritten(i, req[p])
  BY <1>1 DEF UpdateCommit
<1>4. /\ Invoices' = Invoices
      /\ \A j \in Invoices \ {i} : invoices'[j] = invoices[j]
      /\ invoices'[i].entry = invoices[i].entry /\ invoices'[i].status = invoices[i].status
      /\ \/ invoices'[i].key = invoices[i].key
         \/ KeyFree(req[p].key, i) /\ invoices'[i].key = req[p].key
  <2>1. \A j \in Invoices : invoices[j] \in InvoiceRow
    BY Tables
  <2> QED
    BY <1>2, <1>3, <2>1 DEF Invoices, InvoiceRow, Rewritten
<1>5. KeysUnique'
  <2>1. \A j \in Invoices : Exists(j)' = Exists(j)
    BY <1>4 DEF Exists
  <2>2. ASSUME NEW j \in Invoices, j # i, Exists(i), Exists(j), invoices'[i].key = invoices[j].key
        PROVE  FALSE
    BY <1>2, <1>4, <2>2 DEF BooksInv, KeysUnique, KeyFree
  <2> QED
    BY <1>4, <2>1, <2>2 DEF BooksInv, KeysUnique
<1>6. ASSUME i \notin disturbed, NEW e \in Originals(i) PROVE Reversals(e) = {}
  BY <1>1, <1>2, <1>6, NotReversed DEF At
<1> QED
  BY <1>1, <1>2, <1>4, <1>5, <1>6, FinishBooks DEF At

LEMMA StatusBooks ==
  ASSUME SuppliersInv, BooksInv, NEW p \in Requests,
         DeleteSupplierInvoice(p) \/ SetStatus(p) \/ CancelErase(p) \/ Abandon(p)
  PROVE  BooksInv'
<1>1. PICK i : i = req[p].inv
  OBVIOUS
<1>2. /\ i \in Invoices /\ Finish(p) /\ journal' = journal /\ disturbed \subseteq disturbed'
      /\ i \in disturbed' \/ req[p].pc \in {"delete", "status", "erase"}
      /\ Abandon(p) \/ ~At(p, "link")
  BY <1>1, Tables DEF DeleteSupplierInvoice, SetStatus, CancelErase, Abandon, At,
     RequestsOK, RequestOK
<1>3. \/ invoices' = invoices
      \/ \E st : /\ invoices' = [invoices EXCEPT ![i].status = st]
                 /\ st = "deleted" \/ Exists(i)
  BY <1>1 DEF DeleteSupplierInvoice, SetStatus, CancelErase, Abandon
<1>4. /\ Invoices' = Invoices
      /\ \A j \in Invoices \ {i} : invoices'[j] = invoices[j]
      /\ \A j \in Invoices : /\ invoices'[j].entry = invoices[j].entry
                             /\ invoices'[j].key = invoices[j].key
                             /\ Exists(j)' => Exists(j)
  <2>1. \A j \in Invoices : invoices[j] \in InvoiceRow
    BY Tables
  <2> QED
    BY <1>2, <1>3, <2>1 DEF Invoices, InvoiceRow, Exists
<1>5. KeysUnique'
  BY <1>4, KeysKept
<1>6. ASSUME i \notin disturbed', NEW e \in Originals(i), Reversals(e) # {}
      PROVE  invoices'[i].status = "cancelled"
  <2>1. At(p, "status") /\ req[p].target = "cancelled"
    BY <1>1, <1>2, <1>6, NotReversed
  <2>2. SetStatus(p)
    BY <1>1, <1>6, <2>1 DEF DeleteSupplierInvoice, CancelErase, Abandon, At
  <2>3. Exists(i)
    BY <1>1, <1>2, <1>6 DEF BooksInv, Settled
  <2>4. invoices' = [invoices EXCEPT ![i].status = "cancelled"]
    BY <1>1, <2>1, <2>2, <2>3 DEF SetStatus
  <2>5. invoices[i] \in InvoiceRow /\ invoices \in Seq(InvoiceRow)
    BY <1>2, Tables
  <2> QED
    BY <1>2, <2>4, <2>5 DEF Invoices, InvoiceRow
<1>7. CASE ~At(p, "link")
  BY <1>1, <1>2, <1>4, <1>5, <1>6, <1>7, FinishBooks
<1>8. CASE Abandon(p)
  <2>1. Moves(p) /\ req'[p] = Idle
    BY <1>2, Tables, FinishEffect DEF Moves
  <2>2. ChainOf(p)' /\ req'[p].inv = 0
    BY <2>1 DEF ChainOf, Owner, At, Idle
  <2>3. i \in disturbed'
    BY <1>1, <1>8 DEF Abandon
  <2> QED
    BY <1>1, <1>2, <1>4, <1>5, <2>1, <2>2, <2>3, QuietBooks
<1> QED
  BY <1>2, <1>7, <1>8

LEMMA BookLoadBooks ==
  ASSUME SuppliersInv, BooksInv, NEW p \in Requests, BookLoad(p)
  PROVE  BooksInv'
<1>1. PICK i : i = req[p].inv
  OBVIOUS
<1>2. At(p, "book") /\ i \in Invoices /\ UNCHANGED <<invoices, journal, disturbed>>
  BY <1>1, Tables DEF BookLoad, At, RequestsOK, RequestOK
<1>3. CASE Finish(p)
  <2>1. Invoices' = Invoices /\ KeysUnique'
    BY <1>2 DEF BooksInv, KeysUnique, Exists, Invoices
  <2>2. ASSUME i \notin disturbed, NEW e \in Originals(i) PROVE Reversals(e) = {}
    BY <1>1, <1>2, <2>2, NotReversed DEF At
  <2> QED
    BY <1>1, <1>2, <1>3, <2>1, <2>2, FinishBooks DEF At
<1>4. CASE Goto(p, "status", [target |-> "booked"])
  <2> DEFINE kept == [target |-> "booked"]
  <2>1. DOMAIN kept = {"target"} /\ Goto(p, "status", kept)
    BY <1>4
  <2> HIDE DEF kept
  <2>2. Moves(p) /\ req'[p].pc = "status" /\ req'[p].inv = req[p].inv
    BY <2>1, Tables, GotoEffect DEF Moves
  <2> QED
    BY <1>1, <1>2, <2>2, GoBooks
<1>5. CASE invoices[i].entry = 0 /\ Goto(p, "create", [amount |-> invoices[req[p].inv].total])
  <2> DEFINE kept == [amount |-> invoices[req[p].inv].total]
  <2>1. DOMAIN kept = {"amount"} /\ Goto(p, "create", kept)
    BY <1>5
  <2> HIDE DEF kept
  <2>2. Moves(p) /\ req'[p].pc = "create" /\ req'[p].inv = req[p].inv
    BY <2>1, Tables, GotoEffect DEF Moves
  <2> QED
    BY <1>1, <1>2, <1>5, <2>2, GoBooks
<1> QED
  BY <1>1, <1>3, <1>4, <1>5 DEF BookLoad

LEMMA CreatesBook ==
  ASSUME SuppliersInv, BooksInv, NEW p \in Requests, BookCreate(p) \/ ReverseCreate(p)
  PROVE  BooksInv'
<1>1. PICK i : i = req[p].inv
  OBVIOUS
<1>2. /\ i \in Invoices /\ Len(journal) < MaxEntries /\ UNCHANGED <<invoices, disturbed>>
      /\ At(p, "create") => req[p].amount \in Totals
      /\ At(p, "reverse") => req[p].entry \in Entries
  BY <1>1, Tables DEF BookCreate, CreateEntry, ReverseCreate, At, RequestsOK, RequestOK
<1>3. CASE BookCreate(p)
  <2> DEFINE kept == [new |-> Len(journal) + 1]
  <2>1. DOMAIN kept = {"new"} /\ kept["new"] = Len(journal) + 1 /\ Goto(p, "post", kept)
    BY <1>3 DEF BookCreate, CreateEntry
  <2> HIDE DEF kept
  <2>2. Moves(p) /\ req'[p].pc = "post" /\ req'[p].inv = req[p].inv
        /\ req'[p].new = Len(journal) + 1
    BY <2>1, Tables, GotoEffect DEF Moves
  <2>3. At(p, "create") /\ journal' = Append(journal, Draft(i, req[p].amount))
    BY <1>1, <1>3 DEF BookCreate, CreateEntry
  <2> QED
    BY <1>1, <1>2, <2>2, <2>3, CreationBooks
<1>4. CASE ReverseCreate(p)
  <2> DEFINE kept == [entry |-> req[p].entry, new |-> Len(journal) + 1]
             amount == journal[req[p].entry].amount
  <2>1. /\ DOMAIN kept = {"entry", "new"} /\ kept["new"] = Len(journal) + 1
        /\ kept["entry"] = req[p].entry /\ Goto(p, "mark", kept)
    BY <1>4 DEF ReverseCreate
  <2> HIDE DEF kept
  <2>2. Moves(p) /\ req'[p].pc = "mark" /\ req'[p].inv = req[p].inv
        /\ req'[p].new = Len(journal) + 1 /\ req'[p].entry = req[p].entry
    BY <2>1, Tables, GotoEffect DEF Moves
  <2>3. At(p, "reverse") /\ journal' = Append(journal, Draft(i, amount))
    BY <1>1, <1>4 DEF ReverseCreate
  <2>4. amount \in Totals
    <3>1. journal[req[p].entry] \in EntryRow
      BY <1>2, <2>3, Tables
    <3> QED
      BY <3>1 DEF EntryRow
  <2> QED
    BY <1>1, <1>2, <2>2, <2>3, <2>4, CreationBooks
<1> QED
  BY <1>3, <1>4

LEMMA WritesBook ==
  ASSUME SuppliersInv, BooksInv, NEW p \in Requests,
         BookPost(p) \/ ReversePost(p) \/ ReverseMark(p) \/ BookLink(p)
  PROVE  BooksInv'
<1>1. CASE BookPost(p)
  <2> DEFINE kept == [new |-> req[p].new]
  <2>1. DOMAIN kept = {"new"} /\ kept["new"] = req[p].new /\ Goto(p, "link", kept)
    BY <1>1 DEF BookPost, PostEntry
  <2> HIDE DEF kept
  <2>2. Moves(p) /\ req'[p].pc = "link" /\ req'[p].inv = req[p].inv /\ req'[p].new = req[p].new
    BY <2>1, Tables, GotoEffect DEF Moves
  <2> QED
    BY <1>1, <2>2, BookPostBooks
<1>2. CASE ReversePost(p)
  <2> DEFINE kept == [target |-> "cancelled"]
  <2>1. DOMAIN kept = {"target"} /\ kept["target"] = "cancelled" /\ Goto(p, "status", kept)
    BY <1>2 DEF ReversePost, PostEntry
  <2> HIDE DEF kept
  <2>2. Moves(p) /\ req'[p].pc = "status" /\ req'[p].inv = req[p].inv
        /\ req'[p].target = "cancelled"
    BY <2>1, Tables, GotoEffect DEF Moves
  <2> QED
    BY <1>2, <2>2, ReversePostBooks
<1>3. CASE ReverseMark(p)
  <2> DEFINE kept == [new |-> req[p].new]
  <2>1. DOMAIN kept = {"new"} /\ kept["new"] = req[p].new /\ Goto(p, "settle", kept)
    BY <1>3 DEF ReverseMark
  <2> HIDE DEF kept
  <2>2. Moves(p) /\ req'[p].pc = "settle" /\ req'[p].inv = req[p].inv /\ req'[p].new = req[p].new
    BY <2>1, Tables, GotoEffect DEF Moves
  <2> QED
    BY <1>3, <2>2, ReverseMarkBooks
<1>4. CASE BookLink(p)
  <2> DEFINE kept == [target |-> "booked"]
  <2>1. DOMAIN kept = {"target"} /\ Goto(p, "status", kept)
    BY <1>4 DEF BookLink
  <2> HIDE DEF kept
  <2>2. Moves(p) /\ req'[p].pc = "status" /\ req'[p].inv = req[p].inv
    BY <2>1, Tables, GotoEffect DEF Moves
  <2> QED
    BY <1>4, <2>2, BookLinkBooks
<1> QED
  BY <1>1, <1>2, <1>3, <1>4

\* A new invoice takes a free key, and nothing is booked for it.
LEMMA CreateBooks ==
  ASSUME SuppliersInv, BooksInv, NEW key \in Keys, NEW ref \in References, NEW total \in Totals,
         CreateSupplierInvoice(key, ref, total)
  PROVE  BooksInv'
<1> DEFINE row == [key |-> key, ref |-> ref, total |-> total, status |-> "draft", entry |-> 0]
<1>1. row \in InvoiceRow /\ row.key = key
  BY SuppliersAssumption DEF InvoiceRow, supplierInvoiceStatuses
<1>2. invoices' = Append(invoices, row) /\ UNCHANGED <<journal, req, disturbed>> /\ KeyFree(key, 0)
  BY DEF CreateSupplierInvoice
<1>3. row.status = "draft"
  OBVIOUS
<1> HIDE DEF row
<1>4. PICK n : n = Len(invoices) + 1
  OBVIOUS
<1>5. /\ \A i \in Invoices : invoices'[i] = invoices[i]
      /\ invoices'[n] = row /\ Invoices' = Invoices \cup {n} /\ n \notin Invoices /\ n # 0
      /\ 0 \notin Invoices
  <2>1. /\ invoices' \in Seq(InvoiceRow) /\ Len(invoices') = n
        /\ \A i \in Invoices : invoices'[i] = invoices[i] /\ invoices'[n] = row
    BY <1>1, <1>2, <1>4, Tables
  <2>2. invoices'[n] = row /\ Invoices' = 1 .. n
    BY <1>1, <1>2, <1>4, <2>1, Tables DEF Invoices
  <2> QED
    BY <1>4, <2>1, <2>2, Tables
<1>6. \A p \in Requests : ChainOf(p)'
  BY <1>2, SameEntries DEF BooksInv, ChainOf, Owner, At, Posted, Originals, Entries
<1>7. \A r \in Entries' : ReversalOK(r)'
  BY <1>2 DEF BooksInv, ReversalOK, Originals, Posted, Entries
<1>8. ASSUME NEW i \in Invoices \ disturbed
      PROVE  Settled(i)'
  <2>1. Settled(i) /\ invoices'[i] = invoices[i]
    BY <1>5 DEF BooksInv
  <2> QED
    BY <1>2, <2>1, SameEntries DEF Settled, Exists, AtWork, At
<1>9. Settled(n)'
  <2>1. \A p \in Requests : req'[p].inv # n
    BY <1>2, <1>5 DEF SuppliersInv, TypeOK
  <2>2. Originals(n)' = {}
    <3>1. \A e \in Entries : journal[e].inv \in Invoices
      <4>1. \A e \in Entries : journal[e] \in EntryRow
        BY Tables
      <4> QED
        BY <4>1 DEF EntryRow
    <3> QED
      BY <1>2, <1>5, <3>1 DEF Originals, Entries
  <2> QED
    BY <2>1, <2>2 DEF Settled
<1>10. KeysUnique'
  <2>1. \A i \in Invoices : Exists(i)' = Exists(i)
    BY <1>5 DEF Exists
  <2>2. \A i \in Invoices : Exists(i) => invoices[i].key # key
    BY <1>2, <1>5 DEF KeyFree
  <2> QED
    BY <1>1, <1>5, <2>1, <2>2 DEF BooksInv, KeysUnique
<1> QED
  BY <1>2, <1>5, <1>6, <1>7, <1>8, <1>9, <1>10 DEF BooksInv

LEMMA NextBooks ==
  ASSUME SuppliersInv, BooksInv, [Next]_vars
  PROVE  BooksInv'
<1>1. CASE \E key \in Keys, ref \in References, total \in Totals :
             CreateSupplierInvoice(key, ref, total)
  BY <1>1, CreateBooks
<1>2. CASE \E p \in Requests, i \in Invoices :
             \/ \E key \in Keys, ref \in References, total \in Totals :
                  UpdateLoad(p, i, key, ref, total)
             \/ DeleteLoad(p, i)
             \/ \E target \in supplierInvoiceStatuses : TransitionLoad(p, i, target)
             \/ CancelLoad(p, i)
  BY <1>2, LoadsBook
<1>3. ASSUME NEW p \in Requests,
             UpdateCommit(p) \/ DeleteSupplierInvoice(p) \/ Booking(p) \/ Cancelling(p) \/ Abandon(p)
      PROVE  BooksInv'
  BY <1>3, UpdateBooks, StatusBooks, BookLoadBooks, CreatesBook, WritesBook
     DEF Booking, Cancelling
<1>4. CASE UNCHANGED vars
  <2>1. UNCHANGED <<invoices, journal, req, disturbed>>
    BY <1>4 DEF vars
  <2>2. \A p \in Requests : ChainOf(p)'
    BY <2>1 DEF BooksInv, ChainOf, Owner, At, Posted, Originals, Entries
  <2>3. \A r \in Entries' : ReversalOK(r)'
    BY <2>1 DEF BooksInv, ReversalOK, Originals, Posted, Entries
  <2>4. \A i \in (Invoices \ disturbed)' : Settled(i)'
    BY <2>1, SameEntries DEF BooksInv, Settled, Exists, AtWork, At, Invoices
  <2>5. KeysUnique'
    BY <2>1 DEF BooksInv, KeysUnique, Exists, Invoices
  <2> QED
    BY <2>2, <2>3, <2>4, <2>5 DEF BooksInv
<1> QED
  BY <1>1, <1>2, <1>3, <1>4 DEF Next

\* Bookings, reversals and keys stay as BooksInv says.
THEOREM BooksInvariant == Spec => []BooksInv
<1>1. Init => BooksInv
  <2> SUFFICES ASSUME Init PROVE BooksInv
    OBVIOUS
  <2>1. Invoices = {} /\ Entries = {} /\ \A p \in Requests : req[p] = Idle
    BY DEF Init, Invoices, Entries
  <2>2. \A p \in Requests : ChainOf(p)
    BY <2>1 DEF ChainOf, Owner, At, Idle
  <2> QED
    BY <2>1, <2>2 DEF BooksInv, KeysUnique
<1>2. SuppliersInv /\ BooksInv /\ [Next]_vars => BooksInv'
  BY NextBooks
<1> QED
  BY <1>1, <1>2, SuppliersInvariant, PTL DEF Spec

-----------------------------------------------------------------------------
(* What is booked, taken back and paid *)

\* A set without two different elements.
LEMMA AtMostOne ==
  ASSUME NEW S, \A x, y \in S : x = y
  PROVE  Cardinality(S) <= 1
<1>1. CASE S = {}
  BY <1>1, FS_EmptySet
<1>2. CASE S # {}
  <2>1. PICK x : S = {x}
    BY <1>2
  <2> QED
    BY <2>1, FS_Singleton
<1> QED
  BY <1>1, <1>2

\* The charge of an invoice that requests treated one after the other is
\* posted once, however often the invoice goes back to draft and is booked
\* again (supplier_invoices.go postSupplierInvoice).
THEOREM BookedOnceTheorem == Spec => []BookedOnce
<1>1. SuppliersInv /\ BooksInv => BookedOnce
  <2> SUFFICES ASSUME SuppliersInv, BooksInv, NEW i \in Invoices \ disturbed
               PROVE  Cardinality(Originals(i)) <= 1
    BY DEF BookedOnce
  <2>1. Settled(i) /\ 0 \notin Originals(i)
    BY NoEntryZero DEF BooksInv
  <2>2. CASE \E p \in Requests : At(p, "link") /\ req[p].inv = i
    <3>1. PICK p \in Requests : At(p, "link") /\ req[p].inv = i
      BY <2>2
    <3>2. invoices[i].entry = 0
      BY <2>1, <3>1 DEF Settled, At
    <3>3. \A e \in Originals(i) : e = req[p].new
      BY <2>1, <3>1, <3>2 DEF Settled
    <3> QED
      BY <3>3, AtMostOne
  <2>3. CASE ~\E p \in Requests : At(p, "link") /\ req[p].inv = i
    <3>1. \A e \in Originals(i) : e = invoices[i].entry
      BY <2>1, <2>3 DEF Settled
    <3> QED
      BY <3>1, AtMostOne
  <2> QED
    BY <2>2, <2>3
<1> QED
  BY <1>1, SuppliersInvariant, BooksInvariant, PTL

\* The purchase of such an invoice is taken back once, by its amount, and the
\* invoice is cancelled then and stays so (supplier_invoices.go cancelOne,
\* reverseSupplierEntry).
THEOREM ReversedOnceTheorem == Spec => []ReversedOnce
<1>1. SuppliersInv /\ BooksInv => ReversedOnce
  <2> SUFFICES ASSUME SuppliersInv, BooksInv, NEW i \in Invoices \ disturbed,
                      NEW e \in Originals(i)
               PROVE  /\ Cardinality(Reversals(e)) <= 1
                      /\ \A r \in Reversals(e) : journal[r].amount = journal[e].amount
                      /\ Reversals(e) # {} /\ ~AtWork(i) => invoices[i].status = "cancelled"
    BY DEF ReversedOnce
  <2>1. Settled(i) /\ e # 0
    BY NoEntryZero DEF BooksInv
  <2>2. Cardinality(Reversals(e)) <= 1
    BY <2>1, AtMostOne DEF Settled
  <2>3. \A r \in Reversals(e) : journal[r].amount = journal[e].amount
    BY <2>1 DEF BooksInv, ReversalOK, Reversals
  <2>4. Reversals(e) # {} /\ ~AtWork(i) => invoices[i].status = "cancelled"
    BY <2>1 DEF Settled, AtWork
  <2> QED
    BY <2>2, <2>3, <2>4
<1> QED
  BY <1>1, SuppliersInvariant, BooksInvariant, PTL

\* A transfer that nothing blocks and that carries a QR reference goes to a
\* QR account, whatever the record of the supplier holds.
LEMMA DecidesByAccount ==
  ASSUME NEW ref \in ReferenceKinds, NEW account \in AccountKinds,
         ~decidePayment(ref, account).blocked
  PROVE  decidePayment(ref, account).kind = "QRR" => decidePayment(ref, account).iban = "qr"
<1>1. account.qr_iban \in {"", "qr", "invalid"}
  BY DEF AccountKinds
<1>2. CASE ref = "QRR"
  BY <1>1, <1>2 DEF decidePayment
<1>3. CASE ref \in {"SCOR", ""}
  BY <1>1, <1>3 DEF decidePayment
<1>4. CASE ref = "other"
  BY <1>4 DEF decidePayment
<1> QED
  BY <1>2, <1>3, <1>4 DEF ReferenceKinds

\* What a selection that is accepted pays: all of it, each invoice once.
LEMMA AcceptedWhole ==
  ASSUME NEW selection \in Selections, Accepted(selection)
  PROVE  Cardinality(PaymentFile(selection)) = Len(selection)
<1>1. \A i : Transfer(i).inv = i
  BY DEF Transfer
<1>2. ASSUME NEW i, selection = <<i>>
      PROVE  Cardinality(PaymentFile(selection)) = Len(selection)
  <2>1. Ids(selection) = {i} /\ Len(selection) = 1
    BY <1>2 DEF Ids
  <2>2. Payable({i}) \subseteq {i} /\ Cardinality(Payable({i})) = 1
    BY <2>1 DEF Accepted, Payable
  <2>3. Payable({i}) = {i}
    BY <2>2, FS_EmptySet
  <2>4. PaymentFile(selection) = {Transfer(i)}
    BY <2>1, <2>3 DEF PaymentFile
  <2> QED
    BY <2>1, <2>4, FS_Singleton
<1>3. ASSUME NEW i, NEW j, selection = <<i, j>>
      PROVE  Cardinality(PaymentFile(selection)) = Len(selection)
  <2>1. Ids(selection) = {i, j} /\ Len(selection) = 2
    BY <1>3 DEF Ids
  <2>2. Payable({i, j}) \subseteq {i, j} /\ Cardinality(Payable({i, j})) = 2
    BY <2>1 DEF Accepted, Payable
  <2>3. i # j /\ IsFiniteSet({i, j}) /\ Cardinality({i, j}) = 2
    <3>1. IsFiniteSet({i}) /\ Cardinality({i}) = 1 /\ {i, j} = {i} \cup {j}
      BY FS_Singleton
    <3>2. IsFiniteSet({i, j}) /\ Cardinality({i, j}) = IF j \in {i} THEN 1 ELSE 2
      BY <3>1, FS_AddElement
    <3>3. 2 <= Cardinality({i, j})
      BY <2>2, <3>2, FS_Subset
    <3> QED
      BY <3>2, <3>3
  <2>4. Payable({i, j}) = {i, j}
    BY <2>2, <2>3, FS_Subset
  <2>5. PaymentFile(selection) = {Transfer(i)} \cup {Transfer(j)}
    BY <2>1, <2>4 DEF PaymentFile
  <2>6. Transfer(j) \notin {Transfer(i)}
    BY <1>1, <2>3
  <2>7. IsFiniteSet({Transfer(i)}) /\ Cardinality({Transfer(i)}) = 1
    BY FS_Singleton
  <2>8. Cardinality({Transfer(i)} \cup {Transfer(j)}) = 2
    BY <2>6, <2>7, FS_AddElement
  <2> QED
    BY <2>1, <2>5, <2>8
<1> QED
  BY <1>2, <1>3 DEF Selections

\* A payment file pays every invoice of the selection, none of a supplier
\* twice, and a QR reference on a QR account only (payments_run.go
\* buildRunTransactions, decidePayment).
THEOREM FileIsWholeTheorem == Spec => []FileIsWhole
<1>1. SuppliersInv /\ BooksInv => FileIsWhole
  <2> SUFFICES ASSUME SuppliersInv, BooksInv, NEW selection \in Selections, Accepted(selection)
               PROVE  LET paid == PaymentFile(selection)
                      IN /\ Cardinality(paid) = Len(selection)
                         /\ \A s, t \in paid : invoices[s.inv].key = invoices[t.inv].key => s = t
                         /\ \A t \in paid : invoices[t.inv].status = "booked"
                                             /\ (t.kind = "QRR" => t.iban = "qr")
    BY DEF FileIsWhole
  <2>1. Ids(selection) \subseteq Invoices
    <3>1. PICK i \in Invoices, j \in Invoices : selection = <<i>> \/ selection = <<i, j>>
      BY DEF Selections
    <3> QED
      BY <3>1 DEF Ids
  <2>2. ASSUME NEW t \in PaymentFile(selection)
        PROVE  /\ t.inv \in Invoices /\ t = Transfer(t.inv) /\ invoices[t.inv].status = "booked"
               /\ (t.kind = "QRR" => t.iban = "qr")
    <3>1. PICK i \in Payable(Ids(selection)) : t = Transfer(i)
      BY DEF PaymentFile
    <3>2. i \in Invoices /\ invoices[i].status = "booked" /\ ~Blocked(i)
      BY <2>1, <3>1 DEF Payable, Accepted
    <3> DEFINE ref == invoices[i].ref
               account == Account[invoices[i].key]
               how == decidePayment(ref, account)
    <3>3. ref \in ReferenceKinds /\ account \in AccountKinds
      <4>1. invoices[i] \in InvoiceRow
        BY <3>2, Tables
      <4> QED
        BY <4>1, SuppliersAssumption DEF InvoiceRow
    <3>4. ~how.blocked
      BY <3>2 DEF Blocked
    <3>5. t.inv = i /\ t.kind = how.kind /\ t.iban = how.iban
      BY <3>1 DEF Transfer
    <3> HIDE DEF ref, account
    <3>6. how.kind = "QRR" => how.iban = "qr"
      BY <3>3, <3>4, DecidesByAccount
    <3> QED
      BY <3>1, <3>2, <3>5, <3>6
  <2>3. ASSUME NEW s \in PaymentFile(selection), NEW t \in PaymentFile(selection),
               invoices[s.inv].key = invoices[t.inv].key
        PROVE  s = t
    <3>1. s.inv = t.inv
      BY <2>2, <2>3 DEF BooksInv, KeysUnique, Exists
    <3> QED
      BY <2>2, <3>1
  <2> QED
    BY <2>2, <2>3, AcceptedWhole
<1> QED
  BY <1>1, SuppliersInvariant, BooksInvariant, PTL
=============================================================================
