----------------------------- MODULE Contacts -------------------------------
(***************************************************************************)
(* Contacts and the identity of the recipient on the documents addressed   *)
(* to them.                                                                *)
(*                                                                         *)
(* A document bears a copy of its recipient's identity: it follows the     *)
(* contact while the document is a draft, is read once more and frozen     *)
(* when it is sent, and is what an anonymised contact leaves behind.       *)
(* The address stands for street, postal code and city: complete, or not.  *)
(*                                                                         *)
(* A request reads in statements of its own and writes in one transaction, *)
(* by id; other requests run in between.  One that reads and writes within *)
(* a transaction is one step.  A refusal after the last read, a failed     *)
(* statement or a cancelled context is Abandon.  Of the statuses, those    *)
(* that decide whose copy is frozen.                                       *)
(***************************************************************************)
EXTENDS Integers, Sequences, FiniteSets

CONSTANTS
  Requests,      \* connections that serve the requests of several steps
  Clients,       \* ids of contacts
  Names,         \* names given to contacts
  Addresses,     \* complete addresses given to contacts
  Patches,       \* the changes of contacts asked for
  MaxDocuments   \* bound on the documents

ASSUME ContactsAssumption ==
  /\ MaxDocuments \in Nat
  /\ Names \cap (Clients \cup {"", "absent"}) = {}
  /\ Addresses \cap {"", "absent"} = {}

VARIABLES
  contacts,    \* table contacts
  documents,   \* table invoices
  req,         \* what each request is doing and has read
  was,         \* history: the identities each contact has had
  disturbed    \* history: rows two requests were about to write at once

vars == <<contacts, documents, req, was, disturbed>>

Kinds == {"customer", "supplier"}   \* "both" is treated as customer

Types == {"invoice", "quote", "credit_note"}

Idle == [pc |-> "idle", on |-> <<>>]

At(p, pc) == req[p].pc = pc

Docs == DOMAIN documents

Known == DOMAIN contacts

\* A row: of contacts or of documents.
Contact(c) == <<"contact", c>>
Document(d) == <<"document", d>>

\* A request on a row begins; one at work on the same row disturbs it.
Begin(p, r) ==
  /\ req[p] = Idle
  /\ req' = [req EXCEPT ![p] = r]
  /\ disturbed' = IF \E q \in Requests : req[q].on = r.on
                  THEN disturbed \cup {r.on} ELSE disturbed

Goto(p, r) == req' = [req EXCEPT ![p] = r]

Finish(p) == req' = [req EXCEPT ![p] = Idle]

-----------------------------------------------------------------------------
(* Identities *)

\* The label is made from the id.
anonymisedLabel(c) == c

Nobody == [name |-> "", address |-> ""]

loadRecipient(c) == [name |-> contacts[c].name, address |-> contacts[c].address]

recipientAddressComplete(identity) == identity.address # ""

followsContact(type) == type \in {"invoice", "quote"}

\* What the PDF names: the frozen identity, the contact's when there is none.
Printed(d) ==
  IF documents[d].recipient.name # "" THEN documents[d].recipient
  ELSE loadRecipient(documents[d].contact)

-----------------------------------------------------------------------------
(* Contacts *)

\* requireQRAddress: what a customer, and not a supplier, must have.
Billable(kind, name, address) == kind = "customer" => name # "" /\ address # ""

Put(c, row) ==
  /\ contacts' = [k \in Known \cup {c} |-> IF k = c THEN row ELSE contacts[k]]
  /\ was' = [was EXCEPT ![c] = @ \cup {[name |-> row.name, address |-> row.address]}]

CreateContact(c, kind, name, address) ==
  /\ c \notin Known
  /\ Billable(kind, name, address)
  /\ Put(c, [kind |-> kind, name |-> name, address |-> address, anonymised |-> FALSE])
  /\ UNCHANGED <<documents, req, disturbed>>

\* A PATCH gives some columns and leaves the others alone.
PatchBodies == [kind : Kinds \cup {"absent"}, name : Names \cup {"", "absent"},
            address : Addresses \cup {"", "absent"}]

valeurResultante(given, stored) == IF given = "absent" THEN stored ELSE given

Patched(row, patch) ==
  [row EXCEPT !.kind = valeurResultante(patch.kind, @),
              !.name = valeurResultante(patch.name, @),
              !.address = valeurResultante(patch.address, @)]

Touched(row, patch) == patch.name # "absent" \/ patch.address # "absent"
                         \/ patch.kind \notin {"absent", row.kind}

\* Faulty variant: the rule is not put to a change of kind alone.
UpdateContactLoadOfFields(p, c, patch) ==
  LET row == Patched(contacts[c], patch)
  IN /\ (patch.name # "absent" \/ patch.address # "absent")
          => Billable(row.kind, row.name, row.address)
     /\ Begin(p, [pc |-> "patch", on |-> Contact(c), patch |-> patch])
     /\ UNCHANGED <<contacts, documents, was>>

\* UpdateContact: the row is read, and the rule put to what it will hold.
UpdateContactLoad(p, c, patch) ==
  LET row == Patched(contacts[c], patch)
  IN /\ Touched(contacts[c], patch) => Billable(row.kind, row.name, row.address)
     /\ Begin(p, [pc |-> "patch", on |-> Contact(c), patch |-> patch])
     /\ UNCHANGED <<contacts, documents, was>>

UpdateContactCommit(p) ==
  /\ At(p, "patch")
  /\ LET c == req[p].on[2] IN Put(c, Patched(contacts[c], req[p].patch))
  /\ Finish(p)
  /\ UNCHANGED <<documents, disturbed>>

AnonymiseLoad(p, c) ==
  /\ ~contacts[c].anonymised
  /\ Begin(p, [pc |-> "anonymise", on |-> Contact(c)])
  /\ UNCHANGED <<contacts, documents, was>>

\* Refused while a document of the contact names nobody.
AnonymiseCheck(p) ==
  /\ At(p, "anonymise")
  /\ \A d \in Docs :
       documents[d].contact = req[p].on[2] => documents[d].recipient.name # ""
  /\ Goto(p, [req[p] EXCEPT !.pc = "erase"])
  /\ UNCHANGED <<contacts, documents, was, disturbed>>

AnonymiseCommit(p) ==
  /\ At(p, "erase")
  /\ LET c == req[p].on[2]
     IN Put(c, [contacts[c] EXCEPT !.name = anonymisedLabel(c), !.address = "",
                                   !.anonymised = TRUE])
  /\ Finish(p)
  /\ UNCHANGED <<documents, disturbed>>

-----------------------------------------------------------------------------
(* Documents *)

Add(type, c, identity, origin) ==
  /\ Len(documents) < MaxDocuments
  /\ documents' = Append(documents,
       [type |-> type, contact |-> c, status |-> "draft", recipient |-> identity,
        backfilled |-> FALSE, origin |-> origin])

CreateInvoice(type, c) ==
  /\ Add(type, c, loadRecipient(c), 0)
  /\ UNCHANGED <<contacts, req, was, disturbed>>

\* storeRecipient
Stored(d, identity) == [documents[d] EXCEPT !.recipient = identity, !.backfilled = FALSE]

UpdateInvoiceLoad(p, d, c) ==
  /\ documents[d].status = "draft"
  /\ Begin(p, [pc |-> "update", on |-> Document(d), contact |-> c])
  /\ UNCHANGED <<contacts, documents, was>>

\* Faulty variant: the copy follows the contact on every type of document.
UpdateInvoiceCommitOfAny(p) ==
  /\ At(p, "update")
  /\ LET d == req[p].on[2]
         c == req[p].contact
     IN documents' = [documents EXCEPT ![d] = [Stored(d, loadRecipient(c)) EXCEPT !.contact = c]]
  /\ Finish(p)
  /\ UNCHANGED <<contacts, was, disturbed>>

\* The copy follows the contact; that of a credit note does not.
UpdateInvoiceCommit(p) ==
  /\ At(p, "update")
  /\ LET d == req[p].on[2]
         c == req[p].contact
         row == IF followsContact(documents[d].type) THEN Stored(d, loadRecipient(c))
                ELSE documents[d]
     IN documents' = [documents EXCEPT ![d] = [row EXCEPT !.contact = c]]
  /\ Finish(p)
  /\ UNCHANGED <<contacts, was, disturbed>>

\* TransitionBy: the status is read, with the contact to be named.
TransitionLoad(p, d, to) ==
  /\ <<documents[d].status, to>> \in
       {<<"draft", "sent">>, <<"draft", "cancelled">>, <<"sent", "cancelled">>,
        <<"cancelled", "draft">>}
  /\ Begin(p, IF to = "sent"
              THEN [pc |-> "issue", on |-> Document(d), contact |-> documents[d].contact]
              ELSE [pc |-> "transition", on |-> Document(d), to |-> to])
  /\ UNCHANGED <<contacts, documents, was>>

TransitionCommit(p) ==
  /\ At(p, "transition")
  /\ documents' = [documents EXCEPT ![req[p].on[2]].status = req[p].to]
  /\ Finish(p)
  /\ UNCHANGED <<contacts, was, disturbed>>

\* Faulty variant: the copy made with the draft is the one that leaves.
IssueReadOfDraft(p) ==
  /\ At(p, "issue")
  /\ Goto(p, [pc |-> "send", on |-> req[p].on,
              identity |-> documents[req[p].on[2]].recipient])
  /\ UNCHANGED <<contacts, documents, was, disturbed>>

\* issue: the identity of the contact is read, and must have an address.
IssueRead(p) ==
  /\ At(p, "issue")
  /\ LET d == req[p].on[2]
         current == loadRecipient(req[p].contact)
     IN IF followsContact(documents[d].type)
        THEN /\ recipientAddressComplete(current)
             /\ Goto(p, [pc |-> "send", on |-> req[p].on, identity |-> current])
        ELSE Goto(p, [pc |-> "send", on |-> req[p].on, identity |-> Nobody])
  /\ UNCHANGED <<contacts, documents, was, disturbed>>

\* The identity and the status, in one transaction.
IssueCommit(p) ==
  /\ At(p, "send")
  /\ LET d == req[p].on[2]
         row == IF followsContact(documents[d].type) THEN Stored(d, req[p].identity)
                ELSE documents[d]
     IN documents' = [documents EXCEPT ![d] = [row EXCEPT !.status = "sent"]]
  /\ Finish(p)
  /\ UNCHANGED <<contacts, was, disturbed>>

ConvertQuote(d) ==
  /\ documents[d].type = "quote" /\ documents[d].status = "sent"
  /\ \A e \in Docs : ~(documents[e].type = "invoice" /\ documents[e].origin = d)
  /\ Add("invoice", documents[d].contact, loadRecipient(documents[d].contact), d)
  /\ UNCHANGED <<contacts, req, was, disturbed>>

\* The note takes the identity of the invoice, as it was sent; that of the
\* contact if the invoice names nobody.
CreateCreditNote(d) ==
  /\ documents[d].type = "invoice" /\ documents[d].status = "sent"
  /\ Add("credit_note", documents[d].contact, Printed(d), d)
  /\ UNCHANGED <<contacts, req, was, disturbed>>

-----------------------------------------------------------------------------
(* Starts *)

\* BackfillInvoiceRecipients: a document that names nobody takes the identity
\* its contact has now, and says so.
Backfill ==
  [d \in Docs |->
     IF documents[d].recipient.name # "" THEN documents[d]
     ELSE [documents[d] EXCEPT !.recipient = loadRecipient(documents[d].contact),
                               !.backfilled = TRUE]]

\* The program dies and starts again.
Restart ==
  /\ documents' = Backfill
  /\ req' = [p \in Requests |-> Idle]
  /\ UNCHANGED <<contacts, was, disturbed>>

Abandon(p) ==
  /\ req[p] # Idle
  /\ Finish(p)
  /\ UNCHANGED <<contacts, documents, was, disturbed>>

-----------------------------------------------------------------------------

\* A base from before the copies may hold documents that name nobody, and
\* contacts no rule was put to; the program completes the former at start.
Legacy(name) == [kind |-> "customer", name |-> name, address |-> "", anonymised |-> FALSE]

Init ==
  \E olds \in SUBSET Clients, name \in Names, sent \in BOOLEAN :
    /\ contacts = [c \in olds |-> Legacy(name)]
    /\ was = [c \in Clients |-> IF c \in olds THEN {[name |-> name, address |-> ""]} ELSE {}]
    /\ documents \in
         IF sent /\ olds # {} /\ MaxDocuments > 0
         THEN {<<[type |-> "invoice", contact |-> c, status |-> "sent",
                  recipient |-> [name |-> name, address |-> ""],
                  backfilled |-> TRUE, origin |-> 0]>> : c \in olds}
         ELSE {<<>>}
    /\ req = [p \in Requests |-> Idle]
    /\ disturbed = {}

Next ==
  \/ \E c \in Clients, kind \in Kinds, name \in Names, address \in Addresses \cup {""} :
       CreateContact(c, kind, name, address)
  \/ \E p \in Requests, c \in Known, patch \in Patches \cap PatchBodies :
       UpdateContactLoad(p, c, patch)
  \/ \E p \in Requests, c \in Known : AnonymiseLoad(p, c)
  \/ \E type \in Types, c \in Known : CreateInvoice(type, c)
  \/ \E p \in Requests, d \in Docs, c \in Known : UpdateInvoiceLoad(p, d, c)
  \/ \E p \in Requests, d \in Docs, to \in {"draft", "sent", "cancelled"} :
       TransitionLoad(p, d, to)
  \/ \E d \in Docs : ConvertQuote(d) \/ CreateCreditNote(d)
  \/ \E p \in Requests :
       \/ UpdateContactCommit(p)
       \/ AnonymiseCheck(p)
       \/ AnonymiseCommit(p)
       \/ UpdateInvoiceCommit(p)
       \/ TransitionCommit(p)
       \/ IssueRead(p)
       \/ IssueCommit(p)
       \/ Abandon(p)
  \/ Restart

Spec == Init /\ [][Next]_vars

-----------------------------------------------------------------------------
(* Properties *)

TypeOK ==
  /\ Known \subseteq Clients
  /\ \A c \in Known : contacts[c].kind \in Kinds
  /\ Docs = 1..Len(documents) /\ Len(documents) <= MaxDocuments
  /\ \A d \in Docs : /\ documents[d].type \in Types
                     /\ documents[d].status \in {"draft", "sent", "cancelled"}
                     /\ documents[d].contact \in Known
  /\ DOMAIN req = Requests

\* An invoice or an offer that was sent names, with a complete address, an
\* identity its contact has had at some time: not that of a contact it was
\* addressed to before, not what an anonymisation left, however creation,
\* redirection, changes of the contact, anonymisation and starts mingle
\* (service.go issue).  Set aside: documents two requests were at work on at
\* once, and those marked as reconstituted.
SentNamesItsRecipient ==
  \A d \in Docs :
    /\ documents[d].status = "sent" /\ followsContact(documents[d].type)
    /\ ~documents[d].backfilled /\ Document(d) \notin disturbed
    => /\ documents[d].recipient \in was[documents[d].contact]
       /\ recipientAddressComplete(documents[d].recipient)

\* What is printed of a document once it is sent stays the same whatever
\* becomes of its contact, and so does what is printed of a credit note, from
\* its creation on; a document that named nobody says so when it is completed
\* (invoice_pdf.go, fiscal_backfill.go BackfillInvoiceRecipients).
PrintedStays ==
  [][\A d \in Docs :
       /\ \/ documents[d].status = "sent" /\ documents'[d].status = "sent"
          \/ documents[d].type = "credit_note"
       /\ Document(d) \notin disturbed'
       => IF documents[d].recipient.name # "" THEN Printed(d)' = Printed(d)
          ELSE documents'[d].recipient = documents[d].recipient \/ documents'[d].backfilled]_vars

\* A customer that can be billed is never made one that cannot, however its
\* fields and its kind are changed and in how many requests: only an
\* anonymisation does (contacts.go UpdateContact).  Set aside: contacts two
\* requests were about to write at once.
CustomersStayBillable ==
  [][\A c \in Known :
       /\ contacts[c].kind = "supplier" \/ Billable("customer", contacts[c].name, contacts[c].address)
       /\ ~contacts'[c].anonymised /\ Contact(c) \notin disturbed'
       => Billable(contacts'[c].kind, contacts'[c].name, contacts'[c].address)]_vars

=============================================================================
