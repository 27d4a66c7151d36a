--------------------------- MODULE ContactsProofs ---------------------------
(***************************************************************************)
(* What holds of contacts and of the recipients documents name, for every  *)
(* set of connections, contacts, names, addresses and changes, and for     *)
(* every number of documents.                                              *)
(***************************************************************************)
EXTENDS Contacts, TLAPS

-----------------------------------------------------------------------------
(* The inductive invariant *)

Identities == [name : Names \cup Clients \cup {""}, address : Addresses \cup {""}]

ContactRow ==
  [kind : Kinds, name : Names \cup Clients \cup {""}, address : Addresses \cup {""},
   anonymised : BOOLEAN]

DocumentRow ==
  [type : Types, contact : Clients, status : {"draft", "sent", "cancelled"},
   recipient : Identities, backfilled : BOOLEAN, origin : Nat]

\* The tables, whose documents are addressed to contacts that exist, and the
\* history, which holds the identity each contact has.
TablesOK ==
  /\ Known \subseteq Clients
  /\ contacts \in [Known -> ContactRow]
  /\ documents \in Seq(DocumentRow) /\ Len(documents) <= MaxDocuments
  /\ \A d \in Docs : documents[d].contact \in Known
  /\ was \in [Clients -> SUBSET Identities]
  /\ \A c \in Known : loadRecipient(c) \in was[c]

\* What a request is doing, to which row, and what it remembers.
RequestOK(p) ==
  \/ req[p] = Idle
  \/ \E c \in Known :
       /\ req[p].on = Contact(c)
       /\ \/ At(p, "patch") /\ req[p].patch \in PatchBodies
          \/ At(p, "anonymise") /\ req[p] = [pc |-> "anonymise", on |-> Contact(c)]
          \/ At(p, "erase")
  \/ \E d \in Docs :
       /\ req[p].on = Document(d)
       /\ \/ At(p, "update") /\ req[p].contact \in Known
          \/ At(p, "transition") /\ req[p].to \in {"draft", "cancelled"}
          \/ At(p, "issue") /\ req[p].contact \in Known
          \/ At(p, "send") /\ req[p].identity \in Identities

RequestsOK ==
  /\ req = [p \in Requests |-> req[p]]
  /\ \A p \in Requests : RequestOK(p)

\* Two requests are at work on a row only if it is marked.
Alone ==
  \A p, q \in Requests :
    p # q /\ req[p] # Idle /\ req[p].on = req[q].on => req[p].on \in disturbed

\* A change the rule was put to, and found good for the row.
Allowed(row, patch) ==
  Touched(row, patch) =>
    LET result == Patched(row, patch) IN Billable(result.kind, result.name, result.address)

\* What a request has found of a contact that only it is at work on.
ContactStands(p) ==
  \A c \in Known :
    req[p].on = Contact(c) /\ Contact(c) \notin disturbed /\ At(p, "patch") =>
      Allowed(contacts[c], req[p].patch)

\* The same of a document.
DocumentStands(p) ==
  \A d \in Docs :
    req[p].on = Document(d) /\ Document(d) \notin disturbed =>
      /\ req[p].pc \in {"update", "issue", "send"} => documents[d].status = "draft"
      /\ At(p, "issue") => req[p].contact = documents[d].contact
      /\ At(p, "send") /\ followsContact(documents[d].type) =>
           /\ req[p].identity \in was[documents[d].contact]
           /\ recipientAddressComplete(req[p].identity)

ContactsInv ==
  /\ TablesOK
  /\ RequestsOK
  /\ Alone
  /\ \A p \in Requests : ContactStands(p) /\ DocumentStands(p)
  /\ SentNamesItsRecipient
-----------------------------------------------------------------------------
(* Rows and requests *)

\* A row is of one table and one key.
LEMMA Rows ==
  /\ \A c, d : Contact(c) = Contact(d) => c = d
  /\ \A c, d : Document(c) = Document(d) => c = d
  /\ \A c, d : Contact(c) # Document(d)
  /\ \A c : Contact(c) # <<>> /\ Document(c) # <<>>
  /\ \A c : Contact(c)[2] = c /\ Document(c)[2] = c
  BY DEF Contact, Document

\* A request that is not idle is at work on the row of its step.
LEMMA WorksOn ==
  ASSUME RequestsOK, NEW p \in Requests
  PROVE  /\ req[p].pc \in {"patch", "anonymise", "erase"} =>
              \E c \in Known : req[p].on = Contact(c)
         /\ req[p].pc \in {"update", "transition", "issue", "send"} =>
              \E d \in Docs : req[p].on = Document(d)
         /\ At(p, "patch") => req[p].patch \in PatchBodies
         /\ At(p, "anonymise") => req[p] = [pc |-> "anonymise", on |-> req[p].on]
         /\ At(p, "update") \/ At(p, "issue") => req[p].contact \in Known
         /\ At(p, "transition") => req[p].to \in {"draft", "cancelled"}
         /\ At(p, "send") => req[p].identity \in Identities
         /\ req[p].pc # "idle" => req[p] # Idle
<1>1. RequestOK(p)
  BY DEF RequestsOK
<1>2. req[p] = Idle => req[p].pc = "idle"
  BY DEF Idle
<1> QED
  BY <1>1, <1>2 DEF RequestOK, At

LEMMA IdleOn == Idle.on = <<>> /\ Idle.pc = "idle"
  BY DEF Idle

\* Requests other than p are as they were.
OthersSame(p) ==
  /\ req' = [q \in Requests |-> req'[q]]
  /\ \A q \in Requests \ {p} : req'[q] = req[q]

LEMMA GotoEffect ==
  ASSUME RequestsOK, NEW p \in Requests, NEW r, Goto(p, r)
  PROVE  OthersSame(p) /\ req'[p] = r
  BY DEF RequestsOK, Goto, OthersSame

LEMMA FinishEffect ==
  ASSUME RequestsOK, NEW p \in Requests, Finish(p)
  PROVE  OthersSame(p) /\ req'[p] = Idle
  BY DEF RequestsOK, Finish, OthersSame

LEMMA BeginEffect ==
  ASSUME RequestsOK, NEW p \in Requests, NEW r, Begin(p, r)
  PROVE  /\ OthersSame(p) /\ req[p] = Idle /\ req'[p] = r
         /\ disturbed \subseteq disturbed'
         /\ \A q \in Requests : req[q].on = r.on => r.on \in disturbed'
  BY DEF RequestsOK, Begin, OthersSame

\* Contacts, documents and identities are added and never removed.
Grows ==
  /\ Known \subseteq Known'
  /\ Docs \subseteq Docs'
  /\ \A c \in Known : was[c] \subseteq was'[c]
  /\ disturbed \subseteq disturbed'

\* What decides on the work of a request is as the request has found it.
Untouched(q) ==
  /\ \A c \in Known :
       req[q].on = Contact(c) /\ Contact(c) \notin disturbed' => contacts'[c] = contacts[c]
  /\ \A d \in Docs :
       req[q].on = Document(d) /\ Document(d) \notin disturbed' =>
         /\ documents'[d].type = documents[d].type
         /\ documents'[d].status = documents[d].status
         /\ documents'[d].contact = documents[d].contact

LEMMA KeptStands ==
  ASSUME ContactsInv, NEW q \in Requests, req'[q] = req[q], Grows, Untouched(q)
  PROVE  RequestOK(q)' /\ ContactStands(q)' /\ DocumentStands(q)'
<1>1. RequestOK(q) /\ ContactStands(q) /\ DocumentStands(q)
  BY DEF ContactsInv, RequestsOK
<1>2. RequestOK(q)'
  <2>1. CASE req[q] = Idle
    BY <2>1 DEF RequestOK
  <2>2. ASSUME NEW c \in Known, req[q].on = Contact(c),
               \/ At(q, "patch") /\ req[q].patch \in PatchBodies
               \/ At(q, "anonymise") /\ req[q] = [pc |-> "anonymise", on |-> Contact(c)]
               \/ At(q, "erase")
        PROVE  RequestOK(q)'
    <3>1. c \in Known' /\ req'[q].on = Contact(c)
          /\ (\/ req'[q].pc = "patch" /\ req'[q].patch \in PatchBodies
              \/ req'[q].pc = "anonymise" /\ req'[q] = [pc |-> "anonymise", on |-> Contact(c)]
              \/ req'[q].pc = "erase")
      BY <2>2 DEF Grows, At
    <3> QED
      BY <3>1 DEF RequestOK, At, PatchBodies
  <2>3. ASSUME NEW d \in Docs, req[q].on = Document(d),
               \/ At(q, "update") /\ req[q].contact \in Known
               \/ At(q, "transition") /\ req[q].to \in {"draft", "cancelled"}
               \/ At(q, "issue") /\ req[q].contact \in Known
               \/ At(q, "send") /\ req[q].identity \in Identities
        PROVE  RequestOK(q)'
    <3>1. d \in Docs' /\ req'[q].on = Document(d)
          /\ (\/ req'[q].pc = "update" /\ req'[q].contact \in Known'
              \/ req'[q].pc = "transition" /\ req'[q].to \in {"draft", "cancelled"}
              \/ req'[q].pc = "issue" /\ req'[q].contact \in Known'
              \/ req'[q].pc = "send" /\ req'[q].identity \in Identities)
      BY <2>3 DEF Grows, At
    <3> QED
      BY <3>1 DEF RequestOK, At
  <2> QED
    BY <1>1, <2>1, <2>2, <2>3 DEF RequestOK
<1>3. ContactStands(q)'
  <2> SUFFICES ASSUME NEW c \in Known', req[q].on = Contact(c), Contact(c) \notin disturbed',
                      At(q, "patch")
               PROVE  Allowed(contacts'[c], req[q].patch)
    BY DEF ContactStands, At
  <2>1. c \in Known
    <3>1. PICK k \in Known : req[q].on = Contact(k)
      BY WorksOn DEF ContactsInv, At
    <3> QED
      BY <3>1, Rows
  <2>2. contacts'[c] = contacts[c] /\ Contact(c) \notin disturbed
    BY <2>1 DEF Untouched, Grows
  <2> QED
    BY <1>1, <2>1, <2>2 DEF ContactStands
<1>4. DocumentStands(q)'
  <2> SUFFICES ASSUME NEW d \in Docs', req[q].on = Document(d), Document(d) \notin disturbed'
               PROVE  /\ req[q].pc \in {"update", "issue", "send"} => documents'[d].status = "draft"
                      /\ At(q, "issue") => req[q].contact = documents'[d].contact
                      /\ At(q, "send") /\ followsContact(documents'[d].type) =>
                           /\ req[q].identity \in was'[documents'[d].contact]
                           /\ recipientAddressComplete(req[q].identity)
    BY DEF DocumentStands, At, followsContact, recipientAddressComplete
  <2>1. CASE d \in Docs
    <3>1. /\ documents'[d].type = documents[d].type
          /\ documents'[d].status = documents[d].status
          /\ documents'[d].contact = documents[d].contact
          /\ Document(d) \notin disturbed
      BY <2>1 DEF Untouched, Grows
    <3>2. was[documents[d].contact] \subseteq was'[documents[d].contact]
      BY <2>1 DEF Grows, ContactsInv, TablesOK
    <3> QED
      BY <1>1, <2>1, <3>1, <3>2 DEF DocumentStands
  <2>2. CASE d \notin Docs
    <3>1. ASSUME req[q].pc \in {"update", "issue", "send"}
          PROVE  FALSE
      <4>1. PICK e \in Docs : req[q].on = Document(e)
        BY <3>1, WorksOn DEF ContactsInv
      <4>2. d = e
        BY <4>1, Rows
      <4> QED
        BY <2>2, <4>2
    <3> QED
      BY <3>1 DEF At
  <2> QED
    BY <2>1, <2>2
<1> QED
  BY <1>2, <1>3, <1>4

LEMMA AloneStep ==
  ASSUME Alone, NEW p \in Requests, OthersSame(p), disturbed \subseteq disturbed',
         \/ req'[p] = Idle
         \/ req'[p].on = req[p].on /\ req[p] # Idle
         \/ \A q \in Requests : req[q].on = req'[p].on => req'[p].on \in disturbed',
         RequestsOK, RequestsOK'
  PROVE  Alone'
<1> SUFFICES ASSUME NEW q \in Requests, NEW s \in Requests, q # s, req'[q] # Idle,
                    req'[q].on = req'[s].on
             PROVE  req'[q].on \in disturbed'
  BY DEF Alone
<1>1. ASSUME NEW t \in Requests, req'[t] # Idle
      PROVE  req'[t].on # <<>>
  <2>1. RequestOK(t)'
    BY DEF RequestsOK
  <2> QED
    BY <1>1, <2>1, Rows DEF RequestOK
<1>2. req'[s] # Idle
  BY <1>1, IdleOn
<1>3. CASE q # p /\ s # p
  BY <1>3 DEF OthersSame, Alone
<1>4. ASSUME NEW t \in Requests \ {p}, req'[t] # Idle, req'[p] # Idle, req'[t].on = req'[p].on
      PROVE  req'[t].on \in disturbed'
  BY <1>4 DEF OthersSame, Alone
<1> QED
  BY <1>2, <1>3, <1>4

\* What a step of one request has to show of the requests.
LEMMA StepKeeps ==
  ASSUME ContactsInv, NEW p \in Requests, OthersSame(p), Grows,
         \A q \in Requests \ {p} : Untouched(q),
         RequestOK(p)', ContactStands(p)', DocumentStands(p)',
         \/ req'[p] = Idle
         \/ req'[p].on = req[p].on /\ req[p] # Idle
         \/ \A q \in Requests : req[q].on = req'[p].on => req'[p].on \in disturbed'
  PROVE  RequestsOK' /\ Alone' /\ \A q \in Requests : ContactStands(q)' /\ DocumentStands(q)'
<1>1. \A q \in Requests : RequestOK(q)' /\ ContactStands(q)' /\ DocumentStands(q)'
  BY KeptStands DEF OthersSame
<1>2. RequestsOK'
  BY <1>1 DEF RequestsOK, OthersSame
<1>3. Alone'
  BY <1>2, AloneStep DEF ContactsInv, Grows
<1> QED
  BY <1>1, <1>2, <1>3

\* The same of a request that is answered.
LEMMA EndKeeps ==
  ASSUME ContactsInv, NEW p \in Requests, Finish(p), Grows,
         \A q \in Requests \ {p} : Untouched(q)
  PROVE  RequestsOK' /\ Alone' /\ \A q \in Requests : ContactStands(q)' /\ DocumentStands(q)'
<1>1. OthersSame(p) /\ req'[p] = Idle
  BY FinishEffect DEF ContactsInv
<1>2. RequestOK(p)'
  BY <1>1 DEF RequestOK
<1>3. ContactStands(p)' /\ DocumentStands(p)'
  BY <1>1, IdleOn, Rows DEF ContactStands, DocumentStands
<1> QED
  BY <1>1, <1>2, <1>3, StepKeeps

\* The same of a step of no request.
LEMMA StillKeeps ==
  ASSUME ContactsInv, req' = req, Grows, disturbed' = disturbed,
         \A q \in Requests : Untouched(q)
  PROVE  RequestsOK' /\ Alone' /\ \A q \in Requests : ContactStands(q)' /\ DocumentStands(q)'
<1>1. \A q \in Requests : RequestOK(q)' /\ ContactStands(q)' /\ DocumentStands(q)'
  BY KeptStands
<1>2. RequestsOK' /\ Alone'
  BY <1>1 DEF ContactsInv, RequestsOK, Alone
<1> QED
  BY <1>1, <1>2

-----------------------------------------------------------------------------
(* The tables *)

\* What a step has to show of the tables.
TablesStep == TablesOK' /\ SentNamesItsRecipient' /\ Grows

\* What SentNamesItsRecipient says of a row of documents.
NamesItsRecipient(d, row, identities, marked) ==
  /\ row.status = "sent" /\ followsContact(row.type)
  /\ ~row.backfilled /\ Document(d) \notin marked
  => /\ row.recipient \in identities
     /\ recipientAddressComplete(row.recipient)

LEMMA IdentityOfContact ==
  ASSUME TablesOK, NEW c \in Known
  PROVE  loadRecipient(c) \in Identities
  BY DEF TablesOK, loadRecipient, ContactRow, Identities

LEMMA DocumentsSeq ==
  ASSUME TablesOK
  PROVE  /\ Docs = 1..Len(documents)
         /\ \A d \in Docs : documents[d] \in DocumentRow
  BY DEF TablesOK, Docs

LEMMA SameKeeps ==
  ASSUME ContactsInv, UNCHANGED <<contacts, documents, was>>, disturbed \subseteq disturbed'
  PROVE  TablesStep /\ \A q \in Requests : Untouched(q)
<1>1. TablesOK' /\ Grows
  BY DEF ContactsInv, TablesOK, Grows, Known, Docs, loadRecipient
<1>2. SentNamesItsRecipient'
  BY DEF ContactsInv, SentNamesItsRecipient, Docs
<1>3. \A q \in Requests : Untouched(q)
  BY DEF Untouched
<1> QED
  BY <1>1, <1>2, <1>3 DEF TablesStep

LEMMA PutKeeps ==
  ASSUME ContactsInv, NEW c \in Clients, NEW row \in ContactRow, Put(c, row),
         documents' = documents, disturbed' = disturbed
  PROVE  TablesStep /\ \A k \in Known : k # c => contacts'[k] = contacts[k]
<1> DEFINE identity == [name |-> row.name, address |-> row.address]
<1>1. TablesOK /\ identity \in Identities
  BY DEF ContactsInv, ContactRow, Identities
<1>2. /\ contacts' \in [Known \cup {c} -> ContactRow] /\ Known' = Known \cup {c}
      /\ contacts'[c] = row
      /\ \A k \in Known : k # c => contacts'[k] = contacts[k]
  BY <1>1 DEF TablesOK, Put, Known
<1>3. /\ was' \in [Clients -> SUBSET Identities]
      /\ was'[c] = was[c] \cup {identity}
      /\ \A k \in Clients : was[k] \subseteq was'[k]
  <2>1. was' = [was EXCEPT ![c] = @ \cup {identity}]
    BY DEF Put
  <2> HIDE DEF identity
  <2> QED
    BY <1>1, <2>1 DEF TablesOK
<1>4. \A k \in Known' : loadRecipient(k)' \in was'[k]
  <2>1. loadRecipient(c)' \in was'[c]
    BY <1>2, <1>3 DEF loadRecipient
  <2>2. ASSUME NEW k \in Known, k # c
        PROVE  loadRecipient(k)' \in was'[k]
    <3>1. loadRecipient(k)' = loadRecipient(k)
      BY <1>2, <2>2 DEF loadRecipient
    <3> QED
      BY <1>1, <1>3, <3>1 DEF TablesOK
  <2> QED
    BY <1>2, <2>1, <2>2
<1>5. TablesOK'
  BY <1>1, <1>2, <1>3, <1>4 DEF TablesOK, Docs
<1>6. Grows
  BY <1>1, <1>2, <1>3 DEF TablesOK, Grows, Docs
<1>7. SentNamesItsRecipient'
  <2>1. \A d \in Docs : was[documents[d].contact] \subseteq was'[documents[d].contact]
    BY <1>1, <1>3 DEF TablesOK
  <2> QED
    BY <2>1 DEF ContactsInv, SentNamesItsRecipient, Docs
<1> QED
  BY <1>2, <1>5, <1>6, <1>7 DEF TablesStep

LEMMA AddKeeps ==
  ASSUME ContactsInv, NEW type \in Types, NEW c \in Known, NEW identity \in Identities,
         NEW origin \in Nat, Add(type, c, identity, origin),
         UNCHANGED <<contacts, was, disturbed>>
  PROVE  TablesStep /\ \A q \in Requests : Untouched(q)
<1> DEFINE row == [type |-> type, contact |-> c, status |-> "draft", recipient |-> identity,
                   backfilled |-> FALSE, origin |-> origin]
<1>1. TablesOK /\ Docs = 1..Len(documents)
  BY DocumentsSeq DEF ContactsInv
<1>2. row \in DocumentRow
  BY <1>1 DEF DocumentRow, TablesOK
<1>3. documents' = Append(documents, row) /\ Len(documents) < MaxDocuments
  BY DEF Add
<1>4. row.status = "draft" /\ row.contact = c
  OBVIOUS
<1> HIDE DEF row
<1>5. /\ documents' \in Seq(DocumentRow) /\ Len(documents') = Len(documents) + 1
      /\ \A d \in Docs : documents'[d] = documents[d]
      /\ documents'[Len(documents) + 1] = row
  BY <1>1, <1>2, <1>3 DEF TablesOK
<1>6. Docs' = 1..(Len(documents) + 1)
  BY <1>5 DEF Docs
<1>7. TablesOK' /\ Grows
  <2>1. Len(documents') <= MaxDocuments
    <3>1. Len(documents) \in Nat
      BY <1>1 DEF TablesOK
    <3>2. MaxDocuments \in Nat
      BY ContactsAssumption
    <3> QED
      BY <1>3, <1>5, <3>1, <3>2
  <2>2. \A d \in Docs' : documents'[d].contact \in Known
    <3>1. Docs' = Docs \cup {Len(documents) + 1}
      BY <1>1, <1>6 DEF TablesOK
    <3> QED
      BY <1>1, <1>4, <1>5, <3>1 DEF TablesOK
  <2>3. Docs \subseteq Docs'
    BY <1>1, <1>6 DEF TablesOK
  <2>4. Known' = Known /\ \A k \in Known : loadRecipient(k)' = loadRecipient(k)
    BY DEF Known, loadRecipient
  <2> QED
    BY <1>1, <1>5, <2>1, <2>2, <2>3, <2>4 DEF TablesOK, Grows
<1>8. SentNamesItsRecipient'
  <2> SUFFICES ASSUME NEW d \in Docs', documents'[d].status = "sent",
                      followsContact(documents'[d].type),
                      ~documents'[d].backfilled, Document(d) \notin disturbed
               PROVE  /\ documents'[d].recipient \in was[documents'[d].contact]
                      /\ recipientAddressComplete(documents'[d].recipient)
    BY DEF SentNamesItsRecipient
  <2>1. d \in Docs
    BY <1>1, <1>4, <1>5, <1>6 DEF TablesOK
  <2> QED
    BY <1>5, <2>1 DEF ContactsInv, SentNamesItsRecipient
<1>9. \A q \in Requests : Untouched(q)
  BY <1>5 DEF Untouched
<1> QED
  BY <1>7, <1>8, <1>9 DEF TablesStep

\* The row of a document is written over.
LEMMA WriteKeeps ==
  ASSUME ContactsInv, NEW d \in Docs, NEW row \in DocumentRow, row.contact \in Known,
         documents' = [documents EXCEPT ![d] = row],
         NamesItsRecipient(d, row, was[row.contact], disturbed),
         UNCHANGED <<contacts, was, disturbed>>
  PROVE  /\ TablesStep /\ documents'[d] = row /\ Docs' = Docs
         /\ \A e \in Docs : e # d => documents'[e] = documents[e]
<1>1. TablesOK /\ Docs = 1..Len(documents)
  BY DocumentsSeq DEF ContactsInv
<1>2. /\ documents' \in Seq(DocumentRow) /\ Len(documents') = Len(documents)
      /\ documents'[d] = row
      /\ \A e \in Docs : e # d => documents'[e] = documents[e]
  BY <1>1 DEF TablesOK
<1>3. Docs' = Docs
  BY <1>1, <1>2 DEF Docs
<1>4. TablesOK' /\ Grows
  BY <1>1, <1>2, <1>3 DEF TablesOK, Grows, Known, loadRecipient
<1>5. SentNamesItsRecipient'
  <2>1. ASSUME NEW e \in Docs
        PROVE  NamesItsRecipient(e, documents'[e], was'[documents'[e].contact], disturbed')
    <3>1. CASE e = d
      BY <1>2, <3>1
    <3>2. CASE e # d
      BY <1>2, <3>2 DEF ContactsInv, SentNamesItsRecipient, NamesItsRecipient
    <3> QED
      BY <3>1, <3>2
  <2> QED
    BY <1>3, <2>1 DEF SentNamesItsRecipient, NamesItsRecipient
<1> QED
  BY <1>2, <1>3, <1>4, <1>5 DEF TablesStep

\* Who writes the row it is at work on touches nobody else's, unless marked.
LEMMA OnlyContact ==
  ASSUME ContactsInv, NEW p \in Requests, NEW c, req[p] # Idle, req[p].on = Contact(c),
         documents' = documents, disturbed' = disturbed,
         \A k \in Known : k # c => contacts'[k] = contacts[k]
  PROVE  \A q \in Requests \ {p} : Untouched(q)
<1> SUFFICES ASSUME NEW q \in Requests \ {p} PROVE Untouched(q)
  OBVIOUS
<1>1. ASSUME NEW k \in Known, req[q].on = Contact(k), Contact(k) \notin disturbed
      PROVE  contacts'[k] = contacts[k]
  BY <1>1 DEF ContactsInv, Alone
<1> QED
  BY <1>1 DEF Untouched

LEMMA OnlyDocument ==
  ASSUME ContactsInv, NEW p \in Requests, NEW d, req[p] # Idle, req[p].on = Document(d),
         contacts' = contacts, disturbed' = disturbed,
         \A e \in Docs : e # d => documents'[e] = documents[e]
  PROVE  \A q \in Requests \ {p} : Untouched(q)
<1> SUFFICES ASSUME NEW q \in Requests \ {p} PROVE Untouched(q)
  OBVIOUS
<1>1. ASSUME NEW e \in Docs, req[q].on = Document(e), Document(e) \notin disturbed
      PROVE  documents'[e] = documents[e]
  BY <1>1 DEF ContactsInv, Alone
<1> QED
  BY <1>1 DEF Untouched

-----------------------------------------------------------------------------
(* The steps *)

\* A request that begins, and reads what it is about to decide on.
LEMMA BeginStep ==
  ASSUME ContactsInv, NEW p \in Requests, NEW r, Begin(p, r),
         UNCHANGED <<contacts, documents, was>>,
         RequestOK(p)', ContactStands(p)', DocumentStands(p)'
  PROVE  ContactsInv'
<1>1. /\ OthersSame(p) /\ req'[p] = r
      /\ disturbed \subseteq disturbed'
      /\ \A q \in Requests : req[q].on = r.on => r.on \in disturbed'
  BY BeginEffect DEF ContactsInv
<1>2. TablesStep /\ \A q \in Requests : Untouched(q)
  BY <1>1, SameKeeps
<1>3. RequestsOK' /\ Alone' /\ \A q \in Requests : ContactStands(q)' /\ DocumentStands(q)'
  BY <1>1, <1>2, StepKeeps DEF TablesStep
<1> QED
  BY <1>2, <1>3 DEF ContactsInv, TablesStep

\* A request that goes on, on the same row, and writes nothing.
LEMMA GotoStep ==
  ASSUME ContactsInv, NEW p \in Requests, NEW r, Goto(p, r), r.on = req[p].on, req[p] # Idle,
         UNCHANGED <<contacts, documents, was, disturbed>>,
         RequestOK(p)', ContactStands(p)', DocumentStands(p)'
  PROVE  ContactsInv'
<1>1. OthersSame(p) /\ req'[p] = r
  BY GotoEffect DEF ContactsInv
<1>2. TablesStep /\ \A q \in Requests : Untouched(q)
  BY SameKeeps
<1>3. RequestsOK' /\ Alone' /\ \A q \in Requests : ContactStands(q)' /\ DocumentStands(q)'
  BY <1>1, <1>2, StepKeeps DEF TablesStep
<1> QED
  BY <1>2, <1>3 DEF ContactsInv, TablesStep

\* A request that writes the contact it is at work on, and is answered.
LEMMA PutStep ==
  ASSUME ContactsInv, NEW p \in Requests, NEW c \in Known, req[p] # Idle,
         req[p].on = Contact(c), NEW row \in ContactRow, Put(c, row), Finish(p),
         UNCHANGED <<documents, disturbed>>
  PROVE  ContactsInv'
<1>1. TablesStep /\ \A k \in Known : k # c => contacts'[k] = contacts[k]
  BY PutKeeps DEF ContactsInv, TablesOK
<1>2. \A q \in Requests \ {p} : Untouched(q)
  BY <1>1, OnlyContact
<1>3. RequestsOK' /\ Alone' /\ \A q \in Requests : ContactStands(q)' /\ DocumentStands(q)'
  BY <1>1, <1>2, EndKeeps DEF TablesStep
<1> QED
  BY <1>1, <1>3 DEF ContactsInv, TablesStep

\* The same of a document.
LEMMA WriteStep ==
  ASSUME ContactsInv, NEW p \in Requests, NEW d \in Docs, req[p] # Idle,
         req[p].on = Document(d), NEW row \in DocumentRow, row.contact \in Known,
         documents' = [documents EXCEPT ![d] = row], Finish(p),
         NamesItsRecipient(d, row, was[row.contact], disturbed),
         UNCHANGED <<contacts, was, disturbed>>
  PROVE  ContactsInv'
<1>1. TablesStep /\ \A e \in Docs : e # d => documents'[e] = documents[e]
  BY WriteKeeps
<1>2. \A q \in Requests \ {p} : Untouched(q)
  BY <1>1, OnlyDocument
<1>3. RequestsOK' /\ Alone' /\ \A q \in Requests : ContactStands(q)' /\ DocumentStands(q)'
  BY <1>1, <1>2, EndKeeps DEF TablesStep
<1> QED
  BY <1>1, <1>3 DEF ContactsInv, TablesStep

LEMMA CreateContactStep ==
  ASSUME ContactsInv, NEW c \in Clients, NEW kind \in Kinds, NEW name \in Names,
         NEW address \in Addresses \cup {""}, CreateContact(c, kind, name, address)
  PROVE  ContactsInv'
<1> DEFINE row == [kind |-> kind, name |-> name, address |-> address, anonymised |-> FALSE]
<1>1. row \in ContactRow /\ Put(c, row) /\ c \notin Known
  BY DEF ContactRow, CreateContact
<1> HIDE DEF row
<1>2. TablesStep /\ \A k \in Known : k # c => contacts'[k] = contacts[k]
  BY <1>1, PutKeeps DEF CreateContact
<1>3. \A q \in Requests : Untouched(q)
  BY <1>1, <1>2 DEF Untouched, CreateContact
<1>4. RequestsOK' /\ Alone' /\ \A q \in Requests : ContactStands(q)' /\ DocumentStands(q)'
  BY <1>2, <1>3, StillKeeps DEF TablesStep, CreateContact
<1> QED
  BY <1>2, <1>4 DEF ContactsInv, TablesStep

\* The row of a contact once changed is a row of contacts.
LEMMA PatchedRow ==
  ASSUME NEW row \in ContactRow, NEW patch \in PatchBodies
  PROVE  Patched(row, patch) \in ContactRow
  BY DEF ContactRow, PatchBodies, Patched, valeurResultante, Kinds

LEMMA UpdateContactLoadStep ==
  ASSUME ContactsInv, NEW p \in Requests, NEW c \in Known, NEW patch \in PatchBodies,
         UpdateContactLoad(p, c, patch)
  PROVE  ContactsInv'
<1> DEFINE r == [pc |-> "patch", on |-> Contact(c), patch |-> patch]
<1>1. Begin(p, r) /\ Allowed(contacts[c], patch)
  BY DEF UpdateContactLoad, Allowed
<1>2. req'[p] = r /\ Known' = Known
  BY <1>1, BeginEffect DEF ContactsInv, UpdateContactLoad, Known
<1>3. RequestOK(p)'
  <2>1. c \in Known' /\ req'[p].pc = "patch" /\ req'[p].on = Contact(c) /\ req'[p].patch = patch
    BY <1>2
  <2> QED
    BY <2>1 DEF RequestOK, At, PatchBodies
<1>4. ContactStands(p)'
  BY <1>1, <1>2, Rows DEF ContactStands, UpdateContactLoad
<1>5. DocumentStands(p)'
  BY <1>2, Rows DEF DocumentStands
<1> QED
  BY <1>1, <1>3, <1>4, <1>5, BeginStep DEF UpdateContactLoad

LEMMA UpdateContactCommitStep ==
  ASSUME ContactsInv, NEW p \in Requests, UpdateContactCommit(p)
  PROVE  ContactsInv'
<1>1. PICK c \in Known : req[p].on = Contact(c)
  BY WorksOn DEF ContactsInv, UpdateContactCommit, At
<1>2. req[p].on[2] = c /\ req[p] # Idle /\ req[p].patch \in PatchBodies
  BY <1>1, Rows, WorksOn DEF ContactsInv, UpdateContactCommit, At
<1>3. Patched(contacts[c], req[p].patch) \in ContactRow
  BY <1>2, PatchedRow DEF ContactsInv, TablesOK
<1> QED
  BY <1>1, <1>2, <1>3, PutStep DEF UpdateContactCommit

LEMMA AnonymiseLoadStep ==
  ASSUME ContactsInv, NEW p \in Requests, NEW c \in Known, AnonymiseLoad(p, c)
  PROVE  ContactsInv'
<1> DEFINE r == [pc |-> "anonymise", on |-> Contact(c)]
<1>1. Begin(p, r)
  BY DEF AnonymiseLoad
<1>2. req'[p] = r /\ Known' = Known
  BY <1>1, BeginEffect DEF ContactsInv, AnonymiseLoad, Known
<1>3. RequestOK(p)'
  BY <1>2 DEF RequestOK, At
<1>4. ContactStands(p)' /\ DocumentStands(p)'
  BY <1>2, Rows DEF ContactStands, DocumentStands, At
<1> QED
  BY <1>1, <1>3, <1>4, BeginStep DEF AnonymiseLoad

LEMMA AnonymiseCheckStep ==
  ASSUME ContactsInv, NEW p \in Requests, AnonymiseCheck(p)
  PROVE  ContactsInv'
<1>1. PICK c \in Known : req[p].on = Contact(c)
  BY WorksOn DEF ContactsInv, AnonymiseCheck, At
<1>2. req[p] = [pc |-> "anonymise", on |-> Contact(c)] /\ req[p] # Idle
  BY <1>1, WorksOn DEF ContactsInv, AnonymiseCheck, At
<1> DEFINE r == [req[p] EXCEPT !.pc = "erase"]
<1>3. r.pc = "erase" /\ r.on = Contact(c) /\ r.on = req[p].on
  BY <1>2
<1>4. Goto(p, r) /\ Known' = Known
  BY DEF AnonymiseCheck, Known
<1> HIDE DEF r
<1>5. req'[p] = r
  BY <1>4, GotoEffect DEF ContactsInv
<1>6. RequestOK(p)'
  BY <1>3, <1>4, <1>5 DEF RequestOK, At
<1>7. ContactStands(p)' /\ DocumentStands(p)'
  BY <1>3, <1>5, Rows DEF ContactStands, DocumentStands, At
<1> QED
  BY <1>2, <1>3, <1>4, <1>6, <1>7, GotoStep DEF AnonymiseCheck

LEMMA AnonymiseCommitStep ==
  ASSUME ContactsInv, NEW p \in Requests, AnonymiseCommit(p)
  PROVE  ContactsInv'
<1>1. PICK c \in Known : req[p].on = Contact(c)
  BY WorksOn DEF ContactsInv, AnonymiseCommit, At
<1>2. req[p].on[2] = c /\ req[p] # Idle /\ c \in Clients /\ contacts[c] \in ContactRow
  BY <1>1, Rows, WorksOn DEF ContactsInv, TablesOK, AnonymiseCommit, At
<1>3. [contacts[c] EXCEPT !.name = anonymisedLabel(c), !.address = "", !.anonymised = TRUE]
        \in ContactRow
  BY <1>2 DEF ContactRow, anonymisedLabel
<1> QED
  BY <1>1, <1>2, <1>3, PutStep DEF AnonymiseCommit

LEMMA CreateInvoiceStep ==
  ASSUME ContactsInv, NEW type \in Types, NEW c \in Known, CreateInvoice(type, c)
  PROVE  ContactsInv'
<1>1. TablesStep /\ \A q \in Requests : Untouched(q)
  BY AddKeeps, IdentityOfContact DEF ContactsInv, CreateInvoice
<1> QED
  BY <1>1, StillKeeps DEF ContactsInv, TablesStep, CreateInvoice

LEMMA ConvertQuoteStep ==
  ASSUME ContactsInv, NEW d \in Docs, ConvertQuote(d)
  PROVE  ContactsInv'
<1>1. documents[d].contact \in Known /\ d \in Nat
  BY DocumentsSeq DEF ContactsInv, TablesOK
<1>2. TablesStep /\ \A q \in Requests : Untouched(q)
  BY <1>1, AddKeeps, IdentityOfContact DEF ContactsInv, ConvertQuote, Types
<1> QED
  BY <1>2, StillKeeps DEF ContactsInv, TablesStep, ConvertQuote

LEMMA CreateCreditNoteStep ==
  ASSUME ContactsInv, NEW d \in Docs, CreateCreditNote(d)
  PROVE  ContactsInv'
<1>1. documents[d].contact \in Known /\ documents[d] \in DocumentRow /\ d \in Nat
  BY DocumentsSeq DEF ContactsInv, TablesOK
<1>2. Printed(d) \in Identities
  BY <1>1, IdentityOfContact DEF ContactsInv, Printed, DocumentRow
<1>3. TablesStep /\ \A q \in Requests : Untouched(q)
  BY <1>1, <1>2, AddKeeps DEF CreateCreditNote, Types
<1> QED
  BY <1>3, StillKeeps DEF ContactsInv, TablesStep, CreateCreditNote

LEMMA UpdateInvoiceLoadStep ==
  ASSUME ContactsInv, NEW p \in Requests, NEW d \in Docs, NEW c \in Known,
         UpdateInvoiceLoad(p, d, c)
  PROVE  ContactsInv'
<1> DEFINE r == [pc |-> "update", on |-> Document(d), contact |-> c]
<1>1. Begin(p, r) /\ documents[d].status = "draft"
  BY DEF UpdateInvoiceLoad
<1>2. req'[p] = r /\ Known' = Known /\ Docs' = Docs
  BY <1>1, BeginEffect DEF ContactsInv, UpdateInvoiceLoad, Known, Docs
<1>3. RequestOK(p)'
  BY <1>2 DEF RequestOK, At
<1>4. ContactStands(p)'
  BY <1>2 DEF ContactStands, At
<1>5. DocumentStands(p)'
  BY <1>1, <1>2, Rows DEF DocumentStands, At, UpdateInvoiceLoad
<1> QED
  BY <1>1, <1>3, <1>4, <1>5, BeginStep DEF UpdateInvoiceLoad

\* The row of a document whose recipient is stored, or that is addressed or
\* sent, is a row of documents.
LEMMA StoredRow ==
  ASSUME TablesOK, NEW d \in Docs, NEW identity \in Identities
  PROVE  /\ Stored(d, identity) \in DocumentRow
         /\ Stored(d, identity).recipient = identity
         /\ Stored(d, identity).backfilled = FALSE
         /\ Stored(d, identity).type = documents[d].type
         /\ Stored(d, identity).status = documents[d].status
         /\ Stored(d, identity).contact = documents[d].contact
<1>1. documents[d] \in DocumentRow
  BY DocumentsSeq
<1> QED
  BY <1>1 DEF Stored, DocumentRow

\* What a row is once another contact, or another status, is written in it.
LEMMA RowWith ==
  ASSUME NEW row \in DocumentRow, NEW c \in Clients, NEW status \in {"draft", "sent", "cancelled"}
  PROVE  /\ [row EXCEPT !.contact = c] \in DocumentRow
         /\ [row EXCEPT !.contact = c].contact = c
         /\ [row EXCEPT !.contact = c].status = row.status
         /\ [row EXCEPT !.contact = c].type = row.type
         /\ [row EXCEPT !.contact = c].recipient = row.recipient
         /\ [row EXCEPT !.status = status] \in DocumentRow
         /\ [row EXCEPT !.status = status].contact = row.contact
         /\ [row EXCEPT !.status = status].status = status
         /\ [row EXCEPT !.status = status].type = row.type
         /\ [row EXCEPT !.status = status].recipient = row.recipient
  BY DEF DocumentRow

LEMMA UpdateInvoiceCommitStep ==
  ASSUME ContactsInv, NEW p \in Requests, UpdateInvoiceCommit(p)
  PROVE  ContactsInv'
<1>1. PICK d \in Docs : req[p].on = Document(d)
  BY WorksOn DEF ContactsInv, UpdateInvoiceCommit, At
<1>2. req[p].on[2] = d /\ req[p] # Idle /\ req[p].contact \in Known /\ req[p].contact \in Clients
  BY <1>1, Rows, WorksOn DEF ContactsInv, TablesOK, UpdateInvoiceCommit, At
<1> DEFINE c == req[p].contact
           stored == IF followsContact(documents[d].type) THEN Stored(d, loadRecipient(c))
                     ELSE documents[d]
           row == [stored EXCEPT !.contact = c]
<1>3. stored \in DocumentRow /\ stored.status = documents[d].status
  BY <1>2, StoredRow, IdentityOfContact, DocumentsSeq DEF ContactsInv
<1>4. documents' = [documents EXCEPT ![d] = row]
  BY <1>2 DEF UpdateInvoiceCommit
<1> HIDE DEF stored
<1>5. row \in DocumentRow /\ row.contact = c /\ row.status = documents[d].status
  BY <1>2, <1>3, RowWith
<1> HIDE DEF row
<1>6. NamesItsRecipient(d, row, was[row.contact], disturbed)
  <2>1. CASE Document(d) \in disturbed
    BY <2>1 DEF NamesItsRecipient
  <2>2. CASE Document(d) \notin disturbed
    <3>1. documents[d].status = "draft"
      BY <1>1, <2>2 DEF ContactsInv, DocumentStands, UpdateInvoiceCommit, At
    <3> QED
      BY <1>5, <3>1 DEF NamesItsRecipient
  <2> QED
    BY <2>1, <2>2
<1> QED
  BY <1>1, <1>2, <1>4, <1>5, <1>6, WriteStep DEF UpdateInvoiceCommit

LEMMA TransitionLoadStep ==
  ASSUME ContactsInv, NEW p \in Requests, NEW d \in Docs,
         NEW to \in {"draft", "sent", "cancelled"}, TransitionLoad(p, d, to)
  PROVE  ContactsInv'
<1> DEFINE issue == [pc |-> "issue", on |-> Document(d), contact |-> documents[d].contact]
           change == [pc |-> "transition", on |-> Document(d), to |-> to]
<1>1. documents[d].contact \in Known
  BY DEF ContactsInv, TablesOK
<1>2. Known' = Known /\ Docs' = Docs
  BY DEF TransitionLoad, Known, Docs
<1>3. to = "sent" => documents[d].status = "draft"
  BY DEF TransitionLoad
<1>4. CASE to = "sent"
  <2>1. Begin(p, issue)
    BY <1>4 DEF TransitionLoad
  <2>2. req'[p] = issue
    BY <2>1, BeginEffect DEF ContactsInv
  <2>3. RequestOK(p)'
    BY <1>1, <1>2, <2>2 DEF RequestOK, At
  <2>4. ContactStands(p)'
    BY <2>2 DEF ContactStands, At
  <2>5. DocumentStands(p)'
    BY <1>2, <1>3, <1>4, <2>2, Rows DEF DocumentStands, At, TransitionLoad
  <2> QED
    BY <2>1, <2>3, <2>4, <2>5, BeginStep DEF TransitionLoad
<1>5. CASE to # "sent"
  <2>1. Begin(p, change)
    BY <1>5 DEF TransitionLoad
  <2>2. req'[p] = change
    BY <2>1, BeginEffect DEF ContactsInv
  <2>3. RequestOK(p)'
    BY <1>2, <1>5, <2>2 DEF RequestOK, At
  <2>4. ContactStands(p)' /\ DocumentStands(p)'
    BY <2>2 DEF ContactStands, DocumentStands, At
  <2> QED
    BY <2>1, <2>3, <2>4, BeginStep DEF TransitionLoad
<1> QED
  BY <1>4, <1>5

LEMMA TransitionCommitStep ==
  ASSUME ContactsInv, NEW p \in Requests, TransitionCommit(p)
  PROVE  ContactsInv'
<1>1. PICK d \in Docs : req[p].on = Document(d)
  BY WorksOn DEF ContactsInv, TransitionCommit, At
<1>2. req[p].on[2] = d /\ req[p] # Idle /\ req[p].to \in {"draft", "cancelled"}
  BY <1>1, Rows, WorksOn DEF ContactsInv, TransitionCommit, At
<1> DEFINE row == [documents[d] EXCEPT !.status = req[p].to]
<1>3. documents' = [documents EXCEPT ![d] = row]
  BY <1>2 DEF TransitionCommit
<1>4. documents[d] \in DocumentRow /\ documents[d].contact \in Known /\ documents[d].contact \in Clients
  BY DocumentsSeq DEF ContactsInv, TablesOK
<1>5. row \in DocumentRow /\ row.contact \in Known /\ row.status = req[p].to
  <2> DEFINE old == documents[d]
             to == req[p].to
  <2>1. /\ old \in DocumentRow /\ old.contact \in Clients /\ old.contact \in Known
        /\ to \in {"draft", "sent", "cancelled"}
    BY <1>2, <1>4
  <2> HIDE DEF old, to
  <2>2. [old EXCEPT !.status = to] \in DocumentRow
        /\ [old EXCEPT !.status = to].contact = old.contact
        /\ [old EXCEPT !.status = to].status = to
    BY <2>1, RowWith
  <2> QED
    BY <2>1, <2>2 DEF old, to
<1> HIDE DEF row
<1>6. NamesItsRecipient(d, row, was[row.contact], disturbed)
  BY <1>2, <1>5 DEF NamesItsRecipient
<1> QED
  BY <1>1, <1>2, <1>3, <1>5, <1>6, WriteStep DEF TransitionCommit

LEMMA IssueReadStep ==
  ASSUME ContactsInv, NEW p \in Requests, IssueRead(p)
  PROVE  ContactsInv'
<1>1. PICK d \in Docs : req[p].on = Document(d)
  BY WorksOn DEF ContactsInv, IssueRead, At
<1>2. req[p].on[2] = d /\ req[p] # Idle /\ req[p].contact \in Known
  BY <1>1, Rows, WorksOn DEF ContactsInv, IssueRead, At
<1>3. Known' = Known /\ Docs' = Docs
  BY DEF IssueRead, Known, Docs
<1>4. ASSUME NEW identity \in Identities,
             Goto(p, [pc |-> "send", on |-> req[p].on, identity |-> identity]),
             followsContact(documents[d].type) =>
               identity = loadRecipient(req[p].contact) /\ recipientAddressComplete(identity)
      PROVE  ContactsInv'
  <2> DEFINE r == [pc |-> "send", on |-> req[p].on, identity |-> identity]
  <2>1. req'[p] = r
    BY <1>4, GotoEffect DEF ContactsInv
  <2>2. RequestOK(p)'
    <3>1. d \in Docs' /\ req'[p].on = Document(d) /\ req'[p].pc = "send" /\ req'[p].identity = identity
      BY <1>1, <1>3, <2>1
    <3> QED
      BY <3>1 DEF RequestOK, At, Identities
  <2>3. ContactStands(p)'
    BY <2>1 DEF ContactStands, At
  <2>4. ASSUME Document(d) \notin disturbed
        PROVE  /\ documents[d].status = "draft"
               /\ followsContact(documents[d].type) =>
                    identity \in was[documents[d].contact] /\ recipientAddressComplete(identity)
    <3>1. documents[d].status = "draft" /\ req[p].contact = documents[d].contact
      BY <1>1, <2>4 DEF ContactsInv, DocumentStands, IssueRead, At
    <3> QED
      BY <1>2, <1>4, <3>1 DEF ContactsInv, TablesOK
  <2>5. DocumentStands(p)'
    <3> SUFFICES ASSUME NEW e \in Docs', req'[p].on = Document(e), Document(e) \notin disturbed
                 PROVE  /\ documents[e].status = "draft"
                        /\ followsContact(documents[e].type) =>
                             /\ identity \in was[documents[e].contact]
                             /\ recipientAddressComplete(identity)
      BY <2>1 DEF DocumentStands, At, IssueRead
    <3>1. e = d
      BY <1>1, <2>1, Rows
    <3> QED
      BY <2>4, <3>1
  <2> QED
    BY <1>2, <1>4, <2>2, <2>3, <2>5, GotoStep DEF IssueRead
<1>5. loadRecipient(req[p].contact) \in Identities /\ Nobody \in Identities
  BY <1>2, IdentityOfContact DEF ContactsInv, Identities, Nobody
<1> QED
  BY <1>2, <1>4, <1>5 DEF IssueRead

LEMMA IssueCommitStep ==
  ASSUME ContactsInv, NEW p \in Requests, IssueCommit(p)
  PROVE  ContactsInv'
<1>1. PICK d \in Docs : req[p].on = Document(d)
  BY WorksOn DEF ContactsInv, IssueCommit, At
<1>2. req[p].on[2] = d /\ req[p] # Idle /\ req[p].identity \in Identities
  BY <1>1, Rows, WorksOn DEF ContactsInv, IssueCommit, At
<1>3. documents[d] \in DocumentRow /\ documents[d].contact \in Known /\ documents[d].contact \in Clients
  BY DocumentsSeq DEF ContactsInv, TablesOK
<1> DEFINE stored == IF followsContact(documents[d].type) THEN Stored(d, req[p].identity)
                     ELSE documents[d]
           row == [stored EXCEPT !.status = "sent"]
<1>4. /\ stored \in DocumentRow /\ stored.type = documents[d].type
      /\ stored.contact = documents[d].contact
      /\ followsContact(documents[d].type) => stored.recipient = req[p].identity
  BY <1>2, <1>3, StoredRow DEF ContactsInv
<1>5. documents' = [documents EXCEPT ![d] = row]
  BY <1>2 DEF IssueCommit
<1> HIDE DEF stored
<1>6. /\ row \in DocumentRow /\ row.contact = documents[d].contact
      /\ row.type = documents[d].type /\ row.recipient = stored.recipient
  BY <1>3, <1>4, RowWith
<1> HIDE DEF row
<1>7. NamesItsRecipient(d, row, was[row.contact], disturbed)
  BY <1>1, <1>4, <1>6
  DEF NamesItsRecipient, ContactsInv, DocumentStands, IssueCommit, At
<1> QED
  BY <1>1, <1>2, <1>3, <1>5, <1>6, <1>7, WriteStep DEF IssueCommit

LEMMA AbandonStep ==
  ASSUME ContactsInv, NEW p \in Requests, Abandon(p)
  PROVE  ContactsInv'
<1>1. TablesStep /\ \A q \in Requests : Untouched(q)
  BY SameKeeps DEF Abandon
<1>2. RequestsOK' /\ Alone' /\ \A q \in Requests : ContactStands(q)' /\ DocumentStands(q)'
  BY <1>1, EndKeeps DEF Abandon, TablesStep
<1> QED
  BY <1>1, <1>2 DEF ContactsInv, TablesStep

\* What a start makes of the documents: rows of the same documents, marked
\* if their recipient is another.
LEMMA BackfillRows ==
  ASSUME TablesOK
  PROVE  /\ Backfill \in Seq(DocumentRow) /\ Len(Backfill) = Len(documents)
         /\ \A d \in Docs : Backfill[d].contact = documents[d].contact
         /\ \A d \in Docs : Backfill[d] = documents[d] \/ Backfill[d].backfilled
<1>1. Docs = 1..Len(documents) /\ Len(documents) \in Nat
  BY DocumentsSeq DEF TablesOK
<1>2. ASSUME NEW d \in Docs
      PROVE  /\ Backfill[d] \in DocumentRow
             /\ Backfill[d].contact = documents[d].contact
             /\ Backfill[d] = documents[d] \/ Backfill[d].backfilled
  <2> DEFINE current == loadRecipient(documents[d].contact)
             old == documents[d]
  <2>1. Backfill[d] = IF old.recipient.name # "" THEN old
                      ELSE [old EXCEPT !.recipient = current, !.backfilled = TRUE]
    BY DEF Backfill
  <2>2. old \in DocumentRow /\ current \in Identities
    BY DocumentsSeq, IdentityOfContact DEF TablesOK
  <2> HIDE DEF current, old
  <2>3. [old EXCEPT !.recipient = current, !.backfilled = TRUE] \in DocumentRow
        /\ [old EXCEPT !.recipient = current, !.backfilled = TRUE].contact = old.contact
        /\ [old EXCEPT !.recipient = current, !.backfilled = TRUE].backfilled
    BY <2>2 DEF DocumentRow
  <2> QED
    BY <2>1, <2>2, <2>3 DEF old
<1>3. Backfill \in [1..Len(documents) -> DocumentRow]
  <2>1. DOMAIN Backfill = Docs /\ Backfill = [d \in Docs |-> Backfill[d]]
    BY DEF Backfill
  <2> QED
    BY <1>1, <1>2, <2>1
<1>4. Backfill \in Seq(DocumentRow) /\ Len(Backfill) = Len(documents)
  <2> DEFINE rows == Backfill
             n == Len(documents)
  <2>1. rows \in [1..n -> DocumentRow] /\ n \in Nat
    BY <1>1, <1>3
  <2> HIDE DEF rows, n
  <2>2. rows \in Seq(DocumentRow) /\ Len(rows) = n
    BY <2>1
  <2> QED
    BY <2>2 DEF rows, n
<1> QED
  BY <1>2, <1>4

LEMMA RestartStep ==
  ASSUME ContactsInv, Restart
  PROVE  ContactsInv'
<1>1. TablesOK /\ documents' = Backfill
  BY DEF ContactsInv, Restart
<1>2. /\ documents' \in Seq(DocumentRow) /\ Len(documents') = Len(documents)
      /\ \A d \in Docs : documents'[d].contact = documents[d].contact
      /\ \A d \in Docs : documents'[d] = documents[d] \/ documents'[d].backfilled
  BY <1>1, BackfillRows
<1>3. Docs' = Docs
  BY <1>1, <1>2 DEF TablesOK, Docs
<1>4. TablesOK'
  BY <1>1, <1>2, <1>3 DEF TablesOK, Restart, Known, loadRecipient
<1>5. \A p \in Requests : req'[p] = Idle
  BY DEF Restart
<1>6. RequestsOK' /\ Alone'
  BY <1>5 DEF Restart, RequestsOK, RequestOK, Alone
<1>7. \A p \in Requests : ContactStands(p)' /\ DocumentStands(p)'
  BY <1>5, IdleOn, Rows DEF ContactStands, DocumentStands
<1>8. SentNamesItsRecipient'
  BY <1>2, <1>3 DEF ContactsInv, SentNamesItsRecipient, Restart
<1> QED
  BY <1>4, <1>6, <1>7, <1>8 DEF ContactsInv

LEMMA InitInv == Init => ContactsInv
<1> SUFFICES ASSUME Init PROVE ContactsInv
  OBVIOUS
<1>1. PICK olds \in SUBSET Clients, name \in Names, sent \in BOOLEAN :
        /\ contacts = [c \in olds |-> Legacy(name)]
        /\ was = [c \in Clients |-> IF c \in olds THEN {[name |-> name, address |-> ""]} ELSE {}]
        /\ documents \in
             IF sent /\ olds # {} /\ MaxDocuments > 0
             THEN {<<[type |-> "invoice", contact |-> c, status |-> "sent",
                      recipient |-> [name |-> name, address |-> ""],
                      backfilled |-> TRUE, origin |-> 0]>> : c \in olds}
             ELSE {<<>>}
        /\ req = [p \in Requests |-> Idle]
        /\ disturbed = {}
  BY DEF Init
<1> DEFINE identity == [name |-> name, address |-> ""]
<1>2. identity \in Identities /\ Legacy(name) \in ContactRow
      /\ [name |-> Legacy(name).name, address |-> Legacy(name).address] = identity
  BY DEF Identities, ContactRow, Legacy, Kinds
<1>3. /\ Known = olds /\ contacts \in [Known -> ContactRow]
      /\ \A c \in Known : loadRecipient(c) = identity
  BY <1>1, <1>2 DEF Known, loadRecipient
<1>4. was \in [Clients -> SUBSET Identities] /\ \A c \in Known : loadRecipient(c) \in was[c]
  BY <1>1, <1>2, <1>3
<1>5. \A d \in Docs : documents[d].contact \in Known /\ documents[d].backfilled
  <2>1. CASE documents = <<>>
    BY <2>1 DEF Docs
  <2>2. CASE documents # <<>>
    <3>1. PICK c \in olds :
            documents = <<[type |-> "invoice", contact |-> c, status |-> "sent",
                           recipient |-> identity, backfilled |-> TRUE, origin |-> 0]>>
      BY <1>1, <2>2
    <3> DEFINE row == [type |-> "invoice", contact |-> c, status |-> "sent",
                       recipient |-> identity, backfilled |-> TRUE, origin |-> 0]
    <3>2. documents = <<row>> /\ row.contact = c /\ row.backfilled
      BY <3>1
    <3> HIDE DEF row
    <3>3. Docs = {1} /\ documents[1] = row
      BY <3>2 DEF Docs
    <3> QED
      BY <1>3, <3>2, <3>3
  <2> QED
    BY <2>1, <2>2
<1>6. documents \in Seq(DocumentRow) /\ Len(documents) <= MaxDocuments
  <2> MaxDocuments \in Nat
    BY ContactsAssumption
  <2>1. CASE documents = <<>>
    <3>1. <<>> \in Seq(DocumentRow) /\ Len(<<>>) = 0
      OBVIOUS
    <3> QED
      BY <2>1, <3>1
  <2>2. CASE documents # <<>>
    <3>1. PICK c \in olds :
            documents = <<[type |-> "invoice", contact |-> c, status |-> "sent",
                           recipient |-> identity, backfilled |-> TRUE, origin |-> 0]>>
      BY <1>1, <2>2
    <3> DEFINE row == [type |-> "invoice", contact |-> c, status |-> "sent",
                       recipient |-> identity, backfilled |-> TRUE, origin |-> 0]
    <3>2. row \in DocumentRow
      BY <1>2 DEF DocumentRow, Types
    <3>3. MaxDocuments > 0
      BY <1>1, <2>2
    <3> HIDE DEF row
    <3>4. <<row>> \in Seq(DocumentRow) /\ Len(<<row>>) = 1
      BY <3>2
    <3> QED
      <4>1. documents = <<row>>
        BY <3>1 DEF row
      <4> QED
        BY <3>3, <3>4, <4>1
  <2> QED
    BY <2>1, <2>2
<1>7. TablesOK
  BY <1>3, <1>4, <1>5, <1>6 DEF TablesOK
<1>8. \A p \in Requests : req[p] = Idle
  BY <1>1
<1>9. RequestsOK /\ Alone
  BY <1>1, <1>8 DEF RequestsOK, RequestOK, Alone
<1>10. \A p \in Requests : ContactStands(p) /\ DocumentStands(p)
  BY <1>8, IdleOn, Rows DEF ContactStands, DocumentStands
<1>11. SentNamesItsRecipient
  BY <1>5 DEF SentNamesItsRecipient
<1> QED
  BY <1>7, <1>9, <1>10, <1>11 DEF ContactsInv

LEMMA StepInv == ContactsInv /\ [Next]_vars => ContactsInv'
<1> SUFFICES ASSUME ContactsInv, [Next]_vars PROVE ContactsInv'
  OBVIOUS
<1>1. CASE UNCHANGED vars
  <2>1. TablesStep /\ \A q \in Requests : Untouched(q)
    BY <1>1, SameKeeps DEF vars
  <2> QED
    BY <1>1, <2>1, StillKeeps DEF ContactsInv, TablesStep, vars
<1>2. ASSUME NEW p \in Requests,
             \/ UpdateContactCommit(p) \/ AnonymiseCheck(p) \/ AnonymiseCommit(p)
             \/ UpdateInvoiceCommit(p) \/ TransitionCommit(p) \/ IssueRead(p)
             \/ IssueCommit(p) \/ Abandon(p)
      PROVE  ContactsInv'
  BY <1>2, UpdateContactCommitStep, AnonymiseCheckStep, AnonymiseCommitStep,
     UpdateInvoiceCommitStep, TransitionCommitStep, IssueReadStep, IssueCommitStep, AbandonStep
<1>3. ASSUME NEW p \in Requests, NEW c \in Known,
             \/ \E patch \in Patches \cap PatchBodies : UpdateContactLoad(p, c, patch)
             \/ AnonymiseLoad(p, c)
             \/ \E d \in Docs : UpdateInvoiceLoad(p, d, c)
      PROVE  ContactsInv'
  BY <1>3, UpdateContactLoadStep, AnonymiseLoadStep, UpdateInvoiceLoadStep
<1>4. ASSUME NEW d \in Docs,
             \/ ConvertQuote(d) \/ CreateCreditNote(d)
             \/ \E p \in Requests, to \in {"draft", "sent", "cancelled"} : TransitionLoad(p, d, to)
      PROVE  ContactsInv'
  BY <1>4, ConvertQuoteStep, CreateCreditNoteStep, TransitionLoadStep
<1>5. ASSUME \/ \E c \in Clients, kind \in Kinds, name \in Names, address \in Addresses \cup {""} :
                  CreateContact(c, kind, name, address)
             \/ \E type \in Types, c \in Known : CreateInvoice(type, c)
             \/ Restart
      PROVE  ContactsInv'
  BY <1>5, CreateContactStep, CreateInvoiceStep, RestartStep
<1> QED
  BY <1>1, <1>2, <1>3, <1>4, <1>5 DEF Next

\* Rows, what each request has read of them, and what a document says of its
\* recipient stay as ContactsInv says, for any number of contacts and requests.
THEOREM Invariance == Spec => []ContactsInv
  BY InitInv, StepInv, PTL DEF Spec

-----------------------------------------------------------------------------
(* What holds of every state *)

\* The tables and the requests are of the types the code reads and writes.
THEOREM ContactsTyped == Spec => []TypeOK
<1>1. ContactsInv => TypeOK
  <2> SUFFICES ASSUME ContactsInv PROVE TypeOK
    OBVIOUS
  <2>1. \A c \in Known : contacts[c] \in ContactRow
    BY DEF ContactsInv, TablesOK
  <2>2. \A d \in Docs : documents[d] \in DocumentRow /\ documents[d].contact \in Known
    BY DocumentsSeq DEF ContactsInv, TablesOK
  <2>3. \A c \in Known : contacts[c].kind \in Kinds
    BY <2>1 DEF ContactRow
  <2>4. \A d \in Docs : documents[d].type \in Types
                        /\ documents[d].status \in {"draft", "sent", "cancelled"}
    BY <2>2 DEF DocumentRow
  <2> QED
    BY <2>2, <2>3, <2>4, DocumentsSeq DEF ContactsInv, TablesOK, RequestsOK, TypeOK
<1> QED
  BY <1>1, Invariance, PTL

\* An invoice or an offer that was sent names an identity its contact has had,
\* with a complete address (service.go issue): the read of the address and the
\* write of the copy are two steps, and whatever is done in between by
\* requests that are at work on other rows cannot part them.
THEOREM SentIsAddressed == Spec => []SentNamesItsRecipient
<1>1. ContactsInv => SentNamesItsRecipient
  BY DEF ContactsInv
<1> QED
  BY <1>1, Invariance, PTL

-----------------------------------------------------------------------------
(* What a step may never do *)

\* What a step may make of a contact: nothing, what a change put to the rule
\* makes of it, or an anonymised one.
ContactKept(c) ==
  \/ contacts'[c] = contacts[c]
  \/ Contact(c) \in disturbed'
  \/ contacts'[c].anonymised
  \/ \E patch \in PatchBodies :
       Allowed(contacts[c], patch) /\ contacts'[c] = Patched(contacts[c], patch)

LEMMA UpdateContactKept ==
  ASSUME ContactsInv, NEW p \in Requests, UpdateContactCommit(p), NEW c \in Known
  PROVE  ContactKept(c)
<1>1. PICK k \in Known : req[p].on = Contact(k)
  BY WorksOn DEF ContactsInv, UpdateContactCommit, At
<1>2. req[p].on[2] = k /\ req[p].patch \in PatchBodies
  BY <1>1, Rows, WorksOn DEF ContactsInv, UpdateContactCommit, At
<1>3. contacts' = [j \in Known \cup {k} |-> IF j = k THEN Patched(contacts[k], req[p].patch)
                                          ELSE contacts[j]]
  BY <1>2 DEF UpdateContactCommit, Put
<1>4. CASE c # k
  BY <1>3, <1>4 DEF ContactKept
<1>5. CASE c = k /\ Contact(c) \notin disturbed
  <2>1. Allowed(contacts[c], req[p].patch)
    BY <1>1, <1>5 DEF ContactsInv, ContactStands, UpdateContactCommit
  <2>2. contacts'[c] = Patched(contacts[c], req[p].patch)
    BY <1>3, <1>5
  <2> QED
    BY <1>2, <2>1, <2>2 DEF ContactKept
<1>6. CASE Contact(c) \in disturbed
  BY <1>6 DEF ContactKept, UpdateContactCommit
<1> QED
  BY <1>4, <1>5, <1>6

LEMMA AnonymiseKept ==
  ASSUME ContactsInv, NEW p \in Requests, AnonymiseCommit(p), NEW c \in Known
  PROVE  ContactKept(c)
<1>1. PICK k \in Known : req[p].on = Contact(k)
  BY WorksOn DEF ContactsInv, AnonymiseCommit, At
<1>2. req[p].on[2] = k /\ contacts[k] \in ContactRow
  BY <1>1, Rows DEF ContactsInv, TablesOK
<1> DEFINE row == [contacts[k] EXCEPT !.name = anonymisedLabel(k), !.address = "",
                                      !.anonymised = TRUE]
<1>3. contacts' = [j \in Known \cup {k} |-> IF j = k THEN row ELSE contacts[j]]
  BY <1>2 DEF AnonymiseCommit, Put
<1>4. row.anonymised
  BY <1>2 DEF ContactRow
<1> HIDE DEF row
<1> QED
  BY <1>3, <1>4 DEF ContactKept

LEMMA CreateContactKept ==
  ASSUME NEW c \in Clients, NEW kind, NEW name, NEW address,
         CreateContact(c, kind, name, address), NEW k \in Known
  PROVE  ContactKept(k)
  BY DEF CreateContact, Put, ContactKept

LEMMA ContactsKept ==
  ASSUME ContactsInv, [Next]_vars, NEW c \in Known
  PROVE  ContactKept(c)
<1>1. CASE contacts' = contacts
  BY <1>1 DEF ContactKept
<1>2. ASSUME contacts' # contacts
      PROVE  \/ \E p \in Requests : UpdateContactCommit(p) \/ AnonymiseCommit(p)
             \/ \E k \in Clients, kind \in Kinds, name \in Names, address \in Addresses \cup {""} :
                  CreateContact(k, kind, name, address)
  BY <1>2 DEF Next, vars, UpdateContactLoad, AnonymiseLoad, AnonymiseCheck, CreateInvoice,
     UpdateInvoiceLoad, UpdateInvoiceCommit, TransitionLoad, TransitionCommit, IssueRead,
     IssueCommit, ConvertQuote, CreateCreditNote, Restart, Abandon
<1> QED
  BY <1>1, <1>2, UpdateContactKept, AnonymiseKept, CreateContactKept

\* A contact the rule holds of, that is changed as the rule allows, is one it
\* holds of.
LEMMA AllowedStaysBillable ==
  ASSUME NEW row \in ContactRow, NEW patch \in PatchBodies, Allowed(row, patch),
         row.kind = "supplier" \/ Billable("customer", row.name, row.address)
  PROVE  LET result == Patched(row, patch)
         IN Billable(result.kind, result.name, result.address)
<1>1. CASE Touched(row, patch)
  BY <1>1 DEF Allowed
<1>2. CASE ~Touched(row, patch)
  <2>1. Patched(row, patch).kind = row.kind /\ Patched(row, patch).name = row.name
        /\ Patched(row, patch).address = row.address
    BY <1>2 DEF Touched, Patched, valeurResultante, ContactRow, PatchBodies
  <2> QED
    BY <2>1 DEF Billable, ContactRow, Kinds
<1> QED
  BY <1>1, <1>2

\* A customer that can be billed is made one that cannot by no step but an
\* anonymisation (contacts.go UpdateContact): the rule is put to the row as it
\* is read, and the columns are written in a later statement.
THEOREM StayBillable == Spec => CustomersStayBillable
<1>1. ASSUME ContactsInv, [Next]_vars
      PROVE  [\A c \in Known :
                /\ contacts[c].kind = "supplier"
                     \/ Billable("customer", contacts[c].name, contacts[c].address)
                /\ ~contacts'[c].anonymised /\ Contact(c) \notin disturbed'
                => Billable(contacts'[c].kind, contacts'[c].name, contacts'[c].address)]_vars
  <2> SUFFICES ASSUME NEW c \in Known,
                      contacts[c].kind = "supplier"
                        \/ Billable("customer", contacts[c].name, contacts[c].address),
                      ~contacts'[c].anonymised, Contact(c) \notin disturbed'
               PROVE  Billable(contacts'[c].kind, contacts'[c].name, contacts'[c].address)
    OBVIOUS
  <2>1. contacts[c] \in ContactRow
    BY <1>1 DEF ContactsInv, TablesOK
  <2>2. ContactKept(c)
    BY <1>1, ContactsKept
  <2>3. CASE contacts'[c] = contacts[c]
    BY <2>1, <2>3 DEF Billable, ContactRow, Kinds
  <2>4. CASE \E patch \in PatchBodies :
               Allowed(contacts[c], patch) /\ contacts'[c] = Patched(contacts[c], patch)
    <3>1. PICK patch \in PatchBodies :
            Allowed(contacts[c], patch) /\ contacts'[c] = Patched(contacts[c], patch)
      BY <2>4
    <3>2. LET result == Patched(contacts[c], patch)
          IN Billable(result.kind, result.name, result.address)
      BY <2>1, <3>1, AllowedStaysBillable
    <3> QED
      BY <3>1, <3>2
  <2> QED
    BY <2>2, <2>3, <2>4 DEF ContactKept
<1> QED
  BY <1>1, Invariance, PTL DEF Spec, CustomersStayBillable

\* What a step may make of the recipient of a document that follows no
\* contact any more: nothing, or one where there was none, and marked.
Frozen(d) ==
  \/ documents[d].status = "sent" /\ documents'[d].status = "sent"
  \/ documents[d].type = "credit_note"

RecipientKept(d) ==
  \/ documents'[d].recipient = documents[d].recipient
  \/ documents[d].recipient.name = "" /\ documents'[d].backfilled

\* A write over the row of a document.
LEMMA WrittenKept ==
  ASSUME ContactsInv, NEW d \in Docs, NEW row, documents' = [documents EXCEPT ![d] = row],
         ~followsContact(documents[d].type) \/ Document(d) \in disturbed
           \/ documents[d].status = "draft" \/ row.recipient = documents[d].recipient,
         ~followsContact(documents[d].type) => row.recipient = documents[d].recipient,
         NEW e \in Docs, Frozen(e), Document(e) \notin disturbed
  PROVE  RecipientKept(e)
<1>1. documents[e] \in DocumentRow /\ documents \in Seq(DocumentRow)
  BY DocumentsSeq DEF ContactsInv, TablesOK
<1>2. CASE e = d
  <2>1. documents'[d] = row
    BY <1>1 DEF Docs
  <2> QED
    BY <1>1, <1>2, <2>1 DEF Frozen, RecipientKept, followsContact
<1>3. CASE e # d
  BY <1>1, <1>3 DEF RecipientKept
<1> QED
  BY <1>2, <1>3

LEMMA UpdateInvoiceKept ==
  ASSUME ContactsInv, NEW p \in Requests, UpdateInvoiceCommit(p),
         NEW e \in Docs, Frozen(e), Document(e) \notin disturbed
  PROVE  RecipientKept(e)
<1>1. PICK d \in Docs : req[p].on = Document(d)
  BY WorksOn DEF ContactsInv, UpdateInvoiceCommit, At
<1>2. req[p].on[2] = d /\ documents[d] \in DocumentRow
  BY <1>1, Rows, DocumentsSeq DEF ContactsInv
<1> DEFINE c == req[p].contact
           stored == IF followsContact(documents[d].type) THEN Stored(d, loadRecipient(c))
                     ELSE documents[d]
           row == [stored EXCEPT !.contact = c]
<1>3. documents' = [documents EXCEPT ![d] = row]
  BY <1>2 DEF UpdateInvoiceCommit
<1>4. ~followsContact(documents[d].type) => row.recipient = documents[d].recipient
  BY <1>2 DEF DocumentRow
<1>5. Document(d) \in disturbed \/ documents[d].status = "draft"
  BY <1>1 DEF ContactsInv, DocumentStands, UpdateInvoiceCommit, At
<1> HIDE DEF row
<1> QED
  BY <1>3, <1>4, <1>5, WrittenKept

LEMMA TransitionKept ==
  ASSUME ContactsInv, NEW p \in Requests, TransitionCommit(p),
         NEW e \in Docs, Frozen(e), Document(e) \notin disturbed
  PROVE  RecipientKept(e)
<1>1. PICK d \in Docs : req[p].on = Document(d)
  BY WorksOn DEF ContactsInv, TransitionCommit, At
<1>2. req[p].on[2] = d /\ documents[d] \in DocumentRow
  BY <1>1, Rows, DocumentsSeq DEF ContactsInv
<1> DEFINE row == [documents[d] EXCEPT !.status = req[p].to]
<1>3. documents' = [documents EXCEPT ![d] = row]
  BY <1>2 DEF TransitionCommit
<1>4. row.recipient = documents[d].recipient
  BY <1>2 DEF DocumentRow
<1> HIDE DEF row
<1> QED
  BY <1>3, <1>4, WrittenKept

LEMMA IssueKept ==
  ASSUME ContactsInv, NEW p \in Requests, IssueCommit(p),
         NEW e \in Docs, Frozen(e), Document(e) \notin disturbed
  PROVE  RecipientKept(e)
<1>1. PICK d \in Docs : req[p].on = Document(d)
  BY WorksOn DEF ContactsInv, IssueCommit, At
<1>2. req[p].on[2] = d /\ documents[d] \in DocumentRow
  BY <1>1, Rows, DocumentsSeq DEF ContactsInv
<1> DEFINE stored == IF followsContact(documents[d].type) THEN Stored(d, req[p].identity)
                     ELSE documents[d]
           row == [stored EXCEPT !.status = "sent"]
<1>3. documents' = [documents EXCEPT ![d] = row]
  BY <1>2 DEF IssueCommit
<1>4. ~followsContact(documents[d].type) => row.recipient = documents[d].recipient
  BY <1>2 DEF DocumentRow
<1>5. Document(d) \in disturbed \/ documents[d].status = "draft"
  BY <1>1 DEF ContactsInv, DocumentStands, IssueCommit, At
<1> HIDE DEF row
<1> QED
  BY <1>3, <1>4, <1>5, WrittenKept

LEMMA AddKept ==
  ASSUME ContactsInv, NEW type, NEW c, NEW identity, NEW origin,
         Add(type, c, identity, origin), NEW e \in Docs
  PROVE  RecipientKept(e)
<1> DEFINE row == [type |-> type, contact |-> c, status |-> "draft", recipient |-> identity,
                   backfilled |-> FALSE, origin |-> origin]
<1>1. documents' = Append(documents, row) /\ e \in 1..Len(documents)
      /\ documents \in Seq(DocumentRow)
  BY DocumentsSeq DEF Add, ContactsInv, TablesOK
<1> HIDE DEF row
<1>2. documents'[e] = documents[e]
  BY <1>1
<1> QED
  BY <1>2 DEF RecipientKept

LEMMA RestartKept ==
  ASSUME ContactsInv, Restart, NEW e \in Docs
  PROVE  RecipientKept(e)
<1> DEFINE current == loadRecipient(documents[e].contact)
           old == documents[e]
<1>1. documents'[e] = IF old.recipient.name # "" THEN old
                      ELSE [old EXCEPT !.recipient = current, !.backfilled = TRUE]
  BY DEF Restart, Backfill
<1>2. old \in DocumentRow
  BY DocumentsSeq DEF ContactsInv
<1> HIDE DEF current, old
<1>3. [old EXCEPT !.recipient = current, !.backfilled = TRUE].backfilled
  BY <1>2 DEF DocumentRow
<1> QED
  BY <1>1, <1>3 DEF RecipientKept, old

LEMMA RecipientsKept ==
  ASSUME ContactsInv, [Next]_vars, NEW e \in Docs, Frozen(e), Document(e) \notin disturbed'
  PROVE  RecipientKept(e)
<1>1. CASE documents' = documents
  BY <1>1 DEF RecipientKept
<1>2. ASSUME documents' # documents
      PROVE  \/ \E p \in Requests : UpdateInvoiceCommit(p) \/ TransitionCommit(p) \/ IssueCommit(p)
             \/ \E type, c, identity, origin : Add(type, c, identity, origin)
             \/ Restart
  BY <1>2 DEF Next, vars, CreateContact, UpdateContactLoad, UpdateContactCommit, AnonymiseLoad,
     AnonymiseCheck, AnonymiseCommit, CreateInvoice, UpdateInvoiceLoad, TransitionLoad, IssueRead,
     ConvertQuote, CreateCreditNote, Abandon
<1>3. ASSUME NEW p \in Requests,
             UpdateInvoiceCommit(p) \/ TransitionCommit(p) \/ IssueCommit(p)
      PROVE  RecipientKept(e)
  <2>1. disturbed' = disturbed
    BY <1>3 DEF UpdateInvoiceCommit, TransitionCommit, IssueCommit
  <2> QED
    BY <1>3, <2>1, UpdateInvoiceKept, TransitionKept, IssueKept
<1> QED
  BY <1>1, <1>2, <1>3, AddKept, RestartKept

\* What is printed of a document that was sent, and of a credit note, stays
\* the same whatever becomes of its contact; one that named nobody is marked
\* when it is completed (invoice_pdf.go, fiscal_backfill.go).
THEOREM PrintsStay == Spec => PrintedStays
<1>1. ASSUME ContactsInv, [Next]_vars
      PROVE  [\A d \in Docs :
                /\ \/ documents[d].status = "sent" /\ documents'[d].status = "sent"
                   \/ documents[d].type = "credit_note"
                /\ Document(d) \notin disturbed'
                => IF documents[d].recipient.name # "" THEN Printed(d)' = Printed(d)
                   ELSE documents'[d].recipient = documents[d].recipient
                          \/ documents'[d].backfilled]_vars
  <2> SUFFICES ASSUME NEW d \in Docs, Frozen(d), Document(d) \notin disturbed'
               PROVE  IF documents[d].recipient.name # "" THEN Printed(d)' = Printed(d)
                      ELSE documents'[d].recipient = documents[d].recipient
                             \/ documents'[d].backfilled
    BY DEF Frozen
  <2>1. RecipientKept(d)
    BY <1>1, RecipientsKept
  <2> QED
    BY <2>1 DEF RecipientKept, Printed
<1> QED
  BY <1>1, Invariance, PTL DEF Spec, PrintedStays

=============================================================================
