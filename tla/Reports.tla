------------------------------ MODULE Reports -------------------------------
(***************************************************************************)
(* What the program tells of the books: balance sheet, income statement,   *)
(* general ledger, ageing of receivables, turnover, VAT declaration and    *)
(* simplified accounts (the « carnet du lait »), and the files it exports: *)
(* journal, ledger and trial balance as tables, the legal archive.  Each   *)
(* is an operator of the state, over the life of a few entries and sales   *)
(* documents: entries written by hand, correction, issue, payment,         *)
(* cancellation, reopening and archiving of a document, the closing of a   *)
(* year.                                                                   *)
(*                                                                         *)
(* Each operation is one step here: how requests interleave is the matter  *)
(* of Ledger and Invoicing.  An operation keeps what bears on a report:    *)
(* the lines of its entry, the date it is given, the refusal of a closed   *)
(* year or of an unbalanced entry, and what it leaves when refused.        *)
(*                                                                         *)
(* Amounts are in rappen, rates in per mille.  Rows of a table have no     *)
(* order in a sum, so the journal is a bag of entries; an account stands   *)
(* at most once in an entry.                                               *)
(***************************************************************************)
EXTENDS Integers, Sequences, FiniteSets, FiniteSetsExt, Functions, Bags

CONSTANTS
  Dates,        \* 1 .. n, the days an operation may be dated
  YearEnds,     \* last day of each fiscal year
  MonthOf,      \* the month of each day; month 1 is a January
  Looks,        \* days on which the dashboard is looked at, [month, day]
  Sales,        \* what a document may hold: sequences of [base, rate]
  Dues,         \* days a document may fall due
  Parts,        \* partial payments
  ByHand,       \* entries written by hand: sets of lines
  MaxDocuments, \* bound on the documents that correct no other
  MaxNotes,     \* bound on the credit notes on an invoice
  MaxByHand,    \* bound on the entries by hand
  MaxParts,     \* bound on the payments of a document
  Reopenings    \* bound on the reopenings of a document

AccountType ==
  [cash |-> "asset", bank |-> "asset", receivables |-> "asset",
   vatDue |-> "liability", result |-> "equity", sales |-> "revenue", fees |-> "expense"]

Accounts == DOMAIN AccountType

\* A line of an entry, a line of a document.
Line == [account : Accounts, debit : Nat, credit : Nat]

Sold == [base : Nat, rate : Nat]

ASSUME ReportsAssumption ==
  /\ Dates = 1..Cardinality(Dates) /\ YearEnds \subseteq Dates
  /\ Cardinality(Dates) \in YearEnds
  /\ MonthOf \in [Dates -> Nat] /\ Looks \subseteq [month : Nat, day : 1..31]
  /\ Sales \subseteq Seq(Sold)
  /\ \A lines \in ByHand : lines \subseteq Line /\ IsFiniteSet(lines)
  /\ Dues \subseteq Nat /\ Parts \subseteq Nat \ {0}
  /\ MaxDocuments \in Nat /\ MaxNotes \in Nat /\ MaxByHand \in Nat
  /\ MaxParts \in Nat /\ Reopenings \in Nat

VARIABLES
  journal_entries,  \* bag of the entries, each with its lines
  documents,        \* table invoices, without the quotes
  closed,           \* the closed years, each by its last day
  stray             \* history: documents cancelled whose entry was not reversed

reportsVars == <<journal_entries, documents, closed, stray>>

-----------------------------------------------------------------------------
(* Chart of accounts *)

estLiquidite(account) == account \in {"cash", "bank"}

OfType(types) == {a \in Accounts : AccountType[a] \in types}

-----------------------------------------------------------------------------
(* Lines, entries, amounts *)

Debit(account, amount) == [account |-> account, debit |-> amount, credit |-> 0]

Credit(account, amount) == [account |-> account, debit |-> 0, credit |-> amount]

Swapped(lines) == {[account |-> l.account, debit |-> l.credit, credit |-> l.debit] : l \in lines}

DebitOf(lines) == SumFunction([l \in lines |-> l.debit])

CreditOf(lines) == SumFunction([l \in lines |-> l.credit])

\* Debit minus credit of the lines on the accounts of A.
NetDebit(lines, A) ==
  SumFunction([l \in {l \in lines : l.account \in A} |-> l.debit - l.credit])

Balanced(lines) == NetDebit(lines, Accounts) = 0

Entry(kind, date, lines, status) ==
  [kind |-> kind, date |-> date, lines |-> lines, status |-> status]

YearOf(date) == Min({e \in YearEnds : date <= e})

NoYear == 0

\* compliance.RoundTo5Rappen of an amount in thousandths of a rappen.
RoundTo5Rappen(amount) == 5 * ((amount + 2500) \div 5000)

\* The VAT and the total are rounded, the net amount is not.
computeTotals(lines) ==
  LET base == SumFunction([i \in DOMAIN lines |-> lines[i].base])
      tax  == SumFunction([i \in DOMAIN lines |-> lines[i].base * lines[i].rate])
  IN [subtotal |-> base, vat |-> RoundTo5Rappen(tax),
      total |-> RoundTo5Rappen(1000 * base + tax)]

Sign(doc) == IF doc.type = "credit_note" THEN -1 ELSE 1

\* The lines of an entry that a credit note writes the other way round.
Facing(doc, lines) == IF doc.type = "credit_note" THEN Swapped(lines) ELSE lines

-----------------------------------------------------------------------------
(* Journal *)

\* The entries a report retains: posted, and dated in the period.
Retained(from, to) ==
  {e \in DOMAIN journal_entries : e.status = "posted" /\ from <= e.date /\ e.date <= to}

\* Sum of what f gives to entries, as often as the journal holds each.
SumOf(f) == SumFunction([e \in DOMAIN f |-> journal_entries[e] * f[e]])

Movement(A, entries) == SumOf([e \in entries |-> NetDebit(e.lines, A)])

Added(entry) == journal_entries (+) SetToBag({entry})

\* PostEntry: the same entry, posted.
AfterPosting(e) ==
  (journal_entries (-) SetToBag({e})) (+) SetToBag({[e EXCEPT !.status = "posted"]})

\* CreateEntry: balanced, and in an open year.
Enterable(date, lines) == Balanced(lines) /\ YearOf(date) \notin closed

CreateByHand(date, lines) ==
  /\ SumOf([e \in {e \in DOMAIN journal_entries : e.kind = "by_hand"} |-> 1]) < MaxByHand
  /\ Enterable(date, lines)
  /\ journal_entries' = Added(Entry("by_hand", date, lines, "draft"))
  /\ UNCHANGED <<documents, closed, stray>>

PostByHand(e) ==
  /\ e.status = "draft"
  /\ Enterable(e.date, e.lines)
  /\ journal_entries' = AfterPosting(e)
  /\ UNCHANGED <<documents, closed, stray>>

\* Net debit in year y of each account the closing brings to zero.
YearBalance(y, account) ==
  Movement({account}, {e \in DOMAIN journal_entries : e.status = "posted" /\ YearOf(e.date) = y})

\* Revenue accounts in credit and expense accounts in debit are brought to
\* zero; account 5900 receives the result of all of them.
ClosingLines(y) ==
  LET revenue == {a \in OfType({"revenue"}) : YearBalance(y, a) < 0}
      expense == {a \in OfType({"expense"}) : YearBalance(y, a) > 0}
      result  == SumFunction([a \in OfType({"revenue", "expense"}) |-> -YearBalance(y, a)])
  IN {Debit(a, -YearBalance(y, a)) : a \in revenue}
       \cup {Credit(a, YearBalance(y, a)) : a \in expense}
       \cup (CASE result > 0 -> {Credit("result", result)}
               [] result < 0 -> {Debit("result", -result)}
               [] OTHER      -> {})

\* CloseYear: no draft is left in the year; its entry is dated its last day.
CloseYear(y) ==
  /\ y \in YearEnds \ closed
  /\ ~\E e \in DOMAIN journal_entries : e.status = "draft" /\ YearOf(e.date) = y
  /\ closed' = closed \cup {y}
  /\ journal_entries' = IF ClosingLines(y) = {} THEN journal_entries
                ELSE Added(Entry("closing", y, ClosingLines(y), "posted"))
  /\ UNCHANGED <<documents, stray>>

-----------------------------------------------------------------------------
(* Documents *)

AddDocument(type, corrects, sale, date, due, year) ==
  /\ LET notes == {d \in DOMAIN documents : documents[d].corrects # 0}
     IN IF corrects = 0 THEN Cardinality(DOMAIN documents \ notes) < MaxDocuments
        ELSE Cardinality(notes) < MaxNotes
  /\ documents' = Append(documents,
       [type |-> type, corrects |-> corrects, date |-> date, due |-> due, year |-> year,
        subtotal |-> computeTotals(sale).subtotal, vat |-> computeTotals(sale).vat,
        total |-> computeTotals(sale).total,
        status |-> "draft", paid |-> 0, payments |-> 0, entered |-> FALSE, reopened |-> 0])
  /\ UNCHANGED <<journal_entries, closed, stray>>

\* CreateInvoice attaches the document to the year of its date, and refuses a
\* closed one.
CreateDocument(type, sale, date, due) ==
  /\ YearOf(date) \notin closed
  /\ AddDocument(type, 0, sale, date, due, YearOf(date))

\* A quote sent becomes an invoice; nothing attaches it to a year.
InvoiceQuote(sale, date, due) ==
  AddDocument("invoice", 0, sale, date, due, NoYear)

TotalOf(D) == SumFunction([d \in D |-> documents[d].total])

\* checkCreditCap: total, with the other notes on invoice d that are not
\* cancelled, is within its amount and a rappen.
WithinCap(d, others, total) ==
  total + TotalOf({n \in others : /\ documents[n].corrects = d
                                  /\ documents[n].status # "cancelled"})
    <= documents[d].total + 1

\* A credit note on an invoice sent or paid, due the day it is dated; nothing
\* attaches it to a year.
CreditInvoice(d, sale, date) ==
  /\ documents[d].type = "invoice" /\ documents[d].status \in {"sent", "paid"}
  /\ WithinCap(d, DOMAIN documents, computeTotals(sale).total)
  /\ AddDocument("credit_note", d, sale, date, date, NoYear)

\* UpdateInvoice: the amounts and the dates of a draft; its year stays.
UpdateInvoice(d, sale, date, due) ==
  /\ documents[d].status = "draft"
  /\ documents[d].corrects # 0 =>
       WithinCap(documents[d].corrects, DOMAIN documents \ {d}, computeTotals(sale).total)
  /\ documents' = [documents EXCEPT
       ![d].subtotal = computeTotals(sale).subtotal, ![d].vat = computeTotals(sale).vat,
       ![d].total = computeTotals(sale).total, ![d].date = date, ![d].due = due]
  /\ UNCHANGED <<journal_entries, closed, stray>>

\* The startup attaches what has no year.
BackfillFiscalYears ==
  /\ documents' = [d \in DOMAIN documents |->
       IF documents[d].year = NoYear THEN [documents[d] EXCEPT !.year = YearOf(documents[d].date)]
       ELSE documents[d]]
  /\ UNCHANGED <<journal_entries, closed, stray>>

\* buildIssueLines
IssueLines(doc) ==
  Facing(doc, {Debit("receivables", doc.total), Credit("sales", doc.subtotal)}
                \cup (IF doc.vat = 0 THEN {} ELSE {Credit("vatDue", doc.vat)}))

\* Transition draft to sent: the document is sent, and entered unless the
\* company does not post on issue or its entry is refused.
SendDocument(d, autoPost) ==
  LET doc == documents[d]
      enter == autoPost /\ doc.total # 0 /\ Enterable(doc.date, IssueLines(doc))
  IN /\ doc.status = "draft"
     /\ documents' = [documents EXCEPT ![d].status = "sent", ![d].entered = enter]
     /\ journal_entries' = IF enter
                   THEN Added(Entry("issue", doc.date, IssueLines(doc), "posted"))
                   ELSE journal_entries
     /\ UNCHANGED <<closed, stray>>

\* RecordPayment: of a sent document, within its balance; entered if the
\* document is, and then in an open year only.
RecordPayment(d, amount, date) ==
  LET doc == documents[d]
      lines == Facing(doc, {Debit("bank", amount), Credit("receivables", amount)})
  IN /\ doc.status = "sent"
     /\ doc.payments < MaxParts
     /\ amount > 0 /\ amount <= doc.total - doc.paid
     /\ doc.entered => Enterable(date, lines)
     /\ documents' = [documents EXCEPT ![d].paid = @ + amount, ![d].payments = @ + 1,
                       ![d].status = IF doc.paid + amount = doc.total THEN "paid" ELSE @]
     /\ journal_entries' = IF doc.entered
                   THEN Added(Entry("payment", date, lines, "posted"))
                   ELSE journal_entries
     /\ UNCHANGED <<closed, stray>>

\* Transition sent to paid: the balance is paid, and a document that has none
\* is only marked.
MarkPaid(d, date) ==
  LET doc == documents[d]
  IN \/ RecordPayment(d, doc.total - doc.paid, date)
     \/ /\ doc.status = "sent" /\ doc.paid = doc.total
        /\ documents' = [documents EXCEPT ![d].status = "paid"]
        /\ UNCHANGED <<journal_entries, closed, stray>>

\* Transition sent to cancelled, of a document nobody paid: the reversal bears
\* the date of issue, and a closed year refuses it.
Cancel(d) ==
  LET doc == documents[d]
      lines == Swapped(IssueLines(doc))
      reverse == doc.entered /\ Enterable(doc.date, lines)
  IN /\ doc.status = "sent" /\ doc.paid = 0
     /\ documents' = [documents EXCEPT ![d].status = "cancelled"]
     /\ journal_entries' = IF reverse
                   THEN Added(Entry("reversal", doc.date, lines, "posted"))
                   ELSE journal_entries
     /\ stray' = IF doc.entered /\ ~reverse THEN stray \cup {d} ELSE stray
     /\ UNCHANGED closed

\* Transition cancelled to draft: the link to the reversed entry is cleared.
Reopen(d) ==
  /\ documents[d].status = "cancelled"
  /\ documents[d].reopened < Reopenings
  /\ documents' = [documents EXCEPT ![d].status = "draft", ![d].entered = FALSE,
                                  ![d].reopened = @ + 1]
  /\ UNCHANGED <<journal_entries, closed, stray>>

Archive(d) ==
  /\ documents[d].status = "paid"
  /\ documents' = [documents EXCEPT ![d].status = "archived"]
  /\ UNCHANGED <<journal_entries, closed, stray>>

-----------------------------------------------------------------------------
(* Reports on the journal *)

\* Faulty variant: the lines of drafts retained.
BalanceSheetWithDrafts(date) ==
  LET upto == {e \in DOMAIN journal_entries : e.date <= date}
  IN [assets |-> Movement(OfType({"asset"}), upto),
      liabilitiesEquity |-> -Movement(OfType({"liability", "equity"}), upto)]

BalanceSheet(date) ==
  [assets |-> Movement(OfType({"asset"}), Retained(1, date)),
   liabilitiesEquity |-> -Movement(OfType({"liability", "equity"}), Retained(1, date))]

IncomeStatement(from, to) ==
  [revenue |-> -Movement(OfType({"revenue"}), Retained(from, to)),
   expenses |-> Movement(OfType({"expense"}), Retained(from, to))]

NetIncome(from, to) ==
  IncomeStatement(from, to).revenue - IncomeStatement(from, to).expenses

GeneralLedger(account, from, to) ==
  LET opening == Movement({account}, Retained(1, from - 1))
  IN [opening |-> opening, closing |-> opening + Movement({account}, Retained(from, to))]

LinesOn(e, account) == {l \in e.lines : l.account = account}

\* Debits and credits of an account.
TrialRow(account, entries) ==
  [debit |-> SumOf([e \in entries |-> DebitOf(LinesOn(e, account))]),
   credit |-> SumOf([e \in entries |-> CreditOf(LinesOn(e, account))])]

\* Of each account up to a day; a draft joins no line.
TrialBalance(date) == [a \in Accounts |-> TrialRow(a, Retained(1, date))]

AccountBalance(account, date) == Movement({account}, Retained(1, date))

\* What the page of maintenance finds of the journal, drafts included.
IntegrityCheck ==
  [journalBalance |-> SumOf([e \in {e \in DOMAIN journal_entries : ~Balanced(e.lines)} |-> 1]),
   journalEmpty |-> SumOf([e \in {e \in DOMAIN journal_entries : e.lines = {}} |-> 1])]

\* Entries that move money, and do not only move it from pocket to pocket.
MoneyEntries(from, to) ==
  {e \in Retained(from, to) :
     /\ \E l \in e.lines : ~estLiquidite(l.account)
     /\ \E l \in e.lines : estLiquidite(l.account) /\ (l.debit # 0 \/ l.credit # 0)}

\* The lines that say what the money was for, and those that move it.
Counterparts(e) == {l \in e.lines : ~estLiquidite(l.account)}

MoneyIn(e) == NetDebit(e.lines, {a \in Accounts : estLiquidite(a)})

\* Faulty variant: counterparts classified by the direction of the whole entry.
mouvementsInBulk(from, to) ==
  LET entries == MoneyEntries(from, to)
      into(e) == IF MoneyIn(e) > 0 THEN CreditOf(Counterparts(e)) ELSE 0
      out(e)  == IF MoneyIn(e) > 0 THEN 0 ELSE DebitOf(Counterparts(e))
  IN [recettes |-> SumOf([e \in entries |-> into(e)]),
      depenses |-> SumOf([e \in entries |-> out(e)]),
      net |-> SumOf([e \in entries |-> MoneyIn(e)])]

\* Each counterpart is classified by its own side.
mouvements(from, to) ==
  [recettes |-> SumOf([e \in MoneyEntries(from, to) |-> CreditOf(Counterparts(e))]),
   depenses |-> SumOf([e \in MoneyEntries(from, to) |-> DebitOf(Counterparts(e))]),
   net |-> SumOf([e \in MoneyEntries(from, to) |-> MoneyIn(e)])]

Resultat(from, to) == mouvements(from, to).recettes - mouvements(from, to).depenses

\* The simplified accounts are refused when they do not agree with the money.
Etabli(from, to) == Resultat(from, to) = mouvements(from, to).net

\* patrimoine
Fortune(date) ==
  Movement(OfType({"asset"}), Retained(1, date))
    + Movement(OfType({"liability"}), Retained(1, date))

\* eligibilite: the turnover held against the legal thresholds.
ChiffreAffaires(from, to) == -Movement(OfType({"revenue"}), Retained(from, to))

-----------------------------------------------------------------------------
(* Reports on the documents *)

OfStatus(types, statuses) ==
  {d \in DOMAIN documents : documents[d].type \in types /\ documents[d].status \in statuses}

\* Sum of what f gives to documents, credit notes deducted.
Signed(f) == SumFunction([d \in DOMAIN f |-> Sign(documents[d]) * f[d]])

Billed(D) == Signed([d \in D |-> documents[d].total])

\* Amounts of the invoices sent, by the days they are overdue.
ARaging(today) ==
  LET D == OfStatus({"invoice"}, {"sent"})
      days(d) == today - documents[d].due
      late(lo, hi) == TotalOf({d \in D : lo <= days(d) /\ days(d) <= hi})
  IN [current |-> TotalOf({d \in D : days(d) <= 0}),
      upto30 |-> late(1, 30), upto60 |-> late(31, 60), upto90 |-> late(61, 90),
      over90 |-> TotalOf({d \in D : days(d) > 90})]

GrandTotal(aging) ==
  aging.current + aging.upto30 + aging.upto60 + aging.upto90 + aging.over90

\* The dashboard: a document sent is counted as late or as not due yet, the
\* amount outstanding counts both.
GetStats(today) ==
  LET D(status) == OfStatus({"invoice"}, {status})
      overdue == {d \in D("sent") : documents[d].due < today}
  IN [draft |-> Cardinality(D("draft")), paid |-> Cardinality(D("paid")),
      cancelled |-> Cardinality(D("cancelled")), archived |-> Cardinality(D("archived")),
      sent |-> Cardinality(D("sent")) - Cardinality(overdue), overdue |-> Cardinality(overdue),
      totalReceivable |-> TotalOf(D("sent"))]

PaidOf(D) == SumFunction([d \in D |-> documents[d].paid])

\* Days of a month, of a common year.
DaysIn(m) == IF m % 12 = 2 THEN 28 ELSE IF m % 12 \in {4, 6, 9, 11} THEN 30 ELSE 31

\* AddDate(0, -i, 0) for i from 5 to 0: the day a month does not have is a day
\* of the next one.
shownMonths(today) ==
  [n \in 1..6 |-> LET m == today.month - 6 + n
                  IN IF today.day <= DaysIn(m) THEN m ELSE m + 1]

\* The query: invoices neither draft nor cancelled, from five months ago on.
Invoiced(today) ==
  {d \in OfStatus({"invoice"}, {"sent", "paid", "archived"}) :
     today.month - 5 <= MonthOf[documents[d].date]}

\* Invoiced and paid, for each month shown.
MonthlyRevenue(today) ==
  LET invoiced == Invoiced(today)
      D(m) == {d \in invoiced : MonthOf[documents[d].date] = m}
  IN [n \in 1..6 |-> [total |-> TotalOf(D(shownMonths(today)[n])),
                      paid |-> PaidOf(D(shownMonths(today)[n]))]]

\* revenueRows: what was billed in a period, credit notes deducted.
Revenue(from, to) ==
  Billed({d \in OfStatus({"invoice", "credit_note"}, {"sent", "paid", "archived"}) :
            from <= documents[d].date /\ documents[d].date <= to})

\* Those a declaration retains: an archived one is not.
Declared(from, to) ==
  {d \in OfStatus({"invoice", "credit_note"}, {"sent", "paid"}) :
     from <= documents[d].date /\ documents[d].date <= to}

\* Faulty variant: credit notes added instead of subtracted.
GenerateDeclarationUnsigned(from, to) ==
  SumFunction([d \in Declared(from, to) |-> documents[d].vat])

\* GenerateDeclaration, effective method: the VAT collected.
GenerateDeclaration(from, to) == Signed([d \in Declared(from, to) |-> documents[d].vat])

-----------------------------------------------------------------------------
(* Exports *)

\* The line of totals of the journal.
ExportJournalCSV(from, to) ==
  [debit |-> SumOf([e \in Retained(from, to) |-> DebitOf(e.lines)]),
   credit |-> SumOf([e \in Retained(from, to) |-> CreditOf(e.lines)])]

\* The running balance on the last line of an account, which begins at zero
\* with the period.
ExportLedgerCSV(account, from, to) == Movement({account}, Retained(from, to))

\* One row for each account that has moved in the period: a line of an entry
\* has an amount.
ExportTrialBalanceCSV(from, to) ==
  LET kept == Retained(from, to)
  IN [a \in {l.account : l \in UNION {e.lines : e \in kept}} |-> TrialRow(a, kept)]

\* The filters of the archive: a fiscal year or none, and a period.
Filters(year, from, to) == [year |-> year, from |-> from, to |-> to]

fetchJournalEntries(filters) ==
  {e \in Retained(filters.from, filters.to) :
     filters.year = NoYear \/ YearOf(e.date) = filters.year}

\* Documents of any status, by their own year and their date.
fetchInvoices(filters) ==
  {d \in DOMAIN documents :
     /\ filters.year = NoYear \/ documents[d].year = filters.year
     /\ filters.from <= documents[d].date /\ documents[d].date <= filters.to}

LegalArchive(filters) ==
  [entries |-> fetchJournalEntries(filters), invoices |-> fetchInvoices(filters)]

-----------------------------------------------------------------------------

ReportsInit ==
  /\ journal_entries = EmptyBag
  /\ documents = <<>>
  /\ closed = {}
  /\ stray = {}

ReportsNext ==
  \/ \E date \in Dates, lines \in ByHand : CreateByHand(date, lines)
  \/ \E e \in DOMAIN journal_entries : PostByHand(e)
  \/ \E y \in YearEnds : CloseYear(y)
  \/ \E type \in {"invoice", "credit_note"}, sale \in Sales, date \in Dates, due \in Dues :
       CreateDocument(type, sale, date, due)
  \/ \E sale \in Sales, date \in Dates, due \in Dues : InvoiceQuote(sale, date, due)
  \/ BackfillFiscalYears
  \/ \E d \in DOMAIN documents :
       \/ \E sale \in Sales, date \in Dates :
            \/ CreditInvoice(d, sale, date)
            \/ \E due \in Dues : UpdateInvoice(d, sale, date, due)
       \/ \E autoPost \in BOOLEAN : SendDocument(d, autoPost)
       \/ \E date \in Dates :
            \/ \E amount \in Parts : RecordPayment(d, amount, date)
            \/ MarkPaid(d, date)
       \/ Cancel(d)
       \/ Reopen(d)
       \/ Archive(d)

ReportsSpec == ReportsInit /\ [][ReportsNext]_reportsVars

-----------------------------------------------------------------------------
(* Properties *)

\* The tables hold what their columns allow.
ReportsTypeOK ==
  /\ IsABag(journal_entries)
  /\ \A e \in DOMAIN journal_entries :
       /\ e.date \in Dates /\ e.status \in {"draft", "posted"}
       /\ \A l \in e.lines : l.account \in Accounts /\ l.debit >= 0 /\ l.credit >= 0
  /\ \A d \in DOMAIN documents :
       /\ documents[d].paid \in 0..documents[d].total
       /\ documents[d].entered => documents[d].status # "draft"
       /\ documents[d].year \in YearEnds \cup {NoYear}
       /\ documents[d].corrects \in {0} \cup DOMAIN documents
  /\ closed \subseteq YearEnds
  /\ stray \subseteq DOMAIN documents

\* The simplified accounts are established whatever was entered, for every
\* period, and their result is what the general ledger shows the accounts of
\* money have gained: transfers between them, entries of several counterparts
\* and entries without money included (simplified.go mouvements).
CarnetExplained ==
  \A from \in Dates : \A to \in from..Cardinality(Dates) :
    /\ Etabli(from, to)
    /\ Resultat(from, to) =
         SumFunction([a \in {a \in Accounts : estLiquidite(a)} |->
           GeneralLedger(a, from, to).closing - GeneralLedger(a, from, to).opening])

\* The entry of issue a document points to.
EntryOf(doc) == Entry("issue", doc.date, IssueLines(doc), "posted")

\* For every period the totals of the journal exported balance, the trial
\* balance exported adds up to them, and each account ends with the same
\* balance in the ledger exported, in its row of the trial balance, and
\* between the opening and the closing of the general ledger
\* (exports_accounting.go).  An archive of a period holds the entry of each
\* document it holds; an archive of a fiscal year does, and holds the document
\* of each entry, for the documents attached to the year of their date
\* (export.go LegalArchive).
ExportsExplained ==
  /\ \A from \in Dates : \A to \in from..Cardinality(Dates) :
       LET total == ExportJournalCSV(from, to)
           trial == ExportTrialBalanceCSV(from, to)
           balance(a) == IF a \in DOMAIN trial THEN trial[a].debit - trial[a].credit ELSE 0
           archive == LegalArchive(Filters(NoYear, from, to))
       IN /\ total.debit = total.credit
          /\ total.debit = SumFunction([a \in DOMAIN trial |-> trial[a].debit])
          /\ total.credit = SumFunction([a \in DOMAIN trial |-> trial[a].credit])
          /\ \A a \in Accounts :
               LET ledger == GeneralLedger(a, from, to)
                   moved == ledger.closing - ledger.opening
               IN /\ ledger.closing = AccountBalance(a, to)
                  /\ ExportLedgerCSV(a, from, to) = moved
                  /\ balance(a) = moved
          /\ \A d \in archive.invoices :
               documents[d].entered => EntryOf(documents[d]) \in archive.entries
  /\ \A y \in YearEnds :
       LET archive == LegalArchive(Filters(y, 1, Cardinality(Dates)))
       IN \A d \in DOMAIN documents :
            documents[d].entered /\ documents[d].year = YearOf(documents[d].date) =>
              (d \in archive.invoices <=> EntryOf(documents[d]) \in archive.entries)

\* A document entered is in the archive of the year its entry is in.  It is
\* not when the document was converted from a quote or credits an invoice, until
\* the next start, nor when its draft was given a date in another year
\* (service.go ConvertQuote, CreateCreditNote, UpdateInvoiceBy).
ArchiveOfYearWhole ==
  \A y \in YearEnds :
    LET archive == LegalArchive(Filters(y, 1, Cardinality(Dates)))
    IN \A d \in DOMAIN documents :
         documents[d].entered /\ EntryOf(documents[d]) \in archive.entries => d \in archive.invoices

\* As long as the integrity check finds no entry out of balance, on every day
\* the balance sheet lacks what the income statement of all the days before it
\* shows, that is the result of the years not closed yet, and nothing else: no
\* draft and no half entry is in it (reports.go BalanceSheet); the net assets
\* of the simplified accounts are the equity and that result (simplified.go
\* patrimoine); the trial balance has as much debit as credit, and gives each
\* account the balance the general ledger closes with, wherever its period
\* starts (accounts.go TrialBalance, AccountBalance); and the files exported
\* agree with them.
SheetExplained ==
  IntegrityCheck.journalBalance = 0 =>
    /\ ExportsExplained
    /\ \A date \in Dates :
         LET trial == TrialBalance(date)
             sheet == BalanceSheet(date)
             income == NetIncome(1, date)
         IN /\ sheet.assets - sheet.liabilitiesEquity = income
            /\ Fortune(date) = income - Movement(OfType({"equity"}), Retained(1, date))
            /\ SumFunction([a \in Accounts |-> trial[a].debit - trial[a].credit]) = 0
            /\ \A a \in Accounts : trial[a].debit - trial[a].credit = AccountBalance(a, date)

\* The entries written by hand that a report retains.
HandMade(from, to) == {e \in Retained(from, to) : e.kind = "by_hand"}

\* The receivables the ageing shows are the balance of account 1100, but for
\* what is written there by hand, what is paid in part, credit notes not
\* settled, and invoices sent without an entry; each sum falls in one bucket
\* only, whatever the day.
OwedExplained ==
  LET sent == OfStatus({"invoice", "credit_note"}, {"sent"})
      entered == {d \in sent : documents[d].entered}
      notes == {d \in sent : documents[d].type = "credit_note"}
      n == Cardinality(Dates)
  IN \A today \in UNION {{due, due + 30, due + 31, due + 61, due + 91} : due \in Dues} :
       GrandTotal(ARaging(today)) =
         GeneralLedger("receivables", 1, n).closing
           - Movement({"receivables"}, HandMade(1, n))
           + Signed([d \in entered |-> documents[d].paid])
           + Billed(sent \ entered) - Billed(notes)

LastSixMonths(today) == (today.month - 5)..today.month

SixMonthsHave(today) == \A m \in LastSixMonths(today) : today.day <= DaysIn(m)

\* The dashboard shows the amount outstanding that the ageing shows, calls an
\* invoice late when the ageing does.  On a day that each of the last six
\* months has, what its months show as invoiced and not paid is what is
\* outstanding less the partial payments, but for the invoices sent that are
\* dated before or after these months.
DashboardExplained ==
  LET n == Cardinality(Dates)
      sent == OfStatus({"invoice"}, {"sent"})
  IN /\ \A today \in UNION {{due, due + 1, due + 31} : due \in Dues} :
          LET stats == GetStats(today)  aging == ARaging(today)
          IN /\ stats.totalReceivable = GrandTotal(aging)
             /\ stats.overdue = 0 => aging.current = GrandTotal(aging)
             /\ stats.sent = 0 => aging.current = 0
     /\ \A today \in Looks :
          LET shown == MonthlyRevenue(today)
              outside == {d \in sent : MonthOf[documents[d].date] \notin LastSixMonths(today)}
          IN SixMonthsHave(today) =>
               SumFunction([m \in 1..6 |-> shown[m].total - shown[m].paid]) =
                 (GetStats(n).totalReceivable - PaidOf(sent))
                   - (TotalOf(outside) - PaidOf(outside))

\* stats.go says its months are the last six calendar months: what was invoiced
\* in them would be what they show, on every day.  On the last days of a month
\* some month is shown twice, and another not at all: it does not hold.
SixMonthsShown ==
  \A today \in Looks :
    SumFunction([n \in 1..6 |-> MonthlyRevenue(today)[n].total]) =
      TotalOf({d \in Invoiced(today) : MonthOf[documents[d].date] <= today.month})

\* For any period the turnover billed is what documents have put on account
\* 1100, and the VAT declared what account 2261 has received otherwise than by
\* hand, but for documents sent without an entry, and for the VAT of those
\* archived since: cancellations, reopenings and credit notes leave them equal.
BilledExplained ==
  \A from \in Dates : \A to \in from..Cardinality(Dates) :
    LET issued == {d \in OfStatus({"invoice", "credit_note"}, {"sent", "paid", "archived"}) :
                     from <= documents[d].date /\ documents[d].date <= to}
        entered == {d \in issued : documents[d].entered}
        archived == {d \in issued : documents[d].status = "archived"}
        posted == {e \in Retained(from, to) : e.kind \in {"issue", "reversal"}}
        vat(D) == Signed([d \in D |-> documents[d].vat])
    IN /\ Revenue(from, to) =
            Movement({"receivables"}, posted) + Billed(issued \ entered)
       /\ GenerateDeclaration(from, to) =
            GeneralLedger("vatDue", from, to).opening - GeneralLedger("vatDue", from, to).closing
              + Movement({"vatDue"}, HandMade(from, to))
              + vat((issued \ archived) \ entered) - vat(archived \cap entered)

\* What the reports say of the documents is what the journal says of them, but
\* for the differences named above (reports.go ARaging, stats.go GetStats,
\* revenue.go revenueRows, vat/service.go GenerateDeclaration).  The reversal
\* a closed year refused is left aside.
DocumentsExplained ==
  /\ DashboardExplained
  /\ stray = {} => OwedExplained /\ BilledExplained

\* The turnover of a year, held against the thresholds of the law, is that of
\* the entries of the year, closed or not (simplified.go eligibilite).
TurnoverKept ==
  \A y \in YearEnds :
    LET year == {date \in Dates : YearOf(date) = y}
    IN ChiffreAffaires(Min(year), y) =
         -Movement(OfType({"revenue"}),
                   {e \in Retained(Min(year), y) : e.kind # "closing"})

=============================================================================
