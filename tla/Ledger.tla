------------------------------- MODULE Ledger -------------------------------
(***************************************************************************)
(* The accounting core of LedgerAlps: journal entries, fiscal years, the   *)
(* year-end closing and the links the two append to the audit chain.       *)
(*                                                                         *)
(* Up to 25 connections serve requests concurrently.  A statement outside  *)
(* a transaction is one step; a transaction opened with BEGIN IMMEDIATE    *)
(* holds the only write lock from its first statement to its COMMIT, so a  *)
(* whole transaction is one step too (AuditAppend models that lock).  What *)
(* a request reads before its transaction it keeps in req[p], and other    *)
(* requests run in between.                                                *)
(*                                                                         *)
(* Dates are counted in accounting periods, YearLength of them to a        *)
(* calendar year.  Amounts are integers; a movement gives the net debit of *)
(* one balance-sheet account, one revenue account, one expense account and *)
(* account 5900, which receives the result of the year.                    *)
(***************************************************************************)
EXTENDS Integers, Sequences, FiniteSets, FiniteSetsExt

CONSTANTS
  Requests,    \* connections that serve the requests of several steps
  Dates,       \* dates an entry may carry
  YearLength,  \* accounting periods in a calendar year
  Labels,      \* names an accountant may type for a fiscal year
  Movements,   \* movements an accountant may type, balanced or not
  MaxEntries,  \* bound on the entries of the journal
  MaxYears     \* bound on the fiscal years

ASSUME LedgerAssumption ==
  /\ Dates \subseteq Nat
  /\ Labels \subseteq Nat
  /\ YearLength \in Nat \ {0}
  /\ MaxEntries \in Nat
  /\ MaxYears \in Nat

VARIABLES
  fiscal_years,     \* table fiscal_years, in order of insertion
  journal_entries,  \* table journal_entries; fy = 0 stands for NULL
  journal_lines,    \* net debits of each entry's lines
  audit_logs,       \* the links of table journal_entries, in sequence order
  req,              \* what each connection is doing and has read
  up                \* the server listens (startup backfill is over)

vars == <<fiscal_years, journal_entries, journal_lines, audit_logs, req, up>>

Accounts == {"balance", "revenue", "expense", "result"}

Idle == [pc |-> "idle"]

-----------------------------------------------------------------------------
(* Fiscal years *)

YearOf(d) == d \div YearLength

CalendarYear(y) ==
  [name |-> y, start |-> y * YearLength,
   end |-> y * YearLength + YearLength - 1, closed |-> FALSE]

Overlaps(y, start, end) == y.start <= end /\ y.end >= start

NameTaken(name) == \E i \in DOMAIN fiscal_years : fiscal_years[i].name = name

\* Faulty variant: years that overlap the calendar year, not the date.
OverlappingCalendarYear(d) ==
  {i \in DOMAIN fiscal_years :
     Overlaps(fiscal_years[i], CalendarYear(YearOf(d)).start, CalendarYear(YearOf(d)).end)}

\* The fiscal years a date falls in.
Covering(d) ==
  {i \in DOMAIN fiscal_years : Overlaps(fiscal_years[i], d, d)}

\* LookupFiscalPeriod: the covering year that starts last; of two that start
\* together the query may return either.
LookupFiscalPeriod(d) ==
  {i \in Covering(d) :
     \A j \in Covering(d) : fiscal_years[j].start <= fiscal_years[i].start}

\* EnsureFiscalPeriod: the possible results, none when it refuses.  A closed
\* year is refused; without a covering year the calendar year is inserted,
\* unless its UNIQUE name is taken by a year of other dates.
EnsureFiscalPeriod(d) ==
  IF Covering(d) # {}
  THEN {[table |-> fiscal_years, fy |-> i] :
          i \in {j \in LookupFiscalPeriod(d) : ~fiscal_years[j].closed}}
  ELSE IF NameTaken(YearOf(d))
  THEN {}
  ELSE {[table |-> Append(fiscal_years, CalendarYear(YearOf(d))),
         fy |-> Len(fiscal_years) + 1]}

-----------------------------------------------------------------------------
(* Journal *)

Balanced(m) == m["balance"] + m["revenue"] + m["expense"] + m["result"] = 0

Numbers(year) ==
  {journal_entries[e].ref.no :
     e \in {f \in DOMAIN journal_entries :
              /\ journal_entries[f].ref.series = "JN"
              /\ journal_entries[f].ref.year = year}}

\* Faulty variant: numbered by the posted entries, not the largest number.
CountReference(d) ==
  [series |-> "JN", year |-> YearOf(d),
   no |-> 1 + Cardinality({e \in DOMAIN journal_entries :
                             journal_entries[e].status = "posted"})]

\* nextReference: one more than the largest number given in the date's year.
NextReference(d) ==
  [series |-> "JN", year |-> YearOf(d), no |-> 1 + Max({0} \cup Numbers(YearOf(d)))]

ReferenceTaken(ref) ==
  \E e \in DOMAIN journal_entries : journal_entries[e].ref = ref

IsDraft(e) == journal_entries[e].status = "draft"

Link(e, action) == [action |-> action, entry |-> e]

\* Faulty variant: the entry without its balance check and its lines.
CreateEntryWithoutLines(d, m) ==
  /\ up
  /\ Len(journal_entries) < MaxEntries
  /\ \E period \in EnsureFiscalPeriod(d) :
       /\ Len(period.table) <= MaxYears
       /\ fiscal_years' = period.table
       /\ journal_entries' = Append(journal_entries,
            [ref |-> NextReference(d), date |-> d, status |-> "draft", fy |-> period.fy])
  /\ UNCHANGED <<journal_lines, audit_logs, req, up>>

\* CreateEntry: validateDoubleEntry, then one transaction that numbers the
\* draft, attaches it to its fiscal year and inserts its lines.
CreateEntry(d, m) ==
  /\ up
  /\ Len(journal_entries) < MaxEntries
  /\ Balanced(m)
  /\ \E period \in EnsureFiscalPeriod(d) :
       /\ Len(period.table) <= MaxYears
       /\ fiscal_years' = period.table
       /\ journal_entries' = Append(journal_entries,
            [ref |-> NextReference(d), date |-> d, status |-> "draft", fy |-> period.fy])
  /\ journal_lines' = Append(journal_lines, m)
  /\ UNCHANGED <<audit_logs, req, up>>

\* PostEntry, first statement: the status and date of the entry.
PostLoad(p, e) ==
  /\ up /\ req[p] = Idle
  /\ IsDraft(e)
  /\ req' = [req EXCEPT ![p] = [pc |-> "post_loaded", entry |-> e]]
  /\ UNCHANGED <<fiscal_years, journal_entries, journal_lines, audit_logs, up>>

\* PostEntry, the reads that follow: the fiscal year covering the date must
\* not be closed and the stored lines must balance.  The lines of an entry
\* never change, so the two reads are one step.
PostCheck(p) ==
  /\ up /\ req[p].pc = "post_loaded"
  /\ LET e == req[p].entry
         period == LookupFiscalPeriod(journal_entries[e].date)
         postable == /\ period = {} \/ \E i \in period : ~fiscal_years[i].closed
                     /\ Balanced(journal_lines[e])
         refused == \/ \E i \in period : fiscal_years[i].closed
                    \/ ~Balanced(journal_lines[e])
     IN \/ /\ postable
           /\ req' = [req EXCEPT ![p] = [pc |-> "post_checked", entry |-> e]]
        \/ /\ refused
           /\ req' = [req EXCEPT ![p] = Idle]
  /\ UNCHANGED <<fiscal_years, journal_entries, journal_lines, audit_logs, up>>

\* Faulty variant: the status written without the trigger.
PostCommitWithoutTrigger(p) ==
  /\ up /\ req[p].pc = "post_checked"
  /\ req' = [req EXCEPT ![p] = Idle]
  /\ audit_logs' = Append(audit_logs, Link(req[p].entry, "post"))
  /\ journal_entries' = [journal_entries EXCEPT ![req[p].entry].status = "posted"]
  /\ UNCHANGED <<fiscal_years, journal_lines, up>>

\* PostEntry, its transaction: the link, then the status.  The status is not
\* read again, but trg_journal_entries_no_update aborts the update of an entry
\* posted meanwhile and the link is rolled back with it.
PostCommit(p) ==
  /\ up /\ req[p].pc = "post_checked"
  /\ req' = [req EXCEPT ![p] = Idle]
  /\ IF IsDraft(req[p].entry)
     THEN /\ audit_logs' = Append(audit_logs, Link(req[p].entry, "post"))
          /\ journal_entries' = [journal_entries EXCEPT ![req[p].entry].status = "posted"]
     ELSE UNCHANGED <<journal_entries, audit_logs>>
  /\ UNCHANGED <<fiscal_years, journal_lines, up>>

-----------------------------------------------------------------------------
(* Closing a fiscal year *)

EntriesOf(y) == {e \in DOMAIN journal_entries : journal_entries[e].fy = y}

\* Net debit of an account over the posted entries of a fiscal year.
NetDebit(y, a) ==
  MapThenSumSet(LAMBDA e : journal_lines[e][a], {e \in EntriesOf(y) : ~IsDraft(e)})

\* The closing lines: an account on its usual side is brought to zero, and
\* 5900 takes the difference between all revenue and all expense.  An account
\* on the other side gets no line.
ClosingLines(net) ==
  LET result == -net["revenue"] - net["expense"]
  IN [a \in Accounts |->
        CASE a = "revenue" -> IF net[a] < 0 THEN -net[a] ELSE 0
          [] a = "expense" -> IF net[a] > 0 THEN -net[a] ELSE 0
          [] a = "result"  -> -result
          [] OTHER         -> 0]

ClosingReference(y) ==
  [series |-> "CLOTURE", year |-> YearOf(fiscal_years[y].end), no |-> 0]

\* CloseYear, first statement: the year exists and is not closed.
CloseLoad(p, y) ==
  /\ up /\ req[p] = Idle
  /\ ~fiscal_years[y].closed
  /\ req' = [req EXCEPT ![p] = [pc |-> "close_loaded", year |-> y]]
  /\ UNCHANGED <<fiscal_years, journal_entries, journal_lines, audit_logs, up>>

\* CloseYear, second statement: refused while a draft belongs to the year.
CloseDrafts(p) ==
  /\ up /\ req[p].pc = "close_loaded"
  /\ req' = [req EXCEPT ![p] =
       IF \E e \in EntriesOf(req[p].year) : IsDraft(e)
       THEN Idle
       ELSE [pc |-> "close_no_draft", year |-> req[p].year]]
  /\ UNCHANGED <<fiscal_years, journal_entries, journal_lines, audit_logs, up>>

\* CloseYear, third statement: the balances of the result accounts.
CloseBalances(p) ==
  /\ up /\ req[p].pc = "close_no_draft"
  /\ req' = [req EXCEPT ![p] =
       [pc |-> "close_ready", year |-> req[p].year,
        net |-> [a \in Accounts |-> NetDebit(req[p].year, a)]]]
  /\ UNCHANGED <<fiscal_years, journal_entries, journal_lines, audit_logs, up>>

\* The fiscal year that follows year y, inserted unless its name exists.
FollowingYear(y) ==
  [name |-> YearOf(fiscal_years[y].end) + 1, start |-> fiscal_years[y].end + 1,
   end |-> fiscal_years[y].end + YearLength, closed |-> FALSE]

\* Faulty variant: the flag toggled, the following year forgotten.
CloseTablesToggling(y) ==
  [fiscal_years EXCEPT ![y].closed = ~fiscal_years[y].closed]

CloseTables(y) ==
  LET closed == [fiscal_years EXCEPT ![y].closed = TRUE]
  IN IF NameTaken(FollowingYear(y).name)
     THEN closed
     ELSE Append(closed, FollowingYear(y))

\* Faulty variant: without the UNIQUE reference.
CloseCommitDuplicate(p) ==
  /\ up /\ req[p].pc = "close_ready"
  /\ LET y == req[p].year
         lines == ClosingLines(req[p].net)
         table == CloseTables(y)
     IN /\ Len(table) <= MaxYears
        /\ fiscal_years' = table
        /\ IF \A a \in Accounts : lines[a] = 0
           THEN UNCHANGED <<journal_entries, journal_lines, audit_logs>>
           ELSE /\ Len(journal_entries) < MaxEntries
                /\ journal_entries' = Append(journal_entries,
                     [ref |-> ClosingReference(y), date |-> fiscal_years[y].end,
                      status |-> "posted", fy |-> y])
                /\ journal_lines' = Append(journal_lines, lines)
                /\ audit_logs' = Append(audit_logs, Link(Len(journal_entries) + 1, "close"))
  /\ req' = [req EXCEPT ![p] = Idle]
  /\ UNCHANGED up

\* CloseYear, its transaction: the closing entry with its lines, its link and
\* its status, the closed flag, and the following year.  The reference
\* CLOTURE-<year> is UNIQUE: when it exists the transaction is rolled back.
CloseCommit(p) ==
  /\ up /\ req[p].pc = "close_ready"
  /\ LET y == req[p].year
         lines == ClosingLines(req[p].net)
         table == CloseTables(y)
         nothing == \A a \in Accounts : lines[a] = 0
     IN IF ~nothing /\ ReferenceTaken(ClosingReference(y))
        THEN UNCHANGED <<fiscal_years, journal_entries, journal_lines, audit_logs>>
        ELSE /\ Len(table) <= MaxYears
             /\ fiscal_years' = table
             /\ IF nothing
                THEN UNCHANGED <<journal_entries, journal_lines, audit_logs>>
                ELSE /\ Len(journal_entries) < MaxEntries
                     /\ journal_entries' = Append(journal_entries,
                          [ref |-> ClosingReference(y), date |-> fiscal_years[y].end,
                           status |-> "posted", fy |-> y])
                     /\ journal_lines' = Append(journal_lines, lines)
                     /\ audit_logs' =
                          Append(audit_logs, Link(Len(journal_entries) + 1, "close"))
  /\ req' = [req EXCEPT ![p] = Idle]
  /\ UNCHANGED up

-----------------------------------------------------------------------------
(* Declaring a fiscal year *)

\* CreateFiscalYear, first statement: no year overlaps the typed dates.
DeclareYearCheck(p, name, start, end) ==
  /\ up /\ req[p] = Idle
  /\ end > start
  /\ \A i \in DOMAIN fiscal_years : ~Overlaps(fiscal_years[i], start, end)
  /\ req' = [req EXCEPT ![p] =
       [pc |-> "declare", table |-> [name |-> name, start |-> start,
                                     end |-> end, closed |-> FALSE]]]
  /\ UNCHANGED <<fiscal_years, journal_entries, journal_lines, audit_logs, up>>

\* CreateFiscalYear, second statement: the insertion, refused by the UNIQUE
\* name alone.
DeclareYearInsert(p) ==
  /\ up /\ req[p].pc = "declare"
  /\ IF NameTaken(req[p].table.name)
     THEN UNCHANGED fiscal_years
     ELSE /\ Len(fiscal_years) < MaxYears
          /\ fiscal_years' = Append(fiscal_years, req[p].table)
  /\ req' = [req EXCEPT ![p] = Idle]
  /\ UNCHANGED <<journal_entries, journal_lines, audit_logs, up>>

-----------------------------------------------------------------------------
(* Errors, crash and startup *)

\* The process dies: transactions in flight roll back, requests are lost.
Crash ==
  /\ up
  /\ up' = FALSE
  /\ req' = [p \in Requests |-> Idle]
  /\ UNCHANGED <<fiscal_years, journal_entries, journal_lines, audit_logs>>

\* A statement fails or the client goes away: the request ends, and the
\* transaction it had open, if any, is rolled back.
Abandon(p) ==
  /\ up
  /\ req[p] # Idle
  /\ req' = [req EXCEPT ![p] = Idle]
  /\ UNCHANGED <<fiscal_years, journal_entries, journal_lines, audit_logs, up>>

Orphans == EntriesOf(0)

Unserved(y) ==
  \A i \in DOMAIN fiscal_years :
    ~Overlaps(fiscal_years[i], CalendarYear(y).start, CalendarYear(y).end)

\* BackfillFiscalYears, ensureCalendarYear: a calendar year for the year of an
\* orphan that no fiscal year overlaps.  A taken name is fatal: the server
\* does not start.  The orphans are entries and sales documents; documents are
\* not in this module, so any year may be one's.
BackfillYear(y) ==
  /\ ~up
  /\ Unserved(y)
  /\ ~NameTaken(y)
  /\ Len(fiscal_years) < MaxYears
  /\ fiscal_years' = Append(fiscal_years, CalendarYear(y))
  /\ UNCHANGED <<journal_entries, journal_lines, audit_logs, req, up>>

\* Every orphan entry's year is overlapped by a fiscal year.
OrphansServed == \A e \in Orphans : ~Unserved(YearOf(journal_entries[e].date))

\* Faulty variant: every entry attached again, orphan or not.
BackfillAttachAll ==
  /\ ~up
  /\ OrphansServed
  /\ \E choice \in [DOMAIN journal_entries -> 1 .. Len(fiscal_years)] :
       /\ \A e \in DOMAIN journal_entries :
            choice[e] \in LookupFiscalPeriod(journal_entries[e].date)
       /\ journal_entries' =
            [e \in DOMAIN journal_entries |->
               [journal_entries[e] EXCEPT !.fy = choice[e]]]
  /\ up' = TRUE
  /\ UNCHANGED <<fiscal_years, journal_lines, audit_logs, req>>

\* BackfillFiscalYears, attachOrphans: one UPDATE gives every orphan the year
\* that covers its date, if any.  The trigger lets a posted entry's NULL become
\* a value once; it aborts the UPDATE when it stays NULL, and the server does
\* not start.  Otherwise the server then listens.
BackfillAttach ==
  /\ ~up
  /\ OrphansServed
  /\ \A e \in Orphans : ~IsDraft(e) => Covering(journal_entries[e].date) # {}
  /\ \E choice \in [Orphans -> 0 .. Len(fiscal_years)] :
       /\ \A e \in Orphans :
            IF Covering(journal_entries[e].date) = {}
            THEN choice[e] = 0
            ELSE choice[e] \in LookupFiscalPeriod(journal_entries[e].date)
       /\ journal_entries' =
            [e \in DOMAIN journal_entries |->
               IF e \in Orphans THEN [journal_entries[e] EXCEPT !.fy = choice[e]]
                                ELSE journal_entries[e]]
  /\ up' = TRUE
  /\ UNCHANGED <<fiscal_years, journal_lines, audit_logs, req>>

-----------------------------------------------------------------------------

\* An empty base, or one kept since a version before 1.4.6: a posted entry
\* with its link and no fiscal year.  The server is starting.
Init ==
  /\ fiscal_years = <<>>
  /\ req = [p \in Requests |-> Idle]
  /\ up = FALSE
  /\ \/ /\ journal_entries = <<>>
        /\ journal_lines = <<>>
        /\ audit_logs = <<>>
     \/ \E d \in Dates, m \in Movements :
          /\ Balanced(m)
          /\ journal_entries =
               <<[ref |-> [series |-> "JN", year |-> YearOf(d), no |-> 1],
                  date |-> d, status |-> "posted", fy |-> 0]>>
          /\ journal_lines = <<m>>
          /\ audit_logs = <<Link(1, "post")>>

Posting(p) ==
  \/ \E e \in DOMAIN journal_entries : PostLoad(p, e)
  \/ PostCheck(p)
  \/ PostCommit(p)

Closing(p) ==
  \/ \E y \in DOMAIN fiscal_years : CloseLoad(p, y)
  \/ CloseDrafts(p)
  \/ CloseBalances(p)
  \/ CloseCommit(p)

Declaring(p) ==
  \/ \E name \in Labels, start, end \in Dates : DeclareYearCheck(p, name, start, end)
  \/ DeclareYearInsert(p)

Starting ==
  \/ \E d \in Dates : BackfillYear(YearOf(d))
  \/ BackfillAttach

Next ==
  \/ \E d \in Dates, m \in Movements : CreateEntry(d, m)
  \/ \E p \in Requests : Posting(p) \/ Closing(p) \/ Declaring(p) \/ Abandon(p)
  \/ Crash
  \/ Starting

Spec == Init /\ [][Next]_vars

-----------------------------------------------------------------------------
(* Properties *)

FiscalYear ==
  {y \in [name: Nat, start: Nat, end: Nat, closed: BOOLEAN] : y.start <= y.end}

Reference == [series: {"JN", "CLOTURE"}, year: Nat, no: Nat]

JournalEntry ==
  [ref: Reference, date: Nat, status: {"draft", "posted"}, fy: Nat]

AuditLink == [action: {"post", "close"}, entry: Nat]

\* A request refers to rows that exist.
RequestOK(r) ==
  \/ r = Idle
  \/ /\ r.pc \in {"post_loaded", "post_checked"}
     /\ r.entry \in DOMAIN journal_entries
  \/ /\ r.pc \in {"close_loaded", "close_no_draft", "close_ready"}
     /\ r.year \in DOMAIN fiscal_years
  \/ /\ r.pc = "declare"
     /\ r.table \in FiscalYear

\* The tables' rows, amounts apart: every entry has its lines, its fiscal year
\* exists, and so does what a request has read.
RowsOK ==
  /\ fiscal_years \in Seq(FiscalYear)
  /\ journal_entries \in Seq(JournalEntry)
  /\ journal_lines \in Seq(Range(journal_lines))
  /\ Len(journal_lines) = Len(journal_entries)
  /\ \A e \in DOMAIN journal_entries : journal_entries[e].fy <= Len(fiscal_years)
  /\ audit_logs \in Seq(AuditLink)
  /\ DOMAIN req = Requests /\ \A p \in Requests : RequestOK(req[p])
  /\ up \in BOOLEAN

\* Rows of their columns' types, and lines that give every account an amount.
TypeOK ==
  /\ RowsOK
  /\ \A e \in DOMAIN journal_lines : journal_lines[e] \in [Accounts -> Int]

LinksOf(e) == {k \in DOMAIN audit_logs : audit_logs[k].entry = e}

\* Whatever posts race, and wherever a crash falls, a posted entry has exactly
\* one link in the audit chain and a draft has none: the link and the status
\* are in one transaction, and the trigger undoes both for the loser.
PostedExactlyOnce ==
  \A e \in DOMAIN journal_entries :
    IF IsDraft(e) THEN LinksOf(e) = {} ELSE \E k \in LinksOf(e) : LinksOf(e) = {k}

\* A posted entry and the chain are sealed: no step changes the reference,
\* date, status or lines of a posted entry, moves it from one fiscal year to
\* another, removes it, or rewrites a link.
Sealed ==
  [][/\ \A e \in DOMAIN journal_entries :
          ~IsDraft(e) =>
            /\ e \in DOMAIN journal_entries'
            /\ journal_lines'[e] = journal_lines[e]
            /\ journal_entries'[e] = journal_entries[e]
               \/ /\ journal_entries[e].fy = 0
                  /\ journal_entries'[e] =
                       [journal_entries[e] EXCEPT !.fy = journal_entries'[e].fy]
     /\ \A k \in DOMAIN audit_logs :
          k \in DOMAIN audit_logs' /\ audit_logs'[k] = audit_logs[k]]_vars

\* Two closings of one year, or a closing run again, never leave it with two
\* closing entries.
AtMostOneClosingEntry ==
  \A y \in DOMAIN fiscal_years :
    \A e, f \in {g \in EntriesOf(y) : journal_entries[g].ref.series = "CLOTURE"} : e = f

\* The journal of a calendar year is numbered 1, 2, 3... without a gap or a
\* repetition, concurrent insertions and crashes included.
NumberedWithoutGap ==
  \A y \in {YearOf(d) : d \in Dates} :
    /\ Numbers(y) = 1 .. Cardinality(Numbers(y))
    /\ \A e, f \in DOMAIN journal_entries :
         journal_entries[e].ref = journal_entries[f].ref => e = f

\* An entry attached to a fiscal year is dated in it, so the closing, which
\* selects by year, and the period lock, which selects by date, agree.
DatedInItsYear ==
  \A e \in DOMAIN journal_entries :
    journal_entries[e].fy # 0 =>
      LET y == fiscal_years[journal_entries[e].fy]
      IN journal_entries[e].date \in y.start .. y.end

\* Once closed, a fiscal year stays as it is and closed.
ClosedForever ==
  [][\A y \in DOMAIN fiscal_years :
       fiscal_years[y].closed => fiscal_years'[y] = fiscal_years[y]]_vars

-----------------------------------------------------------------------------
(* What the documentation says of this code *)

\* A closed year refuses creation and posting: no entry becomes posted in a
\* year that was closed before the step.
ClosedYearRefusesPosting ==
  [][\A e \in DOMAIN journal_entries :
       /\ IsDraft(e) /\ journal_entries'[e].status = "posted"
       => ~fiscal_years[journal_entries[e].fy].closed]_vars

\* Every posted entry balances, the closing entry included.
PostedBalances ==
  \A e \in DOMAIN journal_entries : ~IsDraft(e) => Balanced(journal_lines[e])

\* No two fiscal years overlap, so the year of a date is not arbitrary.
YearsDisjoint ==
  \A i, j \in DOMAIN fiscal_years :
    i # j => ~Overlaps(fiscal_years[i], fiscal_years[j].start, fiscal_years[j].end)
=============================================================================
