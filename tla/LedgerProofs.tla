---------------------------- MODULE LedgerProofs ----------------------------
(***************************************************************************)
(* What holds of the ledger for every set of requests, dates and           *)
(* movements, and for every bound; and of bank statements: for every       *)
(* statement, any number of imports at once and wherever they stop, the    *)
(* table keeps what the statements show, as often as they show it, and     *)
(* what is read of a file is the whole of it.                              *)
(***************************************************************************)
EXTENDS Ledger, Banking, FiniteSetTheorems, WellFoundedInduction, TLAPS

-----------------------------------------------------------------------------
(* Dates and fiscal years *)

\* The calendar year of a date is a natural number and contains the date.
LEMMA CalendarYearOfDate ==
  ASSUME NEW d \in Nat
  PROVE  /\ YearOf(d) \in Nat
         /\ CalendarYear(YearOf(d)) \in FiscalYear
         /\ CalendarYear(YearOf(d)).start <= d
         /\ d <= CalendarYear(YearOf(d)).end
<1> DEFINE y == d \div YearLength
<1>1. YearLength \in Nat /\ YearLength > 0
  BY LedgerAssumption
<1>2. y \in Nat /\ y * YearLength <= d /\ d <= y * YearLength + YearLength - 1
  BY <1>1, SMTT(30)
<1>3. y * YearLength \in Nat
  BY <1>1, <1>2, SMTT(30)
<1>4. y * YearLength + YearLength - 1 \in Nat
  BY <1>1, <1>3
<1> QED
  BY <1>2, <1>3, <1>4 DEF YearOf, CalendarYear, FiscalYear

\* A row appended to the table of fiscal years leaves the others where they are.
LEMMA AppendYear ==
  ASSUME NEW table \in Seq(FiscalYear), NEW y \in FiscalYear
  PROVE  /\ Append(table, y) \in Seq(FiscalYear)
         /\ Len(Append(table, y)) = Len(table) + 1
         /\ Append(table, y)[Len(table) + 1] = y
         /\ \A i \in DOMAIN table : Append(table, y)[i] = table[i]
  OBVIOUS

\* The same of an element of any type.
LEMMA AppendKeeps ==
  ASSUME NEW S, NEW s \in Seq(S), NEW x
  PROVE  /\ DOMAIN s \subseteq DOMAIN Append(s, x)
         /\ \A i \in DOMAIN s : Append(s, x)[i] = s[i]
<1> DEFINE T == S \cup {x}
<1>1. s \in Seq(T) /\ x \in T
  OBVIOUS
<1> HIDE DEF T
<1> QED
  BY <1>1

\* What EnsureFiscalPeriod returns is an open fiscal year that covers the
\* date, in a table that keeps every row there was.
LEMMA EnsuredPeriod ==
  ASSUME fiscal_years \in Seq(FiscalYear),
         NEW d \in Dates, NEW period \in EnsureFiscalPeriod(d)
  PROVE  /\ period.table \in Seq(FiscalYear)
         /\ Len(period.table) >= Len(fiscal_years)
         /\ \A i \in DOMAIN fiscal_years : period.table[i] = fiscal_years[i]
         /\ period.fy \in DOMAIN period.table
         /\ ~period.table[period.fy].closed
         /\ period.table[period.fy].start <= d
         /\ d <= period.table[period.fy].end
<1>1. d \in Nat
  BY LedgerAssumption
<1>2. CASE Covering(d) # {}
  <2>1. PICK i \in LookupFiscalPeriod(d) :
          /\ ~fiscal_years[i].closed
          /\ period = [table |-> fiscal_years, fy |-> i]
    BY <1>2 DEF EnsureFiscalPeriod
  <2>2. i \in DOMAIN fiscal_years /\ Overlaps(fiscal_years[i], d, d)
    BY <2>1 DEF LookupFiscalPeriod, Covering
  <2> QED
    BY <1>1, <2>1, <2>2 DEF Overlaps
<1>3. CASE Covering(d) = {}
  <2>1. period = [table |-> Append(fiscal_years, CalendarYear(YearOf(d))),
                  fy |-> Len(fiscal_years) + 1]
    BY <1>3 DEF EnsureFiscalPeriod
  <2> DEFINE y == CalendarYear(YearOf(d))
  <2>2. y \in FiscalYear /\ y.start <= d /\ d <= y.end
    BY <1>1, CalendarYearOfDate
  <2>3. y.closed = FALSE
    BY DEF CalendarYear
  <2> HIDE DEF y
  <2>4. /\ period.table = Append(fiscal_years, y)
        /\ period.fy = Len(fiscal_years) + 1
    BY <2>1 DEF y
  <2> QED
    BY <2>2, <2>3, <2>4, AppendYear
<1> QED
  BY <1>2, <1>3

-----------------------------------------------------------------------------
(* Rows *)

\* A sequence of lines with one more element is again a sequence of its own
\* elements.
LEMMA AppendLines ==
  ASSUME NEW s, s \in Seq(Range(s)), NEW x
  PROVE  /\ Append(s, x) \in Seq(Range(Append(s, x)))
         /\ Len(Append(s, x)) = Len(s) + 1
         /\ Append(s, x)[Len(s) + 1] = x
         /\ \A e \in DOMAIN s : Append(s, x)[e] = s[e]
<1> DEFINE t == Append(s, x)
           S == Range(s) \cup {x}
<1>1. s \in Seq(S) /\ x \in S
  OBVIOUS
<1> HIDE DEF S
<1>2. t \in Seq(S) /\ Len(t) = Len(s) + 1 /\ t[Len(s) + 1] = x
  BY <1>1
<1>3. \A e \in DOMAIN s : t[e] = s[e]
  BY <1>1
<1>4. t \in Seq(Range(t))
  BY <1>2 DEF Range
<1> QED
  BY <1>2, <1>3, <1>4

\* A row replaced by another of the same type.
LEMMA ReplaceRow ==
  ASSUME NEW S, NEW s \in Seq(S), NEW i \in DOMAIN s, NEW x \in S
  PROVE  LET t == [s EXCEPT ![i] = x] IN
         /\ t \in Seq(S)
         /\ Len(t) = Len(s)
         /\ DOMAIN t = DOMAIN s
         /\ t[i] = x
         /\ \A j \in DOMAIN s : j # i => t[j] = s[j]
  OBVIOUS

\* An entry appended with its lines keeps the rows in order, in a table of
\* fiscal years that has at least the rows there were.
LEMMA AppendEntry ==
  ASSUME RowsOK,
         NEW table \in Seq(FiscalYear), Len(table) >= Len(fiscal_years),
         NEW entry \in JournalEntry, entry.fy <= Len(table),
         NEW lines
  PROVE  LET entries == Append(journal_entries, entry)
             movements == Append(journal_lines, lines)
         IN /\ entries \in Seq(JournalEntry)
            /\ movements \in Seq(Range(movements))
            /\ Len(entries) = Len(journal_entries) + 1
            /\ Len(movements) = Len(entries)
            /\ \A e \in DOMAIN journal_entries : entries[e] = journal_entries[e]
            /\ entries[Len(journal_entries) + 1] = entry
            /\ \A e \in DOMAIN entries : entries[e].fy <= Len(table)
<1> DEFINE entries == Append(journal_entries, entry)
<1>1. /\ journal_entries \in Seq(JournalEntry)
      /\ journal_lines \in Seq(Range(journal_lines))
      /\ Len(journal_lines) = Len(journal_entries)
      /\ \A e \in DOMAIN journal_entries : journal_entries[e].fy <= Len(fiscal_years)
  BY DEF RowsOK
<1>2. /\ entries \in Seq(JournalEntry)
      /\ Len(entries) = Len(journal_entries) + 1
      /\ \A e \in DOMAIN journal_entries : entries[e] = journal_entries[e]
      /\ entries[Len(journal_entries) + 1] = entry
  BY <1>1
<1>3. \A e \in DOMAIN entries :
        \/ e \in DOMAIN journal_entries
        \/ e = Len(journal_entries) + 1
  BY <1>1, <1>2
<1>4. \A e \in DOMAIN entries : entries[e].fy <= Len(table)
  <2> SUFFICES ASSUME NEW e \in DOMAIN entries
               PROVE  entries[e].fy <= Len(table)
    OBVIOUS
  <2>1. CASE e \in DOMAIN journal_entries
    <3> journal_entries[e] \in JournalEntry
      BY <1>1, <2>1
    <3>1. journal_entries[e].fy \in Nat
      BY DEF JournalEntry
    <3>2. entries[e].fy = journal_entries[e].fy
      BY <1>2, <2>1
    <3>3. journal_entries[e].fy <= Len(fiscal_years)
      BY <1>1, <2>1
    <3>4. Len(fiscal_years) \in Nat /\ Len(table) \in Nat
      BY DEF RowsOK
    <3> QED
      BY <3>1, <3>2, <3>3, <3>4
  <2> QED
    BY <1>2, <1>3, <2>1
<1>5. LET movements == Append(journal_lines, lines)
      IN /\ movements \in Seq(Range(movements))
         /\ Len(movements) = Len(journal_lines) + 1
  BY <1>1, AppendLines
<1> QED
  BY <1>1, <1>2, <1>4, <1>5

\* The empty base and the base with one old entry have well-formed rows.
LEMMA InitRows == Init => RowsOK
<1> SUFFICES ASSUME Init
             PROVE  RowsOK
  OBVIOUS
<1>1. /\ fiscal_years = <<>>
      /\ req = [p \in Requests |-> Idle]
      /\ up = FALSE
  BY DEF Init
<1>2. fiscal_years \in Seq(FiscalYear) /\ Len(fiscal_years) = 0
  BY <1>1
<1>6. up \in BOOLEAN
  BY <1>1
<1>3. DOMAIN req = Requests /\ \A p \in Requests : RequestOK(req[p])
  BY <1>1 DEF RequestOK
<1>4. CASE journal_entries = <<>> /\ journal_lines = <<>> /\ audit_logs = <<>>
  <2>1. /\ journal_entries \in Seq(JournalEntry) /\ Len(journal_entries) = 0
        /\ journal_lines \in Seq(Range(journal_lines)) /\ Len(journal_lines) = 0
        /\ audit_logs \in Seq(AuditLink)
        /\ DOMAIN journal_entries = {}
    BY <1>4
  <2> QED
    BY <1>2, <1>3, <1>6, <2>1 DEF RowsOK
<1>5. ASSUME NEW d \in Dates, NEW m \in Movements,
             journal_entries =
               <<[ref |-> [series |-> "JN", year |-> YearOf(d), no |-> 1],
                  date |-> d, status |-> "posted", fy |-> 0]>>,
             journal_lines = <<m>>,
             audit_logs = <<Link(1, "post")>>
      PROVE  RowsOK
  <2>1. YearOf(d) \in Nat /\ d \in Nat
    BY CalendarYearOfDate, LedgerAssumption
  <2>2. /\ journal_entries \in Seq(JournalEntry)
        /\ Len(journal_entries) = 1
        /\ journal_entries[1].fy = 0
    BY <1>5, <2>1 DEF JournalEntry, Reference
  <2>3. journal_lines \in Seq(Range(journal_lines)) /\ Len(journal_lines) = 1
    BY <1>5 DEF Range
  <2>4. audit_logs \in Seq(AuditLink)
    BY <1>5 DEF AuditLink, Link
  <2>5. DOMAIN journal_entries = {1}
    BY <1>5
  <2> QED
    BY <1>2, <1>3, <1>6, <2>2, <2>3, <2>4, <2>5 DEF RowsOK
<1> QED
  BY <1>4, <1>5 DEF Init

\* What a request has read stays meaningful while rows are only added.
LEMMA RequestsKept ==
  ASSUME RowsOK,
         NEW p \in Requests, NEW r,
         \/ UNCHANGED req
         \/ req' = [q \in Requests |-> Idle]
         \/ req' = [req EXCEPT ![p] = r] /\ RequestOK(r)',
         DOMAIN journal_entries \subseteq DOMAIN journal_entries',
         DOMAIN fiscal_years \subseteq DOMAIN fiscal_years'
  PROVE  DOMAIN req' = Requests /\ \A q \in Requests : RequestOK(req[q])'
<1>1. DOMAIN req = Requests /\ \A q \in Requests : RequestOK(req[q])
  BY DEF RowsOK
<1>2. \A q \in Requests : RequestOK(req[q]) /\ req'[q] = req[q] => RequestOK(req[q])'
  BY DEF RequestOK
<1>3. RequestOK(Idle)'
  BY DEF RequestOK
<1>4. DOMAIN req' = Requests /\ \A q \in Requests :
        req'[q] = req[q] \/ req'[q] = Idle \/ (req'[q] = r /\ RequestOK(r)')
  BY <1>1
<1> QED
  BY <1>1, <1>2, <1>3, <1>4 DEF RequestOK

\* The same of a step that serves no request, or ends them all.
LEMMA RequestsStill ==
  ASSUME RowsOK,
         UNCHANGED req \/ req' = [q \in Requests |-> Idle],
         DOMAIN journal_entries \subseteq DOMAIN journal_entries',
         DOMAIN fiscal_years \subseteq DOMAIN fiscal_years'
  PROVE  DOMAIN req' = Requests /\ \A q \in Requests : RequestOK(req[q])'
<1>1. DOMAIN req = Requests
  BY DEF RowsOK
<1>2. DOMAIN req' = Requests
  BY <1>1
<1>3. \A q \in Requests : RequestOK(req[q])'
  BY RequestsKept
<1> QED
  BY <1>2, <1>3

\* A request that refers to rows that exist may go on.
LEMMA PostingRows ==
  ASSUME RowsOK, NEW p \in Requests, Posting(p)
  PROVE  RowsOK'
<1>1. CASE \E e \in DOMAIN journal_entries : PostLoad(p, e)
  <2>1. PICK e \in DOMAIN journal_entries : PostLoad(p, e)
    BY <1>1
  <2>2. /\ UNCHANGED <<fiscal_years, journal_entries, journal_lines, audit_logs, up>>
        /\ req' = [req EXCEPT ![p] = [pc |-> "post_loaded", entry |-> e]]
    BY <2>1 DEF PostLoad
  <2>3. RequestOK([pc |-> "post_loaded", entry |-> e])'
    BY <2>2 DEF RequestOK
  <2>4. DOMAIN req' = Requests /\ \A q \in Requests : RequestOK(req[q])'
    BY <2>2, <2>3, RequestsKept
  <2> QED
    BY <2>2, <2>4 DEF RowsOK
<1>2. CASE PostCheck(p)
  <2>1. PICK e : e = req[p].entry
    OBVIOUS
  <2>2. req[p].pc = "post_loaded" /\ RequestOK(req[p])
    BY <1>2 DEF PostCheck, RowsOK
  <2>3. e \in DOMAIN journal_entries
    BY <2>1, <2>2 DEF RequestOK, Idle
  <2>4. /\ UNCHANGED <<fiscal_years, journal_entries, journal_lines, audit_logs, up>>
        /\ \/ req' = [req EXCEPT ![p] = [pc |-> "post_checked", entry |-> e]]
           \/ req' = [req EXCEPT ![p] = Idle]
    BY <1>2, <2>1 DEF PostCheck
  <2>5. RequestOK([pc |-> "post_checked", entry |-> e])' /\ RequestOK(Idle)'
    BY <2>3, <2>4 DEF RequestOK
  <2>6. DOMAIN req' = Requests /\ \A q \in Requests : RequestOK(req[q])'
    BY <2>4, <2>5, RequestsKept
  <2> QED
    BY <2>4, <2>6 DEF RowsOK
<1>3. CASE PostCommit(p)
  <2>1. PICK e : e = req[p].entry
    OBVIOUS
  <2>2. req[p].pc = "post_checked" /\ RequestOK(req[p])
    BY <1>3 DEF PostCommit, RowsOK
  <2>3. e \in DOMAIN journal_entries
    BY <2>1, <2>2 DEF RequestOK, Idle
  <2>4. /\ UNCHANGED <<fiscal_years, journal_lines, up>>
        /\ req' = [req EXCEPT ![p] = Idle]
    BY <1>3 DEF PostCommit
  <2>5. \/ UNCHANGED <<journal_entries, audit_logs>>
        \/ /\ audit_logs' = Append(audit_logs, Link(e, "post"))
           /\ journal_entries' = [journal_entries EXCEPT ![e].status = "posted"]
    BY <1>3, <2>1 DEF PostCommit
  <2>6. /\ journal_entries' \in Seq(JournalEntry)
        /\ DOMAIN journal_entries' = DOMAIN journal_entries
        /\ Len(journal_entries') = Len(journal_entries)
        /\ \A f \in DOMAIN journal_entries : journal_entries'[f].fy = journal_entries[f].fy
    <3>1. journal_entries \in Seq(JournalEntry) /\ journal_entries[e] \in JournalEntry
      BY <2>3 DEF RowsOK
    <3> DEFINE x == [journal_entries[e] EXCEPT !.status = "posted"]
    <3>2. x \in JournalEntry
      BY <3>1 DEF JournalEntry
    <3>3. x.fy = journal_entries[e].fy
      BY <3>1 DEF JournalEntry
    <3>4. journal_entries' = journal_entries \/ journal_entries' = [journal_entries EXCEPT ![e] = x]
      BY <2>5
    <3> HIDE DEF x
    <3> QED
      BY <2>3, <3>1, <3>2, <3>3, <3>4, ReplaceRow
  <2>7. audit_logs' \in Seq(AuditLink)
    <3>1. e \in Nat
      BY <2>3 DEF RowsOK
    <3>2. Link(e, "post") \in AuditLink /\ audit_logs \in Seq(AuditLink)
      BY <3>1 DEF Link, AuditLink, RowsOK
    <3> QED
      BY <2>5, <3>2
  <2>8. DOMAIN req' = Requests /\ \A q \in Requests : RequestOK(req[q])'
    <3>1. RequestOK(Idle)'
      BY DEF RequestOK
    <3> QED
      BY <2>4, <2>6, <3>1, RequestsKept
  <2> QED
    BY <2>4, <2>6, <2>7, <2>8 DEF RowsOK
<1> QED
  BY <1>1, <1>2, <1>3 DEF Posting

\* Closing a year changes its flag and may add the year that follows.
LEMMA ClosedTable ==
  ASSUME RowsOK, NEW y \in DOMAIN fiscal_years
  PROVE  /\ CloseTables(y) \in Seq(FiscalYear)
         /\ Len(CloseTables(y)) >= Len(fiscal_years)
         /\ CloseTables(y)[y] = [fiscal_years[y] EXCEPT !.closed = TRUE]
         /\ \A i \in DOMAIN fiscal_years : i # y => CloseTables(y)[i] = fiscal_years[i]
<1> DEFINE row == [fiscal_years[y] EXCEPT !.closed = TRUE]
           closed == [fiscal_years EXCEPT ![y] = row]
           next == FollowingYear(y)
<1>1. fiscal_years \in Seq(FiscalYear) /\ fiscal_years[y] \in FiscalYear
  BY DEF RowsOK
<1>2. row \in FiscalYear
  BY <1>1 DEF FiscalYear
<1>3. next \in FiscalYear
  <2>1. fiscal_years[y].end \in Nat
    BY <1>1 DEF FiscalYear
  <2>2. YearOf(fiscal_years[y].end) \in Nat
    BY <2>1, CalendarYearOfDate
  <2>3. YearLength \in Nat /\ YearLength > 0
    BY LedgerAssumption
  <2> QED
    BY <2>1, <2>2, <2>3 DEF FollowingYear, FiscalYear
<1>4. CloseTables(y) = closed \/ CloseTables(y) = Append(closed, next)
  BY DEF CloseTables
<1> HIDE DEF row, next
<1>5. /\ closed \in Seq(FiscalYear)
      /\ Len(closed) = Len(fiscal_years)
      /\ DOMAIN closed = DOMAIN fiscal_years
      /\ closed[y] = row
      /\ \A i \in DOMAIN fiscal_years : i # y => closed[i] = fiscal_years[i]
  BY <1>1, <1>2, ReplaceRow
<1> HIDE DEF closed
<1>6. /\ Append(closed, next) \in Seq(FiscalYear)
      /\ Len(Append(closed, next)) = Len(closed) + 1
      /\ \A i \in DOMAIN closed : Append(closed, next)[i] = closed[i]
  BY <1>3, <1>5, AppendYear
<1>7. /\ CloseTables(y) \in Seq(FiscalYear)
      /\ Len(CloseTables(y)) >= Len(fiscal_years)
      /\ \A i \in DOMAIN fiscal_years : CloseTables(y)[i] = closed[i]
  <2>1. CASE CloseTables(y) = closed
    <3>1. Len(closed) >= Len(fiscal_years)
      BY <1>1, <1>5
    <3> QED
      BY <1>5, <2>1, <3>1
  <2>2. CASE CloseTables(y) = Append(closed, next)
    <3>1. Len(Append(closed, next)) >= Len(fiscal_years)
      BY <1>1, <1>5, <1>6
    <3>2. \A i \in DOMAIN fiscal_years : Append(closed, next)[i] = closed[i]
      BY <1>5, <1>6
    <3> QED
      BY <1>6, <2>2, <3>1, <3>2
  <2> QED
    BY <1>4, <2>1, <2>2
<1>8. CloseTables(y)[y] = row
  BY <1>5, <1>7
<1> QED
  BY <1>5, <1>7, <1>8 DEF row

\* The row a closing writes in the journal.
ClosingEntry(y) ==
  [ref |-> ClosingReference(y), date |-> fiscal_years[y].end,
   status |-> "posted", fy |-> y]

LEMMA ClosingEntryType ==
  ASSUME RowsOK, NEW y \in DOMAIN fiscal_years
  PROVE  ClosingEntry(y) \in JournalEntry
<1>1. fiscal_years[y] \in FiscalYear /\ y \in Nat
  BY DEF RowsOK
<1>2. fiscal_years[y].end \in Nat
  BY <1>1 DEF FiscalYear
<1>3. YearOf(fiscal_years[y].end) \in Nat
  BY <1>2, CalendarYearOfDate
<1> QED
  BY <1>1, <1>2, <1>3 DEF ClosingEntry, ClosingReference, JournalEntry, Reference

\* What CloseCommit does: nothing, or the closed flag alone, or the flag and
\* the closing entry, whose reference was free.
LEMMA CloseEffect ==
  ASSUME RowsOK, NEW p \in Requests, CloseCommit(p)
  PROVE  /\ req' = [req EXCEPT ![p] = Idle]
         /\ up' = up
         /\ \/ UNCHANGED <<fiscal_years, journal_entries, journal_lines, audit_logs>>
            \/ \E y \in DOMAIN fiscal_years :
                 /\ fiscal_years' = CloseTables(y)
                 /\ \/ UNCHANGED <<journal_entries, journal_lines, audit_logs>>
                    \/ /\ ~ReferenceTaken(ClosingReference(y))
                       /\ journal_entries' = Append(journal_entries, ClosingEntry(y))
                       /\ \E lines : journal_lines' = Append(journal_lines, lines)
                       /\ audit_logs' =
                            Append(audit_logs, Link(Len(journal_entries) + 1, "close"))
<1>1. req[p].pc = "close_ready" /\ RequestOK(req[p])
  BY DEF CloseCommit, RowsOK
<1>2. req[p].year \in DOMAIN fiscal_years
  BY <1>1 DEF RequestOK, Idle
<1>3. PICK y \in DOMAIN fiscal_years : y = req[p].year
  BY <1>2
<1> QED
  BY <1>3 DEF CloseCommit, ClosingEntry

LEMMA ClosingRows ==
  ASSUME RowsOK, NEW p \in Requests, Closing(p)
  PROVE  RowsOK'
<1>1. CASE \E y \in DOMAIN fiscal_years : CloseLoad(p, y)
  <2>1. PICK y \in DOMAIN fiscal_years : CloseLoad(p, y)
    BY <1>1
  <2>2. /\ UNCHANGED <<fiscal_years, journal_entries, journal_lines, audit_logs, up>>
        /\ req' = [req EXCEPT ![p] = [pc |-> "close_loaded", year |-> y]]
    BY <2>1 DEF CloseLoad
  <2>3. RequestOK([pc |-> "close_loaded", year |-> y])'
    BY <2>2 DEF RequestOK
  <2>4. DOMAIN req' = Requests /\ \A q \in Requests : RequestOK(req[q])'
    BY <2>2, <2>3, RequestsKept
  <2> QED
    BY <2>2, <2>4 DEF RowsOK
<1>2. CASE CloseDrafts(p)
  <2>1. PICK y : y = req[p].year
    OBVIOUS
  <2>2. req[p].pc = "close_loaded" /\ RequestOK(req[p])
    BY <1>2 DEF CloseDrafts, RowsOK
  <2>3. y \in DOMAIN fiscal_years
    BY <2>1, <2>2 DEF RequestOK, Idle
  <2>4. /\ UNCHANGED <<fiscal_years, journal_entries, journal_lines, audit_logs, up>>
        /\ \/ req' = [req EXCEPT ![p] = [pc |-> "close_no_draft", year |-> y]]
           \/ req' = [req EXCEPT ![p] = Idle]
    BY <1>2, <2>1 DEF CloseDrafts
  <2>5. RequestOK([pc |-> "close_no_draft", year |-> y])' /\ RequestOK(Idle)'
    BY <2>3, <2>4 DEF RequestOK
  <2>6. DOMAIN req' = Requests /\ \A q \in Requests : RequestOK(req[q])'
    BY <2>4, <2>5, RequestsKept
  <2> QED
    BY <2>4, <2>6 DEF RowsOK
<1>3. CASE CloseBalances(p)
  <2>1. PICK y, balances : /\ y = req[p].year
                           /\ balances = [a \in Accounts |-> NetDebit(y, a)]
    OBVIOUS
  <2>2. req[p].pc = "close_no_draft" /\ RequestOK(req[p])
    BY <1>3 DEF CloseBalances, RowsOK
  <2>3. y \in DOMAIN fiscal_years
    BY <2>1, <2>2 DEF RequestOK, Idle
  <2>4. /\ UNCHANGED <<fiscal_years, journal_entries, journal_lines, audit_logs, up>>
        /\ req' = [req EXCEPT ![p] =
             [pc |-> "close_ready", year |-> y, net |-> balances]]
    BY <1>3, <2>1 DEF CloseBalances
  <2>5. RequestOK([pc |-> "close_ready", year |-> y, net |-> balances])'
    BY <2>3, <2>4 DEF RequestOK
  <2>6. DOMAIN req' = Requests /\ \A q \in Requests : RequestOK(req[q])'
    BY <2>4, <2>5, RequestsKept
  <2> QED
    BY <2>4, <2>6 DEF RowsOK
<1>4. CASE CloseCommit(p)
  <2>1. req' = [req EXCEPT ![p] = Idle] /\ up' = up
    BY <1>4, CloseEffect
  <2>2. RequestOK(Idle)'
    BY DEF RequestOK
  <2>3. CASE UNCHANGED <<fiscal_years, journal_entries, journal_lines, audit_logs>>
    <3>1. DOMAIN req' = Requests /\ \A q \in Requests : RequestOK(req[q])'
      BY <2>1, <2>2, <2>3, RequestsKept
    <3> QED
      BY <2>1, <2>3, <3>1 DEF RowsOK
  <2>4. ASSUME NEW y \in DOMAIN fiscal_years,
               fiscal_years' = CloseTables(y),
               UNCHANGED <<journal_entries, journal_lines, audit_logs>>
        PROVE  RowsOK'
    <3>1. /\ fiscal_years' \in Seq(FiscalYear)
          /\ Len(fiscal_years') >= Len(fiscal_years)
      BY <2>4, ClosedTable
    <3>2. DOMAIN fiscal_years \subseteq DOMAIN fiscal_years'
      BY <3>1 DEF RowsOK
    <3>3. DOMAIN req' = Requests /\ \A q \in Requests : RequestOK(req[q])'
      BY <2>1, <2>2, <2>4, <3>2, RequestsKept
    <3>4. \A e \in DOMAIN journal_entries : journal_entries[e].fy <= Len(fiscal_years')
      <4> SUFFICES ASSUME NEW e \in DOMAIN journal_entries
                   PROVE  journal_entries[e].fy <= Len(fiscal_years')
        OBVIOUS
      <4> journal_entries[e] \in JournalEntry
        BY DEF RowsOK
      <4> QED
        BY <3>1 DEF RowsOK, JournalEntry
    <3> QED
      BY <2>1, <2>4, <3>1, <3>3, <3>4 DEF RowsOK
  <2>5. ASSUME NEW y \in DOMAIN fiscal_years, NEW lines,
               fiscal_years' = CloseTables(y),
               journal_entries' = Append(journal_entries, ClosingEntry(y)),
               journal_lines' = Append(journal_lines, lines),
               audit_logs' = Append(audit_logs, Link(Len(journal_entries) + 1, "close"))
        PROVE  RowsOK'
    <3>1. /\ fiscal_years' \in Seq(FiscalYear)
          /\ Len(fiscal_years') >= Len(fiscal_years)
      BY <2>5, ClosedTable
    <3>2. DOMAIN fiscal_years \subseteq DOMAIN fiscal_years'
      BY <3>1 DEF RowsOK
    <3>3. ClosingEntry(y) \in JournalEntry /\ ClosingEntry(y).fy <= Len(fiscal_years')
      BY <3>1, ClosingEntryType DEF ClosingEntry, RowsOK
    <3>4. /\ journal_entries' \in Seq(JournalEntry)
          /\ journal_lines' \in Seq(Range(journal_lines'))
          /\ Len(journal_entries') = Len(journal_entries) + 1
          /\ Len(journal_lines') = Len(journal_entries')
          /\ \A e \in DOMAIN journal_entries' : journal_entries'[e].fy <= Len(fiscal_years')
      BY <2>5, <3>1, <3>3, AppendEntry
    <3>5. audit_logs' \in Seq(AuditLink)
      <4>1. Len(journal_entries) + 1 \in Nat /\ audit_logs \in Seq(AuditLink)
        BY DEF RowsOK
      <4>2. Link(Len(journal_entries) + 1, "close") \in AuditLink
        BY <4>1 DEF Link, AuditLink
      <4> QED
        BY <2>5, <4>1, <4>2
    <3>6. DOMAIN journal_entries \subseteq DOMAIN journal_entries'
      BY <3>4 DEF RowsOK
    <3>7. DOMAIN req' = Requests /\ \A q \in Requests : RequestOK(req[q])'
      BY <2>1, <2>2, <3>2, <3>6, RequestsKept
    <3> QED
      BY <2>1, <3>1, <3>4, <3>5, <3>7 DEF RowsOK, Range
  <2> QED
    BY <1>4, <2>3, <2>4, <2>5, CloseEffect
<1> QED
  BY <1>1, <1>2, <1>3, <1>4 DEF Closing

\* Entries keep a fiscal year that exists when the table of years grows.
LEMMA YearsGrow ==
  ASSUME RowsOK, NEW table \in Seq(FiscalYear), Len(table) >= Len(fiscal_years)
  PROVE  /\ DOMAIN fiscal_years \subseteq DOMAIN table
         /\ \A e \in DOMAIN journal_entries : journal_entries[e].fy <= Len(table)
<1>1. DOMAIN fiscal_years \subseteq DOMAIN table
  BY DEF RowsOK
<1> SUFFICES ASSUME NEW e \in DOMAIN journal_entries
             PROVE  journal_entries[e].fy <= Len(table)
  BY <1>1
<1> journal_entries[e] \in JournalEntry
  BY DEF RowsOK
<1> QED
  BY DEF RowsOK, JournalEntry

LEMMA DeclaringRows ==
  ASSUME RowsOK, NEW p \in Requests, Declaring(p)
  PROVE  RowsOK'
<1>1. CASE \E name \in Labels, start, end \in Dates : DeclareYearCheck(p, name, start, end)
  <2>1. PICK name \in Labels, start \in Dates, end \in Dates :
          DeclareYearCheck(p, name, start, end)
    BY <1>1
  <2> DEFINE row == [name |-> name, start |-> start, end |-> end, closed |-> FALSE]
  <2>2. /\ UNCHANGED <<fiscal_years, journal_entries, journal_lines, audit_logs, up>>
        /\ req' = [req EXCEPT ![p] = [pc |-> "declare", table |-> row]]
    BY <2>1 DEF DeclareYearCheck
  <2>3. row \in FiscalYear
    <3>1. name \in Nat /\ start \in Nat /\ end \in Nat
      BY LedgerAssumption
    <3>2. start <= end
      BY <2>1, <3>1 DEF DeclareYearCheck
    <3> QED
      BY <3>1, <3>2 DEF FiscalYear
  <2> HIDE DEF row
  <2>4. RequestOK([pc |-> "declare", table |-> row])'
    BY <2>3 DEF RequestOK
  <2>5. DOMAIN req' = Requests /\ \A q \in Requests : RequestOK(req[q])'
    BY <2>2, <2>4, RequestsKept
  <2> QED
    BY <2>2, <2>5 DEF RowsOK
<1>2. CASE DeclareYearInsert(p)
  <2>1. req[p].pc = "declare" /\ RequestOK(req[p])
    BY <1>2 DEF DeclareYearInsert, RowsOK
  <2>2. req[p].table \in FiscalYear
    BY <2>1 DEF RequestOK, Idle
  <2>3. /\ UNCHANGED <<journal_entries, journal_lines, audit_logs, up>>
        /\ req' = [req EXCEPT ![p] = Idle]
        /\ fiscal_years' = fiscal_years \/ fiscal_years' = Append(fiscal_years, req[p].table)
    BY <1>2 DEF DeclareYearInsert
  <2>4. fiscal_years' \in Seq(FiscalYear) /\ Len(fiscal_years') >= Len(fiscal_years)
    <3>1. fiscal_years \in Seq(FiscalYear)
      BY DEF RowsOK
    <3>2. PICK row \in FiscalYear : row = req[p].table
      BY <2>2
    <3>3. /\ Append(fiscal_years, row) \in Seq(FiscalYear)
          /\ Len(Append(fiscal_years, row)) = Len(fiscal_years) + 1
      BY <3>1, AppendYear
    <3> QED
      BY <2>3, <3>1, <3>2, <3>3
  <2>5. RequestOK(Idle)'
    BY DEF RequestOK
  <2>6. /\ DOMAIN fiscal_years \subseteq DOMAIN fiscal_years'
        /\ \A e \in DOMAIN journal_entries : journal_entries[e].fy <= Len(fiscal_years')
    BY <2>4, YearsGrow
  <2>7. DOMAIN req' = Requests /\ \A q \in Requests : RequestOK(req[q])'
    BY <2>3, <2>5, <2>6, RequestsKept
  <2> QED
    BY <2>3, <2>4, <2>6, <2>7 DEF RowsOK
<1> QED
  BY <1>1, <1>2 DEF Declaring

\* What CreateEntry does: a draft of a free number, in an open year that
\* covers its date.
LEMMA CreateEffect ==
  ASSUME RowsOK, NEW d \in Dates, NEW m \in Movements, CreateEntry(d, m)
  PROVE  /\ UNCHANGED <<audit_logs, req, up>>
         /\ journal_lines' = Append(journal_lines, m)
         /\ \E period \in EnsureFiscalPeriod(d) :
              /\ fiscal_years' = period.table
              /\ journal_entries' = Append(journal_entries,
                   [ref |-> NextReference(d), date |-> d,
                    status |-> "draft", fy |-> period.fy])
  BY DEF CreateEntry

-----------------------------------------------------------------------------
(* Numbering *)

\* The numbers given in a calendar year are 1 to n.
NumbersOK == \A y \in Nat : \E n \in Nat : Numbers(y) = 1 .. n

\* The next reference of a year numbered 1 to n bears n + 1.
LEMMA NextNumber ==
  ASSUME NumbersOK, NEW d \in Nat
  PROVE  \E n \in Nat : /\ Numbers(YearOf(d)) = 1 .. n
                        /\ NextReference(d) = [series |-> "JN", year |-> YearOf(d), no |-> n + 1]
<1>1. YearOf(d) \in Nat
  BY CalendarYearOfDate
<1>2. PICK n \in Nat : Numbers(YearOf(d)) = 1 .. n
  BY <1>1 DEF NumbersOK
<1>3. {0} \cup Numbers(YearOf(d)) = 0 .. n
  BY <1>2
<1>4. Max(0 .. n) = n
  <2>1. n \in 0 .. n /\ \A k \in 0 .. n : n >= k
    OBVIOUS
  <2>2. \A x \in 0 .. n : (\A k \in 0 .. n : x >= k) => x = n
    OBVIOUS
  <2> QED
    BY <2>1, <2>2 DEF Max
<1>5. NextReference(d) = [series |-> "JN", year |-> YearOf(d), no |-> 1 + n]
  BY <1>3, <1>4 DEF NextReference
<1> QED
  BY <1>2, <1>5

LEMMA CreateRows ==
  ASSUME RowsOK, NumbersOK, NEW d \in Dates, NEW m \in Movements, CreateEntry(d, m)
  PROVE  RowsOK'
<1>1. PICK period \in EnsureFiscalPeriod(d) :
        /\ fiscal_years' = period.table
        /\ journal_entries' = Append(journal_entries,
             [ref |-> NextReference(d), date |-> d, status |-> "draft", fy |-> period.fy])
  BY CreateEffect
<1> DEFINE entry == [ref |-> NextReference(d), date |-> d,
                     status |-> "draft", fy |-> period.fy]
<1>2. /\ fiscal_years' \in Seq(FiscalYear)
      /\ Len(fiscal_years') >= Len(fiscal_years)
      /\ period.fy \in 1 .. Len(fiscal_years')
  BY <1>1, EnsuredPeriod DEF RowsOK
<1>3. d \in Nat /\ YearOf(d) \in Nat /\ NextReference(d) \in Reference
  <2>1. d \in Nat
    BY LedgerAssumption
  <2>2. YearOf(d) \in Nat
    BY <2>1, CalendarYearOfDate
  <2>3. PICK n \in Nat : NextReference(d) = [series |-> "JN", year |-> YearOf(d), no |-> n + 1]
    BY <2>1, NextNumber
  <2> QED
    BY <2>1, <2>2, <2>3 DEF Reference
<1>4. entry \in JournalEntry /\ entry.fy <= Len(fiscal_years')
  BY <1>2, <1>3 DEF JournalEntry
<1> HIDE DEF entry
<1>5. journal_entries' = Append(journal_entries, entry)
  BY <1>1 DEF entry
<1>6. UNCHANGED <<audit_logs, req, up>> /\ journal_lines' = Append(journal_lines, m)
  BY CreateEffect
<1>7. /\ journal_entries' \in Seq(JournalEntry)
      /\ journal_lines' \in Seq(Range(journal_lines'))
      /\ Len(journal_entries') = Len(journal_entries) + 1
      /\ Len(journal_lines') = Len(journal_entries')
      /\ \A e \in DOMAIN journal_entries' : journal_entries'[e].fy <= Len(fiscal_years')
  BY <1>2, <1>4, <1>5, <1>6, AppendEntry
<1>8. /\ DOMAIN fiscal_years \subseteq DOMAIN fiscal_years'
      /\ DOMAIN journal_entries \subseteq DOMAIN journal_entries'
  BY <1>2, <1>7 DEF RowsOK
<1>9. DOMAIN req' = Requests /\ \A q \in Requests : RequestOK(req[q])'
  BY <1>6, <1>8, RequestsStill
<1> QED
  BY <1>2, <1>6, <1>7, <1>9 DEF RowsOK, Range

LEMMA CrashRows ==
  ASSUME RowsOK, Crash
  PROVE  RowsOK'
<1>1. /\ UNCHANGED <<fiscal_years, journal_entries, journal_lines, audit_logs>>
      /\ req' = [p \in Requests |-> Idle]
  BY DEF Crash
<1>2. up' \in BOOLEAN
  BY DEF Crash
<1>3. DOMAIN req' = Requests /\ \A q \in Requests : RequestOK(req[q])'
  BY <1>1, RequestsStill
<1> QED
  BY <1>1, <1>2, <1>3 DEF RowsOK

LEMMA AbandonRows ==
  ASSUME RowsOK, NEW p \in Requests, Abandon(p)
  PROVE  RowsOK'
<1>1. /\ UNCHANGED <<fiscal_years, journal_entries, journal_lines, audit_logs, up>>
      /\ req' = [req EXCEPT ![p] = Idle]
  BY DEF Abandon
<1>2. DOMAIN req' = Requests /\ \A q \in Requests : RequestOK(req[q])'
  BY <1>1 DEF RowsOK, RequestOK
<1> QED
  BY <1>1, <1>2 DEF RowsOK

\* What attachOrphans does: an entry keeps everything but a fiscal year it did
\* not have, and the year it gets covers its date.
LEMMA AttachEffect ==
  ASSUME RowsOK, BackfillAttach
  PROVE  /\ UNCHANGED <<fiscal_years, journal_lines, audit_logs, req>>
         /\ up' = TRUE
         /\ DOMAIN journal_entries' = DOMAIN journal_entries
         /\ journal_entries' \in Seq(JournalEntry)
         /\ \A e \in DOMAIN journal_entries :
              \/ journal_entries'[e] = journal_entries[e]
              \/ /\ journal_entries[e].fy = 0
                 /\ journal_entries'[e].fy \in Covering(journal_entries[e].date)
                 /\ journal_entries'[e] =
                      [journal_entries[e] EXCEPT !.fy = journal_entries'[e].fy]
<1>1. PICK choice \in [Orphans -> 0 .. Len(fiscal_years)] :
        /\ \A e \in Orphans :
             IF Covering(journal_entries[e].date) = {}
             THEN choice[e] = 0
             ELSE choice[e] \in LookupFiscalPeriod(journal_entries[e].date)
        /\ journal_entries' =
             [e \in DOMAIN journal_entries |->
                IF e \in Orphans THEN [journal_entries[e] EXCEPT !.fy = choice[e]]
                                 ELSE journal_entries[e]]
  BY DEF BackfillAttach
<1>2. /\ journal_entries \in Seq(JournalEntry)
      /\ fiscal_years \in Seq(FiscalYear)
  BY DEF RowsOK
<1>3. DOMAIN journal_entries' = DOMAIN journal_entries
  BY <1>1
<1>4. ASSUME NEW e \in DOMAIN journal_entries
      PROVE  /\ journal_entries'[e] \in JournalEntry
             /\ \/ journal_entries'[e] = journal_entries[e]
                \/ /\ journal_entries[e].fy = 0
                   /\ journal_entries'[e].fy \in Covering(journal_entries[e].date)
                   /\ journal_entries'[e] =
                        [journal_entries[e] EXCEPT !.fy = journal_entries'[e].fy]
  <2>1. journal_entries[e] \in JournalEntry
    BY <1>2
  <2>2. CASE e \notin Orphans
    BY <1>1, <2>1, <2>2
  <2>3. CASE e \in Orphans
    <3>1. choice[e] \in Nat /\ journal_entries[e].fy = 0
      BY <1>2, <2>3 DEF Orphans, EntriesOf
    <3>2. journal_entries'[e] = [journal_entries[e] EXCEPT !.fy = choice[e]]
      BY <1>1, <2>3
    <3>3. journal_entries'[e] \in JournalEntry /\ journal_entries'[e].fy = choice[e]
      BY <2>1, <3>1, <3>2 DEF JournalEntry
    <3>4. CASE Covering(journal_entries[e].date) = {}
      <4>1. choice[e] = 0
        BY <1>1, <2>3, <3>4
      <4>2. journal_entries'[e] = journal_entries[e]
        BY <2>1, <3>1, <3>2, <4>1 DEF JournalEntry
      <4> QED
        BY <3>3, <4>2
    <3>5. CASE Covering(journal_entries[e].date) # {}
      <4>1. choice[e] \in Covering(journal_entries[e].date)
        BY <1>1, <2>3, <3>5 DEF LookupFiscalPeriod
      <4> QED
        BY <3>1, <3>2, <3>3, <4>1
    <3> QED
      BY <3>4, <3>5
  <2> QED
    BY <2>2, <2>3
<1>5. journal_entries' \in Seq(JournalEntry)
  <2>1. PICK n \in Nat : DOMAIN journal_entries = 1 .. n
    BY <1>2
  <2>2. journal_entries' \in [1 .. n -> JournalEntry]
    BY <1>1, <1>3, <1>4, <2>1
  <2> QED
    BY <2>2
<1> QED
  BY <1>3, <1>4, <1>5 DEF BackfillAttach

LEMMA StartingRows ==
  ASSUME RowsOK, Starting
  PROVE  RowsOK'
<1>1. CASE \E d \in Dates : BackfillYear(YearOf(d))
  <2>1. PICK d \in Dates : BackfillYear(YearOf(d))
    BY <1>1
  <2> DEFINE y == YearOf(d)
  <2>4. CalendarYear(y) \in FiscalYear
    BY LedgerAssumption, CalendarYearOfDate
  <2>5. /\ UNCHANGED <<journal_entries, journal_lines, audit_logs, req, up>>
        /\ fiscal_years' = Append(fiscal_years, CalendarYear(y))
    BY <2>1 DEF BackfillYear
  <2> HIDE DEF y
  <2>6. fiscal_years' \in Seq(FiscalYear) /\ Len(fiscal_years') >= Len(fiscal_years)
    <3>1. fiscal_years \in Seq(FiscalYear)
      BY DEF RowsOK
    <3>2. /\ Append(fiscal_years, CalendarYear(y)) \in Seq(FiscalYear)
          /\ Len(Append(fiscal_years, CalendarYear(y))) = Len(fiscal_years) + 1
      BY <2>4, <3>1, AppendYear
    <3> QED
      BY <2>5, <3>1, <3>2
  <2>7. /\ DOMAIN fiscal_years \subseteq DOMAIN fiscal_years'
        /\ \A f \in DOMAIN journal_entries : journal_entries[f].fy <= Len(fiscal_years')
    BY <2>6, YearsGrow
  <2>8. DOMAIN req' = Requests /\ \A q \in Requests : RequestOK(req[q])'
    BY <2>5, <2>7, RequestsStill
  <2> QED
    BY <2>5, <2>6, <2>7, <2>8 DEF RowsOK
<1>2. CASE BackfillAttach
  <2>1. /\ UNCHANGED <<fiscal_years, journal_lines, audit_logs, req>>
        /\ DOMAIN journal_entries' = DOMAIN journal_entries
        /\ journal_entries' \in Seq(JournalEntry)
    BY <1>2, AttachEffect
  <2>2. up' \in BOOLEAN
    BY <1>2 DEF BackfillAttach
  <2>3. Len(journal_entries') = Len(journal_entries)
    BY <2>1 DEF RowsOK
  <2>4. \A e \in DOMAIN journal_entries' : journal_entries'[e].fy <= Len(fiscal_years')
    <3> SUFFICES ASSUME NEW e \in DOMAIN journal_entries
                 PROVE  journal_entries'[e].fy <= Len(fiscal_years)
      BY <2>1
    <3>1. CASE journal_entries'[e] = journal_entries[e]
      BY <3>1 DEF RowsOK
    <3>2. CASE journal_entries'[e].fy \in Covering(journal_entries[e].date)
      BY <3>2 DEF Covering, RowsOK
    <3> QED
      BY <1>2, <3>1, <3>2, AttachEffect
  <2>5. DOMAIN req' = Requests /\ \A q \in Requests : RequestOK(req[q])'
    BY <2>1, RequestsStill
  <2> QED
    BY <2>1, <2>2, <2>3, <2>4, <2>5 DEF RowsOK
<1> QED
  BY <1>1, <1>2 DEF Starting

LEMMA NextRows ==
  ASSUME RowsOK, NumbersOK, [Next]_vars
  PROVE  RowsOK'
<1>1. CASE UNCHANGED vars
  BY <1>1 DEF vars, RowsOK, RequestOK
<1> QED
  BY <1>1, CreateRows, PostingRows, ClosingRows, DeclaringRows, AbandonRows, CrashRows,
     StartingRows DEF Next

-----------------------------------------------------------------------------
(* The five things a step may do to the journal *)

JournalKept == UNCHANGED <<journal_entries, journal_lines, audit_logs>>

EntryAdded(x) ==
  /\ DOMAIN journal_entries' = DOMAIN journal_entries \cup {Len(journal_entries) + 1}
  /\ journal_entries'[Len(journal_entries) + 1] = x
  /\ \A e \in DOMAIN journal_entries : /\ journal_entries'[e] = journal_entries[e]
                                       /\ journal_lines'[e] = journal_lines[e]

DraftAdded(x) ==
  /\ EntryAdded(x)
  /\ audit_logs' = audit_logs
  /\ x.status = "draft"
  /\ x.date \in Dates /\ x.ref = NextReference(x.date)
  /\ x.fy \in DOMAIN fiscal_years'
  /\ ~fiscal_years'[x.fy].closed
  /\ fiscal_years'[x.fy].start <= x.date /\ x.date <= fiscal_years'[x.fy].end

DraftPosted(e) ==
  /\ e \in DOMAIN journal_entries
  /\ IsDraft(e)
  /\ DOMAIN journal_entries' = DOMAIN journal_entries
  /\ journal_entries'[e] = [journal_entries[e] EXCEPT !.status = "posted"]
  /\ \A f \in DOMAIN journal_entries : f # e => journal_entries'[f] = journal_entries[f]
  /\ audit_logs' = Append(audit_logs, Link(e, "post"))
  /\ UNCHANGED <<fiscal_years, journal_lines>>

ClosingAdded(y) ==
  /\ y \in DOMAIN fiscal_years
  /\ EntryAdded(ClosingEntry(y))
  /\ ~ReferenceTaken(ClosingReference(y))
  /\ audit_logs' = Append(audit_logs, Link(Len(journal_entries) + 1, "close"))

OrphansAttached ==
  /\ UNCHANGED <<fiscal_years, journal_lines, audit_logs>>
  /\ DOMAIN journal_entries' = DOMAIN journal_entries
  /\ \A e \in DOMAIN journal_entries :
       \/ journal_entries'[e] = journal_entries[e]
       \/ /\ journal_entries[e].fy = 0
          /\ journal_entries'[e].fy \in Covering(journal_entries[e].date)
          /\ journal_entries'[e] =
               [journal_entries[e] EXCEPT !.fy = journal_entries'[e].fy]

\* Fiscal years are only added or closed.
YearsKept ==
  /\ DOMAIN fiscal_years \subseteq DOMAIN fiscal_years'
  /\ \A y \in DOMAIN fiscal_years :
       \/ fiscal_years'[y] = fiscal_years[y]
       \/ fiscal_years'[y] = [fiscal_years[y] EXCEPT !.closed = TRUE]

LEMMA AddedEntry ==
  ASSUME RowsOK, NEW x \in JournalEntry, x.fy <= Len(fiscal_years'), NEW lines,
         fiscal_years' \in Seq(FiscalYear), Len(fiscal_years') >= Len(fiscal_years),
         journal_entries' = Append(journal_entries, x),
         journal_lines' = Append(journal_lines, lines)
  PROVE  EntryAdded(x)
<1>1. /\ journal_entries' \in Seq(JournalEntry)
      /\ Len(journal_entries') = Len(journal_entries) + 1
      /\ \A e \in DOMAIN journal_entries : journal_entries'[e] = journal_entries[e]
      /\ journal_entries'[Len(journal_entries) + 1] = x
  BY AppendEntry
<1>2. /\ \A e \in DOMAIN journal_lines : journal_lines'[e] = journal_lines[e]
      /\ DOMAIN journal_lines = DOMAIN journal_entries
  <2>1. journal_lines \in Seq(Range(journal_lines))
    BY DEF RowsOK
  <2>2. \A e \in DOMAIN journal_lines : journal_lines'[e] = journal_lines[e]
    BY <2>1, AppendLines
  <2> QED
    BY <2>1, <2>2 DEF RowsOK
<1>3. DOMAIN journal_entries' = DOMAIN journal_entries \cup {Len(journal_entries) + 1}
  BY <1>1 DEF RowsOK
<1> QED
  BY <1>1, <1>2, <1>3 DEF EntryAdded

LEMMA CreateAdds ==
  ASSUME RowsOK, NumbersOK, NEW d \in Dates, NEW m \in Movements, CreateEntry(d, m)
  PROVE  YearsKept /\ \E x : DraftAdded(x)
<1>1. PICK period \in EnsureFiscalPeriod(d) :
        /\ fiscal_years' = period.table
        /\ journal_entries' = Append(journal_entries,
             [ref |-> NextReference(d), date |-> d, status |-> "draft", fy |-> period.fy])
  BY CreateEffect
<1> DEFINE x == [ref |-> NextReference(d), date |-> d, status |-> "draft", fy |-> period.fy]
<1>2. /\ fiscal_years' \in Seq(FiscalYear)
      /\ Len(fiscal_years') >= Len(fiscal_years)
      /\ \A i \in DOMAIN fiscal_years : fiscal_years'[i] = fiscal_years[i]
      /\ x.fy \in DOMAIN fiscal_years'
      /\ ~fiscal_years'[x.fy].closed
      /\ fiscal_years'[x.fy].start <= x.date /\ x.date <= fiscal_years'[x.fy].end
  BY <1>1, EnsuredPeriod DEF RowsOK
<1>3. journal_lines' = Append(journal_lines, m) /\ audit_logs' = audit_logs
  BY CreateEffect
<1>4. RowsOK'
  BY CreateRows
<1>5. x \in JournalEntry /\ x.fy <= Len(fiscal_years')
  <2>1. Len(journal_entries') = Len(journal_entries) + 1
    BY <1>1 DEF RowsOK
  <2>2. journal_entries'[Len(journal_entries) + 1] = x
    BY <1>1 DEF RowsOK
  <2>3. Len(journal_entries) + 1 \in DOMAIN journal_entries'
    BY <1>4, <2>1 DEF RowsOK
  <2> QED
    BY <1>2, <1>4, <2>2, <2>3 DEF RowsOK
<1>6. EntryAdded(x)
  BY <1>1, <1>2, <1>3, <1>5, AddedEntry
<1>7. YearsKept
  BY <1>2 DEF YearsKept, RowsOK
<1>8. /\ x.status = "draft" /\ x.date \in Dates /\ x.ref = NextReference(x.date)
  OBVIOUS
<1> HIDE DEF x
<1> QED
  BY <1>2, <1>3, <1>6, <1>7, <1>8 DEF DraftAdded

LEMMA PostingEffect ==
  ASSUME RowsOK, NEW p \in Requests, Posting(p)
  PROVE  YearsKept /\ (JournalKept \/ \E e : DraftPosted(e))
<1>1. UNCHANGED fiscal_years
  BY DEF Posting, PostLoad, PostCheck, PostCommit
<1>2. YearsKept
  BY <1>1 DEF YearsKept
<1>3. CASE ~PostCommit(p)
  BY <1>2, <1>3 DEF Posting, PostLoad, PostCheck, JournalKept
<1>4. CASE PostCommit(p)
  <2>1. PICK e : e = req[p].entry
    OBVIOUS
  <2>2. req[p].pc = "post_checked" /\ RequestOK(req[p])
    BY <1>4 DEF PostCommit, RowsOK
  <2>3. e \in DOMAIN journal_entries
    BY <2>1, <2>2 DEF RequestOK, Idle
  <2>4. CASE ~IsDraft(e)
    BY <1>2, <1>4, <2>1, <2>4 DEF PostCommit, JournalKept
  <2>5. CASE IsDraft(e)
    <3> DEFINE x == [journal_entries[e] EXCEPT !.status = "posted"]
    <3>1. /\ audit_logs' = Append(audit_logs, Link(e, "post"))
          /\ journal_entries' = [journal_entries EXCEPT ![e] = x]
          /\ UNCHANGED <<fiscal_years, journal_lines>>
      BY <1>4, <2>1, <2>5 DEF PostCommit
    <3> HIDE DEF x
    <3>2. /\ DOMAIN journal_entries' = DOMAIN journal_entries
          /\ journal_entries'[e] = x
          /\ \A f \in DOMAIN journal_entries : f # e => journal_entries'[f] = journal_entries[f]
      BY <2>3, <3>1
    <3>3. DraftPosted(e)
      BY <2>3, <2>5, <3>1, <3>2 DEF DraftPosted, x
    <3> QED
      BY <1>2, <3>3
  <2> QED
    BY <2>4, <2>5
<1> QED
  BY <1>3, <1>4

LEMMA ClosingEffect ==
  ASSUME RowsOK, NEW p \in Requests, Closing(p)
  PROVE  YearsKept /\ (JournalKept \/ \E y : ClosingAdded(y))
<1>1. CASE ~CloseCommit(p)
  BY <1>1 DEF Closing, CloseLoad, CloseDrafts, CloseBalances, JournalKept, YearsKept
<1>2. CASE CloseCommit(p)
  <2>1. CASE UNCHANGED <<fiscal_years, journal_entries, journal_lines, audit_logs>>
    BY <2>1 DEF JournalKept, YearsKept
  <2>2. ASSUME NEW y \in DOMAIN fiscal_years, fiscal_years' = CloseTables(y)
        PROVE  /\ YearsKept
               /\ fiscal_years' \in Seq(FiscalYear)
               /\ Len(fiscal_years') >= Len(fiscal_years)
    <3>1. /\ fiscal_years' \in Seq(FiscalYear)
          /\ Len(fiscal_years') >= Len(fiscal_years)
          /\ fiscal_years'[y] = [fiscal_years[y] EXCEPT !.closed = TRUE]
          /\ \A i \in DOMAIN fiscal_years : i # y => fiscal_years'[i] = fiscal_years[i]
      BY <2>2, ClosedTable
    <3>2. DOMAIN fiscal_years \subseteq DOMAIN fiscal_years'
      BY <3>1 DEF RowsOK
    <3> QED
      BY <3>1, <3>2 DEF YearsKept
  <2>3. ASSUME NEW y \in DOMAIN fiscal_years, NEW lines,
               fiscal_years' = CloseTables(y),
               ~ReferenceTaken(ClosingReference(y)),
               journal_entries' = Append(journal_entries, ClosingEntry(y)),
               journal_lines' = Append(journal_lines, lines),
               audit_logs' = Append(audit_logs, Link(Len(journal_entries) + 1, "close"))
        PROVE  ClosingAdded(y)
    <3>1. fiscal_years' \in Seq(FiscalYear) /\ Len(fiscal_years') >= Len(fiscal_years)
      BY <2>2, <2>3
    <3>2. ClosingEntry(y) \in JournalEntry /\ ClosingEntry(y).fy <= Len(fiscal_years')
      BY <3>1, ClosingEntryType DEF ClosingEntry, RowsOK
    <3>3. EntryAdded(ClosingEntry(y))
      BY <2>3, <3>1, <3>2, AddedEntry
    <3> QED
      BY <2>3, <3>3 DEF ClosingAdded
  <2> QED
    BY <1>2, <2>1, <2>2, <2>3, CloseEffect DEF JournalKept
<1> QED
  BY <1>1, <1>2

\* Every step of the ledger does one of five things to the journal, and at
\* most adds and closes fiscal years.
LEMMA StepEffect ==
  ASSUME RowsOK, NumbersOK, [Next]_vars
  PROVE  /\ YearsKept
         /\ \/ JournalKept
            \/ \E x : DraftAdded(x)
            \/ \E e : DraftPosted(e)
            \/ \E y : ClosingAdded(y)
            \/ OrphansAttached
<1>1. CASE UNCHANGED vars
  BY <1>1 DEF vars, YearsKept, JournalKept
<1>2. CASE \E p \in Requests : Declaring(p)
  <2>1. PICK p \in Requests : Declaring(p)
    BY <1>2
  <2>2. JournalKept
    BY <2>1 DEF Declaring, DeclareYearCheck, DeclareYearInsert, JournalKept
  <2>3. \/ fiscal_years' = fiscal_years
        \/ \E row : fiscal_years' = Append(fiscal_years, row)
    BY <2>1 DEF Declaring, DeclareYearCheck, DeclareYearInsert
  <2>4. YearsKept
    <3>1. fiscal_years \in Seq(FiscalYear)
      BY DEF RowsOK
    <3> QED
      BY <2>3, <3>1, AppendKeeps DEF YearsKept
  <2> QED
    BY <2>2, <2>4
<1>3. CASE Crash
  BY <1>3 DEF Crash, YearsKept, JournalKept
<1>4. CASE \E p \in Requests : Abandon(p)
  BY <1>4 DEF Abandon, YearsKept, JournalKept
<1>5. CASE Starting
  <2>1. ASSUME NEW y, BackfillYear(y)
        PROVE  YearsKept /\ JournalKept
    <3>1. JournalKept /\ \E row : fiscal_years' = Append(fiscal_years, row)
      BY <2>1 DEF BackfillYear, JournalKept
    <3>2. fiscal_years \in Seq(FiscalYear)
      BY DEF RowsOK
    <3> QED
      BY <3>1, <3>2, AppendKeeps DEF YearsKept
  <2>2. CASE BackfillAttach
    BY <2>2, AttachEffect DEF OrphansAttached, YearsKept
  <2> QED
    BY <1>5, <2>1, <2>2 DEF Starting
<1> QED
  BY <1>1, <1>2, <1>3, <1>4, <1>5, CreateAdds, PostingEffect, ClosingEffect DEF Next

-----------------------------------------------------------------------------
(* The inductive invariant *)

\* Every link is that of an entry of the journal.
LinksOK == \A k \in DOMAIN audit_logs : audit_logs[k].entry \in DOMAIN journal_entries

\* No two entries have the same reference, a closing entry bears the reference
\* of the year it closes, and only ordinary entries wait for a year.
ReferencesOK ==
  /\ \A e, f \in DOMAIN journal_entries :
       journal_entries[e].ref = journal_entries[f].ref => e = f
  /\ \A e \in DOMAIN journal_entries :
       journal_entries[e].ref.series = "CLOTURE" =>
         /\ journal_entries[e].fy \in DOMAIN fiscal_years
         /\ journal_entries[e].ref = ClosingReference(journal_entries[e].fy)

LedgerInv ==
  /\ RowsOK
  /\ NumbersOK
  /\ ReferencesOK
  /\ LinksOK
  /\ PostedExactlyOnce
  /\ DatedInItsYear

LEMMA NextLinks ==
  ASSUME RowsOK, NumbersOK, LinksOK, PostedExactlyOnce, [Next]_vars
  PROVE  LinksOK' /\ PostedExactlyOnce'
<1> PICK n, k : n = Len(journal_entries) + 1 /\ k = Len(audit_logs) + 1
  OBVIOUS
<1>1. /\ audit_logs \in Seq(AuditLink)
      /\ n \notin DOMAIN journal_entries
      /\ \A e \in DOMAIN journal_entries : journal_entries[e] \in JournalEntry
  BY DEF RowsOK
<1>2. \A i \in DOMAIN audit_logs : audit_logs[i].entry # n
  BY <1>1 DEF LinksOK
<1>3. ASSUME NEW l, audit_logs' = Append(audit_logs, l)
      PROVE  /\ DOMAIN audit_logs' = DOMAIN audit_logs \cup {k}
             /\ k \notin DOMAIN audit_logs
             /\ audit_logs'[k] = l
             /\ \A i \in DOMAIN audit_logs : audit_logs'[i] = audit_logs[i]
  <2> DEFINE T == AuditLink \cup {l}
  <2>1. audit_logs \in Seq(T) /\ l \in T
    BY <1>1
  <2> HIDE DEF T
  <2> QED
    BY <1>3, <2>1
<1>4. CASE JournalKept
  BY <1>4 DEF JournalKept, LinksOK, PostedExactlyOnce, LinksOf, IsDraft
<1>5. ASSUME NEW x, DraftAdded(x)
      PROVE  LinksOK' /\ PostedExactlyOnce'
  <2>1. /\ audit_logs' = audit_logs
        /\ DOMAIN journal_entries' = DOMAIN journal_entries \cup {n}
        /\ journal_entries'[n].status = "draft"
        /\ \A e \in DOMAIN journal_entries : journal_entries'[e] = journal_entries[e]
    BY <1>5 DEF DraftAdded, EntryAdded
  <2>2. LinksOK'
    BY <2>1 DEF LinksOK
  <2>3. LinksOf(n)' = {}
    BY <1>2, <2>1 DEF LinksOf
  <2>4. \A e \in DOMAIN journal_entries : LinksOf(e)' = LinksOf(e)
    BY <2>1 DEF LinksOf
  <2>5. PostedExactlyOnce'
    BY <1>1, <2>1, <2>3, <2>4 DEF PostedExactlyOnce, IsDraft
  <2> QED
    BY <2>2, <2>5
<1>6. ASSUME NEW e, DraftPosted(e)
      PROVE  LinksOK' /\ PostedExactlyOnce'
  <2>1. /\ e \in DOMAIN journal_entries /\ IsDraft(e)
        /\ DOMAIN journal_entries' = DOMAIN journal_entries
        /\ journal_entries'[e].status = "posted"
        /\ \A f \in DOMAIN journal_entries : f # e => journal_entries'[f] = journal_entries[f]
        /\ audit_logs' = Append(audit_logs, Link(e, "post"))
    BY <1>1, <1>6 DEF DraftPosted, JournalEntry
  <2>2. /\ DOMAIN audit_logs' = DOMAIN audit_logs \cup {k}
        /\ k \notin DOMAIN audit_logs
        /\ audit_logs'[k].entry = e
        /\ \A i \in DOMAIN audit_logs : audit_logs'[i] = audit_logs[i]
    BY <1>3, <2>1 DEF Link
  <2>3. LinksOK'
    BY <2>1, <2>2 DEF LinksOK
  <2>4. LinksOf(e) = {}
    BY <2>1 DEF PostedExactlyOnce
  <2>5. LinksOf(e)' = {k}
    BY <2>2, <2>4 DEF LinksOf
  <2>6. \A f \in DOMAIN journal_entries : f # e => LinksOf(f)' = LinksOf(f)
    BY <2>2 DEF LinksOf
  <2>7. PostedExactlyOnce'
    <3>1. ~IsDraft(e)'
      BY <2>1 DEF IsDraft
    <3>2. \A f \in DOMAIN journal_entries : f # e => (IsDraft(f)' <=> IsDraft(f))
      BY <2>1 DEF IsDraft
    <3> SUFFICES ASSUME NEW f \in DOMAIN journal_entries
                 PROVE  (IF IsDraft(f) THEN LinksOf(f) = {}
                                       ELSE \E j \in LinksOf(f) : LinksOf(f) = {j})'
      BY <2>1 DEF PostedExactlyOnce
    <3>3. CASE f = e
      BY <2>5, <3>1, <3>3
    <3>4. CASE f # e
      BY <2>6, <3>2, <3>4 DEF PostedExactlyOnce
    <3> QED
      BY <3>3, <3>4
  <2> QED
    BY <2>3, <2>7
<1>7. ASSUME NEW y, ClosingAdded(y)
      PROVE  LinksOK' /\ PostedExactlyOnce'
  <2>1. /\ DOMAIN journal_entries' = DOMAIN journal_entries \cup {n}
        /\ journal_entries'[n].status = "posted"
        /\ \A e \in DOMAIN journal_entries : journal_entries'[e] = journal_entries[e]
        /\ audit_logs' = Append(audit_logs, Link(n, "close"))
    BY <1>7 DEF ClosingAdded, EntryAdded, ClosingEntry
  <2>2. /\ DOMAIN audit_logs' = DOMAIN audit_logs \cup {k}
        /\ k \notin DOMAIN audit_logs
        /\ audit_logs'[k].entry = n
        /\ \A i \in DOMAIN audit_logs : audit_logs'[i] = audit_logs[i]
    BY <1>3, <2>1 DEF Link
  <2>3. LinksOK'
    BY <2>1, <2>2 DEF LinksOK
  <2>4. LinksOf(n)' = {k}
    BY <1>2, <2>2 DEF LinksOf
  <2>5. \A e \in DOMAIN journal_entries : LinksOf(e)' = LinksOf(e)
    BY <1>1, <2>2 DEF LinksOf
  <2>6. ~IsDraft(n)'
    BY <2>1 DEF IsDraft
  <2>7. \A e \in DOMAIN journal_entries : IsDraft(e)' <=> IsDraft(e)
    BY <2>1 DEF IsDraft
  <2>8. PostedExactlyOnce'
    <3> SUFFICES ASSUME NEW f \in DOMAIN journal_entries'
                 PROVE  (IF IsDraft(f) THEN LinksOf(f) = {}
                                       ELSE \E j \in LinksOf(f) : LinksOf(f) = {j})'
      BY DEF PostedExactlyOnce
    <3>1. CASE f = n
      BY <2>4, <2>6, <3>1
    <3>2. CASE f \in DOMAIN journal_entries
      BY <2>5, <2>7, <3>2 DEF PostedExactlyOnce
    <3> QED
      BY <2>1, <3>1, <3>2
  <2> QED
    BY <2>3, <2>8
<1>8. CASE OrphansAttached
  <2>1. /\ DOMAIN journal_entries' = DOMAIN journal_entries
        /\ audit_logs' = audit_logs
        /\ \A e \in DOMAIN journal_entries :
             journal_entries'[e].status = journal_entries[e].status
    BY <1>1, <1>8 DEF OrphansAttached, JournalEntry
  <2> QED
    BY <2>1 DEF LinksOK, PostedExactlyOnce, LinksOf, IsDraft
<1> QED
  BY <1>4, <1>5, <1>6, <1>7, <1>8, StepEffect

\* The reference of a closing stays the same while its year is open or closed.
LEMMA ClosingReferenceKept ==
  ASSUME RowsOK, YearsKept, NEW y \in DOMAIN fiscal_years
  PROVE  y \in DOMAIN fiscal_years' /\ ClosingReference(y)' = ClosingReference(y)
<1>1. fiscal_years[y] \in FiscalYear
  BY DEF RowsOK
<1>2. y \in DOMAIN fiscal_years' /\ fiscal_years'[y].end = fiscal_years[y].end
  BY <1>1 DEF YearsKept, FiscalYear
<1> QED
  BY <1>2 DEF ClosingReference

LEMMA NextReferences ==
  ASSUME RowsOK, NumbersOK, ReferencesOK, [Next]_vars
  PROVE  ReferencesOK'
<1> PICK n : n = Len(journal_entries) + 1
  OBVIOUS
<1>1. /\ YearsKept
      /\ n \notin DOMAIN journal_entries
      /\ 0 \notin DOMAIN fiscal_years
      /\ \A e \in DOMAIN journal_entries : journal_entries[e] \in JournalEntry
  BY StepEffect DEF RowsOK
<1>2. ASSUME NEW e \in DOMAIN journal_entries, NEW y,
             journal_entries[e].ref.series = "CLOTURE",
             journal_entries[e].fy = y
      PROVE  y \in DOMAIN fiscal_years' /\ journal_entries[e].ref = ClosingReference(y)'
  BY <1>1, <1>2, ClosingReferenceKept DEF ReferencesOK
<1>3. ASSUME DOMAIN journal_entries' = DOMAIN journal_entries,
             \A e \in DOMAIN journal_entries :
               /\ journal_entries'[e].ref = journal_entries[e].ref
               /\ journal_entries'[e].ref.series = "CLOTURE" =>
                    journal_entries'[e].fy = journal_entries[e].fy
      PROVE  ReferencesOK'
  BY <1>2, <1>3 DEF ReferencesOK
<1>4. ASSUME NEW x, EntryAdded(x),
             \A e \in DOMAIN journal_entries : journal_entries[e].ref # x.ref,
             \A y : x.ref.series = "CLOTURE" /\ x.fy = y =>
                      y \in DOMAIN fiscal_years' /\ x.ref = ClosingReference(y)'
      PROVE  ReferencesOK'
  <2>1. /\ DOMAIN journal_entries' = DOMAIN journal_entries \cup {n}
        /\ journal_entries'[n] = x
        /\ \A e \in DOMAIN journal_entries : journal_entries'[e] = journal_entries[e]
    BY <1>4 DEF EntryAdded
  <2>2. \A e, f \in DOMAIN journal_entries' :
          journal_entries'[e].ref = journal_entries'[f].ref => e = f
    BY <1>1, <1>4, <2>1 DEF ReferencesOK
  <2>3. ASSUME NEW e \in DOMAIN journal_entries', NEW y,
               journal_entries'[e].ref.series = "CLOTURE",
               journal_entries'[e].fy = y
        PROVE  y \in DOMAIN fiscal_years' /\ journal_entries'[e].ref = ClosingReference(y)'
    BY <1>2, <1>4, <2>1, <2>3
  <2> QED
    BY <2>2, <2>3 DEF ReferencesOK
<1>5. CASE JournalKept
  BY <1>3, <1>5 DEF JournalKept
<1>6. ASSUME NEW x, DraftAdded(x)
      PROVE  ReferencesOK'
  <2>1. x.date \in Nat /\ EntryAdded(x)
    BY <1>6, LedgerAssumption DEF DraftAdded
  <2>2. PICK m \in Nat : /\ Numbers(YearOf(x.date)) = 1 .. m
                         /\ x.ref = [series |-> "JN", year |-> YearOf(x.date), no |-> m + 1]
    BY <1>6, <2>1, NextNumber DEF DraftAdded
  <2>3. \A e \in DOMAIN journal_entries : journal_entries[e].ref # x.ref
    <3> SUFFICES ASSUME NEW e \in DOMAIN journal_entries, journal_entries[e].ref = x.ref
                 PROVE  FALSE
      OBVIOUS
    <3>1. m + 1 \in Numbers(YearOf(x.date))
      BY <2>2 DEF Numbers
    <3> QED
      BY <2>2, <3>1
  <2> QED
    BY <1>4, <2>1, <2>2, <2>3
<1>7. ASSUME NEW e, DraftPosted(e)
      PROVE  ReferencesOK'
  <2>1. \A f \in DOMAIN journal_entries : /\ journal_entries'[f].ref = journal_entries[f].ref
                                          /\ journal_entries'[f].fy = journal_entries[f].fy
    BY <1>1, <1>7 DEF DraftPosted, JournalEntry
  <2> QED
    BY <1>3, <1>7, <2>1 DEF DraftPosted
<1>8. ASSUME NEW y, ClosingAdded(y)
      PROVE  ReferencesOK'
  <2>1. /\ EntryAdded(ClosingEntry(y))
        /\ ClosingEntry(y).fy = y
        /\ ClosingEntry(y).ref = ClosingReference(y)
        /\ y \in DOMAIN fiscal_years
    BY <1>8 DEF ClosingAdded, ClosingEntry
  <2>2. \A e \in DOMAIN journal_entries : journal_entries[e].ref # ClosingReference(y)
    BY <1>8 DEF ClosingAdded, ReferenceTaken
  <2>3. y \in DOMAIN fiscal_years' /\ ClosingReference(y)' = ClosingReference(y)
    BY <1>1, <2>1, ClosingReferenceKept
  <2>4. PICK x : x = ClosingEntry(y)
    OBVIOUS
  <2> QED
    BY <1>4, <2>1, <2>2, <2>3, <2>4
<1>9. CASE OrphansAttached
  <2>1. \A e \in DOMAIN journal_entries :
          /\ journal_entries'[e].ref = journal_entries[e].ref
          /\ journal_entries'[e].ref.series = "CLOTURE" =>
               journal_entries'[e].fy = journal_entries[e].fy
    <3> SUFFICES ASSUME NEW e \in DOMAIN journal_entries
                 PROVE  /\ journal_entries'[e].ref = journal_entries[e].ref
                        /\ journal_entries'[e].ref.series = "CLOTURE" =>
                             journal_entries'[e].fy = journal_entries[e].fy
      OBVIOUS
    <3>1. CASE journal_entries'[e] = journal_entries[e]
      BY <3>1
    <3>2. CASE /\ journal_entries[e].fy = 0
               /\ journal_entries'[e] =
                    [journal_entries[e] EXCEPT !.fy = journal_entries'[e].fy]
      <4>1. journal_entries'[e].ref = journal_entries[e].ref
        BY <1>1, <3>2 DEF JournalEntry
      <4>2. journal_entries[e].ref.series # "CLOTURE"
        BY <1>1, <3>2 DEF ReferencesOK
      <4> QED
        BY <4>1, <4>2
    <3> QED
      BY <1>9, <3>1, <3>2 DEF OrphansAttached
  <2> QED
    BY <1>3, <1>9, <2>1 DEF OrphansAttached
<1> QED
  BY <1>5, <1>6, <1>7, <1>8, <1>9, StepEffect

LEMMA NextNumbers ==
  ASSUME RowsOK, NumbersOK, [Next]_vars
  PROVE  NumbersOK'
<1> PICK n : n = Len(journal_entries) + 1
  OBVIOUS
<1>1. /\ n \notin DOMAIN journal_entries
      /\ \A e \in DOMAIN journal_entries : journal_entries[e] \in JournalEntry
  BY DEF RowsOK
<1>2. ASSUME DOMAIN journal_entries' = DOMAIN journal_entries,
             \A e \in DOMAIN journal_entries :
               journal_entries'[e].ref = journal_entries[e].ref
      PROVE  NumbersOK'
  <2>1. \A y \in Nat : Numbers(y)' = Numbers(y)
    BY <1>2 DEF Numbers
  <2> QED
    BY <2>1 DEF NumbersOK
<1>3. ASSUME NEW x, EntryAdded(x)
      PROVE  /\ DOMAIN journal_entries' = DOMAIN journal_entries \cup {n}
             /\ journal_entries'[n] = x
             /\ \A e \in DOMAIN journal_entries : journal_entries'[e] = journal_entries[e]
  BY <1>3 DEF EntryAdded
<1>4. CASE JournalKept
  BY <1>2, <1>4 DEF JournalKept
<1>5. ASSUME NEW x, DraftAdded(x)
      PROVE  NumbersOK'
  <2>1. x.date \in Nat /\ EntryAdded(x)
    BY <1>5, LedgerAssumption DEF DraftAdded
  <2>2. PICK m \in Nat : /\ Numbers(YearOf(x.date)) = 1 .. m
                         /\ x.ref = [series |-> "JN", year |-> YearOf(x.date), no |-> m + 1]
    BY <1>5, <2>1, NextNumber DEF DraftAdded
  <2> SUFFICES ASSUME NEW y \in Nat
               PROVE  \E k \in Nat : Numbers(y)' = 1 .. k
    BY DEF NumbersOK
  <2>3. CASE y = YearOf(x.date)
    <3>1. Numbers(y)' = Numbers(y) \cup {m + 1}
      BY <1>1, <1>3, <2>1, <2>2, <2>3 DEF Numbers
    <3>2. (1 .. m) \cup {m + 1} = 1 .. (m + 1)
      OBVIOUS
    <3> QED
      BY <2>2, <2>3, <3>1, <3>2
  <2>4. CASE y # YearOf(x.date)
    <3>1. Numbers(y)' = Numbers(y)
      BY <1>1, <1>3, <2>1, <2>2, <2>4 DEF Numbers
    <3> QED
      BY <3>1 DEF NumbersOK
  <2> QED
    BY <2>3, <2>4
<1>6. ASSUME NEW e, DraftPosted(e)
      PROVE  NumbersOK'
  BY <1>1, <1>2, <1>6 DEF DraftPosted, JournalEntry
<1>7. ASSUME NEW y, ClosingAdded(y)
      PROVE  NumbersOK'
  <2>1. EntryAdded(ClosingEntry(y)) /\ ClosingEntry(y).ref.series = "CLOTURE"
    BY <1>7 DEF ClosingAdded, ClosingEntry, ClosingReference
  <2>2. PICK x : x = ClosingEntry(y)
    OBVIOUS
  <2>3. \A z \in Nat : Numbers(z)' = Numbers(z)
    BY <1>1, <1>3, <2>1, <2>2 DEF Numbers
  <2> QED
    BY <2>3 DEF NumbersOK
<1>8. CASE OrphansAttached
  BY <1>1, <1>2, <1>8 DEF OrphansAttached, JournalEntry
<1> QED
  BY <1>4, <1>5, <1>6, <1>7, <1>8, StepEffect

LEMMA NextDates ==
  ASSUME RowsOK, NumbersOK, DatedInItsYear, [Next]_vars
  PROVE  DatedInItsYear'
<1> PICK n : n = Len(journal_entries) + 1
  OBVIOUS
<1>1. /\ YearsKept
      /\ RowsOK'
      /\ n \notin DOMAIN journal_entries
      /\ \A e \in DOMAIN journal_entries :
           journal_entries[e] \in JournalEntry /\ journal_entries[e].fy <= Len(fiscal_years)
      /\ \A y \in DOMAIN fiscal_years : fiscal_years[y] \in FiscalYear
  BY StepEffect, NextRows DEF RowsOK
<1> DEFINE In(d, i) == d \in fiscal_years[i].start .. fiscal_years[i].end
           InNow(d, i) == d \in fiscal_years'[i].start .. fiscal_years'[i].end
<1>2. ASSUME NEW d \in Nat, NEW i \in DOMAIN fiscal_years, In(d, i)
      PROVE  InNow(d, i)
  BY <1>1, <1>2 DEF YearsKept, FiscalYear
<1>3. ASSUME NEW e \in DOMAIN journal_entries, journal_entries[e].fy # 0
      PROVE  InNow(journal_entries[e].date, journal_entries[e].fy)
  <2>1. /\ journal_entries[e].fy \in DOMAIN fiscal_years
        /\ journal_entries[e].date \in Nat
    BY <1>1, <1>3 DEF JournalEntry, RowsOK
  <2>2. In(journal_entries[e].date, journal_entries[e].fy)
    BY <1>3 DEF DatedInItsYear
  <2> QED
    BY <1>2, <2>1, <2>2
<1>4. ASSUME DOMAIN journal_entries' = DOMAIN journal_entries,
             \A e \in DOMAIN journal_entries :
               /\ journal_entries'[e].date = journal_entries[e].date
               /\ journal_entries'[e].fy = journal_entries[e].fy
      PROVE  DatedInItsYear'
  BY <1>3, <1>4 DEF DatedInItsYear
<1>5. ASSUME NEW x, EntryAdded(x), InNow(x.date, x.fy)
      PROVE  DatedInItsYear'
  <2>1. /\ DOMAIN journal_entries' = DOMAIN journal_entries \cup {n}
        /\ journal_entries'[n] = x
        /\ \A e \in DOMAIN journal_entries : journal_entries'[e] = journal_entries[e]
    BY <1>5 DEF EntryAdded
  <2> QED
    BY <1>3, <1>5, <2>1 DEF DatedInItsYear
<1>6. CASE JournalKept
  BY <1>4, <1>6 DEF JournalKept
<1>7. ASSUME NEW x, DraftAdded(x)
      PROVE  DatedInItsYear'
  <2>1. /\ x.date \in Nat
        /\ x.fy \in DOMAIN fiscal_years'
        /\ fiscal_years'[x.fy].start <= x.date
        /\ x.date <= fiscal_years'[x.fy].end
    BY <1>7, LedgerAssumption DEF DraftAdded
  <2>2. fiscal_years'[x.fy] \in FiscalYear
    BY <1>1, <2>1 DEF RowsOK
  <2>3. InNow(x.date, x.fy)
    BY <2>1, <2>2 DEF FiscalYear
  <2> QED
    BY <1>5, <1>7, <2>3 DEF DraftAdded
<1>8. ASSUME NEW e, DraftPosted(e)
      PROVE  DatedInItsYear'
  BY <1>1, <1>4, <1>8 DEF DraftPosted, JournalEntry
<1>9. ASSUME NEW y, ClosingAdded(y)
      PROVE  DatedInItsYear'
  <2>1. y \in DOMAIN fiscal_years /\ fiscal_years[y] \in FiscalYear
    BY <1>1, <1>9 DEF ClosingAdded
  <2>2. fiscal_years[y].end \in Nat /\ In(fiscal_years[y].end, y)
    BY <2>1 DEF FiscalYear
  <2>3. InNow(fiscal_years[y].end, y)
    BY <1>2, <2>1, <2>2
  <2>4. ClosingEntry(y).date = fiscal_years[y].end /\ ClosingEntry(y).fy = y
    BY DEF ClosingEntry
  <2>5. PICK x : x = ClosingEntry(y)
    OBVIOUS
  <2> QED
    BY <1>5, <1>9, <2>3, <2>4, <2>5 DEF ClosingAdded
<1>10. CASE OrphansAttached
  <2> SUFFICES ASSUME NEW e \in DOMAIN journal_entries, journal_entries'[e].fy # 0
               PROVE  InNow(journal_entries'[e].date, journal_entries'[e].fy)
    BY <1>10 DEF DatedInItsYear, OrphansAttached
  <2>1. CASE journal_entries'[e] = journal_entries[e]
    BY <1>3, <2>1
  <2>2. CASE /\ journal_entries'[e].fy \in Covering(journal_entries[e].date)
             /\ journal_entries'[e] =
                  [journal_entries[e] EXCEPT !.fy = journal_entries'[e].fy]
    <3>1. journal_entries'[e].date = journal_entries[e].date /\ journal_entries[e].date \in Nat
      BY <1>1, <2>2 DEF JournalEntry
    <3>2. PICK i \in DOMAIN fiscal_years :
            /\ i = journal_entries'[e].fy
            /\ Overlaps(fiscal_years[i], journal_entries[e].date, journal_entries[e].date)
      BY <2>2 DEF Covering
    <3>3. In(journal_entries[e].date, i)
      BY <1>1, <3>1, <3>2 DEF Overlaps, FiscalYear
    <3> QED
      BY <1>2, <3>1, <3>2, <3>3
  <2> QED
    BY <1>10, <2>1, <2>2 DEF OrphansAttached
<1> QED
  BY <1>6, <1>7, <1>8, <1>9, <1>10, StepEffect

LEMMA InitInv == Init => LedgerInv
<1> SUFFICES ASSUME Init
             PROVE  LedgerInv
  OBVIOUS
<1>1. RowsOK
  BY InitRows
<1>2. CASE journal_entries = <<>> /\ journal_lines = <<>> /\ audit_logs = <<>>
  <2>1. DOMAIN journal_entries = {} /\ DOMAIN audit_logs = {}
    BY <1>2
  <2>2. \A y \in Nat : Numbers(y) = 1 .. 0
    BY <2>1 DEF Numbers
  <2> QED
    BY <1>1, <2>1, <2>2
       DEF LedgerInv, NumbersOK, ReferencesOK, LinksOK, PostedExactlyOnce, DatedInItsYear
<1>3. ASSUME NEW d \in Dates,
             journal_entries =
               <<[ref |-> [series |-> "JN", year |-> YearOf(d), no |-> 1],
                  date |-> d, status |-> "posted", fy |-> 0]>>,
             audit_logs = <<Link(1, "post")>>
      PROVE  LedgerInv
  <2>1. /\ DOMAIN journal_entries = {1}
        /\ journal_entries[1].ref = [series |-> "JN", year |-> YearOf(d), no |-> 1]
        /\ journal_entries[1].status = "posted"
        /\ journal_entries[1].fy = 0
        /\ DOMAIN audit_logs = {1}
        /\ audit_logs[1].entry = 1
    BY <1>3 DEF Link
  <2>2. NumbersOK
    <3> SUFFICES ASSUME NEW y \in Nat
                 PROVE  \E n \in Nat : Numbers(y) = 1 .. n
      BY DEF NumbersOK
    <3>1. CASE y = YearOf(d)
      <4>1. Numbers(y) = 1 .. 1
        BY <2>1, <3>1 DEF Numbers
      <4> QED
        BY <4>1
    <3>2. CASE y # YearOf(d)
      <4>1. Numbers(y) = 1 .. 0
        BY <2>1, <3>2 DEF Numbers
      <4> QED
        BY <4>1
    <3> QED
      BY <3>1, <3>2
  <2>3. PostedExactlyOnce
    BY <2>1 DEF PostedExactlyOnce, LinksOf, IsDraft
  <2>4. ReferencesOK /\ LinksOK /\ DatedInItsYear
    BY <2>1 DEF ReferencesOK, LinksOK, DatedInItsYear
  <2> QED
    BY <1>1, <2>2, <2>3, <2>4 DEF LedgerInv
<1> QED
  BY <1>2, <1>3 DEF Init

LEMMA NextInv == LedgerInv /\ [Next]_vars => LedgerInv'
  BY NextRows, NextNumbers, NextReferences, NextLinks, NextDates DEF LedgerInv

-----------------------------------------------------------------------------
(* Theorems *)

\* The inductive invariant holds in every reachable state of the ledger.
THEOREM LedgerInvariant == Spec => []LedgerInv
  BY InitInv, NextInv, PTL DEF Spec

\* The tables hold well-formed rows (Ledger's RowsOK), however requests
\* interleave and wherever the process dies.
THEOREM RowsTheorem == Spec => []RowsOK
<1>1. LedgerInv => RowsOK
  BY DEF LedgerInv
<1> QED
  BY <1>1, LedgerInvariant, PTL

\* PostEntry and CloseYear: one link for a posted entry, none for a draft.
THEOREM PostedExactlyOnceTheorem == Spec => []PostedExactlyOnce
<1>1. LedgerInv => PostedExactlyOnce
  BY DEF LedgerInv
<1> QED
  BY <1>1, LedgerInvariant, PTL

\* EnsureFiscalPeriod, CloseYear and attachOrphans: an entry is dated in the
\* fiscal year it is attached to.
THEOREM DatedInItsYearTheorem == Spec => []DatedInItsYear
<1>1. LedgerInv => DatedInItsYear
  BY DEF LedgerInv
<1> QED
  BY <1>1, LedgerInvariant, PTL

\* CloseYear: the UNIQUE reference of a closing entry is all that keeps a year
\* from being closed twice, and it is enough.
THEOREM AtMostOneClosingEntryTheorem == Spec => []AtMostOneClosingEntry
<1>1. LedgerInv => AtMostOneClosingEntry
  <2> SUFFICES ASSUME LedgerInv, NEW y \in DOMAIN fiscal_years,
                      NEW e \in EntriesOf(y), NEW f \in EntriesOf(y),
                      journal_entries[e].ref.series = "CLOTURE",
                      journal_entries[f].ref.series = "CLOTURE"
               PROVE  e = f
    BY DEF AtMostOneClosingEntry
  <2>1. /\ e \in DOMAIN journal_entries /\ journal_entries[e].fy = y
        /\ f \in DOMAIN journal_entries /\ journal_entries[f].fy = y
    BY DEF EntriesOf
  <2>2. journal_entries[e].ref = journal_entries[f].ref
    BY <2>1 DEF LedgerInv, ReferencesOK
  <2> QED
    BY <2>1, <2>2 DEF LedgerInv, ReferencesOK
<1> QED
  BY <1>1, LedgerInvariant, PTL

\* nextReference: the journal of a calendar year is numbered 1, 2, 3...
THEOREM NumberedWithoutGapTheorem == Spec => []NumberedWithoutGap
<1>1. LedgerInv => NumberedWithoutGap
  <2> SUFFICES ASSUME LedgerInv, NEW d \in Dates
               PROVE  /\ Numbers(YearOf(d)) = 1 .. Cardinality(Numbers(YearOf(d)))
                      /\ \A e, f \in DOMAIN journal_entries :
                           journal_entries[e].ref = journal_entries[f].ref => e = f
    BY DEF NumberedWithoutGap
  <2>1. YearOf(d) \in Nat
    BY CalendarYearOfDate, LedgerAssumption
  <2>2. PICK n \in Nat : Numbers(YearOf(d)) = 1 .. n
    BY <2>1 DEF LedgerInv, NumbersOK
  <2>3. Cardinality(1 .. n) = n
    <3>1. Cardinality(1 .. n) = IF 1 > n THEN 0 ELSE n - 1 + 1
      BY FS_Interval
    <3> QED
      BY <3>1
  <2> QED
    BY <2>2, <2>3 DEF LedgerInv, ReferencesOK
<1> QED
  BY <1>1, LedgerInvariant, PTL

\* trg_journal_entries_no_update and no_delete: what is posted is never
\* rewritten, renumbered, redated or moved to another year.
THEOREM SealedTheorem == Spec => Sealed
<1> DEFINE SealedStep ==
      /\ \A e \in DOMAIN journal_entries :
           ~IsDraft(e) =>
             /\ e \in DOMAIN journal_entries'
             /\ journal_lines'[e] = journal_lines[e]
             /\ journal_entries'[e] = journal_entries[e]
                \/ /\ journal_entries[e].fy = 0
                   /\ journal_entries'[e] =
                        [journal_entries[e] EXCEPT !.fy = journal_entries'[e].fy]
      /\ \A k \in DOMAIN audit_logs :
           k \in DOMAIN audit_logs' /\ audit_logs'[k] = audit_logs[k]
<1>1. LedgerInv /\ [Next]_vars => SealedStep
  <2> SUFFICES ASSUME LedgerInv, [Next]_vars
               PROVE  SealedStep
    OBVIOUS
  <2>1. audit_logs \in Seq(AuditLink)
    BY DEF LedgerInv, RowsOK
  <2>2. \/ audit_logs' = audit_logs
        \/ \E l : audit_logs' = Append(audit_logs, l)
    BY StepEffect DEF LedgerInv, JournalKept, DraftAdded, DraftPosted, ClosingAdded,
                      OrphansAttached
  <2>3. \A k \in DOMAIN audit_logs :
          k \in DOMAIN audit_logs' /\ audit_logs'[k] = audit_logs[k]
    BY <2>1, <2>2, AppendKeeps
  <2>4. ASSUME NEW e \in DOMAIN journal_entries, ~IsDraft(e)
        PROVE  /\ e \in DOMAIN journal_entries'
               /\ journal_lines'[e] = journal_lines[e]
               /\ journal_entries'[e] = journal_entries[e]
                  \/ /\ journal_entries[e].fy = 0
                     /\ journal_entries'[e] =
                          [journal_entries[e] EXCEPT !.fy = journal_entries'[e].fy]
    BY <2>4, StepEffect DEF LedgerInv, JournalKept, DraftAdded, DraftPosted, ClosingAdded,
                            OrphansAttached, EntryAdded
  <2> QED
    BY <2>3, <2>4
<1> QED
  BY <1>1, LedgerInvariant, PTL DEF Spec, Sealed

\* CloseYear: nothing reopens or edits a closed fiscal year.
THEOREM ClosedForeverTheorem == Spec => ClosedForever
<1>1. LedgerInv /\ [Next]_vars =>
        \A y \in DOMAIN fiscal_years :
          fiscal_years[y].closed => fiscal_years'[y] = fiscal_years[y]
  <2> SUFFICES ASSUME LedgerInv, [Next]_vars,
                      NEW y \in DOMAIN fiscal_years, fiscal_years[y].closed
               PROVE  fiscal_years'[y] = fiscal_years[y]
    OBVIOUS
  <2>1. fiscal_years[y] \in FiscalYear
    BY DEF LedgerInv, RowsOK
  <2>2. [fiscal_years[y] EXCEPT !.closed = TRUE] = fiscal_years[y]
    BY <2>1 DEF FiscalYear
  <2> QED
    BY <2>2, StepEffect DEF LedgerInv, YearsKept
<1> QED
  BY <1>1, LedgerInvariant, PTL DEF Spec, ClosedForever

-----------------------------------------------------------------------------
(* Bank statements: fingerprints and ranks *)

LEMMA SameOperation ==
  ASSUME NEW d \in Operation, NEW e \in Operation
  PROVE  identityKey(d) = identityKey(e) <=> d = e
<1>1. d.ref = e.ref /\ d.amount = e.amount /\ d.credit = e.credit /\ d.party = e.party => d = e
  BY DEF Operation
<1> QED
  BY <1>1 DEF identityKey

\* A fingerprint tells its operation and its rank.
LEMMA PrintsDiffer ==
  ASSUME NEW d \in Operation, NEW e \in Operation, NEW j, NEW k
  PROVE  /\ fingerprintV2(d, j) = fingerprintV2(e, k) => d = e /\ j = k
         /\ fingerprint(d) # fingerprintV2(e, k)
<1>1. fingerprintV2(d, j) = fingerprintV2(e, k) => identityKey(d) = identityKey(e) /\ j = k
  BY DEF fingerprintV2, identityKey
<1>2. fingerprint(d)[1] = "v1" /\ fingerprintV2(e, k)[1] = "v2"
  BY DEF fingerprint, fingerprintV2
<1> QED
  BY <1>1, <1>2, SameOperation

\* An older version kept one row of the operations it could not tell apart.
LEMMA LegacyPrints ==
  ASSUME NEW d \in Legacy, NEW e \in Legacy, fingerprint(d) = fingerprint(e)
  PROVE  d = e
<1>1. d \in Operation /\ e \in Operation
  BY BankingAssumption
<1>2. d.ref = e.ref /\ d.amount = e.amount /\ d.credit = e.credit
  BY DEF fingerprint
<1>3. [d EXCEPT !.party = e.party] = e
  BY <1>1, <1>2 DEF Operation
<1> QED
  BY <1>3, BankingAssumption

\* The operations of a statement that look like the m-th, before it.
Before(ops, m) == {n \in 1 .. m - 1 : ops[n] = ops[m]}

RankOf(ops, m) == Cardinality(Before(ops, m))

LEMMA RankType ==
  ASSUME NEW ops \in Seq(Operation), NEW m \in Nat
  PROVE  IsFiniteSet(Before(ops, m)) /\ RankOf(ops, m) \in Nat
<1>1. IsFiniteSet(1 .. m - 1) /\ Before(ops, m) \in SUBSET (1 .. m - 1)
  BY FS_Interval DEF Before
<1>2. IsFiniteSet(Before(ops, m))
  BY <1>1, FS_Subset
<1> QED
  BY <1>2, FS_CardinalityType DEF RankOf

LEMMA TimesType ==
  ASSUME NEW ops \in Seq(Operation), NEW e
  PROVE  IsFiniteSet({n \in DOMAIN ops : ops[n] = e}) /\ Times(e, ops) \in Nat
<1>1. IsFiniteSet(1 .. Len(ops)) /\ {n \in DOMAIN ops : ops[n] = e} \in SUBSET (1 .. Len(ops))
  BY FS_Interval
<1>2. IsFiniteSet({n \in DOMAIN ops : ops[n] = e})
  BY <1>1, FS_Subset
<1> QED
  BY <1>2, FS_CardinalityType DEF Times

\* The rank of an operation is less than the number of those that look like it.
LEMMA RankBelow ==
  ASSUME NEW ops \in Seq(Operation), NEW m \in DOMAIN ops
  PROVE  RankOf(ops, m) < Times(ops[m], ops)
<1>1. PICK U : U = {n \in DOMAIN ops : ops[n] = ops[m]}
  OBVIOUS
<1>2. m \in 1 .. Len(ops)
  OBVIOUS
<1>3. IsFiniteSet(U) /\ Times(ops[m], ops) = Cardinality(U)
  BY <1>1, TimesType DEF Times
<1>4. m \in U /\ Before(ops, m) \in SUBSET (U \ {m})
  BY <1>1, <1>2 DEF Before
<1>5. IsFiniteSet(U \ {m}) /\ Cardinality(U \ {m}) = Cardinality(U) - 1
  BY <1>3, <1>4, FS_RemoveElement
<1>6. RankOf(ops, m) <= Cardinality(U \ {m})
  BY <1>4, <1>5, FS_Subset DEF RankOf
<1>7. Cardinality(U) \in Nat /\ RankOf(ops, m) \in Nat
  BY <1>2, <1>3, FS_CardinalityType, RankType
<1> QED
  BY <1>3, <1>5, <1>6, <1>7

\* Of two operations that look the same, the later has the higher rank.
LEMMA RanksDiffer ==
  ASSUME NEW ops \in Seq(Operation), NEW m \in DOMAIN ops, NEW n \in DOMAIN ops,
         ops[m] = ops[n], m < n
  PROVE  RankOf(ops, m) < RankOf(ops, n)
<1>1. m \in 1 .. Len(ops) /\ n \in 1 .. Len(ops)
  OBVIOUS
<1>2. IsFiniteSet(Before(ops, n)) /\ m \in Before(ops, n)
      /\ Before(ops, m) \in SUBSET (Before(ops, n) \ {m})
  BY <1>1, RankType DEF Before
<1>3. IsFiniteSet(Before(ops, n) \ {m})
      /\ Cardinality(Before(ops, n) \ {m}) = Cardinality(Before(ops, n)) - 1
  BY <1>2, FS_RemoveElement
<1>4. RankOf(ops, m) <= Cardinality(Before(ops, n) \ {m})
  BY <1>2, <1>3, FS_Subset DEF RankOf
<1>5. RankOf(ops, m) \in Nat /\ RankOf(ops, n) \in Nat
  BY <1>1, RankType
<1> QED
  BY <1>3, <1>4, <1>5 DEF RankOf

-----------------------------------------------------------------------------
(* Bank statements: reading a file *)

(***************************************************************************)
(* A total is the last of the running sums, and the operations of a file   *)
(* are those of its entries, one entry after the other.  What holds at     *)
(* every index is proved from a least index that would not have it.        *)
(***************************************************************************)

\* A set of natural numbers that is not empty has a least element.
LEMMA LeastNumber ==
  ASSUME NEW T \in SUBSET Nat, T # {}
  PROVE  \E n \in T : \A m \in T : n <= m
<1> DEFINE R == {ss \in Nat \X Nat : ss[1] < ss[2]}
<1>1. IsWellFoundedOn(R, Nat)
  <2>1. OpToRel(<, Nat) = R
    BY DEF OpToRel
  <2> QED
    BY <2>1, NatLessThanWellFounded
<1>2. PICK n \in T : \A m \in T : ~(<<m, n>> \in R)
  <2> HIDE DEF R
  <2> QED
    BY <1>1, WFMin
<1>3. \A m \in T : n <= m
  <2> TAKE m \in T
  <2>1. m < n => <<m, n>> \in R
    OBVIOUS
  <2> HIDE DEF R
  <2> QED
    BY <1>2, <2>1
<1> QED
  BY <1>3

\* g holds the total of the transactions over each set of indices of C, as
\* FoldLeft computes it: the last one is added to the total of the others.
Totals(g, txs, C) ==
  g = [s \in C |-> IF s = {} THEN 0 ELSE g[s \ {Max(s)}] + txs[Max(s)].amount]

LEMMA TotalIsChosen ==
  ASSUME NEW txs
  PROVE  Total(txs) = (CHOOSE g : Totals(g, txs, SUBSET DOMAIN txs))[DOMAIN txs]
  BY DEF Total, FoldLeft, MapThenFoldSet, Totals

LEMMA MaxOfPrefix ==
  ASSUME NEW n \in Nat, NEW s \in SUBSET (1 .. n), n \in s
  PROVE  Max(s) = n
<1>1. \E x \in s : \A y \in s : x >= y
  OBVIOUS
<1>2. Max(s) \in s /\ \A y \in s : Max(s) >= y
  BY <1>1 DEF Max
<1>3. Max(s) \in 1 .. n
  BY <1>2
<1>4. Max(s) >= n
  BY <1>2
<1> QED
  BY <1>3, <1>4

LEMMA TotalsExist ==
  ASSUME NEW txs, NEW n \in Nat
  PROVE  \E g : Totals(g, txs, SUBSET (1 .. n))
<1> DEFINE B == {k \in Nat : ~ \E g : Totals(g, txs, SUBSET (1 .. k))}
<1> SUFFICES ASSUME B # {} PROVE FALSE
  OBVIOUS
<1>1. PICK k \in B : \A m \in B : k <= m
  <2>1. B \in SUBSET Nat
    OBVIOUS
  <2> HIDE DEF B
  <2> QED
    BY <2>1, LeastNumber
<1>2. k \in Nat /\ ~ \E g : Totals(g, txs, SUBSET (1 .. k))
  OBVIOUS
<1>3. k # 0
  <2> SUFFICES ASSUME k = 0 PROVE FALSE
    OBVIOUS
  <2> DEFINE g == [s \in SUBSET (1 .. 0) |-> 0]
  <2>1. \A s \in SUBSET (1 .. 0) : s = {}
    OBVIOUS
  <2>2. Totals(g, txs, SUBSET (1 .. 0))
    BY <2>1 DEF Totals
  <2> HIDE DEF g
  <2> QED
    BY <1>2, <2>2
<1>4. k - 1 \in Nat /\ k - 1 \notin B
  <2>1. k - 1 \in Nat /\ ~(k <= k - 1)
    BY <1>2, <1>3
  <2> HIDE DEF B
  <2> QED
    BY <1>1, <2>1
<1>5. PICK g : Totals(g, txs, SUBSET (1 .. k - 1))
  BY <1>4
<1> DEFINE total(s) == IF s = {} THEN 0 ELSE g[s \ {Max(s)}] + txs[Max(s)].amount
           h == [s \in SUBSET (1 .. k) |-> total(s)]
<1>6. \A s \in SUBSET (1 .. k) : s # {} => s \ {Max(s)} \in SUBSET (1 .. k - 1)
  <2> TAKE s \in SUBSET (1 .. k)
  <2>1. \A x \in s : x \in 1 .. k
    OBVIOUS
  <2>2. \A x \in s \ {Max(s)} : x # k
    BY <1>2, MaxOfPrefix
  <2>3. \A x \in s \ {Max(s)} : x \in 1 .. k - 1
    BY <1>2, <2>1, <2>2
  <2> QED
    BY <2>3
<1>7. \A s \in SUBSET (1 .. k - 1) : g[s] = total(s) /\ s \in SUBSET (1 .. k)
  <2> TAKE s \in SUBSET (1 .. k - 1)
  <2>1. g[s] = total(s)
    BY <1>5 DEF Totals
  <2>2. \A x \in s : x \in 1 .. k
    BY <1>2
  <2> QED
    BY <2>1, <2>2
<1>8. \A s \in SUBSET (1 .. k) : s # {} => h[s \ {Max(s)}] = g[s \ {Max(s)}]
  <2> TAKE s \in SUBSET (1 .. k)
  <2> HAVE s # {}
  <2>1. PICK t : t = s \ {Max(s)}
    OBVIOUS
  <2>2. t \in SUBSET (1 .. k - 1)
    BY <1>6, <2>1
  <2>3. h[t] = g[t]
    <3> HIDE DEF total
    <3> QED
      BY <1>7, <2>2
  <2> HIDE DEF h
  <2> QED
    BY <2>1, <2>3
<1>9. h = [s \in SUBSET (1 .. k) |-> IF s = {} THEN 0 ELSE h[s \ {Max(s)}] + txs[Max(s)].amount]
  BY <1>8
<1>10. Totals(h, txs, SUBSET (1 .. k))
  <2> HIDE DEF h
  <2> QED
    BY <1>9 DEF Totals
<1> QED
  BY <1>2, <1>10

\* sum[k] is the total of the first k.
RunningSum(sum, txs, n) ==
  sum[0] = 0 /\ \A k \in 1 .. n : sum[k] = sum[k - 1] + txs[k].amount

\* A total is the last of some running sums.
LEMMA TotalRuns ==
  ASSUME NEW txs, NEW n \in Nat, DOMAIN txs = 1 .. n
  PROVE  \E sum : RunningSum(sum, txs, n) /\ Total(txs) = sum[n]
<1> DEFINE g == CHOOSE h : Totals(h, txs, SUBSET (1 .. n))
           sum == [k \in 0 .. n |-> g[1 .. k]]
<1>1. Totals(g, txs, SUBSET (1 .. n)) /\ Total(txs) = g[1 .. n]
  BY TotalsExist, TotalIsChosen
<1> HIDE DEF g
<1>2. 1 .. 0 = {} /\ {} \in SUBSET (1 .. n)
  OBVIOUS
<1>3. sum[0] = 0
  BY <1>1, <1>2 DEF Totals
<1>4. ASSUME NEW k \in 1 .. n
      PROVE  sum[k] = sum[k - 1] + txs[k].amount
  <2>1. PICK s : s = 1 .. k
    OBVIOUS
  <2>2. s # {} /\ s \in SUBSET (1 .. n) /\ Max(s) = k /\ s \ {k} = 1 .. k - 1
    <3>1. k \in Nat /\ k \in s /\ s \in SUBSET (1 .. k)
      BY <2>1
    <3>2. Max(s) = k
      BY <3>1, MaxOfPrefix
    <3>3. \A x \in s : x \in 1 .. n
      BY <2>1
    <3>4. \A x : x \in s \ {k} <=> x \in 1 .. k - 1
      BY <2>1
    <3>5. s \ {k} = 1 .. k - 1
      BY <3>4
    <3> QED
      BY <3>1, <3>2, <3>3, <3>5
  <2>3. g[s] = g[s \ {k}] + txs[k].amount
    BY <1>1, <2>2 DEF Totals
  <2>4. sum[k] = g[s] /\ sum[k - 1] = g[1 .. k - 1]
    BY <2>1
  <2> HIDE DEF sum
  <2> QED
    BY <2>2, <2>3, <2>4
<1>5. sum[n] = Total(txs)
  BY <1>1
<1> HIDE DEF sum
<1> QED
  BY <1>3, <1>4, <1>5 DEF RunningSum

\* Of whatever running sums, as there is one of each length.
LEMMA TotalIsSum ==
  ASSUME NEW txs, NEW n \in Nat, DOMAIN txs = 1 .. n, \A k \in 1 .. n : txs[k].amount \in Int,
         NEW sum, RunningSum(sum, txs, n)
  PROVE  /\ Total(txs) = sum[n] /\ Total(txs) \in Int
         /\ \A k \in 0 .. n : sum[k] \in Int
<1>1. PICK t : RunningSum(t, txs, n) /\ Total(txs) = t[n]
  BY TotalRuns
<1> DEFINE B == {k \in 0 .. n : ~(t[k] = sum[k] /\ sum[k] \in Int)}
<1>2. B = {}
  <2> SUFFICES ASSUME B # {} PROVE FALSE
    OBVIOUS
  <2>1. PICK k \in B : \A m \in B : k <= m
    <3>1. B \in SUBSET Nat
      OBVIOUS
    <3> HIDE DEF B
    <3> QED
      BY <3>1, LeastNumber
  <2>2. k \in 0 .. n /\ ~(t[k] = sum[k] /\ sum[k] \in Int)
    OBVIOUS
  <2>3. k # 0
    BY <1>1, <2>2 DEF RunningSum
  <2>4. k \in 1 .. n /\ k - 1 \in 0 .. n /\ k - 1 \notin B
    <3>1. k \in 1 .. n /\ k - 1 \in 0 .. n /\ ~(k <= k - 1)
      BY <2>2, <2>3
    <3> HIDE DEF B
    <3> QED
      BY <2>1, <3>1
  <2>5. t[k - 1] = sum[k - 1] /\ sum[k - 1] \in Int
    BY <2>4
  <2>6. /\ t[k] = t[k - 1] + txs[k].amount /\ sum[k] = sum[k - 1] + txs[k].amount
        /\ txs[k].amount \in Int
    BY <1>1, <2>4 DEF RunningSum
  <2> QED
    BY <2>2, <2>5, <2>6
<1>3. \A k \in 0 .. n : t[k] = sum[k] /\ sum[k] \in Int
  BY <1>2
<1> QED
  BY <1>1, <1>3

\* The total of operations joined is the total of both.
LEMMA TotalJoins ==
  ASSUME NEW s \in Seq(Operation), NEW t \in Seq(Operation)
  PROVE  Total(s \o t) = Total(s) + Total(t) /\ Total(s) \in Int /\ Total(t) \in Int
<1>1. PICK m \in Nat, n \in Nat : m = Len(s) /\ n = Len(t)
  OBVIOUS
<1>2. /\ DOMAIN s = 1 .. m /\ \A k \in 1 .. m : s[k].amount \in Int
      /\ DOMAIN t = 1 .. n /\ \A k \in 1 .. n : t[k].amount \in Int
  <2>1. \A k \in 1 .. m : s[k] \in Operation
    BY <1>1
  <2>2. \A k \in 1 .. n : t[k] \in Operation
    BY <1>1
  <2> QED
    BY <1>1, <2>1, <2>2 DEF Operation
<1>3. PICK a : RunningSum(a, s, m)
  BY <1>2, TotalRuns
<1>4. PICK b : RunningSum(b, t, n)
  BY <1>2, TotalRuns
<1>5. Total(s) = a[m] /\ Total(s) \in Int /\ \A k \in 0 .. m : a[k] \in Int
  BY <1>2, <1>3, TotalIsSum
<1>6. Total(t) = b[n] /\ Total(t) \in Int /\ \A k \in 0 .. n : b[k] \in Int
  BY <1>2, <1>4, TotalIsSum
<1>7. PICK u : u = s \o t
  OBVIOUS
<1>8. /\ DOMAIN u = 1 .. m + n
      /\ \A k \in 1 .. m : u[k] = s[k]
      /\ \A k \in 1 .. n : u[m + k] = t[k]
  BY <1>1, <1>7
<1> DEFINE c == [k \in 0 .. m + n |-> IF k <= m THEN a[k] ELSE a[m] + b[k - m]]
<1>9. RunningSum(c, u, m + n)
  <2>1. c[0] = 0
    BY <1>3 DEF RunningSum
  <2>2. ASSUME NEW k \in 1 .. m + n
        PROVE  c[k] = c[k - 1] + u[k].amount
    <3>1. CASE k <= m
      <4>1. k \in 1 .. m /\ k - 1 <= m /\ k - 1 \in 0 .. m + n
        BY <3>1
      <4>2. c[k] = a[k] /\ c[k - 1] = a[k - 1]
        BY <3>1, <4>1
      <4> HIDE DEF c
      <4> QED
        BY <1>3, <1>8, <4>1, <4>2 DEF RunningSum
    <3>2. CASE k > m
      <4>1. PICK j : j = k - m
        OBVIOUS
      <4>2. j \in 1 .. n /\ k = m + j /\ k - 1 \in 0 .. m + n
        BY <3>2, <4>1
      <4>3. c[k] = a[m] + b[j]
        BY <3>2, <4>1
      <4>4. b[j] = b[j - 1] + t[j].amount /\ b[j - 1] \in Int /\ t[j].amount \in Int /\ a[m] \in Int
        BY <1>2, <1>4, <1>5, <1>6, <4>2 DEF RunningSum
      <4>5. c[k - 1] = a[m] + b[j - 1]
        <5>1. CASE j = 1
          <6>1. k - 1 = m /\ b[j - 1] = 0
            BY <1>4, <4>2, <5>1 DEF RunningSum
          <6> QED
            BY <4>2, <4>4, <6>1
        <5>2. CASE j # 1
          <6>1. ~(k - 1 <= m) /\ (k - 1) - m = j - 1
            BY <4>2, <5>2
          <6> QED
            BY <4>2, <6>1
        <5> QED
          BY <5>1, <5>2
      <4>6. u[k].amount = t[j].amount
        BY <1>8, <4>2
      <4> HIDE DEF c
      <4> QED
        BY <4>3, <4>4, <4>5, <4>6
    <3> QED
      BY <3>1, <3>2
  <2> HIDE DEF c
  <2> QED
    BY <2>1, <2>2 DEF RunningSum
<1>10. \A k \in 1 .. m + n : u[k].amount \in Int
  <2> TAKE k \in 1 .. m + n
  <2>1. k \in 1 .. m \/ (k - m \in 1 .. n /\ k = m + (k - m))
    OBVIOUS
  <2> QED
    BY <1>2, <1>8, <2>1
<1>11. c[m + n] = Total(s) + Total(t)
  <2>1. CASE n = 0
    <3>1. b[n] = 0
      BY <1>4, <2>1 DEF RunningSum
    <3> QED
      BY <1>5, <1>6, <2>1, <3>1
  <2>2. CASE n # 0
    <3>1. ~(m + n <= m) /\ (m + n) - m = n /\ m + n \in 0 .. m + n
      BY <2>2
    <3> QED
      BY <1>5, <1>6, <3>1
  <2> QED
    BY <2>1, <2>2
<1>12. Total(u) = c[m + n]
  <2>1. m + n \in Nat
    OBVIOUS
  <2> HIDE DEF c
  <2> QED
    BY <1>8, <1>9, <1>10, <2>1, TotalIsSum
<1> HIDE DEF c
<1> QED
  BY <1>5, <1>6, <1>7, <1>11, <1>12

LEMMA TotalOfNone == Total(<<>>) = 0
<1>1. DOMAIN <<>> = 1 .. 0
  OBVIOUS
<1>2. \E sum : RunningSum(sum, <<>>, 0) /\ Total(<<>>) = sum[0]
  BY <1>1, TotalRuns
<1> QED
  BY <1>2 DEF RunningSum

LEMMA TotalOfOne ==
  ASSUME NEW e \in Operation
  PROVE  Total(<<e>>) = e.amount
<1>1. PICK s : s = <<e>>
  OBVIOUS
<1>2. DOMAIN s = 1 .. 1 /\ s[1] = e /\ e.amount \in Int
  BY <1>1 DEF Operation
<1>3. PICK sum : RunningSum(sum, s, 1) /\ Total(s) = sum[1]
  BY <1>2, TotalRuns
<1> QED
  BY <1>1, <1>2, <1>3 DEF RunningSum

\* What is kept of one entry is operations, and they make its amount.
LEMMA EntryInFull ==
  ASSUME NEW ntry \in Booking
  PROVE  ReadEntry(ntry) \in Seq(Operation) /\ Total(ReadEntry(ntry)) = ntry.amount
<1>1. PICK txs, n : txs = ntry.txs /\ n = Len(txs)
  OBVIOUS
<1>2. /\ txs \in Seq(Transaction) /\ n \in Nat /\ DOMAIN txs = 1 .. n
      /\ ntry.amount \in Int /\ ntry.credit \in BOOLEAN
  BY <1>1 DEF Booking
<1>3. \A k \in 1 .. n : txs[k] \in Transaction
  BY <1>1, <1>2
<1>4. \A k \in 1 .. n, amount \in Int : /\ WithTxDetails(ntry, txs[k], amount) \in Operation
                                        /\ WithTxDetails(ntry, txs[k], amount).amount = amount
  BY <1>2, <1>3 DEF WithTxDetails, Transaction, Operation
<1>5. CASE n = 1
  <2>1. PICK e : e = WithTxDetails(ntry, txs[1], ntry.amount)
    OBVIOUS
  <2>2. e \in Operation /\ e.amount = ntry.amount
    BY <1>2, <1>4, <1>5, <2>1
  <2>3. ReadEntry(ntry) = <<e>>
    BY <1>1, <1>5, <2>1 DEF ReadEntry
  <2> QED
    BY <2>2, <2>3, TotalOfOne
<1>6. CASE n > 1 /\ CanSplit(ntry)
  <2>1. PICK s : s = [k \in 1 .. n |-> WithTxDetails(ntry, txs[k], txs[k].amount)]
    OBVIOUS
  <2>2. ReadEntry(ntry) = s
    <3>0. Len(ntry.txs) = n /\ DOMAIN ntry.txs = DOMAIN txs
      BY <1>1
    <3>1. Len(ntry.txs) # 1 /\ Len(ntry.txs) > 1 /\ DOMAIN ntry.txs = 1 .. n
      BY <1>2, <1>6, <3>0
    <3>2. ReadEntry(ntry) =
            [k \in DOMAIN ntry.txs |-> WithTxDetails(ntry, ntry.txs[k], ntry.txs[k].amount)]
      BY <1>6, <3>1 DEF ReadEntry
    <3> QED
      BY <1>1, <2>1, <3>1, <3>2
  <2>3. \A k \in 1 .. n : txs[k].amount \in Int
    BY <1>3 DEF Transaction
  <2>4. \A k \in 1 .. n : s[k] \in Operation /\ s[k].amount = txs[k].amount
    BY <1>4, <2>1, <2>3
  <2>5. DOMAIN s = 1 .. n
    BY <2>1
  <2>6. s \in Seq(Operation)
    BY <1>2, <2>1, <2>4
  <2>7. PICK sum : RunningSum(sum, txs, n) /\ Total(txs) = sum[n]
    BY <1>2, TotalRuns
  <2>8. RunningSum(sum, s, n)
    BY <2>4, <2>7 DEF RunningSum
  <2>9. \A k \in 1 .. n : s[k].amount \in Int
    BY <2>3, <2>4
  <2>10. Total(s) = sum[n]
    BY <1>2, <2>5, <2>8, <2>9, TotalIsSum
  <2> QED
    BY <1>1, <1>6, <2>2, <2>6, <2>7, <2>10 DEF CanSplit
<1>7. CASE n # 1 /\ ~(n > 1 /\ CanSplit(ntry))
  <2>1. PICK e : e = [ref |-> "", amount |-> ntry.amount, party |-> "", credit |-> ntry.credit]
    OBVIOUS
  <2>2. e \in Operation /\ e.amount = ntry.amount
    <3>1. "" \in Texts
      BY BankingAssumption
    <3> QED
      BY <1>2, <2>1, <3>1 DEF Operation
  <2>3. ReadEntry(ntry) = <<e>>
    BY <1>1, <1>7, <2>1 DEF ReadEntry
  <2> QED
    BY <2>2, <2>3, TotalOfOne
<1> QED
  BY <1>2, <1>5, <1>6, <1>7

\* f[i] joins the first i of the sequences.
Joins(f, ss, n) == f = [i \in 1 .. n |-> IF i = 1 THEN ss[i] ELSE f[i - 1] \o ss[i]]

LEMMA JoinsExist ==
  ASSUME NEW ss, NEW n \in Nat
  PROVE  \E f : Joins(f, ss, n)
<1> DEFINE B == {k \in Nat : ~ \E f : Joins(f, ss, k)}
<1> SUFFICES ASSUME B # {} PROVE FALSE
  OBVIOUS
<1>1. PICK k \in B : \A m \in B : k <= m
  <2>1. B \in SUBSET Nat
    OBVIOUS
  <2> HIDE DEF B
  <2> QED
    BY <2>1, LeastNumber
<1>2. k \in Nat /\ ~ \E f : Joins(f, ss, k)
  OBVIOUS
<1>3. k # 0
  <2> SUFFICES ASSUME k = 0 PROVE FALSE
    OBVIOUS
  <2> DEFINE f == [i \in 1 .. 0 |-> 0]
  <2>1. Joins(f, ss, 0)
    BY DEF Joins
  <2> HIDE DEF f
  <2> QED
    BY <1>2, <2>1
<1>4. k - 1 \in Nat /\ k - 1 \notin B
  <2>1. k - 1 \in Nat /\ ~(k <= k - 1)
    BY <1>2, <1>3
  <2> HIDE DEF B
  <2> QED
    BY <1>1, <2>1
<1>5. PICK f : Joins(f, ss, k - 1)
  BY <1>4
<1> DEFINE joined(i) == IF i = 1 THEN ss[i] ELSE f[i - 1] \o ss[i]
           h == [i \in 1 .. k |-> joined(i)]
<1>6. \A i \in 1 .. k - 1 : f[i] = joined(i)
  BY <1>5 DEF Joins
<1>7. \A i \in 1 .. k : i # 1 => h[i - 1] = f[i - 1]
  <2> HIDE DEF joined
  <2>1. \A i \in 1 .. k : i # 1 => i - 1 \in 1 .. k - 1 /\ i - 1 \in 1 .. k
    BY <1>2
  <2> QED
    BY <1>6, <2>1
<1>8. h = [i \in 1 .. k |-> IF i = 1 THEN ss[i] ELSE h[i - 1] \o ss[i]]
  BY <1>7
<1>9. Joins(h, ss, k)
  <2> HIDE DEF h
  <2> QED
    BY <1>8 DEF Joins
<1> QED
  BY <1>2, <1>9

LEMMA FlatIsJoined ==
  ASSUME NEW ss, Len(ss) \in Nat, Len(ss) # 0
  PROVE  \E f : Joins(f, ss, Len(ss)) /\ FlattenSeq(ss) = f[Len(ss)]
<1> DEFINE f == CHOOSE g : Joins(g, ss, Len(ss))
<1>1. Joins(f, ss, Len(ss))
  BY JoinsExist
<1>2. FlattenSeq(ss) = f[Len(ss)]
  BY DEF FlattenSeq, Joins
<1> HIDE DEF f
<1> QED
  BY <1>1, <1>2

\* What is kept of a file is operations, and they make what the bank booked in
\* amounts that can be read.
LEMMA FileInFull ==
  ASSUME NEW file \in Statements
  PROVE  ParseCamt053(file) \in Seq(Operation) /\ Total(ParseCamt053(file)) = Total(BookedAndRead(file))
<1>1. PICK n, ss, bb : /\ n = Len(file)
                       /\ ss = [k \in DOMAIN file |-> IF IsRead(file[k]) THEN ReadEntry(file[k]) ELSE <<>>]
                       /\ bb = BookedAndRead(file)
  OBVIOUS
<1>2. file \in Seq(Booking) /\ n \in Nat /\ DOMAIN file = 1 .. n
  <2>1. file \in Seq(Booking)
    BY BankingAssumption
  <2> QED
    BY <1>1, <2>1
<1>3. \A k \in 1 .. n : file[k] \in Booking
  BY <1>1, <1>2
<1>4. DOMAIN bb = 1 .. n /\ \A k \in 1 .. n : bb[k].amount = IF IsRead(file[k]) THEN file[k].amount ELSE 0
  BY <1>1, <1>2 DEF BookedAndRead
<1>5. \A k \in 1 .. n : bb[k].amount \in Int
  BY <1>3, <1>4 DEF Booking
<1>6. \A k \in 1 .. n : ss[k] \in Seq(Operation) /\ Total(ss[k]) = bb[k].amount
  <2> TAKE k \in 1 .. n
  <2>1. CASE IsRead(file[k])
    BY <1>1, <1>2, <1>3, <1>4, <2>1, EntryInFull
  <2>2. CASE ~IsRead(file[k])
    <3>1. ss[k] = <<>> /\ bb[k].amount = 0
      BY <1>1, <1>2, <1>4, <2>2
    <3> QED
      BY <3>1, TotalOfNone
  <2> QED
    BY <2>1, <2>2
<1>7. PICK sum : RunningSum(sum, bb, n) /\ Total(bb) = sum[n]
  BY <1>2, <1>4, TotalRuns
<1>8. \A k \in 0 .. n : sum[k] \in Int
  BY <1>2, <1>4, <1>5, <1>7, TotalIsSum
<1>9. ss \in Seq(Seq(Operation)) /\ Len(ss) = n
  BY <1>1, <1>2, <1>6
<1>10. CASE n = 0
  <2>1. ss = <<>>
    BY <1>9, <1>10
  <2>2. ParseCamt053(file) = <<>>
    BY <1>1, <2>1 DEF ParseCamt053, FlattenSeq
  <2>3. Total(bb) = 0
    BY <1>7, <1>10 DEF RunningSum
  <2> QED
    BY <1>1, <2>2, <2>3, TotalOfNone
<1>11. CASE n # 0
  <2>1. PICK f : Joins(f, ss, n) /\ FlattenSeq(ss) = f[n]
    BY <1>2, <1>9, <1>11, FlatIsJoined
  <2> DEFINE Good(i) == f[i] \in Seq(Operation) /\ Total(f[i]) = sum[i]
             B == {i \in 1 .. n : ~Good(i)}
  <2>2. \A i \in 1 .. n : f[i] = IF i = 1 THEN ss[i] ELSE f[i - 1] \o ss[i]
    BY <2>1 DEF Joins
  <2>3. B = {}
    <3> SUFFICES ASSUME B # {} PROVE FALSE
      OBVIOUS
    <3>1. PICK i \in B : \A m \in B : i <= m
      <4>1. B \in SUBSET Nat
        OBVIOUS
      <4> HIDE DEF B
      <4> QED
        BY <4>1, LeastNumber
    <3>2. i \in 1 .. n /\ ~Good(i)
      OBVIOUS
    <3>3. sum[i] = sum[i - 1] + bb[i].amount /\ sum[0] = 0
      BY <1>7, <3>2 DEF RunningSum
    <3>4. bb[i].amount \in Int /\ ss[i] \in Seq(Operation) /\ Total(ss[i]) = bb[i].amount
      BY <1>5, <1>6, <3>2
    <3>5. CASE i = 1
      BY <2>2, <3>2, <3>3, <3>4, <3>5
    <3>6. CASE i # 1
      <4>1. i - 1 \in 1 .. n /\ ~(i <= i - 1)
        <5>1. i \in Nat /\ i <= n /\ 1 <= i
          BY <1>2, <3>2
        <5> QED
          BY <1>2, <3>6, <5>1
      <4>2. Good(i - 1)
        <5>1. i - 1 \notin B
          <6> HIDE DEF B
          <6> QED
            BY <3>1, <4>1
        <5> QED
          BY <4>1, <5>1
      <4>3. f[i] = f[i - 1] \o ss[i]
        BY <2>2, <3>2, <3>6
      <4>4. f[i] \in Seq(Operation)
        BY <3>4, <4>2, <4>3
      <4>5. Total(f[i]) = Total(f[i - 1]) + Total(ss[i])
        BY <3>4, <4>2, <4>3, TotalJoins
      <4> QED
        BY <3>2, <3>3, <3>4, <4>2, <4>4, <4>5
    <3> QED
      BY <3>5, <3>6
  <2>4. n \in 1 .. n
    BY <1>2, <1>11
  <2>5. Good(n)
    BY <2>3, <2>4
  <2>6. ParseCamt053(file) = f[n]
    BY <1>1, <2>1 DEF ParseCamt053
  <2> QED
    BY <1>1, <1>7, <2>5, <2>6
<1> QED
  BY <1>10, <1>11

LEMMA FilesAreOperations ==
  ASSUME NEW file \in Statements
  PROVE  ParseCamt053(file) \in Seq(Operation)
  BY FileInFull

-----------------------------------------------------------------------------
(* Bank statements: the inductive invariant *)

RowType == [op : Operation, invoice : Invoices \cup {NoInvoice}, ignored : BOOLEAN]

\* The m-th operation of a statement is in the table.
Held(ops, m) ==
  \/ fingerprintV2(ops[m], RankOf(ops, m)) \in DOMAIN rows
  \/ RankOf(ops, m) = 0 /\ ops[m] \in Legacy

\* A row of an older version, and one that an import inserted: some statement
\* shows an operation of its rank.
LegacyRow(f) == \E e \in Legacy : f = fingerprint(e) /\ rows[f].op = e

RankedRow(f) ==
  \E e \in Operation, k \in Nat :
    /\ f = fingerprintV2(e, k) /\ rows[f].op = e
    /\ k = 0 => e \notin Legacy
    /\ \E ops \in started : k < Times(e, ops)

OperationsOK ==
  /\ IsFiniteSet(DOMAIN rows)
  /\ \A f \in DOMAIN rows : rows[f] \in RowType
  /\ \A e \in Legacy : fingerprint(e) \in DOMAIN rows
  /\ \A f \in DOMAIN rows : LegacyRow(f) \/ RankedRow(f)

\* What precedes the operation at hand is kept, and what was looked up in vain
\* is in no row of an older version.
AtWork(p) ==
  /\ import[p].ops \in started
  /\ import[p].next \in 1 .. Len(import[p].ops)
  /\ \A m \in 1 .. import[p].next - 1 : Held(import[p].ops, m)
  /\ import[p].looked /\ RankOf(import[p].ops, import[p].next) = 0
       => import[p].ops[import[p].next] \notin Legacy

ImportType == [ops : Seq(Operation), next : Nat, looked : BOOLEAN]

ImportsOK ==
  /\ import \in [Importers -> ImportType]
  /\ \A p \in Importers : import[p] = AtRest \/ AtWork(p)

EndedOK == imported \subseteq started /\ \A ops \in imported : \A m \in DOMAIN ops : Held(ops, m)

BankingInv ==
  /\ started \subseteq Files
  /\ status \in [Invoices -> {"draft", "sent", "paid"}]
  /\ OperationsOK /\ ImportsOK /\ EndedOK

LEMMA OpsOfFiles ==
  ASSUME started \subseteq Files
  PROVE  started \subseteq Seq(Operation)
  BY FilesAreOperations DEF Files

-----------------------------------------------------------------------------
(* Bank statements: frames *)

\* A row is never lost, so what was held stays held.
LEMMA HeldStays ==
  ASSUME DOMAIN rows \subseteq DOMAIN rows', NEW ops, NEW m, Held(ops, m)
  PROVE  Held(ops, m)'
  BY DEF Held

\* A row that keeps its operation keeps its reason to be.
LEMMA RowStays ==
  ASSUME NEW f \in DOMAIN rows, rows'[f].op = rows[f].op, started \subseteq started',
         LegacyRow(f) \/ RankedRow(f)
  PROVE  LegacyRow(f)' \/ RankedRow(f)'
  BY DEF LegacyRow, RankedRow

LEMMA ImportStays ==
  ASSUME DOMAIN rows \subseteq DOMAIN rows', started \subseteq started',
         NEW p \in Importers, import'[p] = import[p], import[p] = AtRest \/ AtWork(p)
  PROVE  (import[p] = AtRest \/ AtWork(p))'
<1>1. CASE import[p] = AtRest
  BY <1>1 DEF AtRest
<1>2. CASE AtWork(p)
  <2>1. PICK ops, n : ops = import[p].ops /\ n = import[p].next
    OBVIOUS
  <2>2. \A m \in 1 .. n - 1 : Held(ops, m)
    BY <1>2, <2>1 DEF AtWork
  <2>3. \A m \in 1 .. n - 1 : Held(ops, m)'
    BY <2>2, HeldStays
  <2>4. AtWork(p)'
    BY <1>2, <2>1, <2>3 DEF AtWork
  <2> QED
    BY <2>4
<1> QED
  BY <1>1, <1>2

LEMMA EndedStays ==
  ASSUME DOMAIN rows \subseteq DOMAIN rows', started \subseteq started', EndedOK,
         UNCHANGED imported
  PROVE  EndedOK'
<1>1. \A ops \in imported : \A m \in DOMAIN ops : Held(ops, m)'
  BY HeldStays DEF EndedOK
<1> QED
  BY <1>1 DEF EndedOK

-----------------------------------------------------------------------------
(* Bank statements: steps *)

\* The rank the import counts is the one of the invariant.
LEMMA RankIsRankOf ==
  ASSUME NEW p \in Importers, import[p] \in ImportType,
         import[p].next \in 1 .. Len(import[p].ops)
  PROVE  /\ Op(p) \in Operation /\ Op(p) = import[p].ops[import[p].next]
         /\ Rank(p) = RankOf(import[p].ops, import[p].next)
<1>1. PICK ops, n : ops = import[p].ops /\ n = import[p].next
  OBVIOUS
<1>2. ops \in Seq(Operation) /\ n \in 1 .. Len(ops)
  BY <1>1 DEF ImportType
<1>3. ops[n] \in Operation /\ \A m \in 1 .. n - 1 : ops[m] \in Operation
  BY <1>2
<1>4. {m \in 1 .. n - 1 : identityKey(ops[m]) = identityKey(ops[n])} = Before(ops, n)
  BY <1>3, SameOperation DEF Before
<1> QED
  BY <1>1, <1>3, <1>4 DEF Rank, RankOf, Op

\* An import that goes on, or ends, once the operation at hand is held.
LEMMA AdvanceKeeps ==
  ASSUME BankingInv, NEW p \in Importers, Importing(p), AtWork(p), Advance(p),
         DOMAIN rows \subseteq DOMAIN rows', UNCHANGED started,
         \A ops, n : ops = import[p].ops /\ n = import[p].next => Held(ops, n)'
  PROVE  ImportsOK' /\ EndedOK'
<1>1. PICK ops, n : ops = import[p].ops /\ n = import[p].next
  OBVIOUS
<1>2. import[p] \in ImportType /\ import \in [Importers -> ImportType]
  BY DEF BankingInv, ImportsOK
<1>3. ops \in Seq(Operation) /\ n \in 1 .. Len(ops) /\ ops \in started
  BY <1>1, <1>2 DEF AtWork, ImportType
<1>4. Held(ops, n)'
  BY <1>1
<1>5. \A m \in 1 .. n : Held(ops, m)'
  <2>1. \A m \in 1 .. n - 1 : Held(ops, m)
    BY <1>1 DEF AtWork
  <2>2. \A m \in 1 .. n - 1 : Held(ops, m)'
    BY <2>1, HeldStays
  <2>3. \A m \in 1 .. n : m = n \/ m \in 1 .. n - 1
    BY <1>3
  <2> QED
    BY <1>4, <2>2, <2>3
<1>6. CASE n = Len(ops)
  <2>1. import' = [import EXCEPT ![p] = AtRest] /\ imported' = imported \cup {ops}
    BY <1>1, <1>6 DEF Advance
  <2>2. AtRest \in ImportType
    BY DEF AtRest, ImportType
  <2>3. import' \in [Importers -> ImportType] /\ import'[p] = AtRest
    BY <1>2, <2>1, <2>2
  <2>4. \A q \in Importers \ {p} : (import[q] = AtRest \/ AtWork(q))'
    BY <1>2, <2>1, ImportStays DEF BankingInv, ImportsOK
  <2>5. ImportsOK'
    BY <2>3, <2>4 DEF ImportsOK, AtRest
  <2>6. \A m \in DOMAIN ops : Held(ops, m)'
    BY <1>3, <1>5, <1>6
  <2>7. \A o \in imported : \A m \in DOMAIN o : Held(o, m)'
    BY HeldStays DEF BankingInv, EndedOK
  <2>8. EndedOK'
    BY <1>3, <2>1, <2>6, <2>7 DEF EndedOK, BankingInv
  <2> QED
    BY <2>5, <2>8
<1>7. CASE n # Len(ops)
  <2>1. import' = [import EXCEPT ![p].next = @ + 1, ![p].looked = FALSE] /\ imported' = imported
    BY <1>1, <1>7 DEF Advance
  <2>2. import'[p] = [ops |-> ops, next |-> n + 1, looked |-> FALSE]
    BY <1>1, <1>2, <2>1 DEF ImportType
  <2>3. import' \in [Importers -> ImportType]
    <3>1. [ops |-> ops, next |-> n + 1, looked |-> FALSE] \in ImportType
      BY <1>3 DEF ImportType
    <3>2. \A q \in Importers \ {p} : import'[q] = import[q]
      BY <1>2, <2>1
    <3>3. import' = [q \in Importers |-> import'[q]]
      BY <1>2, <2>1
    <3> QED
      BY <1>2, <2>2, <3>1, <3>2, <3>3
  <2>4. \A q \in Importers \ {p} : (import[q] = AtRest \/ AtWork(q))'
    BY <1>2, <2>1, ImportStays DEF BankingInv, ImportsOK
  <2>5. AtWork(p)'
    <3>1. n + 1 \in 1 .. Len(ops) /\ n + 1 - 1 = n
      BY <1>3, <1>7
    <3>2. \A m \in 1 .. n + 1 - 1 : Held(ops, m)'
      BY <1>5, <3>1
    <3>3. import'[p].ops = ops /\ import'[p].next = n + 1 /\ ~import'[p].looked
      BY <2>2
    <3> QED
      BY <1>3, <3>1, <3>2, <3>3 DEF AtWork
  <2>6. ImportsOK'
    BY <2>3, <2>4, <2>5 DEF ImportsOK
  <2>7. EndedOK'
    BY <2>1, EndedStays DEF BankingInv
  <2> QED
    BY <2>6, <2>7
<1> QED
  BY <1>6, <1>7

\* Rows that stay as they are.
LEMMA RowsSame ==
  ASSUME OperationsOK, UNCHANGED rows, started \subseteq started'
  PROVE  OperationsOK'
<1>1. \A f \in DOMAIN rows : LegacyRow(f)' \/ RankedRow(f)'
  BY RowStays DEF OperationsOK
<1> QED
  BY <1>1 DEF OperationsOK

LEMMA StartKeeps ==
  ASSUME BankingInv, NEW p \in Importers, NEW file \in Statements, Start(p, file)
  PROVE  BankingInv'
<1>1. PICK ops : ops = ParseCamt053(file)
  OBVIOUS
<1>2. ops \in Files /\ ops \in Seq(Operation) /\ ops # <<>>
  BY <1>1, FilesAreOperations DEF Files, Start
<1>3. Len(ops) \in Nat /\ 1 \in 1 .. Len(ops)
  BY <1>2
<1>4. import \in [Importers -> ImportType] /\ import[p] = AtRest
  BY DEF BankingInv, ImportsOK, Start
<1>5. import' = [import EXCEPT ![p].ops = ops] /\ started' = started \cup {ops}
      /\ UNCHANGED <<rows, imported, status>>
  BY <1>1 DEF Start
<1>6. import'[p] = [ops |-> ops, next |-> 1, looked |-> FALSE]
  <2>1. import[p] \in ImportType
    BY <1>4
  <2>2. import[p].next = 1 /\ import[p].looked = FALSE
    BY <1>4 DEF AtRest
  <2> QED
    BY <1>4, <1>5, <2>1, <2>2 DEF ImportType
<1>7. import' \in [Importers -> ImportType]
  <2>1. [ops |-> ops, next |-> 1, looked |-> FALSE] \in ImportType
    BY <1>2 DEF ImportType
  <2>2. \A q \in Importers \ {p} : import'[q] = import[q]
    BY <1>4, <1>5
  <2>3. import' = [q \in Importers |-> import'[q]]
    BY <1>4, <1>5
  <2> QED
    BY <1>4, <1>6, <2>1, <2>2, <2>3
<1>8. AtWork(p)'
  BY <1>3, <1>5, <1>6 DEF AtWork
<1>9. \A q \in Importers \ {p} : (import[q] = AtRest \/ AtWork(q))'
  BY <1>4, <1>5, ImportStays DEF BankingInv, ImportsOK
<1>10. ImportsOK'
  BY <1>7, <1>8, <1>9 DEF ImportsOK
<1>11. EndedOK'
  BY <1>5, EndedStays DEF BankingInv
<1>12. OperationsOK'
  BY <1>5, RowsSame DEF BankingInv
<1>13. started' \subseteq Files
  BY <1>2, <1>5 DEF BankingInv
<1> QED
  BY <1>5, <1>10, <1>11, <1>12, <1>13 DEF BankingInv, Files

\* The lookup of the first of its kind: found, the import goes on; otherwise
\* no row of an older version holds it.
LEMMA LookKeeps ==
  ASSUME BankingInv, NEW p \in Importers, Look(p)
  PROVE  BankingInv'
<1>1. PICK ops, n : ops = import[p].ops /\ n = import[p].next
  OBVIOUS
<1>2. import \in [Importers -> ImportType] /\ import[p] \in ImportType
  BY DEF BankingInv, ImportsOK
<1>3. AtWork(p)
  <2>1. import[p].next <= Len(import[p].ops)
    BY DEF Look, Importing
  <2>2. import[p] # AtRest
    BY <2>1 DEF AtRest
  <2> QED
    BY <2>2 DEF BankingInv, ImportsOK
<1>4. ops \in Seq(Operation) /\ n \in 1 .. Len(ops) /\ ops \in started
  BY <1>1, <1>2, <1>3 DEF AtWork, ImportType
<1>5. Op(p) = ops[n] /\ ops[n] \in Operation /\ Rank(p) = RankOf(ops, n)
  BY <1>1, <1>2, <1>4, RankIsRankOf
<1>6. UNCHANGED <<rows, started, status>>
  BY DEF Look
<1>7. OperationsOK'
  BY <1>6, RowsSame DEF BankingInv
<1>8. ImportsOK' /\ EndedOK'
  <2>1. CASE /\ Rank(p) = 0 /\ fingerprint(Op(p)) \in DOMAIN rows
             /\ rows[fingerprint(Op(p))].op.party = Op(p).party
    <3>1. Advance(p) /\ Importing(p)
      BY <2>1 DEF Look
    <3>2. ops[n] \in Legacy
      <4>1. PICK f : f = fingerprint(ops[n])
        OBVIOUS
      <4>2. f \in DOMAIN rows /\ rows[f].op.party = ops[n].party
        BY <1>5, <2>1, <4>1
      <4>3. LegacyRow(f)
        <5>1. ~RankedRow(f)
          BY <1>5, <4>1, PrintsDiffer DEF RankedRow
        <5> QED
          BY <4>2, <5>1 DEF BankingInv, OperationsOK
      <4>4. PICK e \in Legacy : f = fingerprint(e) /\ rows[f].op = e
        BY <4>3 DEF LegacyRow
      <4>5. e \in Operation
        BY BankingAssumption
      <4>6. e.ref = ops[n].ref /\ e.amount = ops[n].amount /\ e.credit = ops[n].credit
        BY <4>1, <4>4 DEF fingerprint
      <4>7. e.party = ops[n].party
        BY <4>2, <4>4
      <4>8. identityKey(e) = identityKey(ops[n])
        BY <4>6, <4>7 DEF identityKey
      <4> QED
        BY <1>5, <4>5, <4>8, SameOperation
    <3>3. Held(ops, n)'
      BY <1>5, <2>1, <3>2 DEF Held
    <3>4. \A o, m : o = import[p].ops /\ m = import[p].next => Held(o, m)'
      BY <1>1, <3>3
    <3> QED
      BY <1>3, <1>6, <3>1, <3>4, AdvanceKeeps
  <2>2. CASE ~ (/\ Rank(p) = 0 /\ fingerprint(Op(p)) \in DOMAIN rows
                /\ rows[fingerprint(Op(p))].op.party = Op(p).party)
    <3>1. import' = [import EXCEPT ![p].looked = TRUE] /\ imported' = imported
      BY <2>2 DEF Look
    <3>2. Rank(p) = 0 => ops[n] \notin Legacy
      <4> SUFFICES ASSUME Rank(p) = 0, ops[n] \in Legacy
                   PROVE  FALSE
        OBVIOUS
      <4>1. PICK f : f = fingerprint(ops[n])
        OBVIOUS
      <4>2. f \in DOMAIN rows
        BY <4>1 DEF BankingInv, OperationsOK
      <4>3. LegacyRow(f)
        <5>1. ~RankedRow(f)
          BY <1>5, <4>1, PrintsDiffer DEF RankedRow
        <5> QED
          BY <4>2, <5>1 DEF BankingInv, OperationsOK
      <4>4. PICK e \in Legacy : f = fingerprint(e) /\ rows[f].op = e
        BY <4>3 DEF LegacyRow
      <4>5. e = ops[n]
        BY <4>1, <4>4, LegacyPrints
      <4> QED
        BY <1>5, <2>2, <4>1, <4>2, <4>4, <4>5
    <3>3. import'[p] = [ops |-> ops, next |-> n, looked |-> TRUE]
      BY <1>1, <1>2, <3>1 DEF ImportType
    <3>4. import' \in [Importers -> ImportType]
      <4>1. [ops |-> ops, next |-> n, looked |-> TRUE] \in ImportType
        BY <1>4 DEF ImportType
      <4>2. \A q \in Importers \ {p} : import'[q] = import[q]
        BY <1>2, <3>1
      <4>3. import' = [q \in Importers |-> import'[q]]
        BY <1>2, <3>1
      <4> QED
        BY <1>2, <3>3, <4>1, <4>2, <4>3
    <3>5. \A q \in Importers \ {p} : (import[q] = AtRest \/ AtWork(q))'
      BY <1>2, <1>6, <3>1, ImportStays DEF BankingInv, ImportsOK
    <3>6. \A m \in 1 .. n - 1 : Held(ops, m)'
      <4>1. \A m \in 1 .. n - 1 : Held(ops, m)
        BY <1>1, <1>3 DEF AtWork
      <4> QED
        BY <1>6, <4>1, HeldStays
    <3>7. import'[p].ops = ops /\ import'[p].next = n
      BY <3>3
    <3>8. AtWork(p)'
      BY <1>4, <1>5, <1>6, <3>2, <3>6, <3>7 DEF AtWork
    <3>9. ImportsOK'
      BY <3>4, <3>5, <3>8 DEF ImportsOK
    <3>10. EndedOK'
      BY <1>6, <3>1, EndedStays DEF BankingInv
    <3> QED
      BY <3>9, <3>10
  <2> QED
    BY <2>1, <2>2
<1> QED
  BY <1>6, <1>7, <1>8 DEF BankingInv, Files

\* The insertion: of a rank that the statement shows, and never beside the row
\* of an older version.
LEMMA InsertKeeps ==
  ASSUME BankingInv, NEW p \in Importers, Insert(p)
  PROVE  BankingInv'
<1>1. PICK ops, n : ops = import[p].ops /\ n = import[p].next
  OBVIOUS
<1>2. import \in [Importers -> ImportType] /\ import[p] \in ImportType
  BY DEF BankingInv, ImportsOK
<1>3. AtWork(p) /\ import[p].looked
  <2>1. import[p].next <= Len(import[p].ops) /\ import[p].looked
    BY DEF Insert, Importing
  <2>2. import[p] # AtRest
    BY <2>1 DEF AtRest
  <2> QED
    BY <2>1, <2>2 DEF BankingInv, ImportsOK
<1>4. ops \in Seq(Operation) /\ n \in 1 .. Len(ops) /\ ops \in started
  BY <1>1, <1>2, <1>3 DEF AtWork, ImportType
<1>5. Op(p) = ops[n] /\ ops[n] \in Operation /\ Rank(p) = RankOf(ops, n)
  BY <1>1, <1>2, <1>4, RankIsRankOf
<1>6. PICK e, k, print : e = ops[n] /\ k = RankOf(ops, n) /\ print = fingerprintV2(e, k)
  OBVIOUS
<1>7. UNCHANGED <<started, status>>
  BY DEF Insert
<1>8. rows' = IF print \in DOMAIN rows THEN rows
              ELSE [f \in DOMAIN rows \cup {print} |-> IF f = print THEN NewRow(e) ELSE rows[f]]
  BY <1>5, <1>6 DEF Insert
<1>9. DOMAIN rows' = DOMAIN rows \cup {print} /\ \A f \in DOMAIN rows : rows'[f] = rows[f]
  BY <1>8
<1>10. OperationsOK'
  <2>1. CASE print \in DOMAIN rows
    BY <1>7, <1>8, <2>1, RowsSame DEF BankingInv
  <2>2. CASE print \notin DOMAIN rows
    <3>1. rows'[print] = NewRow(e) /\ NewRow(e) \in RowType /\ NewRow(e).op = e
      BY <1>5, <1>6, <1>8, <2>2 DEF NewRow, RowType
    <3>2. \A f \in DOMAIN rows' : rows'[f] \in RowType
      BY <1>9, <3>1 DEF BankingInv, OperationsOK
    <3>3. IsFiniteSet(DOMAIN rows')
      BY <1>9, FS_AddElement DEF BankingInv, OperationsOK
    <3>4. k \in Nat /\ k < Times(e, ops) /\ (k = 0 => e \notin Legacy)
      <4>1. k \in Nat
        BY <1>4, <1>6, RankType
      <4>2. k < Times(e, ops)
        BY <1>4, <1>6, RankBelow
      <4>3. k = 0 => e \notin Legacy
        BY <1>1, <1>3, <1>6 DEF AtWork
      <4> QED
        BY <4>1, <4>2, <4>3
    <3>5. RankedRow(print)'
      <4>1. print = fingerprintV2(e, k) /\ rows'[print].op = e /\ e \in Operation /\ ops \in started'
        BY <1>4, <1>5, <1>6, <1>7, <3>1
      <4> QED
        BY <3>4, <4>1 DEF RankedRow
    <3>6. \A f \in DOMAIN rows : LegacyRow(f)' \/ RankedRow(f)'
      BY <1>7, <1>9, RowStays DEF BankingInv, OperationsOK
    <3> QED
      BY <1>9, <3>2, <3>3, <3>5, <3>6 DEF BankingInv, OperationsOK
  <2> QED
    BY <2>1, <2>2
<1>11. \A o, m : o = import[p].ops /\ m = import[p].next => Held(o, m)'
  BY <1>1, <1>6, <1>9 DEF Held
<1>12. Importing(p) /\ Advance(p) /\ DOMAIN rows \subseteq DOMAIN rows' /\ UNCHANGED started
  BY <1>7, <1>9 DEF Insert
<1>13. ImportsOK' /\ EndedOK'
  BY <1>3, <1>11, <1>12, AdvanceKeeps
<1> QED
  BY <1>7, <1>10, <1>13 DEF BankingInv, Files

LEMMA AbandonKeeps ==
  ASSUME BankingInv, NEW p \in Importers, AbandonImport(p)
  PROVE  BankingInv'
<1>1. import' = [import EXCEPT ![p] = AtRest] /\ UNCHANGED <<rows, started, imported, status>>
  BY DEF AbandonImport
<1>2. import \in [Importers -> ImportType] /\ AtRest \in ImportType
  BY DEF BankingInv, ImportsOK, ImportType, AtRest
<1>3. import' \in [Importers -> ImportType] /\ import'[p] = AtRest
  BY <1>1, <1>2
<1>4. \A q \in Importers \ {p} : (import[q] = AtRest \/ AtWork(q))'
  BY <1>1, <1>2, ImportStays DEF BankingInv, ImportsOK
<1>5. ImportsOK'
  BY <1>3, <1>4 DEF ImportsOK, AtRest
<1>6. EndedOK' /\ OperationsOK'
  BY <1>1, EndedStays, RowsSame DEF BankingInv
<1> QED
  BY <1>1, <1>5, <1>6 DEF BankingInv, Files

\* A decision writes what the user decided of a row, and nothing that names it.
LEMMA DecisionKeeps ==
  ASSUME BankingInv, NEW f \in DOMAIN rows,
         (\E i \in Invoices : Match(f, i)) \/ Unmatch(f) \/ (\E b \in BOOLEAN : Ignore(f, b))
  PROVE  BankingInv'
<1>1. UNCHANGED <<import, started, imported, status>>
  BY DEF Match, Unmatch, Ignore
<1>2. \A g \in DOMAIN rows : rows[g] \in RowType
  BY DEF BankingInv, OperationsOK
<1>3. /\ DOMAIN rows' = DOMAIN rows
      /\ \A g \in DOMAIN rows : rows'[g] \in RowType /\ rows'[g].op = rows[g].op
  <2>1. CASE \E i \in Invoices : Match(f, i)
    <3>1. PICK i \in Invoices : Match(f, i)
      BY <2>1
    <3>2. PICK r : r = [rows[f] EXCEPT !.invoice = i, !.ignored = FALSE]
      OBVIOUS
    <3>3. rows' = [rows EXCEPT ![f] = r]
      BY <3>1, <3>2 DEF Match
    <3>4. r \in RowType /\ r.op = rows[f].op
      BY <1>2, <3>2 DEF RowType
    <3> QED
      BY <1>2, <3>3, <3>4
  <2>2. CASE Unmatch(f)
    BY <1>2, <2>2 DEF Unmatch, RowType
  <2>3. CASE \E b \in BOOLEAN : Ignore(f, b)
    BY <1>2, <2>3 DEF Ignore, RowType
  <2> QED
    BY <2>1, <2>2, <2>3
<1>4. \A g \in DOMAIN rows : LegacyRow(g)' \/ RankedRow(g)'
  BY <1>1, <1>3, RowStays DEF BankingInv, OperationsOK
<1>5. OperationsOK'
  BY <1>3, <1>4 DEF BankingInv, OperationsOK
<1>6. \A p \in Importers : (import[p] = AtRest \/ AtWork(p))'
  BY <1>1, <1>3, ImportStays DEF BankingInv, ImportsOK
<1>7. ImportsOK'
  BY <1>1, <1>6 DEF BankingInv, ImportsOK
<1>8. EndedOK'
  BY <1>1, <1>3, EndedStays DEF BankingInv
<1> QED
  BY <1>1, <1>5, <1>7, <1>8 DEF BankingInv, Files

LEMMA OthersKeep ==
  ASSUME BankingInv,
         UNCHANGED bankingVars \/ \E i \in Invoices : InvoiceMoves(i)
  PROVE  BankingInv'
<1>1. UNCHANGED <<rows, import, started, imported>>
  BY DEF bankingVars, InvoiceMoves
<1>2. status' \in [Invoices -> {"draft", "sent", "paid"}]
  BY DEF bankingVars, InvoiceMoves, BankingInv
<1>3. \A p \in Importers : (import[p] = AtRest \/ AtWork(p))'
  BY <1>1, ImportStays DEF BankingInv, ImportsOK
<1>4. ImportsOK'
  BY <1>1, <1>3 DEF BankingInv, ImportsOK
<1>5. EndedOK' /\ OperationsOK'
  BY <1>1, EndedStays, RowsSame DEF BankingInv
<1> QED
  BY <1>1, <1>2, <1>4, <1>5 DEF BankingInv, Files

\* A new base holds the rows of an older version, if any, one per fingerprint.
LEMMA BankingInitially ==
  ASSUME BankingInit
  PROVE  BankingInv
<1>1. PICK P : P = {fingerprint(e) : e \in Legacy}
  OBVIOUS
<1>2. DOMAIN rows = P /\ \A f \in P : rows[f] = NewRow(CHOOSE e \in Legacy : fingerprint(e) = f)
  BY <1>1 DEF BankingInit
<1>3. IsFiniteSet(P)
  <2>1. PICK g : g = [e \in Legacy |-> fingerprint(e)]
    OBVIOUS
  <2>2. g \in Surjection(Legacy, P)
    BY <1>1, <2>1 DEF Surjection
  <2> QED
    BY <2>2, FS_Surjection, BankingAssumption
<1>4. \A e \in Legacy : fingerprint(e) \in P /\ (CHOOSE d \in Legacy : fingerprint(d) = fingerprint(e)) = e
  BY <1>1, LegacyPrints
<1>5. \A f \in P : \E e \in Legacy : f = fingerprint(e) /\ rows[f] = NewRow(e)
  BY <1>1, <1>2, <1>4
<1>6. \A e \in Legacy : NewRow(e) \in RowType /\ NewRow(e).op = e
  BY BankingAssumption DEF NewRow, RowType
<1>7. OperationsOK
  BY <1>2, <1>3, <1>4, <1>5, <1>6 DEF OperationsOK, LegacyRow
<1>8. ImportsOK
  <2>1. AtRest \in ImportType
    BY DEF AtRest, ImportType
  <2> QED
    BY <2>1 DEF BankingInit, ImportsOK
<1> QED
  BY <1>7, <1>8 DEF BankingInit, BankingInv, EndedOK

\* Rows, imports and what they kept stay as BankingInv says, for any number of
\* imports, files and operations, wherever an import stops.
THEOREM BankingInvariant == BankingSpec => []BankingInv
<1>1. BankingInit => BankingInv
  BY BankingInitially
<1>2. BankingInv /\ [BankingNext]_bankingVars => BankingInv'
  <2> SUFFICES ASSUME BankingInv, [BankingNext]_bankingVars
               PROVE  BankingInv'
    OBVIOUS
  <2>1. CASE \E p \in Importers :
               (\E file \in Statements : Start(p, file)) \/ Look(p) \/ Insert(p) \/ AbandonImport(p)
    BY <2>1, StartKeeps, LookKeeps, InsertKeeps, AbandonKeeps
  <2>2. CASE \E f \in DOMAIN rows :
               (\E i \in Invoices : Match(f, i)) \/ Unmatch(f) \/ (\E b \in BOOLEAN : Ignore(f, b))
    BY <2>2, DecisionKeeps
  <2>3. CASE UNCHANGED bankingVars \/ \E i \in Invoices : InvoiceMoves(i)
    BY <2>3, OthersKeep
  <2> QED
    BY <2>1, <2>2, <2>3 DEF BankingNext
<1> QED
  BY <1>1, <1>2, PTL DEF BankingSpec

-----------------------------------------------------------------------------
(* Bank statements: what holds of every state *)

\* Every row with operation e is one of an older version, without a rank, or
\* has a rank of its own.
LEMMA KeptRows ==
  ASSUME BankingInv, NEW f \in DOMAIN rows, NEW e, rows[f].op = e
  PROVE  /\ e \in Operation
         /\ \/ e \in Legacy /\ f = fingerprint(e)
            \/ \E k \in Nat : /\ f = fingerprintV2(e, k) /\ (k = 0 => e \notin Legacy)
                              /\ \E ops \in started : k < Times(e, ops)
<1>1. e \in Operation
  BY DEF BankingInv, OperationsOK, RowType
<1> QED
  BY <1>1 DEF BankingInv, OperationsOK, LegacyRow, RankedRow

\* The operations of an import that ended are kept as often as they occur: each
\* occurrence has a row of its own, that of its rank.
LEMMA NothingLost ==
  ASSUME BankingInv, NEW ops \in imported, NEW n \in DOMAIN ops
  PROVE  Kept(ops[n]) >= Times(ops[n], ops)
<1>1. PICK e, S, T : e = ops[n] /\ S = {m \in DOMAIN ops : ops[m] = e}
                     /\ T = {f \in DOMAIN rows : rows[f].op = e}
  OBVIOUS
<1>2. ops \in started /\ ops \in Seq(Operation) /\ \A m \in DOMAIN ops : Held(ops, m)
  BY OpsOfFiles DEF BankingInv, EndedOK
<1>3. e \in Operation
  BY <1>1, <1>2
<1>4. IsFiniteSet(T)
  BY <1>1, FS_Subset DEF BankingInv, OperationsOK
<1>5. \A f \in DOMAIN rows : f = fingerprint(e) /\ e \in Legacy => f \in T
  <2> TAKE f \in DOMAIN rows
  <2> HAVE f = fingerprint(e) /\ e \in Legacy
  <2>1. PICK d : d = rows[f].op
    OBVIOUS
  <2>2. d \in Operation /\ \A k \in Nat : f # fingerprintV2(d, k)
    BY <1>3, <2>1, KeptRows, PrintsDiffer
  <2>3. d \in Legacy /\ f = fingerprint(d)
    BY <2>1, <2>2, KeptRows
  <2> QED
    BY <1>1, <2>1, <2>3, LegacyPrints
<1>6. \A f \in DOMAIN rows : \A k : f = fingerprintV2(e, k) => f \in T
  <2> TAKE f \in DOMAIN rows
  <2> TAKE k
  <2> HAVE f = fingerprintV2(e, k)
  <2>0. f = fingerprintV2(e, k)
    OBVIOUS
  <2>1. PICK d : d = rows[f].op
    OBVIOUS
  <2>2. d \in Operation /\ f # fingerprint(d)
    BY <1>3, <2>1, KeptRows, PrintsDiffer
  <2>3. PICK j \in Nat : f = fingerprintV2(d, j)
    BY <2>1, <2>2, KeptRows
  <2>4. d = e
    BY <1>3, <2>0, <2>2, <2>3, PrintsDiffer
  <2> QED
    BY <1>1, <2>1, <2>4
<1> DEFINE RowOf(m) == IF fingerprintV2(e, RankOf(ops, m)) \in DOMAIN rows
                       THEN fingerprintV2(e, RankOf(ops, m)) ELSE fingerprint(e)
           g == [m \in S |-> RowOf(m)]
<1>7. \A m \in S : RowOf(m) \in T
  <2> TAKE m \in S
  <2>1. Held(ops, m) /\ ops[m] = e
    BY <1>1, <1>2
  <2>2. CASE fingerprintV2(e, RankOf(ops, m)) \in DOMAIN rows
    BY <1>6, <2>2
  <2>3. CASE fingerprintV2(e, RankOf(ops, m)) \notin DOMAIN rows
    <3>1. e \in Legacy
      BY <2>1, <2>3 DEF Held
    <3>2. fingerprint(e) \in DOMAIN rows
      BY <3>1 DEF BankingInv, OperationsOK
    <3> QED
      BY <1>5, <2>3, <3>1, <3>2
  <2> QED
    BY <2>2, <2>3
<1>8. \A m \in S : fingerprintV2(e, RankOf(ops, m)) \notin DOMAIN rows => RankOf(ops, m) = 0
  BY <1>1, <1>2 DEF Held
<1>9. \A l \in S, m \in S : l < m => RankOf(ops, l) < RankOf(ops, m)
  BY <1>1, <1>2, RanksDiffer
<1>10. \A m \in S : m \in Nat /\ RankOf(ops, m) \in Nat
  <2> HIDE DEF RowOf, g
  <2> TAKE m \in S
  <2>1. ops \in Seq(Operation) /\ m \in DOMAIN ops
    BY <1>1, <1>2
  <2>2. m \in Nat
    BY <2>1
  <2> QED
    BY <2>1, <2>2, RankType
<1>11. \A l \in S, m \in S : l < m => RowOf(l) # RowOf(m)
  <2> TAKE l \in S, m \in S
  <2> HAVE l < m
  <2>1. RankOf(ops, l) # RankOf(ops, m) /\ RankOf(ops, m) # 0
    BY <1>9, <1>10
  <2>2. RowOf(m) = fingerprintV2(e, RankOf(ops, m))
    BY <1>8, <2>1
  <2>3. fingerprintV2(e, RankOf(ops, l)) # fingerprintV2(e, RankOf(ops, m))
    BY <1>3, <2>1, PrintsDiffer
  <2>4. fingerprint(e) # fingerprintV2(e, RankOf(ops, m))
    BY <1>3, PrintsDiffer
  <2>5. RowOf(l) = fingerprintV2(e, RankOf(ops, l)) \/ RowOf(l) = fingerprint(e)
    OBVIOUS
  <2> HIDE DEF RowOf
  <2> QED
    BY <2>2, <2>3, <2>4, <2>5
<1>12. g \in Injection(S, T)
  <2>1. g \in [S -> T]
    BY <1>7
  <2>2. \A l \in S, m \in S : RowOf(l) = RowOf(m) => l = m
    <3> HIDE DEF RowOf
    <3>1. \A l \in S, m \in S : l = m \/ l < m \/ m < l
      BY <1>10
    <3> QED
      BY <1>11, <3>1
  <2>3. \A l \in S, m \in S : g[l] = g[m] => l = m
    <3> HIDE DEF RowOf
    <3> QED
      BY <2>2
  <2> HIDE DEF g
  <2> QED
    BY <2>1, <2>3 DEF Injection, IsInjective
<1>13. Cardinality(S) <= Cardinality(T)
  <2> HIDE DEF g
  <2> QED
    BY <1>4, <1>12, FS_Injection
<1>14. Cardinality(S) \in Nat /\ Cardinality(T) \in Nat
  BY <1>1, <1>2, <1>4, TimesType, FS_CardinalityType DEF Times
<1> QED
  BY <1>1, <1>13, <1>14 DEF Kept, Times

\* The rows of an operation have ranks of their own, each below the number of
\* times that some statement shows it, so that one statement shows it as often
\* as it is kept.
LEMMA NothingDoubled ==
  ASSUME BankingInv, NEW f \in DOMAIN rows, NEW e, e = rows[f].op
  PROVE  Kept(e) = LegacyTimes(e) \/ \E ops \in started : Kept(e) <= Times(e, ops)
<1>1. PICK T : T = {g \in DOMAIN rows : rows[g].op = e}
  OBVIOUS
<1>2. e \in Operation
  BY KeptRows
<1>3. IsFiniteSet(T) /\ Cardinality(T) \in Nat /\ Kept(e) = Cardinality(T)
  BY <1>1, FS_Subset, FS_CardinalityType DEF Kept, BankingInv, OperationsOK
<1>4. \A g \in T : \/ e \in Legacy /\ g = fingerprint(e)
                   \/ \E k \in Nat : /\ g = fingerprintV2(e, k) /\ (k = 0 => e \notin Legacy)
                                     /\ \E ops \in started : k < Times(e, ops)
  BY <1>1, KeptRows
<1>5. \A ops \in started : Times(e, ops) \in Nat
  BY OpsOfFiles, TimesType DEF BankingInv
<1>6. CASE \A g \in T : g = fingerprint(e)
  <2>1. T = {fingerprint(e)} /\ e \in Legacy
    <3>1. f \in T
      BY <1>1
    <3>2. \A k \in Nat : fingerprint(e) # fingerprintV2(e, k)
      BY <1>2, PrintsDiffer
    <3> QED
      BY <1>4, <1>6, <3>1, <3>2
  <2>2. Cardinality(T) = 1
    BY <2>1, FS_Singleton
  <2> QED
    BY <1>3, <2>1, <2>2 DEF LegacyTimes
<1>7. CASE \E g \in T : g # fingerprint(e)
  <2> SUFFICES ASSUME \A ops \in started : ~(Kept(e) <= Times(e, ops))
               PROVE  FALSE
    OBVIOUS
  <2>1. PICK K : K = Cardinality(T)
    OBVIOUS
  <2>2. K \in Nat /\ \A ops \in started : Times(e, ops) < K
    BY <1>3, <1>5, <2>1
  <2>3. K - 2 \in Nat
    <3>1. PICK ops \in started, k \in Nat : k < Times(e, ops)
      BY <1>4, <1>7
    <3> QED
      BY <1>5, <2>2, <3>1
  <2> DEFINE IsRank(g, k) == \/ k = 0 /\ g = fingerprint(e) /\ e \in Legacy
                             \/ g = fingerprintV2(e, k) /\ (k = 0 => e \notin Legacy)
             rank == [g \in T |-> CHOOSE k \in 0 .. K - 2 : IsRank(g, k)]
  <2>4. \A g \in T : \E k \in 0 .. K - 2 : IsRank(g, k)
    <3> TAKE g \in T
    <3>1. CASE e \in Legacy /\ g = fingerprint(e)
      BY <2>3, <3>1
    <3>2. CASE ~(e \in Legacy /\ g = fingerprint(e))
      <4>1. PICK k \in Nat : /\ g = fingerprintV2(e, k) /\ (k = 0 => e \notin Legacy)
                             /\ \E ops \in started : k < Times(e, ops)
        BY <1>4, <3>2
      <4>2. k \in 0 .. K - 2
        BY <1>5, <2>2, <2>3, <4>1
      <4> QED
        BY <4>1, <4>2
    <3> QED
      BY <3>1, <3>2
  <2>5. \A g \in T : rank[g] \in 0 .. K - 2 /\ IsRank(g, rank[g])
    <3> HIDE DEF IsRank
    <3> QED
      BY <2>4
  <2>6. \A g \in T, h \in T, k \in Nat : IsRank(g, k) /\ IsRank(h, k) => g = h
    OBVIOUS
  <2>7. rank \in Injection(T, 0 .. K - 2)
    <3>1. rank \in [T -> 0 .. K - 2]
      BY <2>5
    <3>2. \A g \in T, h \in T : rank[g] = rank[h] => g = h
      <4> HIDE DEF rank, IsRank
      <4>1. \A g \in T : rank[g] \in Nat
        BY <2>3, <2>5
      <4> QED
        BY <2>5, <2>6, <4>1
    <3> HIDE DEF rank
    <3> QED
      BY <3>1, <3>2 DEF Injection, IsInjective
  <2>8. IsFiniteSet(0 .. K - 2) /\ Cardinality(0 .. K - 2) = K - 1
    BY <2>2, <2>3, FS_Interval
  <2>9. Cardinality(T) <= Cardinality(0 .. K - 2)
    <3> HIDE DEF rank
    <3> QED
      BY <2>7, <2>8, FS_Injection
  <2> QED
    BY <2>1, <2>2, <2>8, <2>9
<1> QED
  BY <1>6, <1>7

\* Of operations that look the same the table holds as many as the statement
\* that shows most of them, for any number of imports at once, of the same file
\* or of others, ended or stopped half way (reconcile.go Import).
THEOREM NothingLostNorDoubledTheorem == BankingSpec => []NothingLostNorDoubled
<1>1. BankingInv => NothingLostNorDoubled
  <2> SUFFICES ASSUME BankingInv
               PROVE  NothingLostNorDoubled
    OBVIOUS
  <2>1. \A ops \in imported : \A n \in DOMAIN ops : Kept(ops[n]) >= Times(ops[n], ops)
    BY NothingLost
  <2>2. \A e \in {rows[f].op : f \in DOMAIN rows} :
          Kept(e) = LegacyTimes(e) \/ \E ops \in started : Kept(e) <= Times(e, ops)
    BY NothingDoubled
  <2> QED
    BY <2>1, <2>2 DEF NothingLostNorDoubled
<1> QED
  BY <1>1, BankingInvariant, PTL

\* The tables and the imports are of the types the code reads and writes.
THEOREM BankingTyped == BankingSpec => []BankingTypeOK
<1>1. BankingInv => BankingTypeOK
  <2> SUFFICES ASSUME BankingInv
               PROVE  BankingTypeOK
    OBVIOUS
  <2>1. \A f \in DOMAIN rows : rows[f].invoice \in Invoices \cup {NoInvoice} /\ rows[f].ignored \in BOOLEAN
    BY DEF BankingInv, OperationsOK, RowType
  <2>2. \A p \in Importers : import[p].next \in 1 .. Len(import[p].ops) + 1
    <3> TAKE p \in Importers
    <3>1. CASE import[p] = AtRest
      BY <3>1 DEF AtRest
    <3>2. CASE AtWork(p)
      <4>1. import[p] \in ImportType
        BY DEF BankingInv, ImportsOK
      <4>2. Len(import[p].ops) \in Nat
        BY <4>1 DEF ImportType
      <4> QED
        BY <3>2, <4>2 DEF AtWork
    <3> QED
      BY <3>1, <3>2 DEF BankingInv, ImportsOK
  <2> QED
    BY <2>1, <2>2 DEF BankingTypeOK, BankingInv, EndedOK
<1> QED
  BY <1>1, BankingInvariant, PTL

\* What an import keeps of a file is what the bank booked in amounts that can be
\* read, to the centime, for every file: whatever entries are left out and
\* batches split (camt053.go ParseCamt053, splitBatch).
THEOREM ReadInFullTheorem == BankingSpec => []ReadInFull
<1>1. BankingInv => ReadInFull
  BY FileInFull DEF BankingInv, Files, ReadInFull
<1> QED
  BY <1>1, BankingInvariant, PTL
=============================================================================
