----------------------------- MODULE MCReports ------------------------------
\* Two years of one day each, in December and in the January that follows.
EXTENDS Reports

MCDates == 1..2
MCYearEnds == {1, 2}

MCMonthOf == <<12, 13>>

\* Days when the window of six months ends between the two days, takes both,
\* and starts between them; and a 31st of January: of the six months that end
\* then, September and November lack that day.
MCLooks == {[month |-> m, day |-> 15] : m \in {12, 13, 18}} \cup {[month |-> 13, day |-> 31]}

\* A sale at 8.1 %, one without VAT that is not a multiple of 5 rappen, and
\* one that is rounded to nothing.
MCSales ==
  {<<[base |-> 1000, rate |-> 81]>>, <<[base |-> 1002, rate |-> 0]>>, <<[base |-> 2, rate |-> 0]>>}

\* A receipt with VAT, less the fees of the bank and what is still owed, and a
\* transfer between two accounts of money.
MCByHand ==
  { {Debit("bank", 85), Debit("fees", 5), Debit("receivables", 10),
     Credit("sales", 92), Credit("vatDue", 8)},
    {Debit("cash", 50), Credit("bank", 50)} }

\* As many entries as a correction takes.  A document is in another year than
\* its date, or corrected by a credit note, with no entry by hand; an invoice
\* that a credit note corrects is of 10.80, as is the note, and in its year.
\* No entry by hand is beside a document of 10.80 sent without an entry; an
\* invoice sent so has no credit note, and a credit note sent so corrects an
\* invoice without a payment.
MCFocus ==
  LET strayed == {d \in DOMAIN documents : documents[d].year # YearOf(documents[d].date)}
      unposted == {d \in DOMAIN documents : /\ documents[d].status \notin {"draft", "cancelled"}
                                            /\ ~documents[d].entered /\ documents[d].vat # 0}
      byHand == \E e \in DOMAIN journal_entries : e.kind = "by_hand"
  IN /\ BagCardinality(journal_entries) <= 3
     /\ unposted # {} => ~byHand
     /\ Len(documents) = 2 => unposted \subseteq {2}
     /\ 2 \in unposted => documents[1].payments = 0
     /\ byHand => Len(documents) < 2 /\ strayed = {}
     /\ Len(documents) = 2 =>
          /\ 1 \notin strayed
          /\ \A d \in 1..2 : documents[d].total = 1080 /\ documents[d].reopened = 0
=============================================================================
