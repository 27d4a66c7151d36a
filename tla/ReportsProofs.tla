---------------------------- MODULE ReportsProofs ---------------------------
(***************************************************************************)
(* What holds of the reports for every set of documents, entries written   *)
(* by hand, days and fiscal years, and for every bound.                    *)
(*                                                                         *)
(* A report is a sum over the journal or over the table of documents: the  *)
(* lemmas on sums of InvoicingProofs are taken from there.                 *)
(***************************************************************************)
EXTENDS Reports, InvoicingProofs
-----------------------------------------------------------------------------
(* More on sums *)

\* What holds of the empty set, and of one more element whenever it holds of a
\* set, holds of every finite set.
LEMMA OneByOne ==
  ASSUME NEW S, IsFiniteSet(S), NEW G, {} \in G,
         \A T \in SUBSET S : \A x \in S \ T : T \in G => T \cup {x} \in G
  PROVE  S \in G
<1> DEFINE B == {T \in SUBSET S : T \notin G}
<1> SUFFICES ASSUME B # {} PROVE FALSE
  OBVIOUS
<1>1. \A T \in B : IsFiniteSet(T)
  BY FS_Subset
<1>2. PICK T \in B : \A U \in B : Cardinality(T) <= Cardinality(U)
  <2> HIDE DEF B
  <2> QED
    BY <1>1, SmallestSet
<1>3. T \in SUBSET S /\ T \notin G /\ T # {} /\ IsFiniteSet(T)
  BY <1>1
<1>4. PICK x \in T : TRUE
  BY <1>3
<1>5. /\ T \ {x} \in SUBSET S /\ x \in S \ (T \ {x}) /\ (T \ {x}) \cup {x} = T
      /\ Cardinality(T \ {x}) = Cardinality(T) - 1 /\ Cardinality(T) \in Nat
  <2>1. Cardinality(T \ {x}) = Cardinality(T) - 1
    BY <1>3, FS_RemoveElement
  <2>2. Cardinality(T) \in Nat
    BY <1>3, FS_CardinalityType
  <2>3. T \ {x} \in SUBSET S /\ x \in S \ (T \ {x}) /\ (T \ {x}) \cup {x} = T
    BY <1>3
  <2> QED
    BY <2>1, <2>2, <2>3
<1>6. T \ {x} \notin G
  BY <1>3, <1>5
<1>7. T \ {x} \in B
  BY <1>5, <1>6
<1>8. Cardinality(T) <= Cardinality(T) - 1
  <2> HIDE DEF B
  <2> QED
    BY <1>2, <1>5, <1>7
<1> QED
  BY <1>5, <1>8

LEMMA SumNone ==
  ASSUME NEW f
  PROVE  SumFunctionOnSet(f, {}) = 0
  BY SumUnfolds, FS_EmptySet

LEMMA SumType ==
  ASSUME NEW S, IsFiniteSet(S), NEW f, \A x \in S : f[x] \in Int
  PROVE  SumFunctionOnSet(f, S) \in Int
  BY SumSame

LEMMA SumOne ==
  ASSUME NEW x, NEW f, f[x] \in Int
  PROVE  SumFunctionOnSet(f, {x}) = f[x]
<1>1. SumFunctionOnSet(f, {} \cup {x}) = f[x] + SumFunctionOnSet(f, {})
  BY SumAdds, FS_EmptySet
<1>2. {} \cup {x} = {x}
  OBVIOUS
<1>3. SumFunctionOnSet(f, {x}) = f[x] + SumFunctionOnSet(f, {})
  BY <1>1, <1>2
<1> QED
  BY <1>3, SumNone

\* Two sets that have nothing in common.
LEMMA SumUnion ==
  ASSUME NEW S, IsFiniteSet(S), NEW T, IsFiniteSet(T), S \cap T = {}, NEW f,
         \A x \in S \cup T : f[x] \in Int
  PROVE  SumFunctionOnSet(f, S \cup T) = SumFunctionOnSet(f, S) + SumFunctionOnSet(f, T)
<1> DEFINE G == {U \in SUBSET T :
                   SumFunctionOnSet(f, S \cup U)
                     = SumFunctionOnSet(f, S) + SumFunctionOnSet(f, U)}
<1>1. SumFunctionOnSet(f, S) \in Int
  BY SumType
<1>2. {} \in G
  <2>1. S \cup {} = S
    OBVIOUS
  <2> QED
    BY <1>1, <2>1, SumNone
<1>3. ASSUME NEW U \in SUBSET T, NEW x \in T \ U, U \in G
      PROVE  U \cup {x} \in G
  <2>1. IsFiniteSet(U) /\ IsFiniteSet(S \cup U)
    BY FS_Subset, FS_Union
  <2>2. x \notin S \cup U /\ x \notin U
    OBVIOUS
  <2>3. SumFunctionOnSet(f, (S \cup U) \cup {x}) = f[x] + SumFunctionOnSet(f, S \cup U)
    BY <2>1, <2>2, SumAdds
  <2>4. SumFunctionOnSet(f, U \cup {x}) = f[x] + SumFunctionOnSet(f, U)
    BY <2>1, <2>2, SumAdds
  <2>5. SumFunctionOnSet(f, U) \in Int /\ f[x] \in Int
    BY <2>1, SumType
  <2>6. SumFunctionOnSet(f, S \cup U) = SumFunctionOnSet(f, S) + SumFunctionOnSet(f, U)
    BY <1>3
  <2>7. (S \cup U) \cup {x} = S \cup (U \cup {x})
    OBVIOUS
  <2>8. PICK a, b, c, d, e : /\ a = SumFunctionOnSet(f, S) /\ b = SumFunctionOnSet(f, U)
                             /\ c = SumFunctionOnSet(f, S \cup U) /\ d = SumFunctionOnSet(f, U \cup {x})
                             /\ e = SumFunctionOnSet(f, S \cup (U \cup {x}))
    OBVIOUS
  <2>9. e = a + d
    <3>1. e = f[x] + c /\ d = f[x] + b /\ c = a + b /\ a \in Int /\ b \in Int /\ f[x] \in Int
      BY <1>1, <2>3, <2>4, <2>5, <2>6, <2>7, <2>8
    <3> QED
      BY <3>1
  <2> QED
    BY <2>8, <2>9
<1>4. T \in G
  <2> HIDE DEF G
  <2> QED
    BY <1>2, <1>3, OneByOne
<1> QED
  BY <1>4

LEMMA SumZero ==
  ASSUME NEW S, IsFiniteSet(S), NEW f, \A x \in S : f[x] = 0
  PROVE  SumFunctionOnSet(f, S) = 0
<1> DEFINE G == {U \in SUBSET S : SumFunctionOnSet(f, U) = 0}
<1>1. {} \in G
  BY SumNone
<1>2. ASSUME NEW U \in SUBSET S, NEW x \in S \ U, U \in G
      PROVE  U \cup {x} \in G
  <2>0. IsFiniteSet(U) /\ \A y \in U \cup {x} : f[y] \in Int
    BY FS_Subset
  <2>1. SumFunctionOnSet(f, U \cup {x}) = f[x] + SumFunctionOnSet(f, U)
    BY <2>0, SumAdds
  <2> QED
    BY <1>2, <2>1
<1>3. S \in G
  <2> HIDE DEF G
  <2> QED
    BY <1>1, <1>2, OneByOne
<1> QED
  BY <1>3

\* The sum of what two functions give together.
LEMMA SumPlus ==
  ASSUME NEW S, IsFiniteSet(S), NEW f, NEW g, NEW h,
         \A x \in S : f[x] \in Int /\ g[x] \in Int /\ h[x] = f[x] + g[x]
  PROVE  SumFunctionOnSet(h, S) = SumFunctionOnSet(f, S) + SumFunctionOnSet(g, S)
<1> DEFINE G == {U \in SUBSET S :
                   SumFunctionOnSet(h, U) = SumFunctionOnSet(f, U) + SumFunctionOnSet(g, U)}
<1>0. \A x \in S : h[x] \in Int
  OBVIOUS
<1>1. {} \in G
  BY SumNone
<1>2. ASSUME NEW U \in SUBSET S, NEW x \in S \ U, U \in G
      PROVE  U \cup {x} \in G
  <2>1. IsFiniteSet(U)
    BY FS_Subset
  <2>2. SumFunctionOnSet(h, U \cup {x}) = h[x] + SumFunctionOnSet(h, U)
    BY <1>0, <2>1, SumAdds
  <2>3. SumFunctionOnSet(f, U \cup {x}) = f[x] + SumFunctionOnSet(f, U)
    BY <2>1, SumAdds
  <2>4. SumFunctionOnSet(g, U \cup {x}) = g[x] + SumFunctionOnSet(g, U)
    BY <2>1, SumAdds
  <2>5. SumFunctionOnSet(f, U) \in Int /\ SumFunctionOnSet(g, U) \in Int
    BY <2>1, SumType
  <2>6. PICK a, b, c, p, q, r :
          /\ a = SumFunctionOnSet(f, U) /\ b = SumFunctionOnSet(g, U) /\ c = SumFunctionOnSet(h, U)
          /\ p = SumFunctionOnSet(f, U \cup {x}) /\ q = SumFunctionOnSet(g, U \cup {x})
          /\ r = SumFunctionOnSet(h, U \cup {x})
    OBVIOUS
  <2>7. r = p + q
    <3>1. /\ r = h[x] + c /\ p = f[x] + a /\ q = g[x] + b /\ c = a + b
          /\ a \in Int /\ b \in Int /\ h[x] = f[x] + g[x] /\ f[x] \in Int /\ g[x] \in Int
      BY <1>2, <2>2, <2>3, <2>4, <2>5, <2>6
    <3> QED
      BY <3>1
  <2> QED
    BY <2>6, <2>7
<1>3. S \in G
  <2> HIDE DEF G
  <2> QED
    BY <1>1, <1>2, OneByOne
<1> QED
  BY <1>3

\* A sum of natural numbers is one, and nothing only when each of them is.
LEMMA SumPositive ==
  ASSUME NEW S, IsFiniteSet(S), NEW f, \A x \in S : f[x] \in Nat
  PROVE  /\ SumFunctionOnSet(f, S) \in Nat
         /\ \A x \in S : f[x] <= SumFunctionOnSet(f, S)
<1> DEFINE G == {U \in SUBSET S : /\ SumFunctionOnSet(f, U) \in Nat
                                  /\ \A x \in U : f[x] <= SumFunctionOnSet(f, U)}
<1>1. {} \in G
  BY SumNone
<1>2. ASSUME NEW U \in SUBSET S, NEW x \in S \ U, U \in G
      PROVE  U \cup {x} \in G
  <2>0. IsFiniteSet(U) /\ \A y \in U \cup {x} : f[y] \in Int
    BY FS_Subset
  <2>1. SumFunctionOnSet(f, U \cup {x}) = f[x] + SumFunctionOnSet(f, U)
    BY <2>0, SumAdds
  <2>2. PICK a, b : a = SumFunctionOnSet(f, U) /\ b = SumFunctionOnSet(f, U \cup {x})
    OBVIOUS
  <2>3. a \in Nat /\ f[x] \in Nat /\ b = f[x] + a /\ \A y \in U : f[y] \in Nat /\ f[y] <= a
    BY <1>2, <2>1, <2>2
  <2>4. b \in Nat /\ f[x] <= b /\ \A y \in U : f[y] <= b
    BY <2>3
  <2> QED
    BY <2>2, <2>4
<1>3. S \in G
  <2> HIDE DEF G
  <2> QED
    BY <1>1, <1>2, OneByOne
<1> QED
  BY <1>3

\* One value changes.
LEMMA SumChanged ==
  ASSUME NEW S, IsFiniteSet(S), NEW x \in S, NEW f, NEW g,
         \A y \in S : f[y] \in Int /\ g[y] \in Int /\ (y # x => g[y] = f[y])
  PROVE  SumFunctionOnSet(g, S) = SumFunctionOnSet(f, S) - f[x] + g[x]
<1> DEFINE T == S \ {x}
<1>1. IsFiniteSet(T) /\ x \notin T /\ T \cup {x} = S
  BY FS_Subset
<1>2. SumFunctionOnSet(f, T) = SumFunctionOnSet(g, T) /\ SumFunctionOnSet(f, T) \in Int
  BY <1>1, SumSame
<1> HIDE DEF T
<1>3. SumFunctionOnSet(f, S) = f[x] + SumFunctionOnSet(f, T)
  BY <1>1, SumAdds
<1>4. SumFunctionOnSet(g, S) = g[x] + SumFunctionOnSet(g, T)
  BY <1>1, SumAdds
<1>5. PICK a, b, c : /\ a = SumFunctionOnSet(f, T) /\ b = SumFunctionOnSet(f, S)
                     /\ c = SumFunctionOnSet(g, S)
  OBVIOUS
<1>6. c = b - f[x] + g[x]
  <2>1. a \in Int /\ f[x] \in Int /\ g[x] \in Int /\ b = f[x] + a /\ c = g[x] + a
    BY <1>2, <1>3, <1>4, <1>5
  <2> QED
    BY <2>1
<1> QED
  BY <1>5, <1>6

\* What is nothing outside T may be summed over T alone.
LEMMA SumPart ==
  ASSUME NEW S, IsFiniteSet(S), NEW T \in SUBSET S, NEW f, NEW g,
         \A x \in T : f[x] \in Int /\ g[x] = f[x],
         \A x \in S \ T : f[x] = 0
  PROVE  SumFunctionOnSet(f, S) = SumFunctionOnSet(g, T)
<1>1. IsFiniteSet(T) /\ IsFiniteSet(S \ T) /\ T \cup (S \ T) = S /\ T \cap (S \ T) = {}
  BY FS_Subset
<1>2. SumFunctionOnSet(f, T \cup (S \ T))
        = SumFunctionOnSet(f, T) + SumFunctionOnSet(f, S \ T)
  BY <1>1, SumUnion
<1>3. SumFunctionOnSet(f, S \ T) = 0
  BY <1>1, SumZero
<1>4. SumFunctionOnSet(f, T) = SumFunctionOnSet(g, T) /\ SumFunctionOnSet(f, T) \in Int
  BY <1>1, SumSame
<1>5. SumFunctionOnSet(f, S) = SumFunctionOnSet(f, T) + SumFunctionOnSet(f, S \ T)
  BY <1>1, <1>2
<1> QED
  BY <1>3, <1>4, <1>5

\* d gives nothing to no element, f[x] to x alone, and as much more with x than
\* without it.
GrowsBy(d, f, S) ==
  /\ d[{}] = 0
  /\ \A x \in S : f[x] = d[{x}]
  /\ \A T \in SUBSET S : d[T] \in Int
  /\ \A T \in SUBSET S : \A x \in S \ T : d[T \cup {x}] = d[T] + d[{x}]

\* What is additive is the sum of what it gives to each element.
LEMMA SumEach ==
  ASSUME NEW S, IsFiniteSet(S), NEW d, NEW f, GrowsBy(d, f, S)
  PROVE  SumFunctionOnSet(f, S) = d[S]
<1> DEFINE G == {U \in SUBSET S : SumFunctionOnSet(f, U) = d[U]}
<1>0. \A x \in S : f[x] \in Int
  <2>1. \A x \in S : {x} \in SUBSET S
    OBVIOUS
  <2> QED
    BY <2>1 DEF GrowsBy
<1>1. {} \in G
  BY SumNone DEF GrowsBy
<1>2. ASSUME NEW U \in SUBSET S, NEW x \in S \ U, U \in G
      PROVE  U \cup {x} \in G
  <2>1. SumFunctionOnSet(f, U \cup {x}) = f[x] + SumFunctionOnSet(f, U)
    BY <1>0, FS_Subset, SumAdds
  <2>2. d[U \cup {x}] = d[U] + f[x] /\ d[U] \in Int /\ f[x] \in Int
    BY <1>0 DEF GrowsBy
  <2> QED
    BY <1>2, <2>1, <2>2
<1>3. S \in G
  <2> HIDE DEF G
  <2> QED
    BY <1>1, <1>2, OneByOne
<1> QED
  BY <1>3

-----------------------------------------------------------------------------
(* The lines of an entry *)

LinesOK(lines) == lines \subseteq Line /\ IsFiniteSet(lines)

On(lines, A) == {l \in lines : l.account \in A}

NetOf(lines) == [l \in lines |-> l.debit - l.credit]

LEMMA LineType ==
  ASSUME NEW lines, LinesOK(lines), NEW l \in lines
  PROVE  /\ l.account \in Accounts /\ l.debit \in Nat /\ l.credit \in Nat
         /\ l.debit - l.credit \in Int
  BY DEF LinesOK, Line

LEMMA OnOK ==
  ASSUME NEW lines, LinesOK(lines), NEW A
  PROVE  On(lines, A) \subseteq lines /\ IsFiniteSet(On(lines, A)) /\ LinesOK(On(lines, A))
<1>1. On(lines, A) \subseteq lines
  BY DEF On
<1>2. IsFiniteSet(On(lines, A))
  BY <1>1, FS_Subset DEF LinesOK
<1> QED
  BY <1>1, <1>2 DEF LinesOK

LEMMA NetDebitIs ==
  ASSUME NEW lines, LinesOK(lines), NEW A
  PROVE  /\ NetDebit(lines, A) = SumFunctionOnSet(NetOf(lines), On(lines, A))
         /\ NetDebit(lines, A) \in Int
<1> DEFINE f == [l \in On(lines, A) |-> l.debit - l.credit]
<1>1. NetDebit(lines, A) = SumFunctionOnSet(f, On(lines, A))
  <2>1. DOMAIN f = On(lines, A) /\ NetDebit(lines, A) = SumFunction(f)
    BY DEF NetDebit, On
  <2> HIDE DEF f
  <2> QED
    BY <2>1 DEF SumFunction
<1>2. \A l \in On(lines, A) : f[l] \in Int /\ f[l] = NetOf(lines)[l]
  BY LineType, OnOK DEF NetOf
<1>3. IsFiniteSet(On(lines, A))
  BY OnOK
<1> HIDE DEF f
<1> QED
  BY <1>1, <1>2, <1>3, SumSame

LEMMA NetDebitUnion ==
  ASSUME NEW lines, LinesOK(lines), NEW A, NEW C, A \cap C = {}
  PROVE  NetDebit(lines, A \cup C) = NetDebit(lines, A) + NetDebit(lines, C)
<1>1. On(lines, A \cup C) = On(lines, A) \cup On(lines, C) /\ On(lines, A) \cap On(lines, C) = {}
  BY DEF On
<1>2. IsFiniteSet(On(lines, A)) /\ IsFiniteSet(On(lines, C))
  BY OnOK
<1>3. \A l \in On(lines, A) \cup On(lines, C) : NetOf(lines)[l] \in Int
  BY LineType, OnOK DEF NetOf
<1>4. SumFunctionOnSet(NetOf(lines), On(lines, A) \cup On(lines, C))
        = SumFunctionOnSet(NetOf(lines), On(lines, A)) + SumFunctionOnSet(NetOf(lines), On(lines, C))
  BY <1>1, <1>2, <1>3, SumUnion
<1> QED
  BY <1>1, <1>4, NetDebitIs

\* Accounts no line bears, or whose lines have as much debit as credit.
LEMMA NetDebitNone ==
  ASSUME NEW lines, LinesOK(lines), NEW A,
         \A l \in lines : l.account \in A => l.debit = l.credit
  PROVE  NetDebit(lines, A) = 0
<1>1. \A l \in On(lines, A) : NetOf(lines)[l] = 0
  BY LineType, OnOK DEF NetOf, On
<1> QED
  BY <1>1, NetDebitIs, OnOK, SumZero

\* The accounts of an entry are those its lines bear.
LEMMA NetDebitWithin ==
  ASSUME NEW lines, LinesOK(lines), NEW A, NEW C,
         \A l \in lines : l.account \in A <=> l.account \in C
  PROVE  NetDebit(lines, A) = NetDebit(lines, C)
<1>1. On(lines, A) = On(lines, C)
  BY DEF On
<1> QED
  BY <1>1, NetDebitIs

LEMMA DebitCredit ==
  ASSUME NEW lines, LinesOK(lines)
  PROVE  /\ DebitOf(lines) = SumFunctionOnSet([l \in lines |-> l.debit], lines)
         /\ CreditOf(lines) = SumFunctionOnSet([l \in lines |-> l.credit], lines)
         /\ DebitOf(lines) \in Nat /\ CreditOf(lines) \in Nat
<1> DEFINE f == [l \in lines |-> l.debit]
           g == [l \in lines |-> l.credit]
<1>1. DebitOf(lines) = SumFunctionOnSet(f, lines) /\ CreditOf(lines) = SumFunctionOnSet(g, lines)
  BY DEF DebitOf, CreditOf, SumFunction
<1>2. (\A l \in lines : f[l] \in Nat) /\ (\A l \in lines : g[l] \in Nat)
  BY LineType
<1>3. IsFiniteSet(lines)
  BY DEF LinesOK
<1>4. SumFunctionOnSet(f, lines) \in Nat /\ SumFunctionOnSet(g, lines) \in Nat
  <2> HIDE DEF f, g
  <2> QED
    BY <1>2, <1>3, SumPositive
<1> QED
  BY <1>1, <1>4

\* Net debit is debit less credit.
LEMMA NetDebitSplit ==
  ASSUME NEW lines, LinesOK(lines), NEW A
  PROVE  NetDebit(lines, A) = DebitOf(On(lines, A)) - CreditOf(On(lines, A))
<1> DEFINE K == On(lines, A)
           f == [l \in K |-> l.debit]
           g == [l \in K |-> l.credit]
           h == NetOf(lines)
<1>1. LinesOK(K) /\ IsFiniteSet(K) /\ K \subseteq lines
  BY OnOK
<1>2. DebitOf(K) = SumFunctionOnSet(f, K) /\ CreditOf(K) = SumFunctionOnSet(g, K)
      /\ DebitOf(K) \in Nat /\ CreditOf(K) \in Nat
  BY <1>1, DebitCredit
<1>3. \A l \in K : h[l] \in Int /\ g[l] \in Int /\ f[l] = h[l] + g[l]
  BY <1>1, LineType DEF NetOf
<1>4. NetDebit(lines, A) = SumFunctionOnSet(h, K) /\ NetDebit(lines, A) \in Int
  BY NetDebitIs
<1>5. SumFunctionOnSet(f, K) = SumFunctionOnSet(h, K) + SumFunctionOnSet(g, K)
  <2> HIDE DEF f, g, h, K
  <2> QED
    BY <1>1, <1>3, SumPlus
<1>6. PICK a, b, c : a = NetDebit(lines, A) /\ b = DebitOf(K) /\ c = CreditOf(K)
  OBVIOUS
<1>7. b = a + c /\ a \in Int /\ b \in Int /\ c \in Int
  <2> HIDE DEF f, g, h, K
  <2> QED
    BY <1>2, <1>4, <1>5, <1>6
<1>8. a = b - c
  BY <1>7
<1> QED
  BY <1>6, <1>8

\* The debit, or the credit, of the lines of two sets of accounts.
LEMMA DebitUnion ==
  ASSUME NEW lines, LinesOK(lines), NEW A, NEW C, A \cap C = {}
  PROVE  /\ DebitOf(On(lines, A \cup C)) = DebitOf(On(lines, A)) + DebitOf(On(lines, C))
         /\ CreditOf(On(lines, A \cup C)) = CreditOf(On(lines, A)) + CreditOf(On(lines, C))
<1> DEFINE f == [l \in lines |-> l.debit]
           g == [l \in lines |-> l.credit]
<1>1. On(lines, A \cup C) = On(lines, A) \cup On(lines, C) /\ On(lines, A) \cap On(lines, C) = {}
  BY DEF On
<1>2. ASSUME NEW D
      PROVE  /\ DebitOf(On(lines, D)) = SumFunctionOnSet(f, On(lines, D))
             /\ CreditOf(On(lines, D)) = SumFunctionOnSet(g, On(lines, D))
  <2> DEFINE K == On(lines, D)
             fk == [l \in K |-> l.debit]
             gk == [l \in K |-> l.credit]
  <2>1. LinesOK(K) /\ IsFiniteSet(K) /\ K \subseteq lines
    BY OnOK
  <2>2. DebitOf(K) = SumFunctionOnSet(fk, K) /\ CreditOf(K) = SumFunctionOnSet(gk, K)
    BY <2>1, DebitCredit
  <2>3. /\ \A l \in K : fk[l] \in Int /\ fk[l] = f[l]
        /\ \A l \in K : gk[l] \in Int /\ gk[l] = g[l]
    BY <2>1, LineType
  <2> HIDE DEF K, f, g, fk, gk
  <2>4. SumFunctionOnSet(fk, K) = SumFunctionOnSet(f, K)
    BY <2>1, <2>3, SumSame
  <2>5. SumFunctionOnSet(gk, K) = SumFunctionOnSet(g, K)
    BY <2>1, <2>3, SumSame
  <2> QED
    BY <2>2, <2>4, <2>5 DEF K
<1>3. IsFiniteSet(On(lines, A)) /\ IsFiniteSet(On(lines, C))
  BY OnOK
<1>4. \A l \in On(lines, A) \cup On(lines, C) : f[l] \in Int /\ g[l] \in Int
  BY LineType, OnOK
<1> HIDE DEF f, g
<1>5. SumFunctionOnSet(f, On(lines, A) \cup On(lines, C))
        = SumFunctionOnSet(f, On(lines, A)) + SumFunctionOnSet(f, On(lines, C))
  BY <1>1, <1>3, <1>4, SumUnion
<1>6. SumFunctionOnSet(g, On(lines, A) \cup On(lines, C))
        = SumFunctionOnSet(g, On(lines, A)) + SumFunctionOnSet(g, On(lines, C))
  BY <1>1, <1>3, <1>4, SumUnion
<1> QED
  BY <1>1, <1>2, <1>5, <1>6

LEMMA DebitNone ==
  DebitOf({}) = 0 /\ CreditOf({}) = 0
<1>1. LinesOK({})
  BY FS_EmptySet DEF LinesOK
<1> QED
  BY <1>1, DebitCredit, SumNone

-----------------------------------------------------------------------------
(* Entries *)

Kinds == {"by_hand", "closing", "issue", "payment", "reversal"}

BookEntries ==
  [kind : Kinds, date : Dates, lines : SUBSET Line, status : {"draft", "posted"}]

\* An entry is balanced when it is written, but for that of a closing, which
\* bears on no account of the balance sheet but the result; that of a payment
\* bears on the bank and the receivables.
EntryOK(e) ==
  /\ e \in BookEntries /\ IsFiniteSet(e.lines)
  /\ e.status = "draft" => e.kind = "by_hand"
  /\ e.kind # "closing" => Balanced(e.lines)
  /\ e.kind = "closing" => \A l \in e.lines : l.account \in {"sales", "fees", "result"}
  /\ e.kind = "payment" => \A l \in e.lines : l.account \in {"bank", "receivables"}

JournalOK(B) ==
  /\ IsABag(B) /\ IsFiniteSet(DOMAIN B)
  /\ \A e \in DOMAIN B : EntryOK(e)

LEMMA DateType ==
  /\ Cardinality(Dates) \in Nat /\ Cardinality(Dates) >= 1
  /\ \A date : date \in Dates <=> date \in Int /\ 1 <= date /\ date <= Cardinality(Dates)
<1>1. PICK n : n = Cardinality(Dates)
  OBVIOUS
<1>2. Dates = 1..n /\ n \in Dates
  BY <1>1, ReportsAssumption
<1>3. n \in Int /\ 1 <= n
  BY <1>2
<1>4. n \in Nat /\ n >= 1 /\ \A date : date \in Dates <=> date \in Int /\ 1 <= date /\ date <= n
  BY <1>2, <1>3
<1> QED
  BY <1>1, <1>4

LEMMA EntryType ==
  ASSUME NEW e, EntryOK(e)
  PROVE  /\ LinesOK(e.lines) /\ e.date \in Dates /\ e.date \in Int /\ e.date >= 1
         /\ e.kind \in Kinds /\ e.status \in {"draft", "posted"}
  BY DateType DEF EntryOK, BookEntries, LinesOK

LEMMA JournalType ==
  ASSUME NEW B, JournalOK(B), NEW e \in DOMAIN B
  PROVE  B[e] \in Nat /\ B[e] >= 1 /\ EntryOK(e) /\ LinesOK(e.lines)
<1>1. B[e] \in Nat /\ B[e] > 0
  BY DEF JournalOK, IsABag
<1>2. EntryOK(e)
  BY DEF JournalOK
<1> QED
  BY <1>1, <1>2, EntryType

\* A sum over entries, as often as the journal holds each.
Weighed(f) == [e \in DOMAIN f |-> journal_entries[e] * f[e]]

LEMMA SumOfIs ==
  ASSUME JournalOK(journal_entries), NEW E \in SUBSET DOMAIN journal_entries,
         NEW f, DOMAIN f = E, \A e \in E : f[e] \in Int
  PROVE  /\ SumOf(f) = SumFunctionOnSet(Weighed(f), E) /\ SumOf(f) \in Int
         /\ IsFiniteSet(E)
         /\ \A e \in E : /\ Weighed(f)[e] = journal_entries[e] * f[e]
                         /\ journal_entries[e] \in Nat /\ journal_entries[e] >= 1
                         /\ Weighed(f)[e] \in Int
<1>1. IsFiniteSet(E)
  BY FS_Subset DEF JournalOK
<1>2. \A e \in E : /\ Weighed(f)[e] = journal_entries[e] * f[e]
                   /\ journal_entries[e] \in Nat /\ journal_entries[e] >= 1
  BY JournalType DEF Weighed
<1>3. \A e \in E : Weighed(f)[e] \in Int
  BY <1>2
<1>4. SumOf(f) = SumFunctionOnSet(Weighed(f), E)
  BY DEF SumOf, SumFunction, Weighed
<1> QED
  BY <1>1, <1>2, <1>3, <1>4, SumType

LEMMA SumOfPlus ==
  ASSUME JournalOK(journal_entries), NEW E \in SUBSET DOMAIN journal_entries,
         NEW f, DOMAIN f = E, NEW g, DOMAIN g = E, NEW h, DOMAIN h = E,
         \A e \in E : f[e] \in Int /\ g[e] \in Int /\ h[e] = f[e] + g[e]
  PROVE  SumOf(h) = SumOf(f) + SumOf(g)
<1>1. \A e \in E : h[e] \in Int
  OBVIOUS
<1>2. /\ SumOf(f) = SumFunctionOnSet(Weighed(f), E) /\ SumOf(g) = SumFunctionOnSet(Weighed(g), E)
      /\ SumOf(h) = SumFunctionOnSet(Weighed(h), E) /\ IsFiniteSet(E)
  BY <1>1, SumOfIs
<1>3. ASSUME NEW e \in E
      PROVE  /\ Weighed(f)[e] \in Int /\ Weighed(g)[e] \in Int
             /\ Weighed(h)[e] = Weighed(f)[e] + Weighed(g)[e]
  <2>1. /\ Weighed(f)[e] = journal_entries[e] * f[e] /\ Weighed(f)[e] \in Int
        /\ Weighed(g)[e] = journal_entries[e] * g[e] /\ Weighed(g)[e] \in Int
        /\ Weighed(h)[e] = journal_entries[e] * h[e] /\ journal_entries[e] \in Nat
    BY <1>1, JournalType, SumOfIs DEF Weighed
  <2>2. PICK n, a, b : n = journal_entries[e] /\ a = f[e] /\ b = g[e]
    OBVIOUS
  <2>3. n \in Int /\ a \in Int /\ b \in Int /\ h[e] = a + b
    BY <2>1, <2>2
  <2>4. n * (a + b) = n * a + n * b
    BY <2>3
  <2> QED
    BY <2>1, <2>2, <2>3, <2>4
<1> QED
  BY <1>2, <1>3, SumPlus

LEMMA SumOfUnion ==
  ASSUME JournalOK(journal_entries), NEW E \in SUBSET DOMAIN journal_entries,
         NEW F \in SUBSET DOMAIN journal_entries, E \cap F = {},
         NEW f, DOMAIN f = E, NEW g, DOMAIN g = F, NEW h, DOMAIN h = E \cup F,
         \A e \in E : f[e] \in Int /\ h[e] = f[e],
         \A e \in F : g[e] \in Int /\ h[e] = g[e]
  PROVE  SumOf(h) = SumOf(f) + SumOf(g)
<1>1. \A e \in E \cup F : h[e] \in Int
  OBVIOUS
<1>2. /\ SumOf(f) = SumFunctionOnSet(Weighed(f), E) /\ IsFiniteSet(E)
      /\ SumOf(g) = SumFunctionOnSet(Weighed(g), F) /\ IsFiniteSet(F)
      /\ SumOf(h) = SumFunctionOnSet(Weighed(h), E \cup F)
  BY <1>1, SumOfIs
<1>3. /\ \A e \in E : Weighed(f)[e] \in Int /\ Weighed(f)[e] = Weighed(h)[e]
      /\ \A e \in F : Weighed(g)[e] \in Int /\ Weighed(g)[e] = Weighed(h)[e]
      /\ \A e \in E \cup F : Weighed(h)[e] \in Int
  <2>1. \A e \in E : Weighed(f)[e] \in Int /\ Weighed(f)[e] = journal_entries[e] * f[e]
    BY SumOfIs
  <2>2. \A e \in F : Weighed(g)[e] \in Int /\ Weighed(g)[e] = journal_entries[e] * g[e]
    BY SumOfIs
  <2>3. \A e \in E \cup F : Weighed(h)[e] = journal_entries[e] * h[e]
    BY DEF Weighed
  <2> QED
    BY <2>1, <2>2, <2>3
<1>4. SumFunctionOnSet(Weighed(h), E \cup F)
        = SumFunctionOnSet(Weighed(h), E) + SumFunctionOnSet(Weighed(h), F)
  BY <1>2, <1>3, SumUnion
<1>5. /\ SumFunctionOnSet(Weighed(f), E) = SumFunctionOnSet(Weighed(h), E)
      /\ SumFunctionOnSet(Weighed(g), F) = SumFunctionOnSet(Weighed(h), F)
  BY <1>2, <1>3, SumSame
<1> QED
  BY <1>2, <1>4, <1>5

LEMMA SumOfNone ==
  ASSUME JournalOK(journal_entries), NEW E \in SUBSET DOMAIN journal_entries,
         NEW f, DOMAIN f = E, \A e \in E : f[e] = 0
  PROVE  SumOf(f) = 0
<1>1. SumOf(f) = SumFunctionOnSet(Weighed(f), E) /\ IsFiniteSet(E)
  BY SumOfIs
<1>2. \A e \in E : Weighed(f)[e] = 0
  BY SumOfIs
<1> QED
  BY <1>1, <1>2, SumZero

\* What is counted nought times is not there.
LEMMA SumOfCount ==
  ASSUME JournalOK(journal_entries), NEW E \in SUBSET DOMAIN journal_entries,
         SumOf([e \in E |-> 1]) = 0
  PROVE  E = {}
<1> DEFINE f == [e \in E |-> 1]
<1>1. DOMAIN f = E /\ \A e \in E : f[e] = 1 /\ f[e] \in Int
  OBVIOUS
<1> HIDE DEF f
<1>2. /\ SumOf(f) = SumFunctionOnSet(Weighed(f), E) /\ IsFiniteSet(E)
      /\ \A e \in E : /\ Weighed(f)[e] = journal_entries[e] * f[e]
                      /\ journal_entries[e] \in Nat /\ journal_entries[e] >= 1
  BY <1>1, SumOfIs
<1>3. \A e \in E : Weighed(f)[e] \in Nat /\ Weighed(f)[e] >= 1
  BY <1>1, <1>2
<1>4. \A e \in E : Weighed(f)[e] <= SumFunctionOnSet(Weighed(f), E)
  BY <1>2, <1>3, SumPositive
<1>5. SumFunctionOnSet(Weighed(f), E) = 0
  BY <1>2 DEF f
<1> QED
  BY <1>3, <1>4, <1>5

-----------------------------------------------------------------------------
(* Movements of accounts *)

LEMMA MovementType ==
  ASSUME JournalOK(journal_entries), NEW E \in SUBSET DOMAIN journal_entries, NEW A
  PROVE  Movement(A, E) \in Int
<1> DEFINE f == [e \in E |-> NetDebit(e.lines, A)]
<1>1. DOMAIN f = E /\ \A e \in E : f[e] \in Int
  BY JournalType, NetDebitIs
<1> HIDE DEF f
<1>2. SumOf(f) \in Int
  BY <1>1, SumOfIs
<1> QED
  BY <1>2 DEF f, Movement

LEMMA MovementAccounts ==
  ASSUME JournalOK(journal_entries), NEW E \in SUBSET DOMAIN journal_entries,
         NEW A, NEW C, A \cap C = {}
  PROVE  Movement(A \cup C, E) = Movement(A, E) + Movement(C, E)
<1> DEFINE f == [e \in E |-> NetDebit(e.lines, A)]
           g == [e \in E |-> NetDebit(e.lines, C)]
           h == [e \in E |-> NetDebit(e.lines, A \cup C)]
<1>1. /\ DOMAIN f = E /\ DOMAIN g = E /\ DOMAIN h = E
      /\ \A e \in E : f[e] \in Int /\ g[e] \in Int /\ h[e] = f[e] + g[e]
  BY JournalType, NetDebitIs, NetDebitUnion
<1> HIDE DEF f, g, h
<1>2. SumOf(h) = SumOf(f) + SumOf(g)
  BY <1>1, SumOfPlus
<1> QED
  BY <1>2 DEF f, g, h, Movement

LEMMA MovementEntries ==
  ASSUME JournalOK(journal_entries), NEW E \in SUBSET DOMAIN journal_entries,
         NEW F \in SUBSET DOMAIN journal_entries, E \cap F = {}, NEW A
  PROVE  Movement(A, E \cup F) = Movement(A, E) + Movement(A, F)
<1> DEFINE f == [e \in E |-> NetDebit(e.lines, A)]
           g == [e \in F |-> NetDebit(e.lines, A)]
           h == [e \in E \cup F |-> NetDebit(e.lines, A)]
<1>1. /\ DOMAIN f = E /\ DOMAIN g = F /\ DOMAIN h = E \cup F
      /\ \A e \in E : f[e] \in Int /\ h[e] = f[e]
      /\ \A e \in F : g[e] \in Int /\ h[e] = g[e]
  BY JournalType, NetDebitIs
<1> HIDE DEF f, g, h
<1>2. SumOf(h) = SumOf(f) + SumOf(g)
  BY <1>1, SumOfUnion
<1> QED
  BY <1>2 DEF f, g, h, Movement

LEMMA MovementNone ==
  ASSUME JournalOK(journal_entries), NEW E \in SUBSET DOMAIN journal_entries, NEW A,
         \A e \in E : NetDebit(e.lines, A) = 0
  PROVE  Movement(A, E) = 0
<1> DEFINE f == [e \in E |-> NetDebit(e.lines, A)]
<1>1. DOMAIN f = E /\ \A e \in E : f[e] = 0
  OBVIOUS
<1> HIDE DEF f
<1>2. SumOf(f) = 0
  BY <1>1, SumOfNone
<1> QED
  BY <1>2 DEF f, Movement

\* What accounts of a set have moved is the sum of what each has.
LEMMA MovementEach ==
  ASSUME JournalOK(journal_entries), NEW E \in SUBSET DOMAIN journal_entries,
         NEW A, IsFiniteSet(A), NEW f, DOMAIN f = A, \A a \in A : f[a] = Movement({a}, E)
  PROVE  SumFunction(f) = Movement(A, E)
<1> DEFINE d == [C \in SUBSET A |-> Movement(C, E)]
<1>1. d[{}] = 0
  <2>1. \A e \in E : NetDebit(e.lines, {}) = 0
    BY JournalType, NetDebitNone
  <2>2. Movement({}, E) = 0
    BY <2>1, MovementNone
  <2> QED
    BY <2>2
<1>2. \A a \in A : f[a] = d[{a}]
  <2>1. \A a \in A : {a} \in SUBSET A
    OBVIOUS
  <2> QED
    BY <2>1
<1>3. \A C \in SUBSET A : d[C] \in Int
  BY MovementType
<1>4. ASSUME NEW C \in SUBSET A, NEW a \in A \ C
      PROVE  d[C \cup {a}] = d[C] + d[{a}]
  <2>1. C \cap {a} = {} /\ C \cup {a} \in SUBSET A /\ {a} \in SUBSET A
    OBVIOUS
  <2>2. Movement(C \cup {a}, E) = Movement(C, E) + Movement({a}, E)
    BY <2>1, MovementAccounts
  <2> QED
    BY <2>1, <2>2
<1>5. A \in SUBSET A /\ d[A] = Movement(A, E)
  OBVIOUS
<1> HIDE DEF d
<1>6. GrowsBy(d, f, A)
  BY <1>1, <1>2, <1>3, <1>4 DEF GrowsBy
<1>7. SumFunctionOnSet(f, A) = d[A]
  BY <1>6, SumEach
<1> QED
  BY <1>5, <1>7 DEF SumFunction

-----------------------------------------------------------------------------
(* The simplified accounts *)

Liquid == {a \in Accounts : estLiquidite(a)}

LEMMA AccountSets ==
  /\ Accounts = {"cash", "bank", "receivables", "vatDue", "result", "sales", "fees"}
  /\ Liquid = {"cash", "bank"} /\ IsFiniteSet(Liquid)
  /\ OfType({"asset"}) = {"cash", "bank", "receivables"}
  /\ OfType({"liability"}) = {"vatDue"} /\ OfType({"equity"}) = {"result"}
  /\ OfType({"liability", "equity"}) = {"vatDue", "result"}
  /\ OfType({"revenue"}) = {"sales"} /\ OfType({"expense"}) = {"fees"}
  /\ IsFiniteSet(Accounts)
<1>1. Accounts = {"cash", "bank", "receivables", "vatDue", "result", "sales", "fees"}
  BY DEF Accounts, AccountType
<1>2. /\ AccountType["cash"] = "asset" /\ AccountType["bank"] = "asset"
      /\ AccountType["receivables"] = "asset" /\ AccountType["vatDue"] = "liability"
      /\ AccountType["result"] = "equity" /\ AccountType["sales"] = "revenue"
      /\ AccountType["fees"] = "expense"
  BY DEF AccountType
<1>3. Liquid = {"cash", "bank"}
  BY <1>1 DEF Liquid, estLiquidite
<1>4. /\ OfType({"asset"}) = {"cash", "bank", "receivables"}
      /\ OfType({"liability"}) = {"vatDue"} /\ OfType({"equity"}) = {"result"}
      /\ OfType({"liability", "equity"}) = {"vatDue", "result"}
      /\ OfType({"revenue"}) = {"sales"} /\ OfType({"expense"}) = {"fees"}
  BY <1>1, <1>2 DEF OfType
<1>5. IsFiniteSet({"cash", "bank"})
  <2>1. IsFiniteSet({"cash"})
    BY FS_Singleton
  <2>2. {"cash", "bank"} = {"cash"} \cup {"bank"}
    OBVIOUS
  <2> QED
    BY <2>1, <2>2, FS_AddElement
<1>6. IsFiniteSet({"cash", "bank", "receivables", "vatDue", "result", "sales", "fees"})
  <2>1. IsFiniteSet({"cash", "bank"} \cup {"receivables"})
    BY <1>5, FS_AddElement
  <2>2. IsFiniteSet({"vatDue", "result"})
    <3>1. IsFiniteSet({"vatDue"}) /\ {"vatDue", "result"} = {"vatDue"} \cup {"result"}
      BY FS_Singleton
    <3> QED
      BY <3>1, FS_AddElement
  <2>3. IsFiniteSet({"sales", "fees"})
    <3>1. IsFiniteSet({"sales"}) /\ {"sales", "fees"} = {"sales"} \cup {"fees"}
      BY FS_Singleton
    <3> QED
      BY <3>1, FS_AddElement
  <2>4. IsFiniteSet(({"cash", "bank"} \cup {"receivables"}) \cup {"vatDue", "result"})
    BY <2>1, <2>2, FS_Union
  <2>5. IsFiniteSet((({"cash", "bank"} \cup {"receivables"}) \cup {"vatDue", "result"})
                      \cup {"sales", "fees"})
    BY <2>3, <2>4, FS_Union
  <2>6. {"cash", "bank", "receivables", "vatDue", "result", "sales", "fees"}
          = (({"cash", "bank"} \cup {"receivables"}) \cup {"vatDue", "result"})
              \cup {"sales", "fees"}
    OBVIOUS
  <2> QED
    BY <2>5, <2>6
<1> QED
  BY <1>1, <1>3, <1>4, <1>5, <1>6

\* What an entry gains of money is what its counterparts are in credit.
LEMMA MoneyInIs ==
  ASSUME JournalOK(journal_entries), NEW e \in DOMAIN journal_entries, Balanced(e.lines)
  PROVE  /\ MoneyIn(e) \in Int
         /\ MoneyIn(e) = CreditOf(Counterparts(e)) - DebitOf(Counterparts(e))
         /\ CreditOf(Counterparts(e)) \in Nat /\ DebitOf(Counterparts(e)) \in Nat
<1> DEFINE Others == Accounts \ Liquid
<1>1. LinesOK(e.lines)
  BY JournalType
<1>2. Counterparts(e) = On(e.lines, Others)
  BY <1>1, LineType DEF Counterparts, On, Liquid
<1>3. MoneyIn(e) = NetDebit(e.lines, Liquid)
  BY DEF MoneyIn, Liquid
<1>4. Liquid \cap Others = {} /\ Liquid \cup Others = Accounts
  BY DEF Liquid
<1>5. NetDebit(e.lines, Accounts) = NetDebit(e.lines, Liquid) + NetDebit(e.lines, Others)
  BY <1>1, <1>4, NetDebitUnion
<1>6. NetDebit(e.lines, Accounts) = 0
  BY DEF Balanced
<1>7. NetDebit(e.lines, Others) = DebitOf(On(e.lines, Others)) - CreditOf(On(e.lines, Others))
  BY <1>1, NetDebitSplit
<1>8. NetDebit(e.lines, Liquid) \in Int /\ NetDebit(e.lines, Others) \in Int
  BY <1>1, NetDebitIs
<1>9. DebitOf(On(e.lines, Others)) \in Nat /\ CreditOf(On(e.lines, Others)) \in Nat
  BY <1>1, OnOK, DebitCredit
<1> HIDE DEF Others
<1>10. PICK m, o, d, c : /\ m = NetDebit(e.lines, Liquid) /\ o = NetDebit(e.lines, Others)
                         /\ d = DebitOf(On(e.lines, Others)) /\ c = CreditOf(On(e.lines, Others))
  OBVIOUS
<1>11. m \in Int /\ o \in Int /\ d \in Nat /\ c \in Nat /\ 0 = m + o /\ o = d - c
  BY <1>5, <1>6, <1>7, <1>8, <1>9, <1>10
<1>12. m = c - d
  BY <1>11
<1> QED
  BY <1>2, <1>3, <1>10, <1>11, <1>12

\* An entry out of which the simplified accounts take nothing gains no money.
LEMMA NoMoney ==
  ASSUME JournalOK(journal_entries), NEW from, NEW to,
         NEW e \in Retained(from, to), e \notin MoneyEntries(from, to)
  PROVE  NetDebit(e.lines, Liquid) = 0
<1>1. e \in DOMAIN journal_entries /\ EntryOK(e) /\ LinesOK(e.lines)
  BY JournalType DEF Retained
<1>2. CASE \E l \in e.lines : ~estLiquidite(l.account)
  <2>1. \A l \in e.lines : ~(estLiquidite(l.account) /\ (l.debit # 0 \/ l.credit # 0))
    BY <1>2 DEF MoneyEntries
  <2>2. \A l \in e.lines : l.account \in Liquid => l.debit = l.credit
    BY <2>1 DEF Liquid
  <2> QED
    BY <1>1, <2>2, NetDebitNone
<1>3. CASE \A l \in e.lines : estLiquidite(l.account)
  <2>1. CASE e.kind = "closing"
    <3>1. \A l \in e.lines : l.account \in {"sales", "fees", "result"} /\ estLiquidite(l.account)
      BY <1>1, <1>3, <2>1 DEF EntryOK
    <3>2. \A l \in e.lines : FALSE
      BY <3>1 DEF estLiquidite
    <3> QED
      BY <1>1, <3>2, NetDebitNone
  <2>2. CASE e.kind # "closing"
    <3>1. \A l \in e.lines : l.account \in Liquid <=> l.account \in Accounts
      BY <1>1, <1>3, LineType DEF Liquid
    <3>2. NetDebit(e.lines, Accounts) = 0
      BY <1>1, <2>2 DEF EntryOK, Balanced
    <3> QED
      BY <1>1, <3>1, <3>2, NetDebitWithin
  <2> QED
    BY <2>1, <2>2
<1> QED
  BY <1>2, <1>3

\* An entry that moves money is no closing, hence balanced.
LEMMA MoneyBalanced ==
  ASSUME JournalOK(journal_entries), NEW from, NEW to, NEW e \in MoneyEntries(from, to)
  PROVE  e \in Retained(from, to) /\ e \in DOMAIN journal_entries /\ Balanced(e.lines)
<1>1. e \in Retained(from, to) /\ e \in DOMAIN journal_entries
  BY DEF MoneyEntries, Retained
<1>2. EntryOK(e)
  BY <1>1, JournalType
<1>3. PICK l \in e.lines : estLiquidite(l.account)
  BY DEF MoneyEntries
<1>4. l.account \notin {"sales", "fees", "result"}
  BY <1>3 DEF estLiquidite
<1>5. e.kind # "closing"
  BY <1>2, <1>4 DEF EntryOK
<1> QED
  BY <1>1, <1>2, <1>5 DEF EntryOK

\* Between its opening and its closing the general ledger moves an account.
LEMMA LedgerMoves ==
  ASSUME JournalOK(journal_entries), NEW from, NEW to, NEW account
  PROVE  /\ GeneralLedger(account, from, to).opening = Movement({account}, Retained(1, from - 1))
         /\ GeneralLedger(account, from, to).opening \in Int
         /\ GeneralLedger(account, from, to).closing \in Int
         /\ Movement({account}, Retained(from, to)) \in Int
         /\ GeneralLedger(account, from, to).closing - GeneralLedger(account, from, to).opening
              = Movement({account}, Retained(from, to))
<1>1. /\ Retained(1, from - 1) \in SUBSET DOMAIN journal_entries
      /\ Retained(from, to) \in SUBSET DOMAIN journal_entries
  BY DEF Retained
<1>2. PICK o : o = Movement({account}, Retained(1, from - 1))
  OBVIOUS
<1>3. PICK r : r = Movement({account}, Retained(from, to))
  OBVIOUS
<1>4. o \in Int /\ r \in Int
  BY <1>1, <1>2, <1>3, MovementType
<1>5. GeneralLedger(account, from, to).opening = o /\ GeneralLedger(account, from, to).closing = o + r
  BY <1>2, <1>3 DEF GeneralLedger
<1>6. PICK x, y : /\ x = GeneralLedger(account, from, to).opening
                  /\ y = GeneralLedger(account, from, to).closing
  OBVIOUS
<1>7. x = o /\ y = o + r
  BY <1>5, <1>6
<1>8. x \in Int /\ y \in Int /\ y - x = r
  BY <1>4, <1>7
<1> QED
  BY <1>2, <1>3, <1>4, <1>6, <1>7, <1>8

LEMMA CarnetHolds ==
  ASSUME JournalOK(journal_entries)
  PROVE  CarnetExplained
<1> SUFFICES ASSUME NEW from \in Dates, NEW to \in from..Cardinality(Dates)
             PROVE  /\ Etabli(from, to)
                    /\ Resultat(from, to) =
                         SumFunction([a \in {a \in Accounts : estLiquidite(a)} |->
                           GeneralLedger(a, from, to).closing - GeneralLedger(a, from, to).opening])
  BY DEF CarnetExplained
<1> DEFINE R == Retained(from, to)
           E == MoneyEntries(from, to)
           c == [e \in E |-> CreditOf(Counterparts(e))]
           d == [e \in E |-> DebitOf(Counterparts(e))]
           m == [e \in E |-> MoneyIn(e)]
           f == [a \in {a \in Accounts : estLiquidite(a)} |->
                  GeneralLedger(a, from, to).closing - GeneralLedger(a, from, to).opening]
<1>1. R \in SUBSET DOMAIN journal_entries /\ E \in SUBSET R /\ E \in SUBSET DOMAIN journal_entries
      /\ R \ E \in SUBSET DOMAIN journal_entries
  BY DEF Retained, MoneyEntries
<1>2. /\ DOMAIN c = E /\ DOMAIN d = E /\ DOMAIN m = E
      /\ \A e \in E : m[e] \in Int /\ d[e] \in Int /\ c[e] \in Int /\ c[e] = m[e] + d[e]
  <2>1. \A e \in E : /\ MoneyIn(e) \in Int
                     /\ MoneyIn(e) = CreditOf(Counterparts(e)) - DebitOf(Counterparts(e))
                     /\ CreditOf(Counterparts(e)) \in Nat /\ DebitOf(Counterparts(e)) \in Nat
    BY MoneyBalanced, MoneyInIs
  <2> HIDE DEF E
  <2> QED
    BY <2>1
<1>3. /\ mouvements(from, to).recettes = SumOf(c) /\ mouvements(from, to).depenses = SumOf(d)
      /\ mouvements(from, to).net = SumOf(m)
  BY DEF mouvements
<1>4. SumOf(m) = Movement(Liquid, E)
  BY DEF MoneyIn, Movement, Liquid
<1>5. Movement(Liquid, R \ E) = 0
  <2>1. \A e \in R \ E : NetDebit(e.lines, Liquid) = 0
    BY NoMoney
  <2> HIDE DEF R, E
  <2> QED
    BY <1>1, <2>1, MovementNone
<1>6. Movement(Liquid, R) = SumOf(m)
  <2>1. E \cup (R \ E) = R /\ E \cap (R \ E) = {}
    BY <1>1
  <2> HIDE DEF R, E, m
  <2>2. Movement(Liquid, E \cup (R \ E)) = Movement(Liquid, E) + Movement(Liquid, R \ E)
    BY <1>1, <2>1, MovementEntries
  <2>3. Movement(Liquid, E) \in Int
    BY <1>1, MovementType
  <2> QED
    BY <1>4, <1>5, <2>1, <2>2, <2>3
<1>7. SumFunction(f) = Movement(Liquid, R)
  <2>1. \A a \in Accounts :
          GeneralLedger(a, from, to).closing - GeneralLedger(a, from, to).opening
            = Movement({a}, R)
    BY LedgerMoves
  <2>2. DOMAIN f = Liquid /\ \A a \in Liquid : f[a] = Movement({a}, R)
    BY <2>1 DEF Liquid
  <2> HIDE DEF f, R
  <2> QED
    BY <1>1, <2>2, AccountSets, MovementEach
<1>8. SumOf(c) = SumOf(m) + SumOf(d)
  <2>1. \A e \in E : m[e] \in Int /\ d[e] \in Int /\ c[e] = m[e] + d[e]
    BY <1>2
  <2> HIDE DEF c, d, m, E
  <2> QED
    BY <1>1, <1>2, <2>1, SumOfPlus
<1>9. SumOf(m) \in Int /\ SumOf(d) \in Int
  <2> HIDE DEF c, d, m, E
  <2> QED
    BY <1>1, <1>2, SumOfIs
<1> HIDE DEF c, d, m, f, R
<1>10. PICK x, y, z : x = SumOf(c) /\ y = SumOf(d) /\ z = SumOf(m)
  OBVIOUS
<1>11. x - y = z
  BY <1>8, <1>9, <1>10
<1>12. Resultat(from, to) = SumOf(m)
  BY <1>3, <1>10, <1>11 DEF Resultat
<1>13. Etabli(from, to)
  BY <1>3, <1>12 DEF Etabli
<1>14. Resultat(from, to) = SumFunction(f)
  BY <1>6, <1>7, <1>12
<1> QED
  BY <1>13, <1>14 DEF f

-----------------------------------------------------------------------------
(* Sheets and exports *)

LEMMA RetainedType ==
  ASSUME NEW from, NEW to
  PROVE  Retained(from, to) \in SUBSET DOMAIN journal_entries
  BY DEF Retained

LEMMA AllBalanced ==
  ASSUME JournalOK(journal_entries), IntegrityCheck.journalBalance = 0
  PROVE  \A e \in DOMAIN journal_entries : NetDebit(e.lines, Accounts) = 0
<1> DEFINE E == {e \in DOMAIN journal_entries : ~Balanced(e.lines)}
<1>1. SumOf([e \in E |-> 1]) = 0
  BY DEF IntegrityCheck
<1>2. E = {}
  <2>1. E \in SUBSET DOMAIN journal_entries
    OBVIOUS
  <2> HIDE DEF E
  <2> QED
    BY <1>1, <2>1, SumOfCount
<1> QED
  BY <1>2 DEF Balanced

\* The accounts of the balance sheet and those of the income statement.
LEMMA SheetSum ==
  ASSUME JournalOK(journal_entries), NEW E \in SUBSET DOMAIN journal_entries,
         \A e \in E : NetDebit(e.lines, Accounts) = 0
  PROVE  \E a, l, q, r, x \in Int :
           /\ a = Movement(OfType({"asset"}), E) /\ l = Movement(OfType({"liability"}), E)
           /\ q = Movement(OfType({"equity"}), E) /\ r = Movement(OfType({"revenue"}), E)
           /\ x = Movement(OfType({"expense"}), E)
           /\ Movement(OfType({"liability", "equity"}), E) = l + q
           /\ a + l + q + r + x = 0
<1>1. /\ Movement(OfType({"asset"}), E) \in Int /\ Movement(OfType({"liability"}), E) \in Int
      /\ Movement(OfType({"equity"}), E) \in Int /\ Movement(OfType({"revenue"}), E) \in Int
      /\ Movement(OfType({"expense"}), E) \in Int
  BY MovementType
<1>2. Movement(Accounts, E) = 0
  BY MovementNone
<1> DEFINE le == OfType({"liability", "equity"})
           re == OfType({"revenue"}) \cup OfType({"expense"})
<1>3. Movement(le, E) = Movement(OfType({"liability"}), E) + Movement(OfType({"equity"}), E)
  <2>1. /\ le = OfType({"liability"}) \cup OfType({"equity"})
        /\ OfType({"liability"}) \cap OfType({"equity"}) = {}
    BY AccountSets
  <2> HIDE DEF le
  <2> QED
    BY <2>1, MovementAccounts
<1>4. Movement(re, E) = Movement(OfType({"revenue"}), E) + Movement(OfType({"expense"}), E)
  <2>1. OfType({"revenue"}) \cap OfType({"expense"}) = {}
    BY AccountSets
  <2> QED
    BY <2>1, MovementAccounts
<1>5. Movement(OfType({"asset"}) \cup le, E) = Movement(OfType({"asset"}), E) + Movement(le, E)
  <2>1. OfType({"asset"}) \cap le = {}
    BY AccountSets
  <2> HIDE DEF le
  <2> QED
    BY <2>1, MovementAccounts
<1>6. Movement(Accounts, E) = Movement(OfType({"asset"}) \cup le, E) + Movement(re, E)
  <2>1. /\ (OfType({"asset"}) \cup le) \cap re = {}
        /\ (OfType({"asset"}) \cup le) \cup re = Accounts
    BY AccountSets
  <2> HIDE DEF le, re
  <2>2. Movement((OfType({"asset"}) \cup le) \cup re, E)
          = Movement(OfType({"asset"}) \cup le, E) + Movement(re, E)
    BY <2>1, MovementAccounts
  <2> QED
    BY <2>1, <2>2
<1>7. PICK m1, m2, m3 : /\ m1 = Movement(le, E) /\ m2 = Movement(re, E)
                        /\ m3 = Movement(OfType({"asset"}) \cup le, E)
  OBVIOUS
<1> HIDE DEF le, re
<1>8. PICK a, l, q, r, x \in Int :
           /\ a = Movement(OfType({"asset"}), E) /\ l = Movement(OfType({"liability"}), E)
           /\ q = Movement(OfType({"equity"}), E) /\ r = Movement(OfType({"revenue"}), E)
           /\ x = Movement(OfType({"expense"}), E)
  BY <1>1
<1>9. m1 = l + q /\ m2 = r + x /\ m3 = a + m1 /\ 0 = m3 + m2
  BY <1>2, <1>3, <1>4, <1>5, <1>6, <1>7, <1>8
<1>10. a + l + q + r + x = 0
  BY <1>9
<1>11. Movement(OfType({"liability", "equity"}), E) = l + q
  BY <1>7, <1>9 DEF le
<1> QED
  BY <1>8, <1>10, <1>11

\* The rows of a trial balance.
LEMMA RowIs ==
  ASSUME JournalOK(journal_entries), NEW E \in SUBSET DOMAIN journal_entries, NEW a
  PROVE  /\ TrialRow(a, E).debit \in Int /\ TrialRow(a, E).credit \in Int
         /\ TrialRow(a, E).debit - TrialRow(a, E).credit = Movement({a}, E)
<1> DEFINE f == [e \in E |-> DebitOf(LinesOn(e, a))]
           g == [e \in E |-> CreditOf(LinesOn(e, a))]
           h == [e \in E |-> NetDebit(e.lines, {a})]
<1>1. ASSUME NEW e \in E
      PROVE  h[e] \in Int /\ g[e] \in Int /\ f[e] \in Int /\ f[e] = h[e] + g[e]
  <2>1. LinesOK(e.lines)
    BY JournalType
  <2>2. LinesOn(e, a) = On(e.lines, {a})
    BY DEF LinesOn, On
  <2>3. PICK m, d, c : /\ m = NetDebit(e.lines, {a}) /\ d = DebitOf(On(e.lines, {a}))
                       /\ c = CreditOf(On(e.lines, {a}))
    OBVIOUS
  <2>4. m \in Int /\ m = d - c
    BY <2>1, <2>3, NetDebitIs, NetDebitSplit
  <2>5. d \in Nat /\ c \in Nat
    BY <2>1, <2>3, OnOK, DebitCredit
  <2>6. d = m + c
    BY <2>4, <2>5
  <2>7. h[e] = m /\ g[e] = c /\ f[e] = d
    BY <2>2, <2>3
  <2> HIDE DEF f, g, h
  <2> QED
    BY <2>4, <2>5, <2>6, <2>7
<1>2. SumOf(f) = TrialRow(a, E).debit /\ SumOf(g) = TrialRow(a, E).credit /\ SumOf(h) = Movement({a}, E)
  BY DEF TrialRow, Movement
<1>3. DOMAIN f = E /\ DOMAIN g = E /\ DOMAIN h = E
  OBVIOUS
<1> HIDE DEF f, g, h
<1>4. SumOf(f) = SumOf(h) + SumOf(g)
  BY <1>1, <1>3, SumOfPlus
<1>5. SumOf(f) \in Int /\ SumOf(g) \in Int /\ SumOf(h) \in Int
  BY <1>1, <1>3, SumOfIs
<1>6. PICK x, y, z : x = SumOf(f) /\ y = SumOf(g) /\ z = SumOf(h)
  OBVIOUS
<1>7. x - y = z
  BY <1>4, <1>5, <1>6
<1> QED
  BY <1>2, <1>5, <1>6, <1>7

\* All the rows make up the lines on their accounts.
LEMMA RowsEach ==
  ASSUME JournalOK(journal_entries), NEW E \in SUBSET DOMAIN journal_entries,
         NEW A, IsFiniteSet(A)
  PROVE  /\ SumFunction([a \in A |-> TrialRow(a, E).debit])
              = SumOf([e \in E |-> DebitOf(On(e.lines, A))])
         /\ SumFunction([a \in A |-> TrialRow(a, E).credit])
              = SumOf([e \in E |-> CreditOf(On(e.lines, A))])
<1> DEFINE fd == [a \in A |-> TrialRow(a, E).debit]
           fc == [a \in A |-> TrialRow(a, E).credit]
           D(C) == [e \in E |-> DebitOf(On(e.lines, C))]
           K(C) == [e \in E |-> CreditOf(On(e.lines, C))]
           dd == [C \in SUBSET A |-> SumOf(D(C))]
           dc == [C \in SUBSET A |-> SumOf(K(C))]
<1>1. ASSUME NEW C
      PROVE  /\ DOMAIN D(C) = E /\ DOMAIN K(C) = E
             /\ \A e \in E : D(C)[e] \in Int /\ K(C)[e] \in Int
  <2>1. \A e \in E : LinesOK(e.lines)
    BY JournalType
  <2>2. \A e \in E : DebitOf(On(e.lines, C)) \in Int /\ CreditOf(On(e.lines, C)) \in Int
    <3> TAKE e \in E
    <3>1. LinesOK(On(e.lines, C))
      BY <2>1, OnOK
    <3>2. DebitOf(On(e.lines, C)) \in Nat /\ CreditOf(On(e.lines, C)) \in Nat
      BY <3>1, DebitCredit
    <3> QED
      BY <3>2
  <2> QED
    BY <2>2
<1>2. ASSUME NEW C
      PROVE  SumOf(D(C)) \in Int /\ SumOf(K(C)) \in Int
  <2> HIDE DEF D, K
  <2> QED
    BY <1>1, SumOfIs
<1>3. ASSUME NEW C, NEW C2, C \cap C2 = {}
      PROVE  /\ SumOf(D(C \cup C2)) = SumOf(D(C)) + SumOf(D(C2))
             /\ SumOf(K(C \cup C2)) = SumOf(K(C)) + SumOf(K(C2))
  <2>1. \A e \in E : LinesOK(e.lines)
    BY JournalType
  <2>2. \A e \in E : /\ D(C \cup C2)[e] = D(C)[e] + D(C2)[e]
                     /\ K(C \cup C2)[e] = K(C)[e] + K(C2)[e]
    BY <1>3, <2>1, DebitUnion
  <2> HIDE DEF D, K
  <2>3. PICK d1, d2, d3 : d1 = D(C) /\ d2 = D(C2) /\ d3 = D(C \cup C2)
    OBVIOUS
  <2>4. SumOf(d3) = SumOf(d1) + SumOf(d2)
    <3>1. /\ DOMAIN d1 = E /\ DOMAIN d2 = E /\ DOMAIN d3 = E
          /\ \A e \in E : d1[e] \in Int /\ d2[e] \in Int /\ d3[e] = d1[e] + d2[e]
      BY <1>1, <2>2, <2>3
    <3> QED
      BY <3>1, SumOfPlus
  <2>5. PICK k1, k2, k3 : k1 = K(C) /\ k2 = K(C2) /\ k3 = K(C \cup C2)
    OBVIOUS
  <2>6. SumOf(k3) = SumOf(k1) + SumOf(k2)
    <3>1. /\ DOMAIN k1 = E /\ DOMAIN k2 = E /\ DOMAIN k3 = E
          /\ \A e \in E : k1[e] \in Int /\ k2[e] \in Int /\ k3[e] = k1[e] + k2[e]
      BY <1>1, <2>2, <2>5
    <3> QED
      BY <3>1, SumOfPlus
  <2> QED
    BY <2>3, <2>4, <2>5, <2>6
<1>4. SumOf(D({})) = 0 /\ SumOf(K({})) = 0
  <2>1. \A e \in E : On(e.lines, {}) = {}
    BY DEF On
  <2>2. \A e \in E : D({})[e] = 0 /\ K({})[e] = 0
    BY <2>1, DebitNone
  <2> HIDE DEF D, K
  <2> QED
    BY <1>1, <2>2, SumOfNone
<1>5. \A a \in A : fd[a] = SumOf(D({a})) /\ fc[a] = SumOf(K({a}))
  <2>1. \A a, e : LinesOn(e, a) = On(e.lines, {a})
    BY DEF LinesOn, On
  <2> QED
    BY <2>1 DEF TrialRow
<1>6. SumFunctionOnSet(fd, A) = SumOf(D(A)) /\ SumFunctionOnSet(fc, A) = SumOf(K(A))
  <2> HIDE DEF D, K
  <2>1. /\ dd[{}] = 0 /\ dc[{}] = 0
        /\ \A C \in SUBSET A : dd[C] = SumOf(D(C)) /\ dc[C] = SumOf(K(C))
        /\ \A C \in SUBSET A : dd[C] \in Int /\ dc[C] \in Int
    BY <1>2, <1>4
  <2>2. \A a \in A : {a} \in SUBSET A
    OBVIOUS
  <2>3. \A a \in A : fd[a] = dd[{a}] /\ fc[a] = dc[{a}]
    BY <1>5, <2>1, <2>2
  <2>4. ASSUME NEW C \in SUBSET A, NEW a \in A \ C
        PROVE  dd[C \cup {a}] = dd[C] + dd[{a}] /\ dc[C \cup {a}] = dc[C] + dc[{a}]
    <3>1. C \cap {a} = {} /\ C \cup {a} \in SUBSET A
      OBVIOUS
    <3> QED
      BY <1>3, <2>1, <2>2, <3>1
  <2>5. A \in SUBSET A
    OBVIOUS
  <2>6. \A C \in SUBSET A : \A a \in A \ C : dd[C \cup {a}] = dd[C] + dd[{a}]
    BY <2>4
  <2>7. \A C \in SUBSET A : \A a \in A \ C : dc[C \cup {a}] = dc[C] + dc[{a}]
    BY <2>4
  <2> HIDE DEF dd, dc, fd, fc
  <2>8. SumFunctionOnSet(fd, A) = dd[A]
    <3>1. GrowsBy(dd, fd, A)
      BY <2>1, <2>3, <2>6 DEF GrowsBy
    <3> QED
      BY <3>1, SumEach
  <2>9. SumFunctionOnSet(fc, A) = dc[A]
    <3>1. GrowsBy(dc, fc, A)
      BY <2>1, <2>3, <2>7 DEF GrowsBy
    <3> QED
      BY <3>1, SumEach
  <2> QED
    BY <2>1, <2>5, <2>8, <2>9
<1>7. DOMAIN fd = A /\ DOMAIN fc = A
  OBVIOUS
<1> HIDE DEF fd, fc
<1>8. SumFunction(fd) = SumOf(D(A)) /\ SumFunction(fc) = SumOf(K(A))
  BY <1>6, <1>7 DEF SumFunction
<1> QED
  BY <1>8 DEF fd, fc

\* The totals of the journal exported, and its trial balance.
LEMMA JournalExported ==
  ASSUME JournalOK(journal_entries), NEW from, NEW to,
         \A e \in DOMAIN journal_entries : NetDebit(e.lines, Accounts) = 0
  PROVE  LET total == ExportJournalCSV(from, to)
             trial == ExportTrialBalanceCSV(from, to)
         IN /\ total.debit = total.credit
            /\ total.debit = SumFunction([a \in DOMAIN trial |-> trial[a].debit])
            /\ total.credit = SumFunction([a \in DOMAIN trial |-> trial[a].credit])
<1> DEFINE E == Retained(from, to)
           A == {l.account : l \in UNION {e.lines : e \in E}}
           f == [e \in E |-> DebitOf(e.lines)]
           g == [e \in E |-> CreditOf(e.lines)]
           h == [e \in E |-> NetDebit(e.lines, Accounts)]
           trial == ExportTrialBalanceCSV(from, to)
<1>1. E \in SUBSET DOMAIN journal_entries
  BY RetainedType
<1>2. \A e \in E : LinesOK(e.lines)
  BY <1>1, JournalType
<1>3. ASSUME NEW e \in E
      PROVE  On(e.lines, A) = e.lines /\ On(e.lines, Accounts) = e.lines
  <2>1. On(e.lines, A) = e.lines
    BY DEF On
  <2>2. On(e.lines, Accounts) = e.lines
    BY <1>2, LineType DEF On
  <2> QED
    BY <2>1, <2>2
<1>4. A \subseteq Accounts /\ IsFiniteSet(A)
  <2>1. A \subseteq Accounts
    BY <1>2, LineType
  <2> HIDE DEF A
  <2> QED
    BY <2>1, AccountSets, FS_Subset
<1>5. ASSUME NEW e \in E
      PROVE  h[e] \in Int /\ g[e] \in Int /\ f[e] \in Int /\ f[e] = h[e] + g[e]
  <2>1. PICK m, d, c : m = NetDebit(e.lines, Accounts) /\ d = DebitOf(e.lines) /\ c = CreditOf(e.lines)
    OBVIOUS
  <2>2. m \in Int /\ m = d - c
    BY <1>2, <1>3, <2>1, NetDebitIs, NetDebitSplit
  <2>3. d \in Nat /\ c \in Nat
    BY <1>2, <2>1, DebitCredit
  <2>4. d = m + c
    BY <2>2, <2>3
  <2>5. h[e] = m /\ g[e] = c /\ f[e] = d
    BY <2>1
  <2> HIDE DEF f, g, h
  <2> QED
    BY <2>2, <2>3, <2>4, <2>5
<1>6. ExportJournalCSV(from, to).debit = SumOf(f) /\ ExportJournalCSV(from, to).credit = SumOf(g)
  BY DEF ExportJournalCSV
<1>7. SumOf(f) = SumOf(g)
  <2>1. DOMAIN f = E /\ DOMAIN g = E /\ DOMAIN h = E
    OBVIOUS
  <2>2. \A e \in E : h[e] = 0
    BY <1>1
  <2> HIDE DEF f, g, h, E
  <2>3. SumOf(f) = SumOf(h) + SumOf(g)
    BY <1>1, <1>5, <2>1, SumOfPlus
  <2>4. SumOf(h) = 0
    BY <1>1, <2>1, <2>2, SumOfNone
  <2>5. SumOf(g) \in Int
    BY <1>1, <1>5, <2>1, SumOfIs
  <2> QED
    BY <2>3, <2>4, <2>5
<1>8. trial = [a \in A |-> TrialRow(a, E)]
  BY DEF ExportTrialBalanceCSV
<1>9. /\ [a \in DOMAIN trial |-> trial[a].debit] = [a \in A |-> TrialRow(a, E).debit]
      /\ [a \in DOMAIN trial |-> trial[a].credit] = [a \in A |-> TrialRow(a, E).credit]
  <2> HIDE DEF trial, A, E
  <2> QED
    BY <1>8
<1>10. /\ [e \in E |-> DebitOf(On(e.lines, A))] = f
       /\ [e \in E |-> CreditOf(On(e.lines, A))] = g
  BY <1>3
<1>11. /\ SumFunction([a \in A |-> TrialRow(a, E).debit]) = SumOf(f)
       /\ SumFunction([a \in A |-> TrialRow(a, E).credit]) = SumOf(g)
  <2> HIDE DEF f, g, A, E
  <2>1. /\ SumFunction([a \in A |-> TrialRow(a, E).debit])
              = SumOf([e \in E |-> DebitOf(On(e.lines, A))])
        /\ SumFunction([a \in A |-> TrialRow(a, E).credit])
              = SumOf([e \in E |-> CreditOf(On(e.lines, A))])
    BY <1>1, <1>4, RowsEach
  <2> QED
    BY <1>10, <2>1
<1> HIDE DEF f, g, A, E, trial
<1> QED
  BY <1>6, <1>7, <1>9, <1>11 DEF trial

\* An account has one balance, whoever tells it.
LEMMA LedgerExported ==
  ASSUME JournalOK(journal_entries), NEW from \in Dates, NEW to \in from..Cardinality(Dates),
         NEW a \in Accounts
  PROVE  LET trial == ExportTrialBalanceCSV(from, to)
             balance == IF a \in DOMAIN trial THEN trial[a].debit - trial[a].credit ELSE 0
             ledger == GeneralLedger(a, from, to)
             moved == ledger.closing - ledger.opening
         IN /\ ledger.closing = AccountBalance(a, to)
            /\ ExportLedgerCSV(a, from, to) = moved
            /\ balance = moved
<1> DEFINE E == Retained(from, to)
           trial == ExportTrialBalanceCSV(from, to)
<1>1. E \in SUBSET DOMAIN journal_entries
  BY RetainedType
<1>2. GeneralLedger(a, from, to).closing - GeneralLedger(a, from, to).opening = Movement({a}, E)
  BY LedgerMoves
<1>3. GeneralLedger(a, from, to).closing = AccountBalance(a, to)
  <2> DEFINE P == Retained(1, from - 1)
  <2>1. P \in SUBSET DOMAIN journal_entries
    BY RetainedType
  <2>2. P \cup E = Retained(1, to) /\ P \cap E = {}
    <3>1. from \in Int /\ to \in Int /\ 1 <= from /\ from <= to
      BY DateType
    <3>2. ASSUME NEW e \in DOMAIN journal_entries
          PROVE  /\ e \in P \/ e \in E <=> e \in Retained(1, to)
                 /\ ~(e \in P /\ e \in E)
      <4>1. e.date \in Int
        BY JournalType, EntryType
      <4> QED
        BY <3>1, <4>1 DEF Retained
    <3> QED
      BY <3>2 DEF Retained
  <2> HIDE DEF P, E
  <2>3. Movement({a}, P \cup E) = Movement({a}, P) + Movement({a}, E)
    BY <1>1, <2>1, <2>2, MovementEntries
  <2>4. GeneralLedger(a, from, to).closing = Movement({a}, P) + Movement({a}, E)
    BY DEF GeneralLedger, P, E
  <2> QED
    BY <2>2, <2>3, <2>4 DEF AccountBalance
<1>4. ExportLedgerCSV(a, from, to) = Movement({a}, E)
  BY DEF ExportLedgerCSV
<1>5. CASE a \in DOMAIN trial
  <2>1. trial[a] = TrialRow(a, E)
    BY <1>5 DEF ExportTrialBalanceCSV
  <2>2. trial[a].debit - trial[a].credit = Movement({a}, E)
    <3> HIDE DEF E, trial
    <3> QED
      BY <1>1, <2>1, RowIs
  <2> HIDE DEF E
  <2> QED
    BY <1>2, <1>3, <1>4, <1>5, <2>2
<1>6. CASE a \notin DOMAIN trial
  <2>1. \A e \in E : \A l \in e.lines : l.account # a
    BY <1>6 DEF ExportTrialBalanceCSV
  <2>2. \A e \in E : NetDebit(e.lines, {a}) = 0
    BY <1>1, <2>1, JournalType, NetDebitNone
  <2> HIDE DEF E
  <2>3. Movement({a}, E) = 0
    BY <1>1, <2>2, MovementNone
  <2> QED
    BY <1>2, <1>3, <1>4, <1>6, <2>3
<1> QED
  BY <1>5, <1>6

-----------------------------------------------------------------------------
(* Documents *)

Statuses == {"draft", "sent", "paid", "cancelled", "archived"}

Documents ==
  [type : {"invoice", "credit_note"}, corrects : Nat, date : Dates, due : Nat,
   year : YearEnds \cup {NoYear}, subtotal : Nat, vat : Nat, total : Nat, status : Statuses,
   paid : Nat, payments : Nat, entered : BOOLEAN, reopened : Nat]

DocumentRowOK(doc) ==
  /\ doc \in Documents
  /\ doc.paid <= doc.total
  /\ doc.status \in {"draft", "cancelled"} => doc.paid = 0
  /\ doc.status \in {"paid", "archived"} => doc.paid = doc.total
  /\ doc.entered => doc.status # "draft"

\* The entry of a document entered is in the journal, cancelled or not.
DocumentsOK(D, B) ==
  /\ D \in Seq(Documents)
  /\ \A d \in DOMAIN D :
       /\ DocumentRowOK(D[d])
       /\ D[d].corrects \in {0} \cup DOMAIN D
       /\ D[d].entered => EntryOf(D[d]) \in DOMAIN B

\* The archives hold the entry of a document they hold, and the other way round.
LEMMA ArchiveExported ==
  ASSUME JournalOK(journal_entries), DocumentsOK(documents, journal_entries),
         NEW d \in DOMAIN documents, documents[d].entered
  PROVE  /\ \A from, to :
              d \in LegalArchive(Filters(NoYear, from, to)).invoices =>
                EntryOf(documents[d]) \in LegalArchive(Filters(NoYear, from, to)).entries
         /\ \A y \in YearEnds :
              documents[d].year = YearOf(documents[d].date) =>
                (d \in LegalArchive(Filters(y, 1, Cardinality(Dates))).invoices <=>
                   EntryOf(documents[d]) \in LegalArchive(Filters(y, 1, Cardinality(Dates))).entries)
<1>1. EntryOf(documents[d]) \in DOMAIN journal_entries
  BY DEF DocumentsOK
<1>2. /\ EntryOf(documents[d]).date = documents[d].date
      /\ EntryOf(documents[d]).status = "posted"
  BY DEF EntryOf, Entry
<1>3. documents[d].date \in Dates
  BY DEF DocumentsOK, DocumentRowOK, Documents
<1>4. ASSUME NEW year, NEW from, NEW to
      PROVE  /\ d \in LegalArchive(Filters(year, from, to)).invoices <=>
                  /\ year = NoYear \/ documents[d].year = year
                  /\ from <= documents[d].date /\ documents[d].date <= to
             /\ EntryOf(documents[d]) \in LegalArchive(Filters(year, from, to)).entries <=>
                  /\ year = NoYear \/ YearOf(documents[d].date) = year
                  /\ from <= documents[d].date /\ documents[d].date <= to
  <2>1. /\ LegalArchive(Filters(year, from, to)).invoices = fetchInvoices(Filters(year, from, to))
        /\ LegalArchive(Filters(year, from, to)).entries = fetchJournalEntries(Filters(year, from, to))
    BY DEF LegalArchive
  <2>2. /\ Filters(year, from, to).year = year /\ Filters(year, from, to).from = from
        /\ Filters(year, from, to).to = to
    BY DEF Filters
  <2> QED
    BY <1>1, <1>2, <2>1, <2>2 DEF fetchInvoices, fetchJournalEntries, Retained
<1>5. \A y \in YearEnds : y # NoYear
  BY ReportsAssumption, DateType DEF NoYear
<1> QED
  BY <1>3, <1>4, <1>5

LEMMA ExportsHold ==
  ASSUME JournalOK(journal_entries), DocumentsOK(documents, journal_entries),
         \A e \in DOMAIN journal_entries : NetDebit(e.lines, Accounts) = 0
  PROVE  ExportsExplained
<1>1. ASSUME NEW from \in Dates, NEW to \in from..Cardinality(Dates),
             NEW d \in LegalArchive(Filters(NoYear, from, to)).invoices, documents[d].entered
      PROVE  EntryOf(documents[d]) \in LegalArchive(Filters(NoYear, from, to)).entries
  <2>1. d \in DOMAIN documents
    BY <1>1 DEF LegalArchive, fetchInvoices
  <2> QED
    BY <1>1, <2>1, ArchiveExported
<1>2. ASSUME NEW y \in YearEnds, NEW d \in DOMAIN documents,
             documents[d].entered, documents[d].year = YearOf(documents[d].date)
      PROVE  d \in LegalArchive(Filters(y, 1, Cardinality(Dates))).invoices <=>
               EntryOf(documents[d]) \in LegalArchive(Filters(y, 1, Cardinality(Dates))).entries
  BY <1>2, ArchiveExported
<1> QED
  BY <1>1, <1>2, JournalExported, LedgerExported DEF ExportsExplained

LEMMA SheetHolds ==
  ASSUME JournalOK(journal_entries), DocumentsOK(documents, journal_entries)
  PROVE  SheetExplained
<1> SUFFICES ASSUME IntegrityCheck.journalBalance = 0
             PROVE  /\ ExportsExplained
                    /\ \A date \in Dates :
                         LET trial == TrialBalance(date)
                             sheet == BalanceSheet(date)
                             income == NetIncome(1, date)
                         IN /\ sheet.assets - sheet.liabilitiesEquity = income
                            /\ Fortune(date) = income - Movement(OfType({"equity"}), Retained(1, date))
                            /\ SumFunction([a \in Accounts |-> trial[a].debit - trial[a].credit]) = 0
                            /\ \A a \in Accounts :
                                 trial[a].debit - trial[a].credit = AccountBalance(a, date)
  BY DEF SheetExplained
<1>1. \A e \in DOMAIN journal_entries : NetDebit(e.lines, Accounts) = 0
  BY AllBalanced
<1>2. ExportsExplained
  BY <1>1, ExportsHold
<1>3. ASSUME NEW date \in Dates
      PROVE  /\ BalanceSheet(date).assets - BalanceSheet(date).liabilitiesEquity = NetIncome(1, date)
             /\ Fortune(date) = NetIncome(1, date) - Movement(OfType({"equity"}), Retained(1, date))
             /\ SumFunction([a \in Accounts |->
                  TrialBalance(date)[a].debit - TrialBalance(date)[a].credit]) = 0
             /\ \A a \in Accounts :
                  TrialBalance(date)[a].debit - TrialBalance(date)[a].credit = AccountBalance(a, date)
  <2> DEFINE E == Retained(1, date)
  <2>1. E \in SUBSET DOMAIN journal_entries
    BY RetainedType
  <2>2. \A e \in E : NetDebit(e.lines, Accounts) = 0
    BY <1>1, <2>1
  <2>3. PICK a, l, q, r, x \in Int :
           /\ a = Movement(OfType({"asset"}), E) /\ l = Movement(OfType({"liability"}), E)
           /\ q = Movement(OfType({"equity"}), E) /\ r = Movement(OfType({"revenue"}), E)
           /\ x = Movement(OfType({"expense"}), E)
           /\ Movement(OfType({"liability", "equity"}), E) = l + q
           /\ a + l + q + r + x = 0
    <3> HIDE DEF E
    <3> QED
      BY <2>1, <2>2, SheetSum
  <2>4. /\ BalanceSheet(date).assets = a /\ BalanceSheet(date).liabilitiesEquity = -(l + q)
        /\ NetIncome(1, date) = -r - x /\ Fortune(date) = a + l
    BY <2>3 DEF BalanceSheet, NetIncome, IncomeStatement, Fortune
  <2>5. /\ BalanceSheet(date).assets - BalanceSheet(date).liabilitiesEquity = NetIncome(1, date)
        /\ Fortune(date) = NetIncome(1, date) - Movement(OfType({"equity"}), E)
    <3>1. a + l + q + r + x = 0
      BY <2>3
    <3>2. a - (-(l + q)) = -r - x
      BY <3>1
    <3>3. a + l = (-r - x) - q
      BY <3>1
    <3> HIDE DEF E
    <3> QED
      BY <2>3, <2>4, <3>2, <3>3
  <2>6. \A b \in Accounts :
          TrialBalance(date)[b].debit - TrialBalance(date)[b].credit = Movement({b}, E)
    BY <2>1, RowIs DEF TrialBalance
  <2>7. SumFunction([b \in Accounts |->
          TrialBalance(date)[b].debit - TrialBalance(date)[b].credit]) = 0
    <3> DEFINE f == [b \in Accounts |-> TrialBalance(date)[b].debit - TrialBalance(date)[b].credit]
    <3>1. DOMAIN f = Accounts /\ \A b \in Accounts : f[b] = Movement({b}, E)
      BY <2>6
    <3> HIDE DEF f, E
    <3>2. SumFunction(f) = Movement(Accounts, E)
      BY <2>1, <3>1, AccountSets, MovementEach
    <3>3. Movement(Accounts, E) = 0
      BY <2>1, <2>2, MovementNone
    <3> QED
      BY <3>2, <3>3 DEF f
  <2> QED
    BY <2>5, <2>6, <2>7 DEF AccountBalance
<1> QED
  BY <1>2, <1>3

-----------------------------------------------------------------------------
(* Sums of documents *)

\* The amounts of a document that sums are made of.
Amount(doc, of) ==
  IF of = "total" THEN doc.total ELSE IF of = "vat" THEN doc.vat ELSE doc.paid

LEMMA AmountType ==
  ASSUME NEW doc, DocumentRowOK(doc), NEW of
  PROVE  Amount(doc, of) \in Nat /\ Sign(doc) \in {-1, 1} /\ Sign(doc) * Amount(doc, of) \in Int
<1>1. doc.total \in Nat /\ doc.vat \in Nat /\ doc.paid \in Nat
  BY DEF DocumentRowOK, Documents
<1>2. Amount(doc, of) \in Nat /\ Sign(doc) \in {-1, 1}
  BY <1>1 DEF Amount, Sign
<1> QED
  BY <1>2

LEMMA DocumentsFinite ==
  ASSUME NEW D, D \in Seq(Documents)
  PROVE  IsFiniteSet(DOMAIN D)
<1>1. DOMAIN D = 1..Len(D) /\ Len(D) \in Nat
  OBVIOUS
<1> QED
  BY <1>1, FS_Interval

\* What documents bill, or have been paid, credit notes deducted.
SignedAmounts(of) == [d \in DOMAIN documents |-> Sign(documents[d]) * Amount(documents[d], of)]

Bill(of, X) == SumFunctionOnSet(SignedAmounts(of), X)

TableOK == documents \in Seq(Documents) /\ \A d \in DOMAIN documents : DocumentRowOK(documents[d])

LEMMA BillType ==
  ASSUME TableOK, NEW of, NEW X \in SUBSET DOMAIN documents
  PROVE  /\ IsFiniteSet(X) /\ Bill(of, X) \in Int
         /\ \A d \in X : /\ SignedAmounts(of)[d] \in Int
                         /\ SignedAmounts(of)[d] = Sign(documents[d]) * Amount(documents[d], of)
<1>1. IsFiniteSet(X)
  BY DocumentsFinite, FS_Subset DEF TableOK
<1>2. \A d \in X : /\ SignedAmounts(of)[d] \in Int
                   /\ SignedAmounts(of)[d] = Sign(documents[d]) * Amount(documents[d], of)
  BY AmountType DEF SignedAmounts, TableOK
<1> QED
  BY <1>1, <1>2, SumType DEF Bill

LEMMA BillUnion ==
  ASSUME TableOK, NEW of, NEW X \in SUBSET DOMAIN documents, NEW Y \in SUBSET DOMAIN documents,
         X \cap Y = {}
  PROVE  Bill(of, X \cup Y) = Bill(of, X) + Bill(of, Y)
<1>1. /\ IsFiniteSet(X) /\ IsFiniteSet(Y)
      /\ \A d \in X \cup Y : SignedAmounts(of)[d] \in Int
  BY BillType
<1> QED
  BY <1>1, SumUnion DEF Bill

LEMMA SignedIs ==
  ASSUME TableOK, NEW of, NEW X \in SUBSET DOMAIN documents,
         NEW f, DOMAIN f = X, \A d \in X : f[d] = Amount(documents[d], of)
  PROVE  Signed(f) = Bill(of, X)
<1> DEFINE g == [d \in X |-> Sign(documents[d]) * f[d]]
<1>1. Signed(f) = SumFunctionOnSet(g, X)
  BY DEF Signed, SumFunction
<1>2. \A d \in X : g[d] = SignedAmounts(of)[d] /\ g[d] \in Int
  BY BillType
<1>3. IsFiniteSet(X)
  BY BillType
<1> HIDE DEF g
<1>4. SumFunctionOnSet(g, X) = SumFunctionOnSet(SignedAmounts(of), X)
  BY <1>2, <1>3, SumSame
<1> QED
  BY <1>1, <1>4 DEF Bill

LEMMA BilledIs ==
  ASSUME TableOK, NEW X \in SUBSET DOMAIN documents
  PROVE  Billed(X) = Bill("total", X)
<1> DEFINE f == [d \in X |-> documents[d].total]
<1>1. DOMAIN f = X /\ \A d \in X : f[d] = Amount(documents[d], "total")
  BY DEF Amount
<1> HIDE DEF f
<1>2. Signed(f) = Bill("total", X)
  BY <1>1, SignedIs
<1> QED
  BY <1>2 DEF f, Billed

\* Of invoices alone no sign matters.
LEMMA InvoicesIs ==
  ASSUME TableOK, NEW X \in SUBSET DOMAIN documents, \A d \in X : documents[d].type = "invoice"
  PROVE  TotalOf(X) = Bill("total", X) /\ PaidOf(X) = Bill("paid", X)
<1> DEFINE f == [d \in X |-> documents[d].total]
           g == [d \in X |-> documents[d].paid]
<1>1. TotalOf(X) = SumFunctionOnSet(f, X) /\ PaidOf(X) = SumFunctionOnSet(g, X)
  BY DEF TotalOf, PaidOf, SumFunction
<1>2. ASSUME NEW d \in X
      PROVE  /\ f[d] = SignedAmounts("total")[d] /\ f[d] \in Int
             /\ g[d] = SignedAmounts("paid")[d] /\ g[d] \in Int
  <2>1. Sign(documents[d]) = 1
    BY DEF Sign
  <2>2. documents[d].total \in Nat /\ documents[d].paid \in Nat
    BY DEF TableOK, DocumentRowOK, Documents
  <2>3. /\ SignedAmounts("total")[d] = 1 * documents[d].total
        /\ SignedAmounts("paid")[d] = 1 * documents[d].paid
    BY <2>1, BillType DEF Amount
  <2> QED
    BY <2>2, <2>3
<1>3. IsFiniteSet(X)
  BY BillType
<1> HIDE DEF f, g
<1>4. SumFunctionOnSet(f, X) = SumFunctionOnSet(SignedAmounts("total"), X)
  BY <1>2, <1>3, SumSame
<1>5. SumFunctionOnSet(g, X) = SumFunctionOnSet(SignedAmounts("paid"), X)
  BY <1>2, <1>3, SumSame
<1> QED
  BY <1>1, <1>4, <1>5 DEF Bill

\* What is paid in full has been paid as much as it bills.
LEMMA PaidInFull ==
  ASSUME TableOK, NEW X \in SUBSET DOMAIN documents,
         \A d \in X : documents[d].status \in {"paid", "archived"}
  PROVE  Bill("total", X) = Bill("paid", X)
<1>1. \A d \in X : documents[d].total = documents[d].paid
  BY DEF TableOK, DocumentRowOK
<1>2. \A d \in X : /\ SignedAmounts("total")[d] = SignedAmounts("paid")[d]
                   /\ SignedAmounts("total")[d] \in Int
  <2> TAKE d \in X
  <2>1. Amount(documents[d], "total") = Amount(documents[d], "paid")
    BY <1>1 DEF Amount
  <2>2. /\ SignedAmounts("total")[d] = Sign(documents[d]) * Amount(documents[d], "total")
        /\ SignedAmounts("paid")[d] = Sign(documents[d]) * Amount(documents[d], "paid")
        /\ SignedAmounts("total")[d] \in Int
    BY BillType
  <2> QED
    BY <2>1, <2>2
<1>3. IsFiniteSet(X)
  BY BillType
<1> QED
  BY <1>2, <1>3, SumSame DEF Bill

-----------------------------------------------------------------------------
(* The dashboard *)

Sent == OfStatus({"invoice"}, {"sent"})

NotDue(today) == {d \in Sent : today - documents[d].due <= 0}
Late(today, lo, hi) == {d \in Sent : lo <= today - documents[d].due /\ today - documents[d].due <= hi}
VeryLate(today) == {d \in Sent : today - documents[d].due > 90}

LEMMA SentType ==
  ASSUME TableOK
  PROVE  /\ Sent \in SUBSET DOMAIN documents /\ IsFiniteSet(Sent)
         /\ \A d \in Sent : documents[d].type = "invoice" /\ documents[d].due \in Nat
<1>1. Sent \in SUBSET DOMAIN documents /\ \A d \in Sent : documents[d].type = "invoice"
  BY DEF Sent, OfStatus
<1>2. \A d \in Sent : documents[d].due \in Nat
  BY <1>1 DEF TableOK, DocumentRowOK, Documents
<1> QED
  BY <1>1, <1>2, BillType

\* Each invoice sent falls in one bucket of the ageing.
LEMMA AgeingWhole ==
  ASSUME TableOK, NEW today \in Int
  PROVE  /\ GrandTotal(ARaging(today)) = Bill("total", Sent)
         /\ ARaging(today).current = Bill("total", NotDue(today))
<1> DEFINE b0 == NotDue(today)
           b1 == Late(today, 1, 30)
           b2 == Late(today, 31, 60)
           b3 == Late(today, 61, 90)
           b4 == VeryLate(today)
<1>1. /\ b0 \in SUBSET Sent /\ b1 \in SUBSET Sent /\ b2 \in SUBSET Sent /\ b3 \in SUBSET Sent
      /\ b4 \in SUBSET Sent
  BY DEF NotDue, Late, VeryLate
<1>2. \A X \in SUBSET Sent : /\ X \in SUBSET DOMAIN documents /\ TotalOf(X) = Bill("total", X)
                             /\ Bill("total", X) \in Int
  BY SentType, InvoicesIs, BillType
<1>3. /\ ARaging(today).current = TotalOf(b0) /\ ARaging(today).upto30 = TotalOf(b1)
      /\ ARaging(today).upto60 = TotalOf(b2) /\ ARaging(today).upto90 = TotalOf(b3)
      /\ ARaging(today).over90 = TotalOf(b4)
  BY DEF ARaging, Sent, NotDue, Late, VeryLate
<1>4. /\ Sent = (((b0 \cup b1) \cup b2) \cup b3) \cup b4
      /\ b0 \cap b1 = {} /\ (b0 \cup b1) \cap b2 = {} /\ ((b0 \cup b1) \cup b2) \cap b3 = {}
      /\ (((b0 \cup b1) \cup b2) \cup b3) \cap b4 = {}
  <2>1. ASSUME NEW d \in Sent
        PROVE  /\ d \in b0 \/ d \in b1 \/ d \in b2 \/ d \in b3 \/ d \in b4
               /\ ~(d \in b0 /\ d \in b1) /\ ~(d \in b0 /\ d \in b2) /\ ~(d \in b0 /\ d \in b3)
               /\ ~(d \in b0 /\ d \in b4) /\ ~(d \in b1 /\ d \in b2) /\ ~(d \in b1 /\ d \in b3)
               /\ ~(d \in b1 /\ d \in b4) /\ ~(d \in b2 /\ d \in b3) /\ ~(d \in b2 /\ d \in b4)
               /\ ~(d \in b3 /\ d \in b4)
    <3>1. PICK n : n = today - documents[d].due
      OBVIOUS
    <3>2. n \in Int
      BY <3>1, SentType
    <3>3. /\ d \in b0 <=> n <= 0
          /\ d \in b1 <=> 1 <= n /\ n <= 30
          /\ d \in b2 <=> 31 <= n /\ n <= 60
          /\ d \in b3 <=> 61 <= n /\ n <= 90
          /\ d \in b4 <=> n > 90
      BY <3>1 DEF NotDue, Late, VeryLate
    <3> QED
      BY <3>2, <3>3
  <2> HIDE DEF b0, b1, b2, b3, b4
  <2> QED
    BY <1>1, <2>1
<1> HIDE DEF b0, b1, b2, b3, b4
<1>5. PICK c1, c2, c3 : c1 = b0 \cup b1 /\ c2 = c1 \cup b2 /\ c3 = c2 \cup b3
  OBVIOUS
<1>6. /\ c1 \in SUBSET DOMAIN documents /\ c2 \in SUBSET DOMAIN documents
      /\ c3 \in SUBSET DOMAIN documents /\ b0 \in SUBSET DOMAIN documents
      /\ b1 \in SUBSET DOMAIN documents /\ b2 \in SUBSET DOMAIN documents
      /\ b3 \in SUBSET DOMAIN documents /\ b4 \in SUBSET DOMAIN documents
  BY <1>1, <1>2, <1>5
<1>7. /\ Bill("total", c1) = Bill("total", b0) + Bill("total", b1)
      /\ Bill("total", c2) = Bill("total", c1) + Bill("total", b2)
      /\ Bill("total", c3) = Bill("total", c2) + Bill("total", b3)
      /\ Bill("total", Sent) = Bill("total", c3) + Bill("total", b4)
  <2>1. Bill("total", c1) = Bill("total", b0) + Bill("total", b1)
    BY <1>4, <1>5, <1>6, BillUnion
  <2>2. Bill("total", c2) = Bill("total", c1) + Bill("total", b2)
    BY <1>4, <1>5, <1>6, BillUnion
  <2>3. Bill("total", c3) = Bill("total", c2) + Bill("total", b3)
    BY <1>4, <1>5, <1>6, BillUnion
  <2>4. Sent = c3 \cup b4 /\ c3 \cap b4 = {}
    BY <1>4, <1>5
  <2>5. Bill("total", Sent) = Bill("total", c3) + Bill("total", b4)
    BY <1>6, <2>4, BillUnion
  <2> QED
    BY <2>1, <2>2, <2>3, <2>5
<1>8. GrandTotal(ARaging(today)) =
        Bill("total", b0) + Bill("total", b1) + Bill("total", b2) + Bill("total", b3)
          + Bill("total", b4)
  BY <1>1, <1>2, <1>3 DEF GrandTotal
<1>9. ARaging(today).current = Bill("total", b0)
  BY <1>1, <1>2, <1>3
<1> QED
  BY <1>7, <1>8, <1>9 DEF b0

\* The invoices sent that are dated out of the last six months.
Outside(today) == {d \in Sent : MonthOf[documents[d].date] \notin LastSixMonths(today)}

\* The invoices that some of the months shown count.
Shown(today, T) ==
  {d \in OfStatus({"invoice"}, {"sent", "paid", "archived"}) :
     \E n \in T : MonthOf[documents[d].date] = today.month - 6 + n}

\* What the months shown leave to be paid, for each set of them.
LeftToPay(today) ==
  [T \in SUBSET (1..6) |-> Bill("total", Shown(today, T)) - Bill("paid", Shown(today, T))]

LEMMA LookType ==
  ASSUME TableOK, NEW today \in Looks
  PROVE  /\ today.month \in Nat
         /\ \A d \in DOMAIN documents : MonthOf[documents[d].date] \in Nat
<1>1. \A d \in DOMAIN documents : documents[d].date \in Dates
  BY DEF TableOK, DocumentRowOK, Documents
<1> QED
  BY <1>1, ReportsAssumption

\* The six months shown are the last six.
LEMMA SixShown ==
  ASSUME TableOK, NEW today \in Looks
  PROVE  Shown(today, 1..6) =
           {d \in OfStatus({"invoice"}, {"sent", "paid", "archived"}) :
              MonthOf[documents[d].date] \in LastSixMonths(today)}
<1>1. ASSUME NEW m \in Nat
      PROVE  (\E n \in 1..6 : m = today.month - 6 + n) <=> m \in LastSixMonths(today)
  <2>1. PICK t \in Nat : t = today.month
    BY LookType
  <2>2. ASSUME m \in (t - 5)..t
        PROVE  m - t + 6 \in 1..6 /\ m = t - 6 + (m - t + 6)
    BY <2>2
  <2>3. ASSUME NEW n \in 1..6, m = t - 6 + n
        PROVE  m \in (t - 5)..t
    BY <2>3
  <2> QED
    BY <2>1, <2>2, <2>3 DEF LastSixMonths
<1>2. \A d \in OfStatus({"invoice"}, {"sent", "paid", "archived"}) : MonthOf[documents[d].date] \in Nat
  BY LookType DEF OfStatus
<1> QED
  BY <1>1, <1>2 DEF Shown

LEMMA ShownIs ==
  ASSUME TableOK, NEW today \in Looks, SixMonthsHave(today), NEW n \in 1..6
  PROVE  /\ MonthlyRevenue(today)[n].total = TotalOf(Shown(today, {n}))
         /\ MonthlyRevenue(today)[n].paid = PaidOf(Shown(today, {n}))
<1> DEFINE D == {d \in Invoiced(today) : MonthOf[documents[d].date] = shownMonths(today)[n]}
<1>1. MonthlyRevenue(today)[n] = [total |-> TotalOf(D), paid |-> PaidOf(D)]
  BY DEF MonthlyRevenue
<1>2. PICK m : m = today.month - 6 + n
  OBVIOUS
<1>3. today.month \in Nat /\ m \in LastSixMonths(today)
  <2>1. PICK t \in Nat : t = today.month
    BY LookType
  <2> QED
    BY <1>2, <2>1 DEF LastSixMonths
<1>4. shownMonths(today)[n] = m
  BY <1>2, <1>3 DEF shownMonths, SixMonthsHave
<1>5. today.month - 5 <= m
  BY <1>2, <1>3
<1>6. D = Shown(today, {n})
  BY <1>2, <1>4, <1>5 DEF Invoiced, Shown
<1> HIDE DEF D
<1>7. MonthlyRevenue(today)[n]
        = [total |-> TotalOf(Shown(today, {n})), paid |-> PaidOf(Shown(today, {n}))]
  BY <1>1, <1>6
<1> QED
  BY <1>7

\* The months shown share no invoice: what each leaves to be paid adds up.
LEMMA MonthsEach ==
  ASSUME TableOK, NEW today \in Looks, SixMonthsHave(today)
  PROVE  SumFunction([n \in 1..6 |-> MonthlyRevenue(today)[n].total
                                       - MonthlyRevenue(today)[n].paid])
           = Bill("total", Shown(today, 1..6)) - Bill("paid", Shown(today, 1..6))
<1> DEFINE f == [n \in 1..6 |-> MonthlyRevenue(today)[n].total - MonthlyRevenue(today)[n].paid]
           d == LeftToPay(today)
<1>1. \A T : /\ Shown(today, T) \in SUBSET DOMAIN documents
              /\ \A i \in Shown(today, T) : documents[i].type = "invoice"
  BY DEF Shown, OfStatus
<1>2. ASSUME NEW T \in SUBSET (1..6), NEW n \in (1..6) \ T
      PROVE  d[T \cup {n}] = d[T] + d[{n}]
  <2>1. Shown(today, T \cup {n}) = Shown(today, T) \cup Shown(today, {n})
    BY DEF Shown
  <2>2. Shown(today, T) \cap Shown(today, {n}) = {}
    <3>1. PICK t \in Nat : t = today.month
      BY LookType
    <3>2. \A k \in T : t - 6 + k # t - 6 + n
      BY <3>1
    <3> QED
      BY <3>1, <3>2 DEF Shown
  <2>3. /\ Bill("total", Shown(today, T \cup {n}))
             = Bill("total", Shown(today, T)) + Bill("total", Shown(today, {n}))
        /\ Bill("paid", Shown(today, T \cup {n}))
             = Bill("paid", Shown(today, T)) + Bill("paid", Shown(today, {n}))
    <3>1. PICK X, Y \in SUBSET DOMAIN documents : X = Shown(today, T) /\ Y = Shown(today, {n})
      BY <1>1
    <3>2. \A of : Bill(of, X \cup Y) = Bill(of, X) + Bill(of, Y)
      BY <2>2, <3>1, BillUnion
    <3> QED
      BY <2>1, <3>1, <3>2
  <2>4. PICK a, b, p, q \in Int :
           /\ a = Bill("total", Shown(today, T)) /\ b = Bill("paid", Shown(today, T))
           /\ p = Bill("total", Shown(today, {n})) /\ q = Bill("paid", Shown(today, {n}))
    BY <1>1, BillType
  <2>5. d[T \cup {n}] = (a + p) - (b + q) /\ d[T] = a - b /\ d[{n}] = p - q
    BY <2>3, <2>4 DEF LeftToPay
  <2> QED
    BY <2>4, <2>5
<1>3. d[{}] = 0
  <2>1. Shown(today, {}) = {}
    BY DEF Shown
  <2>2. Bill("total", {}) = 0 /\ Bill("paid", {}) = 0
    BY SumNone DEF Bill
  <2> QED
    BY <2>1, <2>2 DEF LeftToPay
<1>4. \A T \in SUBSET (1..6) : d[T] \in Int
  BY <1>1, BillType DEF LeftToPay
<1>5. ASSUME NEW n \in 1..6
      PROVE  f[n] = d[{n}]
  <2>1. /\ TotalOf(Shown(today, {n})) = Bill("total", Shown(today, {n}))
        /\ PaidOf(Shown(today, {n})) = Bill("paid", Shown(today, {n}))
    BY <1>1, InvoicesIs
  <2>2. {n} \in SUBSET (1..6)
    OBVIOUS
  <2> QED
    BY <2>1, <2>2, ShownIs DEF LeftToPay
<1>6. SumFunction(f) = SumFunctionOnSet(f, 1..6)
  BY DEF SumFunction
<1>7. 1..6 \in SUBSET (1..6) /\ d[1..6] = Bill("total", Shown(today, 1..6))
                                           - Bill("paid", Shown(today, 1..6))
  BY DEF LeftToPay
<1> HIDE DEF f, d
<1>8. GrowsBy(d, f, 1..6)
  BY <1>2, <1>3, <1>4, <1>5 DEF GrowsBy
<1>9. SumFunctionOnSet(f, 1..6) = d[1..6]
  <2>1. PICK S, k : S = 1..k /\ k = 6
    OBVIOUS
  <2>2. IsFiniteSet(S)
    <3>1. 1 \in Int /\ k \in Int
      BY <2>1
    <3> QED
      BY <2>1, <3>1, FS_Interval
  <2>3. SumFunctionOnSet(f, S) = d[S]
    BY <1>8, <2>1, <2>2, SumEach
  <2> QED
    BY <2>1, <2>3
<1> QED
  BY <1>6, <1>7, <1>9 DEF f

LEMMA DashboardHolds ==
  ASSUME TableOK
  PROVE  DashboardExplained
<1>0. Dues \subseteq Nat
  BY ReportsAssumption
<1>1. ASSUME NEW today \in Int
      PROVE  /\ GetStats(today).totalReceivable = GrandTotal(ARaging(today))
             /\ GetStats(today).overdue = 0 =>
                  ARaging(today).current = GrandTotal(ARaging(today))
             /\ GetStats(today).sent = 0 => ARaging(today).current = 0
  <2> DEFINE overdue == {d \in Sent : documents[d].due < today}
  <2>1. /\ GetStats(today).totalReceivable = TotalOf(Sent)
        /\ GetStats(today).overdue = Cardinality(overdue)
        /\ GetStats(today).sent = Cardinality(Sent) - Cardinality(overdue)
    BY DEF GetStats, Sent
  <2>2. TotalOf(Sent) = Bill("total", Sent)
    BY SentType, InvoicesIs
  <2>3. overdue \in SUBSET Sent /\ IsFiniteSet(overdue) /\ IsFiniteSet(Sent)
    BY SentType, FS_Subset
  <2>4. ASSUME NEW d \in Sent
        PROVE  d \in NotDue(today) <=> d \notin overdue
    <3>1. PICK n : n = documents[d].due
      OBVIOUS
    <3>2. n \in Nat
      BY <3>1, SentType
    <3>3. (d \in NotDue(today) <=> today - n <= 0) /\ (d \in overdue <=> n < today)
      BY <3>1 DEF NotDue
    <3> QED
      BY <3>2, <3>3
  <2>5. NotDue(today) = Sent \ overdue
    BY <2>4 DEF NotDue
  <2> HIDE DEF overdue
  <2>6. ASSUME Cardinality(overdue) = 0
        PROVE  NotDue(today) = Sent
    BY <2>3, <2>5, <2>6, FS_EmptySet
  <2>7. ASSUME Cardinality(Sent) - Cardinality(overdue) = 0
        PROVE  NotDue(today) = {}
    <3>1. Cardinality(Sent) \in Nat /\ Cardinality(overdue) \in Nat
      BY <2>3, FS_CardinalityType
    <3>2. Cardinality(Sent) = Cardinality(overdue)
      BY <2>7, <3>1
    <3>3. overdue = Sent
      BY <2>3, <3>2, FS_Subset
    <3> QED
      BY <2>5, <3>3
  <2>8. Bill("total", {}) = 0
    BY SumNone DEF Bill
  <2> QED
    BY <2>1, <2>2, <2>6, <2>7, <2>8, AgeingWhole
<1>2. ASSUME NEW n, NEW today \in Looks, SixMonthsHave(today)
      PROVE  SumFunction([m \in 1..6 |-> MonthlyRevenue(today)[m].total
                                           - MonthlyRevenue(today)[m].paid]) =
               (GetStats(n).totalReceivable - PaidOf(Sent))
                 - (TotalOf(Outside(today)) - PaidOf(Outside(today)))
  <2> DEFINE in == Sent \ Outside(today)
             done == {d \in Shown(today, 1..6) : documents[d].status \in {"paid", "archived"}}
  <2>1. /\ Outside(today) \in SUBSET DOMAIN documents /\ in \in SUBSET DOMAIN documents
        /\ done \in SUBSET DOMAIN documents /\ Outside(today) \cup in = Sent
        /\ Outside(today) \cap in = {} /\ in \cap done = {}
        /\ \A d \in Outside(today) : documents[d].type = "invoice"
        /\ \A d \in done : documents[d].status \in {"paid", "archived"}
    <3>1. Outside(today) \subseteq Sent /\ done \subseteq DOMAIN documents
      BY DEF Outside, Shown, OfStatus
    <3>2. \A d \in Sent : documents[d].status = "sent" /\ d \in DOMAIN documents
                          /\ documents[d].type = "invoice"
      BY DEF Sent, OfStatus
    <3> QED
      BY <3>1, <3>2
  <2>2. Shown(today, 1..6) = in \cup done
    BY SixShown DEF Outside, Sent, OfStatus
  <2> HIDE DEF in, done
  <2>3. SumFunction([m \in 1..6 |-> MonthlyRevenue(today)[m].total - MonthlyRevenue(today)[m].paid])
          = Bill("total", Shown(today, 1..6)) - Bill("paid", Shown(today, 1..6))
    BY <1>2, MonthsEach
  <2>4. /\ TotalOf(Outside(today)) = Bill("total", Outside(today))
        /\ PaidOf(Outside(today)) = Bill("paid", Outside(today))
        /\ TotalOf(Sent) = Bill("total", Sent) /\ PaidOf(Sent) = Bill("paid", Sent)
    BY <2>1, SentType, InvoicesIs
  <2>5. /\ Bill("total", Sent) = Bill("total", Outside(today)) + Bill("total", in)
        /\ Bill("paid", Sent) = Bill("paid", Outside(today)) + Bill("paid", in)
    BY <2>1, BillUnion
  <2>6. /\ Bill("total", Shown(today, 1..6)) = Bill("total", in) + Bill("total", done)
        /\ Bill("paid", Shown(today, 1..6)) = Bill("paid", in) + Bill("paid", done)
    BY <2>1, <2>2, BillUnion
  <2>7. Bill("total", done) = Bill("paid", done)
    BY <2>1, PaidInFull
  <2>8. GetStats(n).totalReceivable = TotalOf(Sent)
    BY DEF GetStats, Sent
  <2>9. PICK o, p, i, j, c \in Int :
           /\ o = Bill("total", Outside(today)) /\ p = Bill("paid", Outside(today))
           /\ i = Bill("total", in) /\ j = Bill("paid", in) /\ c = Bill("paid", done)
    BY <2>1, BillType
  <2>10. (i + c) - (j + c) = ((o + i) - (p + j)) - (o - p)
    BY <2>9
  <2> QED
    BY <2>3, <2>4, <2>5, <2>6, <2>7, <2>8, <2>9, <2>10
<1>3. \A today \in UNION {{due, due + 1, due + 31} : due \in Dues} : today \in Int
  BY <1>0
<1> QED
  BY <1>1, <1>2, <1>3 DEF DashboardExplained, Sent, Outside

-----------------------------------------------------------------------------
(* What entries of some kinds and days have put on accounts *)

Value(e, A, K, S) == IF e.kind \in K /\ e.date \in S THEN NetDebit(e.lines, A) ELSE 0

Values(B, A, K, S) == [e \in DOMAIN B |-> B[e] * Value(e, A, K, S)]

Put(B, A, K, S) == SumFunctionOnSet(Values(B, A, K, S), DOMAIN B)

LEMMA ValueType ==
  ASSUME NEW e, EntryOK(e), NEW A, NEW K, NEW S
  PROVE  Value(e, A, K, S) \in Int
<1>1. NetDebit(e.lines, A) \in Int
  BY EntryType, NetDebitIs
<1> QED
  BY <1>1 DEF Value

LEMMA PutType ==
  ASSUME NEW B, JournalOK(B), NEW A, NEW K, NEW S
  PROVE  /\ Put(B, A, K, S) \in Int
         /\ \A e \in DOMAIN B : /\ Values(B, A, K, S)[e] = B[e] * Value(e, A, K, S)
                                /\ Values(B, A, K, S)[e] \in Int
<1>1. ASSUME NEW e \in DOMAIN B
      PROVE  /\ Values(B, A, K, S)[e] = B[e] * Value(e, A, K, S)
             /\ Values(B, A, K, S)[e] \in Int
  <2>1. B[e] \in Nat /\ Value(e, A, K, S) \in Int
    BY JournalType, ValueType
  <2>2. Values(B, A, K, S)[e] = B[e] * Value(e, A, K, S)
    BY DEF Values
  <2> QED
    BY <2>1, <2>2
<1>2. IsFiniteSet(DOMAIN B)
  BY DEF JournalOK
<1> QED
  BY <1>1, <1>2, SumType DEF Put

\* A journal and one entry more, or less.
Plus(B, x) == B (+) SetToBag({x})

Less(B, x) == B (-) SetToBag({x})

\* One entry more adds what it puts.
LEMMA PutAdds ==
  ASSUME NEW B, JournalOK(B), NEW x, EntryOK(x)
  PROVE  /\ JournalOK(Plus(B, x))
         /\ \A e : e \in DOMAIN Plus(B, x) <=> e \in DOMAIN B \/ e = x
         /\ \A A, K, S : Put(Plus(B, x), A, K, S) = Put(B, A, K, S) + Value(x, A, K, S)
<1> SUFFICES ASSUME NEW C, C = Plus(B, x)
             PROVE  /\ JournalOK(C)
                    /\ \A e : e \in DOMAIN C <=> e \in DOMAIN B \/ e = x
                    /\ \A A, K, S : Put(C, A, K, S) = Put(B, A, K, S) + Value(x, A, K, S)
  OBVIOUS
<1>1. /\ DOMAIN C = DOMAIN B \cup {x}
      /\ C = [e \in DOMAIN B \cup {x} |->
               (IF e \in DOMAIN B THEN B[e] ELSE 0) + (IF e = x THEN 1 ELSE 0)]
  BY DEF Plus, (+), SetToBag
<1>2. \A e \in DOMAIN B : B[e] \in Nat /\ B[e] >= 1
  BY JournalType
<1>3. /\ \A e \in DOMAIN B : e # x => C[e] = B[e]
      /\ x \in DOMAIN B => C[x] = B[x] + 1
      /\ x \notin DOMAIN B => C[x] = 1
  <2>1. ASSUME NEW e \in DOMAIN B, e # x
        PROVE  C[e] = B[e]
    <3>1. C[e] = B[e] + 0
      BY <1>1, <2>1
    <3> QED
      BY <1>2, <3>1
  <2>2. ASSUME x \in DOMAIN B
        PROVE  C[x] = B[x] + 1
    BY <1>1, <2>2
  <2>3. ASSUME x \notin DOMAIN B
        PROVE  C[x] = 1
    <3>1. C[x] = 0 + 1
      BY <1>1, <2>3
    <3> QED
      BY <3>1
  <2> QED
    BY <2>1, <2>2, <2>3
<1>4. JournalOK(C)
  <2>1. \A e \in DOMAIN C : C[e] \in Nat /\ C[e] > 0
    <3> TAKE e \in DOMAIN C
    <3>1. CASE e # x
      BY <1>1, <1>2, <1>3, <3>1
    <3>2. CASE e = x
      BY <1>2, <1>3, <3>2
    <3> QED
      BY <3>1, <3>2
  <2>2. IsABag(C)
    BY <1>1, <2>1 DEF IsABag
  <2>3. IsFiniteSet(DOMAIN C)
    BY <1>1, FS_AddElement DEF JournalOK
  <2>4. \A e \in DOMAIN C : EntryOK(e)
    BY <1>1 DEF JournalOK
  <2> QED
    BY <2>2, <2>3, <2>4 DEF JournalOK
<1>5. ASSUME NEW A, NEW K, NEW S
      PROVE  Put(C, A, K, S) = Put(B, A, K, S) + Value(x, A, K, S)
  <2> DEFINE f == Values(B, A, K, S)
             g == Values(C, A, K, S)
             v == Value(x, A, K, S)
  <2>1. /\ \A e \in DOMAIN B : f[e] = B[e] * Value(e, A, K, S) /\ f[e] \in Int
        /\ \A e \in DOMAIN C : g[e] = C[e] * Value(e, A, K, S) /\ g[e] \in Int
    BY <1>4, PutType
  <2>2. v \in Int
    BY ValueType
  <2>3. \A e \in DOMAIN B : e # x => g[e] = f[e]
    <3>1. \A e \in DOMAIN B : e \in DOMAIN C
      BY <1>1
    <3> HIDE DEF f, g
    <3> QED
      BY <1>3, <2>1, <3>1
  <2>4. IsFiniteSet(DOMAIN B)
    BY DEF JournalOK
  <2>5. Put(C, A, K, S) = SumFunctionOnSet(g, DOMAIN C) /\ Put(B, A, K, S) = SumFunctionOnSet(f, DOMAIN B)
    BY DEF Put
  <2>6. Put(B, A, K, S) \in Int
    BY PutType
  <2>7. CASE x \in DOMAIN B
    <3>1. DOMAIN C = DOMAIN B /\ C[x] = B[x] + 1 /\ B[x] \in Nat
      BY <1>1, <1>2, <1>3, <2>7
    <3>2. f[x] = B[x] * v /\ g[x] = (B[x] + 1) * v /\ f[x] \in Int /\ g[x] \in Int
      BY <2>1, <2>7, <3>1
    <3> HIDE DEF f, g, v
    <3>0. \A e \in DOMAIN B : f[e] \in Int /\ g[e] \in Int /\ (e # x => g[e] = f[e])
      BY <2>1, <2>3, <3>1
    <3>3. SumFunctionOnSet(g, DOMAIN B) = SumFunctionOnSet(f, DOMAIN B) - f[x] + g[x]
      BY <2>4, <2>7, <3>0, SumChanged
    <3>4. PICK n, p, q, s, t : /\ n = B[x] /\ p = f[x] /\ q = g[x]
                               /\ s = SumFunctionOnSet(f, DOMAIN B)
                               /\ t = SumFunctionOnSet(g, DOMAIN B)
      OBVIOUS
    <3>5. n \in Int /\ p \in Int /\ q \in Int /\ s \in Int /\ p = n * v /\ q = (n + 1) * v
          /\ t = s - p + q
      BY <2>5, <2>6, <3>1, <3>2, <3>3, <3>4
    <3>6. (n + 1) * v = n * v + v
      BY <2>2, <3>5
    <3>7. t = s + v
      BY <2>2, <3>5, <3>6
    <3> QED
      BY <2>5, <3>1, <3>4, <3>7 DEF v
  <2>8. CASE x \notin DOMAIN B
    <3>1. C[x] = 1 /\ x \in DOMAIN C
      BY <1>1, <1>3, <2>8
    <3>2. g[x] = v
      <4>1. g[x] = 1 * v
        BY <2>1, <3>1
      <4> HIDE DEF g, v
      <4> QED
        BY <2>2, <4>1
    <3>3. \A e \in DOMAIN B : g[e] = f[e] /\ g[e] \in Int /\ f[e] \in Int
      BY <1>1, <2>1, <2>3, <2>8
    <3>4. \A e \in DOMAIN B \cup {x} : g[e] \in Int
      BY <1>1, <2>1
    <3> HIDE DEF f, g, v
    <3>5. SumFunctionOnSet(g, DOMAIN B \cup {x}) = g[x] + SumFunctionOnSet(g, DOMAIN B)
      BY <2>4, <2>8, <3>4, SumAdds
    <3>6. SumFunctionOnSet(f, DOMAIN B) = SumFunctionOnSet(g, DOMAIN B)
      BY <2>4, <3>3, SumSame
    <3>7. PICK s, t : s = Put(B, A, K, S) /\ t = Put(C, A, K, S)
      OBVIOUS
    <3>8. s \in Int /\ t = v + s
      BY <1>1, <2>5, <2>6, <3>2, <3>5, <3>6, <3>7
    <3>9. t = s + v
      BY <2>2, <3>8
    <3> QED
      BY <3>7, <3>9 DEF v
  <2> QED
    BY <2>7, <2>8
<1> QED
  BY <1>1, <1>4, <1>5

LEMMA PutMore ==
  ASSUME NEW B, JournalOK(B), NEW x, EntryOK(x), NEW A, NEW K, NEW S
  PROVE  Put(Plus(B, x), A, K, S) = Put(B, A, K, S) + Value(x, A, K, S)
  BY PutAdds

\* One entry less takes it away.
LEMMA PutRemoves ==
  ASSUME NEW B, JournalOK(B), NEW x \in DOMAIN B
  PROVE  /\ JournalOK(Less(B, x)) /\ DOMAIN Less(B, x) \subseteq DOMAIN B /\ DOMAIN B \ {x} \subseteq DOMAIN Less(B, x)
         /\ \A A, K, S : Put(Less(B, x), A, K, S) = Put(B, A, K, S) - Value(x, A, K, S)
<1> SUFFICES ASSUME NEW C, C = Less(B, x)
             PROVE  /\ JournalOK(C) /\ DOMAIN C \subseteq DOMAIN B /\ DOMAIN B \ {x} \subseteq DOMAIN C
                    /\ \A A, K, S : Put(C, A, K, S) = Put(B, A, K, S) - Value(x, A, K, S)
  OBVIOUS
<1> DEFINE R == [e \in DOMAIN B |-> IF e = x THEN B[e] - 1 ELSE B[e]]
<1>1. \A e \in DOMAIN B : B[e] \in Nat /\ B[e] >= 1
  BY JournalType
<1>2. C = [e \in {d \in DOMAIN B : R[d] > 0} |-> R[e]]
  BY DEF Less, (-), SetToBag
<1>3. /\ DOMAIN C = {d \in DOMAIN B : R[d] > 0}
      /\ \A e \in DOMAIN B : e # x => R[e] = B[e] /\ e \in DOMAIN C /\ C[e] = B[e]
      /\ R[x] = B[x] - 1 /\ R[x] \in Nat
      /\ \A e \in DOMAIN C : e \in DOMAIN B /\ C[e] = R[e] /\ C[e] > 0
  <2>1. \A e \in DOMAIN B : e # x => R[e] = B[e]
    OBVIOUS
  <2>2. R[x] = B[x] - 1 /\ R[x] \in Nat
    BY <1>1
  <2> HIDE DEF R
  <2> QED
    BY <1>1, <1>2, <2>1, <2>2
<1> HIDE DEF R
<1>4. JournalOK(C)
  <2>1. \A e \in DOMAIN C : C[e] \in Nat /\ C[e] > 0
    BY <1>1, <1>3
  <2>2. IsABag(C)
    BY <1>2, <1>3, <2>1 DEF IsABag
  <2>3. IsFiniteSet(DOMAIN C)
    BY <1>3, FS_Subset DEF JournalOK
  <2>4. \A e \in DOMAIN C : EntryOK(e)
    BY <1>3 DEF JournalOK
  <2> QED
    BY <2>2, <2>3, <2>4 DEF JournalOK
<1>5. ASSUME NEW A, NEW K, NEW S
      PROVE  Put(C, A, K, S) = Put(B, A, K, S) - Value(x, A, K, S)
  <2> DEFINE f == Values(B, A, K, S)
             g == [e \in DOMAIN B |-> R[e] * Value(e, A, K, S)]
             h == Values(C, A, K, S)
             v == Value(x, A, K, S)
  <2>1. /\ \A e \in DOMAIN B : f[e] = B[e] * Value(e, A, K, S) /\ f[e] \in Int
        /\ \A e \in DOMAIN C : h[e] = C[e] * Value(e, A, K, S) /\ h[e] \in Int
    BY <1>4, PutType
  <2>2. v \in Int
    BY JournalType, ValueType
  <2>3. \A e \in DOMAIN B : R[e] \in Nat /\ Value(e, A, K, S) \in Int
    BY <1>1, <1>3, JournalType, ValueType
  <2>4. \A e \in DOMAIN B : g[e] \in Int /\ (e # x => g[e] = f[e])
    BY <1>3, <2>1, <2>3
  <2>5. g[x] = (B[x] - 1) * v /\ f[x] = B[x] * v /\ f[x] \in Int /\ g[x] \in Int
    BY <1>3, <2>1, <2>4
  <2>6. \A e \in DOMAIN C : g[e] \in Int /\ h[e] = g[e]
    BY <1>3, <2>1, <2>4
  <2>7. \A e \in DOMAIN B \ DOMAIN C : g[e] = 0
    <3> TAKE e \in DOMAIN B \ DOMAIN C
    <3>1. R[e] = 0
      BY <1>3, <2>3
    <3> QED
      BY <2>3, <3>1
  <2>8. IsFiniteSet(DOMAIN B) /\ DOMAIN C \in SUBSET DOMAIN B
    BY <1>3 DEF JournalOK
  <2>9. Put(C, A, K, S) = SumFunctionOnSet(h, DOMAIN C) /\ Put(B, A, K, S) = SumFunctionOnSet(f, DOMAIN B)
        /\ Put(B, A, K, S) \in Int
    BY PutType DEF Put
  <2>10. B[x] \in Nat
    BY <1>1
  <2> HIDE DEF f, g, h, v
  <2>11. SumFunctionOnSet(g, DOMAIN B) = SumFunctionOnSet(f, DOMAIN B) - f[x] + g[x]
    BY <2>1, <2>4, <2>8, SumChanged
  <2>12. SumFunctionOnSet(g, DOMAIN B) = SumFunctionOnSet(h, DOMAIN C)
    BY <2>6, <2>7, <2>8, SumPart
  <2>13. PICK n, p, q, s, t : /\ n = B[x] /\ p = f[x] /\ q = g[x]
                              /\ s = Put(B, A, K, S) /\ t = Put(C, A, K, S)
    OBVIOUS
  <2>14. n \in Int /\ p \in Int /\ q \in Int /\ s \in Int /\ p = n * v /\ q = (n - 1) * v
         /\ t = s - p + q
    BY <2>5, <2>9, <2>10, <2>11, <2>12, <2>13
  <2>15. (n - 1) * v = n * v - v
    BY <2>2, <2>14
  <2>16. t = s - v
    BY <2>2, <2>14, <2>15
  <2> QED
    BY <2>13, <2>16 DEF v
<1> QED
  BY <1>3, <1>4, <1>5

LEMMA PutLess ==
  ASSUME NEW B, JournalOK(B), NEW x \in DOMAIN B, NEW A, NEW K, NEW S
  PROVE  Put(Less(B, x), A, K, S) = Put(B, A, K, S) - Value(x, A, K, S)
  BY PutRemoves

\* What is put is what reports call a movement.
LEMMA PutIs ==
  ASSUME JournalOK(journal_entries), NEW A, NEW K, NEW S, NEW E,
         E = {e \in DOMAIN journal_entries : e.kind \in K /\ e.date \in S}
  PROVE  Movement(A, E) = Put(journal_entries, A, K, S)
<1> DEFINE f == [e \in E |-> NetDebit(e.lines, A)]
           g == Values(journal_entries, A, K, S)
<1>1. E \in SUBSET DOMAIN journal_entries
  OBVIOUS
<1>2. DOMAIN f = E /\ \A e \in E : f[e] \in Int
  BY JournalType, NetDebitIs
<1>3. \A e \in DOMAIN journal_entries :
         /\ g[e] = journal_entries[e] * Value(e, A, K, S) /\ g[e] \in Int
         /\ journal_entries[e] \in Nat
  BY PutType, JournalType
<1>4. \A e \in E : f[e] = Value(e, A, K, S)
  BY DEF Value
<1>5. \A e \in DOMAIN journal_entries \ E : Value(e, A, K, S) = 0
  BY DEF Value
<1>6. IsFiniteSet(DOMAIN journal_entries)
  BY DEF JournalOK
<1>7. SumOf(f) = Movement(A, E)
  BY DEF Movement
<1> HIDE DEF f, g
<1>8. SumOf(f) = SumFunctionOnSet(Weighed(f), E)
  BY <1>1, <1>2, SumOfIs
<1>9. /\ \A e \in E : g[e] \in Int /\ Weighed(f)[e] = g[e]
      /\ \A e \in DOMAIN journal_entries \ E : g[e] = 0
  <2>1. \A e \in E : Weighed(f)[e] = journal_entries[e] * f[e]
    BY <1>1, <1>2, SumOfIs
  <2> QED
    BY <1>1, <1>3, <1>4, <1>5, <2>1
<1>10. SumFunctionOnSet(g, DOMAIN journal_entries) = SumFunctionOnSet(Weighed(f), E)
  BY <1>1, <1>6, <1>9, SumPart
<1> QED
  BY <1>7, <1>8, <1>10 DEF Put, g

-----------------------------------------------------------------------------
(* Documents in force *)

\* A document is in force when its entry stands.
Counts(doc, S) ==
  doc.entered /\ doc.status \in {"sent", "paid", "archived"} /\ doc.date \in S

StandsFor(doc, of, S) == IF Counts(doc, S) THEN Sign(doc) * Amount(doc, of) ELSE 0

Stands(D, of, S) == [d \in DOMAIN D |-> StandsFor(D[d], of, S)]

Stood(D, of, S) == SumFunctionOnSet(Stands(D, of, S), DOMAIN D)

TableIs(D) == D \in Seq(Documents) /\ \A d \in DOMAIN D : DocumentRowOK(D[d])

\* What documents have put on the receivables and on the VAT, and what their
\* payments have taken off the receivables.
Books(B, D) ==
  \A S \in SUBSET Dates :
    /\ Put(B, {"receivables"}, {"issue", "reversal"}, S) = Stood(D, "total", S)
    /\ Put(B, {"vatDue"}, {"issue", "reversal"}, S) = -Stood(D, "vat", S)
    /\ Put(B, {"receivables"}, {"payment"}, Dates) = -Stood(D, "paid", Dates)

LEMMA StandingType ==
  ASSUME NEW doc, DocumentRowOK(doc), NEW of, NEW S
  PROVE  StandsFor(doc, of, S) \in Int
<1>1. Sign(doc) * Amount(doc, of) \in Int
  BY AmountType
<1> QED
  BY <1>1 DEF StandsFor

LEMMA StoodType ==
  ASSUME NEW D, TableIs(D), NEW of, NEW S
  PROVE  /\ Stood(D, of, S) \in Int /\ IsFiniteSet(DOMAIN D)
         /\ \A d \in DOMAIN D : /\ Stands(D, of, S)[d] = StandsFor(D[d], of, S)
                                /\ Stands(D, of, S)[d] \in Int
<1>1. IsFiniteSet(DOMAIN D)
  BY DocumentsFinite DEF TableIs
<1>2. \A d \in DOMAIN D : /\ Stands(D, of, S)[d] = StandsFor(D[d], of, S)
                          /\ Stands(D, of, S)[d] \in Int
  BY StandingType DEF Stands, TableIs
<1> QED
  BY <1>1, <1>2, SumType DEF Stood

\* One document changes.
LEMMA StoodChanges ==
  ASSUME NEW D, TableIs(D), NEW E, TableIs(E), DOMAIN E = DOMAIN D,
         NEW d \in DOMAIN D, \A c \in DOMAIN D : c # d => E[c] = D[c],
         NEW of, NEW S
  PROVE  Stood(E, of, S) = Stood(D, of, S) - StandsFor(D[d], of, S) + StandsFor(E[d], of, S)
<1> DEFINE f == Stands(D, of, S)
           g == Stands(E, of, S)
<1>1. /\ \A c \in DOMAIN D : f[c] = StandsFor(D[c], of, S) /\ f[c] \in Int
      /\ \A c \in DOMAIN D : g[c] = StandsFor(E[c], of, S) /\ g[c] \in Int
      /\ IsFiniteSet(DOMAIN D)
  BY StoodType
<1> HIDE DEF f, g
<1>2. \A c \in DOMAIN D : f[c] \in Int /\ g[c] \in Int /\ (c # d => g[c] = f[c])
  BY <1>1
<1>3. SumFunctionOnSet(g, DOMAIN D) = SumFunctionOnSet(f, DOMAIN D) - f[d] + g[d]
  BY <1>1, <1>2, SumChanged
<1> QED
  BY <1>1, <1>3 DEF Stood, f, g

\* A document more that is not in force.
LEMMA StoodAppends ==
  ASSUME NEW D, TableIs(D), NEW E, TableIs(E), DOMAIN D \subseteq DOMAIN E, NEW of, NEW S,
         \A d \in DOMAIN D : E[d] = D[d],
         \A d \in DOMAIN E \ DOMAIN D : ~Counts(E[d], S)
  PROVE  Stood(E, of, S) = Stood(D, of, S)
<1> DEFINE f == Stands(D, of, S)
           g == Stands(E, of, S)
<1>1. /\ \A d \in DOMAIN D : f[d] = StandsFor(D[d], of, S) /\ f[d] \in Int
      /\ \A d \in DOMAIN E : g[d] = StandsFor(E[d], of, S) /\ g[d] \in Int
      /\ IsFiniteSet(DOMAIN E)
  BY StoodType
<1>2. \A d \in DOMAIN E \ DOMAIN D : g[d] = 0
  BY <1>1 DEF StandsFor
<1>3. \A d \in DOMAIN D : g[d] \in Int /\ f[d] = g[d]
  BY <1>1
<1> HIDE DEF f, g
<1>4. SumFunctionOnSet(g, DOMAIN E) = SumFunctionOnSet(f, DOMAIN D)
  BY <1>1, <1>2, <1>3, SumPart
<1> QED
  BY <1>4 DEF Stood, f, g

\* Every document stands as it did.
LEMMA StoodSame ==
  ASSUME NEW D, TableIs(D), NEW E, TableIs(E), DOMAIN E = DOMAIN D, NEW of, NEW S,
         \A d \in DOMAIN D : StandsFor(E[d], of, S) = StandsFor(D[d], of, S)
  PROVE  Stood(E, of, S) = Stood(D, of, S)
<1>1. /\ \A d \in DOMAIN D : Stands(D, of, S)[d] = Stands(E, of, S)[d] /\ Stands(D, of, S)[d] \in Int
      /\ IsFiniteSet(DOMAIN D)
  BY StoodType
<1> QED
  BY <1>1, SumSame DEF Stood

\* What stands is what the documents in force bill.
LEMMA StoodIs ==
  ASSUME TableOK, NEW of, NEW S, NEW X, X = {d \in DOMAIN documents : Counts(documents[d], S)}
  PROVE  Stood(documents, of, S) = Bill(of, X)
<1>1. X \in SUBSET DOMAIN documents
  OBVIOUS
<1>2. /\ \A d \in DOMAIN documents : /\ Stands(documents, of, S)[d] = StandsFor(documents[d], of, S)
                                     /\ Stands(documents, of, S)[d] \in Int
      /\ IsFiniteSet(DOMAIN documents)
  BY StoodType DEF TableOK, TableIs
<1>3. \A d \in X : /\ Stands(documents, of, S)[d] \in Int
                   /\ SignedAmounts(of)[d] = Stands(documents, of, S)[d]
  BY <1>1, <1>2, BillType DEF StandsFor
<1>4. \A d \in DOMAIN documents \ X : Stands(documents, of, S)[d] = 0
  BY <1>2 DEF StandsFor
<1>5. SumFunctionOnSet(Stands(documents, of, S), DOMAIN documents)
        = SumFunctionOnSet(SignedAmounts(of), X)
  BY <1>1, <1>2, <1>3, <1>4, SumPart
<1> QED
  BY <1>5 DEF Stood, Bill

-----------------------------------------------------------------------------
(* Documents and the journal *)

Period(from, to) == {date \in Dates : from <= date /\ date <= to}

\* The entries of a period that are not written by hand are posted.
LEMMA OfKind ==
  ASSUME JournalOK(journal_entries), NEW from, NEW to, NEW K, "by_hand" \notin K
  PROVE  {e \in Retained(from, to) : e.kind \in K}
           = {e \in DOMAIN journal_entries : e.kind \in K /\ e.date \in Period(from, to)}
<1>1. ASSUME NEW e \in DOMAIN journal_entries, e.kind \in K
      PROVE  e.status = "posted" /\ e.date \in Dates
  <2>1. EntryOK(e)
    BY JournalType
  <2> QED
    BY <1>1, <2>1, EntryType DEF EntryOK
<1> QED
  BY <1>1 DEF Retained, Period

\* What moves the receivables and the VAT: entries by hand, issues and
\* reversals, payments.
LEMMA MovementKinds ==
  ASSUME JournalOK(journal_entries), NEW from, NEW to, NEW a \in {"receivables", "vatDue"}
  PROVE  /\ Movement({a}, Retained(from, to)) =
              Movement({a}, HandMade(from, to))
                + Put(journal_entries, {a}, {"issue", "reversal"}, Period(from, to))
                + Put(journal_entries, {a}, {"payment"}, Period(from, to))
         /\ Movement({a}, HandMade(from, to)) \in Int
         /\ Movement({a}, {e \in Retained(from, to) : e.kind \in {"issue", "reversal"}})
              = Put(journal_entries, {a}, {"issue", "reversal"}, Period(from, to))
         /\ Put(journal_entries, {a}, {"issue", "reversal"}, Period(from, to)) \in Int
         /\ Put(journal_entries, {a}, {"payment"}, Period(from, to)) \in Int
<1> DEFINE R == Retained(from, to)
           H == HandMade(from, to)
           I == {e \in R : e.kind \in {"issue", "reversal"}}
           P == {e \in R : e.kind \in {"payment"}}
           C == {e \in R : e.kind = "closing"}
           J == DOMAIN journal_entries
<1>1. R \in SUBSET J
  BY RetainedType
<1>2. \A e \in R : EntryOK(e) /\ e.kind \in Kinds
  BY <1>1, JournalType, EntryType
<1>3. /\ R = ((H \cup I) \cup P) \cup C
      /\ H \cap I = {} /\ (H \cup I) \cap P = {} /\ ((H \cup I) \cup P) \cap C = {}
      /\ H \in SUBSET R /\ I \in SUBSET R /\ P \in SUBSET R /\ C \in SUBSET R
  BY <1>2 DEF HandMade, Kinds
<1>4. Movement({a}, C) = 0
  <2>1. ASSUME NEW e \in C
        PROVE  NetDebit(e.lines, {a}) = 0
    <3>1. EntryOK(e) /\ e.kind = "closing"
      BY <1>2
    <3>2. \A l \in e.lines : l.account \in {"sales", "fees", "result"}
      BY <3>1 DEF EntryOK
    <3>3. \A l \in e.lines : l.account \notin {a}
      BY <3>2
    <3> QED
      BY <3>1, <3>3, EntryType, NetDebitNone
  <2> HIDE DEF C, R, J
  <2>2. C \in SUBSET DOMAIN journal_entries
    BY <1>1, <1>3 DEF J
  <2> QED
    BY <2>1, <2>2, MovementNone
<1>5. Movement({a}, I) = Put(journal_entries, {a}, {"issue", "reversal"}, Period(from, to))
  <2>1. I = {e \in J : e.kind \in {"issue", "reversal"} /\ e.date \in Period(from, to)}
    <3>1. PICK K : K = {"issue", "reversal"}
      OBVIOUS
    <3>2. "by_hand" \notin K
      BY <3>1
    <3>3. {e \in Retained(from, to) : e.kind \in K}
            = {e \in DOMAIN journal_entries : e.kind \in K /\ e.date \in Period(from, to)}
      BY <3>2, OfKind
    <3> QED
      BY <3>1, <3>3
  <2> HIDE DEF I
  <2> QED
    BY <2>1, PutIs
<1>6. Movement({a}, P) = Put(journal_entries, {a}, {"payment"}, Period(from, to))
  <2>1. P = {e \in J : e.kind \in {"payment"} /\ e.date \in Period(from, to)}
    <3>1. PICK K : K = {"payment"}
      OBVIOUS
    <3>2. "by_hand" \notin K
      BY <3>1
    <3>3. {e \in Retained(from, to) : e.kind \in K}
            = {e \in DOMAIN journal_entries : e.kind \in K /\ e.date \in Period(from, to)}
      BY <3>2, OfKind
    <3> QED
      BY <3>1, <3>3
  <2> HIDE DEF P
  <2> QED
    BY <2>1, PutIs
<1> HIDE DEF R, H, I, P, C
<1>7. PICK c1, c2 : c1 = H \cup I /\ c2 = c1 \cup P
  OBVIOUS
<1>8. /\ H \in SUBSET J /\ I \in SUBSET J /\ P \in SUBSET J /\ C \in SUBSET J
      /\ c1 \in SUBSET J /\ c2 \in SUBSET J
      /\ R = c2 \cup C /\ H \cap I = {} /\ c1 \cap P = {} /\ c2 \cap C = {}
  BY <1>1, <1>3, <1>7
<1>9. Movement({a}, c1) = Movement({a}, H) + Movement({a}, I)
  BY <1>7, <1>8, MovementEntries
<1>10. Movement({a}, c2) = Movement({a}, c1) + Movement({a}, P)
  BY <1>7, <1>8, MovementEntries
<1>11. Movement({a}, R) = Movement({a}, c2) + Movement({a}, C)
  BY <1>8, MovementEntries
<1>12. Movement({a}, H) \in Int /\ Movement({a}, I) \in Int /\ Movement({a}, P) \in Int
  BY <1>8, MovementType
<1>13. Movement({a}, R) = Movement({a}, H) + Movement({a}, I) + Movement({a}, P)
  BY <1>4, <1>9, <1>10, <1>11, <1>12
<1> QED
  BY <1>5, <1>6, <1>12, <1>13 DEF R, H, I

LEMMA TableHolds ==
  ASSUME NEW D, NEW B, DocumentsOK(D, B)
  PROVE  TableIs(D)
  BY DEF DocumentsOK, TableIs

\* From the first day on, the general ledger opens at nothing.
LEMMA LedgerWhole ==
  ASSUME JournalOK(journal_entries), NEW account, NEW to
  PROVE  GeneralLedger(account, 1, to).closing = Movement({account}, Retained(1, to))
<1>1. Retained(1, 1 - 1) = {}
  <2>1. \A e \in DOMAIN journal_entries : e.date \in Int /\ e.date >= 1
    BY JournalType, EntryType
  <2>2. \A date \in Int : date >= 1 => ~(date <= 1 - 1)
    OBVIOUS
  <2> QED
    BY <2>1, <2>2 DEF Retained
<1>2. Movement({account}, {}) = 0
  <2>1. {} \in SUBSET DOMAIN journal_entries
    OBVIOUS
  <2> QED
    BY <2>1, MovementNone
<1>3. PICK o, r, c : /\ o = GeneralLedger(account, 1, to).opening
                     /\ c = GeneralLedger(account, 1, to).closing
                     /\ r = Movement({account}, Retained(1, to))
  OBVIOUS
<1>4. o = 0 /\ c \in Int /\ r \in Int /\ c - o = r
  <2>1. GeneralLedger(account, 1, to).opening = Movement({account}, Retained(1, 1 - 1))
    BY LedgerMoves
  <2>2. /\ GeneralLedger(account, 1, to).closing \in Int
        /\ Movement({account}, Retained(1, to)) \in Int
        /\ GeneralLedger(account, 1, to).closing - GeneralLedger(account, 1, to).opening
             = Movement({account}, Retained(1, to))
    BY LedgerMoves
  <2> QED
    BY <1>1, <1>2, <1>3, <2>1, <2>2
<1>5. c = r
  BY <1>4
<1> QED
  BY <1>3, <1>5

LEMMA OwedHolds ==
  ASSUME JournalOK(journal_entries), DocumentsOK(documents, journal_entries),
         Books(journal_entries, documents)
  PROVE  OwedExplained
<1> DEFINE sent == OfStatus({"invoice", "credit_note"}, {"sent"})
           entered == {d \in sent : documents[d].entered}
           notes == {d \in sent : documents[d].type = "credit_note"}
           force == {d \in DOMAIN documents : Counts(documents[d], Dates)}
           done == {d \in force : documents[d].status \in {"paid", "archived"}}
           n == Cardinality(Dates)
           closing == GeneralLedger("receivables", 1, n).closing
           hand == Movement({"receivables"}, HandMade(1, n))
           issued == Put(journal_entries, {"receivables"}, {"issue", "reversal"}, Dates)
           settled == Put(journal_entries, {"receivables"}, {"payment"}, Dates)
           paid == [d \in entered |-> documents[d].paid]
<1>1. TableOK
  BY TableHolds DEF TableOK, TableIs
<1>2. \A d \in DOMAIN documents : /\ documents[d].date \in Dates
                                  /\ documents[d].type \in {"invoice", "credit_note"}
  BY <1>1 DEF TableOK, DocumentRowOK, Documents
<1>3. /\ force = entered \cup done /\ entered \cap done = {}
      /\ sent = entered \cup (sent \ entered) /\ entered \cap (sent \ entered) = {}
      /\ sent = Sent \cup notes /\ Sent \cap notes = {}
  BY <1>2 DEF Counts, OfStatus, Sent
<1>4. /\ entered \in SUBSET DOMAIN documents /\ done \in SUBSET DOMAIN documents
      /\ force \in SUBSET DOMAIN documents /\ sent \in SUBSET DOMAIN documents
      /\ notes \in SUBSET DOMAIN documents /\ Sent \in SUBSET DOMAIN documents
      /\ sent \ entered \in SUBSET DOMAIN documents
  BY DEF OfStatus, Sent
<1>5. \A d \in done : documents[d].status \in {"paid", "archived"}
  OBVIOUS
<1>6. Period(1, n) = Dates
  BY DateType DEF Period
<1>7. /\ closing = hand + issued + settled
      /\ hand \in Int /\ issued \in Int /\ settled \in Int
  <2>1. closing = Movement({"receivables"}, Retained(1, n))
    BY LedgerWhole
  <2> HIDE DEF n
  <2> QED
    BY <1>6, <2>1, MovementKinds
<1>8. /\ issued = Stood(documents, "total", Dates) /\ settled = -Stood(documents, "paid", Dates)
  BY DEF Books
<1>9. /\ Stood(documents, "total", Dates) = Bill("total", force)
      /\ Stood(documents, "paid", Dates) = Bill("paid", force)
  BY <1>1, StoodIs
<1>10. /\ Signed(paid) = Bill("paid", entered)
       /\ Billed(sent \ entered) = Bill("total", sent \ entered)
       /\ Billed(notes) = Bill("total", notes)
  <2>1. DOMAIN paid = entered /\ \A d \in entered : paid[d] = Amount(documents[d], "paid")
    BY DEF Amount
  <2> HIDE DEF paid, entered, sent, notes
  <2>2. Signed(paid) = Bill("paid", entered)
    BY <1>1, <1>4, <2>1, SignedIs
  <2> QED
    BY <1>1, <1>4, <2>2, BilledIs
<1> HIDE DEF sent, entered, notes, force, done, closing, hand, issued, settled, paid
<1>11. /\ Bill("total", force) = Bill("total", entered) + Bill("total", done)
       /\ Bill("paid", force) = Bill("paid", entered) + Bill("paid", done)
       /\ Bill("total", sent) = Bill("total", entered) + Bill("total", sent \ entered)
       /\ Bill("total", sent) = Bill("total", Sent) + Bill("total", notes)
  <2>1. Bill("total", entered \cup done) = Bill("total", entered) + Bill("total", done)
    BY <1>1, <1>3, <1>4, BillUnion
  <2>2. Bill("paid", entered \cup done) = Bill("paid", entered) + Bill("paid", done)
    BY <1>1, <1>3, <1>4, BillUnion
  <2>3. Bill("total", entered \cup (sent \ entered))
          = Bill("total", entered) + Bill("total", sent \ entered)
    BY <1>1, <1>3, <1>4, BillUnion
  <2>4. Bill("total", Sent \cup notes) = Bill("total", Sent) + Bill("total", notes)
    BY <1>1, <1>3, <1>4, BillUnion
  <2> QED
    BY <1>3, <2>1, <2>2, <2>3, <2>4
<1>12. Bill("total", done) = Bill("paid", done)
  BY <1>1, <1>4, <1>5, PaidInFull
<1>13. /\ Bill("total", entered) \in Int /\ Bill("paid", entered) \in Int
       /\ Bill("paid", done) \in Int /\ Bill("total", sent \ entered) \in Int
       /\ Bill("total", Sent) \in Int /\ Bill("total", notes) \in Int
  BY <1>1, <1>4, BillType
<1>14. PICK te, pe, x, u, v, w :
         /\ te = Bill("total", entered) /\ pe = Bill("paid", entered) /\ x = Bill("paid", done)
         /\ u = Bill("total", sent \ entered) /\ v = Bill("total", notes) /\ w = Bill("total", Sent)
  OBVIOUS
<1>15. /\ te \in Int /\ pe \in Int /\ x \in Int /\ u \in Int /\ v \in Int /\ w \in Int
       /\ issued = te + x /\ settled = -(pe + x) /\ te + u = w + v
  BY <1>8, <1>9, <1>11, <1>12, <1>13, <1>14
<1>16. w = closing - hand + pe + u - v
  BY <1>7, <1>15
<1>17. ASSUME NEW today \in UNION {{due, due + 30, due + 31, due + 61, due + 91} : due \in Dues}
       PROVE  GrandTotal(ARaging(today)) = w
  <2>1. today \in Int
    BY ReportsAssumption
  <2> QED
    BY <1>1, <1>14, <2>1, AgeingWhole
<1>18. ASSUME NEW today \in UNION {{due, due + 30, due + 31, due + 61, due + 91} : due \in Dues}
       PROVE  GrandTotal(ARaging(today)) =
                closing - hand + Signed(paid) + Billed(sent \ entered) - Billed(notes)
  BY <1>10, <1>14, <1>16, <1>17
<1> QED
  BY <1>18 DEF OwedExplained, sent, entered, notes, closing, hand, paid

LEMMA BilledHolds ==
  ASSUME JournalOK(journal_entries), DocumentsOK(documents, journal_entries),
         Books(journal_entries, documents)
  PROVE  BilledExplained
<1>0. TableOK
  BY TableHolds DEF TableOK, TableIs
<1> SUFFICES ASSUME NEW from \in Dates, NEW to \in from..Cardinality(Dates)
             PROVE
    LET issued == {d \in OfStatus({"invoice", "credit_note"}, {"sent", "paid", "archived"}) :
                     from <= documents[d].date /\ documents[d].date <= to}
        entered == {d \in issued : documents[d].entered}
        archived == {d \in issued : documents[d].status = "archived"}
        posted == {e \in Retained(from, to) : e.kind \in {"issue", "reversal"}}
        vat(D) == Signed([d \in D |-> documents[d].vat])
    IN /\ Revenue(from, to) =
            Movement({"receivables"}, posted) + Billed(issued \ entered)
       /\ GenerateDeclaration(from, to) =
            GeneralLedger("vatDue", from, to).opening - GeneralLedger("vatDue", from, to).closing
              + Movement({"vatDue"}, HandMade(from, to))
              + vat((issued \ archived) \ entered) - vat(archived \cap entered)
  BY DEF BilledExplained
<1> DEFINE issued == {d \in OfStatus({"invoice", "credit_note"}, {"sent", "paid", "archived"}) :
                        from <= documents[d].date /\ documents[d].date <= to}
           entered == {d \in issued : documents[d].entered}
           archived == {d \in issued : documents[d].status = "archived"}
           posted == {e \in Retained(from, to) : e.kind \in {"issue", "reversal"}}
           vat(D) == Signed([d \in D |-> documents[d].vat])
           S == Period(from, to)
<1>1. \A d \in DOMAIN documents : /\ documents[d].date \in Dates
                                  /\ documents[d].type \in {"invoice", "credit_note"}
  BY <1>0 DEF TableOK, DocumentRowOK, Documents
<1>2. /\ issued \in SUBSET DOMAIN documents /\ entered \in SUBSET issued
      /\ archived \in SUBSET issued
  BY DEF OfStatus
<1>3. entered = {d \in DOMAIN documents : Counts(documents[d], S)}
  BY <1>1 DEF Counts, OfStatus, Period
<1>4. Declared(from, to) = issued \ archived
  BY DEF Declared, OfStatus
<1>5. Revenue(from, to) = Billed(issued)
  BY DEF Revenue
<1>6. S \in SUBSET Dates
  BY DEF Period
<1>7. ASSUME NEW D \in SUBSET DOMAIN documents
      PROVE  vat(D) = Bill("vat", D)
  <2> DEFINE f == [d \in D |-> documents[d].vat]
  <2>1. DOMAIN f = D /\ \A d \in D : f[d] = Amount(documents[d], "vat")
    BY DEF Amount
  <2>2. vat(D) = Signed(f)
    OBVIOUS
  <2> HIDE DEF f, vat
  <2> QED
    BY <1>0, <2>1, <2>2, SignedIs
<1>8. GenerateDeclaration(from, to) = vat(issued \ archived)
  BY <1>4 DEF GenerateDeclaration
<1>9. /\ Movement({"receivables"}, posted)
           = Put(journal_entries, {"receivables"}, {"issue", "reversal"}, S)
      /\ Movement({"vatDue"}, Retained(from, to))
           = Movement({"vatDue"}, HandMade(from, to))
               + Put(journal_entries, {"vatDue"}, {"issue", "reversal"}, S)
               + Put(journal_entries, {"vatDue"}, {"payment"}, S)
      /\ Movement({"vatDue"}, HandMade(from, to)) \in Int
      /\ Put(journal_entries, {"vatDue"}, {"issue", "reversal"}, S) \in Int
  BY MovementKinds
<1>10. Put(journal_entries, {"vatDue"}, {"payment"}, S) = 0
  <2> DEFINE B == journal_entries
             f == Values(B, {"vatDue"}, {"payment"}, S)
  <2>1. \A e \in DOMAIN B : Value(e, {"vatDue"}, {"payment"}, S) = 0
    <3> TAKE e \in DOMAIN B
    <3>1. CASE e.kind # "payment"
      BY <3>1 DEF Value
    <3>2. CASE e.kind = "payment"
      <4>1. LinesOK(e.lines) /\ \A l \in e.lines : l.account \in {"bank", "receivables"}
        BY <3>2, JournalType DEF EntryOK
      <4>2. NetDebit(e.lines, {"vatDue"}) = 0
        BY <4>1, NetDebitNone
      <4> QED
        BY <4>2 DEF Value
    <3> QED
      BY <3>1, <3>2
  <2>2. \A e \in DOMAIN B : B[e] \in Nat /\ f[e] = B[e] * Value(e, {"vatDue"}, {"payment"}, S)
    BY JournalType, PutType
  <2> HIDE DEF f, S
  <2>3. \A e \in DOMAIN B : f[e] = 0
    BY <2>1, <2>2
  <2> QED
    BY <2>3, SumZero DEF Put, f, JournalOK
<1>11. /\ Put(journal_entries, {"receivables"}, {"issue", "reversal"}, S) = Bill("total", entered)
       /\ Put(journal_entries, {"vatDue"}, {"issue", "reversal"}, S) = -Bill("vat", entered)
  <2>1. /\ Put(journal_entries, {"receivables"}, {"issue", "reversal"}, S)
             = Stood(documents, "total", S)
        /\ Put(journal_entries, {"vatDue"}, {"issue", "reversal"}, S)
             = -Stood(documents, "vat", S)
    BY <1>6 DEF Books
  <2> HIDE DEF entered, S
  <2> QED
    BY <1>0, <1>3, <2>1, StoodIs
<1> HIDE DEF issued, entered, archived, posted, vat, S
<1>12. Revenue(from, to) = Movement({"receivables"}, posted) + Billed(issued \ entered)
  <2>1. /\ issued = entered \cup (issued \ entered) /\ entered \cap (issued \ entered) = {}
        /\ entered \in SUBSET DOMAIN documents /\ issued \ entered \in SUBSET DOMAIN documents
    BY <1>2
  <2>2. Bill("total", issued) = Bill("total", entered) + Bill("total", issued \ entered)
    BY <1>0, <2>1, BillUnion
  <2>3. Billed(issued) = Bill("total", issued)
    BY <1>0, <1>2, BilledIs
  <2>4. Billed(issued \ entered) = Bill("total", issued \ entered)
    BY <1>0, <2>1, BilledIs
  <2> QED
    BY <1>5, <1>9, <1>11, <2>2, <2>3, <2>4
<1>13. GenerateDeclaration(from, to) =
            GeneralLedger("vatDue", from, to).opening - GeneralLedger("vatDue", from, to).closing
              + Movement({"vatDue"}, HandMade(from, to))
              + vat((issued \ archived) \ entered) - vat(archived \cap entered)
  <2> DEFINE x == (issued \ archived) \cap entered
             y == (issued \ archived) \ entered
             z == archived \cap entered
  <2>1. /\ issued \ archived = x \cup y /\ x \cap y = {} /\ entered = x \cup z /\ x \cap z = {}
        /\ x \in SUBSET DOMAIN documents /\ y \in SUBSET DOMAIN documents
        /\ z \in SUBSET DOMAIN documents /\ issued \ archived \in SUBSET DOMAIN documents
    BY <1>2
  <2>2. /\ vat(issued \ archived) = Bill("vat", issued \ archived)
        /\ vat(y) = Bill("vat", y) /\ vat(z) = Bill("vat", z)
    BY <1>7, <2>1
  <2> HIDE DEF x, y, z
  <2>3. Bill("vat", x \cup y) = Bill("vat", x) + Bill("vat", y)
    BY <1>0, <2>1, BillUnion
  <2>4. Bill("vat", x \cup z) = Bill("vat", x) + Bill("vat", z)
    BY <1>0, <2>1, BillUnion
  <2>5. Bill("vat", x) \in Int /\ Bill("vat", y) \in Int /\ Bill("vat", z) \in Int
    BY <1>0, <2>1, BillType
  <2>6. PICK p, q, r, h, m, o, c :
          /\ p = Bill("vat", x) /\ q = Bill("vat", y) /\ r = Bill("vat", z)
          /\ h = Movement({"vatDue"}, HandMade(from, to))
          /\ m = Movement({"vatDue"}, Retained(from, to))
          /\ o = GeneralLedger("vatDue", from, to).opening
          /\ c = GeneralLedger("vatDue", from, to).closing
    OBVIOUS
  <2>7. o \in Int /\ c \in Int /\ c - o = m
    BY <2>6, LedgerMoves
  <2>8. p \in Int /\ q \in Int /\ r \in Int /\ h \in Int
    BY <1>9, <2>5, <2>6
  <2>9. m = h + (-(p + r)) + 0
    BY <1>9, <1>10, <1>11, <2>1, <2>4, <2>6
  <2>10. p + q = o - c + h + q - r
    BY <2>7, <2>8, <2>9
  <2>11. GenerateDeclaration(from, to) = p + q
    BY <1>8, <2>1, <2>2, <2>3, <2>6
  <2>12. vat(y) = q /\ vat(z) = r
    BY <2>2, <2>6
  <2>13. GenerateDeclaration(from, to) = o - c + h + vat(y) - vat(z)
    BY <2>10, <2>11, <2>12
  <2> QED
    BY <2>6, <2>13 DEF y, z
<1> QED
  BY <1>12, <1>13 DEF issued, entered, archived, posted, vat

-----------------------------------------------------------------------------
(* What operations write *)

LEMMA YearOfType ==
  ASSUME NEW date \in Dates
  PROVE  YearOf(date) \in YearEnds
<1> DEFINE T == {e \in YearEnds : date <= e}
<1>1. T \in SUBSET Nat /\ Cardinality(Dates) \in T
  BY ReportsAssumption, DateType
<1>2. \E n \in T : \A m \in T : n <= m
  BY <1>1, LeastNumber
<1>3. Min(T) \in T
  BY <1>2 DEF Min
<1> QED
  BY <1>3 DEF YearOf

LEMMA MinusNone ==
  ASSUME NEW n \in Int, n = 0
  PROVE  -n = 0
<1>1. -n + n = 0
  OBVIOUS
<1>2. PICK m \in Int : m = -n
  OBVIOUS
<1>3. m + n = 0
  BY <1>1, <1>2
<1>4. m = 0
  BY <1>3
<1> QED
  BY <1>2, <1>4

LEMMA RoundedType ==
  ASSUME NEW amount \in Nat
  PROVE  RoundTo5Rappen(amount) \in Nat
<1>1. (amount + 2500) \div 5000 \in Nat
  OBVIOUS
<1> QED
  BY <1>1 DEF RoundTo5Rappen

LEMMA TotalsType ==
  ASSUME NEW sale \in Sales
  PROVE  /\ computeTotals(sale).subtotal \in Nat /\ computeTotals(sale).vat \in Nat
         /\ computeTotals(sale).total \in Nat
<1> DEFINE f == [i \in DOMAIN sale |-> sale[i].base]
           g == [i \in DOMAIN sale |-> sale[i].base * sale[i].rate]
<1>1. sale \in Seq(Sold)
  BY ReportsAssumption
<1>2. DOMAIN sale = 1..Len(sale) /\ Len(sale) \in Nat
  BY <1>1
<1>3. IsFiniteSet(DOMAIN sale)
  BY <1>2, FS_Interval
<1>4. \A i \in DOMAIN sale : sale[i].base \in Nat /\ sale[i].rate \in Nat
  <2>1. \A i \in DOMAIN sale : sale[i] \in Sold
    BY <1>1, <1>2
  <2> QED
    BY <2>1 DEF Sold
<1>5. (\A i \in DOMAIN sale : f[i] \in Nat) /\ (\A i \in DOMAIN sale : g[i] \in Nat)
  BY <1>4
<1>6. DOMAIN f = DOMAIN sale /\ DOMAIN g = DOMAIN sale
  OBVIOUS
<1>7. /\ computeTotals(sale).subtotal = SumFunction(f)
      /\ computeTotals(sale).vat = RoundTo5Rappen(SumFunction(g))
      /\ computeTotals(sale).total = RoundTo5Rappen(1000 * SumFunction(f) + SumFunction(g))
  BY DEF computeTotals
<1> HIDE DEF f, g
<1>8. SumFunction(f) \in Nat /\ SumFunction(g) \in Nat
  BY <1>3, <1>5, <1>6, SumPositive DEF SumFunction
<1>9. 1000 * SumFunction(f) + SumFunction(g) \in Nat
  BY <1>8
<1> QED
  BY <1>7, <1>8, <1>9, RoundedType

\* Lines bear an amount on an account: in one line, or none when it is nought.
Bears(lines, a, n) ==
  \/ n = 0 /\ On(lines, {a}) = {}
  \/ \E l \in Line : On(lines, {a}) = {l} /\ l.debit - l.credit = n

LEMMA BearsNet ==
  ASSUME NEW lines, LinesOK(lines), NEW a, NEW n, Bears(lines, a, n)
  PROVE  NetDebit(lines, {a}) = n
<1>1. CASE n = 0 /\ On(lines, {a}) = {}
  BY <1>1, NetDebitIs, SumNone
<1>2. CASE \E l \in Line : On(lines, {a}) = {l} /\ l.debit - l.credit = n
  <2>1. PICK l \in Line : On(lines, {a}) = {l} /\ l.debit - l.credit = n
    BY <1>2
  <2>2. l \in lines
    BY <2>1 DEF On
  <2>3. NetOf(lines)[l] = n /\ NetOf(lines)[l] \in Int
    BY <2>1, <2>2, LineType DEF NetOf
  <2>4. NetDebit(lines, {a}) = SumFunctionOnSet(NetOf(lines), {l})
    BY <2>1, NetDebitIs
  <2>5. SumFunctionOnSet(NetOf(lines), {l}) = n
    BY <2>3, SumOne
  <2> QED
    BY <2>4, <2>5
<1> QED
  BY <1>1, <1>2 DEF Bears

\* The other way round.
Other(l) == [account |-> l.account, debit |-> l.credit, credit |-> l.debit]

LEMMA SwappedOK ==
  ASSUME NEW lines, LinesOK(lines)
  PROVE  /\ LinesOK(Swapped(lines))
         /\ \A a, n : n \in Int /\ Bears(lines, a, n) => Bears(Swapped(lines), a, -n)
         /\ \A l \in Swapped(lines) : \E m \in lines : l.account = m.account
<1> DEFINE T == Swapped(lines)
           f == [l \in lines |-> Other(l)]
<1>1. T = {Other(l) : l \in lines}
  BY DEF Swapped, Other
<1>2. \A l \in lines : Other(l) \in Line /\ Other(l).account = l.account
  BY DEF LinesOK, Line, Other
<1>3. IsFiniteSet(T)
  <2>1. f \in Surjection(lines, T)
    BY <1>1 DEF Surjection
  <2> HIDE DEF f, T
  <2> QED
    BY <2>1, FS_Surjection DEF LinesOK
<1>4. LinesOK(T)
  BY <1>1, <1>2, <1>3 DEF LinesOK
<1>5. ASSUME NEW a, NEW n \in Int, Bears(lines, a, n)
      PROVE  Bears(T, a, -n)
  <2>1. On(T, {a}) = {Other(l) : l \in On(lines, {a})}
    BY <1>1, <1>2 DEF On
  <2>2. CASE n = 0 /\ On(lines, {a}) = {}
    <3>1. -n = 0
      BY <2>2, MinusNone
    <3>2. On(T, {a}) = {}
      BY <2>1, <2>2
    <3> HIDE DEF T
    <3> QED
      BY <3>1, <3>2 DEF Bears
  <2>3. CASE \E l \in Line : On(lines, {a}) = {l} /\ l.debit - l.credit = n
    <3>1. PICK l \in Line : On(lines, {a}) = {l} /\ l.debit - l.credit = n
      BY <2>3
    <3>2. On(T, {a}) = {Other(l)}
      BY <2>1, <3>1
    <3>3. Other(l) \in Line /\ Other(l).debit = l.credit /\ Other(l).credit = l.debit
      BY DEF Other, Line
    <3>4. l.credit \in Nat /\ l.debit \in Nat
      BY DEF Line
    <3>5. Other(l).debit - Other(l).credit = -n
      BY <3>1, <3>3, <3>4
    <3> QED
      BY <3>2, <3>3, <3>5 DEF Bears
  <2> QED
    BY <1>5, <2>2, <2>3 DEF Bears
<1>6. \A l \in T : \E m \in lines : l.account = m.account
  BY <1>1, <1>2
<1> QED
  BY <1>4, <1>5, <1>6

\* The lines of an issue, and of its reversal.
LEMMA IssueLinesAre ==
  ASSUME NEW doc, DocumentRowOK(doc)
  PROVE  /\ LinesOK(IssueLines(doc)) /\ LinesOK(Swapped(IssueLines(doc)))
         /\ NetDebit(IssueLines(doc), {"receivables"}) = Sign(doc) * doc.total
         /\ NetDebit(IssueLines(doc), {"vatDue"}) = -(Sign(doc) * doc.vat)
         /\ NetDebit(Swapped(IssueLines(doc)), {"receivables"}) = -(Sign(doc) * doc.total)
         /\ NetDebit(Swapped(IssueLines(doc)), {"vatDue"}) = Sign(doc) * doc.vat
<1> DEFINE r == Debit("receivables", doc.total)
           s == Credit("sales", doc.subtotal)
           v == Credit("vatDue", doc.vat)
           L == {r, s} \cup (IF doc.vat = 0 THEN {} ELSE {v})
<1>1. doc.total \in Nat /\ doc.subtotal \in Nat /\ doc.vat \in Nat
  BY DEF DocumentRowOK, Documents
<1>2. /\ r \in Line /\ s \in Line /\ v \in Line
      /\ r.account = "receivables" /\ r.debit = doc.total /\ r.credit = 0
      /\ s.account = "sales"
      /\ v.account = "vatDue" /\ v.debit = 0 /\ v.credit = doc.vat
  BY <1>1, AccountSets DEF Debit, Credit, Line
<1> HIDE DEF r, s, v
<1>3. LinesOK(L)
  <2>1. IsFiniteSet({r}) /\ {r, s} = {r} \cup {s}
    BY FS_Singleton
  <2>2. IsFiniteSet({r, s})
    BY <2>1, FS_AddElement
  <2>3. IsFiniteSet(L)
    <3>1. CASE doc.vat = 0
      <4>1. L = {r, s}
        BY <3>1
      <4> QED
        BY <2>2, <4>1
    <3>2. CASE doc.vat # 0
      <4>1. L = {r, s} \cup {v}
        BY <3>2
      <4> QED
        BY <2>2, <4>1, FS_AddElement
    <3> QED
      BY <3>1, <3>2
  <2>4. L \subseteq Line
    BY <1>2
  <2> QED
    BY <2>3, <2>4 DEF LinesOK
<1>4. Bears(L, "receivables", doc.total)
  <2>1. On(L, {"receivables"}) = {r}
    BY <1>2 DEF On
  <2>2. r.debit - r.credit = doc.total
    BY <1>1, <1>2
  <2> HIDE DEF L
  <2> QED
    BY <1>2, <2>1, <2>2 DEF Bears
<1>5. Bears(L, "vatDue", -doc.vat)
  <2>1. CASE doc.vat = 0
    <3>1. On(L, {"vatDue"}) = {}
      BY <1>2, <2>1 DEF On
    <3>2. -doc.vat = 0
      <4>1. PICK x \in Int : x = doc.vat /\ x = 0
        BY <2>1
      <4>2. -x = 0
        BY <4>1, MinusNone
      <4> QED
        BY <4>1, <4>2
    <3> HIDE DEF L
    <3> QED
      BY <3>1, <3>2 DEF Bears
  <2>2. CASE doc.vat # 0
    <3>1. On(L, {"vatDue"}) = {v}
      BY <1>2, <2>2 DEF On
    <3>2. v.debit - v.credit = -doc.vat
      BY <1>1, <1>2
    <3> HIDE DEF L
    <3> QED
      BY <1>2, <3>1, <3>2 DEF Bears
  <2> QED
    BY <2>1, <2>2
<1>6. IssueLines(doc) = IF doc.type = "credit_note" THEN Swapped(L) ELSE L
  BY DEF IssueLines, Facing, r, s, v
<1> HIDE DEF L
<1>7. PICK t, w : t = doc.total /\ w = doc.vat
  OBVIOUS
<1>8. t \in Int /\ w \in Int /\ -t \in Int /\ -w \in Int /\ -(-t) = t /\ -(-w) = w
      /\ 1 * t = t /\ 1 * w = w /\ -1 * t = -t /\ -1 * w = -w
  BY <1>1, <1>7
<1>9. CASE doc.type = "credit_note"
  <2>1. IssueLines(doc) = Swapped(L) /\ Sign(doc) = -1
    BY <1>6, <1>9 DEF Sign
  <2>2. /\ LinesOK(Swapped(L)) /\ Bears(Swapped(L), "receivables", -t)
        /\ Bears(Swapped(L), "vatDue", w)
    BY <1>3, <1>4, <1>5, <1>7, <1>8, SwappedOK
  <2>3. /\ LinesOK(Swapped(Swapped(L))) /\ Bears(Swapped(Swapped(L)), "receivables", t)
        /\ Bears(Swapped(Swapped(L)), "vatDue", -w)
    BY <1>8, <2>2, SwappedOK
  <2>4. /\ NetDebit(Swapped(L), {"receivables"}) = -t /\ NetDebit(Swapped(L), {"vatDue"}) = w
        /\ NetDebit(Swapped(Swapped(L)), {"receivables"}) = t
        /\ NetDebit(Swapped(Swapped(L)), {"vatDue"}) = -w
    BY <2>2, <2>3, BearsNet
  <2>5. Sign(doc) * doc.total = -t /\ Sign(doc) * doc.vat = -w
    BY <1>7, <1>8, <2>1
  <2> QED
    BY <1>8, <2>1, <2>2, <2>3, <2>4, <2>5
<1>10. CASE doc.type # "credit_note"
  <2>1. IssueLines(doc) = L /\ Sign(doc) = 1
    BY <1>6, <1>10 DEF Sign
  <2>2. /\ LinesOK(Swapped(L)) /\ Bears(Swapped(L), "receivables", -t)
        /\ Bears(Swapped(L), "vatDue", w)
    BY <1>3, <1>4, <1>5, <1>7, <1>8, SwappedOK
  <2>3. /\ NetDebit(Swapped(L), {"receivables"}) = -t /\ NetDebit(Swapped(L), {"vatDue"}) = w
        /\ NetDebit(L, {"receivables"}) = t /\ NetDebit(L, {"vatDue"}) = -w
    BY <1>3, <1>4, <1>5, <1>7, <2>2, BearsNet
  <2>4. Sign(doc) * doc.total = t /\ Sign(doc) * doc.vat = w
    BY <1>7, <1>8, <2>1
  <2> QED
    BY <1>3, <2>1, <2>2, <2>3, <2>4
<1> QED
  BY <1>9, <1>10

\* The lines of a payment.
PaymentLines(doc, amount) ==
  Facing(doc, {Debit("bank", amount), Credit("receivables", amount)})

LEMMA PaymentLinesAre ==
  ASSUME NEW doc, NEW amount \in Nat
  PROVE  /\ LinesOK(PaymentLines(doc, amount))
         /\ \A l \in PaymentLines(doc, amount) : l.account \in {"bank", "receivables"}
         /\ NetDebit(PaymentLines(doc, amount), {"receivables"}) = -(Sign(doc) * amount)
<1> DEFINE b == Debit("bank", amount)
           r == Credit("receivables", amount)
           L == {b, r}
<1>1. /\ b \in Line /\ r \in Line /\ b.account = "bank"
      /\ r.account = "receivables" /\ r.debit = 0 /\ r.credit = amount
  BY AccountSets DEF Debit, Credit, Line
<1>2. PaymentLines(doc, amount) = IF doc.type = "credit_note" THEN Swapped(L) ELSE L
  BY DEF PaymentLines, Facing
<1> HIDE DEF b, r
<1>3. LinesOK(L)
  <2>1. IsFiniteSet({b}) /\ L = {b} \cup {r}
    BY FS_Singleton
  <2>2. IsFiniteSet(L)
    BY <2>1, FS_AddElement
  <2> QED
    BY <1>1, <2>2 DEF LinesOK
<1>4. Bears(L, "receivables", -amount)
  <2>1. On(L, {"receivables"}) = {r}
    BY <1>1 DEF On
  <2>2. r.debit - r.credit = -amount
    BY <1>1
  <2> HIDE DEF L
  <2> QED
    BY <1>1, <2>1, <2>2 DEF Bears
<1>5. \A l \in L : l.account \in {"bank", "receivables"}
  BY <1>1
<1> HIDE DEF L
<1>6. /\ LinesOK(Swapped(L)) /\ Bears(Swapped(L), "receivables", -(-amount))
      /\ \A l \in Swapped(L) : l.account \in {"bank", "receivables"}
  BY <1>3, <1>4, <1>5, SwappedOK
<1>7. /\ NetDebit(L, {"receivables"}) = -amount
      /\ NetDebit(Swapped(L), {"receivables"}) = -(-amount)
  BY <1>3, <1>4, <1>6, BearsNet
<1>8. CASE doc.type = "credit_note"
  <2>1. Sign(doc) * amount = -amount
    BY <1>8 DEF Sign
  <2> QED
    BY <1>2, <1>6, <1>7, <1>8, <2>1
<1>9. CASE doc.type # "credit_note"
  <2>1. Sign(doc) * amount = amount
    BY <1>9 DEF Sign
  <2> QED
    BY <1>2, <1>3, <1>5, <1>7, <1>9, <2>1
<1> QED
  BY <1>8, <1>9

\* The lines that close a year bear on sales, on fees and on the result.
LEMMA ClosingLinesAre ==
  ASSUME JournalOK(journal_entries), NEW y
  PROVE  /\ LinesOK(ClosingLines(y))
         /\ \A l \in ClosingLines(y) : l.account \in {"sales", "fees", "result"}
<1> DEFINE revenue == {a \in OfType({"revenue"}) : YearBalance(y, a) < 0}
           expense == {a \in OfType({"expense"}) : YearBalance(y, a) > 0}
           fr == [a \in OfType({"revenue", "expense"}) |-> -YearBalance(y, a)]
           result == SumFunction(fr)
           R == {Debit(a, -YearBalance(y, a)) : a \in revenue}
           E == {Credit(a, YearBalance(y, a)) : a \in expense}
           X == CASE result > 0 -> {Credit("result", result)}
                  [] result < 0 -> {Debit("result", -result)}
                  [] OTHER      -> {}
<1>1. \A a : YearBalance(y, a) \in Int
  BY MovementType DEF YearBalance
<1>2. ClosingLines(y) = R \cup E \cup X
  BY DEF ClosingLines
<1>3. ASSUME NEW a \in Accounts, NEW n \in Nat
      PROVE  /\ Debit(a, n) \in Line /\ Debit(a, n).account = a
             /\ Credit(a, n) \in Line /\ Credit(a, n).account = a
  BY DEF Debit, Credit, Line
<1>4. LinesOK(R) /\ \A l \in R : l.account = "sales"
  <2>1. \A a \in revenue : a = "sales" /\ a \in Accounts /\ -YearBalance(y, a) \in Nat
    <3> TAKE a \in revenue
    <3>1. a = "sales" /\ YearBalance(y, a) < 0 /\ a \in Accounts
      BY AccountSets
    <3>2. PICK n \in Int : n = YearBalance(y, a)
      BY <1>1
    <3>3. -n \in Nat
      BY <3>1, <3>2
    <3> QED
      BY <3>1, <3>2, <3>3
  <2> HIDE DEF revenue
  <2>2. R \subseteq {Debit("sales", -YearBalance(y, "sales"))}
    BY <2>1
  <2>3. IsFiniteSet(R)
    <3>1. PICK l : l = Debit("sales", -YearBalance(y, "sales"))
      OBVIOUS
    <3>2. R \in SUBSET {l}
      BY <2>2, <3>1
    <3>3. IsFiniteSet({l})
      BY FS_Singleton
    <3> HIDE DEF R
    <3> QED
      BY <3>2, <3>3, FS_Subset
  <2>4. \A l \in R : l \in Line /\ l.account = "sales"
    BY <1>3, <2>1
  <2> QED
    BY <2>3, <2>4 DEF LinesOK
<1>5. LinesOK(E) /\ \A l \in E : l.account = "fees"
  <2>1. \A a \in expense : a = "fees" /\ a \in Accounts /\ YearBalance(y, a) \in Nat
    <3> TAKE a \in expense
    <3>1. a = "fees" /\ YearBalance(y, a) > 0 /\ a \in Accounts
      BY AccountSets
    <3>2. PICK n \in Int : n = YearBalance(y, a)
      BY <1>1
    <3>3. n \in Nat
      BY <3>1, <3>2
    <3> QED
      BY <3>1, <3>2, <3>3
  <2> HIDE DEF expense
  <2>2. E \subseteq {Credit("fees", YearBalance(y, "fees"))}
    BY <2>1
  <2>3. IsFiniteSet(E)
    <3>1. PICK l : l = Credit("fees", YearBalance(y, "fees"))
      OBVIOUS
    <3>2. E \in SUBSET {l}
      BY <2>2, <3>1
    <3>3. IsFiniteSet({l})
      BY FS_Singleton
    <3> HIDE DEF E
    <3> QED
      BY <3>2, <3>3, FS_Subset
  <2>4. \A l \in E : l \in Line /\ l.account = "fees"
    BY <1>3, <2>1
  <2> QED
    BY <2>3, <2>4 DEF LinesOK
<1>6. result \in Int
  <2>1. IsFiniteSet(OfType({"revenue", "expense"}))
    <3>1. OfType({"revenue", "expense"}) \in SUBSET Accounts
      BY DEF OfType
    <3> QED
      BY <3>1, AccountSets, FS_Subset
  <2>2. \A a \in OfType({"revenue", "expense"}) : fr[a] \in Int
    <3> TAKE a \in OfType({"revenue", "expense"})
    <3>1. PICK n \in Int : n = YearBalance(y, a)
      BY <1>1
    <3>2. -n \in Int
      OBVIOUS
    <3> QED
      BY <3>1, <3>2
  <2>3. DOMAIN fr = OfType({"revenue", "expense"})
    OBVIOUS
  <2> HIDE DEF fr
  <2> QED
    BY <2>1, <2>2, <2>3, SumType DEF SumFunction
<1>7. LinesOK(X) /\ \A l \in X : l.account = "result"
  <2> HIDE DEF result
  <2>0. "result" \in Accounts
    BY AccountSets
  <2>1. CASE result > 0
    <3>1. X = {Credit("result", result)} /\ result \in Nat
      BY <1>6, <2>1
    <3>2. PICK l : l = Credit("result", result)
      OBVIOUS
    <3>3. l \in Line /\ l.account = "result"
      BY <1>3, <2>0, <3>1, <3>2
    <3>4. X = {l}
      BY <3>1, <3>2
    <3> HIDE DEF X
    <3>5. IsFiniteSet(X)
      BY <3>4, FS_Singleton
    <3> QED
      BY <3>3, <3>4, <3>5 DEF LinesOK
  <2>2. CASE result < 0
    <3>1. X = {Debit("result", -result)} /\ -result \in Nat
      BY <1>6, <2>2
    <3>2. PICK l : l = Debit("result", -result)
      OBVIOUS
    <3>3. l \in Line /\ l.account = "result"
      BY <1>3, <2>0, <3>1, <3>2
    <3>4. X = {l}
      BY <3>1, <3>2
    <3> HIDE DEF X
    <3>5. IsFiniteSet(X)
      BY <3>4, FS_Singleton
    <3> QED
      BY <3>3, <3>4, <3>5 DEF LinesOK
  <2>3. CASE ~(result > 0) /\ ~(result < 0)
    <3>1. X = {}
      BY <2>3
    <3> HIDE DEF X
    <3> QED
      BY <3>1, FS_EmptySet DEF LinesOK
  <2> QED
    BY <2>1, <2>2, <2>3
<1> HIDE DEF R, E, X
<1>8. IsFiniteSet(R \cup E)
  BY <1>4, <1>5, FS_Union DEF LinesOK
<1>9. IsFiniteSet(R \cup E \cup X)
  BY <1>7, <1>8, FS_Union DEF LinesOK
<1>10. R \cup E \cup X \subseteq Line
  BY <1>4, <1>5, <1>7 DEF LinesOK
<1>11. \A l \in R \cup E \cup X : l.account \in {"sales", "fees", "result"}
  BY <1>4, <1>5, <1>7
<1> QED
  BY <1>2, <1>9, <1>10, <1>11 DEF LinesOK

\* An entry of another kind puts nothing.
LEMMA ValueNone ==
  ASSUME NEW e, NEW A, NEW K, NEW S, e.kind \notin K
  PROVE  Value(e, A, K, S) = 0
  BY DEF Value

\* The books agree as before when an entry puts what a document has changed.
LEMMA BooksAdd ==
  ASSUME NEW B, JournalOK(B), NEW x, EntryOK(x), NEW C, C = Plus(B, x),
         NEW D, TableIs(D), NEW E, TableIs(E), Books(B, D), DOMAIN E = DOMAIN D,
         NEW d \in DOMAIN D, \A c \in DOMAIN D : c # d => E[c] = D[c],
         \A S \in SUBSET Dates :
           /\ StandsFor(E[d], "total", S)
                = StandsFor(D[d], "total", S) + Value(x, {"receivables"}, {"issue", "reversal"}, S)
           /\ StandsFor(E[d], "vat", S)
                = StandsFor(D[d], "vat", S) - Value(x, {"vatDue"}, {"issue", "reversal"}, S),
         StandsFor(E[d], "paid", Dates)
           = StandsFor(D[d], "paid", Dates) - Value(x, {"receivables"}, {"payment"}, Dates)
  PROVE  Books(C, E)
<1> SUFFICES ASSUME NEW S \in SUBSET Dates
             PROVE
    /\ Put(C, {"receivables"}, {"issue", "reversal"}, S) = Stood(E, "total", S)
    /\ Put(C, {"vatDue"}, {"issue", "reversal"}, S) = -Stood(E, "vat", S)
    /\ Put(C, {"receivables"}, {"payment"}, Dates) = -Stood(E, "paid", Dates)
  BY DEF Books
<1> DEFINE IR == {"issue", "reversal"}
<1>1. \A A, K, T : Put(C, A, K, T) = Put(B, A, K, T) + Value(x, A, K, T)
  BY PutMore
<1>2. \A of, T : Stood(E, of, T) = Stood(D, of, T) - StandsFor(D[d], of, T) + StandsFor(E[d], of, T)
  BY StoodChanges
<1>3. \A of, T : Stood(D, of, T) \in Int /\ StandsFor(D[d], of, T) \in Int
  BY StoodType, StandingType DEF TableIs
<1>4. \A A, K, T : Value(x, A, K, T) \in Int
  BY ValueType
<1>5. Dates \in SUBSET Dates
  OBVIOUS
<1>6. /\ Put(B, {"receivables"}, IR, S) = Stood(D, "total", S)
      /\ Put(B, {"vatDue"}, IR, S) = -Stood(D, "vat", S)
      /\ Put(B, {"receivables"}, {"payment"}, Dates) = -Stood(D, "paid", Dates)
  BY <1>5 DEF Books
<1> HIDE DEF IR
<1>7. Put(C, {"receivables"}, IR, S) = Stood(E, "total", S)
  <2>1. PICK s, p, v : /\ s = Stood(D, "total", S) /\ p = StandsFor(D[d], "total", S)
                       /\ v = Value(x, {"receivables"}, IR, S)
    OBVIOUS
  <2>2. s \in Int /\ p \in Int /\ v \in Int
    BY <1>3, <1>4, <2>1
  <2>3. Put(C, {"receivables"}, IR, S) = s + v
    BY <1>1, <1>6, <2>1
  <2>4. Stood(E, "total", S) = s - p + (p + v)
    BY <1>2, <2>1 DEF IR
  <2>5. s + v = s - p + (p + v)
    BY <2>2
  <2> QED
    BY <2>3, <2>4, <2>5
<1>8. Put(C, {"vatDue"}, IR, S) = -Stood(E, "vat", S)
  <2>1. PICK s, p, v : /\ s = Stood(D, "vat", S) /\ p = StandsFor(D[d], "vat", S)
                       /\ v = Value(x, {"vatDue"}, IR, S)
    OBVIOUS
  <2>2. s \in Int /\ p \in Int /\ v \in Int
    BY <1>3, <1>4, <2>1
  <2>3. Put(C, {"vatDue"}, IR, S) = -s + v
    BY <1>1, <1>6, <2>1
  <2>4. Stood(E, "vat", S) = s - p + (p - v)
    BY <1>2, <2>1 DEF IR
  <2>5. -s + v = -(s - p + (p - v))
    BY <2>2
  <2> QED
    BY <2>3, <2>4, <2>5
<1>9. Put(C, {"receivables"}, {"payment"}, Dates) = -Stood(E, "paid", Dates)
  <2>1. PICK s, p, v : /\ s = Stood(D, "paid", Dates) /\ p = StandsFor(D[d], "paid", Dates)
                       /\ v = Value(x, {"receivables"}, {"payment"}, Dates)
    OBVIOUS
  <2>2. s \in Int /\ p \in Int /\ v \in Int
    BY <1>3, <1>4, <2>1
  <2>3. Put(C, {"receivables"}, {"payment"}, Dates) = -s + v
    BY <1>1, <1>6, <2>1
  <2>4. Stood(E, "paid", Dates) = s - p + (p - v)
    BY <1>2, <2>1
  <2>5. -s + v = -(s - p + (p - v))
    BY <2>2
  <2> QED
    BY <2>3, <2>4, <2>5
<1> QED
  BY <1>7, <1>8, <1>9 DEF IR

\* They do when an entry of another kind is added, or taken away.
LEMMA BooksOther ==
  ASSUME NEW B, NEW C, NEW D, Books(B, D),
         \A A, K, S : "by_hand" \notin K /\ "closing" \notin K => Put(C, A, K, S) = Put(B, A, K, S)
  PROVE  Books(C, D)
<1> SUFFICES ASSUME NEW S \in SUBSET Dates
             PROVE
    /\ Put(C, {"receivables"}, {"issue", "reversal"}, S) = Stood(D, "total", S)
    /\ Put(C, {"vatDue"}, {"issue", "reversal"}, S) = -Stood(D, "vat", S)
    /\ Put(C, {"receivables"}, {"payment"}, Dates) = -Stood(D, "paid", Dates)
  BY DEF Books
<1>1. PICK K, L : K = {"issue", "reversal"} /\ L = {"payment"}
  OBVIOUS
<1>2. /\ "by_hand" \notin K /\ "closing" \notin K /\ "by_hand" \notin L /\ "closing" \notin L
  BY <1>1
<1>3. /\ Put(C, {"receivables"}, K, S) = Put(B, {"receivables"}, K, S)
      /\ Put(C, {"vatDue"}, K, S) = Put(B, {"vatDue"}, K, S)
      /\ Put(C, {"receivables"}, L, Dates) = Put(B, {"receivables"}, L, Dates)
  BY <1>2
<1>4. /\ Put(B, {"receivables"}, K, S) = Stood(D, "total", S)
      /\ Put(B, {"vatDue"}, K, S) = -Stood(D, "vat", S)
      /\ Put(B, {"receivables"}, L, Dates) = -Stood(D, "paid", Dates)
  BY <1>1 DEF Books
<1> QED
  BY <1>1, <1>3, <1>4

\* And when every document stands as it did.
LEMMA BooksSame ==
  ASSUME NEW B, NEW D, Books(B, D), NEW E, \A of, S : Stood(E, of, S) = Stood(D, of, S)
  PROVE  Books(B, E)
  BY DEF Books

-----------------------------------------------------------------------------
(* The inductive invariant *)

\* What documents have put on the journal is what they are in force for, unless
\* a closed year refused a reversal.
ReportsInv ==
  /\ JournalOK(journal_entries)
  /\ DocumentsOK(documents, journal_entries)
  /\ closed \subseteq YearEnds
  /\ stray \subseteq DOMAIN documents
  /\ stray = {} => Books(journal_entries, documents)

LEMMA SameEntry ==
  ASSUME NEW a, NEW b, a.type = b.type, a.date = b.date,
         a.total = b.total, a.subtotal = b.subtotal, a.vat = b.vat
  PROVE  Sign(a) = Sign(b) /\ IssueLines(a) = IssueLines(b) /\ EntryOf(a) = EntryOf(b)
<1>1. Sign(a) = Sign(b)
  BY DEF Sign
<1>2. IssueLines(a) = IssueLines(b)
  BY DEF IssueLines, Facing
<1> QED
  BY <1>1, <1>2 DEF EntryOf

LEMMA SameStanding ==
  ASSUME NEW a, NEW b, a.type = b.type, a.date = b.date,
         a.total = b.total, a.vat = b.vat, a.paid = b.paid,
         a.entered /\ a.status \in {"sent", "paid", "archived"}
           <=> b.entered /\ b.status \in {"sent", "paid", "archived"}
  PROVE  \A of, S : StandsFor(a, of, S) = StandsFor(b, of, S)
<1> TAKE of, S
<1>1. Sign(a) = Sign(b) /\ Amount(a, of) = Amount(b, of)
  BY DEF Sign, Amount
<1>2. Counts(a, S) <=> Counts(b, S)
  BY DEF Counts
<1> QED
  BY <1>1, <1>2 DEF StandsFor

\* A row of the table is written.
LEMMA RowWritten ==
  ASSUME NEW D, NEW B, DocumentsOK(D, B), NEW d \in DOMAIN D, NEW doc, DocumentRowOK(doc),
         doc.corrects = D[d].corrects, NEW C, DOMAIN B \subseteq DOMAIN C,
         doc.entered => EntryOf(doc) \in DOMAIN C,
         NEW E, E = [D EXCEPT ![d] = doc]
  PROVE  /\ DocumentsOK(E, C) /\ DOMAIN E = DOMAIN D /\ E[d] = doc
         /\ \A c \in DOMAIN D : c # d => E[c] = D[c]
<1>1. D \in Seq(Documents) /\ doc \in Documents
  BY DEF DocumentsOK, DocumentRowOK
<1>2. DOMAIN E = DOMAIN D /\ E[d] = doc /\ \A c \in DOMAIN D : c # d => E[c] = D[c]
  OBVIOUS
<1>3. E \in Seq(Documents)
  BY <1>1
<1>4. ASSUME NEW c \in DOMAIN D
      PROVE  /\ DocumentRowOK(E[c]) /\ E[c].corrects \in {0} \cup DOMAIN D
             /\ E[c].entered => EntryOf(E[c]) \in DOMAIN C
  <2>1. CASE c = d
    <3>1. D[d].corrects \in {0} \cup DOMAIN D
      BY DEF DocumentsOK
    <3> QED
      BY <1>2, <2>1, <3>1
  <2>2. CASE c # d
    <3>1. E[c] = D[c]
      BY <1>2, <2>2
    <3> QED
      BY <3>1 DEF DocumentsOK
  <2> QED
    BY <2>1, <2>2
<1> QED
  BY <1>2, <1>3, <1>4 DEF DocumentsOK

\* An operation that writes a document and no entry.
LEMMA Rewritten ==
  ASSUME ReportsInv, NEW d \in DOMAIN documents, NEW doc, DocumentRowOK(doc),
         doc.corrects = documents[d].corrects,
         doc.entered => EntryOf(doc) \in DOMAIN journal_entries,
         documents' = [documents EXCEPT ![d] = doc],
         journal_entries' = journal_entries, closed' = closed,
         stray' \subseteq DOMAIN documents,
         stray' = {} =>
           stray = {} /\ \A of, S : StandsFor(doc, of, S) = StandsFor(documents[d], of, S)
  PROVE  ReportsInv'
<1>1. /\ DocumentsOK(documents', journal_entries) /\ DOMAIN documents' = DOMAIN documents
      /\ documents'[d] = doc /\ \A c \in DOMAIN documents : c # d => documents'[c] = documents[c]
  BY RowWritten DEF ReportsInv
<1>2. ASSUME stray' = {}
      PROVE  Books(journal_entries, documents')
  <2>1. PICK B, D, E : B = journal_entries /\ D = documents /\ E = documents'
    OBVIOUS
  <2>2. TableIs(D) /\ TableIs(E) /\ DOMAIN E = DOMAIN D
    BY <1>1, <2>1, TableHolds DEF ReportsInv
  <2>3. ASSUME NEW of, NEW S
        PROVE  Stood(E, of, S) = Stood(D, of, S)
    <3>1. \A c \in DOMAIN D : StandsFor(E[c], of, S) = StandsFor(D[c], of, S)
      BY <1>1, <1>2, <2>1
    <3> QED
      BY <2>2, <3>1, StoodSame
  <2>4. Books(B, D)
    BY <1>2, <2>1 DEF ReportsInv
  <2>5. Books(B, E)
    BY <2>3, <2>4, BooksSame
  <2> QED
    BY <2>1, <2>5
<1> QED
  BY <1>1, <1>2 DEF ReportsInv

\* What entry x adds to the books is what becomes of a document from old to doc.
Explains(old, doc, x) ==
  /\ \A S \in SUBSET Dates :
       /\ StandsFor(doc, "total", S)
            = StandsFor(old, "total", S) + Value(x, {"receivables"}, {"issue", "reversal"}, S)
       /\ StandsFor(doc, "vat", S)
            = StandsFor(old, "vat", S) - Value(x, {"vatDue"}, {"issue", "reversal"}, S)
  /\ StandsFor(doc, "paid", Dates)
       = StandsFor(old, "paid", Dates) - Value(x, {"receivables"}, {"payment"}, Dates)

\* An operation that writes a document and an entry.
LEMMA Entered ==
  ASSUME ReportsInv, NEW d \in DOMAIN documents, NEW doc, DocumentRowOK(doc),
         doc.corrects = documents[d].corrects, NEW x, EntryOK(x),
         doc.entered => EntryOf(doc) \in DOMAIN journal_entries \/ EntryOf(doc) = x,
         documents' = [documents EXCEPT ![d] = doc],
         journal_entries' = Added(x), closed' = closed, stray' = stray,
         Explains(documents[d], doc, x)
  PROVE  ReportsInv'
<1>1. JournalOK(journal_entries) /\ journal_entries' = Plus(journal_entries, x)
  BY DEF ReportsInv, Added, Plus
<1>2. JournalOK(journal_entries')
  BY <1>1, PutAdds
<1>3. /\ DOMAIN journal_entries \subseteq DOMAIN journal_entries'
      /\ x \in DOMAIN journal_entries'
  BY <1>1, PutAdds
<1>4. doc.entered => EntryOf(doc) \in DOMAIN journal_entries'
  BY <1>3
<1>5. DocumentsOK(documents, journal_entries)
  BY DEF ReportsInv
<1>6. /\ DocumentsOK(documents', journal_entries') /\ DOMAIN documents' = DOMAIN documents
      /\ documents'[d] = doc /\ \A c \in DOMAIN documents : c # d => documents'[c] = documents[c]
  BY <1>3, <1>4, <1>5, RowWritten
<1>7. ASSUME stray' = {}
      PROVE  Books(journal_entries', documents')
  <2>1. PICK B, C, D, E : /\ B = journal_entries /\ C = journal_entries'
                          /\ D = documents /\ E = documents'
    OBVIOUS
  <2>2. TableIs(D) /\ TableIs(E) /\ DOMAIN E = DOMAIN D
    BY <1>5, <1>6, <2>1, TableHolds
  <2>3. Books(B, D) /\ JournalOK(B) /\ C = Plus(B, x)
    BY <1>1, <1>7, <2>1 DEF ReportsInv
  <2>4. d \in DOMAIN D /\ E[d] = doc /\ \A c \in DOMAIN D : c # d => E[c] = D[c]
    BY <1>6, <2>1
  <2>5. \A S \in SUBSET Dates :
           /\ StandsFor(E[d], "total", S)
                = StandsFor(D[d], "total", S) + Value(x, {"receivables"}, {"issue", "reversal"}, S)
           /\ StandsFor(E[d], "vat", S)
                = StandsFor(D[d], "vat", S) - Value(x, {"vatDue"}, {"issue", "reversal"}, S)
    BY <2>1, <2>4 DEF Explains
  <2>6. StandsFor(E[d], "paid", Dates)
          = StandsFor(D[d], "paid", Dates) - Value(x, {"receivables"}, {"payment"}, Dates)
    BY <2>1, <2>4 DEF Explains
  <2>7. Books(C, E)
    BY <2>2, <2>3, <2>4, <2>5, <2>6, BooksAdd
  <2> QED
    BY <2>1, <2>7
<1> QED
  BY <1>2, <1>6, <1>7 DEF ReportsInv

\* An operation that adds an entry by hand or of a closing.
LEMMA Written ==
  ASSUME ReportsInv, NEW x, EntryOK(x), x.kind \in {"by_hand", "closing"},
         journal_entries' = Added(x), documents' = documents, stray' = stray,
         closed' \subseteq YearEnds
  PROVE  ReportsInv'
<1>1. JournalOK(journal_entries) /\ journal_entries' = Plus(journal_entries, x)
  BY DEF ReportsInv, Added, Plus
<1>2. JournalOK(journal_entries') /\ DOMAIN journal_entries \subseteq DOMAIN journal_entries'
  BY <1>1, PutAdds
<1>3. DocumentsOK(documents, journal_entries')
  BY <1>2 DEF ReportsInv, DocumentsOK
<1>4. ASSUME stray = {}
      PROVE  Books(journal_entries', documents)
  <2>1. Books(journal_entries, documents)
    BY <1>4 DEF ReportsInv
  <2>2. ASSUME NEW A, NEW K, NEW S, "by_hand" \notin K, "closing" \notin K
        PROVE  Put(journal_entries', A, K, S) = Put(journal_entries, A, K, S)
    <3>1. x.kind \notin K
      BY <2>2
    <3>2. Value(x, A, K, S) = 0
      BY <3>1, ValueNone
    <3>3. Put(journal_entries', A, K, S) = Put(journal_entries, A, K, S) + Value(x, A, K, S)
      BY <1>1, PutMore
    <3>4. Put(journal_entries, A, K, S) \in Int
      BY <1>1, PutType
    <3> QED
      BY <3>2, <3>3, <3>4
  <2> QED
    BY <2>1, <2>2, BooksOther
<1> QED
  BY <1>2, <1>3, <1>4 DEF ReportsInv

-----------------------------------------------------------------------------
(* Each operation keeps the invariant *)

LEMMA DocumentHolds ==
  ASSUME ReportsInv, NEW d \in DOMAIN documents
  PROVE  /\ DocumentRowOK(documents[d]) /\ documents[d] \in Documents
         /\ documents[d].entered => EntryOf(documents[d]) \in DOMAIN journal_entries
  BY DEF ReportsInv, DocumentsOK, DocumentRowOK

LEMMA CreateByHandKeeps ==
  ASSUME ReportsInv, NEW date \in Dates, NEW lines \in ByHand, CreateByHand(date, lines)
  PROVE  ReportsInv'
<1> DEFINE x == Entry("by_hand", date, lines, "draft")
<1>1. lines \subseteq Line /\ IsFiniteSet(lines)
  BY ReportsAssumption
<1>2. Balanced(lines)
  BY DEF CreateByHand, Enterable
<1>3. EntryOK(x) /\ x.kind \in {"by_hand", "closing"}
  BY <1>1, <1>2 DEF EntryOK, BookEntries, Entry, Kinds
<1>4. /\ journal_entries' = Added(x) /\ documents' = documents /\ stray' = stray
      /\ closed' \subseteq YearEnds
  BY DEF CreateByHand, ReportsInv
<1> HIDE DEF x
<1> QED
  BY <1>3, <1>4, Written

LEMMA CloseYearKeeps ==
  ASSUME ReportsInv, NEW y \in YearEnds, CloseYear(y)
  PROVE  ReportsInv'
<1> DEFINE x == Entry("closing", y, ClosingLines(y), "posted")
<1>1. documents' = documents /\ stray' = stray /\ closed' \subseteq YearEnds
  BY DEF CloseYear, ReportsInv
<1>2. CASE ClosingLines(y) = {}
  <2>1. journal_entries' = journal_entries
    BY <1>2 DEF CloseYear
  <2> QED
    BY <1>1, <2>1 DEF ReportsInv
<1>3. CASE ClosingLines(y) # {}
  <2>1. /\ LinesOK(ClosingLines(y))
        /\ \A l \in ClosingLines(y) : l.account \in {"sales", "fees", "result"}
    BY ClosingLinesAre DEF ReportsInv
  <2>2. y \in Dates
    BY ReportsAssumption
  <2>3. PICK lines : lines = ClosingLines(y)
    OBVIOUS
  <2>4. EntryOK(x) /\ x.kind \in {"by_hand", "closing"}
    BY <2>1, <2>2, <2>3 DEF EntryOK, BookEntries, Entry, Kinds, LinesOK
  <2>5. journal_entries' = Added(x)
    BY <1>3 DEF CloseYear
  <2> HIDE DEF x
  <2> QED
    BY <1>1, <2>4, <2>5, Written
<1> QED
  BY <1>2, <1>3

LEMMA PostByHandKeeps ==
  ASSUME ReportsInv, NEW e \in DOMAIN journal_entries, PostByHand(e)
  PROVE  ReportsInv'
<1> DEFINE x == [e EXCEPT !.status = "posted"]
           M == Less(journal_entries, e)
<1>1. JournalOK(journal_entries) /\ DocumentsOK(documents, journal_entries)
  BY DEF ReportsInv
<1>2. e.status = "draft" /\ EntryOK(e)
  BY <1>1 DEF PostByHand, JournalOK
<1>3. e.kind = "by_hand"
  BY <1>2 DEF EntryOK
<1>4. EntryOK(x) /\ x.kind = "by_hand"
  BY <1>2, <1>3 DEF EntryOK, BookEntries
<1>5. /\ JournalOK(M) /\ DOMAIN journal_entries \ {e} \subseteq DOMAIN M
      /\ \A A, K, S : Put(M, A, K, S) = Put(journal_entries, A, K, S) - Value(e, A, K, S)
  BY <1>1, PutRemoves
<1>6. /\ journal_entries' = Plus(M, x) /\ documents' = documents
      /\ stray' = stray /\ closed' = closed
  BY DEF PostByHand, AfterPosting, Plus, Less
<1> HIDE DEF M, x
<1>7. /\ JournalOK(journal_entries')
      /\ \A c : c \in DOMAIN journal_entries' <=> c \in DOMAIN M \/ c = x
  BY <1>4, <1>5, <1>6, PutAdds
<1>8. DocumentsOK(documents, journal_entries')
  <2>1. ASSUME NEW d \in DOMAIN documents, documents[d].entered
        PROVE  EntryOf(documents[d]) \in DOMAIN journal_entries'
    <3>1. EntryOf(documents[d]) \in DOMAIN journal_entries
      BY <1>1, <2>1 DEF DocumentsOK
    <3>2. EntryOf(documents[d]) # e
      BY <1>2 DEF EntryOf, Entry
    <3> QED
      BY <1>5, <1>7, <3>1, <3>2
  <2> QED
    BY <1>1, <2>1 DEF DocumentsOK
<1>9. ASSUME stray = {}
      PROVE  Books(journal_entries', documents)
  <2>1. Books(journal_entries, documents)
    BY <1>9 DEF ReportsInv
  <2>2. ASSUME NEW A, NEW K, NEW S, "by_hand" \notin K, "closing" \notin K
        PROVE  Put(journal_entries', A, K, S) = Put(journal_entries, A, K, S)
    <3>1. Value(e, A, K, S) = 0 /\ Value(x, A, K, S) = 0
      BY <1>3, <1>4, <2>2, ValueNone
    <3>2. Put(journal_entries', A, K, S) = Put(M, A, K, S) + Value(x, A, K, S)
      BY <1>4, <1>5, <1>6, PutMore
    <3>3. Put(journal_entries, A, K, S) \in Int
      BY <1>1, PutType
    <3> QED
      BY <1>5, <3>1, <3>2, <3>3
  <2> QED
    BY <2>1, <2>2, BooksOther
<1> QED
  BY <1>6, <1>7, <1>8, <1>9 DEF ReportsInv

LEMMA AddDocumentKeeps ==
  ASSUME ReportsInv, NEW type \in {"invoice", "credit_note"},
         NEW corrects \in {0} \cup DOMAIN documents, NEW sale \in Sales, NEW date \in Dates,
         NEW due \in Nat, NEW year \in YearEnds \cup {NoYear},
         AddDocument(type, corrects, sale, date, due, year)
  PROVE  ReportsInv'
<1>1. PICK s, v, t : /\ s = computeTotals(sale).subtotal /\ v = computeTotals(sale).vat
                     /\ t = computeTotals(sale).total
  OBVIOUS
<1>2. s \in Nat /\ v \in Nat /\ t \in Nat
  BY <1>1, TotalsType
<1> DEFINE doc ==
     [type |-> type, corrects |-> corrects, date |-> date, due |-> due, year |-> year,
      subtotal |-> s, vat |-> v, total |-> t,
      status |-> "draft", paid |-> 0, payments |-> 0, entered |-> FALSE, reopened |-> 0]
<1>3. corrects \in Nat
  BY DEF ReportsInv, DocumentsOK
<1>4. doc \in Documents
  BY <1>2, <1>3 DEF Documents, Statuses
<1>5. DocumentRowOK(doc) /\ ~doc.entered /\ doc.corrects = corrects
  BY <1>2, <1>4 DEF DocumentRowOK
<1>6. documents' = Append(documents, doc)
  BY <1>1 DEF AddDocument
<1>7. journal_entries' = journal_entries /\ closed' = closed /\ stray' = stray
  BY DEF AddDocument
<1> HIDE DEF doc
<1>8. PICK B, D, E : B = journal_entries /\ D = documents /\ E = documents'
  OBVIOUS
<1>9. DocumentsOK(D, B) /\ E = Append(D, doc)
  BY <1>6, <1>8 DEF ReportsInv
<1>10. /\ E \in Seq(Documents) /\ DOMAIN D \subseteq DOMAIN E
       /\ \A d \in DOMAIN D : E[d] = D[d]
       /\ \A d \in DOMAIN E \ DOMAIN D : E[d] = doc
  <2>1. D \in Seq(Documents) /\ doc \in Documents
    BY <1>4, <1>9 DEF DocumentsOK
  <2>2. DOMAIN D = 1..Len(D) /\ Len(D) \in Nat /\ E \in Seq(Documents)
    BY <1>9, <2>1
  <2>3. DOMAIN E = 1..(Len(D) + 1) /\ E[Len(D) + 1] = doc /\ \A d \in DOMAIN D : E[d] = D[d]
    BY <1>9, <2>1
  <2>4. 1..(Len(D) + 1) = 1..Len(D) \cup {Len(D) + 1}
    BY <2>2
  <2> QED
    BY <2>2, <2>3, <2>4
<1>11. DocumentsOK(E, B)
  <2>1. ASSUME NEW d \in DOMAIN E
        PROVE  /\ DocumentRowOK(E[d]) /\ E[d].corrects \in {0} \cup DOMAIN E
               /\ E[d].entered => EntryOf(E[d]) \in DOMAIN B
    <3>1. CASE d \in DOMAIN D
      <4>1. DocumentRowOK(D[d]) /\ D[d].corrects \in {0} \cup DOMAIN D
        BY <1>9, <3>1 DEF DocumentsOK
      <4>2. D[d].entered => EntryOf(D[d]) \in DOMAIN B
        BY <1>9, <3>1 DEF DocumentsOK
      <4>3. E[d] = D[d]
        BY <1>10, <3>1
      <4> QED
        BY <1>10, <4>1, <4>2, <4>3
    <3>2. CASE d \notin DOMAIN D
      <4>1. E[d] = doc
        BY <1>10, <3>2
      <4> QED
        BY <1>5, <1>8, <1>10, <4>1
    <3> QED
      BY <3>1, <3>2
  <2> QED
    BY <1>10, <2>1 DEF DocumentsOK
<1>12. ASSUME stray = {}
       PROVE  Books(B, E)
  <2>1. TableIs(D) /\ TableIs(E)
    BY <1>9, <1>11, TableHolds
  <2>2. ASSUME NEW of, NEW S
        PROVE  Stood(E, of, S) = Stood(D, of, S)
    <3>1. \A d \in DOMAIN E \ DOMAIN D : ~Counts(E[d], S)
      BY <1>5, <1>10 DEF Counts
    <3> QED
      BY <1>10, <2>1, <3>1, StoodAppends
  <2>3. Books(B, D)
    BY <1>8, <1>12 DEF ReportsInv
  <2> QED
    BY <2>2, <2>3, BooksSame
<1> QED
  BY <1>7, <1>8, <1>10, <1>11, <1>12 DEF ReportsInv

LEMMA UpdateInvoiceKeeps ==
  ASSUME ReportsInv, NEW d \in DOMAIN documents, NEW sale \in Sales, NEW date \in Dates,
         NEW due \in Nat, UpdateInvoice(d, sale, date, due)
  PROVE  ReportsInv'
<1>1. PICK s, v, t : /\ s = computeTotals(sale).subtotal /\ v = computeTotals(sale).vat
                     /\ t = computeTotals(sale).total
  OBVIOUS
<1>2. s \in Nat /\ v \in Nat /\ t \in Nat
  BY <1>1, TotalsType
<1>3. PICK old : old = documents[d]
  OBVIOUS
<1> DEFINE doc == [old EXCEPT !.subtotal = s, !.vat = v, !.total = t, !.date = date, !.due = due]
<1>4. DocumentRowOK(old) /\ old \in Documents /\ old.status = "draft"
  BY <1>3, DocumentHolds DEF UpdateInvoice
<1>5. ~old.entered /\ old.paid = 0
  BY <1>4 DEF DocumentRowOK
<1>6. documents' = [documents EXCEPT ![d] = doc]
  BY <1>1, <1>3 DEF UpdateInvoice
<1>7. /\ doc \in Documents /\ doc.corrects = old.corrects
      /\ doc.status = "draft" /\ doc.paid = 0 /\ doc.total = t
  BY <1>2, <1>4, <1>5 DEF Documents
<1>8. ~doc.entered
  BY <1>4, <1>5 DEF Documents
<1> HIDE DEF doc
<1>9. DocumentRowOK(doc)
  BY <1>2, <1>7, <1>8 DEF DocumentRowOK
<1>10. \A of, S : StandsFor(doc, of, S) = StandsFor(old, of, S)
  BY <1>5, <1>8 DEF StandsFor, Counts
<1>11. journal_entries' = journal_entries /\ closed' = closed /\ stray' = stray
  BY DEF UpdateInvoice
<1>12. stray \subseteq DOMAIN documents
  BY DEF ReportsInv
<1> QED
  BY <1>3, <1>6, <1>7, <1>8, <1>9, <1>10, <1>11, <1>12, Rewritten

LEMMA ReopenKeeps ==
  ASSUME ReportsInv, NEW d \in DOMAIN documents, Reopen(d)
  PROVE  ReportsInv'
<1>1. PICK old, n : old = documents[d] /\ n = old.reopened + 1
  OBVIOUS
<1> DEFINE doc == [old EXCEPT !.status = "draft", !.entered = FALSE, !.reopened = n]
<1>2. DocumentRowOK(old) /\ old \in Documents /\ old.status = "cancelled"
  BY <1>1, DocumentHolds DEF Reopen
<1>3. documents' = [documents EXCEPT ![d] = doc]
  BY <1>1 DEF Reopen
<1>4. old.paid = 0 /\ old.total \in Nat /\ n \in Nat
  BY <1>1, <1>2 DEF DocumentRowOK, Documents
<1>5. /\ doc \in Documents /\ doc.corrects = old.corrects
      /\ doc.status = "draft" /\ doc.paid = 0 /\ doc.total = old.total
  BY <1>2, <1>4 DEF Documents, Statuses
<1>6. ~doc.entered
  BY <1>2 DEF Documents
<1> HIDE DEF doc
<1>7. DocumentRowOK(doc)
  BY <1>4, <1>5, <1>6 DEF DocumentRowOK
<1>8. \A of, S : StandsFor(doc, of, S) = StandsFor(old, of, S)
  BY <1>2, <1>6 DEF StandsFor, Counts
<1>9. journal_entries' = journal_entries /\ closed' = closed /\ stray' = stray
  BY DEF Reopen
<1>10. stray \subseteq DOMAIN documents
  BY DEF ReportsInv
<1> QED
  BY <1>1, <1>3, <1>5, <1>6, <1>7, <1>8, <1>9, <1>10, Rewritten

\* A document sent is marked as paid, a paid one is archived.
LEMMA MarkedKeeps ==
  ASSUME ReportsInv, NEW d \in DOMAIN documents, NEW status \in {"paid", "archived"},
         documents[d].status \in {"sent", "paid"}, documents[d].paid = documents[d].total,
         documents' = [documents EXCEPT ![d].status = status],
         journal_entries' = journal_entries, closed' = closed, stray' = stray
  PROVE  ReportsInv'
<1>1. PICK old : old = documents[d]
  OBVIOUS
<1> DEFINE doc == [old EXCEPT !.status = status]
<1>2. DocumentRowOK(old) /\ old \in Documents /\ old.status \in {"sent", "paid"}
  BY <1>1, DocumentHolds
<1>3. documents' = [documents EXCEPT ![d] = doc]
  BY <1>1
<1>4. PICK v \in BOOLEAN : v = old.entered
  BY <1>2 DEF Documents
<1>5. doc \in Documents /\ doc.status = status
  BY <1>2 DEF Documents, Statuses
<1>6. /\ doc.corrects = old.corrects /\ doc.type = old.type /\ doc.date = old.date
      /\ doc.total = old.total /\ doc.subtotal = old.subtotal /\ doc.vat = old.vat
      /\ doc.paid = old.paid
  BY <1>2 DEF Documents
<1>7. doc.entered = v
  BY <1>2, <1>4 DEF Documents
<1> HIDE DEF doc
<1>8. old.paid = old.total /\ old.total \in Nat
  BY <1>1, <1>2 DEF Documents
<1>9. DocumentRowOK(doc)
  BY <1>5, <1>6, <1>8 DEF DocumentRowOK
<1>10. doc.entered => EntryOf(doc) \in DOMAIN journal_entries
  <2>1. EntryOf(doc) = EntryOf(old)
    BY <1>6, SameEntry
  <2> QED
    BY <1>1, <1>4, <1>7, <2>1, DocumentHolds
<1>11. \A of, S : StandsFor(doc, of, S) = StandsFor(old, of, S)
  <2>1. doc.entered /\ doc.status \in {"sent", "paid", "archived"}
          <=> old.entered /\ old.status \in {"sent", "paid", "archived"}
    BY <1>2, <1>4, <1>5, <1>7
  <2> QED
    BY <1>6, <2>1, SameStanding
<1>12. stray \subseteq DOMAIN documents
  BY DEF ReportsInv
<1>13. /\ doc.corrects = documents[d].corrects
       /\ \A of, S : StandsFor(doc, of, S) = StandsFor(documents[d], of, S)
  BY <1>1, <1>6, <1>11
<1>14. stray' \subseteq DOMAIN documents /\ (stray' = {} => stray = {})
  BY <1>12
<1> QED
  BY <1>3, <1>9, <1>10, <1>13, <1>14, Rewritten

LEMMA ArchiveKeeps ==
  ASSUME ReportsInv, NEW d \in DOMAIN documents, Archive(d)
  PROVE  ReportsInv'
<1>1. documents[d].status = "paid" /\ DocumentRowOK(documents[d])
  BY DocumentHolds DEF Archive
<1>2. documents[d].paid = documents[d].total
  BY <1>1 DEF DocumentRowOK
<1>3. /\ documents' = [documents EXCEPT ![d].status = "archived"]
      /\ journal_entries' = journal_entries /\ closed' = closed /\ stray' = stray
  BY DEF Archive
<1> QED
  BY <1>1, <1>2, <1>3, MarkedKeeps

LEMMA BackfillKeeps ==
  ASSUME ReportsInv, BackfillFiscalYears
  PROVE  ReportsInv'
<1>1. PICK B, D, E : B = journal_entries /\ D = documents /\ E = documents'
  OBVIOUS
<1>2. DocumentsOK(D, B)
  BY <1>1 DEF ReportsInv
<1>3. E = [d \in DOMAIN D |->
             IF D[d].year = NoYear THEN [D[d] EXCEPT !.year = YearOf(D[d].date)] ELSE D[d]]
  BY <1>1 DEF BackfillFiscalYears
<1>4. DOMAIN E = DOMAIN D
  BY <1>3
<1>5. ASSUME NEW d \in DOMAIN D
      PROVE  /\ DocumentRowOK(E[d]) /\ E[d] \in Documents /\ E[d].corrects \in {0} \cup DOMAIN D
             /\ E[d].entered => EntryOf(E[d]) \in DOMAIN B
             /\ \A of, S : StandsFor(E[d], of, S) = StandsFor(D[d], of, S)
  <2>1. PICK old, doc : old = D[d] /\ doc = E[d]
    OBVIOUS
  <2>2. DocumentRowOK(old) /\ old \in Documents /\ old.corrects \in {0} \cup DOMAIN D
    BY <1>2, <2>1 DEF DocumentsOK, DocumentRowOK
  <2>3. old.entered => EntryOf(old) \in DOMAIN B
    BY <1>2, <2>1 DEF DocumentsOK
  <2>4. CASE old.year # NoYear
    <3>1. doc = old
      BY <1>3, <2>1, <2>4
    <3> QED
      BY <2>1, <2>2, <2>3, <3>1
  <2>5. CASE old.year = NoYear
    <3>1. PICK y : y = YearOf(old.date)
      OBVIOUS
    <3>2. y \in YearEnds
      BY <2>2, <3>1, YearOfType DEF Documents
    <3>3. doc = [old EXCEPT !.year = y]
      BY <1>3, <2>1, <2>5, <3>1
    <3>4. PICK v \in BOOLEAN : v = old.entered
      BY <2>2 DEF Documents
    <3>5. doc \in Documents
      BY <2>2, <3>2, <3>3 DEF Documents
    <3>6. /\ doc.corrects = old.corrects /\ doc.type = old.type /\ doc.date = old.date
          /\ doc.total = old.total /\ doc.subtotal = old.subtotal /\ doc.vat = old.vat
          /\ doc.paid = old.paid /\ doc.status = old.status
      BY <2>2, <3>3 DEF Documents
    <3>7. doc.entered = v
      BY <2>2, <3>3, <3>4 DEF Documents
    <3>8. EntryOf(doc) = EntryOf(old)
      BY <3>6, SameEntry
    <3>9. doc.entered /\ doc.status \in {"sent", "paid", "archived"}
            <=> old.entered /\ old.status \in {"sent", "paid", "archived"}
      BY <3>4, <3>6, <3>7
    <3>10. \A of, S : StandsFor(doc, of, S) = StandsFor(old, of, S)
      BY <3>6, <3>9, SameStanding
    <3>11. DocumentRowOK(doc)
      BY <2>2, <3>4, <3>5, <3>6, <3>7 DEF DocumentRowOK
    <3> QED
      BY <2>1, <2>2, <2>3, <3>4, <3>5, <3>6, <3>7, <3>8, <3>10, <3>11
  <2> QED
    BY <2>4, <2>5
<1>6. E \in Seq(Documents)
  <2>1. D \in Seq(Documents)
    BY <1>2 DEF DocumentsOK
  <2>2. PICK n \in Nat : DOMAIN D = 1..n
    BY <2>1
  <2>3. \A d \in 1..n : E[d] \in Documents
    BY <1>5, <2>2
  <2>4. E = [d \in 1..n |-> E[d]]
    BY <1>3, <2>2
  <2>5. E \in [1..n -> Documents]
    BY <2>3, <2>4
  <2> QED
    BY <2>5
<1>7. DocumentsOK(E, B)
  BY <1>4, <1>5, <1>6 DEF DocumentsOK
<1>8. ASSUME stray = {}
      PROVE  Books(B, E)
  <2>1. TableIs(D) /\ TableIs(E)
    BY <1>2, <1>7, TableHolds
  <2>2. ASSUME NEW of, NEW S
        PROVE  Stood(E, of, S) = Stood(D, of, S)
    <3>1. \A d \in DOMAIN D : StandsFor(E[d], of, S) = StandsFor(D[d], of, S)
      BY <1>5
    <3> QED
      BY <1>4, <2>1, <3>1, StoodSame
  <2>3. Books(B, D)
    BY <1>1, <1>8 DEF ReportsInv
  <2> QED
    BY <2>2, <2>3, BooksSame
<1>9. journal_entries' = journal_entries /\ closed' = closed /\ stray' = stray
  BY DEF BackfillFiscalYears
<1> QED
  BY <1>1, <1>4, <1>7, <1>8, <1>9 DEF ReportsInv

LEMMA SendDocumentKeeps ==
  ASSUME ReportsInv, NEW d \in DOMAIN documents, NEW autoPost \in BOOLEAN,
         SendDocument(d, autoPost)
  PROVE  ReportsInv'
<1>1. PICK old, lines : old = documents[d] /\ lines = IssueLines(old)
  OBVIOUS
<1>2. DocumentRowOK(old) /\ old \in Documents /\ old.status = "draft"
  BY <1>1, DocumentHolds DEF SendDocument
<1>3. PICK v \in BOOLEAN : v = (autoPost /\ old.total # 0 /\ Enterable(old.date, lines))
  OBVIOUS
<1> DEFINE doc == [old EXCEPT !.status = "sent", !.entered = v]
           x == Entry("issue", old.date, lines, "posted")
<1>4. documents' = [documents EXCEPT ![d] = doc]
  BY <1>1, <1>3 DEF SendDocument
<1>5. /\ journal_entries' = IF v THEN Added(x) ELSE journal_entries
      /\ closed' = closed /\ stray' = stray
  BY <1>1, <1>3 DEF SendDocument
<1>6. doc \in Documents /\ doc.status = "sent" /\ doc.entered = v
  BY <1>2 DEF Documents, Statuses
<1>7. /\ doc.corrects = old.corrects /\ doc.type = old.type /\ doc.date = old.date
      /\ doc.total = old.total /\ doc.subtotal = old.subtotal /\ doc.vat = old.vat
      /\ doc.paid = old.paid
  BY <1>2 DEF Documents
<1> HIDE DEF doc
<1>8. old.paid = 0 /\ ~old.entered /\ old.total \in Nat /\ old.vat \in Nat /\ old.date \in Dates
  BY <1>2 DEF DocumentRowOK, Documents
<1>9. DocumentRowOK(doc)
  BY <1>6, <1>7, <1>8 DEF DocumentRowOK
<1>10. \A of, S : StandsFor(old, of, S) = 0
  BY <1>8 DEF StandsFor, Counts
<1>11. doc.corrects = documents[d].corrects
  BY <1>1, <1>7
<1>12. CASE ~v
  <2>1. ~doc.entered
    BY <1>6, <1>12
  <2>2. \A of, S : StandsFor(doc, of, S) = StandsFor(documents[d], of, S)
    BY <1>1, <1>10, <2>1 DEF StandsFor, Counts
  <2>3. journal_entries' = journal_entries
    BY <1>5, <1>12
  <2>4. stray' \subseteq DOMAIN documents
    BY <1>5 DEF ReportsInv
  <2> QED
    BY <1>4, <1>5, <1>9, <1>11, <2>1, <2>2, <2>3, <2>4, Rewritten
<1>13. CASE v
  <2>1. journal_entries' = Added(x)
    BY <1>5, <1>13
  <2>2. /\ LinesOK(lines) /\ NetDebit(lines, {"receivables"}) = Sign(old) * old.total
        /\ NetDebit(lines, {"vatDue"}) = -(Sign(old) * old.vat)
    BY <1>1, <1>2, IssueLinesAre
  <2>3. Balanced(lines)
    BY <1>3, <1>13 DEF Enterable
  <2>4. EntryOK(x)
    BY <1>8, <2>2, <2>3 DEF EntryOK, BookEntries, Entry, Kinds, LinesOK
  <2>5. EntryOf(doc) = x
    <3>1. EntryOf(doc) = EntryOf(old)
      BY <1>7, SameEntry
    <3> QED
      BY <1>1, <3>1 DEF EntryOf
  <2>6. ASSUME NEW S
        PROVE  /\ Value(x, {"receivables"}, {"issue", "reversal"}, S)
                    = IF old.date \in S THEN Sign(old) * old.total ELSE 0
               /\ Value(x, {"vatDue"}, {"issue", "reversal"}, S)
                    = IF old.date \in S THEN -(Sign(old) * old.vat) ELSE 0
               /\ Value(x, {"receivables"}, {"payment"}, S) = 0
    <3>1. /\ x.kind = "issue" /\ x.date = old.date /\ x.lines = lines
          /\ x.kind \in {"issue", "reversal"} /\ x.kind \notin {"payment"}
      BY DEF Entry
    <3> HIDE DEF x
    <3> QED
      BY <2>2, <3>1 DEF Value
  <2> HIDE DEF x
  <2>7. ASSUME NEW of, NEW S
        PROVE  StandsFor(doc, of, S) = IF old.date \in S THEN Sign(old) * Amount(old, of) ELSE 0
    <3>1. Counts(doc, S) <=> old.date \in S
      BY <1>6, <1>7, <1>13 DEF Counts
    <3>2. Sign(doc) = Sign(old) /\ Amount(doc, of) = Amount(old, of)
      BY <1>7 DEF Sign, Amount
    <3> QED
      BY <3>1, <3>2 DEF StandsFor
  <2>8. PICK t, w : t = Sign(old) * old.total /\ w = Sign(old) * old.vat
    OBVIOUS
  <2>9. t \in Int /\ w \in Int /\ Sign(old) * 0 = 0
    BY <1>8, <2>8 DEF Sign
  <2>10. ASSUME NEW S
         PROVE  /\ StandsFor(doc, "total", S)
                     = StandsFor(old, "total", S)
                         + Value(x, {"receivables"}, {"issue", "reversal"}, S)
                /\ StandsFor(doc, "vat", S)
                     = StandsFor(old, "vat", S)
                         - Value(x, {"vatDue"}, {"issue", "reversal"}, S)
    <3>1. /\ StandsFor(doc, "total", S) = IF old.date \in S THEN t ELSE 0
          /\ StandsFor(doc, "vat", S) = IF old.date \in S THEN w ELSE 0
      BY <2>7, <2>8 DEF Amount
    <3>2. /\ Value(x, {"receivables"}, {"issue", "reversal"}, S) = IF old.date \in S THEN t ELSE 0
          /\ Value(x, {"vatDue"}, {"issue", "reversal"}, S) = IF old.date \in S THEN -w ELSE 0
      BY <2>6, <2>8
    <3> QED
      BY <1>10, <2>9, <3>1, <3>2
  <2>11. StandsFor(doc, "paid", Dates)
           = StandsFor(old, "paid", Dates) - Value(x, {"receivables"}, {"payment"}, Dates)
    <3>1. StandsFor(doc, "paid", Dates) = 0
      BY <1>8, <2>7, <2>9 DEF Amount
    <3> QED
      BY <1>10, <2>6, <3>1
  <2>12. Explains(documents[d], doc, x)
    BY <1>1, <2>10, <2>11 DEF Explains
  <2> QED
    BY <1>4, <1>5, <1>9, <1>11, <2>1, <2>4, <2>5, <2>12, Entered
<1> QED
  BY <1>12, <1>13

LEMMA CancelKeeps ==
  ASSUME ReportsInv, NEW d \in DOMAIN documents, Cancel(d)
  PROVE  ReportsInv'
<1>1. PICK old, lines : old = documents[d] /\ lines = Swapped(IssueLines(old))
  OBVIOUS
<1>2. DocumentRowOK(old) /\ old \in Documents /\ old.status = "sent" /\ old.paid = 0
  BY <1>1, DocumentHolds DEF Cancel
<1>3. PICK v \in BOOLEAN : v = old.entered
  BY <1>2 DEF Documents
<1>4. PICK w \in BOOLEAN : w = (v /\ Enterable(old.date, lines))
  OBVIOUS
<1> DEFINE doc == [old EXCEPT !.status = "cancelled"]
           x == Entry("reversal", old.date, lines, "posted")
<1>5. documents' = [documents EXCEPT ![d] = doc]
  BY <1>1 DEF Cancel
<1>6. /\ journal_entries' = IF w THEN Added(x) ELSE journal_entries
      /\ closed' = closed /\ stray' = IF v /\ ~w THEN stray \cup {d} ELSE stray
  BY <1>1, <1>3, <1>4 DEF Cancel
<1>7. doc \in Documents /\ doc.status = "cancelled"
  BY <1>2 DEF Documents, Statuses
<1>8. doc.entered = v
  BY <1>2, <1>3 DEF Documents
<1>9. /\ doc.corrects = old.corrects /\ doc.type = old.type /\ doc.date = old.date
      /\ doc.total = old.total /\ doc.subtotal = old.subtotal /\ doc.vat = old.vat
      /\ doc.paid = 0
  BY <1>2 DEF Documents
<1> HIDE DEF doc
<1>10. old.total \in Nat /\ old.vat \in Nat /\ old.date \in Dates
  BY <1>2 DEF Documents
<1>11. DocumentRowOK(doc)
  BY <1>7, <1>9, <1>10 DEF DocumentRowOK
<1>12. \A of, S : StandsFor(doc, of, S) = 0
  BY <1>7 DEF StandsFor, Counts
<1>13. doc.corrects = documents[d].corrects
  BY <1>1, <1>9
<1>14. doc.entered => EntryOf(doc) \in DOMAIN journal_entries
  <2>1. EntryOf(doc) = EntryOf(old)
    BY <1>9, SameEntry
  <2> QED
    BY <1>1, <1>3, <1>8, <2>1, DocumentHolds
<1>15. CASE ~w
  <2>1. journal_entries' = journal_entries
    BY <1>6, <1>15
  <2>2. stray' \subseteq DOMAIN documents
    BY <1>6 DEF ReportsInv
  <2>3. ASSUME stray' = {}
        PROVE  stray = {} /\ \A of, S : StandsFor(doc, of, S) = StandsFor(documents[d], of, S)
    <3>1. ~v /\ stray = {}
      BY <1>6, <1>15, <2>3
    <3>2. \A of, S : StandsFor(old, of, S) = 0
      BY <1>3, <3>1 DEF StandsFor, Counts
    <3> QED
      BY <1>1, <1>12, <3>1, <3>2
  <2> QED
    BY <1>5, <1>6, <1>11, <1>13, <1>14, <2>1, <2>2, <2>3, Rewritten
<1>16. CASE w
  <2>1. journal_entries' = Added(x) /\ stray' = stray /\ v
    BY <1>4, <1>6, <1>16
  <2>2. /\ LinesOK(lines) /\ NetDebit(lines, {"receivables"}) = -(Sign(old) * old.total)
        /\ NetDebit(lines, {"vatDue"}) = Sign(old) * old.vat
    BY <1>1, <1>2, IssueLinesAre
  <2>3. Balanced(lines)
    BY <1>4, <1>16 DEF Enterable
  <2>4. EntryOK(x)
    BY <1>10, <2>2, <2>3 DEF EntryOK, BookEntries, Entry, Kinds, LinesOK
  <2>5. ASSUME NEW S
        PROVE  /\ Value(x, {"receivables"}, {"issue", "reversal"}, S)
                    = IF old.date \in S THEN -(Sign(old) * old.total) ELSE 0
               /\ Value(x, {"vatDue"}, {"issue", "reversal"}, S)
                    = IF old.date \in S THEN Sign(old) * old.vat ELSE 0
               /\ Value(x, {"receivables"}, {"payment"}, S) = 0
    <3>1. /\ x.kind = "reversal" /\ x.date = old.date /\ x.lines = lines
          /\ x.kind \in {"issue", "reversal"} /\ x.kind \notin {"payment"}
      BY DEF Entry
    <3> HIDE DEF x
    <3> QED
      BY <2>2, <3>1 DEF Value
  <2> HIDE DEF x
  <2>6. ASSUME NEW of, NEW S
        PROVE  StandsFor(old, of, S) = IF old.date \in S THEN Sign(old) * Amount(old, of) ELSE 0
    <3>1. Counts(old, S) <=> old.date \in S
      BY <1>2, <1>3, <2>1 DEF Counts
    <3> QED
      BY <3>1 DEF StandsFor
  <2>7. PICK t, y : t = Sign(old) * old.total /\ y = Sign(old) * old.vat
    OBVIOUS
  <2>8. t \in Int /\ y \in Int /\ Sign(old) * 0 = 0
    BY <1>10, <2>7 DEF Sign
  <2>9. ASSUME NEW S
        PROVE  /\ StandsFor(doc, "total", S)
                    = StandsFor(old, "total", S)
                        + Value(x, {"receivables"}, {"issue", "reversal"}, S)
               /\ StandsFor(doc, "vat", S)
                    = StandsFor(old, "vat", S)
                        - Value(x, {"vatDue"}, {"issue", "reversal"}, S)
    <3>1. /\ StandsFor(old, "total", S) = IF old.date \in S THEN t ELSE 0
          /\ StandsFor(old, "vat", S) = IF old.date \in S THEN y ELSE 0
      BY <2>6, <2>7 DEF Amount
    <3>2. /\ Value(x, {"receivables"}, {"issue", "reversal"}, S) = IF old.date \in S THEN -t ELSE 0
          /\ Value(x, {"vatDue"}, {"issue", "reversal"}, S) = IF old.date \in S THEN y ELSE 0
      BY <2>5, <2>7
    <3> QED
      BY <1>12, <2>8, <3>1, <3>2
  <2>10. StandsFor(doc, "paid", Dates)
           = StandsFor(old, "paid", Dates) - Value(x, {"receivables"}, {"payment"}, Dates)
    <3>1. StandsFor(old, "paid", Dates) = 0
      BY <1>2, <2>6, <2>8 DEF Amount
    <3> QED
      BY <1>12, <2>5, <3>1
  <2>11. Explains(documents[d], doc, x)
    BY <1>1, <2>9, <2>10 DEF Explains
  <2> QED
    BY <1>5, <1>6, <1>11, <1>13, <1>14, <2>1, <2>4, <2>11, Entered
<1> QED
  BY <1>15, <1>16

LEMMA RecordPaymentKeeps ==
  ASSUME ReportsInv, NEW d \in DOMAIN documents, NEW amount \in Nat, NEW date \in Dates,
         RecordPayment(d, amount, date)
  PROVE  ReportsInv'
<1>1. PICK old, lines : old = documents[d] /\ lines = PaymentLines(old, amount)
  OBVIOUS
<1>2. DocumentRowOK(old) /\ old \in Documents /\ old.status = "sent"
  BY <1>1, DocumentHolds DEF RecordPayment
<1>3. PICK v \in BOOLEAN : v = old.entered
  BY <1>2 DEF Documents
<1>4. old.paid \in Nat /\ old.total \in Nat /\ old.payments \in Nat
  BY <1>2 DEF Documents
<1>5. PICK paid \in Nat, rows \in Nat : paid = old.paid + amount /\ rows = old.payments + 1
  BY <1>4
<1>6. PICK status : status = IF paid = old.total THEN "paid" ELSE "sent"
  OBVIOUS
<1> DEFINE doc == [old EXCEPT !.paid = paid, !.payments = rows, !.status = status]
           x == Entry("payment", date, lines, "posted")
<1>7. documents' = [documents EXCEPT ![d] = doc]
  BY <1>1, <1>2, <1>5, <1>6 DEF RecordPayment
<1>8. /\ journal_entries' = IF v THEN Added(x) ELSE journal_entries
      /\ closed' = closed /\ stray' = stray
      /\ v => Balanced(lines)
      /\ amount <= old.total - old.paid
  BY <1>1, <1>3 DEF RecordPayment, Enterable, PaymentLines
<1>9. status \in {"paid", "sent"} /\ status \in Statuses
  BY <1>6 DEF Statuses
<1>10. doc \in Documents /\ doc.status = status /\ doc.paid = paid
  BY <1>2, <1>9 DEF Documents
<1>11. doc.entered = v
  BY <1>2, <1>3 DEF Documents
<1>12. /\ doc.corrects = old.corrects /\ doc.type = old.type /\ doc.date = old.date
       /\ doc.total = old.total /\ doc.subtotal = old.subtotal /\ doc.vat = old.vat
  BY <1>2 DEF Documents
<1> HIDE DEF doc
<1>13. paid <= old.total
  BY <1>4, <1>5, <1>8
<1>14. DocumentRowOK(doc)
  <2>1. doc.status \in {"paid", "archived"} => doc.paid = doc.total
    BY <1>6, <1>9, <1>10, <1>12
  <2> QED
    BY <1>9, <1>10, <1>12, <1>13, <2>1 DEF DocumentRowOK
<1>15. doc.entered => EntryOf(doc) \in DOMAIN journal_entries
  <2>1. EntryOf(doc) = EntryOf(old)
    BY <1>12, SameEntry
  <2> QED
    BY <1>1, <1>3, <1>11, <2>1, DocumentHolds
<1>16. doc.corrects = documents[d].corrects
  BY <1>1, <1>12
<1>17. CASE ~v
  <2>1. \A of, S : StandsFor(doc, of, S) = StandsFor(documents[d], of, S)
    BY <1>1, <1>3, <1>11, <1>17 DEF StandsFor, Counts
  <2>2. journal_entries' = journal_entries
    BY <1>8, <1>17
  <2>3. stray' \subseteq DOMAIN documents
    BY <1>8 DEF ReportsInv
  <2> QED
    BY <1>7, <1>8, <1>14, <1>15, <1>16, <2>1, <2>2, <2>3, Rewritten
<1>18. CASE v
  <2>1. journal_entries' = Added(x)
    BY <1>8, <1>18
  <2>2. /\ LinesOK(lines) /\ \A l \in lines : l.account \in {"bank", "receivables"}
        /\ NetDebit(lines, {"receivables"}) = -(Sign(old) * amount)
    BY <1>1, PaymentLinesAre
  <2>3. EntryOK(x)
    <3>1. Balanced(lines)
      BY <1>8, <1>18
    <3> QED
      BY <2>2, <3>1 DEF EntryOK, BookEntries, Entry, Kinds, LinesOK
  <2>4. /\ \A A, S : Value(x, A, {"issue", "reversal"}, S) = 0
        /\ Value(x, {"receivables"}, {"payment"}, Dates) = -(Sign(old) * amount)
    <3>1. /\ x.kind = "payment" /\ x.date = date /\ x.lines = lines
          /\ x.kind \notin {"issue", "reversal"} /\ x.kind \in {"payment"}
      BY DEF Entry
    <3> HIDE DEF x
    <3> QED
      BY <2>2, <3>1 DEF Value
  <2> HIDE DEF x
  <2>5. ASSUME NEW S
        PROVE  Counts(doc, S) <=> Counts(old, S)
    BY <1>2, <1>3, <1>9, <1>10, <1>11, <1>12, <1>18 DEF Counts
  <2>6. Sign(doc) = Sign(old)
    BY <1>12 DEF Sign
  <2>7. ASSUME NEW S
        PROVE  /\ StandsFor(doc, "total", S)
                    = StandsFor(old, "total", S) + Value(x, {"receivables"}, {"issue", "reversal"}, S)
               /\ StandsFor(doc, "vat", S)
                    = StandsFor(old, "vat", S) - Value(x, {"vatDue"}, {"issue", "reversal"}, S)
    <3>1. /\ StandsFor(doc, "total", S) = StandsFor(old, "total", S)
          /\ StandsFor(doc, "vat", S) = StandsFor(old, "vat", S)
      BY <1>12, <2>5, <2>6 DEF StandsFor, Amount
    <3>2. StandsFor(old, "total", S) \in Int /\ StandsFor(old, "vat", S) \in Int
      BY <1>2, StandingType
    <3> QED
      BY <2>4, <3>1, <3>2
  <2>8. StandsFor(doc, "paid", Dates)
           = StandsFor(old, "paid", Dates) - Value(x, {"receivables"}, {"payment"}, Dates)
    <3>1. old.date \in Dates
      BY <1>2 DEF Documents
    <3>2. Counts(old, Dates) /\ Counts(doc, Dates)
      BY <1>2, <1>3, <1>18, <2>5, <3>1 DEF Counts
    <3>3. /\ StandsFor(doc, "paid", Dates) = Sign(old) * (old.paid + amount)
          /\ StandsFor(old, "paid", Dates) = Sign(old) * old.paid
      BY <1>5, <1>10, <2>6, <3>2 DEF StandsFor, Amount
    <3>4. PICK n, p : n = Sign(old) /\ p = old.paid
      OBVIOUS
    <3>5. n \in {-1, 1} /\ p \in Int
      BY <1>4, <3>4 DEF Sign
    <3>6. n * (p + amount) = n * p - (-(n * amount))
      BY <3>5
    <3> QED
      BY <2>4, <3>3, <3>4, <3>6
  <2>9. Explains(documents[d], doc, x)
    BY <1>1, <2>7, <2>8 DEF Explains
  <2> QED
    BY <1>7, <1>8, <1>14, <1>15, <1>16, <2>1, <2>3, <2>9, Entered
<1> QED
  BY <1>17, <1>18

LEMMA MarkPaidKeeps ==
  ASSUME ReportsInv, NEW d \in DOMAIN documents, NEW date \in Dates, MarkPaid(d, date)
  PROVE  ReportsInv'
<1>1. CASE RecordPayment(d, documents[d].total - documents[d].paid, date)
  <2>1. PICK amount : amount = documents[d].total - documents[d].paid
    OBVIOUS
  <2>2. documents[d].paid \in Nat /\ documents[d].total \in Nat
    BY DocumentHolds DEF Documents
  <2>3. RecordPayment(d, amount, date)
    BY <1>1, <2>1
  <2>4. amount > 0 /\ amount \in Int
    BY <2>1, <2>2, <2>3 DEF RecordPayment
  <2>5. amount \in Nat
    BY <2>4
  <2> QED
    BY <2>3, <2>5, RecordPaymentKeeps
<1>2. CASE /\ documents[d].status = "sent" /\ documents[d].paid = documents[d].total
           /\ documents' = [documents EXCEPT ![d].status = "paid"]
           /\ UNCHANGED <<journal_entries, closed, stray>>
  BY <1>2, MarkedKeeps
<1> QED
  BY <1>1, <1>2 DEF MarkPaid

LEMMA CreateDocumentKeeps ==
  ASSUME ReportsInv, NEW type \in {"invoice", "credit_note"}, NEW sale \in Sales,
         NEW date \in Dates, NEW due \in Nat,
         CreateDocument(type, sale, date, due) \/ InvoiceQuote(sale, date, due)
  PROVE  ReportsInv'
<1>1. CASE CreateDocument(type, sale, date, due)
  <2>1. PICK y \in YearEnds \cup {NoYear}, n \in {0} \cup DOMAIN documents : y = YearOf(date) /\ n = 0
    BY YearOfType
  <2>2. AddDocument(type, n, sale, date, due, y)
    BY <1>1, <2>1 DEF CreateDocument
  <2> QED
    BY <2>2, AddDocumentKeeps
<1>2. CASE InvoiceQuote(sale, date, due)
  <2>1. PICK y \in YearEnds \cup {NoYear}, n \in {0} \cup DOMAIN documents,
             t \in {"invoice", "credit_note"} : y = NoYear /\ n = 0 /\ t = "invoice"
    OBVIOUS
  <2>2. AddDocument(t, n, sale, date, due, y)
    BY <1>2, <2>1 DEF InvoiceQuote
  <2> QED
    BY <2>2, AddDocumentKeeps
<1> QED
  BY <1>1, <1>2

LEMMA CreditInvoiceKeeps ==
  ASSUME ReportsInv, NEW d \in DOMAIN documents, NEW sale \in Sales, NEW date \in Dates,
         CreditInvoice(d, sale, date)
  PROVE  ReportsInv'
<1>1. PICK y \in YearEnds \cup {NoYear}, n \in {0} \cup DOMAIN documents,
           t \in {"invoice", "credit_note"} : y = NoYear /\ n = d /\ t = "credit_note"
  OBVIOUS
<1>2. date \in Nat
  BY DateType
<1>3. AddDocument(t, n, sale, date, date, y)
  BY <1>1 DEF CreditInvoice
<1> QED
  BY <1>2, <1>3, AddDocumentKeeps

-----------------------------------------------------------------------------
(* Theorems *)

LEMMA ReportsInitHolds ==
  ASSUME ReportsInit
  PROVE  ReportsInv
<1>1. PICK B, D : B = journal_entries /\ D = documents
  OBVIOUS
<1>2. B = EmptyBag /\ D = <<>>
  BY <1>1 DEF ReportsInit
<1>3. DOMAIN B = {} /\ IsABag(B)
  <2>1. B = [e \in {} |-> 1] \/ DOMAIN B = {}
    BY <1>2 DEF EmptyBag, SetToBag
  <2>2. DOMAIN B = {}
    BY <2>1
  <2>3. B = [e \in DOMAIN B |-> B[e]]
    BY <1>2 DEF EmptyBag, SetToBag
  <2> QED
    BY <2>2, <2>3 DEF IsABag
<1>4. JournalOK(B)
  BY <1>3, FS_EmptySet DEF JournalOK
<1>5. DOMAIN D = {} /\ DocumentsOK(D, B)
  BY <1>2 DEF DocumentsOK
<1>6. Books(B, D)
  <2>1. PICK n \in Int : n = 0
    OBVIOUS
  <2>2. ASSUME NEW f
        PROVE  SumFunctionOnSet(f, DOMAIN B) = n /\ SumFunctionOnSet(f, DOMAIN D) = n
    BY <1>3, <1>5, <2>1, SumNone
  <2>3. -n = n
    BY <2>1, MinusNone
  <2> QED
    BY <2>2, <2>3 DEF Books, Put, Stood
<1> QED
  BY <1>1, <1>4, <1>5, <1>6 DEF ReportsInit, ReportsInv

LEMMA ReportsStep ==
  ASSUME ReportsInv, [ReportsNext]_reportsVars
  PROVE  ReportsInv'
<1>1. ASSUME NEW date \in Dates, NEW lines \in ByHand, CreateByHand(date, lines)
      PROVE  ReportsInv'
  BY <1>1, CreateByHandKeeps
<1>2. ASSUME NEW e \in DOMAIN journal_entries, PostByHand(e)
      PROVE  ReportsInv'
  BY <1>2, PostByHandKeeps
<1>3. ASSUME NEW y \in YearEnds, CloseYear(y)
      PROVE  ReportsInv'
  BY <1>3, CloseYearKeeps
<1>4. ASSUME NEW type \in {"invoice", "credit_note"}, NEW sale \in Sales, NEW date \in Dates,
             NEW due \in Dues, CreateDocument(type, sale, date, due) \/ InvoiceQuote(sale, date, due)
      PROVE  ReportsInv'
  <2>1. due \in Nat
    BY ReportsAssumption
  <2> QED
    BY <1>4, <2>1, CreateDocumentKeeps
<1>5. ASSUME NEW d \in DOMAIN documents, NEW sale \in Sales, NEW date \in Dates,
             CreditInvoice(d, sale, date)
      PROVE  ReportsInv'
  BY <1>5, CreditInvoiceKeeps
<1>6. ASSUME NEW d \in DOMAIN documents, NEW sale \in Sales, NEW date \in Dates,
             NEW due \in Dues, UpdateInvoice(d, sale, date, due)
      PROVE  ReportsInv'
  <2>1. due \in Nat
    BY ReportsAssumption
  <2> QED
    BY <1>6, <2>1, UpdateInvoiceKeeps
<1>7. ASSUME NEW d \in DOMAIN documents, NEW date \in Dates, NEW amount \in Parts,
             RecordPayment(d, amount, date)
      PROVE  ReportsInv'
  <2>1. amount \in Nat
    BY ReportsAssumption
  <2> QED
    BY <1>7, <2>1, RecordPaymentKeeps
<1>8. ASSUME NEW d \in DOMAIN documents, NEW date \in Dates, MarkPaid(d, date)
      PROVE  ReportsInv'
  BY <1>8, MarkPaidKeeps
<1>9. ASSUME NEW d \in DOMAIN documents,
             (\E autoPost \in BOOLEAN : SendDocument(d, autoPost)) \/ Cancel(d) \/ Reopen(d) \/ Archive(d)
      PROVE  ReportsInv'
  <2>1. ASSUME NEW autoPost \in BOOLEAN, SendDocument(d, autoPost)
        PROVE  ReportsInv'
    BY <2>1, SendDocumentKeeps
  <2> QED
    BY <1>9, <2>1, CancelKeeps, ReopenKeeps, ArchiveKeeps
<1>10. CASE BackfillFiscalYears
  BY <1>10, BackfillKeeps
<1>11. CASE UNCHANGED reportsVars
  BY <1>11 DEF reportsVars, ReportsInv
<1>12. CASE ReportsNext
  <2>1. PICK type \in {"invoice", "credit_note"} : type = "invoice"
    OBVIOUS
  <2>2. ASSUME NEW sale \in Sales, NEW date \in Dates, NEW due \in Dues,
               InvoiceQuote(sale, date, due)
        PROVE  ReportsInv'
    BY <1>4, <2>1, <2>2
  <2> QED
    BY <1>1, <1>2, <1>3, <1>4, <1>5, <1>6, <1>7, <1>8, <1>9, <1>10, <1>12, <2>2 DEF ReportsNext
<1> QED
  BY <1>11, <1>12

\* What the reports are proved from: what documents put on the journal is what
\* those in force bill.
THEOREM ReportsInvariant == ReportsSpec => []ReportsInv
<1>1. ReportsInit => ReportsInv
  BY ReportsInitHolds
<1>2. ReportsInv /\ [ReportsNext]_reportsVars => ReportsInv'
  BY ReportsStep
<1> QED
  BY <1>1, <1>2, PTL DEF ReportsSpec

\* The tables hold what their columns allow.
THEOREM ReportsTypes == ReportsSpec => []ReportsTypeOK
<1>1. ReportsInv => ReportsTypeOK
  <2> SUFFICES ASSUME ReportsInv
               PROVE  ReportsTypeOK
    OBVIOUS
  <2>1. IsABag(journal_entries) /\ closed \subseteq YearEnds /\ stray \subseteq DOMAIN documents
    BY DEF ReportsInv, JournalOK
  <2>2. ASSUME NEW e \in DOMAIN journal_entries
        PROVE  /\ e.date \in Dates /\ e.status \in {"draft", "posted"}
               /\ \A l \in e.lines : l.account \in Accounts /\ l.debit >= 0 /\ l.credit >= 0
    <3>1. EntryOK(e)
      BY JournalType DEF ReportsInv
    <3>2. \A l \in e.lines : l.account \in Accounts /\ l.debit \in Nat /\ l.credit \in Nat
      BY <3>1, EntryType DEF LinesOK, Line
    <3> QED
      BY <3>1, <3>2, EntryType
  <2>3. ASSUME NEW d \in DOMAIN documents
        PROVE  /\ documents[d].paid \in 0..documents[d].total
               /\ documents[d].entered => documents[d].status # "draft"
               /\ documents[d].year \in YearEnds \cup {NoYear}
               /\ documents[d].corrects \in {0} \cup DOMAIN documents
    <3>1. PICK doc : doc = documents[d]
      OBVIOUS
    <3>2. DocumentRowOK(doc) /\ doc \in Documents /\ doc.corrects \in {0} \cup DOMAIN documents
      BY <3>1, DocumentHolds DEF ReportsInv, DocumentsOK
    <3>3. doc.paid \in Nat /\ doc.total \in Nat /\ doc.year \in YearEnds \cup {NoYear}
      BY <3>2 DEF Documents
    <3>4. doc.paid <= doc.total /\ (doc.entered => doc.status # "draft")
      BY <3>2 DEF DocumentRowOK
    <3> QED
      BY <3>1, <3>2, <3>3, <3>4
  <2> QED
    BY <2>1, <2>2, <2>3 DEF ReportsTypeOK
<1> QED
  BY <1>1, ReportsInvariant, PTL

\* The simplified accounts are established whatever was entered.
THEOREM CarnetExplainedTheorem == ReportsSpec => []CarnetExplained
<1>1. ReportsInv => CarnetExplained
  BY CarnetHolds DEF ReportsInv
<1> QED
  BY <1>1, ReportsInvariant, PTL

\* Balance sheet, income statement, trial balance, net assets and exports agree
\* with one another as long as no entry is out of balance.
THEOREM SheetExplainedTheorem == ReportsSpec => []SheetExplained
<1>1. ReportsInv => SheetExplained
  BY SheetHolds DEF ReportsInv
<1> QED
  BY <1>1, ReportsInvariant, PTL

\* What the reports say of the documents is what the journal says of them.
THEOREM DocumentsExplainedTheorem == ReportsSpec => []DocumentsExplained
<1>1. ReportsInv => DocumentsExplained
  <2> SUFFICES ASSUME ReportsInv
               PROVE  DocumentsExplained
    OBVIOUS
  <2>1. DocumentsOK(documents, journal_entries) /\ JournalOK(journal_entries)
    BY DEF ReportsInv
  <2>2. TableOK
    BY <2>1, TableHolds DEF TableOK, TableIs
  <2>3. DashboardExplained
    BY <2>2, DashboardHolds
  <2>4. ASSUME stray = {}
        PROVE  OwedExplained /\ BilledExplained
    <3>1. Books(journal_entries, documents)
      BY <2>4 DEF ReportsInv
    <3> QED
      BY <2>1, <3>1, OwedHolds, BilledHolds
  <2> QED
    BY <2>3, <2>4 DEF DocumentsExplained
<1> QED
  BY <1>1, ReportsInvariant, PTL

=============================================================================
