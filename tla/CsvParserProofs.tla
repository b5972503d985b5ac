-------------------------- MODULE CsvParserProofs ---------------------------
(***************************************************************************)
(* A sheet of any number of platforms survives the import: RowsSurvive.    *)
(*                                                                         *)
(* Sequences come first - pieces joined, the places of some elements one   *)
(* after the other, what is kept of a sequence.  Then the parser along its *)
(* own order: a line read character by character gives the cells it was    *)
(* written from, the header and the sub-header give the platforms and      *)
(* their columns, a price its digits in each of the styles, a name what is *)
(* before its note, and the row the products.                              *)
(***************************************************************************)
EXTENDS CsvParser, Integers, FiniteSetTheorems, SequenceTheorems,
        WellFoundedInduction, TLAPS

-----------------------------------------------------------------------------
(* The state.                                                              *)

(* Adding a column keeps the types.                                        *)
LEMMA SheetGrows ==
  ASSUME CsvParserTypeOK, [CsvParserNext]_csvParserVars
  PROVE  CsvParserTypeOK'
<1> DEFINE Column == [heading : Headings, product : Product \cup {NoProduct}]
<1>1. ASSUME NEW h \in Headings, NEW p \in Product \cup {NoProduct}, AddColumn(h, p)
      PROVE  CsvParserTypeOK'
  <2>1. [heading |-> h, product |-> p] \in Column  OBVIOUS
  <2>2. sheet \in Seq(Column)  BY DEF CsvParserTypeOK
  <2> HIDE DEF Column
  <2>3. sheet' \in Seq(Column) /\ layout' = layout
    BY <1>1, <2>1, <2>2 DEF AddColumn
  <2> QED BY <2>3 DEF Column, CsvParserTypeOK
<1>2. CASE CsvParserNext
  <2>1. PICK h \in Headings :
          AddColumn(h, NoProduct) \/ \E p \in Products : AddColumn(h, p)
    BY <1>2 DEF CsvParserNext
  <2> QED BY <1>1, <2>1, CsvParserAssumption
<1>3. CASE UNCHANGED csvParserVars  BY <1>3 DEF csvParserVars, CsvParserTypeOK
<1> QED BY <1>2, <1>3

(* A sheet, however many columns it has, holds headings and products of    *)
(* the kinds the parser is described with.                                 *)
THEOREM CsvParserTypeCorrect == CsvParserSpec => []CsvParserTypeOK
<1>1. CsvParserInit => CsvParserTypeOK  BY DEF CsvParserInit, CsvParserTypeOK
<1> QED BY <1>1, SheetGrows, PTL DEF CsvParserSpec

-----------------------------------------------------------------------------
(* Sequences: pieces, places, and a line of cells.                         *)

(* Induction up to n, for a set P of numbers.                              *)
LEMMA UpTo ==
  ASSUME NEW n \in Nat, NEW P, 0 \in P, \A m \in 0 .. n - 1 : m \in P => m + 1 \in P
  PROVE  \A m \in 0 .. n : m \in P
<1> DEFINE Gaps == {m \in 0 .. n : m \notin P}
           R == OpToRel(<, Nat)
<1>1. IsWellFoundedOn(R, Nat)  BY NatLessThanWellFounded
<1> HIDE DEF R
<1>2. Gaps = {}
  <2> SUFFICES ASSUME Gaps # {} PROVE FALSE  OBVIOUS
  <2>1. Gaps \in SUBSET Nat  OBVIOUS
  <2> HIDE DEF Gaps
  <2>2. PICK m \in Gaps : \A k \in Gaps : ~ (<<k, m>> \in R)  BY <1>1, <2>1, WFMin
  <2>3. \A k \in Gaps : ~ (k < m)  BY <2>1, <2>2 DEF R, OpToRel
  <2> USE DEF Gaps
  <2>4. m \in 1 .. n  OBVIOUS
  <2>5. m - 1 \in P  BY <2>3, <2>4
  <2> QED BY <2>4, <2>5
<1> QED BY <1>2

-----------------------------------------------------------------------------
(* Flattening.                                                             *)

IsFlattening(s, g) ==
  g = [i \in 1 .. Len(s) |-> IF i = 1 THEN s[i] ELSE g[i - 1] \o s[i]]

(* What the definition of FlattenSeq chooses.                              *)
LEMMA FlattenIsAFlattening ==
  ASSUME NEW s, Len(s) # 0
  PROVE  FlattenSeq(s) = (CHOOSE g : IsFlattening(s, g))[Len(s)]
<1>1. FlattenSeq(s) =
        LET flatten[i \in 1 .. Len(s)] == IF i = 1 THEN s[i] ELSE flatten[i - 1] \o s[i]
        IN  flatten[Len(s)]
  BY DEF FlattenSeq
<1> QED BY <1>1 DEF IsFlattening

(* There is something to choose.                                           *)
LEMMA FlatteningExists ==
  ASSUME NEW s, Len(s) \in Nat
  PROVE  \E g : IsFlattening(s, g)
<1> DEFINE Goes(g, m) == g = [i \in 1 .. m |-> IF i = 1 THEN s[i] ELSE g[i - 1] \o s[i]]
           P == {m \in 0 .. Len(s) : \E g : Goes(g, m)}
<1>1. 0 \in P
  <2>1. \E g : Goes(g, 0)
    <3>1. Goes(<<>>, 0)  OBVIOUS
    <3> HIDE DEF Goes
    <3> QED BY <3>1
  <2> HIDE DEF Goes
  <2> QED BY <2>1
<1>2. ASSUME NEW m \in 0 .. Len(s) - 1, m \in P PROVE m + 1 \in P
  <2>1. PICK g : Goes(g, m)  BY <1>2
  <2> DEFINE h == [i \in 1 .. m + 1 |-> IF i \in 1 .. m THEN g[i] ELSE IF i = 1 THEN s[i] ELSE g[i - 1] \o s[i]]
  <2>2. \A i \in 1 .. m + 1 : h[i] = IF i = 1 THEN s[i] ELSE h[i - 1] \o s[i]
    <3> SUFFICES ASSUME NEW i \in 1 .. m + 1 PROVE h[i] = IF i = 1 THEN s[i] ELSE h[i - 1] \o s[i]
      OBVIOUS
    <3>1. CASE i \in 1 .. m
      <4>1. g[i] = IF i = 1 THEN s[i] ELSE g[i - 1] \o s[i]  BY <2>1, <3>1
      <4>2. i # 1 => h[i - 1] = g[i - 1]  BY <3>1
      <4> QED BY <3>1, <4>1, <4>2
    <3>2. CASE i = m + 1
      <4>1. i # 1 => h[i - 1] = g[i - 1]  BY <3>2
      <4> QED BY <3>2, <4>1
    <3> QED BY <3>1, <3>2
  <2>3. Goes(h, m + 1)
    <3>1. h = [i \in 1 .. m + 1 |-> h[i]]  OBVIOUS
    <3> HIDE DEF h
    <3> QED BY <2>2, <3>1
  <2> HIDE DEF Goes
  <2> QED BY <2>3
<1>3. \A m \in 0 .. Len(s) : m \in P
  <2> HIDE DEF P
  <2> QED BY <1>1, <1>2, UpTo
<1>4. \E g : Goes(g, Len(s))
  <2> HIDE DEF Goes
  <2> QED BY <1>3
<1> QED BY <1>4 DEF IsFlattening

(* p is in s, from behind place lo on.                                     *)
IsAt(p, s, lo) ==
  /\ lo \in Nat /\ Len(s) \in Nat /\ Len(p) \in Nat /\ lo + Len(p) <= Len(s)
  /\ \A j \in 1 .. Len(p) : s[lo + j] = p[j]

(* Two sequences joined: each is found at its place.                       *)
LEMMA Joined ==
  ASSUME NEW T, NEW a \in Seq(T), NEW b \in Seq(T)
  PROVE  /\ a \o b \in Seq(T) /\ Len(a \o b) = Len(a) + Len(b)
         /\ IsAt(a, a \o b, 0) /\ IsAt(b, a \o b, Len(a))
<1>1. a \o b \in Seq(T) /\ Len(a) \in Nat /\ Len(b) \in Nat /\ Len(a \o b) = Len(a) + Len(b)
  OBVIOUS
<1>2. \A k \in 1 .. Len(a) : (a \o b)[0 + k] = a[k]  OBVIOUS
<1>3. ASSUME NEW j \in 1 .. Len(b) PROVE (a \o b)[Len(a) + j] = b[j]
  <2>1. Len(a) + j \in 1 .. Len(a) + Len(b) /\ (Len(a) + j) - Len(a) = j /\ ~ (Len(a) + j <= Len(a))
    BY <1>1
  <2>2. (a \o b)[Len(a) + j] = IF Len(a) + j <= Len(a) THEN a[Len(a) + j] ELSE b[(Len(a) + j) - Len(a)]
    BY <2>1, ConcatProperties
  <2> QED BY <2>1, <2>2
<1> QED BY <1>1, <1>2, <1>3 DEF IsAt

(* Places add up.                                                          *)
LEMMA StaysAt ==
  ASSUME NEW p, NEW s, NEW lo, IsAt(p, s, lo), NEW t, NEW b, IsAt(s, t, b)
  PROVE  IsAt(p, t, b + lo)
<1>1. b \in Nat /\ lo \in Nat /\ b + lo \in Nat /\ Len(t) \in Nat /\ Len(p) \in Nat /\ Len(s) \in Nat
      /\ b + lo + Len(p) <= Len(t)
  BY DEF IsAt
<1>2. ASSUME NEW j \in 1 .. Len(p) PROVE t[(b + lo) + j] = p[j]
  <2>1. lo + j \in 1 .. Len(s) /\ (b + lo) + j = b + (lo + j)  BY DEF IsAt
  <2>2. t[b + (lo + j)] = s[lo + j] /\ s[lo + j] = p[j]  BY <2>1 DEF IsAt
  <2> QED BY <2>1, <2>2
<1> QED BY <1>1, <1>2 DEF IsAt

(* The flattenings of the beginnings of s.                                 *)
Beginnings(T, s, r) ==
  /\ r \in [0 .. Len(s) -> Seq(T)]
  /\ r[0] = <<>>
  /\ \A m \in 0 .. Len(s) - 1 : r[m + 1] = r[m] \o s[m + 1]
  /\ FlattenSeq(s) = r[Len(s)]

(* The flattening of s has a beginning for each number of pieces.          *)
LEMMA Flattening ==
  ASSUME NEW T, NEW s \in Seq(Seq(T))
  PROVE  \E r : Beginnings(T, s, r)
<1>0. Len(s) \in Nat /\ \A i \in 1 .. Len(s) : s[i] \in Seq(T)  OBVIOUS
<1>1. CASE Len(s) = 0
  <2>1. s = <<>>  BY <1>1
  <2>2. FlattenSeq(s) = <<>>  BY <1>1, <2>1 DEF FlattenSeq
  <2>3. Beginnings(T, s, [i \in 0 .. Len(s) |-> <<>>])  BY <1>1, <2>2 DEF Beginnings
  <2> QED BY <2>3
<1>2. CASE Len(s) # 0
  <2>1. PICK g : IsFlattening(s, g) /\ FlattenSeq(s) = g[Len(s)]
    BY <1>0, <1>2, FlattenIsAFlattening, FlatteningExists
  <2>2. \A i \in 1 .. Len(s) : g[i] = IF i = 1 THEN s[i] ELSE g[i - 1] \o s[i]
    BY <2>1 DEF IsFlattening
  <2> DEFINE r == [i \in 0 .. Len(s) |-> IF i = 0 THEN <<>> ELSE g[i]]
             P == {m \in 0 .. Len(s) : r[m] \in Seq(T)}
  <2>3. \A i \in 1 .. Len(s) : s[i] = <<>> \o s[i]  BY <1>0
  <2>4. ASSUME NEW m \in 0 .. Len(s) - 1 PROVE r[m + 1] = r[m] \o s[m + 1]
    <3>1. m + 1 \in 1 .. Len(s) /\ (m + 1) - 1 = m  BY <1>0
    <3>2. r[m + 1] = g[m + 1] /\ (m # 0 => r[m] = g[m]) /\ (m = 0 => r[m] = <<>>)
      BY <3>1
    <3>3. g[m + 1] = IF m + 1 = 1 THEN s[m + 1] ELSE g[m] \o s[m + 1]  BY <2>2, <3>1
    <3>4. s[m + 1] = <<>> \o s[m + 1]  BY <2>3, <3>1
    <3> HIDE DEF r
    <3>5. CASE m = 0
      <4>1. m + 1 = 1  BY <3>5
      <4>2. r[m + 1] = s[m + 1] /\ r[m] = <<>>  BY <3>2, <3>3, <3>5, <4>1
      <4> QED BY <3>4, <4>2
    <3>6. CASE m # 0
      <4>1. m + 1 # 1  BY <3>6
      <4> QED BY <3>2, <3>3, <3>6, <4>1
    <3> QED BY <3>5, <3>6
  <2>5. r[0] = <<>> /\ r[Len(s)] = g[Len(s)] /\ r = [i \in 0 .. Len(s) |-> r[i]]
    BY <1>0, <1>2
  <2> HIDE DEF r
  <2>6. 0 \in P
    <3>1. r[0] \in Seq(T)  BY <2>5
    <3> QED BY <1>0, <3>1
  <2>7. ASSUME NEW m \in 0 .. Len(s) - 1, m \in P PROVE m + 1 \in P
    <3>1. r[m] \in Seq(T) /\ s[m + 1] \in Seq(T) /\ m + 1 \in 0 .. Len(s)
      BY <1>0, <2>7
    <3>2. r[m + 1] = r[m] \o s[m + 1]  BY <2>4
    <3>3. r[m] \o s[m + 1] \in Seq(T)  BY <3>1, Joined
    <3> QED BY <3>1, <3>2, <3>3
  <2>8. \A m \in 0 .. Len(s) : m \in P
    <3> HIDE DEF P
    <3> QED BY <1>0, <2>6, <2>7, UpTo
  <2>9. r \in [0 .. Len(s) -> Seq(T)]  BY <2>5, <2>8
  <2> QED BY <2>1, <2>4, <2>5, <2>9 DEF Beginnings
<1> QED BY <1>1, <1>2

(* Where the pieces of s are in its beginnings, and in its flattening.     *)
LEMMA NextPiece ==
  ASSUME NEW T, NEW s \in Seq(Seq(T)), NEW r, Beginnings(T, s, r), NEW m \in 0 .. Len(s) - 1
  PROVE  /\ r[m] \in Seq(T) /\ s[m + 1] \in Seq(T) /\ r[m + 1] = r[m] \o s[m + 1]
         /\ Len(r[m]) \in Nat /\ Len(s[m + 1]) \in Nat
         /\ Len(r[m + 1]) = Len(r[m]) + Len(s[m + 1])
         /\ IsAt(r[m], r[m + 1], 0) /\ IsAt(s[m + 1], r[m + 1], Len(r[m]))
<1> DEFINE a == r[m]  b == s[m + 1]  c == r[m + 1]
<1>1. Len(s) \in Nat  OBVIOUS
<1>2. m \in 0 .. Len(s) /\ m + 1 \in 1 .. Len(s)  BY <1>1
<1>3. r \in [0 .. Len(s) -> Seq(T)]  BY DEF Beginnings
<1>4. a \in Seq(T)  BY <1>2, <1>3
<1>5. b \in Seq(T)  BY <1>2
<1>6. c = a \o b  BY DEF Beginnings
<1>7. SUFFICES /\ a \in Seq(T) /\ b \in Seq(T) /\ c = a \o b
               /\ Len(a) \in Nat /\ Len(b) \in Nat /\ Len(c) = Len(a) + Len(b)
               /\ IsAt(a, c, 0) /\ IsAt(b, c, Len(a))
  OBVIOUS
<1> HIDE DEF a, b, c
<1>8. Len(a) \in Nat /\ Len(b) \in Nat  BY <1>4, <1>5
<1> QED BY <1>4, <1>5, <1>6, <1>8, Joined

(* Each piece is found behind those before it.                             *)
LEMMA Pieces ==
  ASSUME NEW T, NEW s \in Seq(Seq(T)), NEW r, Beginnings(T, s, r), NEW m \in 0 .. Len(s) - 1
  PROVE  IsAt(s[m + 1], FlattenSeq(s), Len(r[m]))
<1> DEFINE lo == Len(r[m])  p == s[m + 1]
           P == {k \in 0 .. Len(s) : m + 1 <= k => IsAt(p, r[k], lo)}
<1>0. Len(s) \in Nat /\ m \in Nat  OBVIOUS
<1>a. IsAt(p, r[m + 1], lo) /\ lo \in Nat  BY NextPiece
<1> HIDE DEF lo, p
<1>1. 0 \in P  BY <1>0
<1>2. ASSUME NEW k \in 0 .. Len(s) - 1, k \in P PROVE k + 1 \in P
  <2>1. CASE m = k  BY <1>0, <1>a, <2>1
  <2>2. CASE m + 1 <= k
    <3>1. IsAt(p, r[k], lo)  BY <1>2, <2>2
    <3>2. IsAt(r[k], r[k + 1], 0)  BY NextPiece
    <3>3. IsAt(p, r[k + 1], 0 + lo)  BY <3>1, <3>2, StaysAt
    <3>4. 0 + lo = lo  BY <1>a
    <3> QED BY <1>0, <3>3, <3>4
  <2>3. CASE k < m  BY <1>0, <2>3
  <2> QED BY <1>0, <2>1, <2>2, <2>3
<1>3. \A k \in 0 .. Len(s) : k \in P
  <2> HIDE DEF P
  <2> QED BY <1>0, <1>1, <1>2, UpTo
<1>4. Len(s) \in 0 .. Len(s) /\ m + 1 <= Len(s)  BY <1>0
<1>5. IsAt(p, r[Len(s)], lo)  BY <1>3, <1>4
<1>6. FlattenSeq(s) = r[Len(s)]  BY DEF Beginnings
<1> QED BY <1>5, <1>6 DEF lo, p

-----------------------------------------------------------------------------
(* Picking.                                                                *)

(* The pieces at the places f are the elements of t, the others empty.     *)
Rises(f) == \A j, k \in DOMAIN f : j < k => f[j] < f[k]
Scattered(t, p, f) ==
  /\ f \in [1 .. Len(t) -> 1 .. Len(p)] /\ Rises(f)
  /\ \A k \in 1 .. Len(t) : p[f[k]] = <<t[k]>>
  /\ \A m \in 1 .. Len(p) : (\A k \in 1 .. Len(t) : f[k] # m) => p[m] = <<>>

(* Pieces that are empty but for single elements give those elements.      *)
LEMMA Gathered ==
  ASSUME NEW T, NEW p \in Seq(Seq(T)), NEW t \in Seq(T), NEW f, Scattered(t, p, f)
  PROVE  FlattenSeq(p) = t
<1> DEFINE n == Len(t)
           Passed(m, c) == \A k \in 1 .. n : f[k] <= m <=> k <= c
<1>c. Len(p) \in Nat /\ n \in Nat  OBVIOUS
<1>d. \A k \in 1 .. n : f[k] \in 1 .. Len(p)
  <2>1. f \in [1 .. n -> 1 .. Len(p)]  BY DEF Scattered
  <2> QED BY <2>1
<1>0. Len(p) \in Nat /\ n \in Nat /\ \A k \in 1 .. n : f[k] \in 1 .. Len(p)
  BY <1>c, <1>d
<1>a. \A j, k \in 1 .. n : j < k => f[j] < f[k]  BY DEF Scattered, Rises
<1>b. PICK r : Beginnings(T, p, r)  BY Flattening
<1> DEFINE P == {m \in 0 .. Len(p) : \E c \in 0 .. n : r[m] = SubSeq(t, 1, c) /\ Passed(m, c)}
<1>1. 0 \in P
  <2>1. r[0] = SubSeq(t, 1, 0)
    <3>1. r[0] = <<>>  BY <1>b DEF Beginnings
    <3>2. SubSeq(t, 1, 0) = <<>>  BY SubSeqEmpty
    <3> QED BY <3>1, <3>2
  <2>2. Passed(0, 0)  BY <1>0
  <2>3. 0 \in 0 .. n /\ 0 \in 0 .. Len(p)  BY <1>0
  <2> HIDE DEF Passed
  <2> QED BY <2>1, <2>2, <2>3
<1>2. ASSUME NEW m \in 0 .. Len(p) - 1, m \in P PROVE m + 1 \in P
  <2>1. PICK c \in 0 .. n : r[m] = SubSeq(t, 1, c) /\ Passed(m, c)  BY <1>2
  <2>2. r[m] \in Seq(T) /\ r[m + 1] = r[m] \o p[m + 1]  BY <1>b, NextPiece
  <2>3. m + 1 \in 1 .. Len(p) /\ m + 1 \in 0 .. Len(p) /\ c \in 0 .. n  BY <1>0
  <2>4. CASE \E k \in 1 .. n : f[k] = m + 1
    <3>1. PICK k \in 1 .. n : f[k] = m + 1  BY <2>4
    <3>2. ~ (k <= c)  BY <1>0, <2>1, <3>1
    <3>3. k = c + 1
      <4>1. CASE k > c + 1
        <5>1. c + 1 \in 1 .. n /\ c + 1 < k  BY <1>0, <2>3, <3>1, <4>1
        <5>2. f[c + 1] < m + 1  BY <1>a, <3>1, <5>1
        <5>3. f[c + 1] <= m  BY <1>0, <5>1, <5>2
        <5>4. c + 1 <= c  BY <2>1, <5>1, <5>3
        <5> QED BY <2>3, <5>4
      <4> QED BY <2>3, <3>2, <4>1
    <3>4. Passed(m + 1, c + 1)
      <4> SUFFICES ASSUME NEW j \in 1 .. n PROVE f[j] <= m + 1 <=> j <= c + 1
        OBVIOUS
      <4>1. f[j] \in Nat /\ f[k] = m + 1  BY <1>0, <3>1
      <4>2. CASE j <= c
        <5>1. f[j] <= m  BY <2>1, <4>2
        <5> QED BY <2>3, <4>1, <4>2, <5>1
      <4>3. CASE j = k  BY <3>3, <4>1, <4>3, <2>3
      <4>4. CASE j > k
        <5>1. f[k] < f[j]  BY <1>a, <4>4
        <5> QED BY <2>3, <3>3, <4>1, <4>4, <5>1
      <4> QED BY <2>3, <3>3, <4>2, <4>3, <4>4
    <3>5. p[m + 1] = <<t[c + 1]>>  BY <3>1, <3>3 DEF Scattered
    <3>6. c + 1 \in 1 .. n /\ c + 1 \in 0 .. n  BY <1>0, <2>3, <3>3
    <3>7. SubSeq(t, 1, c + 1) = SubSeq(t, 1, c) \o <<t[c + 1]>>
      <4>1. SubSeq(t, 1, c + 1) = SubSeq(t, 1, (c + 1) - 1) \o <<t[c + 1]>>
        BY <3>6, SubSeqRecursiveSecond
      <4>2. (c + 1) - 1 = c  BY <2>3
      <4> QED BY <4>1, <4>2
    <3>8. r[m + 1] = SubSeq(t, 1, c + 1)  BY <2>1, <2>2, <3>5, <3>7
    <3> HIDE DEF Passed
    <3> QED BY <2>3, <3>4, <3>6, <3>8
  <2>5. CASE ~ \E k \in 1 .. n : f[k] = m + 1
    <3>1. p[m + 1] = <<>>  BY <2>3, <2>5 DEF Scattered
    <3>2. r[m + 1] = r[m]  BY <2>2, <3>1, ConcatEmptySeq
    <3>3. Passed(m + 1, c)
      <4> SUFFICES ASSUME NEW j \in 1 .. n PROVE f[j] <= m + 1 <=> j <= c  OBVIOUS
      <4>1. f[j] \in Nat /\ f[j] # m + 1 /\ (f[j] <= m <=> j <= c)
        BY <1>0, <2>1, <2>5
      <4> QED BY <2>3, <4>1
    <3> HIDE DEF Passed
    <3> QED BY <2>1, <2>3, <3>2, <3>3
  <2> QED BY <2>4, <2>5
<1>3. \A m \in 0 .. Len(p) : m \in P
  <2> HIDE DEF P
  <2> QED BY <1>0, <1>1, <1>2, UpTo
<1>4. PICK c \in 0 .. n : r[Len(p)] = SubSeq(t, 1, c) /\ Passed(Len(p), c)
  <2>1. Len(p) \in P
    <3> HIDE DEF P
    <3> QED BY <1>0, <1>3
  <2> HIDE DEF Passed
  <2> QED BY <2>1
<1>5. c = n
  <2>1. CASE c < n
    <3>1. n \in 1 .. n /\ f[n] <= Len(p)  BY <1>0, <2>1
    <3>2. n <= c  BY <1>4, <3>1
    <3> QED BY <1>0, <2>1, <3>2
  <2> QED BY <1>0, <2>1
<1>6. SubSeq(t, 1, n) = t  BY SubSeqFull
<1>7. FlattenSeq(p) = r[Len(p)]  BY <1>b DEF Beginnings
<1> QED BY <1>4, <1>5, <1>6, <1>7

(* The places of K one after the other, and what is in s at the places f.  *)
Ranks(f, c, n, K) == f \in [1 .. c -> 1 .. n] /\ Rises(f) /\ K = {f[k] : k \in 1 .. c}
Chooses(s, K, f, c) == c \in Nat /\ Ranks(f, c, Len(s), K \cap (1 .. Len(s)))
Selected(s, f, c) == [k \in 1 .. c |-> s[f[k]]]

(* The members of a set of places have an order.                           *)
LEMMA Ranked ==
  ASSUME NEW n \in Nat, NEW K \in SUBSET (1 .. n)
  PROVE  \E c \in Nat : \E f : Ranks(f, c, n, K)
<1> DEFINE Lists(m, c, f) == /\ f \in [1 .. c -> 1 .. n] /\ Rises(f)
                             /\ K \cap (1 .. m) = {f[k] : k \in 1 .. c}
           P == {m \in 0 .. n : \E c \in Nat : \E f : Lists(m, c, f)}
<1>1. 0 \in P
  <2>1. Lists(0, 0, <<>>)  BY DEF Rises
  <2> HIDE DEF Lists
  <2> QED BY <2>1
<1>2. ASSUME NEW m \in 0 .. n - 1, m \in P PROVE m + 1 \in P
  <2>a. PICK c \in Nat : \E f : Lists(m, c, f)  BY <1>2
  <2>1. PICK f : Lists(m, c, f)  BY <2>a
  <2>2. \A k \in 1 .. c : f[k] \in 1 .. n /\ f[k] <= m  BY <2>1
  <2>3. CASE m + 1 \notin K
    <3>1. K \cap (1 .. m + 1) = K \cap (1 .. m)  BY <2>3
    <3>2. Lists(m + 1, c, f)  BY <2>1, <3>1
    <3> HIDE DEF Lists
    <3> QED BY <3>2
  <2>4. CASE m + 1 \in K
    <3> DEFINE g == [k \in 1 .. c + 1 |-> IF k = c + 1 THEN m + 1 ELSE f[k]]
    <3>1. \A k \in 1 .. c : g[k] = f[k] /\ f[k] \in 1 .. n /\ f[k] < m + 1  BY <2>2
    <3>2. g[c + 1] = m + 1 /\ m + 1 \in 1 .. n /\ DOMAIN g = 1 .. c + 1  OBVIOUS
    <3>3. g \in [1 .. c + 1 -> 1 .. n]  BY <3>1, <3>2
    <3>a. \A k \in 1 .. c + 1 : k \in 1 .. c \/ k = c + 1  OBVIOUS
    <3>b. \A j, k \in 1 .. c : j < k => f[j] < f[k]  BY <2>1 DEF Rises
    <3>4. Rises(g)
      <4> SUFFICES ASSUME NEW j \in 1 .. c + 1, NEW k \in 1 .. c + 1, j < k PROVE g[j] < g[k]
        BY <3>2 DEF Rises
      <4>1. j \in 1 .. c  OBVIOUS
      <4> HIDE DEF g
      <4> QED BY <3>1, <3>2, <3>a, <3>b, <4>1
    <3>5. K \cap (1 .. m + 1) = (K \cap (1 .. m)) \cup {m + 1}  BY <2>4
    <3>6. {g[k] : k \in 1 .. c + 1} = {f[k] : k \in 1 .. c} \cup {m + 1}
      <4> HIDE DEF g
      <4>1. \A k \in 1 .. c : k \in 1 .. c + 1  OBVIOUS
      <4>2. c + 1 \in 1 .. c + 1  OBVIOUS
      <4> QED BY <3>1, <3>2, <3>a, <4>1, <4>2
    <3>7. Lists(m + 1, c + 1, g)
      <4> HIDE DEF g
      <4> QED BY <2>1, <3>3, <3>4, <3>5, <3>6
    <3>8. c + 1 \in Nat  OBVIOUS
    <3> HIDE DEF Lists, g
    <3> QED BY <3>7, <3>8
  <2> QED BY <2>3, <2>4
<1>3. \A m \in 0 .. n : m \in P
  <2> HIDE DEF P
  <2> QED BY <1>1, <1>2, UpTo
<1>a. PICK c \in Nat : \E f : Lists(n, c, f)
  <2> HIDE DEF Lists
  <2> QED BY <1>3
<1>4. PICK f : Lists(n, c, f)  BY <1>a
<1>5. Ranks(f, c, n, K)  BY <1>4 DEF Ranks
<1> QED BY <1>5

(* What Picked picks, by that order.                                       *)
LEMMA PickedAre ==
  ASSUME NEW T, NEW s \in Seq(T), NEW K, NEW f, NEW c, Chooses(s, K, f, c)
  PROVE  /\ Picked(s, K) = Selected(s, f, c)
         /\ Selected(s, f, c) \in Seq(T) /\ Len(Selected(s, f, c)) = c
         /\ \A k \in 1 .. c : Selected(s, f, c)[k] = s[f[k]] /\ f[k] \in 1 .. Len(s) /\ f[k] \in K
<1> DEFINE t == [k \in 1 .. c |-> s[f[k]]]
           p == [i \in 1 .. Len(s) |-> IF i \in K THEN <<s[i]>> ELSE <<>>]
<1>1. Len(s) \in Nat /\ \A i \in 1 .. Len(s) : s[i] \in T  OBVIOUS
<1>a. c \in Nat /\ f \in [1 .. c -> 1 .. Len(s)] /\ Rises(f) /\ K \cap (1 .. Len(s)) = {f[k] : k \in 1 .. c}
  BY DEF Chooses, Ranks
<1>2. \A k \in 1 .. c : s[f[k]] \in T /\ f[k] \in 1 .. Len(s) /\ f[k] \in K
  BY <1>1, <1>a
<1>3. t \in Seq(T) /\ Len(t) = c /\ \A k \in 1 .. c : t[k] = s[f[k]]
  <2>0. c \in Nat  BY <1>a
  <2>1. \A k \in 1 .. c : s[f[k]] \in T  BY <1>2
  <2>2. t \in [1 .. c -> T]  BY <2>1
  <2>3. t \in Seq(T)  BY <2>0, <2>2
  <2> QED BY <2>0, <2>2, <2>3
<1>4. p \in Seq(Seq(T)) /\ Len(p) = Len(s)
  <2>1. \A i \in 1 .. Len(s) : <<s[i]>> \in Seq(T) /\ <<>> \in Seq(T)  BY <1>1
  <2>2. p \in [1 .. Len(s) -> Seq(T)]  BY <2>1
  <2> QED BY <1>1, <2>2
<1>5. \A i \in 1 .. Len(s) : p[i] = IF i \in K THEN <<s[i]>> ELSE <<>>  OBVIOUS
<1>6. Picked(s, K) = FlattenSeq(p) /\ Selected(s, f, c) = t  BY DEF Picked, Selected
<1> HIDE DEF t, p
<1>7. Scattered(t, p, f)
  <2>1. f \in [1 .. Len(t) -> 1 .. Len(p)] /\ Rises(f)  BY <1>3, <1>4, <1>a
  <2>2. ASSUME NEW k \in 1 .. c PROVE p[f[k]] = <<t[k]>>  BY <1>2, <1>3, <1>5
  <2>3. ASSUME NEW m \in 1 .. Len(s), \A k \in 1 .. c : f[k] # m PROVE p[m] = <<>>
    <3>1. m \notin K  BY <1>a, <2>3
    <3> QED BY <1>5, <3>1
  <2> QED BY <1>3, <1>4, <2>1, <2>2, <2>3 DEF Scattered
<1>8. FlattenSeq(p) = t  BY <1>3, <1>4, <1>7, Gathered
<1> QED BY <1>2, <1>3, <1>6, <1>8

-----------------------------------------------------------------------------
(* Blocks of one width.                                                    *)
LEMMA Blocks ==
  ASSUME NEW T, NEW b \in Seq(Seq(T)), NEW W \in {1, 3, 4}, \A m \in 1 .. Len(b) : Len(b[m]) = W
  PROVE  /\ FlattenSeq(b) \in Seq(T) /\ Len(FlattenSeq(b)) = Len(b) * W
         /\ \A m \in 1 .. Len(b) : IsAt(b[m], FlattenSeq(b), (m - 1) * W)
<1>0. Len(b) \in Nat  OBVIOUS
<1>1. PICK r : Beginnings(T, b, r)  BY Flattening
<1> DEFINE P == {m \in 0 .. Len(b) : Len(r[m]) = m * W}
<1>2. 0 \in P
  <2>1. r[0] = <<>>  BY <1>1 DEF Beginnings
  <2>2. Len(r[0]) = 0  BY <2>1
  <2>3. 0 * W = 0  OBVIOUS
  <2> QED BY <1>0, <2>2, <2>3
<1>3. ASSUME NEW m \in 0 .. Len(b) - 1, m \in P PROVE m + 1 \in P
  <2>1. Len(r[m + 1]) = Len(r[m]) + Len(b[m + 1])  BY <1>1, NextPiece
  <2>2. Len(b[m + 1]) = W /\ m + 1 \in 0 .. Len(b)  BY <1>0
  <2>3. (m + 1) * W = m * W + W
    <3>1. CASE W = 1  BY <3>1
    <3>2. CASE W = 3  BY <3>2
    <3>3. CASE W = 4  BY <3>3
    <3> QED BY <3>1, <3>2, <3>3
  <2> QED BY <1>3, <2>1, <2>2, <2>3
<1>4. \A m \in 0 .. Len(b) : m \in P
  <2> HIDE DEF P
  <2> QED BY <1>0, <1>2, <1>3, UpTo
<1>5. \A m \in 0 .. Len(b) : Len(r[m]) = m * W  BY <1>4
<1>6. r[Len(b)] = FlattenSeq(b)  BY <1>1 DEF Beginnings
<1>7. FlattenSeq(b) \in Seq(T)
  <2>1. r \in [0 .. Len(b) -> Seq(T)]  BY <1>1 DEF Beginnings
  <2>2. r[Len(b)] \in Seq(T)  BY <1>0, <2>1
  <2> QED BY <1>6, <2>2
<1>8. ASSUME NEW m \in 1 .. Len(b) PROVE IsAt(b[m], FlattenSeq(b), (m - 1) * W)
  <2>1. m - 1 \in 0 .. Len(b) - 1 /\ (m - 1) + 1 = m /\ m - 1 \in 0 .. Len(b)
    BY <1>0
  <2>2. IsAt(b[(m - 1) + 1], FlattenSeq(b), Len(r[m - 1]))  BY <1>1, <2>1, Pieces
  <2> QED BY <1>5, <2>1, <2>2
<1>9. Len(b) \in 0 .. Len(b)  BY <1>0
<1> QED BY <1>5, <1>6, <1>7, <1>8, <1>9

-----------------------------------------------------------------------------
(* Reading a line.                                                         *)
IsReading(line, read) ==
  read = [i \in 0 .. Len(line) |-> IF i = 0 THEN NewLine ELSE ReadChar(line, read[i - 1], i)]

(* ParseLine reads by a recursive function: it has one,                    *)
LEMMA ParseIsAReading ==
  ASSUME NEW line
  PROVE  ParseLine(line) = Push((CHOOSE read : IsReading(line, read))[Len(line)]).cells
<1>1. ParseLine(line) =
        LET read[i \in 0 .. Len(line)] ==
              IF i = 0 THEN NewLine ELSE ReadChar(line, read[i - 1], i)
        IN  Push(read[Len(line)]).cells
  BY DEF ParseLine
<1> QED BY <1>1 DEF IsReading

(* and any such function is determined from the start of the line.         *)
LEMMA ReadingExists ==
  ASSUME NEW line, Len(line) \in Nat
  PROVE  \E read : IsReading(line, read)
<1> DEFINE Goes(g, m) == g = [i \in 0 .. m |-> IF i = 0 THEN NewLine ELSE ReadChar(line, g[i - 1], i)]
           P == {m \in 0 .. Len(line) : \E g : Goes(g, m)}
<1>1. 0 \in P
  <2>1. \E g : Goes(g, 0)
    <3> DEFINE g == [i \in 0 .. 0 |-> NewLine]
    <3>1. g = [i \in 0 .. 0 |-> IF i = 0 THEN NewLine ELSE ReadChar(line, g[i - 1], i)]
      OBVIOUS
    <3>2. Goes(g, 0)
      <4> HIDE DEF g
      <4> QED BY <3>1
    <3> HIDE DEF Goes, g
    <3> QED BY <3>2
  <2> HIDE DEF Goes
  <2> QED BY <2>1
<1>2. ASSUME NEW m \in 0 .. Len(line) - 1, m \in P PROVE m + 1 \in P
  <2>1. PICK g : Goes(g, m)  BY <1>2
  <2> DEFINE h == [i \in 0 .. m + 1 |-> IF i \in 0 .. m THEN g[i] ELSE ReadChar(line, g[i - 1], i)]
  <2>2. \A i \in 0 .. m + 1 : h[i] = IF i = 0 THEN NewLine ELSE ReadChar(line, h[i - 1], i)
    <3> SUFFICES ASSUME NEW i \in 0 .. m + 1
                 PROVE  h[i] = IF i = 0 THEN NewLine ELSE ReadChar(line, h[i - 1], i)
      OBVIOUS
    <3>1. CASE i \in 0 .. m
      <4>1. g[i] = IF i = 0 THEN NewLine ELSE ReadChar(line, g[i - 1], i)
        BY <2>1, <3>1
      <4>2. i # 0 => h[i - 1] = g[i - 1]  BY <3>1
      <4> QED BY <3>1, <4>1, <4>2
    <3>2. CASE i = m + 1
      <4>1. h[i - 1] = g[i - 1] /\ i # 0  BY <3>2
      <4> QED BY <3>2, <4>1
    <3> QED BY <3>1, <3>2
  <2>3. Goes(h, m + 1)
    <3>1. h = [i \in 0 .. m + 1 |-> h[i]]  OBVIOUS
    <3> HIDE DEF h
    <3> QED BY <2>2, <3>1
  <2> HIDE DEF Goes
  <2> QED BY <2>3
<1>3. \A m \in 0 .. Len(line) : m \in P
  <2> HIDE DEF P
  <2> QED BY <1>1, <1>2, UpTo
<1>4. \E g : Goes(g, Len(line))
  <2> HIDE DEF Goes
  <2> QED BY <1>3
<1> QED BY <1>4 DEF IsReading

State(c, u, q, k) == [cells |-> c, current |-> u, quoted |-> q, skip |-> k]

(* What a character does to the state of the reading.                      *)
LEMMA Skipped ==
  ASSUME NEW line, NEW i, NEW c, NEW u
  PROVE  ReadChar(line, State(c, u, TRUE, TRUE), i) = State(c, u, TRUE, FALSE)
BY DEF ReadChar, State

(* A character that is no quote and no comma is taken.                     *)
LEMMA TakenPlain ==
  ASSUME NEW line, NEW i, NEW c, NEW u, line[i] # QuoteMark, line[i] # Comma
  PROVE  ReadChar(line, State(c, u, FALSE, FALSE), i) = State(c, Append(u, line[i]), FALSE, FALSE)
BY DEF ReadChar, State

(* Between quotes a comma is taken as well.                                *)
LEMMA TakenQuoted ==
  ASSUME NEW line, NEW i, NEW c, NEW u, line[i] # QuoteMark
  PROVE  ReadChar(line, State(c, u, TRUE, FALSE), i) = State(c, Append(u, line[i]), TRUE, FALSE)
BY DEF ReadChar, State

(* A comma outside quotes ends a cell.                                     *)
LEMMA Separates ==
  ASSUME NEW line, NEW i, NEW c, NEW u, line[i] = Comma
  PROVE  ReadChar(line, State(c, u, FALSE, FALSE), i) = State(Append(c, u), <<>>, FALSE, FALSE)
BY DEF ReadChar, State, Push, Comma, QuoteMark

(* A quote at the start of a cell opens it.                                *)
LEMMA OpensQuotes ==
  ASSUME NEW line, NEW i, NEW c, NEW u, line[i] = QuoteMark
  PROVE  ReadChar(line, State(c, u, FALSE, FALSE), i) = State(c, u, TRUE, FALSE)
BY DEF ReadChar, State, Comma, QuoteMark

(* A reading, one character at a time.                                     *)
LEMMA ReadsOn ==
  ASSUME NEW line, Len(line) \in Nat, NEW read, IsReading(line, read)
  PROVE  /\ read[0] = State(<<>>, <<>>, FALSE, FALSE)
         /\ \A i \in 0 .. Len(line) - 1 : read[i + 1] = ReadChar(line, read[i], i + 1)
<1>1. read[0] = NewLine  BY DEF IsReading
<1>2. ASSUME NEW i \in 0 .. Len(line) - 1 PROVE read[i + 1] = ReadChar(line, read[i], i + 1)
  <2>1. i + 1 \in 0 .. Len(line) /\ i + 1 # 0 /\ (i + 1) - 1 = i  OBVIOUS
  <2>2. read[i + 1] = ReadChar(line, read[(i + 1) - 1], i + 1)
    BY <2>1 DEF IsReading
  <2> QED BY <2>1, <2>2
<1> QED BY <1>1, <1>2 DEF NewLine, State

(* A beginning, one element longer.                                        *)
LEMMA OneMore ==
  ASSUME NEW T, NEW s \in Seq(T), NEW m \in 0 .. Len(s) - 1
  PROVE  SubSeq(s, 1, m + 1) = Append(SubSeq(s, 1, m), s[m + 1])
OBVIOUS

(* After a characters the cells c are complete and u is read of the next.  *)
HasRead(read, a, c, u, q) == read[a] = State(c, u, q, FALSE)

Plain(cell) == \A j \in 1 .. Len(cell) : cell[j] # QuoteMark /\ cell[j] # Comma

(* A cell without quotes and commas is read as it is.                      *)
LEMMA ReadsPlain ==
  ASSUME NEW line, NEW read, IsReading(line, read), NEW a, NEW c,
         NEW T, NEW cell \in Seq(T), IsAt(cell, line, a), Plain(cell),
         HasRead(read, a, c, <<>>, FALSE), NEW z, z = a + Len(cell)
  PROVE  HasRead(read, z, c, cell, FALSE)
<1> DEFINE At(m) == read[a + m] = State(c, SubSeq(cell, 1, m), FALSE, FALSE)
           P == {m \in 0 .. Len(cell) : At(m)}
<1>0. /\ a \in Nat /\ Len(line) \in Nat /\ Len(cell) \in Nat /\ a + Len(cell) <= Len(line)
      /\ \A j \in 1 .. Len(cell) : line[a + j] = cell[j]
  BY DEF IsAt
<1>1. At(0)
  <2>1. SubSeq(cell, 1, 0) = <<>> /\ a + 0 = a  BY <1>0, SubSeqEmpty
  <2> QED BY <2>1 DEF HasRead
<1>2. ASSUME NEW m \in 0 .. Len(cell) - 1, At(m) PROVE At(m + 1)
  <2>1. a + m \in 0 .. Len(line) - 1 /\ m + 1 \in 1 .. Len(cell)  BY <1>0
  <2>2. read[(a + m) + 1] = ReadChar(line, read[a + m], (a + m) + 1)
    <3>1. \A i \in 0 .. Len(line) - 1 : read[i + 1] = ReadChar(line, read[i], i + 1)
      <4>1. Len(line) \in Nat  BY <1>0
      <4> QED BY <4>1, ReadsOn
    <3> QED BY <2>1, <3>1
  <2>3. (a + m) + 1 = a + (m + 1)  BY <1>0
  <2>4. line[a + (m + 1)] = cell[m + 1]  BY <1>0, <2>1
  <2>5. cell[m + 1] # QuoteMark /\ cell[m + 1] # Comma  BY <2>1 DEF Plain
  <2> DEFINE u == SubSeq(cell, 1, m)
  <2>6. SubSeq(cell, 1, m + 1) = Append(u, cell[m + 1])  BY OneMore
  <2> HIDE DEF u
  <2>7. ReadChar(line, State(c, u, FALSE, FALSE), a + (m + 1)) = State(c, Append(u, cell[m + 1]), FALSE, FALSE)
    <3> DEFINE i == a + (m + 1)
    <3>1. line[i] = cell[m + 1]  BY <2>4
    <3> HIDE DEF i
    <3>2. ReadChar(line, State(c, u, FALSE, FALSE), i) = State(c, Append(u, line[i]), FALSE, FALSE)
      BY <2>5, <3>1, TakenPlain
    <3>3. ReadChar(line, State(c, u, FALSE, FALSE), i) = State(c, Append(u, cell[m + 1]), FALSE, FALSE)
      BY <3>1, <3>2
    <3> QED BY <3>3 DEF i
  <2>8. read[a + m] = State(c, u, FALSE, FALSE)  BY <1>2 DEF u
  <2> QED BY <2>2, <2>3, <2>6, <2>7, <2>8
<1> HIDE DEF At
<1>3. \A m \in 0 .. Len(cell) : m \in P
  <2>1. 0 \in P  BY <1>0, <1>1
  <2>2. \A m \in 0 .. Len(cell) - 1 : m \in P => m + 1 \in P  BY <1>0, <1>2
  <2> HIDE DEF P
  <2> QED BY <1>0, <2>1, <2>2, UpTo
<1>4. At(Len(cell))  BY <1>0, <1>3
<1>5. SubSeq(cell, 1, Len(cell)) = cell  BY SubSeqFull
<1> QED BY <1>4, <1>5 DEF At, HasRead

(* A cell between quotation marks, with its own doubled.                   *)
Doubled(cell) == [i \in 1 .. Len(cell) |->
                    IF cell[i] = QuoteMark THEN <<QuoteMark, QuoteMark>> ELSE <<cell[i]>>]

(* Quotes doubled.                                                         *)
LEMMA DoubledTypes ==
  ASSUME NEW T, QuoteMark \in T, NEW cell \in Seq(T)
  PROVE  Doubled(cell) \in Seq(Seq(T)) /\ Len(Doubled(cell)) = Len(cell)
<1>1. \A i \in 1 .. Len(cell) : <<cell[i]>> \in Seq(T) /\ <<QuoteMark, QuoteMark>> \in Seq(T)
  <2> SUFFICES ASSUME NEW i \in 1 .. Len(cell)
               PROVE  <<cell[i]>> \in Seq(T) /\ <<QuoteMark, QuoteMark>> \in Seq(T)
    OBVIOUS
  <2>1. cell[i] \in T  OBVIOUS
  <2>2. <<cell[i]>> \in Seq(T)  BY <2>1
  <2> QED BY <2>2
<1>2. Doubled(cell) \in [1 .. Len(cell) -> Seq(T)]  BY <1>1 DEF Doubled
<1> QED BY <1>2

(* Between quotes, doubled quotes are read as the cell they stand for.     *)
LEMMA ReadsDoubled ==
  ASSUME NEW line, NEW read, IsReading(line, read), NEW a, NEW c,
         NEW T, QuoteMark \in T, NEW cell \in Seq(T), IsAt(FlattenSeq(Doubled(cell)), line, a),
         HasRead(read, a, c, <<>>, TRUE), NEW z, z = a + Len(FlattenSeq(Doubled(cell)))
  PROVE  HasRead(read, z, c, cell, TRUE)
<1> DEFINE d == Doubled(cell)
<1>a. d \in Seq(Seq(T)) /\ Len(d) = Len(cell) /\ Len(cell) \in Nat  BY DoubledTypes
<1>b. \A i \in 1 .. Len(cell) : d[i] = IF cell[i] = QuoteMark THEN <<QuoteMark, QuoteMark>> ELSE <<cell[i]>>
  BY DEF Doubled
<1> HIDE DEF d
<1>c. PICK r : Beginnings(T, d, r)  BY <1>a, Flattening
<1>d. IsAt(FlattenSeq(d), line, a) /\ a \in Nat /\ Len(line) \in Nat
  <2>1. IsAt(FlattenSeq(d), line, a)  BY DEF d
  <2>2. a \in Nat /\ Len(line) \in Nat  BY DEF IsAt
  <2> QED BY <2>1, <2>2
<1> DEFINE At(m) == read[a + Len(r[m])] = State(c, SubSeq(cell, 1, m), TRUE, FALSE)
           P == {m \in 0 .. Len(cell) : At(m)}
<1>1. At(0)
  <2>1. r[0] = <<>>  BY <1>c DEF Beginnings
  <2>2. SubSeq(cell, 1, 0) = <<>> /\ a + Len(r[0]) = a  BY <1>d, <2>1, SubSeqEmpty
  <2> QED BY <2>2 DEF HasRead
<1>2. ASSUME NEW m \in 0 .. Len(cell) - 1, At(m) PROVE At(m + 1)
  <2> DEFINE lo == a + Len(r[m])  u == SubSeq(cell, 1, m)  x == cell[m + 1]
  <2>1. m + 1 \in 1 .. Len(cell)  BY <1>a
  <2>a. m \in 0 .. Len(d) - 1  BY <1>a
  <2>2. Len(r[m]) \in Nat /\ Len(d[m + 1]) \in Nat /\ Len(r[m + 1]) = Len(r[m]) + Len(d[m + 1])
    BY <1>a, <1>c, <2>a, NextPiece
  <2>3. IsAt(d[m + 1], line, lo)
    <3>1. IsAt(d[m + 1], FlattenSeq(d), Len(r[m]))  BY <1>a, <1>c, <2>a, Pieces
    <3> QED BY <1>d, <3>1, StaysAt
  <2>4. SubSeq(cell, 1, m + 1) = Append(u, x)  BY OneMore
  <2>5. read[lo] = State(c, u, TRUE, FALSE) /\ lo \in Nat  BY <1>2, <1>d, <2>2
  <2>6. a + Len(r[m + 1]) = lo + Len(d[m + 1]) /\ Len(d[m + 1]) \in Nat
    <3> DEFINE j == Len(r[m])  k == Len(d[m + 1])  l == Len(r[m + 1])
    <3>1. j \in Nat /\ k \in Nat /\ l = j + k  BY <2>2
    <3> HIDE DEF j, k, l
    <3>2. a + l = (a + j) + k  BY <1>d, <3>1
    <3> QED BY <3>1, <3>2 DEF j, k, l
  <2>7. d[m + 1] = IF x = QuoteMark THEN <<QuoteMark, QuoteMark>> ELSE <<x>>
    BY <1>b, <2>1
  <2> HIDE DEF lo, u, x
  <2>8. lo + Len(d[m + 1]) <= Len(line) /\ \A j \in 1 .. Len(d[m + 1]) : line[lo + j] = d[m + 1][j]
    BY <2>3 DEF IsAt
  <2>9. \A i \in 0 .. Len(line) - 1 : read[i + 1] = ReadChar(line, read[i], i + 1)
    BY <1>d, ReadsOn
  <2>10. CASE x = QuoteMark
    <3>1. Len(d[m + 1]) = 2 /\ d[m + 1][1] = QuoteMark /\ d[m + 1][2] = QuoteMark
      BY <2>7, <2>10
    <3>2. lo + 2 <= Len(line) /\ line[lo + 1] = QuoteMark /\ line[lo + 2] = QuoteMark
      BY <2>8, <3>1
    <3>3. (lo + 1) + 1 = lo + 2 /\ lo + 1 < Len(line) /\ lo \in 0 .. Len(line) - 1 /\ lo + 1 \in 0 .. Len(line) - 1
      BY <1>d, <2>5, <3>2
    <3>4. read[lo + 1] = State(c, Append(u, QuoteMark), TRUE, TRUE)
      <4>1. read[lo + 1] = ReadChar(line, read[lo], lo + 1)  BY <2>9, <3>3
      <4>2. line[(lo + 1) + 1] = QuoteMark  BY <3>2, <3>3
      <4>3. ReadChar(line, State(c, u, TRUE, FALSE), lo + 1) = State(c, Append(u, QuoteMark), TRUE, TRUE)
        <5> DEFINE i == lo + 1
        <5>1. line[i] = QuoteMark /\ i < Len(line) /\ line[i + 1] = QuoteMark /\ i \in Nat
          BY <2>5, <3>2, <3>3, <4>2
        <5> HIDE DEF i
        <5>2. ReadChar(line, State(c, u, TRUE, FALSE), i) = State(c, Append(u, QuoteMark), TRUE, TRUE)
          BY <1>d, <5>1 DEF ReadChar, State, Comma, QuoteMark
        <5> QED BY <5>2 DEF i
      <4> QED BY <2>5, <4>1, <4>3
    <3>5. read[lo + 2] = State(c, Append(u, QuoteMark), TRUE, FALSE)
      <4>1. read[(lo + 1) + 1] = ReadChar(line, read[lo + 1], (lo + 1) + 1)
        BY <2>9, <3>3
      <4>2. ReadChar(line, State(c, Append(u, QuoteMark), TRUE, TRUE), lo + 2) = State(c, Append(u, QuoteMark), TRUE, FALSE)
        BY Skipped
      <4> QED BY <3>3, <3>4, <4>1, <4>2
    <3> QED BY <2>4, <2>6, <2>10, <3>1, <3>5
  <2>11. CASE x # QuoteMark
    <3>1. Len(d[m + 1]) = 1 /\ d[m + 1][1] = x  BY <2>7, <2>11
    <3>2. lo + 1 <= Len(line) /\ line[lo + 1] = x  BY <2>8, <3>1
    <3>3. lo \in 0 .. Len(line) - 1  BY <1>d, <2>5, <3>2
    <3>4. read[lo + 1] = ReadChar(line, read[lo], lo + 1)  BY <2>9, <3>3
    <3>5. read[lo + 1] = State(c, Append(u, x), TRUE, FALSE)
      <4>1. ReadChar(line, State(c, u, TRUE, FALSE), lo + 1) = State(c, Append(u, line[lo + 1]), TRUE, FALSE)
        BY <2>11, <3>2, TakenQuoted
      <4> QED BY <2>5, <3>2, <3>4, <4>1
    <3> QED BY <2>4, <2>6, <3>1, <3>5
  <2> QED BY <2>10, <2>11
<1> HIDE DEF At
<1>3. \A m \in 0 .. Len(cell) : m \in P
  <2>1. 0 \in P  BY <1>a, <1>1
  <2>2. \A m \in 0 .. Len(cell) - 1 : m \in P => m + 1 \in P  BY <1>a, <1>2
  <2> HIDE DEF P
  <2> QED BY <1>a, <2>1, <2>2, UpTo
<1>4. At(Len(cell))  BY <1>a, <1>3
<1>5. SubSeq(cell, 1, Len(cell)) = cell  BY SubSeqFull
<1>6. r[Len(cell)] = FlattenSeq(d)  BY <1>a, <1>c DEF Beginnings
<1> QED BY <1>4, <1>5, <1>6 DEF At, d, HasRead

(* An escaped cell is a cell.                                              *)
LEMMA EscapedTypes ==
  ASSUME NEW T, QuoteMark \in T, NEW cell \in Seq(T)
  PROVE  Escaped(cell) \in Seq(T)
<1>1. <<QuoteMark>> \in Seq(T)  OBVIOUS
<1>2. Doubled(cell) \in Seq(Seq(T))  BY DoubledTypes
<1>3. PICK r : Beginnings(T, Doubled(cell), r)  BY <1>2, Flattening
<1> DEFINE f == FlattenSeq(Doubled(cell))
<1>4. f \in Seq(T)
  <2>1. Len(Doubled(cell)) \in Nat  BY <1>2
  <2>2. r \in [0 .. Len(Doubled(cell)) -> Seq(T)] /\ f = r[Len(Doubled(cell))]
    BY <1>3 DEF Beginnings
  <2>3. r[Len(Doubled(cell))] \in Seq(T)  BY <2>1, <2>2
  <2> QED BY <2>2, <2>3
<1>5. Escaped(cell) \in {cell, <<QuoteMark>> \o f \o <<QuoteMark>>}
  BY DEF Escaped, Doubled
<1> HIDE DEF f
<1>6. <<QuoteMark>> \o f \o <<QuoteMark>> \in Seq(T)  BY <1>1, <1>4, Joined
<1> QED BY <1>5, <1>6

(* A cell is read as it was written, up to the next comma.                 *)
LEMMA ReadsCell ==
  ASSUME NEW line, NEW read, IsReading(line, read), NEW a, NEW c,
         NEW T, QuoteMark \in T, NEW cell \in Seq(T), IsAt(Escaped(cell), line, a),
         a + Len(Escaped(cell)) < Len(line) => line[a + Len(Escaped(cell)) + 1] = Comma,
         HasRead(read, a, c, <<>>, FALSE), NEW y, y = a + Len(Escaped(cell))
  PROVE  HasRead(read, y, c, cell, FALSE)
<1>1. CASE ~ (QuoteMark \in Range(cell) \/ Comma \in Range(cell))
  <2>1. Escaped(cell) = cell  BY <1>1 DEF Escaped
  <2>2. DOMAIN cell = 1 .. Len(cell)  OBVIOUS
  <2>3. Plain(cell)  BY <1>1, <2>2 DEF Range, Plain
  <2>4. IsAt(cell, line, a)  BY <2>1
  <2>5. y = a + Len(cell)  BY <2>1
  <2> QED BY <2>3, <2>4, <2>5, ReadsPlain
<1>2. CASE QuoteMark \in Range(cell) \/ Comma \in Range(cell)
  <2> DEFINE f == FlattenSeq(Doubled(cell))
             q == <<QuoteMark>>
             e == Escaped(cell)
  <2>1. e = (q \o f) \o q  BY <1>2 DEF Escaped, Doubled
  <2>2. f \in Seq(T)
    <3>1. Doubled(cell) \in Seq(Seq(T))  BY DoubledTypes
    <3>2. PICK r : Beginnings(T, Doubled(cell), r)  BY <3>1, Flattening
    <3>3. Len(Doubled(cell)) \in Nat  BY <3>1
    <3>4. r \in [0 .. Len(Doubled(cell)) -> Seq(T)] /\ f = r[Len(Doubled(cell))]
      BY <3>2 DEF Beginnings
    <3>5. r[Len(Doubled(cell))] \in Seq(T)  BY <3>3, <3>4
    <3> QED BY <3>4, <3>5
  <2>3. q \in Seq(T) /\ Len(q) = 1 /\ q[1] = QuoteMark  OBVIOUS
  <2>a. IsAt(e, line, a)  OBVIOUS
  <2>b. /\ a + Len(e) < Len(line) => line[a + Len(e) + 1] = Comma
        /\ y = a + Len(e)
    OBVIOUS
  <2> HIDE DEF f, q, e
  <2>4. q \o f \in Seq(T) /\ Len(q \o f) = 1 + Len(f) /\ Len(f) \in Nat
    <3>1. Len(f) \in Nat  BY <2>2
    <3> QED BY <2>2, <2>3, <3>1, Joined
  <2>5. Len(e) = Len(f) + 2
    <3>1. Len(e) = Len(q \o f) + Len(q)  BY <2>1, <2>3, <2>4, Joined
    <3> QED BY <2>3, <2>4, <3>1
  <2>6. IsAt(q, e, 0) /\ IsAt(f, e, 1) /\ IsAt(q, e, 1 + Len(f))
    <3>1. IsAt(q, q \o f, 0) /\ IsAt(f, q \o f, 1)  BY <2>2, <2>3, Joined
    <3>2. IsAt(q \o f, e, 0) /\ IsAt(q, e, 1 + Len(f))
      <4>1. IsAt(q \o f, e, 0) /\ IsAt(q, e, Len(q \o f))
        BY <2>1, <2>3, <2>4, Joined
      <4> QED BY <2>4, <4>1
    <3>3. IsAt(q, e, 0 + 0) /\ IsAt(f, e, 0 + 1)  BY <3>1, <3>2, StaysAt
    <3> QED BY <3>2, <3>3
  <2>7. IsAt(q, line, a) /\ IsAt(f, line, a + 1) /\ IsAt(q, line, (a + 1) + Len(f))
    <3>1. IsAt(q, line, a + 0) /\ IsAt(f, line, a + 1) /\ IsAt(q, line, a + (1 + Len(f)))
      BY <2>a, <2>6, StaysAt
    <3>2. a \in Nat  BY <2>a DEF IsAt
    <3>3. a + 0 = a /\ a + (1 + Len(f)) = (a + 1) + Len(f)  BY <2>4, <3>2
    <3> QED BY <3>1, <3>3
  <2> DEFINE z == (a + 1) + Len(f)
  <2>8. /\ a \in Nat /\ Len(line) \in Nat /\ z \in Nat /\ z + 1 <= Len(line)
        /\ line[a + 1] = QuoteMark /\ line[z + 1] = QuoteMark
    <3>1. a \in Nat /\ Len(line) \in Nat /\ line[a + 1] = q[1]
      BY <2>3, <2>7 DEF IsAt
    <3>2. z + 1 <= Len(line) /\ line[z + 1] = q[1]  BY <2>3, <2>7 DEF IsAt
    <3> QED BY <2>3, <2>4, <3>1, <3>2
  <2>9. \A i \in 0 .. Len(line) - 1 : read[i + 1] = ReadChar(line, read[i], i + 1)
    BY <2>8, ReadsOn
  <2>10. read[a + 1] = State(c, <<>>, TRUE, FALSE)
    <3>1. a \in 0 .. Len(line) - 1  BY <2>4, <2>8
    <3>2. read[a + 1] = ReadChar(line, read[a], a + 1)  BY <2>9, <3>1
    <3>3. ReadChar(line, State(c, <<>>, FALSE, FALSE), a + 1) = State(c, <<>>, TRUE, FALSE)
      BY <2>8, OpensQuotes
    <3>4. read[a] = State(c, <<>>, FALSE, FALSE)  BY DEF HasRead
    <3> QED BY <3>2, <3>3, <3>4
  <2>11. HasRead(read, z, c, cell, TRUE)
    <3>1. IsAt(FlattenSeq(Doubled(cell)), line, a + 1)  BY <2>7 DEF f
    <3>2. z = (a + 1) + Len(FlattenSeq(Doubled(cell)))  BY DEF f
    <3>3. HasRead(read, a + 1, c, <<>>, TRUE)  BY <2>10 DEF HasRead
    <3> DEFINE b == a + 1
    <3>4. IsAt(FlattenSeq(Doubled(cell)), line, b) /\ HasRead(read, b, c, <<>>, TRUE)
          /\ z = b + Len(FlattenSeq(Doubled(cell)))
      BY <3>1, <3>2, <3>3
    <3> HIDE DEF b, z
    <3> QED BY <3>4, ReadsDoubled
  <2>12. a + Len(e) = z + 1
    <3> DEFINE n == Len(f)
    <3>1. n \in Nat /\ Len(e) = n + 2  BY <2>4, <2>5
    <3> HIDE DEF n
    <3>2. a + (n + 2) = ((a + 1) + n) + 1  BY <2>8, <3>1
    <3> QED BY <3>1, <3>2 DEF n
  <2>13. /\ y = z + 1 /\ y \in Nat /\ line[y] = QuoteMark /\ (y < Len(line) => line[y + 1] # QuoteMark)
         /\ z \in 0 .. Len(line) - 1
    <3>1. y = z + 1  BY <2>b, <2>12
    <3>2. y < Len(line) => line[y + 1] = Comma  BY <2>b
    <3>3. Comma # QuoteMark  BY DEF Comma, QuoteMark
    <3> QED BY <2>8, <3>1, <3>2, <3>3
  <2>14. read[y] = ReadChar(line, read[z], y)  BY <2>9, <2>13
  <2> HIDE DEF z
  <2>15. ReadChar(line, State(c, cell, TRUE, FALSE), y) = State(c, cell, FALSE, FALSE)
    BY <2>8, <2>13 DEF ReadChar, State, Comma, QuoteMark
  <2> QED BY <2>11, <2>14, <2>15 DEF HasRead
<1> QED BY <1>1, <1>2

(* The cells of a line, each with the comma before it.                     *)
LineParts(cells) == [i \in 1 .. Len(cells) |->
  IF i = 1 THEN Escaped(cells[i]) ELSE <<Comma>> \o Escaped(cells[i])]

(* A line is its escaped cells, all but the first behind a comma.          *)
LEMMA LineIsParts ==
  ASSUME NEW T, NEW cells \in Seq(T)
  PROVE  WriteLine(cells) = FlattenSeq(LineParts(cells))
<1> DEFINE e == [i \in 1 .. Len(cells) |-> Escaped(cells[i])]
<1>1. Len(cells) \in Nat /\ Len(e) = Len(cells)  OBVIOUS
<1>2. \A i \in 1 .. Len(cells) : e[i] = Escaped(cells[i])  OBVIOUS
<1>3. WriteLine(cells) = Separated(e, Comma)  BY DEF WriteLine
<1> HIDE DEF e
<1>4. [i \in 1 .. Len(e) |-> IF i = 1 THEN e[i] ELSE <<Comma>> \o e[i]] = LineParts(cells)
  BY <1>1, <1>2 DEF LineParts
<1> QED BY <1>3, <1>4 DEF Separated

(* Those parts are cells.                                                  *)
LEMMA PartsTypes ==
  ASSUME NEW T, QuoteMark \in T, Comma \in T, NEW cells \in Seq(Seq(T))
  PROVE  LineParts(cells) \in Seq(Seq(T)) /\ Len(LineParts(cells)) = Len(cells)
<1>1. \A i \in 1 .. Len(cells) : Escaped(cells[i]) \in Seq(T)
  <2> SUFFICES ASSUME NEW i \in 1 .. Len(cells) PROVE Escaped(cells[i]) \in Seq(T)
    OBVIOUS
  <2>1. cells[i] \in Seq(T)  OBVIOUS
  <2> QED BY <2>1, EscapedTypes
<1>2. <<Comma>> \in Seq(T)  OBVIOUS
<1>3. \A i \in 1 .. Len(cells) : <<Comma>> \o Escaped(cells[i]) \in Seq(T)
  BY <1>1, <1>2, Joined
<1> DEFINE n == Len(cells)  p == LineParts(cells)
<1>4. p \in [1 .. n -> Seq(T)]  BY <1>1, <1>3 DEF LineParts
<1>5. n \in Nat  OBVIOUS
<1>6. SUFFICES p \in Seq(Seq(T)) /\ Len(p) = n  OBVIOUS
<1> HIDE DEF n, p
<1>7. p \in Seq(Seq(T))  BY <1>4, <1>5
<1>8. Len(p) = n  BY <1>4, <1>5
<1> QED BY <1>7, <1>8

(* What the spreadsheet writes is what the parser reads: whatever commas   *)
(* and quotation marks there are in the cells, none of them shifts.        *)
LEMMA RoundTrip ==
  ASSUME NEW T, QuoteMark \in T, Comma \in T, NEW cells \in Seq(Seq(T)), cells # <<>>
  PROVE  ParseLine(WriteLine(cells)) = cells
<1> DEFINE p == LineParts(cells)  n == Len(cells)  line == FlattenSeq(p)
<1>a. n \in Nat /\ n # 0  OBVIOUS
<1>b. p \in Seq(Seq(T)) /\ Len(p) = n  BY PartsTypes
<1>c. PICK r : Beginnings(T, p, r)  BY <1>b, Flattening
<1>d. \A i \in 1 .. n : p[i] = IF i = 1 THEN Escaped(cells[i]) ELSE <<Comma>> \o Escaped(cells[i])
  BY DEF LineParts
<1>e. WriteLine(cells) = line  BY LineIsParts
<1> HIDE DEF p, line
<1>f. Len(line) \in Nat /\ line = r[n]
  <2>1. IsAt(p[0 + 1], FlattenSeq(p), Len(r[0]))
    <3>1. 0 \in 0 .. Len(p) - 1  BY <1>a, <1>b
    <3> QED BY <1>b, <1>c, <3>1, Pieces
  <2>2. Len(FlattenSeq(p)) \in Nat  BY <2>1 DEF IsAt
  <2>3. FlattenSeq(p) = r[n]  BY <1>b, <1>c DEF Beginnings
  <2> QED BY <2>2, <2>3 DEF line
<1>g. PICK read : IsReading(line, read) /\ ParseLine(line) = Push(read[Len(line)]).cells
  BY <1>f, ReadingExists, ParseIsAReading
<1>h. read[0] = State(<<>>, <<>>, FALSE, FALSE)
      /\ \A i \in 0 .. Len(line) - 1 : read[i + 1] = ReadChar(line, read[i], i + 1)
  BY <1>f, <1>g, ReadsOn
<1>i. \A m \in 0 .. n - 1 : IsAt(p[m + 1], line, Len(r[m]))
  BY <1>b, <1>c, Pieces DEF line
<1> DEFINE Upto(m) == HasRead(read, Len(r[m]), SubSeq(cells, 1, m - 1), cells[m], FALSE)
           P == {m \in 0 .. n : m # 0 => Upto(m)}
<1>1. 0 \in P
  <2> HIDE DEF Upto
  <2> QED BY <1>a
<1>2. ASSUME NEW m \in 0 .. n - 1, m \in P PROVE m + 1 \in P
  <2> DEFINE x == cells[m + 1]  e == Escaped(x)  lo == Len(r[m])  hi == Len(r[m + 1])
  <2>1. m + 1 \in 1 .. n /\ m + 1 \in 0 .. n /\ m \in 0 .. Len(p) - 1 /\ (m + 1) - 1 = m
    BY <1>a, <1>b
  <2>2. x \in Seq(T)  BY <2>1
  <2>3. lo \in Nat /\ hi = lo + Len(p[m + 1]) /\ IsAt(p[m + 1], line, lo)
    BY <1>b, <1>c, <1>i, <2>1, NextPiece
  <2>4. hi \in Nat /\ Len(line) \in Nat /\ (hi < Len(line) => line[hi + 1] = Comma)
    <3>1. CASE m + 1 = n
      <4>1. hi = Len(line)  BY <1>f, <3>1
      <4> QED BY <1>f, <4>1
    <3>2. CASE m + 1 < n
      <4>1. m + 1 \in 0 .. n - 1 /\ (m + 1) + 1 \in 1 .. n /\ (m + 1) + 1 # 1
        BY <1>a, <3>2
      <4>2. IsAt(p[(m + 1) + 1], line, hi)  BY <1>i, <4>1
      <4> DEFINE y == cells[(m + 1) + 1]
      <4>3. p[(m + 1) + 1] = <<Comma>> \o Escaped(y)  BY <1>d, <4>1
      <4>4. y \in Seq(T)  BY <4>1
      <4> HIDE DEF y
      <4>5. Escaped(y) \in Seq(T) /\ <<Comma>> \in Seq(T)  BY <4>4, EscapedTypes
      <4>6. IsAt(<<Comma>>, <<Comma>> \o Escaped(y), 0)  BY <4>5, Joined
      <4>7. IsAt(<<Comma>>, line, hi + 0)  BY <4>2, <4>3, <4>6, StaysAt
      <4> HIDE DEF hi
      <4>8. hi \in Nat  BY <4>2 DEF IsAt
      <4>9. IsAt(<<Comma>>, line, hi)  BY <4>7, <4>8
      <4>10. line[hi + 1] = <<Comma>>[1]  BY <4>9 DEF IsAt
      <4> QED BY <1>f, <4>8, <4>10
    <3> QED BY <2>1, <3>1, <3>2
  <2>5. Upto(m + 1) <=> HasRead(read, hi, SubSeq(cells, 1, m), x, FALSE)  BY <2>1
  <2>6. e \in Seq(T)  BY <2>2, EscapedTypes
  <2>7. p[m + 1] = IF m + 1 = 1 THEN e ELSE <<Comma>> \o e  BY <1>d, <2>1
  <2>8. CASE m = 0
    <3>1. p[m + 1] = e  BY <2>7, <2>8
    <3>2. r[0] = <<>>  BY <1>c DEF Beginnings
    <3>3. lo = 0  BY <2>8, <3>2
    <3>4. SubSeq(cells, 1, m) = <<>>  BY <2>8, SubSeqEmpty
    <3>5. HasRead(read, lo, SubSeq(cells, 1, m), <<>>, FALSE)
      BY <1>h, <3>3, <3>4 DEF HasRead
    <3> HIDE DEF lo, hi, x, Upto
    <3>6. IsAt(Escaped(x), line, lo) /\ hi = lo + Len(Escaped(x))  BY <2>3, <3>1
    <3>7. lo + Len(Escaped(x)) < Len(line) => line[lo + Len(Escaped(x)) + 1] = Comma
      BY <2>4, <3>6
    <3>8. HasRead(read, hi, SubSeq(cells, 1, m), x, FALSE)
      BY <1>g, <2>2, <3>5, <3>6, <3>7, ReadsCell
    <3> QED BY <2>1, <2>5, <3>8
  <2>9. CASE m # 0
    <3>1. p[m + 1] = <<Comma>> \o e  BY <2>1, <2>7, <2>9
    <3>a. m \in 1 .. n /\ m - 1 \in 0 .. n - 1 /\ (m - 1) + 1 = m  BY <1>a, <2>9
    <3>b. Upto(m)
      <4> HIDE DEF Upto
      <4> QED BY <1>2, <2>9
    <3>2. m \in 1 .. n /\ m - 1 \in 0 .. n - 1 /\ Upto(m)  BY <3>a, <3>b
    <3> DEFINE c == SubSeq(cells, 1, m - 1)
    <3>3. SubSeq(cells, 1, m) = Append(c, cells[m])
      <4>1. SubSeq(cells, 1, (m - 1) + 1) = Append(c, cells[(m - 1) + 1])
        BY <3>2, OneMore
      <4>2. (m - 1) + 1 = m  BY <3>2
      <4> QED BY <4>1, <4>2
    <3>4. HasRead(read, lo, c, cells[m], FALSE)  BY <3>2
    <3> HIDE DEF lo, hi, x, Upto, c, e
    <3>5. <<Comma>> \in Seq(T) /\ Len(<<Comma>>) = 1 /\ Len(e) \in Nat  BY <2>6
    <3>6. IsAt(<<Comma>>, p[m + 1], 0) /\ IsAt(e, p[m + 1], 1) /\ Len(p[m + 1]) = 1 + Len(e)
      BY <2>6, <3>1, <3>5, Joined
    <3>7. IsAt(<<Comma>>, line, lo + 0) /\ IsAt(e, line, lo + 1)
      BY <2>3, <3>6, StaysAt
    <3>8. lo + 0 = lo /\ hi = (lo + 1) + Len(e)  BY <2>3, <3>5, <3>6
    <3>9. line[lo + 1] = Comma /\ lo \in 0 .. Len(line) - 1
      <4>1. IsAt(<<Comma>>, line, lo)  BY <3>7, <3>8
      <4>2. line[lo + 1] = <<Comma>>[1] /\ lo + 1 <= Len(line)
        BY <3>5, <4>1 DEF IsAt
      <4> QED BY <1>f, <2>3, <4>2
    <3> DEFINE b == lo + 1
    <3>10. HasRead(read, b, SubSeq(cells, 1, m), <<>>, FALSE)
      <4>1. read[lo + 1] = ReadChar(line, read[lo], lo + 1)  BY <1>h, <3>9
      <4>2. read[lo] = State(c, cells[m], FALSE, FALSE)  BY <3>4 DEF HasRead
      <4> DEFINE i == lo + 1  u == cells[m]
      <4>a. line[i] = Comma  BY <3>9
      <4> HIDE DEF i, u
      <4>b. ReadChar(line, State(c, u, FALSE, FALSE), i) = State(Append(c, u), <<>>, FALSE, FALSE)
        BY <4>a DEF ReadChar, State, Push, Comma, QuoteMark
      <4>3. ReadChar(line, State(c, cells[m], FALSE, FALSE), lo + 1) = State(Append(c, cells[m]), <<>>, FALSE, FALSE)
        BY <4>b DEF i, u
      <4> QED BY <3>3, <4>1, <4>2, <4>3 DEF HasRead
    <3>11. IsAt(e, line, b) /\ hi = b + Len(e)  BY <3>7, <3>8
    <3> HIDE DEF b
    <3>12. b + Len(e) < Len(line) => line[b + Len(e) + 1] = Comma  BY <2>4, <3>11
    <3>13. HasRead(read, hi, SubSeq(cells, 1, m), x, FALSE)
      <4>1. e = Escaped(x)  BY DEF e
      <4> QED BY <1>g, <2>2, <3>10, <3>11, <3>12, <4>1, ReadsCell
    <3> QED BY <2>1, <2>5, <3>13
  <2> QED BY <2>8, <2>9
<1>3. \A m \in 0 .. n : m \in P
  <2> HIDE DEF P, n
  <2> QED BY <1>a, <1>1, <1>2, UpTo
<1>4. Upto(n)
  <2> HIDE DEF Upto
  <2> QED BY <1>a, <1>3
<1>5. read[Len(line)] = State(SubSeq(cells, 1, n - 1), cells[n], FALSE, FALSE)
  BY <1>f, <1>4 DEF HasRead
<1>6. Append(SubSeq(cells, 1, n - 1), cells[n]) = cells
  <2>1. n - 1 \in 0 .. n - 1 /\ (n - 1) + 1 = n  BY <1>a
  <2>2. SubSeq(cells, 1, (n - 1) + 1) = Append(SubSeq(cells, 1, n - 1), cells[(n - 1) + 1])
    BY <2>1, OneMore
  <2>3. SubSeq(cells, 1, n) = cells  BY SubSeqFull
  <2> QED BY <2>1, <2>2, <2>3
<1> DEFINE c == SubSeq(cells, 1, n - 1)  u == cells[n]
<1>7. read[Len(line)] = State(c, u, FALSE, FALSE) /\ Append(c, u) = cells
  BY <1>5, <1>6
<1> HIDE DEF c, u, n
<1>8. Push(State(c, u, FALSE, FALSE)).cells = Append(c, u)  BY DEF Push, State
<1> QED BY <1>e, <1>g, <1>7, <1>8

-----------------------------------------------------------------------------
(* What is kept of a sequence.                                             *)

(* Flattening one piece more.                                              *)
LEMMA FlattenAppend ==
  ASSUME NEW T, NEW s \in Seq(Seq(T)), NEW x \in Seq(T)
  PROVE  FlattenSeq(Append(s, x)) = FlattenSeq(s) \o x /\ FlattenSeq(s) \in Seq(T)
<1> DEFINE n == Len(s)  w == Append(s, x)
<1>1. n \in Nat /\ w \in Seq(Seq(T)) /\ Len(w) = n + 1 /\ w[n + 1] = x
  OBVIOUS
<1>2. \A i \in 1 .. n : w[i] = s[i]  OBVIOUS
<1>3. PICK r : Beginnings(T, s, r)  BY Flattening
<1>4. PICK q : Beginnings(T, w, q)  BY <1>1, Flattening
<1> HIDE DEF w
<1> DEFINE P == {m \in 0 .. n : q[m] = r[m]}
<1>5. 0 \in P  BY <1>1, <1>3, <1>4 DEF Beginnings
<1>6. ASSUME NEW m \in 0 .. n - 1, m \in P PROVE m + 1 \in P
  <2>1. m + 1 \in 1 .. n /\ m + 1 \in 0 .. n /\ m \in 0 .. Len(w) - 1 /\ m \in 0 .. Len(s) - 1
    BY <1>1
  <2>2. q[m + 1] = q[m] \o w[m + 1]  BY <1>4, <2>1 DEF Beginnings
  <2>3. r[m + 1] = r[m] \o s[m + 1]  BY <1>3, <2>1 DEF Beginnings
  <2> QED BY <1>2, <1>6, <2>1, <2>2, <2>3
<1>7. \A m \in 0 .. n : m \in P
  <2> HIDE DEF P, n
  <2> QED BY <1>1, <1>5, <1>6, UpTo
<1>8. q[n] = r[n]
  <2>1. n \in 0 .. n  BY <1>1
  <2>2. n \in P
    <3> HIDE DEF P
    <3> QED BY <1>7, <2>1
  <2> QED BY <2>2
<1>9. n \in 0 .. Len(w) - 1 /\ Len(w) = n + 1  BY <1>1
<1>10. q[n + 1] = q[n] \o x  BY <1>1, <1>4, <1>9 DEF Beginnings
<1>11. FlattenSeq(w) = q[n + 1] /\ FlattenSeq(s) = r[n]
  BY <1>3, <1>4, <1>9 DEF Beginnings
<1>12. r[n] \in Seq(T)
  <2>1. n \in 0 .. n  BY <1>1
  <2>2. r \in [0 .. n -> Seq(T)]  BY <1>3 DEF Beginnings
  <2> QED BY <2>1, <2>2
<1> QED BY <1>8, <1>10, <1>11, <1>12 DEF w

(* What is left of s without the members of D.                             *)
Kept(s, D) == Picked(s, {i \in 1 .. Len(s) : s[i] \notin D})

(* Nothing is kept of nothing.                                             *)
LEMMA KeptEmpty ==
  ASSUME NEW D
  PROVE  Kept(<<>>, D) = <<>>
<1>1. Kept(<<>>, D) = FlattenSeq(<<>>)
  <2>1. [i \in 1 .. Len(<<>>) |-> IF i \in {j \in 1 .. Len(<<>>) : <<>>[j] \notin D} THEN << <<>>[i]>> ELSE <<>>] = <<>>
    OBVIOUS
  <2> QED BY <2>1 DEF Kept, Picked
<1> QED BY <1>1 DEF FlattenSeq

(* What is kept of one element more.                                       *)
LEMMA KeptAppend ==
  ASSUME NEW T, NEW s \in Seq(T), NEW x \in T, NEW D
  PROVE  /\ Kept(Append(s, x), D) = IF x \in D THEN Kept(s, D) ELSE Append(Kept(s, D), x)
         /\ Kept(s, D) \in Seq(T)
<1> DEFINE Piece(y) == IF y \notin D THEN <<y>> ELSE <<>>
           p == [i \in 1 .. Len(s) |-> Piece(s[i])]
           w == Append(s, x)
           q == [i \in 1 .. Len(w) |-> Piece(w[i])]
<1>1. Len(s) \in Nat /\ Len(w) = Len(s) + 1 /\ w[Len(s) + 1] = x
      /\ \A i \in 1 .. Len(s) : w[i] = s[i] /\ s[i] \in T
  OBVIOUS
<1>2. \A y \in T : Piece(y) \in Seq(T)  OBVIOUS
<1>3. Kept(s, D) = FlattenSeq(p)
  <2>1. p = [i \in 1 .. Len(s) |-> IF i \in {j \in 1 .. Len(s) : s[j] \notin D} THEN <<s[i]>> ELSE <<>>]
    OBVIOUS
  <2> HIDE DEF p
  <2> QED BY <2>1 DEF Kept, Picked
<1>4. Kept(w, D) = FlattenSeq(q)
  <2>1. q = [i \in 1 .. Len(w) |-> IF i \in {j \in 1 .. Len(w) : w[j] \notin D} THEN <<w[i]>> ELSE <<>>]
    <3> HIDE DEF w
    <3> QED OBVIOUS
  <2> HIDE DEF q, w
  <2> QED BY <2>1 DEF Kept, Picked
<1> HIDE DEF w
<1>5. p \in [1 .. Len(s) -> Seq(T)] /\ \A i \in 1 .. Len(s) : p[i] = Piece(s[i])
  BY <1>1, <1>2
<1>6. DOMAIN q = 1 .. Len(s) + 1 /\ \A i \in 1 .. Len(s) + 1 : q[i] = Piece(w[i])
  BY <1>1
<1>7. Piece(x) \in Seq(T)  BY <1>2
<1>a. q = [i \in 1 .. Len(s) + 1 |-> q[i]]  BY <1>1
<1> DEFINE z == Piece(x)
<1>8. Piece(w[Len(s) + 1]) = z /\ \A i \in 1 .. Len(s) : Piece(w[i]) = Piece(s[i])
  BY <1>1
<1>b. z = IF x \in D THEN <<>> ELSE <<x>>  OBVIOUS
<1> HIDE DEF p, q, Piece, z
<1>9. p \in Seq(Seq(T)) /\ Len(p) = Len(s)
  <2>1. p \in Seq(Seq(T))  BY <1>1, <1>5
  <2>2. Len(p) = Len(s)  BY <1>1, <1>5
  <2> QED BY <2>1, <2>2
<1>10. q = Append(p, z)
  <2> DEFINE a == Append(p, z)  n == Len(s)
  <2>0. z \in Seq(T)  BY <1>7 DEF z
  <2>1. a \in Seq(Seq(T)) /\ Len(a) = n + 1 /\ a[n + 1] = z  BY <1>1, <1>9, <2>0
  <2>2. \A i \in 1 .. n : a[i] = p[i]  BY <1>1, <1>9, <2>0
  <2>3. n \in Nat  BY <1>1
  <2>4. a = [i \in 1 .. n + 1 |-> a[i]]
    <3> HIDE DEF a, n
    <3> QED BY <2>1, <2>3
  <2>5. \A i \in 1 .. n + 1 : q[i] = a[i]
    <3> SUFFICES ASSUME NEW i \in 1 .. n + 1 PROVE q[i] = a[i]  OBVIOUS
    <3>1. CASE i \in 1 .. n  BY <1>5, <1>6, <1>8, <2>2, <2>3, <3>1
    <3>2. CASE i = n + 1  BY <1>1, <1>6, <1>8, <2>1, <3>2
    <3> HIDE DEF a, n
    <3> QED BY <2>3, <3>1, <3>2
  <2>6. [i \in 1 .. n + 1 |-> q[i]] = [i \in 1 .. n + 1 |-> a[i]]
    <3> HIDE DEF a, n
    <3> QED BY <2>5
  <2>7. q = [i \in 1 .. n + 1 |-> q[i]]  BY <1>a
  <2> HIDE DEF a, n
  <2> QED BY <2>4, <2>6, <2>7 DEF a
<1>11. z \in Seq(T)  BY <1>7 DEF z
<1>12. FlattenSeq(q) = FlattenSeq(p) \o z /\ FlattenSeq(p) \in Seq(T)
  BY <1>9, <1>10, <1>11, FlattenAppend
<1> DEFINE k == Kept(s, D)
<1>13. Kept(w, D) = k \o z /\ k \in Seq(T)  BY <1>3, <1>4, <1>12
<1> HIDE DEF k
<1>14. Kept(w, D) = IF x \in D THEN k ELSE Append(k, x)  BY <1>b, <1>13
<1> QED BY <1>13, <1>14 DEF k, w

(* No member of D is kept, and what is kept is of s.                       *)
LEMMA KeptMembers ==
  ASSUME NEW T, NEW s \in Seq(T), NEW D
  PROVE  /\ Kept(s, D) \in Seq(T)
         /\ \A k \in 1 .. Len(Kept(s, D)) : Kept(s, D)[k] \notin D /\ \E i \in 1 .. Len(s) : Kept(s, D)[k] = s[i]
<1> DEFINE K == {i \in 1 .. Len(s) : s[i] \notin D}
<1>1. Len(s) \in Nat /\ K \in SUBSET (1 .. Len(s)) /\ K \cap (1 .. Len(s)) = K /\ \A i \in 1 .. Len(s) : s[i] \in T
  OBVIOUS
<1>2. \A i \in K : i \in 1 .. Len(s) /\ s[i] \notin D  OBVIOUS
<1>3. Kept(s, D) = Picked(s, K)  BY DEF Kept
<1> HIDE DEF K
<1>4. PICK c \in Nat : \E f : Ranks(f, c, Len(s), K)  BY <1>1, Ranked
<1>5. PICK f : Ranks(f, c, Len(s), K)  BY <1>4
<1>a. Chooses(s, K, f, c)  BY <1>1, <1>5 DEF Chooses
<1> DEFINE t == Selected(s, f, c)
<1>6. /\ Picked(s, K) = t /\ t \in Seq(T) /\ Len(t) = c
      /\ \A k \in 1 .. c : t[k] = s[f[k]] /\ f[k] \in 1 .. Len(s) /\ f[k] \in K
  BY <1>a, PickedAre
<1> HIDE DEF t
<1>7. \A k \in 1 .. Len(t) : t[k] \notin D /\ \E i \in 1 .. Len(s) : t[k] = s[i]
  BY <1>2, <1>6
<1> QED BY <1>3, <1>6, <1>7

(* A sequence without members of D is kept as it is.                       *)
Avoids(s, D) == \A i \in 1 .. Len(s) : s[i] \notin D

(* All is kept of a sequence that avoids what is dropped.                  *)
LEMMA KeptWhole ==
  ASSUME NEW T, NEW s \in Seq(T), NEW D, Avoids(s, D)
  PROVE  Kept(s, D) = s
<1> DEFINE f == [k \in 1 .. Len(s) |-> k]
           K == {i \in 1 .. Len(s) : s[i] \notin D}
<1>1. Len(s) \in Nat /\ f \in [1 .. Len(s) -> 1 .. Len(s)] /\ Rises(f)  BY DEF Rises
<1>2. K = {f[k] : k \in 1 .. Len(s)} /\ K = K \cap (1 .. Len(s))  BY DEF Avoids
<1>3. \A k \in 1 .. Len(s) : f[k] = k  OBVIOUS
<1>4. Kept(s, D) = Picked(s, K)  BY DEF Kept
<1> HIDE DEF f, K
<1>5. Chooses(s, K, f, Len(s))  BY <1>1, <1>2 DEF Chooses, Ranks
<1> DEFINE t == Selected(s, f, Len(s))
<1>6. /\ Picked(s, K) = t /\ t \in Seq(T) /\ Len(t) = Len(s)
      /\ \A k \in 1 .. Len(s) : t[k] = s[f[k]]
  BY <1>5, PickedAre
<1> HIDE DEF t
<1>7. t = s  BY <1>3, <1>6
<1> QED BY <1>4, <1>6, <1>7

-----------------------------------------------------------------------------
(* Separators.                                                             *)

(* Without keeps all but one element.                                      *)
LEMMA WithoutIsKept ==
  ASSUME NEW s, NEW t
  PROVE  Without(s, t) = Kept(s, {t})
<1>1. (1 .. Len(s)) \ PlacesOf(s, t) = {i \in 1 .. Len(s) : s[i] \notin {t}}
  BY DEF PlacesOf
<1> QED BY <1>1 DEF Without, Kept

(* Without, of one element more.                                           *)
LEMMA WithoutAppend ==
  ASSUME NEW T, NEW t
  PROVE  \A s \in Seq(T), x \in T :
           Without(Append(s, x), t) = IF x = t THEN Without(s, t) ELSE Append(Without(s, t), x)
<1> SUFFICES ASSUME NEW s \in Seq(T), NEW x \in T
             PROVE  Without(Append(s, x), t) = IF x = t THEN Without(s, t) ELSE Append(Without(s, t), x)
  OBVIOUS
<1>1. Kept(Append(s, x), {t}) = IF x \in {t} THEN Kept(s, {t}) ELSE Append(Kept(s, {t}), x)
  BY KeptAppend
<1>2. Without(Append(s, x), t) = Kept(Append(s, x), {t}) /\ Without(s, t) = Kept(s, {t})
  BY WithoutIsKept
<1> QED BY <1>1, <1>2

(* Numbers with one and with two separators x.                             *)
LEMMA OneSeparator ==
  ASSUME NEW T, NEW a \in T, NEW b \in T, NEW y \in T, NEW d \in T, NEW x \in T, x \notin {a, b, y, d}
  PROVE  Without(<<a, x, b, y, d>>, x) = <<a, b, y, d>>
<1>1. \A s \in Seq(T), z \in T :
        Without(Append(s, z), x) = IF z = x THEN Without(s, x) ELSE Append(Without(s, x), z)
  BY WithoutAppend
<1>2. Without(<<>>, x) = <<>>  BY WithoutIsKept, KeptEmpty
<1>3. Without(<<a>>, x) = <<a>>
  <2>1. <<>> \in Seq(T) /\ <<a>> = Append(<<>>, a)  OBVIOUS
  <2> QED BY <1>1, <1>2, <2>1
<1>4. Without(<<a, x>>, x) = <<a>>
  <2>1. <<a>> \in Seq(T) /\ <<a, x>> = Append(<<a>>, x)  OBVIOUS
  <2> QED BY <1>1, <1>3, <2>1
<1>5. Without(<<a, x, b>>, x) = <<a, b>>
  <2>1. <<a, x>> \in Seq(T) /\ <<a, x, b>> = Append(<<a, x>>, b) /\ <<a, b>> = Append(<<a>>, b)
    OBVIOUS
  <2> QED BY <1>1, <1>4, <2>1
<1>6. Without(<<a, x, b, y>>, x) = <<a, b, y>>
  <2>1. <<a, x, b>> \in Seq(T) /\ <<a, x, b, y>> = Append(<<a, x, b>>, y) /\ <<a, b, y>> = Append(<<a, b>>, y)
    OBVIOUS
  <2> QED BY <1>1, <1>5, <2>1
<1>7. <<a, x, b, y>> \in Seq(T) /\ <<a, x, b, y, d>> = Append(<<a, x, b, y>>, d)
      /\ <<a, b, y, d>> = Append(<<a, b, y>>, d)
  OBVIOUS
<1> QED BY <1>1, <1>6, <1>7

(* The last place of t is the one no other place of t exceeds.             *)
LEMMA LastPlaceIs ==
  ASSUME NEW s, Len(s) \in Nat, NEW t, NEW z \in 1 .. Len(s), s[z] = t,
         \A i \in 1 .. Len(s) : s[i] = t => i <= z
  PROVE  LastPlace(s, t) = z
<1>1. PlacesOf(s, t) # {} /\ z \in PlacesOf(s, t) /\ \A i \in PlacesOf(s, t) : i \in Nat /\ i <= z
  BY DEF PlacesOf
<1>2. Max(PlacesOf(s, t)) = z
  <2>1. \E x \in PlacesOf(s, t) : \A y \in PlacesOf(s, t) : x >= y  BY <1>1
  <2> DEFINE m == Max(PlacesOf(s, t))
  <2>2. m \in PlacesOf(s, t) /\ \A y \in PlacesOf(s, t) : m >= y  BY <2>1 DEF Max
  <2> HIDE DEF m
  <2>3. m \in Nat /\ m <= z /\ m >= z  BY <1>1, <2>2
  <2> QED BY <2>3 DEF m
<1> QED BY <1>1, <1>2 DEF LastPlace

(* What is avoided has no place.                                           *)
LEMMA NoPlace ==
  ASSUME NEW s, NEW t, Avoids(s, {t})
  PROVE  LastPlace(s, t) = 0 /\ PlacesOf(s, t) = {}
<1>1. PlacesOf(s, t) = {}  BY DEF Avoids, PlacesOf
<1> QED BY <1>1 DEF LastPlace

(* The least of a set is the member no other is less than.                 *)
LEMMA MinIs ==
  ASSUME NEW S \in SUBSET Nat, NEW z \in S, \A y \in S : z <= y
  PROVE  Min(S) = z
<1>1. \E x \in S : \A y \in S : x =< y  OBVIOUS
<1> DEFINE m == Min(S)
<1>2. m \in S /\ \A y \in S : m =< y  BY <1>1 DEF Min
<1> HIDE DEF m
<1>3. m \in Nat /\ m <= z /\ z <= m  BY <1>2
<1>4. z \in Nat  OBVIOUS
<1> QED BY <1>3, <1>4 DEF m

Marked(s, z) == [i \in 1 .. Len(s) |-> IF i = z THEN Dot ELSE s[i]]

(* The decimal mark replaces the first separator.                          *)
LEMMA MarkedFirst ==
  ASSUME NEW T, NEW s \in Seq(T), NEW t, NEW z \in 1 .. Len(s), s[z] = t, \A i \in 1 .. Len(s) : s[i] = t => z <= i
  PROVE  MarkFirst(s, t) = Marked(s, z)
<1>1. PlacesOf(s, t) \in SUBSET Nat /\ z \in PlacesOf(s, t) /\ \A y \in PlacesOf(s, t) : z <= y
  BY DEF PlacesOf
<1>2. Min(PlacesOf(s, t)) = z  BY <1>1, MinIs
<1> QED BY <1>2 DEF MarkFirst, Marked

(* A cell without its first word.                                          *)
LEMMA Stripped ==
  ASSUME NEW T, NEW w \in Seq(T), NEW t \in T, Avoids(w, {t})
  PROVE  Without(<<t>> \o w, t) = w
<1> DEFINE s == <<t>> \o w
           K == {i \in 1 .. Len(s) : s[i] \notin {t}}
           f == [k \in 1 .. Len(w) |-> k + 1]
<1>1. Len(w) \in Nat /\ s \in Seq(T) /\ Len(s) = Len(w) + 1 /\ s[1] = t
  OBVIOUS
<1>2. \A k \in 1 .. Len(w) : s[k + 1] = w[k] /\ w[k] # t  BY DEF Avoids
<1>3. f \in [1 .. Len(w) -> 1 .. Len(s)] /\ Rises(f) /\ \A k \in 1 .. Len(w) : f[k] = k + 1
  <2> HIDE DEF s
  <2> QED BY <1>1 DEF Rises
<1>4. Without(s, t) = Picked(s, K)  BY WithoutIsKept DEF Kept
<1> HIDE DEF s
<1>5. K = {f[k] : k \in 1 .. Len(w)}
  <2>1. ASSUME NEW i \in 1 .. Len(s) PROVE s[i] # t <=> i # 1
    <3>1. CASE i = 1  BY <1>1, <3>1
    <3>2. CASE i # 1
      <4>1. i - 1 \in 1 .. Len(w) /\ (i - 1) + 1 = i  BY <1>1, <3>2
      <4> QED BY <1>2, <3>2, <4>1
    <3> QED BY <3>1, <3>2
  <2>2. K = {i \in 1 .. Len(s) : i # 1}  BY <2>1
  <2>3. \A i \in 1 .. Len(s) : i # 1 => i - 1 \in 1 .. Len(w) /\ (i - 1) + 1 = i
    BY <1>1
  <2> HIDE DEF K
  <2>a. \A i \in K : \E k \in 1 .. Len(w) : i = k + 1
    <3> SUFFICES ASSUME NEW i \in K PROVE \E k \in 1 .. Len(w) : i = k + 1  OBVIOUS
    <3>1. i - 1 \in 1 .. Len(w) /\ i = (i - 1) + 1  BY <2>2, <2>3
    <3> QED BY <3>1
  <2>b. \A k \in 1 .. Len(w) : k + 1 \in 1 .. Len(s) /\ k + 1 # 1  BY <1>1
  <2>c. \A k \in 1 .. Len(w) : k + 1 \in K  BY <2>2, <2>b
  <2>4. \A i : i \in K <=> \E k \in 1 .. Len(w) : i = k + 1  BY <2>a, <2>c
  <2> QED BY <1>3, <2>4
<1>6. K = K \cap (1 .. Len(s))  OBVIOUS
<1> HIDE DEF K, f
<1>7. Chooses(s, K, f, Len(w))  BY <1>1, <1>3, <1>5, <1>6 DEF Chooses, Ranks
<1>a. s \in Seq(T)  BY <1>1
<1> DEFINE u == Selected(s, f, Len(w))
<1>8. /\ Picked(s, K) = u /\ u \in Seq(T) /\ Len(u) = Len(w)
      /\ \A k \in 1 .. Len(w) : u[k] = s[f[k]]
  BY <1>7, <1>a, PickedAre
<1> HIDE DEF u
<1>9. u = w  BY <1>2, <1>3, <1>8
<1> QED BY <1>4, <1>8, <1>9 DEF s

(* Two separators removed.                                                 *)
LEMMA TwoSeparators ==
  ASSUME NEW T, NEW a \in T, NEW b \in T, NEW c \in T, NEW y \in T, NEW d \in T, NEW x \in T,
         x \notin {a, b, c, y, d}
  PROVE  Without(<<a, x, b, x, c, y, d>>, x) = <<a, b, c, y, d>>
<1>1. \A s \in Seq(T), z \in T :
        Without(Append(s, z), x) = IF z = x THEN Without(s, x) ELSE Append(Without(s, x), z)
  BY WithoutAppend
<1>2. Without(<<a, x, b, x, c>>, x) = <<a, b, c>>
  <2>1. Without(<<a, x, b, c>>, x) = <<a, b, c>> /\ Without(<<a, x, b>>, x) = <<a, b>>
    <3>1. Without(<<>>, x) = <<>>  BY WithoutIsKept, KeptEmpty
    <3>2. Without(<<a>>, x) = <<a>>
      <4>1. <<>> \in Seq(T) /\ <<a>> = Append(<<>>, a)  OBVIOUS
      <4> QED BY <1>1, <3>1, <4>1
    <3>3. Without(<<a, x>>, x) = <<a>>
      <4>1. <<a>> \in Seq(T) /\ <<a, x>> = Append(<<a>>, x)  OBVIOUS
      <4> QED BY <1>1, <3>2, <4>1
    <3>4. Without(<<a, x, b>>, x) = <<a, b>>
      <4>1. <<a, x>> \in Seq(T) /\ <<a, x, b>> = Append(<<a, x>>, b) /\ <<a, b>> = Append(<<a>>, b)
        OBVIOUS
      <4> QED BY <1>1, <3>3, <4>1
    <3>5. <<a, x, b>> \in Seq(T) /\ <<a, x, b, c>> = Append(<<a, x, b>>, c) /\ <<a, b, c>> = Append(<<a, b>>, c)
      OBVIOUS
    <3> QED BY <1>1, <3>4, <3>5
  <2>2. <<a, x, b>> \in Seq(T) /\ <<a, x, b, x>> = Append(<<a, x, b>>, x)  OBVIOUS
  <2>3. Without(<<a, x, b, x>>, x) = <<a, b>>  BY <1>1, <2>1, <2>2
  <2>4. <<a, x, b, x>> \in Seq(T) /\ <<a, x, b, x, c>> = Append(<<a, x, b, x>>, c)
        /\ <<a, b, c>> = Append(<<a, b>>, c)
    OBVIOUS
  <2> QED BY <1>1, <2>3, <2>4
<1>3. Without(<<a, x, b, x, c, y>>, x) = <<a, b, c, y>>
  <2>1. <<a, x, b, x, c>> \in Seq(T) /\ <<a, x, b, x, c, y>> = Append(<<a, x, b, x, c>>, y)
        /\ <<a, b, c, y>> = Append(<<a, b, c>>, y)
    OBVIOUS
  <2> QED BY <1>1, <1>2, <2>1
<1>4. <<a, x, b, x, c, y>> \in Seq(T) /\ <<a, x, b, x, c, y, d>> = Append(<<a, x, b, x, c, y>>, d)
      /\ <<a, b, c, y, d>> = Append(<<a, b, c, y>>, d)
  OBVIOUS
<1> QED BY <1>1, <1>3, <1>4

(* Joining, one element at a time.                                         *)
LEMMA ConcatAppend ==
  ASSUME NEW T
  PROVE  /\ \A s \in Seq(T), z \in T : s \o <<z>> = Append(s, z)
         /\ \A s, t \in Seq(T), z \in T : s \o Append(t, z) = Append(s \o t, z)
         /\ \A s, t \in Seq(T) : s \o t \in Seq(T)
<1>1. ASSUME NEW s \in Seq(T), NEW z \in T PROVE s \o <<z>> = Append(s, z)
  <2> DEFINE u == <<z>>  v == s \o u  w == Append(s, z)
  <2>1. u \in Seq(T) /\ Len(u) = 1 /\ u[1] = z  OBVIOUS
  <2>2. w \in Seq(T) /\ Len(w) = Len(s) + 1 /\ w[Len(s) + 1] = z /\ Len(s) \in Nat
    OBVIOUS
  <2>3. \A i \in 1 .. Len(s) : w[i] = s[i]  OBVIOUS
  <2> HIDE DEF u, w
  <2>4. /\ v \in Seq(T) /\ Len(v) = Len(s) + Len(u)
        /\ \A i \in 1 .. Len(s) + Len(u) : v[i] = IF i <= Len(s) THEN s[i] ELSE u[i - Len(s)]
    BY <2>1, ConcatProperties
  <2> HIDE DEF v
  <2>5. ASSUME NEW i \in 1 .. Len(v) PROVE v[i] = w[i]
    <3>1. CASE i \in 1 .. Len(s)  BY <2>1, <2>2, <2>3, <2>4, <3>1
    <3>2. CASE i = Len(s) + 1
      <4>1. i \in 1 .. Len(s) + Len(u) /\ ~ (i <= Len(s)) /\ i - Len(s) = 1
        BY <2>1, <2>2, <3>2
      <4> QED BY <2>1, <2>2, <2>4, <3>2, <4>1
    <3> QED BY <2>1, <2>2, <2>4, <3>1, <3>2
  <2>6. Len(v) = Len(w)  BY <2>1, <2>2, <2>4
  <2>7. v = w  BY <2>2, <2>4, <2>5, <2>6, SeqEqual
  <2> QED BY <2>7 DEF u, v, w
<1>2. ASSUME NEW s \in Seq(T), NEW t \in Seq(T) PROVE s \o t \in Seq(T)
  BY ConcatProperties
<1>3. ASSUME NEW s \in Seq(T), NEW t \in Seq(T), NEW z \in T PROVE s \o Append(t, z) = Append(s \o t, z)
  <2>1. <<z>> \in Seq(T) /\ Append(t, z) = t \o <<z>>  BY <1>1
  <2>2. (s \o t) \o <<z>> = s \o (t \o <<z>>)  BY <2>1, ConcatAssociative
  <2>3. s \o t \in Seq(T)  BY <1>2
  <2>4. (s \o t) \o <<z>> = Append(s \o t, z)  BY <1>1, <2>3
  <2> QED BY <2>1, <2>2, <2>4
<1> QED BY <1>1, <1>2, <1>3

(* Joining two elements.                                                   *)
LEMMA ConcatTwo ==
  ASSUME NEW T
  PROVE  \A s \in Seq(T), y, z \in T : <<y>> \o <<z>> = <<y, z>> /\ s \o <<y, z>> = Append(Append(s, y), z)
<1> SUFFICES ASSUME NEW s \in Seq(T), NEW y \in T, NEW z \in T
             PROVE  <<y>> \o <<z>> = <<y, z>> /\ s \o <<y, z>> = Append(Append(s, y), z)
  OBVIOUS
<1>1. <<y>> \in Seq(T) /\ <<y, z>> = Append(<<y>>, z)  OBVIOUS
<1>2. <<y>> \o <<z>> = <<y, z>>  BY <1>1, ConcatAppend
<1>3. s \o <<y, z>> = Append(s \o <<y>>, z)  BY <1>1, ConcatAppend
<1>4. s \o <<y>> = Append(s, y)  BY ConcatAppend
<1> QED BY <1>2, <1>3, <1>4

(* Groups of digits with a separator between them.                         *)
LEMMA GroupedAre ==
  ASSUME NEW T, NEW a \in T, NEW b \in T, NEW c \in T, NEW x \in T
  PROVE  /\ Grouped(<<a>>, x) = <<a>>
         /\ Grouped(<<a, b>>, x) = <<a, x, b>>
         /\ Grouped(<<a, b, c>>, x) = <<a, x, b, x, c>>
<1>1. \A s \in Seq(Seq(T)), z \in Seq(T) : FlattenSeq(Append(s, z)) = FlattenSeq(s) \o z
  BY FlattenAppend
<1>2. FlattenSeq(<<>>) = <<>>  BY DEF FlattenSeq
<1>a. \A s \in Seq(T), y, z \in T : <<y>> \o <<z>> = <<y, z>> /\ s \o <<y, z>> = Append(Append(s, y), z)
  <2> SUFFICES ASSUME NEW s \in Seq(T), NEW y \in T, NEW z \in T
               PROVE  <<y>> \o <<z>> = <<y, z>> /\ s \o <<y, z>> = Append(Append(s, y), z)
    OBVIOUS
  <2> QED BY ConcatTwo
<1> DEFINE p1 == << <<a>> >>
           p2 == << <<a>>, <<x, b>> >>
           p3 == << <<a>>, <<x, b>>, <<x, c>> >>
<1>3. FlattenSeq(p1) = <<a>>
  <2>1. <<>> \in Seq(Seq(T)) /\ <<a>> \in Seq(T) /\ p1 = Append(<<>>, <<a>>) /\ <<>> \o <<a>> = <<a>>
    OBVIOUS
  <2> HIDE DEF p1
  <2> QED BY <1>1, <1>2, <2>1
<1>4. FlattenSeq(p2) = <<a, x, b>>
  <2>1. p1 \in Seq(Seq(T)) /\ <<x, b>> \in Seq(T) /\ p2 = Append(p1, <<x, b>>)
    OBVIOUS
  <2>2. <<a>> \in Seq(T) /\ <<a, x>> = Append(<<a>>, x) /\ <<a, x, b>> = Append(<<a, x>>, b)
    OBVIOUS
  <2>a. <<a>> \o <<x, b>> = Append(Append(<<a>>, x), b)  BY <1>a, <2>2
  <2>b. Append(Append(<<a>>, x), b) = <<a, x, b>>
    <3> DEFINE u == <<a, x>>
    <3>1. u = Append(<<a>>, x) /\ <<a, x, b>> = Append(u, b)  BY <2>2
    <3> HIDE DEF u
    <3> QED BY <3>1
  <2>3. <<a>> \o <<x, b>> = <<a, x, b>>  BY <2>a, <2>b
  <2> HIDE DEF p1, p2
  <2> QED BY <1>1, <1>3, <2>1, <2>3
<1>5. FlattenSeq(p3) = <<a, x, b, x, c>>
  <2>1. p2 \in Seq(Seq(T)) /\ <<x, c>> \in Seq(T) /\ p3 = Append(p2, <<x, c>>)
    OBVIOUS
  <2>2. <<a, x, b>> \in Seq(T) /\ <<a, x, b, x>> = Append(<<a, x, b>>, x)
        /\ <<a, x, b, x, c>> = Append(<<a, x, b, x>>, c)
    OBVIOUS
  <2>a. <<a, x, b>> \o <<x, c>> = Append(Append(<<a, x, b>>, x), c)  BY <1>a, <2>2
  <2>b. Append(Append(<<a, x, b>>, x), c) = <<a, x, b, x, c>>
    <3> DEFINE u == <<a, x, b, x>>
    <3>1. u = Append(<<a, x, b>>, x) /\ <<a, x, b, x, c>> = Append(u, c)  BY <2>2
    <3> HIDE DEF u
    <3> QED BY <3>1
  <2>3. <<a, x, b>> \o <<x, c>> = <<a, x, b, x, c>>  BY <2>a, <2>b
  <2> HIDE DEF p2, p3
  <2> QED BY <1>1, <1>4, <2>1, <2>3
<1> DEFINE P(g) == [i \in 1 .. Len(g) |-> IF i = 1 THEN <<g[i]>> ELSE <<x>> \o <<g[i]>>]
<1>6. ASSUME NEW g \in Seq(T) PROVE Grouped(g, x) = FlattenSeq(P(g))
  <2> DEFINE s == [i \in 1 .. Len(g) |-> <<g[i]>>]
  <2>1. Len(s) = Len(g) /\ \A i \in 1 .. Len(g) : s[i] = <<g[i]>>  OBVIOUS
  <2>2. Grouped(g, x) = Separated(s, x)  BY DEF Grouped
  <2> HIDE DEF s
  <2>3. [i \in 1 .. Len(s) |-> IF i = 1 THEN s[i] ELSE <<x>> \o s[i]] = P(g)
    BY <2>1
  <2> QED BY <2>2, <2>3 DEF Separated
<1>7. P(<<a>>) = p1 /\ P(<<a, b>>) = p2 /\ P(<<a, b, c>>) = p3
  <2>1. <<x>> \o <<b>> = <<x, b>> /\ <<x>> \o <<c>> = <<x, c>>
    <3>1. <<a>> \in Seq(T)  OBVIOUS
    <3> QED BY <1>a, <3>1
  <2>2. P(<<a>>) = p1  OBVIOUS
  <2>3. P(<<a, b>>) = p2  BY <2>1
  <2>4. P(<<a, b, c>>) = p3  BY <2>1
  <2> QED BY <2>2, <2>3, <2>4
<1>8. <<a>> \in Seq(T) /\ <<a, b>> \in Seq(T) /\ <<a, b, c>> \in Seq(T)  OBVIOUS
<1> HIDE DEF P, p1, p2, p3
<1>9. /\ Grouped(<<a>>, x) = FlattenSeq(p1) /\ Grouped(<<a, b>>, x) = FlattenSeq(p2)
      /\ Grouped(<<a, b, c>>, x) = FlattenSeq(p3)
  BY <1>6, <1>7, <1>8
<1> QED BY <1>3, <1>4, <1>5, <1>9

-----------------------------------------------------------------------------
(* The price without its separators.                                       *)

(* The tokens of a price.                                                  *)
Groups == {"7", "00", "50", "234"}
PriceTokens == Groups \cup {"currency", Dot, Comma}

(* No group of digits is a separator.                                      *)
LEMMA Marks ==
  /\ "currency" \in PriceTokens /\ Dot \in PriceTokens /\ Comma \in PriceTokens
  /\ "currency" \notin Groups /\ Dot \notin Groups /\ Comma \notin Groups
  /\ Dot # Comma /\ Dot # "currency" /\ Comma # "currency"
  /\ Groups \subseteq PriceTokens /\ DOMAIN Digits = Groups
BY DEF PriceTokens, Groups, Dot, Comma, Digits

(* The currency is no separator: the rest decides.                         *)
LEMMA CleanedIs ==
  ASSUME NEW w \in Seq(PriceTokens), Avoids(w, {"currency"})
  PROVE  Cleaned(<<"currency">> \o w) =
           IF LastPlace(w, Comma) = 0 THEN w
           ELSE IF LastPlace(w, Comma) > LastPlace(w, Dot)
                   /\ (LastPlace(w, Dot) # 0 \/ DigitsAfter(w, LastPlace(w, Comma)) <= 2)
                THEN MarkFirst(Without(w, Dot), Comma)
                ELSE Without(w, Comma)
<1>1. "currency" \in PriceTokens  BY Marks
<1> DEFINE t == "currency"
<1>2. t \in PriceTokens /\ Avoids(w, {t})  BY <1>1
<1> HIDE DEF t
<1>3. Without(<<t>> \o w, t) = w  BY <1>2, Stripped
<1> QED BY <1>3 DEF Cleaned, t

(* A price without commas is left as it is.                                *)
LEMMA CleanedPlain ==
  ASSUME NEW w \in Seq(PriceTokens), Avoids(w, {"currency"}), Avoids(w, {Comma})
  PROVE  Cleaned(<<"currency">> \o w) = w
<1>1. LastPlace(w, Comma) = 0  BY NoPlace
<1> QED BY <1>1, CleanedIs

(* 7,234.56 and 7,234,234.56                                               *)
LEMMA CleanedThousands ==
  ASSUME NEW a \in Groups, NEW b \in Groups, NEW c \in Groups, NEW d \in Groups
  PROVE  /\ Cleaned(<<"currency">> \o <<a, Comma, b, Dot, d>>) = <<a, b, Dot, d>>
         /\ Cleaned(<<"currency">> \o <<a, Comma, b, Comma, c, Dot, d>>) = <<a, b, c, Dot, d>>
<1> DEFINE w == <<a, Comma, b, Dot, d>>  v == <<a, Comma, b, Comma, c, Dot, d>>
<1>1. \A g \in {a, b, c, d} : g \in PriceTokens /\ g \notin {"currency", Dot, Comma}
  BY Marks
<1>2. w \in Seq(PriceTokens) /\ Avoids(w, {"currency"}) /\ LastPlace(w, Comma) = 2 /\ LastPlace(w, Dot) = 4
  <2>1. w \in Seq(PriceTokens) /\ Len(w) = 5  BY <1>1, Marks
  <2>2. /\ w[1] = a /\ w[2] = Comma /\ w[3] = b /\ w[4] = Dot /\ w[5] = d
        /\ 1 .. 5 = {1, 2, 3, 4, 5}
    OBVIOUS
  <2> HIDE DEF w
  <2>3. \A i \in 1 .. Len(w) : w[i] \notin {"currency"} /\ (w[i] = Comma <=> i = 2) /\ (w[i] = Dot <=> i = 4)
    BY <1>1, <2>1, <2>2, Marks
  <2>4. Avoids(w, {"currency"})  BY <2>3 DEF Avoids
  <2>5. LastPlace(w, Comma) = 2
    <3>1. 2 \in 1 .. Len(w) /\ w[2] = Comma /\ \A i \in 1 .. Len(w) : w[i] = Comma => i <= 2
      BY <2>1, <2>2, <2>3
    <3>2. Len(w) \in Nat  BY <2>1
    <3> QED BY <3>1, <3>2, LastPlaceIs
  <2>6. LastPlace(w, Dot) = 4
    <3>1. 4 \in 1 .. Len(w) /\ w[4] = Dot /\ \A i \in 1 .. Len(w) : w[i] = Dot => i <= 4
      BY <2>1, <2>2, <2>3
    <3>2. Len(w) \in Nat  BY <2>1
    <3> QED BY <3>1, <3>2, LastPlaceIs
  <2> QED BY <2>1, <2>4, <2>5, <2>6
<1>3. v \in Seq(PriceTokens) /\ Avoids(v, {"currency"}) /\ LastPlace(v, Comma) = 4 /\ LastPlace(v, Dot) = 6
  <2>1. v \in Seq(PriceTokens) /\ Len(v) = 7  BY <1>1, Marks
  <2>2. /\ v[1] = a /\ v[2] = Comma /\ v[3] = b /\ v[4] = Comma /\ v[5] = c /\ v[6] = Dot /\ v[7] = d
        /\ 1 .. 7 = {1, 2, 3, 4, 5, 6, 7}
    OBVIOUS
  <2> HIDE DEF v
  <2>3. \A i \in 1 .. Len(v) : v[i] \notin {"currency"} /\ (v[i] = Comma <=> i \in {2, 4}) /\ (v[i] = Dot <=> i = 6)
    BY <1>1, <2>1, <2>2, Marks
  <2>4. Avoids(v, {"currency"})  BY <2>3 DEF Avoids
  <2>5. LastPlace(v, Comma) = 4
    <3>1. 4 \in 1 .. Len(v) /\ v[4] = Comma /\ \A i \in 1 .. Len(v) : v[i] = Comma => i <= 4
      BY <2>1, <2>2, <2>3
    <3>2. Len(v) \in Nat  BY <2>1
    <3> QED BY <3>1, <3>2, LastPlaceIs
  <2>6. LastPlace(v, Dot) = 6
    <3>1. 6 \in 1 .. Len(v) /\ v[6] = Dot /\ \A i \in 1 .. Len(v) : v[i] = Dot => i <= 6
      BY <2>1, <2>2, <2>3
    <3>2. Len(v) \in Nat  BY <2>1
    <3> QED BY <3>1, <3>2, LastPlaceIs
  <2> QED BY <2>1, <2>4, <2>5, <2>6
<1>4. Without(w, Comma) = <<a, b, Dot, d>>
  <2>1. Comma \in PriceTokens /\ Dot \in PriceTokens /\ Comma \notin {a, b, Dot, d}
    BY <1>1, Marks
  <2> QED BY <1>1, <2>1, OneSeparator
<1>5. Without(v, Comma) = <<a, b, c, Dot, d>>
  <2>1. Comma \in PriceTokens /\ Dot \in PriceTokens /\ Comma \notin {a, b, c, Dot, d}
    BY <1>1, Marks
  <2> QED BY <1>1, <2>1, TwoSeparators
<1> HIDE DEF w, v
<1>6. Cleaned(<<"currency">> \o w) = Without(w, Comma)  BY <1>2, CleanedIs
<1>7. Cleaned(<<"currency">> \o v) = Without(v, Comma)  BY <1>3, CleanedIs
<1> QED BY <1>4, <1>5, <1>6, <1>7 DEF w, v

(* The digits behind a lone comma.                                         *)
LEMMA DigitsBehind ==
  ASSUME NEW a \in Groups, NEW d \in {"50", "00"}
  PROVE  DigitsAfter(<<a, Comma, d>>, 2) <= 2
<1> DEFINE w == <<a, Comma, d>>
           S == {e \in (2 + 1 .. Len(w)) \X (1 .. 3) : e[2] <= Digits[w[e[1]]]}
<1>1. Len(w) = 3 /\ w[3] = d  OBVIOUS
<1>2. Digits[d] = 2  BY DEF Digits
<1> HIDE DEF w
<1>3. S = {<<3, 1>>, <<3, 2>>}
  <2>1. 2 + 1 .. Len(w) = {3} /\ 1 .. 3 = {1, 2, 3}  BY <1>1
  <2>2. S = {e \in {3} \X {1, 2, 3} : e[2] <= Digits[w[e[1]]]}  BY <2>1
  <2>3. \A e \in {3} \X {1, 2, 3} : e[2] <= Digits[w[e[1]]] <=> e[2] <= 2
    BY <1>1, <1>2
  <2>4. S = {e \in {3} \X {1, 2, 3} : e[2] <= 2}  BY <2>2, <2>3
  <2> HIDE DEF S
  <2> QED BY <2>4
<1> HIDE DEF S
<1>4. Cardinality(S) <= 2
  <2> DEFINE x == <<3, 1>>  y == <<3, 2>>
  <2>1. S = {x} \cup {y}  BY <1>3
  <2> HIDE DEF x, y
  <2>2. IsFiniteSet({x}) /\ Cardinality({x}) = 1  BY FS_Singleton
  <2>3. IsFiniteSet({x} \cup {y})
        /\ Cardinality({x} \cup {y}) = IF y \in {x} THEN Cardinality({x}) ELSE Cardinality({x}) + 1
    BY <2>2, FS_AddElement
  <2> QED BY <2>1, <2>2, <2>3
<1>5. DigitsAfter(w, 2) = Cardinality(S)  BY DEF DigitsAfter, S
<1> QED BY <1>4, <1>5 DEF w

(* 7,50 and 7.234,50 and 7.234.234,50                                      *)
LEMMA CleanedPortuguese ==
  ASSUME NEW a \in Groups, NEW b \in Groups, NEW c \in Groups, NEW d \in {"50", "00"}
  PROVE  /\ Cleaned(<<"currency">> \o <<a, Comma, d>>) = <<a, Dot, d>>
         /\ Cleaned(<<"currency">> \o <<a, Dot, b, Comma, d>>) = <<a, b, Dot, d>>
         /\ Cleaned(<<"currency">> \o <<a, Dot, b, Dot, c, Comma, d>>) = <<a, b, c, Dot, d>>
<1> DEFINE u == <<a, Comma, d>>  v == <<a, Dot, b, Comma, d>>  w == <<a, Dot, b, Dot, c, Comma, d>>
<1>0. d \in Groups  BY DEF Groups
<1>1. \A g \in {a, b, c, d} : g \in PriceTokens /\ g \notin {"currency", Dot, Comma}
  BY <1>0, Marks
<1>2. /\ u \in Seq(PriceTokens) /\ Avoids(u, {"currency"}) /\ Avoids(u, {Dot}) /\ LastPlace(u, Comma) = 2
      /\ MarkFirst(u, Comma) = <<a, Dot, d>>
  <2>1. u \in Seq(PriceTokens) /\ Len(u) = 3  BY <1>1, Marks
  <2>2. u[1] = a /\ u[2] = Comma /\ u[3] = d /\ 1 .. 3 = {1, 2, 3}  OBVIOUS
  <2> HIDE DEF u
  <2>3. \A i \in 1 .. Len(u) : u[i] \notin {"currency"} /\ u[i] \notin {Dot} /\ (u[i] = Comma <=> i = 2)
    BY <1>1, <2>1, <2>2, Marks
  <2>4. Avoids(u, {"currency"}) /\ Avoids(u, {Dot})  BY <2>3 DEF Avoids
  <2>5. LastPlace(u, Comma) = 2
    <3>1. 2 \in 1 .. Len(u) /\ u[2] = Comma /\ \A i \in 1 .. Len(u) : u[i] = Comma => i <= 2
      BY <2>1, <2>2, <2>3
    <3>2. Len(u) \in Nat  BY <2>1
    <3> QED BY <3>1, <3>2, LastPlaceIs
  <2>6. MarkFirst(u, Comma) = Marked(u, 2)
    <3>1. 2 \in 1 .. Len(u) /\ u[2] = Comma /\ \A i \in 1 .. Len(u) : u[i] = Comma => 2 <= i
      BY <2>1, <2>2, <2>3
    <3> QED BY <2>1, <3>1, MarkedFirst
  <2>7. Marked(u, 2) = <<a, Dot, d>>  BY <2>1, <2>2 DEF Marked
  <2> QED BY <2>1, <2>4, <2>5, <2>6, <2>7
<1>3. /\ v \in Seq(PriceTokens) /\ Avoids(v, {"currency"}) /\ LastPlace(v, Comma) = 4 /\ LastPlace(v, Dot) = 2
      /\ MarkFirst(Without(v, Dot), Comma) = <<a, b, Dot, d>>
  <2>1. v \in Seq(PriceTokens) /\ Len(v) = 5  BY <1>1, Marks
  <2>2. v[1] = a /\ v[2] = Dot /\ v[3] = b /\ v[4] = Comma /\ v[5] = d /\ 1 .. 5 = {1, 2, 3, 4, 5}
    OBVIOUS
  <2>3. MarkFirst(Without(v, Dot), Comma) = <<a, b, Dot, d>>
    <3> DEFINE s == <<a, b, Comma, d>>
    <3>1. Without(v, Dot) = s
      <4>1. Comma \in PriceTokens /\ Dot \in PriceTokens /\ Dot \notin {a, b, Comma, d}
        BY <1>1, Marks
      <4> QED BY <1>1, <4>1, OneSeparator
    <3>2. s \in Seq(PriceTokens) /\ Len(s) = 4  BY <1>1, Marks
    <3>3. s[1] = a /\ s[2] = b /\ s[3] = Comma /\ s[4] = d /\ 1 .. 4 = {1, 2, 3, 4}
      OBVIOUS
    <3> HIDE DEF s, v
    <3>4. 3 \in 1 .. Len(s) /\ \A i \in 1 .. Len(s) : s[i] = Comma => 3 <= i
      BY <1>1, <3>2, <3>3, Marks
    <3>5. MarkFirst(s, Comma) = Marked(s, 3)
      BY <3>2, <3>3, <3>4, MarkedFirst
    <3>6. Marked(s, 3) = <<a, b, Dot, d>>  BY <3>2, <3>3 DEF Marked
    <3> QED BY <3>1, <3>5, <3>6
  <2> HIDE DEF v
  <2>4. \A i \in 1 .. Len(v) : v[i] \notin {"currency"} /\ (v[i] = Comma <=> i = 4) /\ (v[i] = Dot <=> i = 2)
    BY <1>1, <2>1, <2>2, Marks
  <2>5. Avoids(v, {"currency"})  BY <2>4 DEF Avoids
  <2>6. LastPlace(v, Comma) = 4
    <3>1. 4 \in 1 .. Len(v) /\ v[4] = Comma /\ \A i \in 1 .. Len(v) : v[i] = Comma => i <= 4
      BY <2>1, <2>2, <2>4
    <3>2. Len(v) \in Nat  BY <2>1
    <3> QED BY <3>1, <3>2, LastPlaceIs
  <2>7. LastPlace(v, Dot) = 2
    <3>1. 2 \in 1 .. Len(v) /\ v[2] = Dot /\ \A i \in 1 .. Len(v) : v[i] = Dot => i <= 2
      BY <2>1, <2>2, <2>4
    <3>2. Len(v) \in Nat  BY <2>1
    <3> QED BY <3>1, <3>2, LastPlaceIs
  <2> QED BY <2>1, <2>3, <2>5, <2>6, <2>7
<1>4. /\ w \in Seq(PriceTokens) /\ Avoids(w, {"currency"}) /\ LastPlace(w, Comma) = 6 /\ LastPlace(w, Dot) = 4
      /\ MarkFirst(Without(w, Dot), Comma) = <<a, b, c, Dot, d>>
  <2>1. w \in Seq(PriceTokens) /\ Len(w) = 7  BY <1>1, Marks
  <2>2. /\ w[1] = a /\ w[2] = Dot /\ w[3] = b /\ w[4] = Dot /\ w[5] = c /\ w[6] = Comma /\ w[7] = d
        /\ 1 .. 7 = {1, 2, 3, 4, 5, 6, 7}
    OBVIOUS
  <2>3. MarkFirst(Without(w, Dot), Comma) = <<a, b, c, Dot, d>>
    <3> DEFINE s == <<a, b, c, Comma, d>>
    <3>1. Without(w, Dot) = s
      <4>1. Comma \in PriceTokens /\ Dot \in PriceTokens /\ Dot \notin {a, b, c, Comma, d}
        BY <1>1, Marks
      <4> QED BY <1>1, <4>1, TwoSeparators
    <3>2. s \in Seq(PriceTokens) /\ Len(s) = 5  BY <1>1, Marks
    <3>3. s[1] = a /\ s[2] = b /\ s[3] = c /\ s[4] = Comma /\ s[5] = d /\ 1 .. 5 = {1, 2, 3, 4, 5}
      OBVIOUS
    <3> HIDE DEF s, w
    <3>4. 4 \in 1 .. Len(s) /\ \A i \in 1 .. Len(s) : s[i] = Comma => 4 <= i
      BY <1>1, <3>2, <3>3, Marks
    <3>5. MarkFirst(s, Comma) = Marked(s, 4)
      BY <3>2, <3>3, <3>4, MarkedFirst
    <3>6. Marked(s, 4) = <<a, b, c, Dot, d>>  BY <3>2, <3>3 DEF Marked
    <3> QED BY <3>1, <3>5, <3>6
  <2> HIDE DEF w
  <2>4. \A i \in 1 .. Len(w) : w[i] \notin {"currency"} /\ (w[i] = Comma <=> i = 6) /\ (w[i] = Dot <=> i \in {2, 4})
    BY <1>1, <2>1, <2>2, Marks
  <2>5. Avoids(w, {"currency"})  BY <2>4 DEF Avoids
  <2>6. LastPlace(w, Comma) = 6
    <3>1. 6 \in 1 .. Len(w) /\ w[6] = Comma /\ \A i \in 1 .. Len(w) : w[i] = Comma => i <= 6
      BY <2>1, <2>2, <2>4
    <3>2. Len(w) \in Nat  BY <2>1
    <3> QED BY <3>1, <3>2, LastPlaceIs
  <2>7. LastPlace(w, Dot) = 4
    <3>1. 4 \in 1 .. Len(w) /\ w[4] = Dot /\ \A i \in 1 .. Len(w) : w[i] = Dot => i <= 4
      BY <2>1, <2>2, <2>4
    <3>2. Len(w) \in Nat  BY <2>1
    <3> QED BY <3>1, <3>2, LastPlaceIs
  <2> QED BY <2>1, <2>3, <2>5, <2>6, <2>7
<1>5. DigitsAfter(u, 2) <= 2  BY DigitsBehind
<1> HIDE DEF u, v, w
<1>6. Without(u, Dot) = u  BY <1>2, WithoutIsKept, KeptWhole
<1>7. LastPlace(u, Dot) = 0  BY <1>2, NoPlace
<1>8. Cleaned(<<"currency">> \o u) = MarkFirst(u, Comma)
  BY <1>2, <1>5, <1>6, <1>7, CleanedIs
<1>9. Cleaned(<<"currency">> \o v) = MarkFirst(Without(v, Dot), Comma)
  BY <1>3, CleanedIs
<1>10. Cleaned(<<"currency">> \o w) = MarkFirst(Without(w, Dot), Comma)
  BY <1>4, CleanedIs
<1> QED BY <1>2, <1>3, <1>4, <1>8, <1>9, <1>10 DEF u, v, w

-----------------------------------------------------------------------------
(* The price read.                                                         *)

(* Until stops at the first token that is not of digits.                   *)
LEMMA UntilIs ==
  ASSUME NEW T, NEW s \in Seq(T), NEW n \in 0 .. Len(s), \A i \in 1 .. n : s[i] \in Groups,
         n < Len(s) => s[n + 1] \notin Groups
  PROVE  Until(s) = SubSeq(s, 1, n)
<1>0. DOMAIN Digits = Groups  BY Marks
<1>1. Len(s) \in Nat /\ n \in Nat /\ n <= Len(s)  OBVIOUS
<1>2. CASE n = Len(s)
  <2>1. NoDigits(s) = {}  BY <1>0, <1>2 DEF NoDigits
  <2> QED BY <1>2, <2>1 DEF Until
<1>3. CASE n < Len(s)
  <2>1. n + 1 \in NoDigits(s) /\ NoDigits(s) \in SUBSET Nat
    BY <1>0, <1>1, <1>3 DEF NoDigits
  <2>2. ASSUME NEW y \in NoDigits(s) PROVE n + 1 <= y
    <3>1. y \in 1 .. Len(s) /\ s[y] \notin Groups  BY <1>0, <2>2 DEF NoDigits
    <3>2. ~ (y \in 1 .. n)  BY <3>1
    <3> QED BY <1>1, <3>1, <3>2
  <2>3. Min(NoDigits(s)) = n + 1
    <3> DEFINE z == n + 1  S == NoDigits(s)
    <3>1. z \in S /\ S \in SUBSET Nat /\ \A y \in S : z <= y  BY <2>1, <2>2
    <3> HIDE DEF z, S
    <3>2. Min(S) = z  BY <3>1, MinIs
    <3> QED BY <3>2 DEF z, S
  <2>4. (n + 1) - 1 = n  BY <1>1
  <2>5. NoDigits(s) # {}  BY <2>1
  <2> QED BY <2>3, <2>4, <2>5 DEF Until
<1> QED BY <1>1, <1>2, <1>3

(* A cleaned price is read up to its mark, and behind it.                  *)
LEMMA PriceRead ==
  ASSUME NEW cell, NEW s \in Seq(PriceTokens), Cleaned(cell) = s, NEW n \in 1 .. Len(s),
         \A i \in 1 .. n : s[i] \in Groups,
         n < Len(s) => s[n + 1] = Dot /\ Len(s) = n + 2 /\ s[n + 2] \in Groups
  PROVE  ParsePrice(cell) = [whole |-> SubSeq(s, 1, n), part |-> IF n = Len(s) THEN <<>> ELSE <<s[n + 2]>>]
<1> DEFINE w == SubSeq(s, 1, n)  r == SubSeq(s, n + 1, Len(s))
<1>1. Len(s) \in Nat /\ n \in Nat /\ n <= Len(s) /\ n \in 0 .. Len(s)  OBVIOUS
<1>2. Until(s) = w
  <2>1. n < Len(s) => s[n + 1] \notin Groups  BY Marks
  <2> QED BY <1>1, <2>1, UntilIs
<1>3. Len(w) = n  BY <1>1
<1> HIDE DEF w
<1>4. SubSeq(s, Len(w) + 1, Len(s)) = r  BY <1>3
<1>5. CASE n = Len(s)
  <2>1. r = <<>>  BY <1>1, <1>5, SubSeqEmpty
  <2> HIDE DEF r
  <2> QED BY <1>2, <1>4, <1>5, <2>1 DEF ParsePrice, w
<1>6. CASE n < Len(s)
  <2> DEFINE d == s[n + 2]
  <2>1. s[n + 1] = Dot /\ Len(s) = n + 2 /\ d \in Groups  BY <1>6
  <2>2. n + 1 \in 1 .. Len(s) /\ Len(s) \in n + 1 .. Len(s)  BY <1>1, <2>1
  <2>3. Head(r) = Dot /\ Tail(r) = SubSeq(s, (n + 1) + 1, Len(s))
    BY <2>1, <2>2, HeadTailOfSubSeq
  <2>4. (n + 1) + 1 = n + 2  BY <1>1
  <2>5. SubSeq(s, n + 2, n + 2) = <<d>>
    <3> DEFINE m == n + 2  u == SubSeq(s, m, m)
    <3>1. m \in Int /\ m \in 1 .. Len(s) /\ s[m] = d  BY <1>1, <2>1
    <3> HIDE DEF m, d
    <3>2. \A i \in m .. m : s[i] \in PriceTokens  BY <3>1
    <3>3. /\ u \in Seq(PriceTokens) /\ Len(u) = IF m <= m THEN m - m + 1 ELSE 0
          /\ \A i \in 1 .. m - m + 1 : u[i] = s[m + i - 1]
      BY <3>1, <3>2, SubSeqProperties
    <3> HIDE DEF u
    <3>4. Len(u) = 1 /\ u[1] = s[m + 1 - 1] /\ m + 1 - 1 = m  BY <3>1, <3>3
    <3>5. u = <<d>>  BY <3>1, <3>3, <3>4
    <3> QED BY <3>5 DEF u, m
  <2>6. Until(<<d>>) = <<d>>
    <3> HIDE DEF d
    <3>1. <<d>> \in Seq(Groups) /\ Len(<<d>>) = 1 /\ <<d>>[1] = d  BY <2>1
    <3>2. 1 \in 0 .. Len(<<d>>) /\ \A i \in 1 .. 1 : <<d>>[i] \in Groups
      BY <2>1, <3>1
    <3>3. Until(<<d>>) = SubSeq(<<d>>, 1, 1)
      <4> DEFINE u == <<d>>
      <4>1. u \in Seq(Groups) /\ 1 \in 0 .. Len(u) /\ (\A i \in 1 .. 1 : u[i] \in Groups) /\ ~ (1 < Len(u))
        BY <3>1, <3>2
      <4> HIDE DEF u
      <4>2. Until(u) = SubSeq(u, 1, 1)  BY <4>1, UntilIs
      <4> QED BY <4>2 DEF u
    <3>4. SubSeq(<<d>>, 1, Len(<<d>>)) = <<d>>  BY <3>1, SubSeqFull
    <3> QED BY <3>1, <3>3, <3>4
  <2>7. r # <<>>
    <3>1. Len(r) = 2  BY <1>1, <2>1
    <3>2. Len(<<>>) = 0 /\ 2 # 0  OBVIOUS
    <3> HIDE DEF r
    <3> QED BY <3>1, <3>2
  <2> HIDE DEF r
  <2>8. Tail(r) = <<d>>  BY <2>1, <2>3, <2>4, <2>5
  <2> HIDE DEF d
  <2>9. ParsePrice(cell) = [whole |-> w, part |-> <<d>>]
    BY <1>2, <1>4, <2>3, <2>6, <2>7, <2>8 DEF ParsePrice
  <2>10. n # Len(s)  BY <1>1, <1>6
  <2>11. <<d>> = IF n = Len(s) THEN <<>> ELSE <<d>>  BY <2>10
  <2> QED BY <2>9, <2>11 DEF w, d
<1> QED BY <1>1, <1>5, <1>6

(* A price's whole part, its mark and its decimals as one sequence.        *)
LEMMA WithDecimals ==
  ASSUME NEW T, NEW a \in T, NEW b \in T, NEW c \in T, NEW x \in T, NEW m \in T, NEW d \in T
  PROVE  /\ <<a>> \o (<<m>> \o <<d>>) = <<a, m, d>>
         /\ <<a, b>> \o (<<m>> \o <<d>>) = <<a, b, m, d>>
         /\ <<a, b, c>> \o (<<m>> \o <<d>>) = <<a, b, c, m, d>>
         /\ <<a, x, b>> \o (<<m>> \o <<d>>) = <<a, x, b, m, d>>
         /\ <<a, x, b, x, c>> \o (<<m>> \o <<d>>) = <<a, x, b, x, c, m, d>>
<1>1. \A s \in Seq(T) : s \o (<<m>> \o <<d>>) = Append(Append(s, m), d)
  <2> SUFFICES ASSUME NEW s \in Seq(T) PROVE s \o (<<m>> \o <<d>>) = Append(Append(s, m), d)
    OBVIOUS
  <2>1. <<m>> \o <<d>> = <<m, d>> /\ s \o <<m, d>> = Append(Append(s, m), d)
    BY ConcatTwo
  <2> QED BY <2>1
<1>2. <<a>> \in Seq(T) /\ <<a, b>> \in Seq(T) /\ <<a, b, c>> \in Seq(T)
      /\ <<a, x, b>> \in Seq(T) /\ <<a, x, b, x, c>> \in Seq(T)
  OBVIOUS
<1>3. /\ <<a, m>> = Append(<<a>>, m) /\ <<a, m, d>> = Append(<<a, m>>, d)
      /\ <<a, b, m>> = Append(<<a, b>>, m) /\ <<a, b, m, d>> = Append(<<a, b, m>>, d)
      /\ <<a, b, c, m>> = Append(<<a, b, c>>, m) /\ <<a, b, c, m, d>> = Append(<<a, b, c, m>>, d)
  OBVIOUS
<1>4. /\ <<a, x, b, m>> = Append(<<a, x, b>>, m) /\ <<a, x, b, m, d>> = Append(<<a, x, b, m>>, d)
      /\ <<a, x, b, x, c, m>> = Append(<<a, x, b, x, c>>, m)
      /\ <<a, x, b, x, c, m, d>> = Append(<<a, x, b, x, c, m>>, d)
  OBVIOUS
<1> DEFINE p1 == <<a>>  p2 == <<a, b>>  p3 == <<a, b, c>>  p4 == <<a, x, b>>  p5 == <<a, x, b, x, c>>
           q1 == <<a, m>>  q2 == <<a, b, m>>  q3 == <<a, b, c, m>>  q4 == <<a, x, b, m>>  q5 == <<a, x, b, x, c, m>>
           r1 == <<a, m, d>>  r2 == <<a, b, m, d>>  r3 == <<a, b, c, m, d>>
           r4 == <<a, x, b, m, d>>  r5 == <<a, x, b, x, c, m, d>>
           t == <<m>> \o <<d>>
<1>5. /\ p1 \in Seq(T) /\ p2 \in Seq(T) /\ p3 \in Seq(T) /\ p4 \in Seq(T) /\ p5 \in Seq(T)
      /\ q1 = Append(p1, m) /\ q2 = Append(p2, m) /\ q3 = Append(p3, m) /\ q4 = Append(p4, m) /\ q5 = Append(p5, m)
      /\ r1 = Append(q1, d) /\ r2 = Append(q2, d) /\ r3 = Append(q3, d) /\ r4 = Append(q4, d) /\ r5 = Append(q5, d)
  BY <1>2, <1>3, <1>4
<1>6. \A s \in Seq(T) : s \o t = Append(Append(s, m), d)  BY <1>1
<1>7. SUFFICES p1 \o t = r1 /\ p2 \o t = r2 /\ p3 \o t = r3 /\ p4 \o t = r4 /\ p5 \o t = r5
  OBVIOUS
<1> HIDE DEF p1, p2, p3, p4, p5, q1, q2, q3, q4, q5, r1, r2, r3, r4, r5, t
<1> QED BY <1>5, <1>6

(* A price has one to three groups, and decimals or none.                  *)
LEMMA PriceShapes ==
  ASSUME NEW q \in PriceTexts
  PROVE  \E a, b, c \in {"7", "234"} : \E d \in {"50", "00"} :
           \/ q = [whole |-> <<a>>, part |-> <<>>]
           \/ \E w \in {<<a>>, <<a, b>>, <<a, b, c>>} : q = [whole |-> w, part |-> <<d>>]
<1>1. CASE q \in [whole : {<<"7">>, <<"7", "234">>, <<"7", "234", "234">>}, part : {<<"50">>, <<"00">>}]
  <2> DEFINE w == q.whole
  <2>1. w \in {<<"7">>, <<"7", "234">>, <<"7", "234", "234">>}  BY <1>1
  <2>2. q = [whole |-> w, part |-> <<"50">>] \/ q = [whole |-> w, part |-> <<"00">>]
    BY <1>1
  <2>3. \E d \in {"50", "00"} : q = [whole |-> w, part |-> <<d>>]  BY <2>2
  <2> HIDE DEF w
  <2> QED BY <2>1, <2>3
<1>2. CASE q \in [whole : {<<"7">>, <<"234">>}, part : {<<>>}]
  <2>1. \E a \in {"7", "234"} : q = [whole |-> <<a>>, part |-> <<>>]  BY <1>2
  <2> QED BY <2>1
<1> QED BY <1>1, <1>2 DEF PriceTexts

(* The currency joins in front.                                            *)
LEMMA Currency ==
  ASSUME NEW w \in Seq(PriceTokens), NEW t \in Seq(PriceTokens)
  PROVE  /\ (<<"currency">> \o w) \o t = <<"currency">> \o (w \o t)
         /\ (<<"currency">> \o w) \o <<>> = <<"currency">> \o w
<1> DEFINE k == <<"currency">>
<1>1. k \in Seq(PriceTokens)
  <2>1. "currency" \in PriceTokens  BY Marks
  <2> QED BY <2>1
<1> HIDE DEF k
<1>2. (k \o w) \o t = k \o (w \o t)  BY <1>1, ConcatAssociative
<1>3. k \o w \in Seq(PriceTokens)  BY <1>1, ConcatProperties
<1>4. (k \o w) \o <<>> = k \o w  BY <1>3, ConcatEmptySeq
<1> QED BY <1>2, <1>4 DEF k

(* The text of a price, in each of the three styles.                       *)
MarkOf(p) == IF p.style = "BRL" THEN Comma ELSE Dot
WholeOf(p) == IF p.style = "INT" THEN p.price.whole
              ELSE Grouped(p.price.whole, IF p.style = "BRL" THEN Dot ELSE Comma)

(* The cell of a price, with and without decimals.                         *)
LEMMA PriceCellIs ==
  ASSUME NEW p, WholeOf(p) \in Seq(PriceTokens), NEW d \in PriceTokens
  PROVE  /\ p.price.part = <<>> => PriceCell(p) = <<"currency">> \o WholeOf(p)
         /\ p.price.part = <<d>> => PriceCell(p) = <<"currency">> \o (WholeOf(p) \o (<<MarkOf(p)>> \o <<d>>))
<1> DEFINE k == <<"currency">>  w == WholeOf(p)  m == MarkOf(p)
<1>1. PriceCell(p) = (k \o w) \o (IF p.price.part = <<>> THEN <<>> ELSE <<m>> \o p.price.part)
  BY DEF PriceCell, WholeOf, MarkOf
<1>2. m \in PriceTokens  BY Marks DEF MarkOf
<1> HIDE DEF w, m
<1>a. w \in Seq(PriceTokens)  BY DEF w
<1>3. (k \o w) \o <<>> = k \o w  BY <1>a, Currency
<1>4. <<m>> \o <<d>> \in Seq(PriceTokens)
  <2>1. <<m>> \in Seq(PriceTokens) /\ <<d>> \in Seq(PriceTokens)  BY <1>2
  <2> QED BY <2>1, ConcatProperties
<1>5. (k \o w) \o (<<m>> \o <<d>>) = k \o (w \o (<<m>> \o <<d>>))
  BY <1>4, <1>a, Currency
<1> HIDE DEF k
<1>6. <<d>> # <<>>  OBVIOUS
<1>7. ASSUME p.price.part = <<d>> PROVE PriceCell(p) = k \o (w \o (<<m>> \o <<d>>))
  BY <1>1, <1>5, <1>6, <1>7
<1>8. p.price.part = <<>> => PriceCell(p) = k \o w  BY <1>1, <1>3
<1> QED BY <1>7, <1>8 DEF k, w, m

(* Without thousands separators only the currency is taken away.           *)
LEMMA PlainDecimals ==
  ASSUME NEW a \in Groups, NEW b \in Groups, NEW c \in Groups, NEW d \in Groups
  PROVE  /\ Cleaned(<<"currency">> \o <<a, Dot, d>>) = <<a, Dot, d>>
         /\ Cleaned(<<"currency">> \o <<a, b, Dot, d>>) = <<a, b, Dot, d>>
         /\ Cleaned(<<"currency">> \o <<a, b, c, Dot, d>>) = <<a, b, c, Dot, d>>
<1>1. /\ \A g \in {a, b, c, d} : g \in PriceTokens /\ g \notin {"currency", Comma}
      /\ Dot \in PriceTokens /\ Dot \notin {"currency", Comma}
  BY Marks
<1> DEFINE S == {a, b, c, d, Dot}
<1>2. a \in S /\ b \in S /\ c \in S /\ d \in S /\ Dot \in S  OBVIOUS
<1>3. S \subseteq PriceTokens /\ \A g \in S : g \notin {"currency"} /\ g \notin {Comma}
  BY <1>1
<1> HIDE DEF S
<1>4. ASSUME NEW s \in Seq(S) PROVE Cleaned(<<"currency">> \o s) = s
  <2>1. s \in Seq(PriceTokens)  BY <1>3, SeqMonotonic
  <2>2. \A i \in 1 .. Len(s) : s[i] \in S  OBVIOUS
  <2>3. Avoids(s, {"currency"}) /\ Avoids(s, {Comma})  BY <1>3, <2>2 DEF Avoids
  <2> QED BY <2>1, <2>3, CleanedPlain
<1>5. <<a, Dot, d>> \in Seq(S) /\ <<a, b, Dot, d>> \in Seq(S) /\ <<a, b, c, Dot, d>> \in Seq(S)
  BY <1>2
<1> QED BY <1>4, <1>5

(* A beginning of a sequence.                                              *)
LEMMA Beginning ==
  ASSUME NEW T, NEW s \in Seq(T), NEW n \in 0 .. Len(s)
  PROVE  SubSeq(s, 1, n) \in Seq(T) /\ Len(SubSeq(s, 1, n)) = n /\ \A i \in 1 .. n : SubSeq(s, 1, n)[i] = s[i]
<1> DEFINE u == SubSeq(s, 1, n)
<1>1. Len(s) \in Nat /\ n \in Nat /\ n <= Len(s)  OBVIOUS
<1>2. \A i \in 1 .. n : s[i] \in T  BY <1>1
<1>3. /\ u \in Seq(T) /\ Len(u) = IF 1 <= n THEN n - 1 + 1 ELSE 0
      /\ \A i \in 1 .. n - 1 + 1 : u[i] = s[1 + i - 1]
  BY <1>1, <1>2, SubSeqProperties
<1> HIDE DEF u
<1>4. \A i \in 1 .. n : i \in 1 .. n - 1 + 1 /\ 1 + i - 1 = i  BY <1>1
<1>5. Len(u) = n  BY <1>1, <1>3
<1> QED BY <1>3, <1>4, <1>5 DEF u

(* What is read when the decimal mark is a dot.                            *)
LEMMA DecimalsRead ==
  ASSUME NEW a \in Groups, NEW b \in Groups, NEW c \in Groups, NEW d \in Groups, NEW cell
  PROVE  /\ Cleaned(cell) = <<a, Dot, d>> => ParsePrice(cell) = [whole |-> <<a>>, part |-> <<d>>]
         /\ Cleaned(cell) = <<a, b, Dot, d>> => ParsePrice(cell) = [whole |-> <<a, b>>, part |-> <<d>>]
         /\ Cleaned(cell) = <<a, b, c, Dot, d>> => ParsePrice(cell) = [whole |-> <<a, b, c>>, part |-> <<d>>]
<1>1. a \in PriceTokens /\ b \in PriceTokens /\ c \in PriceTokens /\ d \in PriceTokens /\ Dot \in PriceTokens
  BY Marks
<1> DEFINE Reads(s, n) == /\ s \in Seq(PriceTokens) /\ n \in 1 .. Len(s) /\ \A i \in 1 .. n : s[i] \in Groups
                          /\ s[n + 1] = Dot /\ Len(s) = n + 2 /\ s[n + 2] \in Groups
<1>2. ASSUME NEW s, NEW n, Reads(s, n), Cleaned(cell) = s
      PROVE  ParsePrice(cell) = [whole |-> SubSeq(s, 1, n), part |-> <<s[n + 2]>>]
  <2>1. s \in Seq(PriceTokens) /\ n \in 1 .. Len(s) /\ (\A i \in 1 .. n : s[i] \in Groups)
        /\ s[n + 1] = Dot /\ Len(s) = n + 2 /\ s[n + 2] \in Groups
    BY <1>2
  <2>2. ParsePrice(cell) = [whole |-> SubSeq(s, 1, n), part |-> IF n = Len(s) THEN <<>> ELSE <<s[n + 2]>>]
    BY <1>2, <2>1, PriceRead
  <2>3. n # Len(s)  BY <2>1
  <2> QED BY <2>2, <2>3
<1>3. Reads(<<a, Dot, d>>, 1) /\ SubSeq(<<a, Dot, d>>, 1, 1) = <<a>> /\ <<a, Dot, d>>[1 + 2] = d
  <2> DEFINE s == <<a, Dot, d>>
  <2>1. s \in Seq(PriceTokens) /\ Len(s) = 3 /\ s[1] = a /\ s[2] = Dot /\ s[3] = d
    BY <1>1
  <2> HIDE DEF s
  <2>2. Reads(s, 1) /\ s[1 + 2] = d  BY <2>1
  <2>3. SubSeq(s, 1, 1) = <<a>>
    <3> DEFINE u == SubSeq(s, 1, 1)
    <3>a. 1 \in 0 .. Len(s)  BY <2>1
    <3>1. u \in Seq(PriceTokens) /\ Len(u) = 1 /\ \A i \in 1 .. 1 : u[i] = s[i]
      BY <2>1, <3>a, Beginning
    <3> HIDE DEF u
    <3>2. u[1] = s[1]  BY <3>1
    <3>3. u = <<a>>  BY <2>1, <3>1, <3>2
    <3> QED BY <3>3 DEF u
  <2> HIDE DEF Reads
  <2> QED BY <2>2, <2>3 DEF s
<1>4. Reads(<<a, b, Dot, d>>, 2) /\ SubSeq(<<a, b, Dot, d>>, 1, 2) = <<a, b>> /\ <<a, b, Dot, d>>[2 + 2] = d
  <2> DEFINE s == <<a, b, Dot, d>>
  <2>1. s \in Seq(PriceTokens) /\ Len(s) = 4 /\ s[1] = a /\ s[2] = b /\ s[3] = Dot /\ s[4] = d
    BY <1>1
  <2> HIDE DEF s
  <2>2. Reads(s, 2) /\ s[2 + 2] = d  BY <2>1
  <2>3. SubSeq(s, 1, 2) = <<a, b>>
    <3> DEFINE u == SubSeq(s, 1, 2)
    <3>a. 2 \in 0 .. Len(s)  BY <2>1
    <3>1. u \in Seq(PriceTokens) /\ Len(u) = 2 /\ \A i \in 1 .. 2 : u[i] = s[i]
      BY <2>1, <3>a, Beginning
    <3> HIDE DEF u
    <3>2. u[1] = s[1] /\ u[2] = s[2]  BY <3>1
    <3>3. u = <<a, b>>  BY <2>1, <3>1, <3>2
    <3> QED BY <3>3 DEF u
  <2> HIDE DEF Reads
  <2> QED BY <2>2, <2>3 DEF s
<1>5. Reads(<<a, b, c, Dot, d>>, 3) /\ SubSeq(<<a, b, c, Dot, d>>, 1, 3) = <<a, b, c>>
      /\ <<a, b, c, Dot, d>>[3 + 2] = d
  <2> DEFINE s == <<a, b, c, Dot, d>>
  <2>1. s \in Seq(PriceTokens) /\ Len(s) = 5 /\ s[1] = a /\ s[2] = b /\ s[3] = c /\ s[4] = Dot /\ s[5] = d
    BY <1>1
  <2> HIDE DEF s
  <2>2. Reads(s, 3) /\ s[3 + 2] = d  BY <2>1
  <2>3. SubSeq(s, 1, 3) = <<a, b, c>>
    <3> DEFINE u == SubSeq(s, 1, 3)
    <3>a. 3 \in 0 .. Len(s)  BY <2>1
    <3>1. u \in Seq(PriceTokens) /\ Len(u) = 3 /\ \A i \in 1 .. 3 : u[i] = s[i]
      BY <2>1, <3>a, Beginning
    <3> HIDE DEF u
    <3>2. u[1] = s[1] /\ u[2] = s[2] /\ u[3] = s[3]  BY <3>1
    <3>3. u = <<a, b, c>>  BY <2>1, <3>1, <3>2
    <3> QED BY <3>3 DEF u
  <2> HIDE DEF Reads
  <2> QED BY <2>2, <2>3 DEF s
<1> HIDE DEF Reads
<1>6. Cleaned(cell) = <<a, Dot, d>> => ParsePrice(cell) = [whole |-> <<a>>, part |-> <<d>>]
  BY <1>2, <1>3
<1>7. Cleaned(cell) = <<a, b, Dot, d>> => ParsePrice(cell) = [whole |-> <<a, b>>, part |-> <<d>>]
  BY <1>2, <1>4
<1>8. Cleaned(cell) = <<a, b, c, Dot, d>> => ParsePrice(cell) = [whole |-> <<a, b, c>>, part |-> <<d>>]
  BY <1>2, <1>5
<1> QED BY <1>6, <1>7, <1>8

(* What remains of a cell when the separators are cleaned.                 *)
LEMMA PriceCellCleaned ==
  ASSUME NEW a \in Groups, NEW b \in Groups, NEW c \in Groups, NEW d \in {"50", "00"},
         NEW p, p.style \in Styles, p.price.part = <<d>>
  PROVE  /\ p.price.whole = <<a>> => Cleaned(PriceCell(p)) = <<a, Dot, d>>
         /\ p.price.whole = <<a, b>> => Cleaned(PriceCell(p)) = <<a, b, Dot, d>>
         /\ p.price.whole = <<a, b, c>> => Cleaned(PriceCell(p)) = <<a, b, c, Dot, d>>
<1>1. /\ a \in PriceTokens /\ b \in PriceTokens /\ c \in PriceTokens /\ d \in PriceTokens /\ d \in Groups
      /\ Dot \in PriceTokens /\ Comma \in PriceTokens
  BY Marks DEF Groups
<1>2. ASSUME NEW w \in Seq(PriceTokens), WholeOf(p) = w
      PROVE  PriceCell(p) = <<"currency">> \o (w \o (<<MarkOf(p)>> \o <<d>>))
  BY <1>1, <1>2, PriceCellIs
<1>3. /\ <<a>> \in Seq(PriceTokens) /\ <<a, b>> \in Seq(PriceTokens) /\ <<a, b, c>> \in Seq(PriceTokens)
      /\ \A x \in PriceTokens : <<a, x, b>> \in Seq(PriceTokens) /\ <<a, x, b, x, c>> \in Seq(PriceTokens)
  BY <1>1
<1> DEFINE plain1 == <<"currency">> \o <<a, Dot, d>>
           plain2 == <<"currency">> \o <<a, b, Dot, d>>
           plain3 == <<"currency">> \o <<a, b, c, Dot, d>>
           comma2 == <<"currency">> \o <<a, Comma, b, Dot, d>>
           comma3 == <<"currency">> \o <<a, Comma, b, Comma, c, Dot, d>>
           dot1 == <<"currency">> \o <<a, Comma, d>>
           dot2 == <<"currency">> \o <<a, Dot, b, Comma, d>>
           dot3 == <<"currency">> \o <<a, Dot, b, Dot, c, Comma, d>>
<1>a. Cleaned(plain1) = <<a, Dot, d>> /\ Cleaned(plain2) = <<a, b, Dot, d>> /\ Cleaned(plain3) = <<a, b, c, Dot, d>>
  BY <1>1, PlainDecimals
<1>b. Cleaned(comma2) = <<a, b, Dot, d>> /\ Cleaned(comma3) = <<a, b, c, Dot, d>>
  BY <1>1, CleanedThousands
<1>c. Cleaned(dot1) = <<a, Dot, d>> /\ Cleaned(dot2) = <<a, b, Dot, d>> /\ Cleaned(dot3) = <<a, b, c, Dot, d>>
  BY CleanedPortuguese
<1>4. CASE p.style = "INT"
  <2>1. WholeOf(p) = p.price.whole /\ MarkOf(p) = Dot  BY <1>4 DEF WholeOf, MarkOf
  <2>2. CASE p.price.whole = <<a>>
    <3>1. PriceCell(p) = <<"currency">> \o (<<a>> \o (<<Dot>> \o <<d>>))
      BY <1>2, <1>3, <2>1, <2>2
    <3>2. PriceCell(p) = plain1  BY <1>1, <3>1, WithDecimals
    <3>3. Cleaned(PriceCell(p)) = <<a, Dot, d>>
      <4> HIDE DEF plain1
      <4> QED BY <1>a, <3>2
    <3> QED BY <2>2, <3>3
  <2>3. CASE p.price.whole = <<a, b>>
    <3>1. PriceCell(p) = <<"currency">> \o (<<a, b>> \o (<<Dot>> \o <<d>>))
      BY <1>2, <1>3, <2>1, <2>3
    <3>2. PriceCell(p) = plain2  BY <1>1, <3>1, WithDecimals
    <3>3. Cleaned(PriceCell(p)) = <<a, b, Dot, d>>
      <4> HIDE DEF plain2
      <4> QED BY <1>a, <3>2
    <3> QED BY <2>3, <3>3
  <2>4. CASE p.price.whole = <<a, b, c>>
    <3>1. PriceCell(p) = <<"currency">> \o (<<a, b, c>> \o (<<Dot>> \o <<d>>))
      BY <1>2, <1>3, <2>1, <2>4
    <3>2. PriceCell(p) = plain3  BY <1>1, <3>1, WithDecimals
    <3>3. Cleaned(PriceCell(p)) = <<a, b, c, Dot, d>>
      <4> HIDE DEF plain3
      <4> QED BY <1>a, <3>2
    <3> QED BY <2>4, <3>3
  <2> QED BY <2>2, <2>3, <2>4
<1>5. CASE p.style = "USD"
  <2>1. WholeOf(p) = Grouped(p.price.whole, Comma) /\ MarkOf(p) = Dot
    BY <1>5 DEF WholeOf, MarkOf
  <2>2. /\ Grouped(<<a>>, Comma) = <<a>> /\ Grouped(<<a, b>>, Comma) = <<a, Comma, b>>
        /\ Grouped(<<a, b, c>>, Comma) = <<a, Comma, b, Comma, c>>
    BY <1>1, GroupedAre
  <2>3. CASE p.price.whole = <<a>>
    <3>1. WholeOf(p) = <<a>>  BY <2>1, <2>2, <2>3
    <3>2. PriceCell(p) = <<"currency">> \o (<<a>> \o (<<Dot>> \o <<d>>))
      BY <1>1, <1>2, <1>3, <2>1, <3>1
    <3>3. PriceCell(p) = plain1  BY <1>1, <3>2, WithDecimals
    <3>4. Cleaned(PriceCell(p)) = <<a, Dot, d>>
      <4> HIDE DEF plain1
      <4> QED BY <1>a, <3>3
    <3> QED BY <2>3, <3>4
  <2>4. CASE p.price.whole = <<a, b>>
    <3>1. WholeOf(p) = <<a, Comma, b>>  BY <2>1, <2>2, <2>4
    <3>2. PriceCell(p) = <<"currency">> \o (<<a, Comma, b>> \o (<<Dot>> \o <<d>>))
      BY <1>1, <1>2, <1>3, <2>1, <3>1
    <3>3. PriceCell(p) = comma2  BY <1>1, <3>2, WithDecimals
    <3>4. Cleaned(PriceCell(p)) = <<a, b, Dot, d>>
      <4> HIDE DEF comma2
      <4> QED BY <1>b, <3>3
    <3> QED BY <2>4, <3>4
  <2>5. CASE p.price.whole = <<a, b, c>>
    <3>1. WholeOf(p) = <<a, Comma, b, Comma, c>>  BY <2>1, <2>2, <2>5
    <3>2. PriceCell(p) = <<"currency">> \o (<<a, Comma, b, Comma, c>> \o (<<Dot>> \o <<d>>))
      BY <1>1, <1>2, <1>3, <2>1, <3>1
    <3>3. PriceCell(p) = comma3  BY <1>1, <3>2, WithDecimals
    <3>4. Cleaned(PriceCell(p)) = <<a, b, c, Dot, d>>
      <4> HIDE DEF comma3
      <4> QED BY <1>b, <3>3
    <3> QED BY <2>5, <3>4
  <2> QED BY <2>3, <2>4, <2>5
<1>6. CASE p.style = "BRL"
  <2>1. WholeOf(p) = Grouped(p.price.whole, Dot) /\ MarkOf(p) = Comma
    BY <1>6 DEF WholeOf, MarkOf
  <2>2. /\ Grouped(<<a>>, Dot) = <<a>> /\ Grouped(<<a, b>>, Dot) = <<a, Dot, b>>
        /\ Grouped(<<a, b, c>>, Dot) = <<a, Dot, b, Dot, c>>
    BY <1>1, GroupedAre
  <2>3. CASE p.price.whole = <<a>>
    <3>1. WholeOf(p) = <<a>>  BY <2>1, <2>2, <2>3
    <3>2. PriceCell(p) = <<"currency">> \o (<<a>> \o (<<Comma>> \o <<d>>))
      BY <1>1, <1>2, <1>3, <2>1, <3>1
    <3>3. PriceCell(p) = dot1  BY <1>1, <3>2, WithDecimals
    <3>4. Cleaned(PriceCell(p)) = <<a, Dot, d>>
      <4> HIDE DEF dot1
      <4> QED BY <1>c, <3>3
    <3> QED BY <2>3, <3>4
  <2>4. CASE p.price.whole = <<a, b>>
    <3>1. WholeOf(p) = <<a, Dot, b>>  BY <2>1, <2>2, <2>4
    <3>2. PriceCell(p) = <<"currency">> \o (<<a, Dot, b>> \o (<<Comma>> \o <<d>>))
      BY <1>1, <1>2, <1>3, <2>1, <3>1
    <3>3. PriceCell(p) = dot2  BY <1>1, <3>2, WithDecimals
    <3>4. Cleaned(PriceCell(p)) = <<a, b, Dot, d>>
      <4> HIDE DEF dot2
      <4> QED BY <1>c, <3>3
    <3> QED BY <2>4, <3>4
  <2>5. CASE p.price.whole = <<a, b, c>>
    <3>1. WholeOf(p) = <<a, Dot, b, Dot, c>>  BY <2>1, <2>2, <2>5
    <3>2. PriceCell(p) = <<"currency">> \o (<<a, Dot, b, Dot, c>> \o (<<Comma>> \o <<d>>))
      BY <1>1, <1>2, <1>3, <2>1, <3>1
    <3>3. PriceCell(p) = dot3  BY <1>1, <3>2, WithDecimals
    <3>4. Cleaned(PriceCell(p)) = <<a, b, c, Dot, d>>
      <4> HIDE DEF dot3
      <4> QED BY <1>c, <3>3
    <3> QED BY <2>5, <3>4
  <2> QED BY <2>3, <2>4, <2>5
<1> QED BY <1>4, <1>5, <1>6 DEF Styles

(* A price in any of the styles is read as the number it stands for.       *)
LEMMA PriceSurvives ==
  ASSUME NEW p, p.price \in PriceTexts, p.style \in Styles
  PROVE  ParsePrice(PriceCell(p)) = p.price /\ Positive(p.price)
<1>1. PICK a \in {"7", "234"}, b \in {"7", "234"}, c \in {"7", "234"}, d \in {"50", "00"} :
        \/ p.price = [whole |-> <<a>>, part |-> <<>>]
        \/ \E w \in {<<a>>, <<a, b>>, <<a, b, c>>} : p.price = [whole |-> w, part |-> <<d>>]
  BY PriceShapes
<1>2. /\ a \in Groups /\ b \in Groups /\ c \in Groups /\ d \in Groups /\ a # "00"
      /\ a \in PriceTokens /\ d \in PriceTokens
  BY Marks DEF Groups
<1>3. CASE p.price = [whole |-> <<a>>, part |-> <<>>]
  <2> DEFINE w == <<a>>  k == <<"currency">>
  <2>1. w \in Seq(PriceTokens) /\ Len(w) = 1 /\ w[1] = a  BY <1>2
  <2>2. WholeOf(p) = w
    <3>1. p.price.whole = w /\ Dot \in PriceTokens /\ Comma \in PriceTokens
      BY <1>3, Marks
    <3>a. b \in PriceTokens /\ c \in PriceTokens  BY <1>2, Marks
    <3>b. /\ Grouped(<<a>>, Dot) = <<a>> /\ Grouped(<<a, b>>, Dot) = <<a, Dot, b>>
          /\ Grouped(<<a, b, c>>, Dot) = <<a, Dot, b, Dot, c>>
      BY <1>2, <3>1, <3>a, GroupedAre
    <3>c. /\ Grouped(<<a>>, Comma) = <<a>> /\ Grouped(<<a, b>>, Comma) = <<a, Comma, b>>
          /\ Grouped(<<a, b, c>>, Comma) = <<a, Comma, b, Comma, c>>
      BY <1>2, <3>1, <3>a, GroupedAre
    <3>2. Grouped(<<a>>, Dot) = <<a>> /\ Grouped(<<a>>, Comma) = <<a>>
      BY <3>b, <3>c
    <3>3. CASE p.style = "BRL"  BY <3>1, <3>2, <3>3 DEF WholeOf
    <3>4. CASE p.style # "BRL"  BY <3>1, <3>2, <3>4 DEF WholeOf
    <3> QED BY <3>3, <3>4
  <2>3. Avoids(w, {"currency"}) /\ Avoids(w, {Comma})
    <3> HIDE DEF w
    <3>1. a # "currency" /\ a # Comma  BY <1>2, Marks
    <3> QED BY <2>1, <3>1 DEF Avoids
  <2> HIDE DEF w
  <2>4. PriceCell(p) = k \o w
    <3>1. p.price.part = <<>>  BY <1>3
    <3> QED BY <1>2, <2>1, <2>2, <3>1, PriceCellIs
  <2>5. Cleaned(k \o w) = w  BY <2>1, <2>3, CleanedPlain
  <2> HIDE DEF k
  <2>6. 1 \in 1 .. Len(w) /\ (\A i \in 1 .. 1 : w[i] \in Groups) /\ ~ (1 < Len(w))
    BY <1>2, <2>1
  <2>7. ParsePrice(k \o w) = [whole |-> SubSeq(w, 1, 1), part |-> IF 1 = Len(w) THEN <<>> ELSE <<w[1 + 2]>>]
    BY <2>1, <2>5, <2>6, PriceRead
  <2>8. SubSeq(w, 1, 1) = w
    <3>1. SubSeq(w, 1, Len(w)) = w  BY <2>1, SubSeqFull
    <3> QED BY <2>1, <3>1
  <2>9. ParsePrice(PriceCell(p)) = [whole |-> w, part |-> <<>>]
    BY <2>1, <2>4, <2>7, <2>8
  <2>10. p.price = [whole |-> w, part |-> <<>>]  BY <1>3 DEF w
  <2>11. Positive(p.price)
    <3>1. DOMAIN w = 1 .. Len(w)  BY <2>1
    <3>2. a \in Range(w)  BY <2>1, <3>1 DEF Range
    <3> QED BY <1>2, <2>10, <3>2 DEF Positive
  <2> QED BY <2>9, <2>10, <2>11
<1>4. CASE \E w \in {<<a>>, <<a, b>>, <<a, b, c>>} : p.price = [whole |-> w, part |-> <<d>>]
  <2>1. PICK w \in {<<a>>, <<a, b>>, <<a, b, c>>} : p.price = [whole |-> w, part |-> <<d>>]
    BY <1>4
  <2>2. p.price.part = <<d>> /\ p.price.whole = w  BY <2>1
  <2>3. ParsePrice(PriceCell(p)) = [whole |-> w, part |-> <<d>>]
    <3>1. CASE w = <<a>>
      <4>1. Cleaned(PriceCell(p)) = <<a, Dot, d>>
        BY <1>2, <2>2, <3>1, PriceCellCleaned
      <4> QED BY <1>2, <3>1, <4>1, DecimalsRead
    <3>2. CASE w = <<a, b>>
      <4>1. Cleaned(PriceCell(p)) = <<a, b, Dot, d>>
        BY <1>2, <2>2, <3>2, PriceCellCleaned
      <4> QED BY <1>2, <3>2, <4>1, DecimalsRead
    <3>3. CASE w = <<a, b, c>>
      <4>1. Cleaned(PriceCell(p)) = <<a, b, c, Dot, d>>
        BY <1>2, <2>2, <3>3, PriceCellCleaned
      <4> QED BY <1>2, <3>3, <4>1, DecimalsRead
    <3> QED BY <3>1, <3>2, <3>3
  <2>4. Positive(p.price)
    <3>1. /\ <<a>> \in Seq(Groups) /\ <<a>>[1] = a /\ Len(<<a>>) = 1
          /\ <<a, b>> \in Seq(Groups) /\ <<a, b>>[1] = a /\ Len(<<a, b>>) = 2
          /\ <<a, b, c>> \in Seq(Groups) /\ <<a, b, c>>[1] = a /\ Len(<<a, b, c>>) = 3
      BY <1>2
    <3>2. w \in Seq(Groups) /\ w[1] = a /\ 1 \in 1 .. Len(w)
      <4>1. CASE w = <<a>>  BY <3>1, <4>1
      <4>2. CASE w = <<a, b>>  BY <3>1, <4>2
      <4>3. CASE w = <<a, b, c>>  BY <3>1, <4>3
      <4> QED BY <4>1, <4>2, <4>3
    <3>3. a \in Range(w)  BY <3>2 DEF Range
    <3> QED BY <1>2, <2>2, <3>3 DEF Positive
  <2> QED BY <2>1, <2>3, <2>4
<1> QED BY <1>1, <1>3, <1>4

-----------------------------------------------------------------------------
(* The cells of a sheet.                                                   *)

(* What a cell is made of.                                                 *)
Letters == STRING \cup PriceTokens
  \cup {QuoteMark, Opens, "closed", "time", "Nome", "venda", "Carimbo"}
Cells == Seq(Letters)

(* The letters that proofs speak of.                                       *)
LEMMA LettersAre ==
  /\ STRING \subseteq Letters /\ PriceTokens \subseteq Letters
  /\ QuoteMark \in Letters /\ Comma \in Letters /\ Opens \in Letters /\ "closed" \in Letters
  /\ Stamp \in Cells /\ <<"time">> \in Cells /\ <<"Nome">> \in Cells /\ <<"venda">> \in Cells
  /\ <<>> \in Cells /\ Stamp[1] = "Carimbo"
<1>1. Comma \in Letters  BY Marks DEF Letters
<1> QED BY <1>1 DEF Letters, Cells, Stamp

(* The digits of a price are not an empty cell.                            *)
LEMMA PriceCellTypes ==
  ASSUME NEW p, p.price \in PriceTexts, p.style \in Styles
  PROVE  PriceCell(p) \in Cells /\ PriceCell(p) # <<>>
<1>1. PICK a \in {"7", "234"}, b \in {"7", "234"}, c \in {"7", "234"}, d \in {"50", "00"} :
        \/ p.price = [whole |-> <<a>>, part |-> <<>>]
        \/ \E w \in {<<a>>, <<a, b>>, <<a, b, c>>} : p.price = [whole |-> w, part |-> <<d>>]
  BY PriceShapes
<1>2. a \in PriceTokens /\ b \in PriceTokens /\ c \in PriceTokens /\ d \in PriceTokens
      /\ Dot \in PriceTokens /\ Comma \in PriceTokens /\ "currency" \in PriceTokens
  BY Marks DEF Groups, PriceTokens
<1> DEFINE P == {<<a>>, <<a, b>>, <<a, b, c>>}
<1>3. p.price.whole \in P /\ (p.price.part = <<>> \/ p.price.part = <<d>>)  BY <1>1
<1>4. P \subseteq Seq(PriceTokens)  BY <1>2
<1>5. ASSUME NEW x \in {Dot, Comma} PROVE \A w \in P : Grouped(w, x) \in Seq(PriceTokens)
  <2>1. x \in PriceTokens  BY <1>2, <1>5
  <2>2. /\ Grouped(<<a>>, x) = <<a>> /\ Grouped(<<a, b>>, x) = <<a, x, b>>
        /\ Grouped(<<a, b, c>>, x) = <<a, x, b, x, c>>
    BY <1>2, <2>1, GroupedAre
  <2>3. <<a>> \in Seq(PriceTokens) /\ <<a, x, b>> \in Seq(PriceTokens) /\ <<a, x, b, x, c>> \in Seq(PriceTokens)
    BY <1>2, <2>1
  <2> QED BY <2>2, <2>3
<1>6. WholeOf(p) \in Seq(PriceTokens)
  <2> HIDE DEF P
  <2>1. \A w \in P : Grouped(w, Dot) \in Seq(PriceTokens) /\ Grouped(w, Comma) \in Seq(PriceTokens)
    BY <1>5
  <2> QED BY <1>3, <1>4, <2>1 DEF WholeOf
<1> DEFINE k == <<"currency">>  w == WholeOf(p)  m == MarkOf(p)
<1>7. k \in Seq(PriceTokens) /\ Len(k) = 1  BY <1>2
<1>8. m \in PriceTokens  BY <1>2 DEF MarkOf
<1>9. /\ p.price.part = <<>> => PriceCell(p) = k \o w
      /\ p.price.part = <<d>> => PriceCell(p) = k \o (w \o (<<m>> \o <<d>>))
  BY <1>2, <1>6, PriceCellIs
<1> HIDE DEF k, w, m, P
<1>10. <<m>> \in Seq(PriceTokens) /\ <<d>> \in Seq(PriceTokens)  BY <1>2, <1>8
<1>11. <<m>> \o <<d>> \in Seq(PriceTokens)  BY <1>10, ConcatAppend
<1>a. w \in Seq(PriceTokens)  BY <1>6 DEF w
<1>12. w \o (<<m>> \o <<d>>) \in Seq(PriceTokens)  BY <1>11, <1>a, ConcatAppend
<1>13. ASSUME NEW v \in Seq(PriceTokens) PROVE k \o v \in Seq(PriceTokens) /\ k \o v # <<>>
  <2>1. k \o v \in Seq(PriceTokens) /\ Len(k \o v) = Len(k) + Len(v)
    BY <1>7, ConcatProperties
  <2>2. Len(k \o v) # 0  BY <1>7, <2>1
  <2> DEFINE u == k \o v
  <2> HIDE DEF u
  <2>3. Len(<<>>) = 0  OBVIOUS
  <2>4. u # <<>>  BY <2>2, <2>3 DEF u
  <2> QED BY <2>1, <2>4 DEF u
<1>14. PriceCell(p) \in Seq(PriceTokens) /\ PriceCell(p) # <<>>
  BY <1>3, <1>9, <1>a, <1>12, <1>13
<1> QED BY <1>14, LettersAre, SeqMonotonic DEF Cells

(* The cell of a name, and what of it the parser will look for.            *)
LEMMA NameCellTypes ==
  ASSUME NEW p \in Product, CsvParserAssumption
  PROVE  NameCell(p) \in Cells /\ NameCell(p) # <<>> /\ Stamp[1] \notin Range(NameCell(p))
<1> DEFINE n == p.name  r == p.region  w == Stamp[1]
<1>1. n \in Titled /\ r \in Regions \cup {"none"}  BY DEF Product
<1>2. n \in Seq(STRING) /\ n # <<>> /\ w \notin Range(n)
  BY <1>1 DEF CsvParserAssumption
<1>3. n \in Cells  BY <1>2, LettersAre, SeqMonotonic DEF Cells
<1> HIDE DEF n, r, w
<1>4. CASE r = "none"
  <2>1. NameCell(p) = n  BY <1>4 DEF NameCell, n, r
  <2> QED BY <1>2, <1>3, <2>1 DEF w
<1>5. CASE r # "none"
  <2> DEFINE t == <<Opens, r, "closed">>
  <2>1. r \in Letters /\ r # w  BY <1>1, <1>5, LettersAre DEF CsvParserAssumption, w
  <2>2. Opens # w /\ "closed" # w  BY LettersAre DEF Opens, w
  <2>3. t \in Seq(Letters) /\ Len(t) = 3 /\ \A i \in 1 .. 3 : t[i] # w
    <3>1. t \in Seq(Letters)  BY <2>1, LettersAre
    <3>2. t[1] = Opens /\ t[2] = r /\ t[3] = "closed" /\ Len(t) = 3  OBVIOUS
    <3> HIDE DEF t
    <3> QED BY <2>1, <2>2, <3>1, <3>2
  <2>4. NameCell(p) = n \o t  BY <1>5 DEF NameCell, n, r
  <2> HIDE DEF t
  <2> DEFINE u == n \o t
  <2>5. u \in Seq(Letters) /\ Len(u) = Len(n) + Len(t)
        /\ IsAt(n, u, 0) /\ IsAt(t, u, Len(n))
    BY <1>3, <2>3, Joined DEF Cells
  <2> HIDE DEF u
  <2>6. Len(n) \in Nat /\ \A i \in 1 .. Len(n) : n[i] # w
    <3>1. DOMAIN n = 1 .. Len(n)  BY <1>2
    <3> QED BY <1>2, <3>1 DEF Range
  <2>7. \A i \in 1 .. Len(u) : u[i] # w
    <3> SUFFICES ASSUME NEW i \in 1 .. Len(u) PROVE u[i] # w  OBVIOUS
    <3>1. CASE i <= Len(n)
      <4>1. i \in 1 .. Len(n)  BY <3>1
      <4>2. u[0 + i] = n[i]  BY <2>5, <4>1 DEF IsAt
      <4>3. 0 + i = i  OBVIOUS
      <4> QED BY <2>6, <4>1, <4>2, <4>3
    <3>2. CASE i > Len(n)
      <4> DEFINE j == i - Len(n)
      <4>1. j \in 1 .. Len(t) /\ Len(n) + j = i  BY <2>3, <2>5, <2>6, <3>2
      <4> HIDE DEF j
      <4>2. u[Len(n) + j] = t[j]  BY <2>5, <4>1 DEF IsAt
      <4> QED BY <2>3, <4>1, <4>2
    <3> QED BY <2>6, <3>1, <3>2
  <2>8. w \notin Range(u)
    <3>1. DOMAIN u = 1 .. Len(u)  BY <2>5
    <3> QED BY <2>7, <3>1 DEF Range
  <2>9. u # <<>>
    <3>1. Len(u) # 0  BY <2>3, <2>5, <2>6
    <3>2. Len(<<>>) = 0  OBVIOUS
    <3> QED BY <3>1, <3>2
  <2>10. NameCell(p) = u  BY <2>4 DEF u
  <2> QED BY <2>5, <2>8, <2>9, <2>10 DEF Cells, w
<1> QED BY <1>4, <1>5

-----------------------------------------------------------------------------
(* The lines of a sheet.                                                   *)

(* The blocks of a line, one for each platform of the sheet.               *)
LineBlock(l, c) ==
  CASE l = "header" -> Header(c.heading)
    [] l = "subHeader" -> SubHeader
    [] OTHER -> Data(c.product)
LineBlocks(l) == [i \in 1 .. Len(sheet) |-> LineBlock(l, sheet[i])]
Width(l) == IF l = "header" /\ layout = 3 THEN 1 ELSE layout
CellsOf(l) == FlattenSeq(LineBlocks(l))

(* One element appended.                                                   *)
LEMMA Appended ==
  ASSUME NEW T, NEW s \in Seq(T), NEW x \in T
  PROVE  /\ Append(s, x) \in Seq(T) /\ Len(Append(s, x)) = Len(s) + 1 /\ Append(s, x)[Len(s) + 1] = x
         /\ \A i \in 1 .. Len(s) : Append(s, x)[i] = s[i]
  OBVIOUS

(* A block has its three cells first.                                      *)
LEMMA BlockIs ==
  ASSUME layout \in {3, 4}, NEW a \in Cells, NEW b \in Cells, NEW c \in Cells
  PROVE  /\ Block(<<a, b, c>>) \in Seq(Cells) /\ Len(Block(<<a, b, c>>)) = layout
         /\ Block(<<a, b, c>>)[1] = a /\ Block(<<a, b, c>>)[2] = b /\ Block(<<a, b, c>>)[3] = c
         /\ layout = 4 => Block(<<a, b, c>>)[4] = <<>>
<1> DEFINE t == <<a, b, c>>  e == <<>>  u == Block(t)
<1>1. t \in Seq(Cells) /\ Len(t) = 3 /\ t[1] = a /\ t[2] = b /\ t[3] = c  OBVIOUS
<1>2. e \in Cells  BY LettersAre
<1>3. u = IF layout = 3 THEN t ELSE t \o <<e>>  BY DEF Block
<1> HIDE DEF t, e, u
<1>4. CASE layout = 3
  <2>1. u = t  BY <1>3, <1>4
  <2>2. u \in Seq(Cells) /\ Len(u) = layout /\ u[1] = a /\ u[2] = b /\ u[3] = c
    BY <1>1, <1>4, <2>1
  <2>3. ~ (layout = 4)  BY <1>4
  <2> QED BY <2>2, <2>3 DEF u, t
<1>5. CASE layout = 4
  <2>1. u = Append(t, e)  BY <1>1, <1>2, <1>3, <1>5, ConcatAppend
  <2>2. u \in Seq(Cells) /\ Len(u) = 4 /\ u[1] = a /\ u[2] = b /\ u[3] = c /\ u[4] = e
    <3>1. /\ Append(t, e) \in Seq(Cells) /\ Len(Append(t, e)) = Len(t) + 1 /\ Append(t, e)[Len(t) + 1] = e
          /\ \A i \in 1 .. Len(t) : Append(t, e)[i] = t[i]
      <4>1. t \in Seq(Cells) /\ e \in Cells  BY <1>1, <1>2
      <4> QED BY <4>1, Appended
    <3>2. /\ u \in Seq(Cells) /\ Len(u) = Len(t) + 1 /\ u[Len(t) + 1] = e
          /\ \A i \in 1 .. Len(t) : u[i] = t[i]
      BY <2>1, <3>1
    <3>3. 1 \in 1 .. Len(t) /\ 2 \in 1 .. Len(t) /\ 3 \in 1 .. Len(t) /\ Len(t) + 1 = 4
      BY <1>1
    <3> QED BY <1>1, <3>2, <3>3
  <2> QED BY <1>5, <2>2 DEF u, t, e
<1> QED BY <1>4, <1>5

(* The block of a product, and of none.                                    *)
LEMMA DataAre ==
  ASSUME CsvParserAssumption, layout \in {3, 4}, NEW p \in Product \cup {NoProduct}
  PROVE  /\ Data(p) \in Seq(Cells) /\ Len(Data(p)) = layout
         /\ p.filled => p \in Product /\ Data(p)[2] = NameCell(p) /\ Data(p)[3] = PriceCell(p)
         /\ ~ p.filled => Data(p)[2] = <<>>
<1>1. CASE p = NoProduct
  <2>1. ~ p.filled  BY <1>1 DEF NoProduct
  <2> DEFINE e == <<>>
  <2>2. e \in Cells  BY LettersAre
  <2>3. Data(p) = Block(<<e, e, e>>)  BY <2>1 DEF Data
  <2> HIDE DEF e
  <2>4. Data(p) \in Seq(Cells) /\ Len(Data(p)) = layout /\ Data(p)[2] = e
    BY <2>2, <2>3, BlockIs
  <2> QED BY <2>1, <2>4 DEF e
<1>2. CASE p \in Product
  <2>1. p.filled /\ p.price \in PriceTexts /\ p.style \in Styles
    BY <1>2 DEF Product
  <2> DEFINE a == <<"time">>  b == NameCell(p)  c == PriceCell(p)
  <2>2. a \in Cells /\ b \in Cells /\ c \in Cells
    BY <1>2, <2>1, LettersAre, NameCellTypes, PriceCellTypes
  <2>3. Data(p) = Block(<<a, b, c>>)  BY <2>1 DEF Data
  <2> HIDE DEF a, b, c
  <2>4. Data(p) \in Seq(Cells) /\ Len(Data(p)) = layout /\ Data(p)[2] = b /\ Data(p)[3] = c
    BY <2>2, <2>3, BlockIs
  <2> QED BY <1>2, <2>1, <2>4 DEF b, c
<1> QED BY <1>1, <1>2

(* The sub-header's time is in its first cell only.                        *)
LEMMA SubHeaderIs ==
  ASSUME layout \in {3, 4}
  PROVE  /\ SubHeader \in Seq(Cells) /\ Len(SubHeader) = layout
         /\ SubHeader[1] = Stamp /\ \A j \in 1 .. layout : SubHeader[j] = Stamp => j = 1
<1> DEFINE b == <<"Nome">>  c == <<"venda">>
<1>1. Stamp \in Cells /\ b \in Cells /\ c \in Cells  BY LettersAre
<1>2. Stamp # b /\ Stamp # c /\ Stamp # <<>>
  <2>1. Stamp[1] = "Carimbo" /\ b[1] = "Nome" /\ c[1] = "venda" /\ Len(Stamp) = 1 /\ Len(<<>>) = 0
    BY DEF Stamp
  <2> HIDE DEF b, c
  <2> QED BY <2>1
<1>3. SubHeader = Block(<<Stamp, b, c>>)  BY DEF SubHeader
<1> HIDE DEF b, c
<1>4. /\ SubHeader \in Seq(Cells) /\ Len(SubHeader) = layout
      /\ SubHeader[1] = Stamp /\ SubHeader[2] = b /\ SubHeader[3] = c
      /\ layout = 4 => SubHeader[4] = <<>>
  BY <1>1, <1>3, BlockIs
<1>5. ASSUME NEW j \in 1 .. layout, SubHeader[j] = Stamp PROVE j = 1
  <2>1. j = 1 \/ j = 2 \/ j = 3 \/ (layout = 4 /\ j = 4)  OBVIOUS
  <2> QED BY <1>2, <1>4, <1>5, <2>1
<1> QED BY <1>4, <1>5

(* The header's name is alone, or second of four.                          *)
LEMMA HeaderIs ==
  ASSUME layout \in {3, 4}, NEW h \in STRING
  PROVE  /\ layout = 3 => Header(h) \in Seq(Cells) /\ Len(Header(h)) = 1 /\ Header(h)[1] = <<h>>
         /\ layout = 4 => /\ Header(h) \in Seq(Cells) /\ Len(Header(h)) = 4 /\ Header(h)[2] = <<h>>
                          /\ \A j \in {1, 3, 4} : Header(h)[j] = <<>>
<1> DEFINE a == <<h>>  e == <<>>
<1>1. a \in Cells /\ e \in Cells
  <2>1. h \in Letters  BY LettersAre
  <2> QED BY <2>1, LettersAre DEF Cells
<1>2. Header(h) = IF layout = 3 THEN <<a>> ELSE <<e, a, e, e>>  BY DEF Header
<1> HIDE DEF a, e
<1>3. CASE layout = 3
  <2>1. <<a>> \in Seq(Cells) /\ Len(<<a>>) = 1 /\ <<a>>[1] = a  BY <1>1
  <2>2. Header(h) = <<a>>  BY <1>2, <1>3
  <2>3. Header(h) \in Seq(Cells) /\ Len(Header(h)) = 1 /\ Header(h)[1] = a
    BY <2>1, <2>2
  <2>4. ~ (layout = 4)  BY <1>3
  <2> QED BY <2>3, <2>4 DEF a
<1>4. CASE layout = 4
  <2> DEFINE t == <<e, a, e, e>>
  <2>1. t \in Seq(Cells) /\ Len(t) = 4 /\ t[1] = e /\ t[2] = a /\ t[3] = e /\ t[4] = e
    BY <1>1
  <2> HIDE DEF t
  <2>2. Header(h) = t  BY <1>2, <1>4 DEF t
  <2>3. Header(h) \in Seq(Cells) /\ Len(Header(h)) = 4 /\ Header(h)[2] = a
    BY <2>1, <2>2
  <2>4. \A j \in {1, 3, 4} : Header(h)[j] = e  BY <2>1, <2>2
  <2>5. ~ (layout = 3)  BY <1>4
  <2> QED BY <2>3, <2>4, <2>5 DEF a, e
<1> QED BY <1>3, <1>4

(* All blocks of a line are of one width.                                  *)
LEMMA BlockTypes ==
  ASSUME CsvParserAssumption, CsvParserTypeOK, NEW l \in Lines, NEW i \in 1 .. Len(sheet)
  PROVE  LineBlock(l, sheet[i]) \in Seq(Cells) /\ Len(LineBlock(l, sheet[i])) = Width(l)
<1> DEFINE c == sheet[i]
<1>1. layout \in {3, 4} /\ c.heading \in STRING /\ c.product \in Product \cup {NoProduct}
  <2>1. c \in [heading : Headings, product : Product \cup {NoProduct}]
    <3> DEFINE R == [heading : Headings, product : Product \cup {NoProduct}]
    <3>1. sheet \in Seq(R)  BY DEF CsvParserTypeOK
    <3> HIDE DEF R
    <3>2. sheet[i] \in R  BY <3>1
    <3> QED BY <3>2 DEF R
  <2> QED BY <2>1 DEF CsvParserTypeOK, CsvParserAssumption
<1> HIDE DEF c
<1>2. CASE l = "header"
  <2>1. LineBlock(l, c) = Header(c.heading) /\ Width(l) = IF layout = 3 THEN 1 ELSE layout
    BY <1>2 DEF LineBlock, Width
  <2> DEFINE h == c.heading
  <2>a. h \in STRING  BY <1>1
  <2>b. LineBlock(l, c) = Header(h)  BY <2>1
  <2> HIDE DEF h
  <2>c. /\ layout = 3 => Header(h) \in Seq(Cells) /\ Len(Header(h)) = 1 /\ Header(h)[1] = <<h>>
        /\ layout = 4 => /\ Header(h) \in Seq(Cells) /\ Len(Header(h)) = 4 /\ Header(h)[2] = <<h>>
                         /\ \A j \in {1, 3, 4} : Header(h)[j] = <<>>
    BY <1>1, <2>a, HeaderIs
  <2>2. CASE layout = 3  BY <2>1, <2>2, <2>b, <2>c DEF c
  <2>3. CASE layout = 4  BY <2>1, <2>3, <2>b, <2>c DEF c
  <2> QED BY <1>1, <2>2, <2>3
<1>3. CASE l = "subHeader"
  <2>1. LineBlock(l, c) = SubHeader /\ Width(l) = layout
    BY <1>3 DEF LineBlock, Width
  <2> QED BY <1>1, <2>1, SubHeaderIs DEF c
<1>4. CASE l = "data"
  <2>1. LineBlock(l, c) = Data(c.product) /\ Width(l) = layout
    BY <1>4 DEF LineBlock, Width
  <2> QED BY <1>1, <2>1, DataAre DEF c
<1> QED BY <1>2, <1>3, <1>4 DEF Lines

(* Each line is read back as the cells of its blocks.                      *)
LEMMA LineIsRead ==
  ASSUME CsvParserAssumption, CsvParserTypeOK, sheet # <<>>, NEW l \in Lines
  PROVE  /\ ParseLine(Exported[l]) = CellsOf(l)
         /\ CellsOf(l) \in Seq(Cells) /\ Len(CellsOf(l)) = Len(sheet) * Width(l)
         /\ \A m \in 1 .. Len(sheet) : IsAt(LineBlock(l, sheet[m]), CellsOf(l), (m - 1) * Width(l))
<1> DEFINE n == Len(sheet)  b == LineBlocks(l)  W == Width(l)  s == CellsOf(l)
<1>1. n \in Nat /\ n > 0 /\ layout \in {3, 4}  BY EmptySeq DEF CsvParserTypeOK
<1>2. Exported[l] = WriteLine(s)
  BY DEF Exported, CellsOf, LineBlocks, LineBlock
<1>3. W \in {1, 3, 4}  BY <1>1 DEF Width
<1>4. \A i \in 1 .. n : LineBlock(l, sheet[i]) \in Seq(Cells) /\ Len(LineBlock(l, sheet[i])) = W
  BY BlockTypes
<1>5. b \in Seq(Seq(Cells)) /\ Len(b) = n /\ \A i \in 1 .. n : b[i] = LineBlock(l, sheet[i])
  BY <1>1, <1>4 DEF LineBlocks
<1>6. s = FlattenSeq(b)  BY DEF CellsOf
<1> HIDE DEF n, b, W, s
<1>7. \A m \in 1 .. Len(b) : Len(b[m]) = W  BY <1>4, <1>5
<1>8. /\ s \in Seq(Cells) /\ Len(s) = Len(b) * W
      /\ \A m \in 1 .. Len(b) : IsAt(b[m], s, (m - 1) * W)
  BY <1>3, <1>5, <1>6, <1>7, Blocks
<1>9. s # <<>>
  <2>1. Len(s) # 0  BY <1>1, <1>3, <1>5, <1>8
  <2>2. Len(<<>>) = 0  OBVIOUS
  <2> QED BY <2>1, <2>2
<1>10. s \in Seq(Seq(Letters))  BY <1>8 DEF Cells
<1>11. ParseLine(WriteLine(s)) = s  BY <1>9, <1>10, LettersAre, RoundTrip
<1>12. ParseLine(Exported[l]) = s  BY <1>2, <1>11
<1>13. \A m \in 1 .. n : IsAt(LineBlock(l, sheet[m]), s, (m - 1) * W)  BY <1>5, <1>8
<1> QED BY <1>5, <1>8, <1>12, <1>13 DEF n, W, s

-----------------------------------------------------------------------------
(* The places of headings and times.                                       *)

(* A place is a place within a block.                                      *)
LEMMA Within ==
  ASSUME NEW n \in Nat, NEW W \in {1, 3, 4}, NEW i \in 1 .. n * W
  PROVE  \E m \in 1 .. n : \E j \in 1 .. W : i = (m - 1) * W + j
<1>1. CASE W = 1
  <2>1. i \in 1 .. n /\ 1 \in 1 .. W /\ i = (i - 1) * W + 1  BY <1>1
  <2> QED BY <2>1
<1>2. CASE W = 3
  <2> DEFINE q == (i - 1) \div 3  r == (i - 1) % 3
  <2>1. i - 1 = 3 * q + r /\ r \in 0 .. 2 /\ q \in Int  BY <1>2
  <2> HIDE DEF q, r
  <2>2. q + 1 \in 1 .. n /\ r + 1 \in 1 .. 3 /\ i = ((q + 1) - 1) * 3 + (r + 1)
    BY <1>2, <2>1
  <2> QED BY <1>2, <2>2
<1>3. CASE W = 4
  <2> DEFINE q == (i - 1) \div 4  r == (i - 1) % 4
  <2>1. i - 1 = 4 * q + r /\ r \in 0 .. 3 /\ q \in Int  BY <1>3
  <2> HIDE DEF q, r
  <2>2. q + 1 \in 1 .. n /\ r + 1 \in 1 .. 4 /\ i = ((q + 1) - 1) * 4 + (r + 1)
    BY <1>3, <2>1
  <2> QED BY <1>3, <2>2
<1> QED BY <1>1, <1>2, <1>3

(* One place in each block.                                                *)
OneOfEach(n, W, d) == [k \in 1 .. n |-> (k - 1) * W + d]
IsOneOfEach(K, n, W, d) == \A m \in 1 .. n : \A j \in 1 .. W : (m - 1) * W + j \in K <=> j = d

Collects(u, s, n, W, d) == Len(u) = n /\ \A k \in 1 .. n : u[k] = s[(k - 1) * W + d]

(* Picking one place of each block gives the cells there.                  *)
LEMMA EachHasOne ==
  ASSUME NEW T, NEW s \in Seq(T), NEW n \in Nat, NEW W \in {1, 3, 4}, NEW d \in 1 .. W,
         Len(s) = n * W, NEW K, IsOneOfEach(K, n, W, d)
  PROVE  Picked(s, K) \in Seq(T) /\ Collects(Picked(s, K), s, n, W, d)
<1> DEFINE f == OneOfEach(n, W, d)  L == K \cap (1 .. Len(s))
<1>1. \A k \in 1 .. n : (k - 1) * W + d \in 1 .. Len(s)
  <2>1. CASE W = 1  BY <2>1
  <2>2. CASE W = 3  BY <2>2
  <2>3. CASE W = 4  BY <2>3
  <2> QED BY <2>1, <2>2, <2>3
<1>2. DOMAIN f = 1 .. n /\ \A k \in 1 .. n : f[k] = (k - 1) * W + d
  BY DEF OneOfEach
<1>3. f \in [1 .. n -> 1 .. Len(s)]  BY <1>1 DEF OneOfEach
<1>4. Rises(f)
  <2>1. \A j, k \in 1 .. n : j < k => (j - 1) * W + d < (k - 1) * W + d
    <3>1. CASE W = 1  BY <3>1
    <3>2. CASE W = 3  BY <3>2
    <3>3. CASE W = 4  BY <3>3
    <3> QED BY <3>1, <3>2, <3>3
  <2> HIDE DEF f
  <2> QED BY <1>2, <2>1 DEF Rises
<1> HIDE DEF f
<1>5. \A k \in 1 .. n : f[k] \in L
  <2>1. \A k \in 1 .. n : (k - 1) * W + d \in K  BY DEF IsOneOfEach
  <2> QED BY <1>1, <1>2, <2>1
<1>6. ASSUME NEW i \in L PROVE \E k \in 1 .. n : i = f[k]
  <2>1. i \in 1 .. n * W  OBVIOUS
  <2>2. PICK m \in 1 .. n : \E j \in 1 .. W : i = (m - 1) * W + j  BY <2>1, Within
  <2>3. PICK j \in 1 .. W : i = (m - 1) * W + j  BY <2>2
  <2>4. j = d  BY <2>3 DEF IsOneOfEach
  <2> QED BY <1>2, <2>3, <2>4
<1>7. L = {f[k] : k \in 1 .. n}
  <2> HIDE DEF L
  <2> QED BY <1>5, <1>6
<1>8. Chooses(s, K, f, n)
  <2>1. Ranks(f, n, Len(s), L)
    <3> HIDE DEF L
    <3> QED BY <1>3, <1>4, <1>7 DEF Ranks
  <2> QED BY <2>1 DEF Chooses
<1>9. /\ Picked(s, K) = Selected(s, f, n)
      /\ Selected(s, f, n) \in Seq(T) /\ Len(Selected(s, f, n)) = n
      /\ \A k \in 1 .. n : Selected(s, f, n)[k] = s[f[k]] /\ f[k] \in 1 .. Len(s) /\ f[k] \in K
  BY <1>8, PickedAre
<1> QED BY <1>2, <1>9 DEF Collects

(* The header read back: a heading in each block, and blank cells.         *)
LEMMA HeaderIsRead ==
  ASSUME CsvParserAssumption, CsvParserTypeOK, sheet # <<>>,
         \A i \in 1 .. Len(sheet) : sheet[i].heading \in Recognised,
         NEW K, K = {i \in 1 .. Len(CellsOf("header")) : CellsOf("header")[i] \in {<<h>> : h \in Recognised}}
  PROVE  /\ Picked(CellsOf("header"), K) \in Seq(Cells) /\ Len(Picked(CellsOf("header"), K)) = Len(sheet)
         /\ \A k \in 1 .. Len(sheet) : Picked(CellsOf("header"), K)[k] = <<sheet[k].heading>>
<1> DEFINE s == CellsOf("header")  n == Len(sheet)  W == Width("header")  R == {<<h>> : h \in Recognised}
           d == IF layout = 3 THEN 1 ELSE 2
<1>0. n \in Nat /\ layout \in {3, 4} /\ "header" \in Lines
  BY EmptySeq DEF CsvParserTypeOK, Lines
<1>1. /\ s \in Seq(Cells) /\ Len(s) = n * W
      /\ \A m \in 1 .. n : IsAt(LineBlock("header", sheet[m]), s, (m - 1) * W)
  BY <1>0, LineIsRead
<1>2. W = (IF layout = 3 THEN 1 ELSE 4) /\ W \in {1, 3, 4} /\ d \in 1 .. W
  BY <1>0 DEF Width
<1>3. \A m \in 1 .. n : sheet[m].heading \in Recognised /\ sheet[m].heading \in STRING
  BY DEF CsvParserAssumption
<1>4. \A m \in 1 .. n : LineBlock("header", sheet[m]) = Header(sheet[m].heading)
  BY DEF LineBlock
<1>5. K = {i \in 1 .. Len(s) : s[i] \in R}  OBVIOUS
<1>6. \A h \in Recognised : <<h>> \in R  OBVIOUS
<1>7. <<>> \notin R
  <2>1. ASSUME NEW h \in Recognised PROVE <<h>> # <<>>  OBVIOUS
  <2> QED BY <2>1
<1> HIDE DEF s, n, W, R
<1>8. ASSUME NEW m \in 1 .. n
      PROVE  /\ s[(m - 1) * W + d] = <<sheet[m].heading>>
             /\ \A j \in 1 .. W : (m - 1) * W + j \in K <=> j = d
  <2> DEFINE h == sheet[m].heading  u == Header(h)  e == <<>>  a == <<h>>
  <2>1. h \in STRING /\ h \in Recognised /\ IsAt(u, s, (m - 1) * W)
    BY <1>1, <1>3, <1>4
  <2>a. a \in R /\ e \notin R  BY <1>6, <1>7, <2>1
  <2> HIDE DEF h
  <2>2. /\ layout = 3 => u \in Seq(Cells) /\ Len(u) = 1 /\ u[1] = a
        /\ layout = 4 => u \in Seq(Cells) /\ Len(u) = 4 /\ u[2] = a /\ \A j \in {1, 3, 4} : u[j] = e
    BY <1>0, <2>1, HeaderIs
  <2> HIDE DEF u, e, a
  <2>3. Len(u) = W /\ u[d] = a /\ \A j \in 1 .. W : j # d => u[j] = e
    <3>1. CASE layout = 3  BY <1>2, <2>2, <3>1
    <3>2. CASE layout = 4
      <4>1. \A j \in 1 .. 4 : j # 2 => j \in {1, 3, 4}  OBVIOUS
      <4> QED BY <1>2, <2>2, <3>2, <4>1
    <3> QED BY <1>0, <3>1, <3>2
  <2> HIDE DEF d
  <2>4. /\ (m - 1) * W \in Nat /\ (m - 1) * W + W <= Len(s)
        /\ \A j \in 1 .. W : s[(m - 1) * W + j] = u[j]
    BY <2>1, <2>3 DEF IsAt
  <2>5. s[(m - 1) * W + d] = a  BY <1>2, <2>3, <2>4
  <2>6. ASSUME NEW j \in 1 .. W PROVE (m - 1) * W + j \in K <=> j = d
    <3>1. (m - 1) * W + j \in 1 .. Len(s)  BY <1>2, <2>4
    <3>2. (m - 1) * W + j \in K <=> u[j] \in R  BY <1>5, <2>4, <3>1
    <3> QED BY <2>3, <2>a, <3>2
  <2> QED BY <2>5, <2>6 DEF a, h
<1>9. IsOneOfEach(K, n, W, d)  BY <1>8 DEF IsOneOfEach
<1> HIDE DEF d
<1>a. n \in Nat  BY <1>0 DEF n
<1>10. Picked(s, K) \in Seq(Cells) /\ Collects(Picked(s, K), s, n, W, d)
  BY <1>a, <1>1, <1>2, <1>9, EachHasOne
<1> QED BY <1>8, <1>10 DEF s, n, Collects

(* The sub-header read back: a time at the start of each block.            *)
CountsPlaces(t, s) == t = [i \in 1 .. Len(s) |-> i]

LEMMA SubHeaderIsRead ==
  ASSUME CsvParserAssumption, CsvParserTypeOK, sheet # <<>>,
         NEW t, CountsPlaces(t, CellsOf("subHeader"))
  PROVE  /\ Picked(t, PlacesOf(CellsOf("subHeader"), Stamp)) \in Seq(Nat)
         /\ Len(Picked(t, PlacesOf(CellsOf("subHeader"), Stamp))) = Len(sheet)
         /\ \A k \in 1 .. Len(sheet) : Picked(t, PlacesOf(CellsOf("subHeader"), Stamp))[k] = (k - 1) * layout + 1
<1> DEFINE s == CellsOf("subHeader")  n == Len(sheet)  W == Width("subHeader")  K == PlacesOf(s, Stamp)
<1>0. n \in Nat /\ layout \in {3, 4} /\ "subHeader" \in Lines /\ W = layout
  BY EmptySeq DEF CsvParserTypeOK, Lines, Width
<1>1. /\ s \in Seq(Cells) /\ Len(s) = n * W
      /\ \A m \in 1 .. n : IsAt(LineBlock("subHeader", sheet[m]), s, (m - 1) * W)
  BY <1>0, LineIsRead
<1>2. \A m \in 1 .. n : LineBlock("subHeader", sheet[m]) = SubHeader
  BY DEF LineBlock
<1>3. K = {i \in 1 .. Len(s) : s[i] = Stamp}  BY DEF PlacesOf
<1>4. t \in Seq(Nat) /\ Len(t) = Len(s) /\ \A i \in 1 .. Len(s) : t[i] = i
  <2>1. Len(s) \in Nat /\ t = [i \in 1 .. Len(s) |-> i]  BY <1>1 DEF CountsPlaces
  <2> HIDE DEF s
  <2> QED BY <2>1
<1> HIDE DEF s, n, W, K
<1>5. ASSUME NEW m \in 1 .. n, NEW j \in 1 .. W PROVE (m - 1) * W + j \in K <=> j = 1
  <2>1. /\ SubHeader \in Seq(Cells) /\ Len(SubHeader) = W
        /\ SubHeader[1] = Stamp /\ \A i \in 1 .. W : SubHeader[i] = Stamp => i = 1
    BY <1>0, SubHeaderIs
  <2>2. IsAt(SubHeader, s, (m - 1) * W)  BY <1>1, <1>2
  <2>3. /\ (m - 1) * W \in Nat /\ (m - 1) * W + W <= Len(s)
        /\ s[(m - 1) * W + j] = SubHeader[j]
    BY <2>1, <2>2 DEF IsAt
  <2>4. (m - 1) * W + j \in 1 .. Len(s)  BY <1>0, <2>3
  <2>5. (m - 1) * W + j \in K <=> SubHeader[j] = Stamp  BY <1>3, <2>3, <2>4
  <2> QED BY <2>1, <2>5
<1>6. IsOneOfEach(K, n, W, 1)  BY <1>5 DEF IsOneOfEach
<1>7. W \in {1, 3, 4} /\ 1 \in 1 .. W /\ Len(t) = n * W  BY <1>0, <1>1, <1>4
<1>b. t \in Seq(Nat) /\ n \in Nat /\ Len(t) = n * W /\ W \in {1, 3, 4} /\ 1 \in 1 .. W
  BY <1>0, <1>4, <1>7
<1>a. Picked(t, K) \in Seq(Nat) /\ Collects(Picked(t, K), t, n, W, 1)
  BY <1>b, <1>6, EachHasOne
<1>8. /\ Picked(t, K) \in Seq(Nat) /\ Len(Picked(t, K)) = n
      /\ \A k \in 1 .. n : Picked(t, K)[k] = t[(k - 1) * W + 1]
  BY <1>a DEF Collects
<1>9. ASSUME NEW k \in 1 .. n PROVE t[(k - 1) * W + 1] = (k - 1) * W + 1
  <2>1. (k - 1) * W + 1 \in 1 .. Len(s)
    <3>1. CASE W = 3  BY <1>0, <1>1, <3>1
    <3>2. CASE W = 4  BY <1>0, <1>1, <3>2
    <3> QED BY <1>0, <3>1, <3>2
  <2> QED BY <1>4, <2>1
<1>10. \A k \in 1 .. n : Picked(t, K)[k] = (k - 1) * layout + 1  BY <1>0, <1>8, <1>9
<1> QED BY <1>8, <1>10 DEF K, s, n

-----------------------------------------------------------------------------
(* The platforms.                                                          *)

(* The platforms the parser finds: those of the sheet, at their columns.   *)
ColumnOf(i) == (i - 1) * layout + 1
IsPlatforms(P) ==
  /\ Len(P) = Len(sheet)
  /\ \A i \in 1 .. Len(sheet) : P[i].name = sheet[i].heading /\ P[i].column = ColumnOf(i)

(* The first of as many as there are.                                      *)
LEMMA FirstOfAll ==
  ASSUME NEW T, NEW s \in Seq(T)
  PROVE  FirstOf(s, Len(s)) = s
<1>1. Len(s) \in Nat  OBVIOUS
<1>2. SubSeq(s, 1, Len(s)) = s  BY SubSeqFull
<1> QED BY <1>1, <1>2 DEF FirstOf

(* The names of the header and the times of the sub-header meet.           *)
LEMMA PlatformsAre ==
  ASSUME CsvParserAssumption, CsvParserTypeOK, sheet # <<>>,
         \A i \in 1 .. Len(sheet) : sheet[i].heading \in Recognised
  PROVE  IsPlatforms(ExtractPlatforms(CellsOf("header"), CellsOf("subHeader")))
<1> DEFINE header == CellsOf("header")  sub == CellsOf("subHeader")  n == Len(sheet)
           platform == {<<h>> : h \in Recognised}
           K == {i \in 1 .. Len(header) : header[i] \in platform}
           named  == Picked(header, K)
           t == [i \in 1 .. Len(sub) |-> i]
           starts == Picked(t, PlacesOf(sub, Stamp))
           names  == IF named = <<>> THEN FirstOf(DefaultNames, Len(starts))
                     ELSE [i \in 1 .. Len(named) |-> named[i][1]]
           found  == FirstOf(starts, Len(names))
           P == ExtractPlatforms(header, sub)
<1>0. n \in Nat /\ n > 0  BY EmptySeq DEF CsvParserTypeOK
<1>1. P = IF found = <<>>
          THEN [i \in 1 .. Len(DefaultNames) |-> [name |-> DefaultNames[i], column |-> 3 * i - 2]]
          ELSE [i \in 1 .. Len(found) |-> [name |-> names[i], column |-> found[i]]]
  BY DEF ExtractPlatforms
<1>2. named \in Seq(Cells) /\ Len(named) = n /\ \A k \in 1 .. n : named[k] = <<sheet[k].heading>>
  BY HeaderIsRead
<1>3. starts \in Seq(Nat) /\ Len(starts) = n /\ \A k \in 1 .. n : starts[k] = ColumnOf(k)
  <2>1. CountsPlaces(t, sub)  BY DEF CountsPlaces
  <2> HIDE DEF t
  <2> QED BY <2>1, SubHeaderIsRead DEF ColumnOf
<1>4. IsPlatforms(P) <=> /\ Len(P) = n
                         /\ \A i \in 1 .. n : P[i].name = sheet[i].heading /\ P[i].column = ColumnOf(i)
  BY DEF IsPlatforms
<1> HIDE DEF named, starts, P, n, header, sub
<1>5. named # <<>>
  <2>1. Len(named) # 0  BY <1>0, <1>2
  <2>2. Len(<<>>) = 0  OBVIOUS
  <2> QED BY <2>1, <2>2
<1>6. Len(names) = n /\ \A i \in 1 .. n : names[i] = sheet[i].heading
  <2>1. names = [i \in 1 .. n |-> named[i][1]]  BY <1>2, <1>5
  <2>2. \A i \in 1 .. n : named[i][1] = sheet[i].heading  BY <1>2
  <2> HIDE DEF names
  <2> QED BY <1>0, <2>1, <2>2
<1> HIDE DEF names
<1>7. found = starts
  <2>1. FirstOf(starts, Len(starts)) = starts  BY <1>3, FirstOfAll
  <2> QED BY <1>3, <1>6, <2>1
<1>8. starts # <<>>
  <2>1. Len(starts) # 0  BY <1>0, <1>3
  <2>2. Len(<<>>) = 0  OBVIOUS
  <2> QED BY <2>1, <2>2
<1> HIDE DEF found
<1>9. P = [i \in 1 .. n |-> [name |-> names[i], column |-> starts[i]]]
  BY <1>1, <1>3, <1>7, <1>8
<1>10. Len(P) = n /\ \A i \in 1 .. n : P[i].name = sheet[i].heading /\ P[i].column = ColumnOf(i)
  BY <1>0, <1>3, <1>6, <1>9
<1> QED BY <1>4, <1>10 DEF P, header, sub

-----------------------------------------------------------------------------
(* The least of a set of numbers is one of them.                           *)
LEMMA LeastOf ==
  ASSUME NEW S \in SUBSET Nat, S # {}
  PROVE  Min(S) \in S /\ \A y \in S : Min(S) <= y
<1>1. PICK m \in S : TRUE  OBVIOUS
<1> DEFINE P == {k \in 0 .. m : \/ \E z \in S : \A y \in S : z <= y
                                \/ \A y \in S : k <= y}
<1>2. m \in Nat /\ 0 \in P  BY <1>1
<1>3. ASSUME NEW k \in 0 .. m - 1, k \in P PROVE k + 1 \in P
  <2>1. k + 1 \in 0 .. m  BY <1>2
  <2>2. CASE \E z \in S : \A y \in S : z <= y  BY <2>1, <2>2
  <2>3. CASE (\A y \in S : k <= y) /\ k \in S
    <3>1. \E z \in S : \A y \in S : z <= y  BY <2>3
    <3> QED BY <2>1, <3>1
  <2>4. CASE (\A y \in S : k <= y) /\ k \notin S
    <3>1. \A y \in S : y # k /\ k <= y /\ y \in Nat  BY <2>4
    <3>2. \A y \in S : k + 1 <= y  BY <1>2, <3>1
    <3> QED BY <2>1, <3>2
  <2> QED BY <1>3, <2>2, <2>3, <2>4
<1>4. \A k \in 0 .. m : k \in P
  <2> HIDE DEF P
  <2> QED BY <1>2, <1>3, UpTo
<1>5. m \in P
  <2>1. m \in 0 .. m  BY <1>2
  <2> HIDE DEF P
  <2> QED BY <1>4, <2>1
<1>6. PICK z \in S : \A y \in S : z <= y  BY <1>1, <1>5
<1>7. Min(S) = z  BY <1>6, MinIs
<1> QED BY <1>6, <1>7

-----------------------------------------------------------------------------
(* Names and regions.                                                      *)

(* The regions that extractRegion tries, one by one.                       *)
LEMMA OrderOfRegions ==
  DOMAIN RegionOrder = 1 .. Len(RegionOrder) /\ Len(RegionOrder) \in Nat
<1> DEFINE R == {"br", "ar", "eu", "latam", "global", "conta"}
<1>1. RegionOrder \in Seq(R)  BY DEF RegionOrder
<1> HIDE DEF R
<1> QED BY <1>1

(* sanitizeInput drops characters.                                         *)
LEMMA SanitizeIsKept ==
  ASSUME NEW s
  PROVE  Sanitize(s) = Kept(s, Dropped)
  BY DEF Sanitize, Kept

(* Without a note the name is the cell, and there is no region.            *)
LEMMA NoNote ==
  ASSUME NEW q \in Cells, \A i \in 1 .. Len(q) : q[i] # Opens
  PROVE  CleanName(q) = q /\ ExtractRegion(q) = "none"
<1>1. DOMAIN q = 1 .. Len(q) /\ Len(q) \in Nat  BY DEF Cells
<1>2. Opens \notin Range(q)  BY <1>1 DEF Range
<1>3. PlacesOf(q, Opens) = {}  BY DEF PlacesOf
<1>4. CleanName(q) = [i \in 1 .. Len(q) |-> q[i]]  BY <1>2 DEF CleanName
<1>5. q = [i \in 1 .. Len(q) |-> q[i]]  BY <1>1 DEF Cells
<1>6. ExtractRegion(q) = "none"  BY <1>3 DEF ExtractRegion
<1> QED BY <1>4, <1>5, <1>6

(* A region that one of the codes r hints at; none if there is no such.    *)
RightRegion(region, hints) == IF hints = {} THEN region = "none" ELSE region \in hints

Noted(s, q, r) ==
  /\ \A i \in 1 .. Len(q) : q[i] # Opens
  /\ Len(s) = Len(q) + 3 /\ s[Len(q) + 1] = Opens /\ s[Len(q) + 2] = r
  /\ \A i \in 1 .. Len(q) : s[i] = q[i]

(* With a note the name is what comes before it; the region is read of it. *)
LEMMA WithNote ==
  ASSUME NEW q \in Cells, NEW r, NEW s \in Cells, Noted(s, q, r)
  PROVE  CleanName(s) = q /\ RightRegion(ExtractRegion(s), Range(RegionOrder) \cap Hints[r])
<1> DEFINE m == Len(q)  S == PlacesOf(s, Opens)  z == m + 1
<1>0. /\ \A i \in 1 .. Len(q) : q[i] # Opens
      /\ Len(s) = Len(q) + 3 /\ s[Len(q) + 1] = Opens /\ s[Len(q) + 2] = r
      /\ \A i \in 1 .. Len(q) : s[i] = q[i]
  BY DEF Noted
<1>1. m \in Nat /\ DOMAIN s = 1 .. m + 3  BY <1>0 DEF Cells
<1>2. S = {i \in 1 .. Len(s) : s[i] = Opens}  BY DEF PlacesOf
<1>3. z \in S /\ S \in SUBSET Nat  BY <1>0, <1>1, <1>2
<1>4. ASSUME NEW y \in S PROVE z <= y
  <2>1. y \in 1 .. Len(s) /\ s[y] = Opens  BY <1>2, <1>4
  <2>2. ~ (y \in 1 .. m)  BY <1>0, <2>1
  <2> QED BY <1>1, <2>1, <2>2
<1> HIDE DEF S, z
<1>5. Min(S) = z  BY <1>3, <1>4, MinIs
<1>6. Opens \in Range(s)
  <2>1. z \in DOMAIN s /\ s[z] = Opens  BY <1>0, <1>1 DEF z
  <2> QED BY <2>1 DEF Range
<1>7. z - 1 = m /\ z + 1 = m + 2  BY <1>1 DEF z
<1>8. CleanName(s) = q
  <2>1. CleanName(s) = [i \in 1 .. m |-> s[i]]
    <3>1. CleanName(s) = [i \in 1 .. Min(S) - 1 |-> s[i]]  BY <1>6 DEF CleanName, S
    <3> QED BY <1>5, <1>7, <3>1
  <2>2. q = [i \in 1 .. m |-> q[i]]  BY DEF Cells
  <2>3. [i \in 1 .. m |-> s[i]] = [i \in 1 .. m |-> q[i]]  BY <1>0
  <2> QED BY <2>1, <2>2, <2>3
<1> DEFINE codes == {i \in 1 .. Len(RegionOrder) : RegionOrder[i] \in Hints[s[Min(S) + 1]]}
           hints == Range(RegionOrder) \cap Hints[r]
<1>9. ExtractRegion(s) = IF codes = {} THEN "none" ELSE RegionOrder[Min(codes)]
  <2>1. S # {}  BY <1>3
  <2> QED BY <2>1 DEF ExtractRegion, S
<1>10. s[Min(S) + 1] = r  BY <1>0, <1>5, <1>7
<1>11. \A i : i \in codes <=> i \in 1 .. Len(RegionOrder) /\ RegionOrder[i] \in Hints[r]
  BY <1>10
<1> HIDE DEF codes
<1>12. CASE codes = {}
  <2>1. hints = {}
    <3> SUFFICES ASSUME NEW x \in Range(RegionOrder), x \in Hints[r] PROVE FALSE
      OBVIOUS
    <3>1. PICK i \in DOMAIN RegionOrder : x = RegionOrder[i]  BY DEF Range
    <3> QED BY <1>11, <1>12, <3>1, OrderOfRegions
  <2> QED BY <1>8, <1>9, <1>12, <2>1 DEF RightRegion
<1>13. CASE codes # {}
  <2>1. codes \in SUBSET Nat  BY <1>11, OrderOfRegions
  <2>2. Min(codes) \in codes  BY <1>13, <2>1, LeastOf
  <2> DEFINE k == Min(codes)
  <2> HIDE DEF k
  <2>3. k \in 1 .. Len(RegionOrder) /\ RegionOrder[k] \in Hints[r]
    BY <1>11, <2>2 DEF k
  <2>4. RegionOrder[k] \in hints  BY <2>3, OrderOfRegions DEF Range
  <2>5. ExtractRegion(s) = RegionOrder[k]  BY <1>9, <1>13 DEF k
  <2> QED BY <1>8, <2>4, <2>5 DEF RightRegion
<1> QED BY <1>12, <1>13

HintsOf(p) == IF p.region = "none" THEN {} ELSE Range(RegionOrder) \cap Hints[p.region]

(* What the parser reads of the cell of a name.                            *)
LEMMA NameRead ==
  ASSUME CsvParserAssumption, NEW p \in Product
  PROVE  /\ CleanName(Sanitize(NameCell(p))) = Kept(p.name, Dropped)
         /\ RightRegion(ExtractRegion(Sanitize(NameCell(p))), HintsOf(p))
<1> DEFINE n == p.name  r == p.region  q == Kept(n, Dropped)  s == Sanitize(NameCell(p))
<1>1. n \in Titled /\ r \in Regions \cup {"none"}  BY DEF Product
<1>2. n \in Seq(STRING) /\ Opens \notin Range(n)  BY <1>1 DEF CsvParserAssumption
<1>3. n \in Seq(Letters)  BY <1>2, LettersAre, SeqMonotonic
<1>4. s = Kept(NameCell(p), Dropped)  BY SanitizeIsKept
<1> HIDE DEF n, r
<1>5. \A i \in 1 .. Len(n) : n[i] # Opens
  <2>1. DOMAIN n = 1 .. Len(n)  BY <1>3
  <2> QED BY <1>2, <2>1 DEF Range
<1>6. /\ q \in Seq(Letters)
      /\ \A k \in 1 .. Len(q) : q[k] \notin Dropped /\ \E i \in 1 .. Len(n) : q[k] = n[i]
  BY <1>3, KeptMembers
<1>7. q \in Cells /\ \A k \in 1 .. Len(q) : q[k] # Opens  BY <1>5, <1>6 DEF Cells
<1>8. CASE r = "none"
  <2>1. NameCell(p) = n  BY <1>8 DEF NameCell, n, r
  <2>2. s = q  BY <1>4, <2>1
  <2>3. HintsOf(p) = {}  BY <1>8 DEF HintsOf, r
  <2> HIDE DEF q, s
  <2>4. CleanName(q) = q /\ ExtractRegion(q) = "none"  BY <1>7, NoNote
  <2>5. CleanName(s) = q /\ RightRegion(ExtractRegion(s), HintsOf(p))
    BY <2>2, <2>3, <2>4 DEF RightRegion
  <2> QED BY <2>5 DEF s, q, n
<1>9. CASE r # "none"
  <2> DEFINE c == "closed"
  <2>1. r \in Letters /\ Opens \in Letters /\ c \in Letters
    BY <1>1, <1>9, LettersAre DEF CsvParserAssumption
  <2>2. r \notin Dropped  BY <1>1, <1>9 DEF CsvParserAssumption
  <2>3. Opens \notin Dropped /\ c \notin Dropped  BY DEF Opens, Dropped, QuoteMark
  <2>4. NameCell(p) = n \o <<Opens, r, c>>  BY <1>9 DEF NameCell, n, r
  <2>5. HintsOf(p) = Range(RegionOrder) \cap Hints[r]  BY <1>9 DEF HintsOf, r
  <2> HIDE DEF c
  <2> DEFINE n1 == Append(n, Opens)  n2 == Append(n1, r)  n3 == Append(n2, c)
             q1 == Append(q, Opens)  q2 == Append(q1, r)  q3 == Append(q2, c)
  <2>6. NameCell(p) = n3
    <3> DEFINE t1 == <<Opens>>  t2 == <<Opens, r>>  t3 == <<Opens, r, c>>
    <3>1. t2 = Append(t1, r) /\ t3 = Append(t2, c)  OBVIOUS
    <3>2. t1 \in Seq(Letters) /\ t2 \in Seq(Letters)  BY <2>1
    <3>3. n \o t1 = n1  BY <1>3, <2>1, ConcatAppend
    <3> HIDE DEF t1, t2, t3, n1, n2, n3
    <3>4. n \o t2 = Append(n \o t1, r) /\ n \o t3 = Append(n \o t2, c)
      BY <1>3, <2>1, <3>1, <3>2, ConcatAppend
    <3>5. n \o t3 = n3  BY <3>3, <3>4 DEF n2, n3
    <3> QED BY <2>4, <3>5 DEF t3
  <2>7. n1 \in Seq(Letters) /\ n2 \in Seq(Letters) /\ n3 \in Seq(Letters)
    BY <1>3, <2>1
  <2> HIDE DEF q
  <2>8. q1 \in Seq(Letters) /\ q2 \in Seq(Letters) /\ q3 \in Seq(Letters)
    BY <1>6, <2>1
  <2>9. Kept(n3, Dropped) = q3
    <3>1. Kept(Append(n, Opens), Dropped) = Append(Kept(n, Dropped), Opens)
      BY <1>3, <2>1, <2>3, KeptAppend
    <3>2. Kept(n1, Dropped) = q1  BY <3>1 DEF q
    <3> HIDE DEF n1
    <3>3. Kept(Append(n1, r), Dropped) = Append(Kept(n1, Dropped), r)
      BY <2>1, <2>2, <2>7, KeptAppend
    <3>4. Kept(n2, Dropped) = q2  BY <3>2, <3>3
    <3> HIDE DEF n2
    <3>5. Kept(Append(n2, c), Dropped) = Append(Kept(n2, Dropped), c)
      BY <2>1, <2>3, <2>7, KeptAppend
    <3> QED BY <3>4, <3>5
  <2>10. s = q3  BY <1>4, <2>6, <2>9
  <2> HIDE DEF s, n1, n2, n3
  <2>11. /\ Len(q) \in Nat /\ Len(q3) = Len(q) + 3
         /\ q3[Len(q) + 1] = Opens /\ q3[Len(q) + 2] = r
         /\ \A i \in 1 .. Len(q) : q3[i] = q[i]
    <3>0. Len(q) \in Nat  BY <1>6
    <3>1. /\ Len(q1) = Len(q) + 1 /\ q1[Len(q) + 1] = Opens /\ \A i \in 1 .. Len(q) : q1[i] = q[i]
      BY <1>6, <2>1, Appended
    <3> HIDE DEF q1
    <3>2. /\ Len(q2) = Len(q1) + 1 /\ q2[Len(q1) + 1] = r /\ \A i \in 1 .. Len(q1) : q2[i] = q1[i]
      BY <2>1, <2>8, Appended
    <3> HIDE DEF q2
    <3>3. /\ Len(q3) = Len(q2) + 1 /\ \A i \in 1 .. Len(q2) : q3[i] = q2[i]
      BY <2>1, <2>8, Appended
    <3> HIDE DEF q3
    <3>4. Len(q1) = Len(q) + 1 /\ Len(q2) = Len(q) + 2 /\ Len(q3) = Len(q) + 3
      BY <3>0, <3>1, <3>2, <3>3
    <3>5. \A i \in 1 .. Len(q) : i \in 1 .. Len(q1) /\ i \in 1 .. Len(q2)
      BY <3>0, <3>4
    <3>6. Len(q) + 1 \in 1 .. Len(q1) /\ Len(q) + 1 \in 1 .. Len(q2) /\ Len(q) + 2 \in 1 .. Len(q2)
      BY <3>0, <3>4
    <3>7. \A i \in 1 .. Len(q) : q3[i] = q[i]  BY <3>1, <3>2, <3>3, <3>5
    <3>8. q3[Len(q) + 1] = Opens /\ q3[Len(q) + 2] = r
      BY <3>0, <3>1, <3>2, <3>3, <3>4, <3>6
    <3> QED BY <3>0, <3>4, <3>7, <3>8
  <2> HIDE DEF q3
  <2>12. q3 \in Cells  BY <2>8 DEF Cells
  <2>a. Noted(q3, q, r)  BY <1>7, <2>11 DEF Noted
  <2>13. CleanName(q3) = q /\ RightRegion(ExtractRegion(q3), Range(RegionOrder) \cap Hints[r])
    BY <1>7, <2>12, <2>a, WithNote
  <2>14. CleanName(s) = q /\ RightRegion(ExtractRegion(s), HintsOf(p))
    BY <2>5, <2>10, <2>13
  <2> QED BY <2>14 DEF s, q, n
<1> QED BY <1>8, <1>9

-----------------------------------------------------------------------------
(* The row.                                                                *)

(* The row imported of a platform's product; none of an empty block.       *)
ImportedRow(c) == [platform |-> c.heading, name |-> Kept(c.product.name, Dropped),
             region |-> ExtractRegion(Sanitize(NameCell(c.product))), price |-> c.product.price]
ImportedRows(c) == IF c.product.filled THEN <<ImportedRow(c)>> ELSE <<>>

(* Under each platform its product is read, or nothing.                    *)
LEMMA RowRead ==
  ASSUME CsvParserAssumption, CsvParserTypeOK, sheet # <<>>, NEW i \in 1 .. Len(sheet),
         NEW platform, platform.name = sheet[i].heading, platform.column = ColumnOf(i)
  PROVE  ReadProduct(CellsOf("data"), platform) = ImportedRows(sheet[i])
<1> DEFINE n == Len(sheet)  row == CellsOf("data")  c == sheet[i]  p == c.product  lo == (i - 1) * layout
           d == Data(p)
<1>0. n \in Nat /\ layout \in {3, 4} /\ "data" \in Lines /\ Width("data") = layout
  BY DEF CsvParserTypeOK, Lines, Width
<1>1. p \in Product \cup {NoProduct}
  <2> DEFINE R == [heading : Headings, product : Product \cup {NoProduct}]
  <2>1. sheet \in Seq(R)  BY DEF CsvParserTypeOK
  <2> HIDE DEF R
  <2>2. sheet[i] \in R  BY <2>1
  <2> QED BY <2>2 DEF R
<1>2. Len(row) = n * layout /\ IsAt(LineBlock("data", c), row, lo)
  BY <1>0, LineIsRead
<1>3. LineBlock("data", c) = d  BY DEF LineBlock
<1>4. /\ d \in Seq(Cells) /\ Len(d) = layout
      /\ p.filled => p \in Product /\ d[2] = NameCell(p) /\ d[3] = PriceCell(p)
      /\ ~ p.filled => d[2] = <<>>
  BY <1>0, <1>1, DataAre
<1>5. platform.column + 1 = lo + 2 /\ platform.column + 2 = lo + 3 /\ lo \in Nat /\ lo + layout <= Len(row)
  <2>1. lo \in Nat  BY <1>0
  <2>2. lo + Len(d) <= Len(row)
    <3> HIDE DEF row, c, lo, d
    <3> QED BY <1>2, <1>3 DEF IsAt
  <2> QED BY <1>4, <2>1, <2>2 DEF ColumnOf
<1> HIDE DEF n, row, c, p, lo, d
<1>6. row[lo + 2] = d[2] /\ row[lo + 3] = d[3]
  <2>1. \A j \in 1 .. Len(d) : row[lo + j] = d[j]  BY <1>2, <1>3 DEF IsAt
  <2>2. 2 \in 1 .. Len(d) /\ 3 \in 1 .. Len(d)  BY <1>0, <1>4
  <2> QED BY <2>1, <2>2
<1> DEFINE a == row[platform.column + 1]  b == row[platform.column + 2]
<1>7. a = d[2] /\ b = d[3]  BY <1>5, <1>6
<1>8. ~ (platform.column + 2 > Len(row))  BY <1>0, <1>5
<1>9. ReadProduct(row, platform) =
        IF \/ platform.column + 2 > Len(row) \/ a = <<>> \/ b = <<>>
           \/ Stamp[1] \in Range(a) \/ ~ Positive(ParsePrice(b))
        THEN <<>>
        ELSE <<[platform |-> platform.name, name |-> CleanName(Sanitize(a)),
                region |-> ExtractRegion(Sanitize(a)), price |-> ParsePrice(b)]>>
  BY DEF ReadProduct
<1> HIDE DEF a, b
<1>10. CASE ~ p.filled
  <2>1. ReadProduct(row, platform) = <<>>  BY <1>4, <1>7, <1>9, <1>10
  <2> QED BY <1>10, <2>1 DEF ImportedRows, row, c, p
<1>11. CASE p.filled
  <2>1. p \in Product /\ a = NameCell(p) /\ b = PriceCell(p)  BY <1>4, <1>7, <1>11
  <2>2. p.price \in PriceTexts /\ p.style \in Styles  BY <2>1 DEF Product
  <2>3. a # <<>> /\ Stamp[1] \notin Range(a)  BY <2>1, NameCellTypes
  <2>4. b # <<>>  BY <2>1, <2>2, PriceCellTypes
  <2>5. ParsePrice(b) = p.price /\ Positive(p.price)  BY <2>1, <2>2, PriceSurvives
  <2>6. CleanName(Sanitize(a)) = Kept(p.name, Dropped)  BY <2>1, NameRead
  <2>7. ReadProduct(row, platform) =
          <<[platform |-> c.heading, name |-> Kept(p.name, Dropped),
             region |-> ExtractRegion(Sanitize(NameCell(p))), price |-> p.price]>>
    BY <1>8, <1>9, <2>1, <2>3, <2>4, <2>5, <2>6 DEF c
  <2> QED BY <1>11, <2>7 DEF ImportedRows, ImportedRow, row, c, p
<1> QED BY <1>10, <1>11

(* The parser's products are those of the platforms, in order.             *)
LEMMA ParsedIs ==
  ASSUME CsvParserAssumption, CsvParserTypeOK, sheet # <<>>,
         \A i \in 1 .. Len(sheet) : sheet[i].heading \in Recognised
  PROVE  Parsed = FlattenSeq([i \in 1 .. Len(sheet) |-> ImportedRows(sheet[i])])
<1> DEFINE lines == Exported
           cells == [l \in Lines |-> ParseLine(lines[l])]
           platforms == ExtractPlatforms(cells["header"], cells["subHeader"])
           row == cells["data"]  n == Len(sheet)
<1>1. Parsed = FlattenSeq([i \in 1 .. Len(platforms) |-> ReadProduct(row, platforms[i])])
  BY DEF Parsed
<1>2. \A l \in Lines : cells[l] = CellsOf(l)  BY LineIsRead
<1> HIDE DEF cells
<1>3. cells["header"] = CellsOf("header") /\ cells["subHeader"] = CellsOf("subHeader") /\ row = CellsOf("data")
  BY <1>2 DEF Lines
<1>4. IsPlatforms(platforms)  BY <1>3, PlatformsAre
<1> HIDE DEF platforms, row
<1>5. Len(platforms) = n  BY <1>4 DEF IsPlatforms
<1>6. ASSUME NEW i \in 1 .. n PROVE ReadProduct(row, platforms[i]) = ImportedRows(sheet[i])
  <2> DEFINE p == platforms[i]
  <2>1. p.name = sheet[i].heading /\ p.column = ColumnOf(i)  BY <1>4 DEF IsPlatforms
  <2> HIDE DEF p
  <2>2. ReadProduct(CellsOf("data"), p) = ImportedRows(sheet[i])  BY <2>1, RowRead
  <2> QED BY <1>3, <2>2 DEF p
<1>7. [i \in 1 .. Len(platforms) |-> ReadProduct(row, platforms[i])] = [i \in 1 .. n |-> ImportedRows(sheet[i])]
  BY <1>5, <1>6
<1> QED BY <1>1, <1>7

SameRows(parsed, written) ==
  /\ Len(parsed) = Len(written)
  /\ \A i \in 1 .. Len(written) :
       LET p == written[i].product
           hints == IF p.region = "none" THEN {} ELSE Range(RegionOrder) \cap Hints[p.region]
       IN
         /\ parsed[i].platform = written[i].heading
         /\ parsed[i].price = p.price
         /\ parsed[i].name = Picked(p.name, {k \in 1 .. Len(p.name) : p.name[k] \notin Dropped})
         /\ IF hints = {} THEN parsed[i].region = "none" ELSE parsed[i].region \in hints

(* Every sheet is imported as it was written.                              *)
LEMMA RowsImported ==
  ASSUME CsvParserAssumption, CsvParserTypeOK
  PROVE  RowsSurviveImport
<1> SUFFICES ASSUME \A i \in 1 .. Len(sheet) : sheet[i].heading \in Recognised, sheet # <<>>
             PROVE  SameRows(Parsed, Picked(sheet, {i \in 1 .. Len(sheet) : sheet[i].product.filled}))
  BY DEF RowsSurviveImport, SameRows
<1> DEFINE n == Len(sheet)  R == [heading : Headings, product : Product \cup {NoProduct}]
           K == {i \in 1 .. n : sheet[i].product.filled}
           written == Picked(sheet, K)
           e == [i \in 1 .. n |-> ImportedRows(sheet[i])]
           E == {ImportedRow(sheet[i]) : i \in 1 .. n}
<1>1. n \in Nat /\ sheet \in Seq(R)  BY DEF CsvParserTypeOK
<1>2. PICK c \in Nat : \E g : Ranks(g, c, n, K)
  <2>1. K \in SUBSET (1 .. n)  OBVIOUS
  <2> HIDE DEF n, K
  <2> QED BY <1>1, <2>1, Ranked
<1>3. PICK f : Ranks(f, c, n, K)  BY <1>2
<1>4. Chooses(sheet, K, f, c)
  <2>1. K \cap (1 .. n) = K  OBVIOUS
  <2> HIDE DEF K
  <2> QED BY <1>3, <2>1 DEF Chooses
<1>5. Parsed = FlattenSeq(e)  BY ParsedIs
<1>6. \A i \in 1 .. n : i \in K <=> sheet[i].product.filled  OBVIOUS
<1>7. \A i \in 1 .. n : ImportedRow(sheet[i]) \in E  OBVIOUS
<1>8. e \in Seq(Seq(E)) /\ Len(e) = n /\ \A i \in 1 .. n : e[i] = ImportedRows(sheet[i])
  <2>1. ASSUME NEW i \in 1 .. n PROVE ImportedRows(sheet[i]) \in Seq(E)
    <3> HIDE DEF E
    <3>1. ImportedRow(sheet[i]) \in E  BY <1>7
    <3> DEFINE x == ImportedRow(sheet[i])
    <3> HIDE DEF x
    <3>2. <<x>> \in Seq(E) /\ <<>> \in Seq(E)  BY <3>1 DEF x
    <3> QED BY <3>2 DEF ImportedRows, x
  <2> HIDE DEF E
  <2>2. e \in [1 .. n -> Seq(E)]  BY <2>1
  <2> QED BY <1>1, <2>1, <2>2
<1> HIDE DEF R, K, E, e
<1>9. /\ written = Selected(sheet, f, c) /\ Len(Selected(sheet, f, c)) = c
      /\ \A k \in 1 .. c : Selected(sheet, f, c)[k] = sheet[f[k]] /\ f[k] \in 1 .. Len(sheet) /\ f[k] \in K
  BY <1>1, <1>4, PickedAre
<1> HIDE DEF written, n
<1>a. n = Len(sheet)  BY DEF n
<1>10. Len(written) = c /\ \A k \in 1 .. c : written[k] = sheet[f[k]] /\ f[k] \in 1 .. n /\ f[k] \in K
  BY <1>9, <1>a
<1> DEFINE t == [k \in 1 .. c |-> ImportedRow(sheet[f[k]])]
<1>11. t \in Seq(E) /\ Len(t) = c /\ \A k \in 1 .. c : t[k] = ImportedRow(sheet[f[k]])
  <2>1. t \in [1 .. c -> E]  BY <1>7, <1>10
  <2> QED BY <2>1
<1> HIDE DEF t
<1>12. Scattered(t, e, f)
  <2>1. f \in [1 .. Len(t) -> 1 .. Len(e)] /\ Rises(f)
    BY <1>3, <1>8, <1>11 DEF Ranks
  <2>2. ASSUME NEW k \in 1 .. c PROVE e[f[k]] = <<t[k]>>
    <3> DEFINE j == f[k]
    <3>1. j \in 1 .. n /\ j \in K  BY <1>10
    <3> HIDE DEF j
    <3>2. e[j] = <<ImportedRow(sheet[j])>>  BY <1>6, <1>8, <3>1 DEF ImportedRows
    <3> QED BY <1>11, <3>2 DEF j
  <2>3. ASSUME NEW m \in 1 .. n, \A k \in 1 .. c : f[k] # m PROVE e[m] = <<>>
    <3>1. m \notin K  BY <1>3, <2>3 DEF Ranks
    <3> QED BY <1>6, <1>8, <3>1 DEF ImportedRows
  <2> QED BY <1>8, <1>11, <2>1, <2>2, <2>3 DEF Scattered
<1>13. Parsed = t  BY <1>5, <1>8, <1>11, <1>12, Gathered
<1>14. ASSUME NEW i \in 1 .. Len(written)
       PROVE  LET p == written[i].product IN
                /\ Parsed[i].platform = written[i].heading
                /\ Parsed[i].price = p.price
                /\ Parsed[i].name = Kept(p.name, Dropped)
                /\ RightRegion(Parsed[i].region, HintsOf(p))
  <2> DEFINE w == written[i]  p == w.product
  <2>1. w = sheet[f[i]] /\ f[i] \in 1 .. n /\ f[i] \in K /\ i \in 1 .. c  BY <1>10
  <2>2. Parsed[i] = ImportedRow(w)  BY <1>11, <1>13, <2>1
  <2>3. p \in Product
    <3>1. sheet[f[i]] \in R  BY <1>1, <1>a, <2>1
    <3>2. w \in R /\ p.filled  BY <1>6, <2>1, <3>1
    <3> HIDE DEF w
    <3>3. p \in Product \cup {NoProduct}  BY <3>2 DEF R
    <3>4. ~ NoProduct.filled  BY DEF NoProduct
    <3> QED BY <3>2, <3>3, <3>4
  <2> HIDE DEF w
  <2>4. /\ ImportedRow(w).platform = w.heading /\ ImportedRow(w).price = p.price /\ ImportedRow(w).name = Kept(p.name, Dropped)
        /\ ImportedRow(w).region = ExtractRegion(Sanitize(NameCell(p)))
    BY DEF ImportedRow
  <2> HIDE DEF p
  <2>5. RightRegion(ExtractRegion(Sanitize(NameCell(p))), HintsOf(p))
    BY <2>3, NameRead
  <2>6. /\ Parsed[i].platform = w.heading /\ Parsed[i].price = p.price /\ Parsed[i].name = Kept(p.name, Dropped)
        /\ RightRegion(Parsed[i].region, HintsOf(p))
    BY <2>2, <2>4, <2>5
  <2> QED BY <2>6 DEF w, p
<1>15. ASSUME NEW i \in 1 .. Len(written)
       PROVE  LET p == written[i].product
                  hints == IF p.region = "none" THEN {} ELSE Range(RegionOrder) \cap Hints[p.region]
              IN
                /\ Parsed[i].platform = written[i].heading
                /\ Parsed[i].price = p.price
                /\ Parsed[i].name = Picked(p.name, {k \in 1 .. Len(p.name) : p.name[k] \notin Dropped})
                /\ IF hints = {} THEN Parsed[i].region = "none" ELSE Parsed[i].region \in hints
  BY <1>14 DEF Kept, RightRegion, HintsOf
<1>16. Len(Parsed) = Len(written)  BY <1>10, <1>11, <1>13
<1>17. SameRows(Parsed, written)  BY <1>15, <1>16 DEF SameRows
<1> QED BY <1>17 DEF written, K, n

(* For any headings, names, regions and codes, and any number of platforms *)
(* of a sheet: every product is imported once, in order, under its own     *)
(* platform, with its name, its price to the cent and a region its note    *)
(* hints at.                                                               *)
THEOREM RowsCorrect == CsvParserSpec => []RowsSurviveImport
<1>1. CsvParserTypeOK => RowsSurviveImport  BY CsvParserAssumption, RowsImported
<1> QED BY <1>1, CsvParserTypeCorrect, PTL

=============================================================================
