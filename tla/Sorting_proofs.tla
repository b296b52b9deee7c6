--------------------------- MODULE Sorting_proofs ---------------------------
(***************************************************************************)
(* What a page read with ORDER BY and LIMIT holds, for any finite set of   *)
(* rows and any strict order that tells any two of them apart.             *)
(***************************************************************************)
EXTENDS Sorting, FiniteSetTheorems, FunctionTheorems, SequenceTheorems, TLAPS

IsStrictOrder(S, R) ==
  /\ \A x \in S : <<x, x>> \notin R
  /\ \A x, y, z \in S : <<x, y>> \in R /\ <<y, z>> \in R => <<x, z>> \in R
  /\ \A x, y \in S : x # y => <<x, y>> \in R \/ <<y, x>> \in R

Ascends(q, R) == \A i, j \in 1 .. Len(q) : i < j => <<q[i], q[j]>> \in R

\* A page of n of the rows S, for which rows were read.
IsPage(S, R, n, rows, page) ==
  /\ rows \in Seq(S) /\ page \in Seq(S) /\ Ascends(page, R)
  /\ Len(rows) <= n => \A x \in S : \E i \in 1 .. Len(page) : page[i] = x
  /\ Len(rows) > n => /\ Len(page) = n /\ page[n] = rows[n] /\ page[n] \in S
                      /\ \A x \in S : \/ \E i \in 1 .. Len(page) : page[i] = x
                                      \/ <<page[n], x>> \in R

Transitive(U, R) == \A x, y, z \in U : <<x, y>> \in R /\ <<y, z>> \in R => <<x, z>> \in R

\* The page stands behind what was shown before, and all are both.
Follows(shown, page, R) ==
  shown # <<>> => \A i \in 1 .. Len(page) : <<shown[Len(shown)], page[i]>> \in R

Joined(shown, page, all) ==
  /\ Len(all) = Len(shown) + Len(page)
  /\ \A i \in 1 .. Len(shown) : all[i] = shown[i]
  /\ \A i \in 1 .. Len(page) : all[Len(shown) + i] = page[i]

\* How many rows precede x, and how that grows along the order.
Place(S, R, x) == Cardinality({y \in S : <<y, x>> \in R})

LEMMA PlaceGrows ==
  ASSUME NEW S, IsFiniteSet(S), NEW R, IsStrictOrder(S, R),
         NEW x \in S, NEW z \in S, <<x, z>> \in R
  PROVE  Place(S, R, x) < Place(S, R, z)
<1> DEFINE D == {y \in S : <<y, x>> \in R}
           E == {y \in S : <<y, z>> \in R}
<1>1. D \subseteq E /\ x \in E /\ x \notin D
  BY DEF IsStrictOrder
<1>2. IsFiniteSet(E) /\ Cardinality(E) \in Nat
  BY FS_Subset, FS_CardinalityType
<1>3. IsFiniteSet(D) /\ Cardinality(D) \in Nat /\ Cardinality(D) <= Cardinality(E)
      /\ Cardinality(D) # Cardinality(E)
  BY <1>1, <1>2, FS_Subset, FS_CardinalityType
<1> QED BY <1>2, <1>3 DEF Place

LEMMA PlaceRange ==
  ASSUME NEW S, IsFiniteSet(S), NEW R, IsStrictOrder(S, R), NEW x \in S
  PROVE  Place(S, R, x) \in 0 .. Cardinality(S) - 1
<1> DEFINE D == {y \in S : <<y, x>> \in R}
<1>1. D \subseteq S /\ x \notin D
  BY DEF IsStrictOrder
<1>2. IsFiniteSet(D) /\ Cardinality(D) \in Nat /\ Cardinality(D) <= Cardinality(S)
      /\ Cardinality(D) # Cardinality(S) /\ Cardinality(S) \in Nat
  BY <1>1, FS_Subset, FS_CardinalityType
<1> QED BY <1>2 DEF Place

(***************************************************************************)
(* ORDER BY answers every row once, in the order: the places of the rows   *)
(* are different numbers below their number, so each number is taken.      *)
(***************************************************************************)
LEMMA InOrderSorts ==
  ASSUME NEW S, IsFiniteSet(S), NEW R, IsStrictOrder(S, R)
  PROVE  /\ InOrder(S, R) \in Seq(S) /\ Ascends(InOrder(S, R), R)
         /\ \A x \in S : \E i \in 1 .. Len(InOrder(S, R)) : InOrder(S, R)[i] = x
<1> DEFINE n == Cardinality(S)
           q == InOrder(S, R)
           f == [x \in S |-> Place(S, R, x)]
           T == 0 .. n - 1
<1>1. n \in Nat
  BY FS_CardinalityType
<1>2. f \in [S -> T]
  BY PlaceRange
<1>3. ASSUME NEW x \in S, NEW z \in S, x # z
      PROVE  f[x] # f[z]
  <2>1. f[x] \in Int /\ f[z] \in Int
    BY <1>1, <1>2
  <2>2. f[x] < f[z] \/ f[z] < f[x]
    BY <1>3, PlaceGrows DEF IsStrictOrder
  <2> QED BY <2>1, <2>2
<1>4. IsFiniteSet(T) /\ Cardinality(T) = n
  BY <1>1, FS_Interval
<1>5. f \in Injection(S, T)
  BY <1>2, <1>3 DEF Injection, IsInjective
<1>6. f \in Surjection(S, T)
  BY <1>4, <1>5, FS_Injection
<1> HIDE DEF f
<1> DEFINE row(i) == CHOOSE x \in S : Place(S, R, x) = i - 1
<1>7. ASSUME NEW i \in 1 .. n
      PROVE  row(i) \in S /\ Place(S, R, row(i)) = i - 1
  <2>1. i - 1 \in T
    BY <1>1
  <2>2. \E x \in S : f[x] = i - 1
    BY <1>6, <2>1 DEF Surjection
  <2>3. \E x \in S : Place(S, R, x) = i - 1
    BY <2>2 DEF f
  <2> QED BY <2>3
<1>8. q = [i \in 1 .. n |-> row(i)]
  BY DEF InOrder, Place
<1> HIDE DEF q, row
<1>9. /\ q \in Seq(S) /\ Len(q) = n
      /\ \A i \in 1 .. n : q[i] \in S /\ Place(S, R, q[i]) = i - 1
  BY <1>1, <1>7, <1>8
<1>10. Ascends(q, R)
  <2> SUFFICES ASSUME NEW i \in 1 .. n, NEW j \in 1 .. n, i < j
               PROVE  <<q[i], q[j]>> \in R
    BY <1>9 DEF Ascends
  <2>1. q[i] \in S /\ q[j] \in S /\ Place(S, R, q[i]) = i - 1 /\ Place(S, R, q[j]) = j - 1
    BY <1>9
  <2>2. q[i] # q[j] /\ ~(Place(S, R, q[j]) < Place(S, R, q[i]))
    BY <1>1, <2>1
  <2>3. <<q[j], q[i]>> \notin R
    BY <2>1, <2>2, PlaceGrows
  <2> QED BY <2>1, <2>2, <2>3 DEF IsStrictOrder
<1>11. ASSUME NEW x \in S
       PROVE  \E i \in 1 .. n : q[i] = x
  <2> DEFINE i == Place(S, R, x) + 1
  <2>1. i \in 1 .. n /\ i - 1 = Place(S, R, x)
    BY <1>1, PlaceRange
  <2> HIDE DEF i
  <2>2. q[i] \in S /\ f[q[i]] = f[x]
    BY <1>9, <2>1 DEF f
  <2> QED BY <1>3, <2>1, <2>2
<1> QED BY <1>9, <1>10, <1>11 DEF q

LEMMA LimitTakes ==
  ASSUME NEW S, NEW q \in Seq(S), NEW n \in Nat
  PROVE  /\ Limit(q, n) \in Seq(S)
         /\ Len(Limit(q, n)) = IF n < Len(q) THEN n ELSE Len(q)
         /\ \A i \in 1 .. Len(Limit(q, n)) : Limit(q, n)[i] = q[i]
<1> DEFINE l == IF n < Len(q) THEN n ELSE Len(q)
<1>1. Len(q) \in Nat
  OBVIOUS
<1>2. l \in 0 .. Len(q)
  BY <1>1
<1> HIDE DEF l
<1>3. SubSeq(q, 1, l) \in Seq(S) /\ Len(SubSeq(q, 1, l)) = l
      /\ \A i \in 1 .. l : SubSeq(q, 1, l)[i] = q[i]
  BY <1>1, <1>2, SubSeqProperties
<1>4. Limit(q, n) = SubSeq(q, 1, l)
  BY DEF Limit, l
<1> QED BY <1>3, <1>4 DEF l

(***************************************************************************)
(* One page: n + 1 rows are asked for and n are shown.  It ascends, and    *)
(* what is not on it stands behind its last row; a page that got no row    *)
(* more than it shows holds them all.                                      *)
(***************************************************************************)
LEMMA PageHolds ==
  ASSUME NEW S, IsFiniteSet(S), NEW R, IsStrictOrder(S, R), NEW n \in Nat \ {0},
         NEW rows, rows = Limit(InOrder(S, R), n + 1), NEW page, page = Limit(rows, n)
  PROVE  IsPage(S, R, n, rows, page)
<1> USE DEF IsPage
<1> DEFINE q == InOrder(S, R)
<1>1. q \in Seq(S) /\ Ascends(q, R) /\ \A x \in S : \E i \in 1 .. Len(q) : q[i] = x
  BY InOrderSorts
<1> HIDE DEF q
<1>0. n + 1 \in Nat /\ n \in Nat /\ rows = Limit(q, n + 1)
  BY DEF q
<1>2. /\ rows \in Seq(S) /\ Len(rows) = (IF n + 1 < Len(q) THEN n + 1 ELSE Len(q))
      /\ \A i \in 1 .. Len(rows) : rows[i] = q[i]
  <2> DEFINE k == n + 1
  <2>1. k \in Nat /\ rows = Limit(q, k)
    BY <1>0
  <2> HIDE DEF k
  <2>2. /\ rows \in Seq(S) /\ Len(rows) = (IF k < Len(q) THEN k ELSE Len(q))
        /\ \A i \in 1 .. Len(rows) : rows[i] = q[i]
    <3>1. q \in Seq(S)
      BY <1>1
    <3>2. /\ Limit(q, k) \in Seq(S)
          /\ Len(Limit(q, k)) = (IF k < Len(q) THEN k ELSE Len(q))
          /\ \A i \in 1 .. Len(Limit(q, k)) : Limit(q, k)[i] = q[i]
      BY <2>1, <3>1, LimitTakes
    <3> QED BY <2>1, <3>2
  <2> QED BY <2>2 DEF k
<1>3. /\ page \in Seq(S) /\ Len(page) = (IF n < Len(rows) THEN n ELSE Len(rows))
      /\ \A i \in 1 .. Len(page) : page[i] = rows[i]
  BY <1>0, <1>2, LimitTakes
<1>4. Len(q) \in Nat /\ Len(rows) \in Nat /\ Len(page) \in Nat
  <2>1. q \in Seq(S) /\ rows \in Seq(S) /\ page \in Seq(S)
    BY <1>1, <1>2, <1>3
  <2> QED BY <2>1, LenProperties
<1>5. Len(page) <= Len(rows) /\ Len(rows) <= Len(q)
  BY <1>2, <1>3, <1>4
<1>6. \A i \in 1 .. Len(page) : page[i] = q[i] /\ i \in 1 .. Len(q)
  BY <1>2, <1>3, <1>4, <1>5
<1>7. Ascends(page, R)
  <2> SUFFICES ASSUME NEW i \in 1 .. Len(page), NEW j \in 1 .. Len(page), i < j
               PROVE  <<page[i], page[j]>> \in R
    BY DEF Ascends
  <2>1. <<q[i], q[j]>> \in R
    BY <1>1, <1>6 DEF Ascends
  <2> QED BY <1>6, <2>1
<1>8. CASE Len(rows) <= n
  <2>1. Len(page) = Len(q)
    BY <1>2, <1>3, <1>4, <1>8
  <2>2. \A x \in S : \E i \in 1 .. Len(page) : page[i] = x
    BY <1>1, <1>6, <2>1
  <2> QED BY <1>2, <1>3, <1>4, <1>7, <1>8, <2>2
<1>9. CASE Len(rows) > n
  <2>1. Len(page) = n /\ n \in 1 .. Len(page) /\ n \in 1 .. Len(rows) /\ n \in 1 .. Len(q)
    BY <1>3, <1>4, <1>5, <1>9
  <2>2. page[n] = rows[n] /\ page[n] = q[n] /\ page[n] \in S
    BY <1>3, <1>6, <2>1
  <2>3. ASSUME NEW x \in S
        PROVE  (\E i \in 1 .. Len(page) : page[i] = x) \/ <<page[n], x>> \in R
    <3>1. PICK i \in 1 .. Len(q) : q[i] = x
      BY <1>1
    <3>2. CASE i <= n
      BY <1>4, <1>6, <2>1, <3>1, <3>2
    <3>3. CASE i > n
      BY <1>1, <2>1, <2>2, <3>1, <3>3 DEF Ascends
    <3> QED BY <1>4, <3>2, <3>3
  <2> QED BY <1>2, <1>3, <1>4, <1>7, <1>9, <2>1, <2>2, <2>3
<1> QED BY <1>4, <1>8, <1>9

(***************************************************************************)
(* The next page continues what the pages before have shown.               *)
(***************************************************************************)
LEMMA PagesAscend ==
  ASSUME NEW U, NEW R, Transitive(U, R),
         NEW shown \in Seq(U), Ascends(shown, R), NEW page \in Seq(U), Ascends(page, R),
         Follows(shown, page, R)
  PROVE  /\ shown \o page \in Seq(U) /\ Ascends(shown \o page, R)
         /\ Joined(shown, page, shown \o page)
<1> DEFINE all == shown \o page
           m == Len(shown)
           l == Len(page)
<1>1. m \in Nat /\ l \in Nat
  OBVIOUS
<1>2. /\ all \in Seq(U) /\ Len(all) = m + l
      /\ \A i \in 1 .. m + l : all[i] = IF i <= m THEN shown[i] ELSE page[i - m]
  BY ConcatProperties
<1> HIDE DEF all
<1>3. \A i \in 1 .. m : all[i] = shown[i]
  BY <1>1, <1>2
<1>4. ASSUME NEW i \in 1 .. l
      PROVE  all[m + i] = page[i]
  <2>1. m + i \in 1 .. m + l /\ ~(m + i <= m) /\ (m + i) - m = i
    BY <1>1
  <2> QED BY <1>2, <2>1
<1>5. ASSUME NEW i \in 1 .. m + l, NEW j \in 1 .. m + l, i < j
      PROVE  <<all[i], all[j]>> \in R
  <2>1. CASE j <= m
    <3>1. i \in 1 .. m /\ j \in 1 .. m
      BY <1>1, <1>5, <2>1
    <3> QED BY <1>3, <1>5, <3>1 DEF Ascends
  <2>2. CASE i <= m /\ j > m
    <3>1. i \in 1 .. m /\ j - m \in 1 .. l /\ all[j] = page[j - m] /\ m \in 1 .. m
      BY <1>1, <1>2, <2>2
    <3>2. all[i] = shown[i] /\ shown[i] \in U /\ shown[m] \in U /\ page[j - m] \in U
      BY <1>3, <3>1
    <3>3. shown # <<>>
      BY <1>1, <3>1
    <3>4. <<shown[m], page[j - m]>> \in R
      BY <3>1, <3>3 DEF Follows
    <3>5. i = m \/ <<shown[i], shown[m]>> \in R
      BY <1>1, <3>1 DEF Ascends
    <3> QED BY <3>1, <3>2, <3>4, <3>5 DEF Transitive
  <2>3. CASE i > m
    <3>1. i - m \in 1 .. l /\ j - m \in 1 .. l /\ i - m < j - m
          /\ all[i] = page[i - m] /\ all[j] = page[j - m]
      BY <1>1, <1>2, <1>5, <2>3
    <3> QED BY <3>1 DEF Ascends
  <2> QED BY <1>1, <2>1, <2>2, <2>3
<1>6. Ascends(all, R)
  BY <1>2, <1>5 DEF Ascends
<1> QED BY <1>2, <1>3, <1>4, <1>6 DEF all, Joined
=============================================================================
