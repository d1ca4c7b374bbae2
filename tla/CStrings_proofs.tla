--------------------------- MODULE CStrings_proofs ---------------------------
(***************************************************************************)
(* What the operators of CStrings compute, for sequences of any length.    *)
(*                                                                         *)
(* Induction is over a set of numbers and not a predicate: a set with 0    *)
(* that contains the next of each of its numbers has no smallest number    *)
(* outside it.                                                             *)
(***************************************************************************)
EXTENDS CStrings, WellFoundedInduction, TLAPS

\* A set of natural numbers has a least one.
LEMMA LeastOf ==
    ASSUME NEW S \in SUBSET Nat, S # {}
    PROVE  \E n \in S : \A m \in S : n <= m
<1>1. PICK n \in S : \A m \in S : ~(<<m, n>> \in OpToRel(<, Nat))
  BY NatLessThanWellFounded, WFMin
<1>2. \A m \in S : ~(m < n)
  BY <1>1 DEF OpToRel
<1> QED
  BY <1>2

\* Induction up to n, over the numbers of a set.
LEMMA UpTo ==
    ASSUME NEW n \in Nat, NEW S, 0 \in S,
           \A k \in 1 .. n : k - 1 \in S => k \in S
    PROVE  \A k \in 0 .. n : k \in S
<1> DEFINE Outside == (0 .. n) \ S
<1>1. SUFFICES ASSUME Outside # {} PROVE FALSE
  OBVIOUS
<1>2. Outside \in SUBSET Nat
  OBVIOUS
<1> HIDE DEF Outside
<1>3. PICK m \in Outside : \A l \in Outside : m <= l
  BY <1>1, <1>2, LeastOf
<1>4. m \in 1 .. n /\ m - 1 \in S
  BY <1>3 DEF Outside
<1> QED
  BY <1>3, <1>4 DEF Outside

-----------------------------------------------------------------------------
(* strlen *)

\* The characters before the first NUL, or all.
LEMMA CLengthFound ==
    ASSUME NEW T, NEW x \in Seq(T)
    PROVE  /\ CLength(x) \in 0 .. Len(x)
           /\ \A k \in 1 .. CLength(x) : x[k] # NUL
           /\ CLength(x) < Len(x) => x[CLength(x) + 1] = NUL
<1> DEFINE Fits(n) == /\ \A k \in 1 .. n : x[k] # NUL
                      /\ n < Len(x) => x[n + 1] = NUL
           Nuls == {k \in 1 .. Len(x) : x[k] = NUL}
<1>1. \E n \in 0 .. Len(x) : Fits(n)
  <2>1. CASE Nuls = {}
    <3>1. Fits(Len(x))
      BY <2>1
    <3> QED
      BY <3>1
  <2>2. CASE Nuls # {}
    <3>1. Nuls \in SUBSET Nat
      OBVIOUS
    <3>2. PICK m \in Nuls : \A l \in Nuls : m <= l
      <4> HIDE DEF Nuls
      <4> QED
        BY <2>2, <3>1, LeastOf
    <3>3. m - 1 \in 0 .. Len(x) /\ Fits(m - 1)
      BY <3>2
    <3> QED
      BY <3>3
  <2> QED
    BY <2>1, <2>2
<1>2. CLength(x) = CHOOSE n \in 0 .. Len(x) : Fits(n)
  BY DEF CLength
<1>3. CLength(x) \in 0 .. Len(x) /\ Fits(CLength(x))
  <2> HIDE DEF Fits
  <2> QED
    BY <1>1, <1>2
<1> QED
  BY <1>3

\* Nothing else is the length.
LEMMA CLengthIs ==
    ASSUME NEW T, NEW x \in Seq(T), NEW n \in 0 .. Len(x),
           \A k \in 1 .. n : x[k] # NUL,
           n < Len(x) => x[n + 1] = NUL
    PROVE  CLength(x) = n
<1> DEFINE m == CLength(x)
<1>1. /\ m \in 0 .. Len(x)
      /\ \A k \in 1 .. m : x[k] # NUL
      /\ m < Len(x) => x[m + 1] = NUL
  BY CLengthFound
<1> HIDE DEF m
<1>2. ~(m < n)
  BY <1>1
<1>3. ~(n < m)
  BY <1>1
<1> QED
  BY <1>1, <1>2, <1>3 DEF m

\* A string that was cut is of the same kind, and cutting it again changes nothing.
LEMMA CutProperties ==
    ASSUME NEW T, NEW x \in Seq(T)
    PROVE  /\ CutAtNul(x) \in Seq(T)
           /\ Len(CutAtNul(x)) = CLength(x)
           /\ \A k \in 1 .. CLength(x) : CutAtNul(x)[k] = x[k]
           /\ CutAtNul(CutAtNul(x)) = CutAtNul(x)
<1> DEFINE y == CutAtNul(x)
<1>1. CLength(x) \in 0 .. Len(x) /\ \A k \in 1 .. CLength(x) : x[k] # NUL
  BY CLengthFound
<1>2. /\ y \in Seq(T) /\ Len(y) = CLength(x)
      /\ \A k \in 1 .. CLength(x) : y[k] = x[k]
  BY <1>1 DEF CutAtNul
<1>3. CLength(y) = Len(y)
  <2> HIDE DEF y
  <2> QED
    BY <1>1, <1>2, CLengthIs
<1>4. CutAtNul(y) = y
  <2> HIDE DEF y
  <2>1. SubSeq(y, 1, Len(y)) = y
    BY <1>2
  <2> QED
    BY <1>3, <2>1 DEF CutAtNul
<1> QED
  BY <1>2, <1>4

-----------------------------------------------------------------------------
(* Running totals *)

\* The recursive function is there.
LEMMA SumsExist ==
    ASSUME NEW counts, Len(counts) \in Nat
    PROVE  Sums(counts) = [k \in 0 .. Len(counts) |->
                             IF k = 0 THEN 0 ELSE Sums(counts)[k - 1] + counts[k]]
<1> DEFINE Exists(n) == \E f : f = [k \in 0 .. n |->
                                      IF k = 0 THEN 0 ELSE f[k - 1] + counts[k]]
<1>1. Exists(0)
  <2> DEFINE g == [k \in 0 .. 0 |-> 0]
  <2>1. g = [k \in 0 .. 0 |-> IF k = 0 THEN 0 ELSE g[k - 1] + counts[k]]
    OBVIOUS
  <2> QED
    BY <2>1
<1>2. ASSUME NEW n \in 1 .. Len(counts), Exists(n - 1) PROVE Exists(n)
  <2>1. PICK f : f = [k \in 0 .. n - 1 |-> IF k = 0 THEN 0 ELSE f[k - 1] + counts[k]]
    BY <1>2
  <2> DEFINE g == [k \in 0 .. n |-> IF k = n THEN f[n - 1] + counts[n] ELSE f[k]]
  <2>2. ASSUME NEW k \in 0 .. n
        PROVE  g[k] = IF k = 0 THEN 0 ELSE g[k - 1] + counts[k]
    BY <2>1
  <2> HIDE DEF g
  <2>3. g = [k \in 0 .. n |-> IF k = 0 THEN 0 ELSE g[k - 1] + counts[k]]
    BY <2>2 DEF g
  <2> QED
    BY <2>3
<1> HIDE DEF Exists
<1>3. Exists(Len(counts))
  <2> DEFINE S == {n \in Nat : Exists(n)}
  <2>1. 0 \in S
    BY <1>1
  <2>2. \A n \in 1 .. Len(counts) : n - 1 \in S => n \in S
    BY <1>2
  <2> HIDE DEF S
  <2>3. \A n \in 0 .. Len(counts) : n \in S
    BY <2>1, <2>2, UpTo
  <2> QED
    BY <2>3 DEF S
<1> QED
  BY <1>3 DEF Exists, Sums

\* Each total is the one before and the next count.
LEMMA SumsProperties ==
    ASSUME NEW counts \in Seq(Nat)
    PROVE  /\ Sums(counts)[0] = 0
           /\ \A k \in 0 .. Len(counts) : Sums(counts)[k] \in Nat
           /\ \A k \in 1 .. Len(counts) : Sums(counts)[k] = Sums(counts)[k - 1] + counts[k]
<1>0. Len(counts) \in Nat
  OBVIOUS
<1> DEFINE s == Sums(counts)
           S == {k \in Nat : s[k] \in Nat}
<1>1. s = [k \in 0 .. Len(counts) |-> IF k = 0 THEN 0 ELSE s[k - 1] + counts[k]]
  BY <1>0, SumsExist
<1> HIDE DEF s
<1>2. s[0] = 0 /\ \A k \in 1 .. Len(counts) : s[k] = s[k - 1] + counts[k]
  BY <1>1
<1>3. \A k \in 1 .. Len(counts) : counts[k] \in Nat
  OBVIOUS
<1>4. \A k \in 0 .. Len(counts) : k \in S
  <2>1. 0 \in S
    BY <1>2
  <2>2. \A k \in 1 .. Len(counts) : k - 1 \in S => k \in S
    BY <1>2, <1>3
  <2> HIDE DEF S
  <2> QED
    BY <1>0, <2>1, <2>2, UpTo
<1> QED
  BY <1>2, <1>4 DEF s

-----------------------------------------------------------------------------
(* Strings one behind the other *)

\* The recursive function is there.
LEMMA JoinsExist ==
    ASSUME NEW xs, Len(xs) \in Nat
    PROVE  Joins(xs) = [k \in 0 .. Len(xs) |->
                          IF k = 0 THEN <<>> ELSE Joins(xs)[k - 1] \o xs[k]]
<1> DEFINE Exists(n) == \E f : f = [k \in 0 .. n |->
                                      IF k = 0 THEN <<>> ELSE f[k - 1] \o xs[k]]
<1>1. Exists(0)
  <2> DEFINE g == [k \in 0 .. 0 |-> <<>>]
  <2>1. g = [k \in 0 .. 0 |-> IF k = 0 THEN <<>> ELSE g[k - 1] \o xs[k]]
    OBVIOUS
  <2> QED
    BY <2>1
<1>2. ASSUME NEW n \in 1 .. Len(xs), Exists(n - 1) PROVE Exists(n)
  <2>1. PICK f : f = [k \in 0 .. n - 1 |-> IF k = 0 THEN <<>> ELSE f[k - 1] \o xs[k]]
    BY <1>2
  <2> DEFINE g == [k \in 0 .. n |-> IF k = n THEN f[n - 1] \o xs[n] ELSE f[k]]
  <2>2. ASSUME NEW k \in 0 .. n
        PROVE  g[k] = IF k = 0 THEN <<>> ELSE g[k - 1] \o xs[k]
    BY <2>1
  <2> HIDE DEF g
  <2>3. g = [k \in 0 .. n |-> IF k = 0 THEN <<>> ELSE g[k - 1] \o xs[k]]
    BY <2>2 DEF g
  <2> QED
    BY <2>3
<1> HIDE DEF Exists
<1>3. Exists(Len(xs))
  <2> DEFINE S == {n \in Nat : Exists(n)}
  <2>1. 0 \in S
    BY <1>1
  <2>2. \A n \in 1 .. Len(xs) : n - 1 \in S => n \in S
    BY <1>2
  <2> HIDE DEF S
  <2>3. \A n \in 0 .. Len(xs) : n \in S
    BY <2>1, <2>2, UpTo
  <2> QED
    BY <2>3 DEF S
<1> QED
  BY <1>3 DEF Exists, Joins

\* xs is a list of sequences of elements of T.
ListOf(T, xs) == Len(xs) \in Nat /\ \A k \in 1 .. Len(xs) : xs[k] \in Seq(T)

\* The first n sequences of xs have one element each, that of y.
Singles(xs, n, y) ==
    n \in 0 .. Len(xs) /\ n <= Len(y) /\ \A k \in 1 .. n : xs[k] = <<y[k]>>

\* Each join is the one before with the next sequence behind it.
LEMMA JoinsProperties ==
    ASSUME NEW T, NEW xs, ListOf(T, xs)
    PROVE  /\ Joins(xs)[0] = <<>>
           /\ \A k \in 0 .. Len(xs) : Joins(xs)[k] \in Seq(T)
           /\ \A k \in 1 .. Len(xs) : Joins(xs)[k] = Joins(xs)[k - 1] \o xs[k]
<1>0. Len(xs) \in Nat /\ \A k \in 1 .. Len(xs) : xs[k] \in Seq(T)
  BY DEF ListOf
<1> DEFINE j == Joins(xs)
           Typed(k) == j[k] \in Seq(T)
<1>1. j = [k \in 0 .. Len(xs) |-> IF k = 0 THEN <<>> ELSE j[k - 1] \o xs[k]]
  BY <1>0, JoinsExist
<1> HIDE DEF j
<1>2. j[0] = <<>> /\ \A k \in 1 .. Len(xs) : j[k] = j[k - 1] \o xs[k]
  BY <1>0, <1>1
<1>3. Typed(0)
  BY <1>2
<1>4. ASSUME NEW k \in 1 .. Len(xs), Typed(k - 1) PROVE Typed(k)
  <2>1. j[k] = j[k - 1] \o xs[k]
    BY <1>2
  <2>2. j[k - 1] \in Seq(T) /\ xs[k] \in Seq(T)
    BY <1>0, <1>4
  <2> QED
    BY <2>1, <2>2
<1>5. \A k \in 0 .. Len(xs) : Typed(k)
  <2> HIDE DEF Typed
  <2> DEFINE S == {k \in Nat : Typed(k)}
  <2>1. 0 \in S /\ \A k \in 1 .. Len(xs) : k - 1 \in S => k \in S
    BY <1>3, <1>4
  <2> HIDE DEF S
  <2>2. \A k \in 0 .. Len(xs) : k \in S
    BY <1>0, <2>1, UpTo
  <2> QED
    BY <2>2 DEF S
<1> QED
  BY <1>2, <1>5 DEF j

\* A sequence with one element more than another.
LEMMA OneMore ==
    ASSUME NEW T, NEW a \in Seq(T), NEW b \in Seq(T), NEW e \in T,
           NEW m \in Nat, Len(b) = m, Len(a) = m - 1,
           \A k \in 1 .. m : b[k] = IF k = m THEN e ELSE a[k]
    PROVE  b = a \o <<e>>
OBVIOUS

\* Sequences of one element each: the sequence of the elements.
LEMMA JoinedSingles ==
    ASSUME NEW T, NEW xs, ListOf(T, xs),
           NEW y \in Seq(T), NEW n, Singles(xs, n, y)
    PROVE  /\ Joins(xs)[n] \in Seq(T) /\ Len(Joins(xs)[n]) = n
           /\ \A k \in 1 .. n : Joins(xs)[n][k] = y[k]
<1>0. /\ n \in 0 .. Len(xs) /\ Len(xs) \in Nat /\ n \in Nat
      /\ \A k \in 1 .. n : xs[k] = <<y[k]>> /\ y[k] \in T
  BY DEF ListOf, Singles
<1> DEFINE j == Joins(xs)
           First(m) == [k \in 1 .. m |-> y[k]]
           Same(m) == j[m] = First(m)
<1>1. j[0] = <<>> /\ \A k \in 1 .. Len(xs) : j[k] = j[k - 1] \o xs[k]
  BY JoinsProperties
<1> HIDE DEF j
<1>2. Same(0)
  BY <1>1
<1>3. ASSUME NEW m \in 1 .. n, Same(m - 1) PROVE Same(m)
  <2>1. j[m] = First(m - 1) \o <<y[m]>>
    <3>1. m \in 1 .. Len(xs)
      BY <1>0
    <3>2. j[m] = j[m - 1] \o xs[m]
      BY <1>1, <3>1
    <3>3. j[m - 1] = First(m - 1)
      BY <1>3
    <3>4. xs[m] = <<y[m]>>
      BY <1>0
    <3> HIDE DEF First
    <3> QED
      BY <3>2, <3>3, <3>4
  <2>2. /\ First(m - 1) \in Seq(T) /\ Len(First(m - 1)) = m - 1
        /\ First(m) \in Seq(T) /\ Len(First(m)) = m
    BY <1>0
  <2>3. \A k \in 1 .. m : First(m)[k] = IF k = m THEN y[m] ELSE First(m - 1)[k]
    OBVIOUS
  <2>4. y[m] \in T /\ m \in Nat
    BY <1>0
  <2> HIDE DEF First
  <2>5. First(m) = First(m - 1) \o <<y[m]>>
    BY <2>2, <2>3, <2>4, OneMore
  <2> QED
    BY <2>1, <2>5
<1>4. Same(n)
  <2> HIDE DEF Same
  <2> DEFINE S == {m \in Nat : Same(m)}
  <2>1. 0 \in S /\ \A m \in 1 .. n : m - 1 \in S => m \in S
    BY <1>2, <1>3
  <2> HIDE DEF S
  <2>2. \A m \in 0 .. n : m \in S
    BY <1>0, <2>1, UpTo
  <2> QED
    BY <1>0, <2>2 DEF S
<1>5. First(n) \in Seq(T) /\ Len(First(n)) = n /\ \A k \in 1 .. n : First(n)[k] = y[k]
  BY <1>0
<1> HIDE DEF First
<1> QED
  BY <1>4, <1>5 DEF j

\* The elements of two sequences that are joined.
LEMMA ConcatParts ==
    ASSUME NEW T, NEW a \in Seq(T), NEW b \in Seq(T)
    PROVE  /\ a \o b \in Seq(T)
           /\ Len(a \o b) = Len(a) + Len(b)
           /\ \A i \in 1 .. Len(a) : (a \o b)[i] = a[i]
           /\ \A i \in 1 .. Len(b) : (a \o b)[Len(a) + i] = b[i]
OBVIOUS

\* From behind the place at on, x holds part.
Holds(x, at, part) == \A i \in 1 .. Len(part) : x[at + i] = part[i]

\* Each sequence is found behind those before it.
LEMMA JoinedParts ==
    ASSUME NEW T, NEW xs, ListOf(T, xs),
           NEW k \in 1 .. Len(xs)
    PROVE  /\ Len(Joins(xs)[k - 1]) + Len(xs[k]) <= Len(Joined(xs))
           /\ Holds(Joined(xs), Len(Joins(xs)[k - 1]), xs[k])
<1> DEFINE j == Joins(xs)
           base == Len(j[k - 1])
           n == Len(xs[k])
           Found(m) == m >= k => /\ base + n <= Len(j[m])
                                 /\ \A i \in 1 .. n : j[m][base + i] = xs[k][i]
<1>0. Len(xs) \in Nat /\ \A m \in 1 .. Len(xs) : xs[m] \in Seq(T)
  BY DEF ListOf
<1>1. /\ j[0] = <<>>
      /\ \A m \in 0 .. Len(xs) : j[m] \in Seq(T)
      /\ \A m \in 1 .. Len(xs) : j[m] = j[m - 1] \o xs[m]
  BY JoinsProperties
<1> HIDE DEF j
<1>2. base \in Nat /\ n \in Nat
  BY <1>0, <1>1
<1>3. ASSUME NEW m \in 1 .. Len(xs), Found(m - 1) PROVE Found(m)
  <2>0. j[m - 1] \in Seq(T) /\ xs[m] \in Seq(T) /\ j[m] = j[m - 1] \o xs[m]
    <3>1. m - 1 \in 0 .. Len(xs)
      BY <1>0
    <3> QED
      BY <1>0, <1>1, <3>1
  <2>1. /\ Len(j[m]) = Len(j[m - 1]) + Len(xs[m])
        /\ \A i \in 1 .. Len(j[m - 1]) : j[m][i] = j[m - 1][i]
        /\ \A i \in 1 .. Len(xs[m]) : j[m][Len(j[m - 1]) + i] = xs[m][i]
    <3> DEFINE a == j[m - 1]
               b == xs[m]
    <3>1. a \in Seq(T) /\ b \in Seq(T) /\ j[m] = a \o b
      BY <2>0
    <3> HIDE DEF a, b
    <3>2. /\ Len(a \o b) = Len(a) + Len(b)
          /\ \A i \in 1 .. Len(a) : (a \o b)[i] = a[i]
          /\ \A i \in 1 .. Len(b) : (a \o b)[Len(a) + i] = b[i]
      BY <3>1, ConcatParts
    <3>3. /\ Len(j[m]) = Len(a) + Len(b)
          /\ \A i \in 1 .. Len(a) : j[m][i] = a[i]
          /\ \A i \in 1 .. Len(b) : j[m][Len(a) + i] = b[i]
      BY <3>1, <3>2
    <3> QED
      BY <3>3 DEF a, b
  <2>2. Len(j[m - 1]) \in Nat /\ Len(xs[m]) \in Nat /\ m \in Int /\ k \in Int
    BY <1>0, <2>0
  <2>3. CASE m < k
    BY <2>2, <2>3
  <2>4. CASE m = k
    BY <2>1, <2>2, <2>4
  <2>5. CASE m > k
    <3>1. m - 1 >= k
      BY <2>2, <2>5
    <3>2. base + n <= Len(j[m - 1]) /\ \A i \in 1 .. n : j[m - 1][base + i] = xs[k][i]
      BY <1>3, <3>1
    <3> HIDE DEF base, n
    <3>3. \A i \in 1 .. n : base + i \in 1 .. Len(j[m - 1])
      BY <1>2, <2>2, <3>2
    <3>4. \A i \in 1 .. n : j[m][base + i] = xs[k][i]
      BY <2>1, <3>2, <3>3
    <3>5. base + n <= Len(j[m])
      <4> DEFINE p == Len(j[m - 1])
                 q == Len(xs[m])
                 r == Len(j[m])
      <4>1. p \in Nat /\ q \in Nat /\ base + n <= p
        BY <2>2, <3>2
      <4>2. r = p + q
        BY <2>1
      <4> HIDE DEF p, q, r
      <4>3. base + n <= r
        BY <1>2, <4>1, <4>2
      <4> QED
        BY <4>3 DEF r
    <3> QED
      BY <3>4, <3>5
  <2> HIDE DEF Found
  <2> QED
    BY <2>2, <2>3, <2>4, <2>5
<1>4. Found(Len(xs))
  <2>1. Found(0)
    OBVIOUS
  <2> HIDE DEF Found
  <2> DEFINE S == {m \in Nat : Found(m)}
  <2>2. 0 \in S /\ \A m \in 1 .. Len(xs) : m - 1 \in S => m \in S
    BY <1>3, <2>1
  <2> HIDE DEF S
  <2>3. \A m \in 0 .. Len(xs) : m \in S
    BY <1>0, <2>2, UpTo
  <2> QED
    BY <1>0, <2>3 DEF S
<1>5. Len(xs) >= k
  BY <1>0
<1> QED
  BY <1>4, <1>5 DEF j, Joined, Holds
=============================================================================
