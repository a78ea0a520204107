------------------------- MODULE CrInventoryProofs -------------------------
(***************************************************************************)
(* Proofs about CrInventory for any lists, windows, page sizes and number  *)
(* of calls.                                                               *)
(***************************************************************************)
EXTENDS CrInventory, PagingProofs, SequenceTheorems
-----------------------------------------------------------------------------
(* Sequences                                                                *)

Distinct(s) == \A i, j \in DOMAIN s : s[i] = s[j] => i = j

(* The elements of a sequence.                                              *)
LEMMA RangeIs ==
    ASSUME NEW S, NEW s \in Seq(S)
    PROVE  Range(s) \subseteq S /\ \A k \in 1..Len(s) : s[k] \in S /\ s[k] \in Range(s)
BY DEF Range

(* A sequence has as many elements as places just if no two are the same.   *)
LEMMA DistinctCounts ==
    ASSUME NEW S, NEW s \in Seq(S), Distinct(s)
    PROVE  IsFiniteSet(Range(s)) /\ Cardinality(Range(s)) = Len(s)
<1> DEFINE n == Len(s)
<1>1. n \in Nat /\ DOMAIN s = 1..n
  OBVIOUS
<1>2. s \in [1..n -> Range(s)] /\ IsInjective(s)
  BY <1>1 DEF Distinct, Range, IsInjective
<1>3. \A t \in Range(s) : \E k \in 1..n : s[k] = t
  BY <1>1 DEF Range
<1> HIDE DEF n
<1>4. s \in Bijection(1..n, Range(s))
  BY <1>2, <1>3, Zenon DEF Bijection, Injection, Surjection
<1>5. IsFiniteSet(1..n) /\ Cardinality(1..n) = n
  BY <1>1, FS_Interval
<1> QED  BY <1>4, <1>5, FS_Bijection DEF ExistsBijection, n

(* A part of a sequence.                                                    *)
LEMMA PartIs ==
    ASSUME NEW S, NEW s \in Seq(S), NEW a \in Nat \ {0}, NEW b \in Int, b <= Len(s)
    PROVE  /\ SubSeq(s, a, b) \in Seq(S)
           /\ Len(SubSeq(s, a, b)) = IF a <= b THEN b - a + 1 ELSE 0
           /\ \A k \in 1..(b - a + 1) : SubSeq(s, a, b)[k] = s[a + k - 1]
<1>1. \A k \in a..b : s[k] \in S
  OBVIOUS
<1> QED  BY <1>1, SubSeqProperties

(* A number put in front of a sequence that does not have it.               *)
LEMMA PrependIs ==
    ASSUME NEW S, NEW s \in Seq(S), NEW x \in S, x \notin Range(s), Distinct(s)
    PROVE  /\ <<x>> \o s \in Seq(S) /\ Len(<<x>> \o s) = Len(s) + 1
           /\ \A k \in 1..(Len(s) + 1) : (<<x>> \o s)[k] = IF k = 1 THEN x ELSE s[k - 1]
           /\ Distinct(<<x>> \o s)
           /\ Range(<<x>> \o s) = Range(s) \cup {x}
<1> DEFINE n == Len(s)
           t == <<x>> \o s
<1>1. n \in Nat /\ DOMAIN s = 1..n
  OBVIOUS
<1>2. /\ t \in Seq(S) /\ Len(t) = n + 1
      /\ \A k \in 1..(n + 1) : t[k] = IF k = 1 THEN x ELSE s[k - 1]
  <2>1. <<x>> \in Seq(S) /\ Len(<<x>>) = 1 /\ <<x>>[1] = x
    OBVIOUS
  <2>2. /\ t \in Seq(S) /\ Len(t) = n + 1
        /\ \A k \in 1..(1 + n) : t[k] = IF k <= 1 THEN <<x>>[k] ELSE s[k - 1]
    OBVIOUS
  <2> HIDE DEF t, n
  <2>3. \A k \in 1..(n + 1) : k \in 1..(1 + n) /\ (k <= 1 <=> k = 1)
    BY <1>1
  <2> QED  BY <2>1, <2>2, <2>3
<1> HIDE DEF t, n
<1>3. DOMAIN t = 1..(n + 1) /\ 1 \in DOMAIN t /\ t[1] = x
  BY <1>1, <1>2
<1>4. ASSUME NEW j \in DOMAIN s PROVE j + 1 \in DOMAIN t /\ t[j + 1] = s[j]
  BY <1>1, <1>2, <1>3
<1>5. ASSUME NEW k \in DOMAIN t, k # 1 PROVE k - 1 \in DOMAIN s /\ t[k] = s[k - 1] /\ t[k] # x
  <2>1. k - 1 \in DOMAIN s /\ t[k] = s[k - 1]
    BY <1>1, <1>2, <1>3, <1>5
  <2> QED  BY <2>1 DEF Range
<1>6. Distinct(t)
  <2> SUFFICES ASSUME NEW i \in DOMAIN t, NEW j \in DOMAIN t, t[i] = t[j] PROVE i = j
    BY DEF Distinct
  <2>1. i = 1 <=> j = 1
    BY <1>3, <1>5
  <2>2. CASE i # 1
    <3>1. i - 1 = j - 1
      BY <1>5, <2>1, <2>2 DEF Distinct
    <3> QED  BY <1>1, <1>3, <3>1
  <2> QED  BY <2>1, <2>2
<1>7. Range(t) = Range(s) \cup {x}
  <2>1. ASSUME NEW y \in Range(t) PROVE y \in Range(s) \cup {x}
    BY <1>3, <1>5 DEF Range
  <2>2. ASSUME NEW y \in Range(s) \cup {x} PROVE y \in Range(t)
    BY <1>3, <1>4 DEF Range
  <2> QED  BY <2>1, <2>2
<1> QED  BY <1>2, <1>6, <1>7 DEF t, n

(* A number put behind a sequence that does not have it.                    *)
LEMMA AppendIs ==
    ASSUME NEW S, NEW s \in Seq(S), NEW x \in S, x \notin Range(s), Distinct(s)
    PROVE  /\ Append(s, x) \in Seq(S) /\ Len(Append(s, x)) = Len(s) + 1
           /\ \A k \in 1..Len(s) : Append(s, x)[k] = s[k]
           /\ Append(s, x)[Len(s) + 1] = x
           /\ Distinct(Append(s, x))
           /\ Range(Append(s, x)) = Range(s) \cup {x}
<1> DEFINE n == Len(s)
           t == Append(s, x)
<1>1. n \in Nat /\ DOMAIN s = 1..n
  OBVIOUS
<1>2. t \in Seq(S) /\ Len(t) = n + 1 /\ t[n + 1] = x /\ \A k \in 1..n : t[k] = s[k]
  OBVIOUS
<1> HIDE DEF t, n
<1>3. DOMAIN t = 1..(n + 1) /\ n + 1 \in DOMAIN t /\ \A k \in DOMAIN t : k # n + 1 => k \in 1..n
  BY <1>1, <1>2
<1>4. \A k \in 1..n : s[k] # x /\ k \in DOMAIN t
  BY <1>1, <1>3 DEF Range
<1>5. Distinct(t)
  BY <1>1, <1>2, <1>3, <1>4 DEF Distinct
<1>6. Range(t) = Range(s) \cup {x}
  <2>1. ASSUME NEW y \in Range(t) PROVE y \in Range(s) \cup {x}
    BY <1>1, <1>2, <1>3 DEF Range
  <2>2. ASSUME NEW y \in Range(s) \cup {x} PROVE y \in Range(t)
    BY <1>1, <1>2, <1>3, <1>4 DEF Range
  <2> QED  BY <2>1, <2>2
<1> QED  BY <1>2, <1>5, <1>6 DEF t, n

(* The list without a pull of it: the ones behind move up.                  *)
LEMMA WithoutIs ==
    ASSUME NEW S, order \in Seq(S), Distinct(order), NEW n \in Open
    PROVE  /\ Place(n) \in 1..Len(order) /\ order[Place(n)] = n
           /\ Without(n) \in Seq(S) /\ Len(Without(n)) = Len(order) - 1
           /\ \A k \in 1..(Len(order) - 1) :
                 Without(n)[k] = IF k < Place(n) THEN order[k] ELSE order[k + 1]
           /\ Distinct(Without(n))
           /\ Range(Without(n)) = Open \ {n}
<1> DEFINE m == Len(order)
           i == Place(n)
           a == SubSeq(order, 1, i - 1)
           b == SubSeq(order, i + 1, m)
           t == Without(n)
<1>1. m \in Nat /\ DOMAIN order = 1..m /\ \A k \in 1..m : order[k] \in S
  OBVIOUS
<1>2. i \in 1..m /\ order[i] = n
  <2>1. \E k \in DOMAIN order : order[k] = n
    BY DEF Open, Range
  <2> QED  BY <1>1, <2>1 DEF Place
<1>3. t = a \o b
  BY DEF Without, RemoveAt
<1> HIDE DEF i, m
<1>4. /\ a \in Seq(S) /\ Len(a) = i - 1
      /\ \A k \in 1..(i - 1) : a[k] = order[k]
  <2>1. /\ a \in Seq(S) /\ Len(a) = IF 1 <= i - 1 THEN (i - 1) - 1 + 1 ELSE 0
        /\ \A k \in 1..((i - 1) - 1 + 1) : a[k] = order[1 + k - 1]
    BY <1>1, <1>2, PartIs DEF m
  <2> HIDE DEF a
  <2>2. (i - 1) - 1 + 1 = i - 1 /\ \A k \in 1..(i - 1) : 1 + k - 1 = k
    BY <1>1, <1>2
  <2> QED  BY <1>1, <1>2, <2>1, <2>2
<1>5. /\ b \in Seq(S) /\ Len(b) = m - i
      /\ \A k \in 1..(m - i) : b[k] = order[i + k]
  <2>1. /\ b \in Seq(S) /\ Len(b) = IF i + 1 <= m THEN m - (i + 1) + 1 ELSE 0
        /\ \A k \in 1..(m - (i + 1) + 1) : b[k] = order[(i + 1) + k - 1]
    BY <1>1, <1>2, PartIs DEF m
  <2> HIDE DEF b
  <2>2. m - (i + 1) + 1 = m - i /\ \A k \in 1..(m - i) : (i + 1) + k - 1 = i + k
    BY <1>1, <1>2
  <2> QED  BY <1>1, <1>2, <2>1, <2>2
<1>6. /\ t \in Seq(S) /\ Len(t) = m - 1
      /\ \A k \in 1..(m - 1) : t[k] = IF k < i THEN order[k] ELSE order[k + 1]
  <2> HIDE DEF a, b, t
  <2>1. t \in Seq(S) /\ Len(t) = Len(a) + Len(b)
        /\ \A k \in 1..(Len(a) + Len(b)) : t[k] = IF k <= Len(a) THEN a[k] ELSE b[k - Len(a)]
    BY <1>3, <1>4, <1>5, ConcatProperties
  <2>2. Len(a) + Len(b) = m - 1
    BY <1>1, <1>2, <1>4, <1>5
  <2>3. ASSUME NEW k \in 1..(m - 1)
        PROVE  t[k] = IF k < i THEN order[k] ELSE order[k + 1]
    <3>1. k <= Len(a) <=> k < i
      BY <1>1, <1>2, <1>4
    <3>2. CASE k < i
      <4>1. k \in 1..(i - 1) /\ a[k] = order[k]
        BY <1>1, <1>2, <1>4, <3>2
      <4> QED  BY <2>1, <2>2, <3>1, <3>2, <4>1
    <3>3. CASE ~(k < i)
      <4>1. k - Len(a) = k - i + 1 /\ k - i + 1 \in 1..(m - i) /\ i + (k - i + 1) = k + 1
        BY <1>1, <1>2, <1>4, <3>3
      <4>2. b[k - i + 1] = order[k + 1]
        BY <1>5, <4>1
      <4> QED  BY <2>1, <2>2, <3>1, <3>3, <4>1, <4>2
    <3> QED  BY <3>2, <3>3
  <2> QED  BY <2>1, <2>2, <2>3
<1> HIDE DEF a, b, t
<1>7. DOMAIN t = 1..(m - 1)
  BY <1>1, <1>2, <1>6
<1>8. ASSUME NEW k \in DOMAIN t
      PROVE  \E j \in 1..m : j # i /\ j = (IF k < i THEN k ELSE k + 1) /\ t[k] = order[j]
  BY <1>1, <1>2, <1>6, <1>7
<1>9. Distinct(t)
  <2> SUFFICES ASSUME NEW j \in DOMAIN t, NEW k \in DOMAIN t, t[j] = t[k] PROVE j = k
    BY DEF Distinct
  <2>1. (IF j < i THEN j ELSE j + 1) = (IF k < i THEN k ELSE k + 1)
    BY <1>1, <1>8 DEF Distinct
  <2> QED  BY <1>1, <1>2, <1>7, <2>1
<1>10. Range(t) = Open \ {n}
  <2>1. ASSUME NEW y \in Range(t) PROVE y \in Open \ {n}
    <3>1. PICK k \in DOMAIN t : y = t[k]
      BY DEF Range
    <3>2. PICK j \in 1..m : j # i /\ t[k] = order[j]
      BY <1>8
    <3> QED  BY <1>1, <1>2, <3>1, <3>2 DEF Distinct, Open, Range
  <2>2. ASSUME NEW y \in Open \ {n} PROVE y \in Range(t)
    <3>1. PICK j \in 1..m : y = order[j]
      BY <1>1 DEF Open, Range
    <3>2. j # i
      BY <1>2, <3>1
    <3>3. CASE j < i
      <4>1. j \in 1..(m - 1) /\ t[j] = order[j]
        BY <1>1, <1>2, <1>6, <3>3
      <4> QED  BY <1>7, <3>1, <4>1 DEF Range
    <3>4. CASE j > i
      <4>1. j - 1 \in 1..(m - 1) /\ ~(j - 1 < i) /\ (j - 1) + 1 = j
        BY <1>1, <1>2, <3>4
      <4>2. t[j - 1] = order[j]
        BY <1>6, <4>1
      <4> QED  BY <1>7, <3>1, <4>1, <4>2 DEF Range
    <3> QED  BY <1>1, <1>2, <3>2, <3>3, <3>4
  <2> QED  BY <2>1, <2>2
<1> QED  BY <1>2, <1>6, <1>9, <1>10 DEF t, m, i

(* A pull of the list that is put in front of it.                           *)
LEMMA TouchedIs ==
    ASSUME NEW S, order \in Seq(S), Distinct(order), NEW n \in Open
    PROVE  /\ <<n>> \o Without(n) \in Seq(S)
           /\ Len(<<n>> \o Without(n)) = Len(order)
           /\ \A k \in 1..Len(order) : (<<n>> \o Without(n))[k] =
                 IF k = 1 THEN n ELSE IF k <= Place(n) THEN order[k - 1] ELSE order[k]
           /\ Distinct(<<n>> \o Without(n))
           /\ Range(<<n>> \o Without(n)) = Open
<1> DEFINE w == Without(n)
           m == Len(order)
           i == Place(n)
<1>1. /\ i \in 1..m /\ w \in Seq(S) /\ Len(w) = m - 1 /\ Distinct(w) /\ Range(w) = Open \ {n}
      /\ \A k \in 1..(m - 1) : w[k] = IF k < i THEN order[k] ELSE order[k + 1]
  BY WithoutIs
<1>2. n \in S /\ m \in Nat
  BY RangeIs DEF Open
<1> HIDE DEF w, m, i
<1>3. /\ <<n>> \o w \in Seq(S) /\ Len(<<n>> \o w) = Len(w) + 1
      /\ \A k \in 1..(Len(w) + 1) : (<<n>> \o w)[k] = IF k = 1 THEN n ELSE w[k - 1]
      /\ Distinct(<<n>> \o w) /\ Range(<<n>> \o w) = Range(w) \cup {n}
  BY <1>1, <1>2, PrependIs
<1>4. Len(w) + 1 = m /\ Range(w) \cup {n} = Open
  BY <1>1, <1>2
<1>5. ASSUME NEW k \in 1..m
      PROVE  (<<n>> \o w)[k] = IF k = 1 THEN n ELSE IF k <= i THEN order[k - 1] ELSE order[k]
  <2>1. (<<n>> \o w)[k] = IF k = 1 THEN n ELSE w[k - 1]
    BY <1>3, <1>4
  <2>2. CASE k # 1
    <3>1. k - 1 \in 1..(m - 1) /\ (k - 1) + 1 = k /\ (k - 1 < i <=> k <= i)
      BY <1>1, <1>2, <2>2
    <3>2. w[k - 1] = IF k <= i THEN order[k - 1] ELSE order[k]
      BY <1>1, <3>1
    <3> QED  BY <2>1, <2>2, <3>2
  <2> QED  BY <2>1, <2>2
<1> QED  BY <1>3, <1>4, <1>5 DEF w, m, i

-----------------------------------------------------------------------------
(* Sorting                                                                  *)

(* How many items are less than v, and how many are not more.               *)
Less(items, v)    == Cardinality({i \in DOMAIN items : items[i] < v})
NotMore(items, v) == Cardinality({i \in DOMAIN items : items[i] <= v})

(* The k-th item in ascending order is one of them, and has its place.      *)
LEMMA AscendingSorts ==
    ASSUME NEW N \in Nat, NEW items \in Seq(1..N), NEW k \in DOMAIN items
    PROVE  /\ Ascending(items)[k] \in Range(items)
           /\ Less(items, Ascending(items)[k]) < k
           /\ NotMore(items, Ascending(items)[k]) >= k
<1> DEFINE At(v) == {i \in DOMAIN items : items[i] <= v}
           Many == {v \in Nat : Cardinality(At(v)) >= k}
<1>0. Len(items) \in Nat /\ DOMAIN items = 1..Len(items) /\ k \in 1..Len(items)
  OBVIOUS
<1>1. \A i \in DOMAIN items : items[i] \in Nat /\ items[i] >= 1 /\ items[i] <= N
  <2>1. \A i \in DOMAIN items : items[i] \in 1..N
    OBVIOUS
  <2>2. \A x \in 1..N : x \in Nat /\ x >= 1 /\ x <= N
    OBVIOUS
  <2> QED  BY <2>1, <2>2, Zenon
<1>2. IsFiniteSet(DOMAIN items) /\ Cardinality(DOMAIN items) = Len(items)
  <2>1. \A n \in Nat : IsFiniteSet(1..n) /\ Cardinality(1..n) = n
    BY FS_Interval
  <2> QED  BY <1>0, <2>1, Zenon
<1>3. N \in Many
  <2>1. At(N) = DOMAIN items
    BY <1>1, Zenon
  <2> HIDE DEF At
  <2> QED  BY <1>0, <1>2, <2>1
<1>4. PICK v \in Many : \A w \in Many : v <= w
  <2> HIDE DEF At
  <2>1. Many \subseteq Nat
    OBVIOUS
  <2> HIDE DEF Many
  <2> QED  BY <1>3, <2>1, LeastExists
<1>5. v # 0
  <2>1. At(0) = {}
    BY <1>1
  <2>2. Cardinality(At(0)) = 0
    BY <2>1, FS_EmptySet
  <2> HIDE DEF At
  <2> QED  BY <1>0, <1>4, <2>2
<1>6. v \in Nat /\ v - 1 \in Nat /\ v - 1 \notin Many
  <2>1. v \in Nat /\ v - 1 \in Nat /\ ~(v <= v - 1)
    BY <1>4, <1>5
  <2> HIDE DEF Many
  <2> QED  BY <1>4, <2>1
<1>7. ~(Cardinality(At(v - 1)) >= k) /\ Cardinality(At(v - 1)) \in Nat
  <2>1. At(v - 1) \subseteq DOMAIN items
    OBVIOUS
  <2> HIDE DEF At
  <2> QED  BY <1>2, <1>6, <2>1, FS_Subset, FS_CardinalityType
<1>8. {i \in DOMAIN items : items[i] < v} = At(v - 1)
  BY <1>1, <1>6
<1>9. Less(items, v) < k /\ NotMore(items, v) >= k
  <2>1. Less(items, v) = Cardinality(At(v - 1))
    BY <1>8 DEF Less
  <2>2. NotMore(items, v) = Cardinality(At(v))
    BY DEF NotMore
  <2> HIDE DEF At
  <2> QED  BY <1>0, <1>4, <1>7, <2>1, <2>2
<1>10. v \in Range(items)
  <2> SUFFICES ASSUME v \notin Range(items) PROVE FALSE
    OBVIOUS
  <2>1. \A i \in DOMAIN items : items[i] # v
    BY DEF Range
  <2>2. At(v) = At(v - 1)
    BY <1>1, <1>6, <2>1
  <2> HIDE DEF At
  <2> QED  BY <1>4, <1>7, <2>2
<1>11. Ascending(items)[k] = CHOOSE n \in Range(items) : Less(items, n) < k /\ NotMore(items, n) >= k
  BY DEF Ascending, Less, NotMore
<1> QED  BY <1>9, <1>10, <1>11

LEMMA AscendingType ==
    ASSUME NEW N \in Nat, NEW items \in Seq(1..N)
    PROVE  /\ Ascending(items) \in Seq(1..N) /\ Len(Ascending(items)) = Len(items)
           /\ DOMAIN Ascending(items) = DOMAIN items
           /\ Range(Ascending(items)) \subseteq Range(items)
<1> DEFINE t == Ascending(items)
           n == Len(items)
<1>1. n \in Nat /\ DOMAIN items = 1..n /\ DOMAIN t = 1..n
  BY DEF Ascending
<1>2. \A k \in 1..n : t[k] \in Range(items)
  BY <1>1, AscendingSorts
<1>3. Range(items) \subseteq 1..N
  BY DEF Range
<1>4. t = [k \in 1..n |-> t[k]]
  <2> DEFINE g(k) == CHOOSE v \in Range(items) :
                       /\ Cardinality({i \in DOMAIN items : items[i] < v}) < k
                       /\ Cardinality({i \in DOMAIN items : items[i] <= v}) >= k
  <2>1. t = [k \in 1..n |-> g(k)]
    BY <1>1 DEF Ascending
  <2> HIDE DEF g, t
  <2> QED  BY <2>1
<1> HIDE DEF t
<1>5. t \in [1..n -> 1..N]
  BY <1>2, <1>3, <1>4
<1>6. t \in Seq(1..N) /\ Len(t) = n
  BY <1>1, <1>5
<1>7. Range(t) \subseteq Range(items)
  BY <1>1, <1>2 DEF Range
<1> QED  BY <1>6, <1>7 DEF t

(* What is listed is sorted, or turned round; nothing is lost or made up.   *)
LEMMA OrderedType ==
    ASSUME NEW N \in Nat, NEW items \in Seq(1..N)
    PROVE  Ordered(items) \in Seq(1..N) /\ Len(Ordered(items)) = Len(items)
<1> DEFINE n == Len(items)
<1>1. n \in Nat /\ DOMAIN items = 1..n /\ \A k \in 1..n : items[k] \in 1..N
  OBVIOUS
<1>2. ASSUME NEW s \in Seq(1..N), Len(s) = n
      PROVE  Reverse(s) \in Seq(1..N) /\ Len(Reverse(s)) = n
  <2>1. Reverse(s) = [k \in 1..n |-> s[(n - k) + 1]]
    BY <1>2 DEF Reverse
  <2>2. \A k \in 1..n : s[(n - k) + 1] \in 1..N
    <3> SUFFICES ASSUME NEW k \in 1..n PROVE s[(n - k) + 1] \in 1..N
      OBVIOUS
    <3> HIDE DEF n
    <3>1. (n - k) + 1 \in 1..n
      BY <1>1
    <3>2. \A j \in 1..n : s[j] \in 1..N
      BY <1>2
    <3> QED  BY <3>1, <3>2
  <2> HIDE DEF n
  <2> QED  BY <1>1, <2>1, <2>2
<1>3. Ascending(items) \in Seq(1..N) /\ Len(Ascending(items)) = n
  BY AscendingType
<1>4. Descending(items) \in Seq(1..N) /\ Len(Descending(items)) = n
  BY <1>2, <1>3 DEF Descending
<1>5. Reverse(items) \in Seq(1..N) /\ Len(Reverse(items)) = n
  BY <1>2
<1> QED  BY <1>3, <1>4, <1>5 DEF Ordered

(* The first n items.                                                       *)
LEMMA FirstOfIs ==
    ASSUME NEW S, NEW items \in Seq(S), NEW n \in Nat
    PROVE  /\ FirstOf(items, n) \in Seq(S)
           /\ Len(FirstOf(items, n)) = Smaller(n, Len(items))
           /\ \A k \in 1..Len(FirstOf(items, n)) : FirstOf(items, n)[k] = items[k]
<1> DEFINE m == Smaller(n, Len(items))
           t == FirstOf(items, n)
<1>1. m \in Nat /\ m <= Len(items) /\ t = SubSeq(items, 1, m)
  BY DEF Smaller, FirstOf
<1>2. /\ t \in Seq(S) /\ Len(t) = IF 1 <= m THEN m - 1 + 1 ELSE 0
      /\ \A k \in 1..(m - 1 + 1) : t[k] = items[1 + k - 1]
  <2> HIDE DEF m, t
  <2>1. m \in Int /\ 1 \in Nat \ {0}
    BY <1>1
  <2> QED  BY <1>1, <2>1, PartIs
<1> HIDE DEF m, t
<1>3. m - 1 + 1 = m /\ \A k \in 1..m : 1 + k - 1 = k
  BY <1>1
<1>4. Len(t) = m
  BY <1>1, <1>2
<1> QED  BY <1>2, <1>3, <1>4 DEF m, t

(* One page of the list, and the items of the pages before it.              *)
Part(s, a, l) == SubSeq(s, a + 1, Smaller(a + l, Len(s)))
Passed(p, l) == (p - 1) * l

LEMMA PartOf ==
    ASSUME NEW S, NEW s \in Seq(S), NEW a \in Nat, NEW l \in Nat
    PROVE  /\ Part(s, a, l) \in Seq(S) /\ Len(Part(s, a, l)) <= l
           /\ a >= Len(s) => Len(Part(s, a, l)) = 0
           /\ a < Len(s) => Len(Part(s, a, l)) = Smaller(a + l, Len(s)) - a
           /\ \A k \in 1..Len(Part(s, a, l)) :
                 a + k \in 1..Len(s) /\ Part(s, a, l)[k] = s[a + k]
<1> DEFINE m == Len(s)
           b == Smaller(a + l, m)
           t == SubSeq(s, a + 1, b)
<1>1. m \in Nat
  OBVIOUS
<1>2. b \in Nat /\ b <= m /\ b = (IF a + l < m THEN a + l ELSE m)
  BY <1>1 DEF Smaller
<1> HIDE DEF b
<1>3. /\ t \in Seq(S) /\ Len(t) = IF a + 1 <= b THEN b - (a + 1) + 1 ELSE 0
      /\ \A k \in 1..(b - (a + 1) + 1) : t[k] = s[(a + 1) + k - 1]
  <2>1. a + 1 \in Nat \ {0} /\ b \in Int /\ b <= Len(s)
    BY <1>2
  <2> QED  BY <2>1, PartIs
<1> HIDE DEF m, t
<1>4. /\ b - (a + 1) + 1 = b - a
      /\ \A k \in 1..(b - a) : (a + 1) + k - 1 = a + k
      /\ Len(t) = IF a >= m THEN 0 ELSE b - a
  BY <1>1, <1>2, <1>3
<1>5. Len(t) <= l
  BY <1>1, <1>2, <1>4
<1>6. ASSUME NEW k \in 1..Len(t) PROVE a + k \in 1..m /\ t[k] = s[a + k]
  <2>1. k \in 1..(b - a) /\ a + k \in 1..m
    BY <1>1, <1>2, <1>4
  <2> QED  BY <1>3, <1>4, <2>1
<1>7. (a >= m => Len(t) = 0) /\ (a < m => Len(t) = b - a)
  BY <1>1, <1>4
<1>8. Part(s, a, l) = t
  BY DEF Part, t, b, m
<1> QED  BY <1>3, <1>5, <1>6, <1>7, <1>8 DEF m, b

LEMMA PageIsPart ==
    ASSUME NEW p \in Nat \ {0}, NEW l \in Nat \ {0}
    PROVE  /\ Passed(p, l) \in Nat /\ p * l = Passed(p, l) + l
           /\ PageItems(p, l) = Part(order, Passed(p, l), l)
<1> DEFINE b == p * l
<1>1. Passed(p, l) \in Nat /\ b = Passed(p, l) + l
  <2>1. \A x \in Nat : x * l \in Nat /\ (x + 1) * l = x * l + l
    OBVIOUS
  <2>2. p - 1 \in Nat /\ p = (p - 1) + 1
    OBVIOUS
  <2> QED  BY <2>1, <2>2 DEF Passed
<1>2. PageItems(p, l) = SubSeq(order, Passed(p, l) + 1, Smaller(b, Len(order)))
  BY DEF PageItems, Passed
<1> HIDE DEF b
<1>3. PageItems(p, l) = Part(order, Passed(p, l), l)
  BY <1>1, <1>2 DEF Part
<1> QED  BY <1>1, <1>3 DEF b

LEMMA PageIs ==
    ASSUME NEW S, order \in Seq(S), NEW p \in Nat \ {0}, NEW l \in Nat \ {0}
    PROVE  PageItems(p, l) \in Seq(S) /\ Len(PageItems(p, l)) <= l
<1>1. Passed(p, l) \in Nat /\ PageItems(p, l) = Part(order, Passed(p, l), l) /\ l \in Nat
  BY PageIsPart
<1> QED  BY <1>1, PartOf

-----------------------------------------------------------------------------
(* The types of all the variables, and what they rest on: a list names a    *)
(* pull once, a walk holds items only while it reads, and a total is there  *)
(* where it is used.                                                        *)

Packets == [type : {"none", "error", "inventory_list_incomplete", "cr_inventory_slice"},
            numbers : Seq(1..made), complete : BOOLEAN, next : Nat \cup {Null}]

ForgeTyped ==
    /\ made \in 0..MaxPulls /\ moves \in 0..MaxMoves
    /\ order \in Seq(1..made) /\ Distinct(order)
    /\ provider \in Providers
CallerTyped ==
    /\ pc \in {"idle", "between", "finished"} \cup Calling
    /\ sort \in Sorts
    /\ cursor \in Nat \cup {Null}
    /\ packet \in Packets /\ Len(packet.numbers) <= Limit
    /\ pc = "between" => packet.next # Null
ListingTyped ==
    /\ lastPage \in 1..MaxPages /\ page \in 1..lastPage /\ limit \in 1..PageSize
    /\ got \in Seq(1..made) /\ walked \in Nat /\ Len(got) <= walked
    /\ total \in Nat \cup {Null}
HistoryTyped ==
    shown \subseteq 1..made /\ steady \subseteq Open /\ disturbed \in BOOLEAN
GotWhileReading ==
    /\ pc \notin {"page", "link", "confirm"} => Len(got) = 0
    /\ (total = Null /\ provider \in {"gitea", "gitlab"}) => Len(got) <= Window
TotalsAreThere ==
    /\ pc \in {"pulls", "link"} => provider = "github"
    /\ pc = "tail" => total \in 1..CompliantMax
    /\ pc = "pulls" => total \in 1..(2 * CompliantMax)
Typed == /\ ForgeTyped /\ CallerTyped /\ ListingTyped /\ HistoryTyped
         /\ GotWhileReading /\ TotalsAreThere

(* The sizes are numbers.                                                   *)
LEMMA Sizes ==
    ASSUME cursor \in Nat \cup {Null}
    PROVE  /\ Limit \in Nat /\ Limit >= 1 /\ PageSize \in Nat /\ PageSize >= 1
           /\ LinkPageSize \in 1..PageSize /\ MaxPages \in Nat /\ MaxPages >= 2
           /\ MaxPulls \in Nat /\ MaxMoves \in Nat
           /\ Offset \in Nat /\ Window \in Nat /\ Window = Offset + Limit
           /\ ProbeLimit \in 1..PageSize /\ ProbeLimit <= Window
           /\ CompliantMax \in Nat
<1>1. /\ Limit \in Nat /\ Limit >= 1 /\ PageSize \in Nat /\ PageSize >= 1
      /\ LinkPageSize \in 1..PageSize /\ MaxPages \in Nat /\ MaxPages >= 2
      /\ MaxPulls \in Nat /\ MaxMoves \in Nat
  BY SizeAssumption, BoundAssumption
<1>2. Offset \in Nat
  BY DEF Offset
<1>3. Window \in Nat /\ Window = Offset + Limit /\ Window >= 1
  BY <1>1, <1>2 DEF Window
<1>4. ProbeLimit \in 1..PageSize /\ ProbeLimit <= Window
  BY <1>1, <1>3 DEF ProbeLimit, Smaller
<1>5. CompliantMax \in Nat
  BY <1>1 DEF CompliantMax
<1> QED  BY <1>1, <1>2, <1>3, <1>4, <1>5

(* The slice behind the cursor: at most Limit of what was listed, and a     *)
(* cursor behind it.                                                        *)
LEMMA SliceIs ==
    ASSUME NEW N \in Nat, NEW items \in Seq(1..N), NEW truncated \in BOOLEAN, NEW count \in Nat,
           cursor \in Nat \cup {Null}
    PROVE  LET p == Slice(items, truncated, count)
           IN  /\ p \in [type : {"inventory_list_incomplete", "cr_inventory_slice"},
                         numbers : Seq(1..N), complete : BOOLEAN, next : Nat \cup {Null}]
               /\ Len(p.numbers) <= Limit
<1> DEFINE numbers  == FirstOf(Ordered(items), Window)
           selected == SubSeq(numbers, Offset + 1, Len(numbers))
           seen     == Offset + Len(selected)
           hasMore  == truncated \/ seen < count
<1>1. /\ Limit \in Nat /\ Limit >= 1 /\ Offset \in Nat
      /\ Window \in Nat /\ Window = Offset + Limit
  BY Sizes
<1>2. numbers \in Seq(1..N) /\ Len(numbers) <= Window
  <2>1. Ordered(items) \in Seq(1..N)
    BY OrderedType
  <2>2. numbers \in Seq(1..N) /\ Len(numbers) = Smaller(Window, Len(Ordered(items)))
    <3> HIDE DEF numbers
    <3> QED  BY <1>1, <2>1, FirstOfIs DEF numbers
  <2>3. Len(Ordered(items)) \in Nat
    BY <2>1
  <2> QED  BY <1>1, <2>2, <2>3 DEF Smaller
<1> HIDE DEF numbers
<1>3. Len(numbers) \in Nat
  BY <1>2
<1>4. selected \in Seq(1..N) /\ Len(selected) <= Limit
  <2>1. Offset + 1 \in Nat \ {0} /\ Len(numbers) \in Int
    BY <1>1, <1>3
  <2>2. /\ selected \in Seq(1..N)
        /\ Len(selected) = IF Offset + 1 <= Len(numbers) THEN Len(numbers) - (Offset + 1) + 1
                                                         ELSE 0
    BY <1>2, <1>3, <2>1, PartIs
  <2> QED  BY <1>1, <1>2, <1>3, <2>2
<1> HIDE DEF selected
<1>5. seen \in Nat /\ hasMore \in BOOLEAN
  BY <1>1, <1>4
<1> HIDE DEF seen, hasMore
<1>6. Slice(items, truncated, count) =
        IF truncated /\ cursor = Null THEN IncompletePacket
        ELSE [type |-> "cr_inventory_slice", numbers |-> selected, complete |-> ~hasMore,
              next |-> IF hasMore THEN seen ELSE Null]
  BY DEF Slice, numbers, selected, seen, hasMore
<1>7. IncompletePacket = [type |-> "inventory_list_incomplete", numbers |-> <<>>,
                          complete |-> FALSE, next |-> Null]
  BY DEF IncompletePacket, Bare
<1>8. <<>> \in Seq(1..N) /\ Len(<<>>) = 0
  OBVIOUS
<1>9. CASE truncated /\ cursor = Null
  BY <1>1, <1>6, <1>7, <1>8, <1>9
<1>10. CASE ~(truncated /\ cursor = Null)
  BY <1>4, <1>5, <1>6, <1>10
<1> QED  BY <1>9, <1>10

-----------------------------------------------------------------------------
(* Every step keeps the types.                                              *)

LEMMA SliceTyped ==
    ASSUME Typed, NEW items \in Seq(1..made), NEW truncated \in BOOLEAN, NEW count \in Nat
    PROVE  /\ Slice(items, truncated, count) \in Packets
           /\ Len(Slice(items, truncated, count).numbers) <= Limit
<1>1. made \in Nat /\ cursor \in Nat \cup {Null}
  BY Sizes DEF Typed, ForgeTyped, CallerTyped
<1>2. /\ Slice(items, truncated, count) \in
            [type : {"inventory_list_incomplete", "cr_inventory_slice"},
             numbers : Seq(1..made), complete : BOOLEAN, next : Nat \cup {Null}]
      /\ Len(Slice(items, truncated, count).numbers) <= Limit
  BY <1>1, SliceIs
<1> QED  BY <1>2 DEF Packets

(* A call that answers, whatever the packet.                                *)
LEMMA AnswerTyped ==
    ASSUME Typed, NEW p \in Packets, Len(p.numbers) <= Limit, Answer(p), disturbed' \in BOOLEAN
    PROVE  Typed'
<1> USE DEF Typed
<1>1. /\ Limit \in Nat /\ PageSize \in Nat /\ PageSize >= 1 /\ MaxPages \in Nat /\ MaxPages >= 2
      /\ Window \in Nat
  BY Sizes DEF CallerTyped
<1>2. p.next \in Nat \cup {Null} /\ p.numbers \in Seq(1..made)
  BY DEF Packets
<1>3. pc' \in {"between", "finished"} /\ (pc' = "between" => packet'.next # Null)
  BY DEF Answer
<1>4. ForgeTyped'
  BY DEF Answer, forge, ForgeTyped, Distinct
<1>5. CallerTyped'
  BY <1>3 DEF Answer, forge, CallerTyped, Packets
<1>6. ListingTyped' /\ Len(got') = 0
  <2>1. /\ page' = 1 /\ limit' = PageSize /\ lastPage' = MaxPages
        /\ got' = <<>> /\ walked' = 0 /\ total' = Null
    BY DEF Answer, NoListing
  <2>2. <<>> \in Seq(1..made') /\ Len(<<>>) = 0
    OBVIOUS
  <2> QED  BY <1>1, <2>1, <2>2 DEF ListingTyped
<1>7. HistoryTyped'
  <2>1. Range(p.numbers) \subseteq 1..made
    BY <1>2, RangeIs
  <2> QED  BY <2>1 DEF Answer, forge, HistoryTyped, Open
<1>8. GotWhileReading'
  BY <1>1, <1>6 DEF GotWhileReading, Answer, Window, Offset
<1>9. TotalsAreThere'
  BY <1>3 DEF TotalsAreThere
<1> QED  BY <1>4, <1>5, <1>6, <1>7, <1>8, <1>9

LEMMA FinishTyped ==
    ASSUME Typed, NEW items \in Seq(1..made), NEW read \in Nat, NEW truncated \in BOOLEAN,
           FinishWalk(items, read, truncated)
    PROVE  Typed'
<1>1. disturbed' = disturbed /\ disturbed \in BOOLEAN /\ total \in Nat \cup {Null}
  BY DEF FinishWalk, Emit, Typed, HistoryTyped, ListingTyped
<1>2. CASE total # Null
  <2>1. (truncated \/ read < total) \in BOOLEAN /\ total \in Nat
    BY <1>1, <1>2
  <2>2. Answer(Slice(items, truncated \/ read < total, total))
    BY <1>2 DEF FinishWalk, Emit
  <2> QED  BY <1>1, <2>1, <2>2, SliceTyped, AnswerTyped
<1>3. CASE total = Null /\ provider = "github"
  <2>1. Smaller(Len(items), Window) \in Nat
    BY Sizes DEF Smaller, Typed, CallerTyped
  <2>2. Answer(Slice(items, truncated, Smaller(Len(items), Window)))
    BY <1>3 DEF FinishWalk, Emit
  <2> QED  BY <1>1, <2>1, <2>2, SliceTyped, AnswerTyped
<1>4. CASE total = Null /\ provider # "github"
  <2>1. Answer(Slice(items, truncated, read))
    BY <1>4 DEF FinishWalk, Emit
  <2> QED  BY <1>1, <2>1, SliceTyped, AnswerTyped
<1> QED  BY <1>2, <1>3, <1>4

(* A walk that begins, with the first page in hand or without.              *)
LEMMA StartTyped ==
    ASSUME Typed, NEW where \in {"page", "link"}, NEW items \in Seq(1..made),
           NEW count \in Nat \cup {Null}, NEW last \in 1..MaxPages, NEW p \in 1..last,
           NEW l \in 1..PageSize, StartWalk(where, items, count, p, l, last),
           where = "link" => provider = "github", Len(items) <= Window, disturbed' \in BOOLEAN
    PROVE  Typed'
<1> USE DEF Typed
<1>1. ForgeTyped'
  BY DEF StartWalk, forge, ForgeTyped, Distinct
<1>2. CallerTyped'
  BY DEF StartWalk, forge, CallerTyped, Packets, Calling
<1>3. ListingTyped'
  BY DEF StartWalk, forge, ListingTyped
<1>4. HistoryTyped'
  BY DEF StartWalk, forge, HistoryTyped, Open
<1>5. GotWhileReading'
  BY DEF StartWalk, GotWhileReading, Window, Offset
<1>6. TotalsAreThere'
  BY DEF StartWalk, forge, TotalsAreThere
<1> QED  BY <1>1, <1>2, <1>3, <1>4, <1>5, <1>6

(* What a page brings, and what is kept of it.                              *)
LEMMA KeptTyped ==
    ASSUME Typed
    PROVE  /\ Items \in Seq(1..made) /\ Len(Items) <= limit /\ Len(Items) \in Nat
           /\ got \o Items \in Seq(1..made) /\ Len(got \o Items) = Len(got) + Len(Items)
           /\ Kept \in Seq(1..made) /\ Len(Kept) <= walked + Len(Items)
           /\ walked + Len(Items) \in Nat
           /\ (total = Null /\ provider \in {"gitea", "gitlab"}) => Len(Kept) <= Window
<1>1. /\ order \in Seq(1..made) /\ page \in Nat \ {0} /\ limit \in Nat \ {0} /\ walked \in Nat
      /\ got \in Seq(1..made) /\ Len(got) \in Nat /\ Len(got) <= walked /\ Window \in Nat
  <2>1. MaxPages \in Nat /\ PageSize \in Nat /\ Window \in Nat
    BY Sizes DEF Typed, CallerTyped
  <2>2. /\ lastPage \in 1..MaxPages /\ page \in 1..lastPage /\ limit \in 1..PageSize
        /\ order \in Seq(1..made) /\ got \in Seq(1..made) /\ walked \in Nat /\ Len(got) <= walked
    BY DEF Typed, ForgeTyped, ListingTyped
  <2>3. page \in Nat \ {0} /\ limit \in Nat \ {0}
    BY <2>1, <2>2
  <2>4. Len(got) \in Nat
    BY <2>2
  <2> QED  BY <2>1, <2>2, <2>3, <2>4
<1>2. Items \in Seq(1..made) /\ Len(Items) <= limit /\ Len(Items) \in Nat
  <2>1. /\ PageItems(page, limit) \in Seq(1..made)
        /\ Len(PageItems(page, limit)) <= limit
    BY <1>1, PageIs, Zenon
  <2> QED  BY <2>1 DEF Items
<1>3. got \o Items \in Seq(1..made) /\ Len(got \o Items) = Len(got) + Len(Items)
  BY <1>1, <1>2, ConcatProperties
<1>4. /\ FirstOf(got \o Items, Window) \in Seq(1..made)
      /\ Len(FirstOf(got \o Items, Window)) <= Len(got) + Len(Items)
      /\ Len(FirstOf(got \o Items, Window)) <= Window
  <2>1. /\ FirstOf(got \o Items, Window) \in Seq(1..made)
        /\ Len(FirstOf(got \o Items, Window)) = Smaller(Window, Len(got \o Items))
    BY <1>1, <1>3, FirstOfIs
  <2> QED  BY <1>1, <1>2, <1>3, <2>1 DEF Smaller
<1>5. Kept \in Seq(1..made) /\ Len(Kept) <= Len(got) + Len(Items)
  <2>1. CASE FullCollect
    BY <1>1, <1>2, <1>3, <2>1 DEF Kept
  <2>2. CASE ~FullCollect
    BY <1>4, <2>2 DEF Kept
  <2> QED  BY <2>1, <2>2
<1>6. Len(Kept) <= walked + Len(Items) /\ walked + Len(Items) \in Nat
  <2>1. Len(Kept) \in Nat
    BY <1>5
  <2> QED  BY <1>1, <1>2, <1>5, <2>1
<1>7. (total = Null /\ provider \in {"gitea", "gitlab"}) => Len(Kept) <= Window
  BY <1>4 DEF Kept, FullCollect
<1> QED  BY <1>2, <1>3, <1>5, <1>6, <1>7

(* The walk reads on, from the same list.                                   *)
LEMMA ReadOnTyped ==
    ASSUME Typed, NEW items \in Seq(1..made), NEW p \in 1..lastPage, pc' \in {pc, "confirm"},
           pc \in {"page", "link"},
           Len(items) <= walked + Len(Items),
           (total = Null /\ provider \in {"gitea", "gitlab"}) => Len(items) <= Window,
           got' = items, walked' = walked + Len(Items), page' = p,
           UNCHANGED <<forge, sort, cursor, packet, limit, lastPage, total, tailTries, history>>
    PROVE  Typed'
<1> USE DEF Typed
<1>1. ForgeTyped'
  BY DEF forge, ForgeTyped, Distinct
<1>2. CallerTyped'
  BY DEF forge, CallerTyped, Packets, Calling
<1>3. ListingTyped'
  BY KeptTyped DEF forge, ListingTyped
<1>4. HistoryTyped'
  BY DEF forge, history, HistoryTyped, Open
<1>5. GotWhileReading'
  BY DEF forge, GotWhileReading, Window, Offset
<1>6. TotalsAreThere'
  BY DEF forge, TotalsAreThere
<1> QED  BY <1>1, <1>2, <1>3, <1>4, <1>5, <1>6

LEMMA WalkTyped ==
    ASSUME Typed, ReadOn \/ EndOfList \/ LastPage \/ LastIssuePage \/ LastTailPage \/ ConfirmEnd
                  \/ LinkOn \/ LinkEnd \/ BackOff \/ WalkFails
    PROVE  Typed'
<1>1. /\ page \in 1..lastPage /\ lastPage \in 1..MaxPages /\ MaxPages \in Nat
      /\ PageSize \in Nat /\ limit \in 1..PageSize /\ got \in Seq(1..made) /\ walked \in Nat
      /\ order \in Seq(1..made) /\ disturbed \in BOOLEAN /\ Limit \in Nat
      /\ Len(got) <= walked
  BY Sizes DEF Typed, ForgeTyped, CallerTyped, ListingTyped, HistoryTyped
<1>2. CASE ReadOn
  <2>1. page + 1 \in 1..lastPage
    BY <1>1, <1>2 DEF ReadOn
  <2>2. /\ pc' = pc /\ pc = "page" /\ got' = Kept /\ walked' = walked + Len(Items)
        /\ page' = page + 1
        /\ UNCHANGED <<forge, sort, cursor, packet, limit, lastPage, total, tailTries, history>>
    BY <1>2 DEF ReadOn
  <2> QED  BY <2>1, <2>2, KeptTyped, ReadOnTyped
<1>3. CASE EndOfList
  BY <1>3, KeptTyped, FinishTyped DEF EndOfList
<1>4. CASE LastPage
  <2>1. /\ pc' = "confirm" /\ pc = "page" /\ got' = Kept /\ walked' = walked + Len(Items)
        /\ page' = page
        /\ UNCHANGED <<forge, sort, cursor, packet, limit, lastPage, total, tailTries, history>>
    BY <1>4 DEF LastPage
  <2> QED  BY <1>1, <2>1, KeptTyped, ReadOnTyped
<1>5. CASE LastIssuePage
  <2>1. Answer(Slice(Kept, TRUE, walked + Len(Items))) /\ disturbed' \in BOOLEAN
    BY <1>5 DEF LastIssuePage
  <2> QED  BY <2>1, KeptTyped, SliceTyped, AnswerTyped
<1>6. CASE LastTailPage
  BY <1>6, KeptTyped, FinishTyped DEF LastTailPage
<1>7. CASE ConfirmEnd
  <2>1. (PageItems(lastPage + 1, 1) # <<>>) \in BOOLEAN
    OBVIOUS
  <2>2. FinishWalk(got, walked, PageItems(lastPage + 1, 1) # <<>>)
    BY <1>7 DEF ConfirmEnd
  <2> QED  BY <1>1, <2>1, <2>2, FinishTyped
<1>8. CASE LinkOn
  <2>1. page + 1 \in 1..lastPage
    BY <1>1, <1>8 DEF LinkOn
  <2>2. /\ pc' = pc /\ pc = "link" /\ got' = got \o Items /\ walked' = walked + Len(Items)
        /\ page' = page + 1
        /\ UNCHANGED <<forge, sort, cursor, packet, limit, lastPage, total, tailTries, history>>
    BY <1>8 DEF LinkOn
  <2>3. provider = "github"
    BY <2>2 DEF Typed, TotalsAreThere
  <2>4. Len(got \o Items) <= walked + Len(Items) /\ got \o Items \in Seq(1..made)
    BY <1>1, KeptTyped
  <2> QED  BY <2>1, <2>2, <2>3, <2>4, ReadOnTyped
<1>9. CASE LinkEnd
  <2>1. HasNext \in BOOLEAN
    BY DEF HasNext
  <2>2. FinishWalk(got \o Items, walked + Len(Items), HasNext)
    BY <1>9 DEF LinkEnd
  <2> QED  BY <2>1, <2>2, KeptTyped, FinishTyped
<1>10. CASE BackOff
  <2>1. limit' \in 1..PageSize
    BY <1>1, <1>10 DEF BackOff
  <2>2. /\ UNCHANGED <<provider, order, made, moves, pc, sort, cursor, packet, page, lastPage,
                       got, walked, total, shown, steady>>
        /\ disturbed' \in BOOLEAN
    BY <1>10 DEF BackOff, forge
  <2> QED  BY <2>1, <2>2 DEF Typed, ForgeTyped, Distinct, CallerTyped, Packets, Calling,
              ListingTyped, HistoryTyped, Open, GotWhileReading, Window, Offset, TotalsAreThere
<1>11. CASE WalkFails
  <2>1. ErrorPacket \in Packets /\ Len(ErrorPacket.numbers) <= Limit
    <3>1. <<>> \in Seq(1..made) /\ Len(<<>>) = 0
      OBVIOUS
    <3> QED  BY <1>1, <3>1 DEF ErrorPacket, Bare, Packets
  <2>2. Answer(ErrorPacket) /\ disturbed' = disturbed
    BY <1>11 DEF WalkFails, Emit
  <2> QED  BY <1>1, <2>1, <2>2, AnswerTyped
<1> QED  BY <1>2, <1>3, <1>4, <1>5, <1>6, <1>7, <1>8, <1>9, <1>10, <1>11

(* The last page of a list is one of its pages.                             *)
LEMMA TailPageIs ==
    ASSUME total \in 1..CompliantMax
    PROVE  TailPage \in 1..MaxPages
<1> DEFINE s == PageSize
           m == MaxPages
<1>1. s \in Nat /\ s >= 1 /\ m \in Nat /\ total \in Nat /\ total >= 1 /\ total <= s * m
  BY SizeAssumption DEF CompliantMax
<1> HIDE DEF s, m
<1>2. \A t, q, z \in Nat : t >= 1 /\ q >= 1 /\ t <= q * z =>
        (t + q - 1) \div q \in Nat /\ (t + q - 1) \div q >= 1 /\ (t + q - 1) \div q <= z
  <2> SUFFICES ASSUME NEW t \in Nat, NEW q \in Nat, NEW z \in Nat, t >= 1, q >= 1, t <= q * z
               PROVE  LET d == (t + q - 1) \div q IN d \in Nat /\ d >= 1 /\ d <= z
    OBVIOUS
  <2> DEFINE d == (t + q - 1) \div q
  <2>1. d \in Int /\ q * d <= t + q - 1 /\ t + q - 1 < q * d + q
    BY SMT
  <2> HIDE DEF d
  <2>2. d >= 1
    <3>1. CASE d <= 0
      <4>1. \A x \in Int : x <= 0 => q * x <= 0
        BY SMT
      <4>2. q * d <= 0 /\ q * d \in Int
        BY <2>1, <3>1, <4>1
      <4> QED  BY <2>1, <4>2
    <3> QED  BY <2>1, <3>1
  <2>3. d <= z
    <3>1. CASE d >= z + 1
      <4>1. \A x, y \in Int : x >= y => q * x >= q * y
        BY SMT
      <4>2. q * (z + 1) = q * z + q
        BY SMT
      <4>3. q * d >= q * z + q /\ q * d \in Int /\ q * z \in Int
        BY <2>1, <3>1, <4>1, <4>2
      <4> QED  BY <2>1, <4>3
    <3> QED  BY <2>1, <3>1
  <2> QED  BY <2>1, <2>2, <2>3 DEF d
<1>3. TailPage = (total + s - 1) \div s
  BY DEF TailPage, s
<1>4. TailPage \in Nat /\ TailPage >= 1 /\ TailPage <= m
  BY <1>1, <1>2, <1>3
<1> QED  BY <1>1, <1>4 DEF m

(* The first page, in hand or answered.                                     *)
LEMMA ProbedTyped ==
    ASSUME Typed
    PROVE  /\ Probed \in Seq(1..made) /\ Len(Probed) \in Nat /\ Len(Probed) <= Window
           /\ Len(order) \in Nat
<1>1. order \in Seq(1..made) /\ ProbeLimit \in Nat \ {0} /\ ProbeLimit <= Window /\ Window \in Nat
  <2>1. order \in Seq(1..made) /\ cursor \in Nat \cup {Null}
    BY DEF Typed, ForgeTyped, CallerTyped
  <2>2. ProbeLimit \in 1..PageSize /\ ProbeLimit <= Window /\ Window \in Nat /\ PageSize \in Nat
    BY <2>1, Sizes, Zenon
  <2> QED  BY <2>1, <2>2
<1>2. 1 \in Nat \ {0}
  OBVIOUS
<1>3. PageItems(1, ProbeLimit) \in Seq(1..made) /\ Len(PageItems(1, ProbeLimit)) <= ProbeLimit
  BY <1>1, <1>2, PageIs, Zenon
<1>4. Probed \in Seq(1..made) /\ Len(Probed) <= ProbeLimit
  BY <1>3 DEF Probed
<1> QED  BY <1>1, <1>4

LEMMA ProbeTyped ==
    ASSUME Typed, Probe
    PROVE  Typed'
<1>1. /\ MaxPages \in Nat /\ MaxPages >= 2 /\ PageSize \in 1..PageSize
      /\ LinkPageSize \in 1..PageSize /\ ProbeLimit \in 1..PageSize /\ Window \in Nat
      /\ CompliantMax \in Nat
      /\ disturbed \in BOOLEAN /\ made \in Nat /\ total \in Nat \cup {Null}
  BY Sizes DEF Typed, ForgeTyped, CallerTyped, ListingTyped, HistoryTyped
<1>2. /\ 1 \in 1..MaxPages /\ 2 \in 1..MaxPages /\ MaxPages \in 1..MaxPages
      /\ <<>> \in Seq(1..made) /\ Len(<<>>) = 0 /\ Len(<<>>) <= Window
  BY <1>1
<1>3. /\ Probed \in Seq(1..made) /\ Len(Probed) \in Nat /\ Len(Probed) <= Window
      /\ Len(order) \in Nat
  BY ProbedTyped
<1>4. CASE ProbeUnusable
  <2>1. disturbed' \in BOOLEAN /\ StartWalk("page", <<>>, Null, 1, PageSize, MaxPages)
    BY <1>4 DEF ProbeUnusable
  <2> QED  BY <1>1, <1>2, <2>1, StartTyped
<1>5. CASE ProbeTooLong
  <2>1. disturbed' \in BOOLEAN /\ Answer(Slice(Probed, TRUE, Len(order)))
    BY <1>5 DEF ProbeTooLong, WrongEnd
  <2> QED  BY <1>3, <2>1, SliceTyped, AnswerTyped
<1>6. CASE ProbeTail
  <2>1. Len(order) \in 1..CompliantMax
    BY <1>1, <1>3, <1>6 DEF ProbeTail, TrustedTotal, Trusted
  <2>2. /\ pc' = "tail" /\ pc = "probe" /\ total' = Len(order)
        /\ UNCHANGED <<provider, order, made, moves, sort, cursor, packet, page, limit, lastPage,
                       got, walked, shown, steady, disturbed>>
    BY <1>6 DEF ProbeTail, TrustedTotal, AskForge, forge, history
  <2>3. ForgeTyped'
    BY <2>2 DEF Typed, ForgeTyped, Distinct
  <2>4. Packets' = Packets
    BY <2>2 DEF Packets
  <2>5. CallerTyped'
    BY <2>2, <2>4 DEF Typed, CallerTyped, Calling
  <2>6. ListingTyped'
    BY <1>3, <2>2 DEF Typed, ListingTyped
  <2>7. HistoryTyped'
    BY <2>2 DEF Typed, HistoryTyped, Open
  <2>8. GotWhileReading'
    <3>1. Len(got') = 0 /\ Window' = Window
      BY <2>2 DEF Typed, GotWhileReading, Window, Offset
    <3> QED  BY <1>1, <3>1 DEF GotWhileReading
  <2>9. TotalsAreThere'
    <3>1. pc' = "tail" /\ total' \in 1..CompliantMax
      BY <2>1, <2>2
    <3> QED  BY <3>1 DEF TotalsAreThere
  <2> QED  BY <2>3, <2>5, <2>6, <2>7, <2>8, <2>9 DEF Typed
<1>7. CASE ProbeSuffices
  <2>1. disturbed' \in BOOLEAN /\ Answer(Slice(Probed, FALSE, Len(order)))
    BY <1>7 DEF ProbeSuffices, WrongEnd
  <2> QED  BY <1>3, <2>1, SliceTyped, AnswerTyped
<1>8. CASE ProbeSeeds
  <2>1. disturbed' = disturbed /\ StartWalk("page", Probed, Len(order), 2, PageSize, MaxPages)
    BY <1>8 DEF ProbeSeeds
  <2> QED  BY <1>1, <1>2, <1>3, <2>1, StartTyped
<1>9. CASE SearchTotal
  <2>1. /\ pc' = "pulls" /\ pc = "probe" /\ total' = Len(order) /\ provider = "github"
        /\ Len(order) \in 1..(2 * CompliantMax)
        /\ UNCHANGED <<provider, order, made, moves, sort, cursor, packet, page, limit, lastPage,
                       got, walked, shown, steady, disturbed>>
    BY <1>9 DEF SearchTotal, Trusted, forge, history
  <2> QED  BY <1>1, <1>3, <2>1 DEF Typed, ForgeTyped, Distinct, CallerTyped, Packets,
              Calling, ListingTyped, HistoryTyped, Open, GotWhileReading, Window, Offset,
              TotalsAreThere
<1>10. CASE SearchLost
  <2>1. /\ disturbed' \in BOOLEAN /\ provider = "github"
        /\ StartWalk("link", <<>>, Null, 1, LinkPageSize, MaxPages)
    BY <1>10 DEF SearchLost
  <2> QED  BY <1>1, <1>2, <2>1, StartTyped
<1>11. ASSUME pc = "pulls" PROVE total \in Nat /\ provider \in Providers
  BY <1>1, <1>11 DEF Typed, TotalsAreThere, ForgeTyped
<1>12. CASE PullsTooMany
  <2>1. /\ disturbed' = disturbed /\ pc = "pulls" /\ Answer(Slice(Probed, TRUE, total))
    BY <1>12 DEF PullsTooMany, Emit
  <2> QED  BY <1>1, <1>3, <1>11, <2>1, SliceTyped, AnswerTyped
<1>13. CASE PullsSuffice
  <2>1. /\ disturbed' = disturbed /\ pc = "pulls" /\ Answer(Slice(Probed, FALSE, total))
    BY <1>13 DEF PullsSuffice, Emit
  <2> QED  BY <1>1, <1>3, <1>11, <2>1, SliceTyped, AnswerTyped
<1>14. CASE PullsSeedLink
  <2>1. /\ disturbed' = disturbed /\ StartWalk("link", Probed, total, 2, ProbeLimit, MaxPages)
        /\ provider = "github"
    BY <1>14 DEF PullsSeedLink, Typed, TotalsAreThere
  <2> QED  BY <1>1, <1>2, <1>3, <2>1, StartTyped
<1>15. CASE PullsSeedOffset
  <2>1. /\ disturbed' = disturbed /\ StartWalk("page", Probed, total, 2, PageSize, MaxPages)
    BY <1>15 DEF PullsSeedOffset
  <2> QED  BY <1>1, <1>2, <1>3, <2>1, StartTyped
<1>16. CASE PullsAreAll
  <2>1. FinishWalk(Probed, Len(Probed), FALSE)
    BY <1>16 DEF PullsAreAll
  <2> QED  BY <1>3, <2>1, FinishTyped
<1>17. CASE ListIssues
  <2>1. disturbed' = disturbed /\ StartWalk("page", <<>>, Null, 1, PageSize, MaxPages)
    BY <1>17 DEF ListIssues
  <2> QED  BY <1>1, <1>2, <2>1, StartTyped
<1> QED  BY <1>4, <1>5, <1>6, <1>7, <1>8, <1>9, <1>10, <1>12, <1>13, <1>14, <1>15, <1>16,
            <1>17 DEF Probe

LEMMA TailTyped ==
    ASSUME Typed, ReadTail \/ TailFails \/ TailFailsAgain
    PROVE  Typed'
<1>1. /\ pc = "tail" /\ total \in 1..CompliantMax /\ CompliantMax \in Nat /\ MaxPages \in Nat
      /\ order \in Seq(1..made) /\ disturbed \in BOOLEAN /\ Window \in Nat
      /\ PageSize \in Nat /\ PageSize >= 1
  BY Sizes DEF Typed, TotalsAreThere, ForgeTyped, CallerTyped, HistoryTyped, ReadTail, TailFails,
               TailFailsAgain
<1>2. TailPage \in 1..MaxPages /\ TailPage \in Nat \ {0}
  <2>1. TailPage \in 1..MaxPages
    BY <1>1, TailPageIs
  <2> QED  BY <1>1, <2>1
<1>3. CASE ReadTail
  <2>1. PageItems(TailPage, PageSize) \in Seq(1..made)
    <3>1. PageSize \in Nat \ {0}
      BY <1>1
    <3> QED  BY <1>1, <1>2, <3>1, PageIs, Zenon
  <2>2. Answer(Slice(PageItems(TailPage, PageSize), FALSE, total)) /\ disturbed' = disturbed
    BY <1>3, Zenon DEF ReadTail, Emit
  <2>3. total \in Nat
    BY <1>1
  <2> QED  BY <1>1, <2>1, <2>2, <2>3, SliceTyped, AnswerTyped
<1>4. CASE TailFails
  <2>1. UNCHANGED <<provider, order, made, moves, pc, sort, cursor, packet, page, limit, lastPage,
                    got, walked, total, shown, steady, disturbed>>
    BY <1>4 DEF TailFails, forge, history
  <2> QED  BY <2>1 DEF Typed, ForgeTyped, Distinct, CallerTyped, Packets, Calling, ListingTyped,
              HistoryTyped, Open, GotWhileReading, Window, Offset, TotalsAreThere
<1>5. CASE TailFailsAgain
  <2>1. disturbed' \in BOOLEAN /\ StartWalk("page", <<>>, total, TailPage, PageSize, TailPage)
    BY <1>5 DEF TailFailsAgain
  <2>2. /\ total \in Nat /\ PageSize \in 1..PageSize /\ TailPage \in 1..TailPage
        /\ <<>> \in Seq(1..made) /\ Len(<<>>) = 0 /\ Len(<<>>) <= Window
    BY <1>1, <1>2
  <2> QED  BY <1>2, <2>1, <2>2, StartTyped
<1> QED  BY <1>3, <1>4, <1>5

(* The list changes; whatever else was kept stays what it is.               *)
LEMMA ForgeStepTyped ==
    ASSUME Typed, ForgeTyped', made' \in Nat, made <= made', steady' \subseteq Open',
           disturbed' \in BOOLEAN,
           UNCHANGED <<provider, pc, sort, cursor, packet, listing, shown>>
    PROVE  Typed'
<1> USE DEF Typed
<1>1. made \in Nat /\ 1..made \subseteq 1..made' /\ Seq(1..made) \subseteq Seq(1..made')
  <2>1. made \in Nat
    BY Sizes DEF ForgeTyped, CallerTyped
  <2>2. 1..made \subseteq 1..made'
    BY <2>1
  <2> QED  BY <2>1, <2>2
<1>2. CallerTyped'
  BY <1>1 DEF CallerTyped, Packets, Calling
<1>3. ListingTyped'
  BY <1>1 DEF ListingTyped, listing
<1>4. HistoryTyped'
  BY <1>1 DEF HistoryTyped
<1>5. GotWhileReading' /\ TotalsAreThere'
  BY DEF GotWhileReading, TotalsAreThere, Window, Offset, listing
<1> QED  BY <1>2, <1>3, <1>4, <1>5

LEMMA ForgeTypedKept ==
    ASSUME Typed, OpenPull \/ \E n \in Open : ClosePull(n) \/ TouchPull(n)
    PROVE  Typed'
<1>1. /\ made \in Nat /\ made <= MaxPulls /\ MaxPulls \in Nat /\ MaxMoves \in Nat
      /\ moves \in Nat /\ moves <= MaxMoves
      /\ order \in Seq(1..made) /\ Distinct(order) /\ provider \in Providers
      /\ steady \subseteq Open /\ disturbed \in BOOLEAN
  BY Sizes DEF Typed, ForgeTyped, CallerTyped, HistoryTyped
<1>2. ASSUME Move PROVE moves' \in 0..MaxMoves
  BY <1>1, <1>2 DEF Move
<1>3. CASE OpenPull
  <2>1. /\ made' = made + 1 /\ made' \in 0..MaxPulls /\ moves' \in 0..MaxMoves
        /\ UNCHANGED <<provider, pc, sort, cursor, packet, listing, shown, steady>>
        /\ disturbed' \in BOOLEAN
    BY <1>1, <1>2, <1>3 DEF OpenPull
  <2>2. order \in Seq(1..(made + 1)) /\ made + 1 \in 1..(made + 1) /\ made + 1 \notin Open
    <3>1. Open \subseteq 1..made /\ made + 1 \notin 1..made
      BY <1>1, RangeIs DEF Open
    <3>2. 1..made \subseteq 1..(made + 1)
      BY <1>1
    <3> QED  BY <1>1, <3>1, <3>2
  <2>3. /\ order' \in Seq(1..(made + 1)) /\ Distinct(order')
        /\ Range(order') = Open \cup {made + 1}
    <3>1. CASE OldestFirst
      <4>1. order' = Append(order, made + 1)
        BY <1>3, <3>1 DEF OpenPull
      <4> QED  BY <1>1, <2>2, <4>1, AppendIs DEF Open
    <3>2. CASE ~OldestFirst
      <4>1. order' = <<made + 1>> \o order
        BY <1>3, <3>2 DEF OpenPull
      <4> QED  BY <1>1, <2>2, <4>1, PrependIs DEF Open
    <3> QED  BY <3>1, <3>2
  <2>4. ForgeTyped'
    BY <1>1, <2>1, <2>3 DEF ForgeTyped, Distinct
  <2>5. steady' \subseteq Open' /\ made' \in Nat /\ made <= made'
    BY <1>1, <2>1, <2>3 DEF Open
  <2> QED  BY <2>1, <2>4, <2>5, ForgeStepTyped
<1>4. ASSUME NEW n \in Open, ClosePull(n) PROVE Typed'
  <2>1. /\ UNCHANGED <<provider, made, pc, sort, cursor, packet, listing, shown>>
        /\ disturbed' \in BOOLEAN /\ moves' \in 0..MaxMoves /\ order' = Without(n)
        /\ steady' = steady \ {n}
    BY <1>1, <1>2, <1>4 DEF ClosePull
  <2>2. Without(n) \in Seq(1..made) /\ Distinct(Without(n)) /\ Range(Without(n)) = Open \ {n}
    BY <1>1, WithoutIs
  <2>3. ForgeTyped'
    BY <1>1, <2>1, <2>2 DEF ForgeTyped, Distinct
  <2>4. steady' \subseteq Open' /\ made' \in Nat /\ made <= made'
    BY <1>1, <2>1, <2>2 DEF Open
  <2> QED  BY <2>1, <2>3, <2>4, ForgeStepTyped
<1>5. ASSUME NEW n \in Open, TouchPull(n) PROVE Typed'
  <2>1. /\ UNCHANGED <<provider, made, pc, sort, cursor, packet, listing, shown, steady>>
        /\ disturbed' \in BOOLEAN /\ moves' \in 0..MaxMoves /\ order' = <<n>> \o Without(n)
    BY <1>1, <1>2, <1>5 DEF TouchPull
  <2>3. /\ order' \in Seq(1..made) /\ Distinct(order') /\ Range(order') = Open
    BY <1>1, <2>1, TouchedIs
  <2>4. ForgeTyped'
    <3>1. Distinct(order)' /\ made' = made /\ provider' = provider
      BY <2>1, <2>3 DEF Distinct
    <3> QED  BY <1>1, <2>1, <2>3, <3>1 DEF ForgeTyped
  <2>5. steady' \subseteq Open' /\ made' \in Nat /\ made <= made'
    BY <1>1, <2>1, <2>3 DEF Open
  <2> QED  BY <2>1, <2>4, <2>5, ForgeStepTyped
<1> QED  BY <1>3, <1>4, <1>5

LEMMA CallTyped ==
    ASSUME Typed, FirstCall \/ NextCall
    PROVE  Typed'
<1> USE DEF Typed
<1>1. NoPacket \in Packets /\ Len(NoPacket.numbers) <= Limit
  <2>1. <<>> \in Seq(1..made) /\ Len(<<>>) = 0 /\ Limit \in Nat
    BY Sizes DEF CallerTyped
  <2> QED  BY <2>1 DEF NoPacket, Bare, Packets
<1>2. CASE FirstCall
  BY <1>2 DEF FirstCall, forge, listing, ForgeTyped, Distinct, CallerTyped, Packets, Calling,
              ListingTyped, HistoryTyped, Open, GotWhileReading, Window, Offset, TotalsAreThere
<1>3. CASE NextCall
  <2>1. /\ UNCHANGED <<provider, order, made, moves, sort, page, limit, lastPage, got, walked,
                       total, shown, steady, disturbed>>
        /\ pc' = "probe" /\ packet' = NoPacket /\ cursor' \in Nat \cup {Null}
        /\ pc = "between"
    BY <1>3 DEF NextCall, forge, listing, history, CallerTyped, Packets
  <2>2. ForgeTyped' /\ ListingTyped' /\ HistoryTyped'
    BY <2>1 DEF ForgeTyped, Distinct, ListingTyped, HistoryTyped, Open
  <2>3. Packets' = Packets
    BY <2>1 DEF Packets
  <2>4. CallerTyped'
    BY <1>1, <2>1, <2>3 DEF CallerTyped, Calling
  <2>5. GotWhileReading' /\ TotalsAreThere'
    <3>1. Len(got') = 0
      BY <2>1 DEF GotWhileReading
    <3>2. Limit \in Nat /\ Window' \in Nat
      <4>1. Limit \in Nat
        BY SizeAssumption
      <4>2. Offset' \in Nat
        BY <2>1 DEF Offset
      <4>3. \A x, y \in Nat : x + y \in Nat
        OBVIOUS
      <4> QED  BY <4>1, <4>2, <4>3, Zenon DEF Window
    <3> QED  BY <2>1, <3>1, <3>2 DEF GotWhileReading, TotalsAreThere
  <2> QED  BY <2>2, <2>4, <2>5
<1> QED  BY <1>2, <1>3

LEMMA InitTyped == Init => Typed
<1> SUFFICES ASSUME Init PROVE Typed
  OBVIOUS
<1>1. /\ MaxPages \in 1..MaxPages /\ 1 \in 1..MaxPages /\ PageSize \in 1..PageSize
      /\ MaxMoves \in Nat /\ Limit \in Nat /\ MaxPulls \in Nat
  BY SizeAssumption, BoundAssumption
<1>2. made \in Nat /\ made \in 0..MaxPulls
  BY <1>1 DEF Init
<1>3. order \in Seq(1..made) /\ Distinct(order)
  <2>1. order = [k \in 1..made |-> IF OldestFirst THEN k ELSE made + 1 - k]
    BY DEF Init
  <2>2. \A k \in 1..made : order[k] \in 1..made
    BY <1>2, <2>1
  <2>3. DOMAIN order = 1..made /\ order \in Seq(1..made)
    BY <1>2, <2>1, <2>2
  <2>4. \A i, j \in 1..made : order[i] = order[j] => i = j
    BY <1>2, <2>1
  <2> QED  BY <2>3, <2>4 DEF Distinct
<1>4. ForgeTyped
  BY <1>1, <1>2, <1>3 DEF Init, ForgeTyped
<1>5. <<>> \in Seq(1..made) /\ Len(<<>>) = 0
  OBVIOUS
<1>6. CallerTyped
  BY <1>1, <1>5 DEF Init, CallerTyped, NoPacket, Bare, Packets
<1>7. ListingTyped
  BY <1>1, <1>5 DEF Init, ListingTyped
<1>8. HistoryTyped
  BY DEF Init, HistoryTyped
<1>9. GotWhileReading /\ TotalsAreThere
  <2>1. Window \in Nat
    BY <1>6, Sizes DEF CallerTyped
  <2> QED  BY <1>5, <2>1 DEF Init, GotWhileReading, TotalsAreThere
<1> QED  BY <1>4, <1>6, <1>7, <1>8, <1>9 DEF Typed

LEMMA NextTyped == Typed /\ [Next]_vars => Typed'
<1> SUFFICES ASSUME Typed, [Next]_vars PROVE Typed'
  OBVIOUS
<1>1. CASE UNCHANGED vars
  BY <1>1 DEF vars, Typed, ForgeTyped, Distinct, CallerTyped, Packets, Calling, ListingTyped,
              HistoryTyped, Open, GotWhileReading, Window, Offset, TotalsAreThere
<1>2. CASE OpenPull \/ \E n \in Open : ClosePull(n) \/ TouchPull(n)
  BY <1>2, ForgeTypedKept
<1>3. CASE FirstCall \/ NextCall
  BY <1>3, CallTyped
<1>4. CASE Probe
  BY <1>4, ProbeTyped
<1>5. CASE ReadTail \/ TailFails \/ TailFailsAgain
  BY <1>5, TailTyped
<1>6. CASE ReadOn \/ EndOfList \/ LastPage \/ LastIssuePage \/ LastTailPage \/ ConfirmEnd
           \/ LinkOn \/ LinkEnd \/ BackOff \/ WalkFails
  BY <1>6, WalkTyped
<1> QED  BY <1>1, <1>2, <1>3, <1>4, <1>5, <1>6, Zenon DEF Next, Proceed, Walk

(* The variables keep their types in every walk over every list: nothing    *)
(* that is read, kept or answered is not a pull of the forge, no packet has *)
(* more than the limit, no walk keeps more than its window unless it        *)
(* collects the whole list, and every page asked for is one of the pages    *)
(* the code allows.                                                         *)
THEOREM TypeCorrect == Spec => []TypeOK
<1>1. Typed => TypeOK
  <2> SUFFICES ASSUME Typed PROVE TypeOK
    OBVIOUS
  <2>1. Cardinality(Open) = Len(order)
    BY DistinctCounts DEF Typed, ForgeTyped, Open
  <2> QED  BY <2>1 DEF Typed, ForgeTyped, CallerTyped, Packets, ListingTyped, HistoryTyped,
              GotWhileReading, TypeOK
<1> QED  BY <1>1, InitTyped, NextTyped, PTL DEF Spec

-----------------------------------------------------------------------------
(* No pull is skipped.  What the walk owes are the pulls that were open all *)
(* along and that it has not shown.  Each has its rank: the number of pulls *)
(* in front of it in the order of the slices, which is the forge's order or *)
(* the forge's order turned round.                                          *)

Direct == ~(OnGitea /\ sort \in {"number_asc", "recent_created"})
Rank(n) == IF Direct THEN Place(n) - 1 ELSE Len(order) - Place(n)
Due == steady \ shown
Owed(x) == \A n \in Due : Rank(n) >= x

Listed ==
    sort # "recent_update" =>
        \A i, j \in DOMAIN order :
            i < j => IF OldestFirst THEN order[i] < order[j] ELSE order[i] > order[j]

InFront(a, b) == IF sort = "number_asc" THEN a < b ELSE a > b
FrontOf(items, n) == {i \in DOMAIN items : InFront(items[i], n)}

Reach(items) == Smaller(Window, Len(items))
Within(items) == {items[k] : k \in 1..Reach(items)}
Far(items, n) == Rank(n) >= Offset /\ Rank(n) >= Reach(items)

Unread(items, n) ==
    /\ Far(items, n)
    /\ NumberSort => \A k \in 1..Reach(items) : InFront(items[k], n)
InReach(items, n) ==
    /\ \E k \in (Offset + 1)..Reach(items) :
          items[k] = n /\ (NumberSort => \A j \in 1..k : ~InFront(n, items[j]))
    /\ NumberSort => (Far(items, n) \/ Cardinality(FrontOf(items, n)) <= Rank(n))
Reads(items) ==
    \A n \in Due : IF n \in Within(items) THEN InReach(items, n) ELSE Unread(items, n)

Aligned(items, p, l) ==
    /\ Len(items) <= Passed(p, l)
    /\ Len(items) < Window => (Len(items) = Passed(p, l) \/ Due \subseteq Range(items))

DirectCall ==
    Direct => Reads(got) /\ (pc \in {"page", "link"} => Aligned(got, page, limit))

Extra == IF provider = "gitea_issues" /\ sort = "recent_created" /\ Len(order) > CompliantMax
         THEN Len(order) - CompliantMax ELSE 0
Grown == IF Len(order) > total THEN Len(order) - total ELSE 0
ByNumber == provider = "gitea" /\ sort = "number_asc"
AtTail == provider = "gitea" /\ sort = "recent_created"
Prefix == Len(got) <= Len(order) /\ \A k \in 1..Len(got) : got[k] = order[k]

TailWalk == /\ AtTail /\ pc = "page" /\ Len(got) = 0
            /\ total \in 1..CompliantMax /\ total > Window /\ Window >= PageSize
            /\ page = TailPage /\ lastPage = TailPage /\ Owed(Offset + Grown)
ShortWalk == /\ ByNumber /\ Limit < PageSize /\ cursor = Null
             /\ total \in Nat /\ Len(order) <= total /\ walked < total
             /\ pc = "page" => page >= 2 /\ walked <= Limit + Passed(page - 1, PageSize)
WholeWalk == /\ ByNumber /\ Limit >= PageSize
             /\ total \in 1..CompliantMax /\ Len(order) <= total
             /\ page >= 2 /\ lastPage = MaxPages /\ Prefix
             /\ pc = "page" => Len(got) = Passed(page, PageSize)
             /\ pc = "confirm" => Len(got) = Len(order)
IssueWalk == /\ provider = "gitea_issues" /\ pc = "page" /\ lastPage = MaxPages
             /\ Prefix /\ Len(got) = Passed(page, PageSize) /\ total = Null
TurnedCall ==
    (~Direct /\ Due # {}) =>
      /\ Owed(Offset) /\ (cursor # Null => Owed(Offset + Extra))
      /\ (ByNumber /\ cursor # Null) => Limit >= PageSize
      /\ pc = "tail" => AtTail /\ total > Window /\ Owed(Offset + Grown)
      /\ pc \in {"page", "confirm"} =>
            limit = PageSize /\ (TailWalk \/ ShortWalk \/ WholeWalk \/ IssueWalk)

(* A complete answer leaves nothing due.                                    *)
Done == (pc = "finished" /\ packet.complete) => Due = {}

Safe ==
    ~disturbed =>
      /\ pc = "between" => Owed(packet.next + Extra) /\ (ByNumber /\ Due # {} => Limit >= PageSize)
      /\ pc \in Calling => DirectCall /\ TurnedCall
      /\ Done

(* What a walk counts covers what is due: GitHub's total, or the window once *)
(* the total is lost; what was read, where there is no total; and a walk     *)
(* that has a total on the other forges has more than the window to read.    *)
Most == IF total # Null THEN total ELSE Window
Covered ==
    ~disturbed =>
      /\ (provider = "github" /\ pc \in Calling \ {"probe"}) =>
            /\ \A n \in Due : Rank(n) < Most
            /\ ~OldestFirst => Len(order) <= Most
      /\ (provider = "github" /\ pc \in {"page", "confirm"}) => total # Null
      /\ (pc = "link" /\ total = Null) => Len(got) = Passed(page, limit)
      /\ (provider # "github" /\ total # Null /\ pc \in Calling \ {"probe"}) => total > Window
      /\ (total = Null /\ pc = "page") => walked = Passed(page, limit)
      /\ (total = Null /\ pc = "confirm") => walked >= lastPage

(* The count of a slice is past its window, or past all that is due.        *)
Counts(truncated, count) ==
    ~truncated => (count > Window \/ \A n \in Due : Rank(n) < count)
(* A walk without a total has read the whole list, unless it was cut.       *)
Counted(items, read, truncated) ==
    (total = Null /\ ~truncated) =>
        IF provider = "github" THEN Len(items) >= Len(order) ELSE read >= Len(order)

(* Where a pull is, now and after a step.                                   *)
LEMMA PlaceIn ==
    ASSUME NEW S, NEW s \in Seq(S), Distinct(s)
    PROVE  LET at(n) == CHOOSE i \in DOMAIN s : s[i] = n
           IN  /\ \A n \in Range(s) : at(n) \in 1..Len(s) /\ s[at(n)] = n
               /\ \A k \in 1..Len(s) : s[k] \in Range(s) /\ at(s[k]) = k
               /\ Len(s) \in Nat /\ DOMAIN s = 1..Len(s)
<1> DEFINE at(n) == CHOOSE i \in DOMAIN s : s[i] = n
<1>1. Len(s) \in Nat /\ DOMAIN s = 1..Len(s)
  OBVIOUS
<1>2. ASSUME NEW n \in Range(s) PROVE at(n) \in DOMAIN s /\ s[at(n)] = n
  <2>1. \E i \in DOMAIN s : s[i] = n
    BY DEF Range
  <2> QED  BY <2>1
<1> HIDE DEF at
<1>3. ASSUME NEW k \in 1..Len(s) PROVE s[k] \in Range(s) /\ at(s[k]) = k
  <2>1. s[k] \in Range(s)
    BY <1>1 DEF Range
  <2> QED  BY <1>1, <1>2, <2>1 DEF Distinct
<1> QED  BY <1>1, <1>2, <1>3 DEF at

LEMMA PlaceIs ==
    ASSUME NEW S, order \in Seq(S), Distinct(order)
    PROVE  /\ \A n \in Open : Place(n) \in 1..Len(order) /\ order[Place(n)] = n
           /\ \A k \in 1..Len(order) : order[k] \in Open /\ Place(order[k]) = k
           /\ Len(order) \in Nat /\ DOMAIN order = 1..Len(order)
BY PlaceIn DEF Place, Open

LEMMA PlaceNext ==
    ASSUME NEW S, order' \in Seq(S), Distinct(order')
    PROVE  /\ \A n \in Open' : Place(n)' \in 1..Len(order') /\ order'[Place(n)'] = n
           /\ \A k \in 1..Len(order') : order'[k] \in Open' /\ \A n : n = order'[k] => Place(n)' = k
           /\ Len(order') \in Nat /\ DOMAIN order' = 1..Len(order')
BY PlaceIn DEF Place, Open

(* The pulls in front are as many as the rank says.                         *)
LEMMA AheadIsRank ==
    ASSUME Typed, Listed, NEW n \in Open
    PROVE  Cardinality(Before(n)) = Rank(n) /\ Rank(n) \in 0..(Len(order) - 1)
<1> DEFINE m == Len(order)
           p == Place(n)
           D == IF Direct THEN 1..(p - 1) ELSE (p + 1)..m
           at == [k \in D |-> order[k]]
<1>1. /\ order \in Seq(1..made) /\ Distinct(order) /\ m \in Nat /\ DOMAIN order = 1..m
      /\ p \in 1..m /\ order[p] = n
      /\ \A x \in Open : Place(x) \in 1..m /\ order[Place(x)] = x
      /\ \A k \in 1..m : order[k] \in Open /\ Place(order[k]) = k
      /\ \A k \in 1..m : order[k] \in Nat
  <2>1. order \in Seq(1..made) /\ Distinct(order) /\ made \in Nat
    BY Sizes DEF Typed, ForgeTyped, CallerTyped
  <2>2. m \in Nat /\ DOMAIN order = 1..m /\ \A k \in 1..m : order[k] \in Nat
    BY <2>1
  <2> QED  BY <2>1, <2>2, PlaceIs
<1> HIDE DEF m, p
<1>2. sort \in {"number_asc", "number_desc", "recent_update", "recent_created"}
  BY SortAssumption DEF Typed, CallerTyped
<1>3. ASSUME NEW x \in Open PROVE x \in Before(n) <=> Place(x) \in D
  <2>1. /\ Place(x) \in 1..m /\ order[Place(x)] = x
    BY <1>1
  <2>2. CASE sort = "recent_update"
    BY <1>1, <2>1, <2>2 DEF Before, Direct, p
  <2>3. CASE sort # "recent_update"
    <3>1. \A i, j \in 1..m :
            i < j => IF OldestFirst THEN order[i] < order[j] ELSE order[i] > order[j]
      BY <1>1, <2>3 DEF Listed
    <3>2. CASE OldestFirst
      <4>1. x < n <=> Place(x) < p
        BY <1>1, <2>1, <3>1, <3>2
      <4>2. x > n <=> Place(x) > p
        BY <1>1, <2>1, <3>1, <3>2
      <4>3. IF OnGitea THEN sort = "recent_created" ELSE sort = "number_asc"
        BY <3>2 DEF OldestFirst
      <4> QED  BY <1>1, <2>1, <4>1, <4>2, <4>3 DEF Before, Direct
    <3>3. CASE ~OldestFirst
      <4>1. x < n <=> Place(x) > p
        BY <1>1, <2>1, <3>1, <3>3
      <4>2. x > n <=> Place(x) < p
        BY <1>1, <2>1, <3>1, <3>3
      <4>3. IF OnGitea THEN sort # "recent_created" ELSE sort # "number_asc"
        BY <3>3 DEF OldestFirst
      <4> QED  BY <1>1, <1>2, <2>1, <2>3, <4>1, <4>2, <4>3 DEF Before, Direct
    <3> QED  BY <3>2, <3>3
  <2> QED  BY <2>2, <2>3
<1>4. Before(n) \subseteq Open
  BY DEF Before
<1>5. D \subseteq 1..m
  BY <1>1
<1>6. at \in Bijection(D, Before(n))
  <2>1. \A k \in D : at[k] \in Before(n)
    BY <1>1, <1>3, <1>5
  <2>2. \A k \in D : \A l \in D : at[k] = at[l] => k = l
    BY <1>1, <1>5
  <2>3. \A x \in Before(n) : \E k \in D : at[k] = x
    BY <1>1, <1>3, <1>4
  <2>4. at = [k \in D |-> at[k]]
    OBVIOUS
  <2> HIDE DEF at, D
  <2>5. at \in [D -> Before(n)]
    BY <2>1, <2>4
  <2> QED  BY <2>2, <2>3, <2>5, Zenon DEF Bijection, Injection, Surjection, IsInjective
<1>7. IsFiniteSet(D) /\ Cardinality(D) = Rank(n)
  <2>1. CASE Direct
    <3>1. IsFiniteSet(1..(p - 1)) /\ Cardinality(1..(p - 1)) = p - 1
      <4>1. \A k \in Nat : IsFiniteSet(1..k) /\ Cardinality(1..k) = k
        BY FS_Interval
      <4>2. p - 1 \in Nat
        BY <1>1
      <4> QED  BY <4>1, <4>2, Zenon
    <3> QED  BY <2>1, <3>1 DEF Rank, p
  <2>2. CASE ~Direct
    <3>1. IsFiniteSet((p + 1)..m) /\ Cardinality((p + 1)..m) = m - p
      <4>1. \A a, b \in Int : IsFiniteSet(a..b) /\ Cardinality(a..b) = IF a <= b THEN b - a + 1 ELSE 0
        BY FS_Interval
      <4>2. /\ p + 1 \in Int /\ m \in Int
            /\ (IF p + 1 <= m THEN m - (p + 1) + 1 ELSE 0) = m - p
        BY <1>1
      <4> QED  BY <4>1, <4>2, Zenon
    <3> QED  BY <2>2, <3>1 DEF Rank, p, m
  <2> QED  BY <2>1, <2>2
<1>8. Cardinality(Before(n)) = Rank(n)
  <2> HIDE DEF D, at
  <2> QED  BY <1>6, <1>7, FS_Bijection DEF ExistsBijection
<1>9. Rank(n) \in 0..(m - 1)
  BY <1>1 DEF Rank, m, p
<1> QED  BY <1>8, <1>9 DEF m

(* How the list moves the pulls.                                            *)
LEMMA OpenRanks ==
    ASSUME Typed, Listed, OpenPull
    PROVE  /\ Open' = Open \cup {made + 1} /\ Len(order') = Len(order) + 1
           /\ \A n \in Open : Rank(n)' = IF Direct <=> OldestFirst THEN Rank(n) ELSE Rank(n) + 1
           /\ OldestFirst => \A k \in 1..Len(order) : order'[k] = order[k]
           /\ Listed'
<1> DEFINE m == Len(order)
<1>1. /\ made \in Nat /\ order \in Seq(1..made) /\ Distinct(order)
      /\ m \in Nat /\ DOMAIN order = 1..m
      /\ \A n \in Open : Place(n) \in 1..m /\ order[Place(n)] = n
      /\ \A k \in 1..m : order[k] \in 1..made
  <2>1. made \in Nat /\ order \in Seq(1..made) /\ Distinct(order)
    BY Sizes DEF Typed, ForgeTyped, CallerTyped
  <2> QED  BY <2>1, PlaceIs
<1>2. /\ made + 1 \in 1..(made + 1) /\ order \in Seq(1..(made + 1)) /\ made + 1 \notin Range(order)
      /\ \A k \in 1..m : order[k] < made + 1
  <2>1. Range(order) \subseteq 1..made
    BY <1>1, RangeIs
  <2>2. made + 1 \notin 1..made /\ 1..made \subseteq 1..(made + 1) /\ \A x \in 1..made : x < made + 1
    BY <1>1
  <2> QED  BY <1>1, <2>1, <2>2
<1>3. UNCHANGED <<provider, sort>> /\ (Direct' <=> Direct) /\ (OldestFirst' <=> OldestFirst)
  BY DEF OpenPull, Direct, OnGitea, OldestFirst
<1>4. CASE OldestFirst
  <2>1. order' = Append(order, made + 1)
    BY <1>4 DEF OpenPull
  <2>2. /\ order' \in Seq(1..(made + 1)) /\ Len(order') = m + 1 /\ Distinct(order')
        /\ Range(order') = Range(order) \cup {made + 1}
        /\ \A k \in 1..m : order'[k] = order[k]
        /\ order'[m + 1] = made + 1
    BY <1>1, <1>2, <2>1, AppendIs
  <2>3. ASSUME NEW n \in Open PROVE Place(n)' = Place(n)
    <3>1. Place(n) \in 1..m /\ Place(n) \in 1..(m + 1) /\ order'[Place(n)] = n
      BY <1>1, <2>2
    <3> QED  BY <2>2, <3>1, PlaceNext
  <2>4. \A n \in Open : Rank(n)' = IF Direct <=> OldestFirst THEN Rank(n) ELSE Rank(n) + 1
    BY <1>1, <1>3, <1>4, <2>2, <2>3 DEF Rank
  <2>5. Listed'
    <3> SUFFICES ASSUME sort # "recent_update", NEW i \in 1..(m + 1), NEW j \in 1..(m + 1), i < j
                 PROVE  order'[i] < order'[j]
      BY <1>1, <1>3, <1>4, <2>2 DEF Listed
    <3>1. i \in 1..m /\ order'[i] = order[i]
      <4>1. i \in 1..m
        BY <1>1
      <4> QED  BY <2>2, <4>1
    <3>2. CASE j = m + 1
      <4>1. order'[j] = made + 1
        BY <2>2, <3>2
      <4>2. order[i] < made + 1
        BY <1>2, <3>1, Zenon
      <4> QED  BY <3>1, <4>1, <4>2, Zenon
    <3>3. CASE j # m + 1
      <4>1. j \in 1..m
        <5>1. m \in Nat
          BY <1>1
        <5> QED  BY <3>3, <5>1
      <4>2. order'[j] = order[j]
        BY <2>2, <4>1
      <4> QED  BY <1>1, <1>4, <3>1, <4>1, <4>2 DEF Listed
    <3> QED  BY <3>2, <3>3
  <2> QED  BY <1>4, <2>2, <2>4, <2>5 DEF Open
<1>5. CASE ~OldestFirst
  <2>1. order' = <<made + 1>> \o order
    BY <1>5 DEF OpenPull
  <2>2. /\ order' \in Seq(1..(made + 1)) /\ Len(order') = m + 1 /\ Distinct(order')
        /\ Range(order') = Range(order) \cup {made + 1}
        /\ \A k \in 1..(m + 1) : order'[k] = IF k = 1 THEN made + 1 ELSE order[k - 1]
    BY <1>1, <1>2, <2>1, PrependIs
  <2>3. ASSUME NEW n \in Open PROVE Place(n)' = Place(n) + 1
    <3>1. Place(n) \in 1..m /\ Place(n) + 1 \in 1..(m + 1) /\ Place(n) + 1 # 1
          /\ (Place(n) + 1) - 1 = Place(n)
      BY <1>1
    <3>2. order'[Place(n) + 1] = n
      BY <1>1, <2>2, <3>1
    <3> QED  BY <2>2, <3>1, <3>2, PlaceNext
  <2>4. \A n \in Open : Rank(n)' = IF Direct <=> OldestFirst THEN Rank(n) ELSE Rank(n) + 1
    <3> SUFFICES ASSUME NEW n \in Open
                 PROVE  Rank(n)' = IF Direct <=> OldestFirst THEN Rank(n) ELSE Rank(n) + 1
      OBVIOUS
    <3>1. Place(n) \in 1..m /\ Place(n)' = Place(n) + 1 /\ Len(order') = m + 1
      BY <1>1, <2>2, <2>3
    <3>2. CASE Direct
      <4>1. Rank(n) = Place(n) - 1 /\ Rank(n)' = Place(n)' - 1
        BY <1>3, <3>2 DEF Rank
      <4> QED  BY <1>1, <1>5, <3>1, <3>2, <4>1
    <3>3. CASE ~Direct
      <4>1. Rank(n) = m - Place(n) /\ Rank(n)' = Len(order') - Place(n)'
        BY <1>3, <3>3 DEF Rank
      <4> QED  BY <1>1, <1>5, <3>1, <3>3, <4>1
    <3> QED  BY <3>2, <3>3
  <2>5. Listed'
    <3> SUFFICES ASSUME sort # "recent_update", NEW i \in 1..(m + 1), NEW j \in 1..(m + 1), i < j
                 PROVE  order'[i] > order'[j]
      BY <1>1, <1>3, <1>5, <2>2 DEF Listed
    <3>1. j - 1 \in 1..m /\ order'[j] = order[j - 1]
      BY <1>1, <2>2
    <3>2. CASE i = 1
      BY <1>1, <1>2, <2>2, <3>1, <3>2
    <3>3. CASE i # 1
      <4>1. i - 1 \in 1..m /\ order'[i] = order[i - 1] /\ i - 1 < j - 1
        BY <1>1, <2>2, <3>3
      <4> QED  BY <1>1, <1>5, <3>1, <4>1 DEF Listed
    <3> QED  BY <3>2, <3>3
  <2> QED  BY <1>5, <2>2, <2>4, <2>5 DEF Open
<1> QED  BY <1>4, <1>5

LEMMA CloseRanks ==
    ASSUME Typed, Listed, NEW x \in Open, ClosePull(x)
    PROVE  /\ Open' = Open \ {x} /\ Len(order') = Len(order) - 1
           /\ \A n \in Open \ {x} :
                 /\ Rank(n) \in Nat /\ Rank(x) \in Nat /\ Rank(n) # Rank(x)
                 /\ Rank(n)' = IF Rank(x) < Rank(n) THEN Rank(n) - 1 ELSE Rank(n)
           /\ Place(x) \in 1..Len(order) /\ \A k \in 1..(Place(x) - 1) : order'[k] = order[k]
           /\ Listed'
<1> DEFINE m == Len(order)
           p == Place(x)
<1>1. /\ made \in Nat /\ order \in Seq(1..made) /\ Distinct(order)
      /\ m \in Nat /\ DOMAIN order = 1..m /\ p \in 1..m
      /\ \A n \in Open : Place(n) \in 1..m /\ order[Place(n)] = n
      /\ \A k \in 1..m : order[k] \in 1..made
  <2>1. made \in Nat /\ order \in Seq(1..made) /\ Distinct(order)
    BY Sizes DEF Typed, ForgeTyped, CallerTyped
  <2> QED  BY <2>1, PlaceIs
<1>2. order' = Without(x) /\ UNCHANGED <<provider, sort>>
  BY DEF ClosePull
<1>3. /\ order' \in Seq(1..made) /\ Len(order') = m - 1 /\ Distinct(order')
      /\ Range(order') = Open \ {x}
      /\ \A k \in 1..(m - 1) : order'[k] = IF k < p THEN order[k] ELSE order[k + 1]
  BY <1>1, <1>2, WithoutIs
<1> HIDE DEF m, p
<1>4. (Direct' <=> Direct) /\ (OldestFirst' <=> OldestFirst)
  BY <1>2 DEF Direct, OnGitea, OldestFirst
<1>5. ASSUME NEW n \in Open \ {x}
      PROVE  /\ Place(n) # p /\ Place(n) \in 1..m
             /\ Place(n)' = IF p < Place(n) THEN Place(n) - 1 ELSE Place(n)
  <2>1. Place(n) \in 1..m /\ order[Place(n)] = n /\ order[p] = x
    BY <1>1 DEF p
  <2>2. Place(n) # p
    BY <2>1
  <2>3. CASE p < Place(n)
    <3>1. Place(n) - 1 \in 1..(m - 1) /\ ~(Place(n) - 1 < p) /\ (Place(n) - 1) + 1 = Place(n)
      BY <1>1, <2>1, <2>3
    <3>2. order'[Place(n) - 1] = n
      BY <1>3, <2>1, <3>1
    <3> QED  BY <1>3, <2>1, <2>2, <2>3, <3>1, <3>2, PlaceNext
  <2>4. CASE ~(p < Place(n))
    <3>1. Place(n) \in 1..(m - 1) /\ Place(n) < p
      BY <1>1, <2>1, <2>2, <2>4
    <3>2. order'[Place(n)] = n
      BY <1>3, <2>1, <3>1
    <3> QED  BY <1>3, <2>1, <2>2, <2>4, <3>1, <3>2, PlaceNext
  <2> QED  BY <2>3, <2>4
<1>6. ASSUME NEW n \in Open \ {x}
      PROVE  /\ Rank(n) \in Nat /\ Rank(x) \in Nat /\ Rank(n) # Rank(x)
             /\ Rank(n)' = IF Rank(x) < Rank(n) THEN Rank(n) - 1 ELSE Rank(n)
  <2>1. CASE Direct
    <3>1. Rank(n) = Place(n) - 1 /\ Rank(x) = p - 1 /\ Rank(n)' = Place(n)' - 1
      BY <1>4, <2>1 DEF Rank, p
    <3> QED  BY <1>1, <1>5, <3>1
  <2>2. CASE ~Direct
    <3>1. Rank(n) = m - Place(n) /\ Rank(x) = m - p /\ Rank(n)' = (m - 1) - Place(n)'
      BY <1>3, <1>4, <2>2 DEF Rank, p, m
    <3>2. CASE p < Place(n)
      <4>1. Place(n)' = Place(n) - 1
        BY <1>5, <3>2, Zenon
      <4>2. \A y \in 1..m : p < y => /\ m - y \in Nat /\ m - p \in Nat /\ m - y # m - p
                                   /\ ~(m - p < m - y) /\ (m - 1) - (y - 1) = m - y
        BY <1>1
      <4> QED  BY <1>5, <3>1, <3>2, <4>1, <4>2, Zenon
    <3>3. CASE ~(p < Place(n))
      <4>1. Place(n)' = Place(n)
        BY <1>5, <3>3, Zenon
      <4>2. \A y \in 1..m : (y # p /\ ~(p < y)) =>
               /\ m - y \in Nat /\ m - p \in Nat /\ m - y # m - p
               /\ m - p < m - y /\ (m - 1) - y = (m - y) - 1
        BY <1>1
      <4> QED  BY <1>5, <3>1, <3>3, <4>1, <4>2, Zenon
    <3> QED  BY <3>2, <3>3
  <2> QED  BY <2>1, <2>2
<1>7. Listed'
  <2> SUFFICES ASSUME sort # "recent_update", NEW i \in 1..(m - 1), NEW j \in 1..(m - 1), i < j
               PROVE  IF OldestFirst THEN order'[i] < order'[j] ELSE order'[i] > order'[j]
    <3>1. sort' = sort /\ Len(order') = m - 1
      BY <1>2, <1>3
    <3> QED  BY <1>4, <3>1 DEF Listed
  <2>1. PICK k \in 1..m, l \in 1..m : k < l /\ order'[i] = order[k] /\ order'[j] = order[l]
    <3> DEFINE k == IF i < p THEN i ELSE i + 1
               l == IF j < p THEN j ELSE j + 1
    <3>1. k \in 1..m /\ l \in 1..m /\ k < l
      BY <1>1
    <3>2. order'[i] = order[k] /\ order'[j] = order[l]
      BY <1>3
    <3> QED  BY <3>1, <3>2
  <2> QED  BY <1>1, <2>1 DEF Listed
<1>8. \A k \in 1..(p - 1) : order'[k] = order[k]
  BY <1>1, <1>3
<1> QED  BY <1>1, <1>3, <1>6, <1>7, <1>8 DEF Open, m, p

LEMMA TouchRanks ==
    ASSUME Typed, NEW x \in Open, TouchPull(x)
    PROVE  /\ Open' = Open /\ Len(order') = Len(order) /\ Direct
           /\ \A n \in Open \ {x} : Rank(n) \in Nat /\ Rank(n)' \in {Rank(n), Rank(n) + 1}
           /\ Rank(x)' \in Nat
           /\ Listed'
<1> DEFINE m == Len(order)
           p == Place(x)
<1>1. /\ made \in Nat /\ order \in Seq(1..made) /\ Distinct(order)
      /\ m \in Nat /\ p \in 1..m
      /\ \A n \in Open : Place(n) \in 1..m /\ order[Place(n)] = n
  <2>1. made \in Nat /\ order \in Seq(1..made) /\ Distinct(order)
    BY Sizes DEF Typed, ForgeTyped, CallerTyped
  <2> QED  BY <2>1, PlaceIs
<1>2. order' = <<x>> \o Without(x) /\ UNCHANGED <<provider, sort>> /\ sort = "recent_update"
  BY DEF TouchPull
<1>3. /\ order' \in Seq(1..made) /\ Len(order') = m /\ Distinct(order') /\ Range(order') = Open
      /\ \A k \in 1..m :
            order'[k] = IF k = 1 THEN x ELSE IF k <= p THEN order[k - 1] ELSE order[k]
  BY <1>1, <1>2, TouchedIs
<1> HIDE DEF m, p
<1>4. Direct /\ Direct' /\ Listed'
  BY <1>2 DEF Direct, Listed
<1>5. ASSUME NEW n \in Open \ {x}
      PROVE  Place(n) \in 1..m /\ Place(n)' \in {Place(n), Place(n) + 1}
  <2>1. Place(n) \in 1..m /\ order[Place(n)] = n /\ order[p] = x
    BY <1>1 DEF p
  <2>2. CASE Place(n) < p
    <3>1. /\ Place(n) + 1 \in 1..m /\ Place(n) + 1 # 1 /\ Place(n) + 1 <= p
          /\ (Place(n) + 1) - 1 = Place(n)
      BY <1>1, <2>1, <2>2
    <3>2. order'[Place(n) + 1] = n
      BY <1>3, <2>1, <3>1
    <3> QED  BY <1>3, <2>1, <3>1, <3>2, PlaceNext
  <2>3. CASE ~(Place(n) < p)
    <3>1. Place(n) \in 1..m /\ Place(n) # 1 /\ ~(Place(n) <= p)
      BY <1>1, <2>1, <2>3
    <3>2. order'[Place(n)] = n
      BY <1>3, <2>1, <3>1
    <3> QED  BY <1>3, <2>1, <3>1, <3>2, PlaceNext
  <2> QED  BY <2>2, <2>3
<1>6. \A n \in Open \ {x} : Rank(n) \in Nat /\ Rank(n)' \in {Rank(n), Rank(n) + 1}
  <2> SUFFICES ASSUME NEW n \in Open \ {x}
               PROVE  Rank(n) \in Nat /\ Rank(n)' \in {Rank(n), Rank(n) + 1}
    OBVIOUS
  <2>1. Rank(n) = Place(n) - 1 /\ Rank(n)' = Place(n)' - 1
    BY <1>4 DEF Rank
  <2> QED  BY <1>1, <1>5, <2>1
<1>7. Rank(x)' \in Nat
  <2>1. Place(x)' \in 1..m
    BY <1>3, PlaceNext DEF Open
  <2> QED  BY <1>1, <1>4, <2>1 DEF Rank
<1> QED  BY <1>3, <1>4, <1>6, <1>7 DEF Open, m

(* How many items have been seen behind a slice.                            *)
Seen(items) == IF Reach(items) > Offset THEN Reach(items) ELSE Offset
UpTo(items, n) == {i \in DOMAIN items : ~InFront(n, items[i])}

LEMMA ReachIs ==
    ASSUME cursor \in Nat \cup {Null}, NEW S, NEW items \in Seq(S)
    PROVE  /\ Reach(items) \in 0..Len(items) /\ Reach(items) <= Window /\ Offset \in Nat
           /\ Reach(items) < Window => Reach(items) = Len(items)
           /\ Len(items) \in Nat /\ Window \in Nat /\ DOMAIN items = 1..Len(items)
           /\ Seen(items) \in Nat
<1>1. Window \in Nat /\ Offset \in Nat /\ Len(items) \in Nat /\ DOMAIN items = 1..Len(items)
  BY Sizes
<1>2. /\ Reach(items) \in 0..Len(items) /\ Reach(items) <= Window
      /\ Reach(items) < Window => Reach(items) = Len(items)
  <2>1. \A a, b \in Nat : /\ Smaller(a, b) \in 0..b /\ Smaller(a, b) <= a
                          /\ Smaller(a, b) < a => Smaller(a, b) = b
    BY DEF Smaller
  <2> QED  BY <1>1, <2>1, Zenon DEF Reach
<1>3. Seen(items) \in Nat
  BY <1>1, <1>2 DEF Seen
<1> QED  BY <1>1, <1>2, <1>3

(* The rest of a sequence behind its first o.                               *)
LEMMA RestIs ==
    ASSUME NEW S, NEW s \in Seq(S), NEW o \in Nat
    PROVE  LET t == SubSeq(s, o + 1, Len(s))
           IN  /\ t \in Seq(S) /\ Len(t) = IF o + 1 <= Len(s) THEN Len(s) - o ELSE 0
               /\ \A k \in 1..(Len(s) - o) : t[k] = s[o + k]
<1> DEFINE t == SubSeq(s, o + 1, Len(s))
<1>1. o + 1 \in Nat \ {0} /\ Len(s) \in Int /\ Len(s) <= Len(s)
  OBVIOUS
<1>2. /\ t \in Seq(S) /\ Len(t) = IF o + 1 <= Len(s) THEN Len(s) - (o + 1) + 1 ELSE 0
      /\ \A k \in 1..(Len(s) - (o + 1) + 1) : t[k] = s[(o + 1) + k - 1]
  BY <1>1, PartIs
<1> HIDE DEF t
<1>3. Len(s) - (o + 1) + 1 = Len(s) - o /\ \A k \in 1..(Len(s) - o) : (o + 1) + k - 1 = o + k
  OBVIOUS
<1> QED  BY <1>2, <1>3 DEF t

(* What a slice shows and what it says.                                     *)
LEMMA SliceShows ==
    ASSUME NEW N \in Nat, NEW items \in Seq(1..N), NEW truncated \in BOOLEAN, NEW count \in Nat,
           cursor \in Nat \cup {Null}
    PROVE  LET p == Slice(items, truncated, count)
           IN  /\ (truncated /\ cursor = Null) => p.next = Null /\ p.complete = FALSE
               /\ ~(truncated /\ cursor = Null) =>
                     /\ \A k \in (Offset + 1)..Reach(items) : Ordered(items)[k] \in Range(p.numbers)
                     /\ p.next = IF truncated \/ Seen(items) < count THEN Seen(items) ELSE Null
                     /\ p.complete = ~(truncated \/ Seen(items) < count)
<1> DEFINE numbers  == FirstOf(Ordered(items), Window)
           selected == SubSeq(numbers, Offset + 1, Len(numbers))
           seen     == Offset + Len(selected)
           hasMore  == truncated \/ seen < count
           r == Reach(items)
<1>1. /\ Offset \in Nat /\ Window \in Nat /\ r \in Nat
      /\ Ordered(items) \in Seq(1..N) /\ Len(Ordered(items)) = Len(items)
  BY OrderedType, ReachIs
<1>2. /\ numbers \in Seq(1..N) /\ Len(numbers) = r
      /\ \A k \in 1..r : numbers[k] = Ordered(items)[k]
  <2> DEFINE o == Ordered(items)
  <2>1. o \in Seq(1..N) /\ Len(o) = Len(items) /\ Window \in Nat
    BY <1>1
  <2> HIDE DEF o
  <2>2. /\ FirstOf(o, Window) \in Seq(1..N) /\ Len(FirstOf(o, Window)) = Smaller(Window, Len(o))
        /\ \A k \in 1..Len(FirstOf(o, Window)) : FirstOf(o, Window)[k] = o[k]
    BY <2>1, FirstOfIs
  <2> QED  BY <2>1, <2>2 DEF o, Reach
<1> HIDE DEF numbers, r
<1>3. /\ selected \in Seq(1..N) /\ Len(selected) = IF Offset + 1 <= r THEN r - Offset ELSE 0
      /\ \A k \in 1..(r - Offset) : selected[k] = numbers[Offset + k]
  BY <1>1, <1>2, RestIs
<1> HIDE DEF selected
<1>4. seen = Seen(items)
  BY <1>1, <1>3 DEF Seen, r
<1>5. \A k \in (Offset + 1)..r : Ordered(items)[k] \in Range(selected)
  <2> SUFFICES ASSUME NEW k \in (Offset + 1)..r PROVE Ordered(items)[k] \in Range(selected)
    OBVIOUS
  <2>1. /\ k - Offset \in 1..(r - Offset) /\ k \in 1..r /\ Offset + (k - Offset) = k
        /\ Len(selected) = r - Offset
    BY <1>1, <1>3
  <2>2. selected[k - Offset] = Ordered(items)[k]
    BY <1>2, <1>3, <2>1
  <2>3. k - Offset \in 1..Len(selected)
    BY <2>1
  <2> QED  BY <1>3, <2>2, <2>3, RangeIs
<1> HIDE DEF seen
<1>6. Slice(items, truncated, count) =
        IF truncated /\ cursor = Null THEN IncompletePacket
        ELSE [type |-> "cr_inventory_slice", numbers |-> selected, complete |-> ~hasMore,
              next |-> IF hasMore THEN seen ELSE Null]
  BY DEF Slice, numbers, selected, seen
<1> HIDE DEF hasMore
<1>7. CASE truncated /\ cursor = Null
  BY <1>6, <1>7 DEF IncompletePacket, Bare
<1>8. CASE ~(truncated /\ cursor = Null)
  <2>1. /\ Slice(items, truncated, count).numbers = selected
        /\ Slice(items, truncated, count).next = (IF hasMore THEN seen ELSE Null)
        /\ Slice(items, truncated, count).complete = ~hasMore
    BY <1>6, <1>8
  <2> QED  BY <1>4, <1>5, <1>8, <2>1 DEF hasMore, r
<1> QED  BY <1>7, <1>8

(* Sorted by number, each item is behind as many as are in front of it.     *)
LEMMA SortedIs ==
    ASSUME NEW N \in Nat, NEW items \in Seq(1..N), NumberSort, NEW k \in DOMAIN items
    PROVE  /\ Ordered(items)[k] \in Range(items)
           /\ Cardinality(FrontOf(items, Ordered(items)[k])) < k
           /\ Cardinality(UpTo(items, Ordered(items)[k])) >= k
<1> DEFINE m == Len(items)
<1>1. m \in Nat /\ DOMAIN items = 1..m /\ k \in 1..m /\ \A i \in 1..m : items[i] \in 1..N
  OBVIOUS
<1>2. IsFiniteSet(DOMAIN items) /\ Cardinality(DOMAIN items) = m
  <2>1. \A j \in Nat : IsFiniteSet(1..j) /\ Cardinality(1..j) = j
    BY FS_Interval
  <2> QED  BY <1>1, <2>1, Zenon
<1> HIDE DEF m
<1>3. CASE sort = "number_asc"
  <2>1. Ordered(items) = Ascending(items)
    BY <1>3 DEF Ordered
  <2> DEFINE v == Ascending(items)[k]
  <2>2. v \in Range(items) /\ Less(items, v) < k /\ NotMore(items, v) >= k
    BY AscendingSorts
  <2> HIDE DEF v
  <2>3. v \in 1..N
    BY <2>2, RangeIs
  <2>4. FrontOf(items, v) = {i \in DOMAIN items : items[i] < v}
    BY <1>3 DEF FrontOf, InFront
  <2>5. UpTo(items, v) = {i \in DOMAIN items : items[i] <= v}
    BY <1>1, <1>3, <2>3 DEF UpTo, InFront
  <2> QED  BY <2>1, <2>2, <2>4, <2>5, Zenon DEF Less, NotMore, v
<1>4. CASE sort = "number_desc"
  <2>1. Ordered(items) = Descending(items)
    BY <1>4 DEF Ordered
  <2> DEFINE j == m - k + 1
             v == Ascending(items)[j]
  <2>2. j \in DOMAIN items /\ j \in Nat /\ k \in Nat /\ k = m - j + 1
    BY <1>1
  <2>3. Descending(items)[k] = v
    <3>1. Len(Ascending(items)) = m
      BY AscendingType DEF m
    <3>2. Descending(items) = [i \in 1..m |-> Ascending(items)[(m - i) + 1]]
      BY <3>1 DEF Descending, Reverse
    <3> QED  BY <1>1, <3>2
  <2> HIDE DEF j
  <2>4. v \in Range(items) /\ Less(items, v) < j /\ NotMore(items, v) >= j
    BY <2>2, AscendingSorts
  <2> HIDE DEF v
  <2>5. v \in 1..N
    BY <2>4, RangeIs
  <2> DEFINE L == {i \in DOMAIN items : items[i] < v}
             M == {i \in DOMAIN items : items[i] <= v}
  <2>6. FrontOf(items, v) = DOMAIN items \ M
    BY <1>1, <1>4, <2>5 DEF FrontOf, InFront
  <2>7. UpTo(items, v) = DOMAIN items \ L
    BY <1>1, <1>4, <2>5 DEF UpTo, InFront
  <2>8. /\ Cardinality(L) < j /\ Cardinality(M) >= j /\ L \subseteq DOMAIN items /\ M \subseteq DOMAIN items
    BY <2>4 DEF Less, NotMore
  <2> HIDE DEF L, M
  <2>9. /\ IsFiniteSet(L) /\ IsFiniteSet(M) /\ Cardinality(L) \in Nat /\ Cardinality(M) \in Nat
        /\ Cardinality(DOMAIN items \ L) = m - Cardinality(L)
        /\ Cardinality(DOMAIN items \ M) = m - Cardinality(M)
    <3>1. \A T : T \subseteq DOMAIN items =>
             IsFiniteSet(T) /\ Cardinality(T) \in Nat /\ Cardinality(DOMAIN items \ T) = m - Cardinality(T)
      <4> SUFFICES ASSUME NEW T, T \subseteq DOMAIN items
                   PROVE  /\ IsFiniteSet(T) /\ Cardinality(T) \in Nat
                          /\ Cardinality(DOMAIN items \ T) = m - Cardinality(T)
        OBVIOUS
      <4>1. IsFiniteSet(T) /\ Cardinality(T) \in Nat
        BY <1>2, FS_Subset, FS_CardinalityType
      <4>2. (DOMAIN items) \cap T = T
        OBVIOUS
      <4>3. Cardinality(DOMAIN items \ T)
               = Cardinality(DOMAIN items) - Cardinality((DOMAIN items) \cap T)
        BY <1>2, FS_Difference, Zenon
      <4> QED  BY <1>2, <4>1, <4>2, <4>3, Zenon
    <3> QED  BY <2>8, <3>1, Zenon
  <2>10. Cardinality(DOMAIN items \ M) < k /\ Cardinality(DOMAIN items \ L) >= k
    BY <1>1, <2>2, <2>8, <2>9
  <2> QED  BY <2>1, <2>3, <2>4, <2>6, <2>7, <2>10, Zenon
<1> QED  BY <1>3, <1>4 DEF NumberSort

(* An item that as many are in front of is the one at that place.           *)
LEMMA SortedHas ==
    ASSUME NEW N \in Nat, NEW items \in Seq(1..N), NumberSort, NEW n \in 1..N,
           NEW k \in DOMAIN items,
           Cardinality(FrontOf(items, n)) < k, k <= Cardinality(UpTo(items, n))
    PROVE  Ordered(items)[k] = n
<1> DEFINE v == Ordered(items)[k]
<1>1. /\ v \in 1..N /\ Cardinality(FrontOf(items, v)) < k /\ Cardinality(UpTo(items, v)) >= k
      /\ \A i \in DOMAIN items : items[i] \in 1..N
  <2>1. /\ v \in Range(items) /\ Cardinality(FrontOf(items, v)) < k
        /\ Cardinality(UpTo(items, v)) >= k
    BY SortedIs
  <2>2. Range(items) \subseteq 1..N /\ \A i \in DOMAIN items : items[i] \in 1..N
    BY RangeIs
  <2> HIDE DEF v
  <2> QED  BY <2>1, <2>2
<1> HIDE DEF v
<1>2. IsFiniteSet(DOMAIN items) /\ k \in Nat
  <2>1. Len(items) \in Nat /\ DOMAIN items = 1..Len(items)
    OBVIOUS
  <2>2. \A j \in Nat : IsFiniteSet(1..j)
    BY FS_Interval
  <2> QED  BY <2>1, <2>2
<1>3. ASSUME NEW x \in 1..N, NEW y \in 1..N, InFront(x, y)
      PROVE  Cardinality(UpTo(items, x)) <= Cardinality(FrontOf(items, y))
  <2>1. UpTo(items, x) \subseteq FrontOf(items, y)
    BY <1>1, <1>3 DEF UpTo, FrontOf, InFront
  <2>2. IsFiniteSet(FrontOf(items, y))
    BY <1>2, FS_Subset DEF FrontOf
  <2> QED  BY <2>1, <2>2, FS_Subset
<1>4. \A x \in 1..N : /\ Cardinality(FrontOf(items, x)) \in Nat
                      /\ Cardinality(UpTo(items, x)) \in Nat
  BY <1>2, FS_Subset, FS_CardinalityType DEF FrontOf, UpTo
<1>5. ~InFront(v, n)
  BY <1>1, <1>2, <1>3, <1>4
<1>6. ~InFront(n, v)
  BY <1>1, <1>2, <1>3, <1>4
<1>7. v = n
  BY <1>1, <1>5, <1>6 DEF InFront
<1> QED  BY <1>7 DEF v

(* What was read and is not shown is behind the slice.                      *)
LEMMA DirectSlice ==
    ASSUME Typed, Listed, Direct, NEW items \in Seq(1..made), Reads(items), NEW n \in Due,
           \A k \in (Offset + 1)..Reach(items) : Ordered(items)[k] # n
    PROVE  Far(items, n) /\ Rank(n) >= Seen(items)
<1>1. /\ made \in Nat /\ n \in Open /\ n \in 1..made /\ Rank(n) \in Nat
      /\ cursor \in Nat \cup {Null}
      /\ sort \in {"number_asc", "number_desc", "recent_update", "recent_created"}
  <2>1. made \in Nat /\ n \in Open /\ Open \subseteq 1..made
    <3>1. order \in Seq(1..made) /\ made \in Nat
      BY Sizes DEF Typed, ForgeTyped, CallerTyped
    <3>2. n \in Open
      BY DEF Typed, HistoryTyped, Due
    <3> QED  BY <3>1, <3>2, RangeIs DEF Open
  <2>2. Rank(n) \in 0..(Len(order) - 1)
    BY <2>1, AheadIsRank
  <2> QED  BY <2>1, <2>2, SortAssumption DEF Typed, CallerTyped
<1>2. /\ Reach(items) \in Nat /\ Offset \in Nat /\ Reach(items) <= Len(items)
      /\ DOMAIN items = 1..Len(items) /\ Len(items) \in Nat
  BY <1>1, ReachIs
<1>3. Far(items, n)
  <2>1. CASE n \notin Within(items)
    BY <2>1 DEF Reads, Unread
  <2>2. CASE n \in Within(items) /\ ~NumberSort
    <3>1. Ordered(items) = items
      BY <1>1, <2>2 DEF Ordered, NumberSort, Direct
    <3>2. \E k \in (Offset + 1)..Reach(items) : items[k] = n
      BY <2>2 DEF Reads, InReach
    <3> QED  BY <3>1, <3>2
  <2>3. CASE n \in Within(items) /\ NumberSort
    <3> SUFFICES ASSUME ~Far(items, n) PROVE FALSE
      OBVIOUS
    <3> DEFINE B == Cardinality(FrontOf(items, n))
               U == Cardinality(UpTo(items, n))
    <3>1. InReach(items, n)
      BY <2>3 DEF Reads
    <3>2. PICK k \in (Offset + 1)..Reach(items) :
                 items[k] = n /\ \A j \in 1..k : ~InFront(n, items[j])
      BY <2>3, <3>1 DEF InReach
    <3>3. B <= Rank(n)
      BY <2>3, <3>1 DEF InReach
    <3>4. k \in 1..Len(items) /\ k \in Nat /\ k >= Offset + 1 /\ k <= Reach(items)
      BY <1>2
    <3>5. IsFiniteSet(UpTo(items, n)) /\ IsFiniteSet(FrontOf(items, n)) /\ B \in Nat /\ U \in Nat
      <4>1. IsFiniteSet(DOMAIN items)
        <5>1. \A j \in Nat : IsFiniteSet(1..j)
          BY FS_Interval
        <5> QED  BY <1>2, <5>1
      <4>2. UpTo(items, n) \subseteq DOMAIN items /\ FrontOf(items, n) \subseteq DOMAIN items
        BY DEF UpTo, FrontOf
      <4> QED  BY <4>1, <4>2, FS_Subset, FS_CardinalityType
    <3>6. U >= k
      <4>1. 1..k \subseteq UpTo(items, n)
        BY <1>2, <3>2, <3>4 DEF UpTo
      <4>2. Cardinality(1..k) = k
        <5>1. \A j \in Nat : Cardinality(1..j) = j
          BY FS_Interval
        <5> QED  BY <3>4, <5>1
      <4>3. Cardinality(1..k) <= U
        BY <3>5, <4>1, FS_Subset
      <4> QED  BY <4>2, <4>3
    <3>7. U >= B + 1
      <4>1. \A i \in DOMAIN items : items[i] \in 1..made
        BY <1>2, RangeIs
      <4>2. FrontOf(items, n) \cup {k} \subseteq UpTo(items, n)
        BY <1>1, <1>2, <3>2, <3>4, <4>1 DEF FrontOf, UpTo, InFront
      <4>3. k \notin FrontOf(items, n)
        BY <1>1, <3>2 DEF FrontOf, InFront
      <4>4. Cardinality(FrontOf(items, n) \cup {k}) = B + 1
        BY <3>5, <4>3, FS_AddElement
      <4>5. Cardinality(FrontOf(items, n) \cup {k}) <= U
        BY <3>5, <4>2, FS_Subset
      <4> QED  BY <4>4, <4>5
    <3> HIDE DEF B, U
    <3>8. CASE B < Reach(items)
      <4> DEFINE j == IF B >= Offset THEN B + 1 ELSE Offset + 1
      <4>1. j \in (Offset + 1)..Reach(items) /\ j \in DOMAIN items /\ B < j /\ j <= U
        BY <1>2, <3>4, <3>5, <3>6, <3>7, <3>8
      <4> HIDE DEF j
      <4>2. Ordered(items)[j] = n
        BY <1>1, <2>3, <4>1, SortedHas DEF B, U
      <4> QED  BY <4>1, <4>2
    <3>9. CASE ~(B < Reach(items))
      BY <1>1, <1>2, <3>3, <3>4, <3>5, <3>9 DEF Far
    <3> QED  BY <3>8, <3>9
  <2> QED  BY <2>1, <2>2, <2>3
<1> QED  BY <1>1, <1>2, <1>3 DEF Far, Seen

(* In the forge's order, what is in front by number is in front in the list. *)
LEMMA FrontIs ==
    ASSUME Typed, Listed, Direct, NEW n \in Open
    PROVE  /\ Rank(n) \in Nat /\ Rank(n) + 1 \in 1..Len(order) /\ order[Rank(n) + 1] = n
           /\ \A i \in 1..Len(order) : order[i] = n => i = Rank(n) + 1
           /\ NumberSort => \A i \in 1..Len(order) :
                 /\ InFront(order[i], n) <=> i <= Rank(n)
                 /\ InFront(n, order[i]) <=> i > Rank(n) + 1
<1> DEFINE m == Len(order)
           p == Place(n)
<1>1. /\ order \in Seq(1..made) /\ Distinct(order) /\ m \in Nat /\ DOMAIN order = 1..m
      /\ p \in 1..m /\ order[p] = n
      /\ \A k \in 1..m : Place(order[k]) = k
      /\ \A k \in 1..m : order[k] \in Nat
  <2>1. order \in Seq(1..made) /\ Distinct(order) /\ made \in Nat
    BY Sizes DEF Typed, ForgeTyped, CallerTyped
  <2>2. m \in Nat /\ DOMAIN order = 1..m /\ \A k \in 1..m : order[k] \in Nat
    BY <2>1
  <2> QED  BY <2>1, <2>2, PlaceIs
<1>2. Rank(n) = p - 1
  BY DEF Rank
<1> HIDE DEF m, p
<1>3. Rank(n) \in Nat /\ Rank(n) + 1 = p
  BY <1>1, <1>2
<1>4. \A i \in 1..m : order[i] = n => i = p
  BY <1>1 DEF p
<1>5. ASSUME NumberSort, NEW i \in 1..m
      PROVE  (InFront(order[i], n) <=> i < p) /\ (InFront(n, order[i]) <=> p < i)
  <2>1. \A j, k \in 1..m :
            j < k => IF OldestFirst THEN order[j] < order[k] ELSE order[j] > order[k]
    BY <1>1, <1>5 DEF Listed, NumberSort
  <2>2. OldestFirst <=> sort = "number_asc"
    BY <1>5 DEF OldestFirst, Direct, NumberSort
  <2>3. CASE OldestFirst
    BY <1>1, <2>1, <2>2, <2>3 DEF InFront
  <2>4. CASE ~OldestFirst
    BY <1>1, <2>1, <2>2, <2>4 DEF InFront
  <2> QED  BY <2>3, <2>4
<1>6. \A i \in 1..m : (i < p <=> i <= Rank(n)) /\ (p < i <=> i > Rank(n) + 1)
  BY <1>1, <1>3
<1> QED  BY <1>1, <1>3, <1>4, <1>5, <1>6 DEF m

LEMMA InFrontIs ==
    ASSUME NEW x \in Nat, NEW y \in Nat
    PROVE  /\ ~InFront(x, x) /\ (InFront(x, y) => ~InFront(y, x)) 
           /\ (~InFront(x, y) /\ ~InFront(y, x)) => x = y
BY DEF InFront

(* At most as many items are in front as there are places that have one.    *)
LEMMA FrontCounts ==
    ASSUME NEW S, NEW items \in Seq(S), NEW n, NEW b \in Nat, FrontOf(items, n) \subseteq 1..b
    PROVE  Cardinality(FrontOf(items, n)) <= b
<1>1. IsFiniteSet(1..b) /\ Cardinality(1..b) = b
  <2>1. \A j \in Nat : IsFiniteSet(1..j) /\ Cardinality(1..j) = j
    BY FS_Interval
  <2> QED  BY <2>1, Zenon
<1>2. Cardinality(FrontOf(items, n)) <= Cardinality(1..b)
  BY <1>1, FS_Subset
<1> QED  BY <1>1, <1>2

(* Another page behind what was read from the pages in front of it.         *)
More(items, s, a, l) == items \o Part(s, a, l)

LEMMA MoreIs ==
    ASSUME NEW S, NEW s \in Seq(S), NEW items \in Seq(S), NEW a \in Nat, NEW l \in Nat
    PROVE  /\ More(items, s, a, l) \in Seq(S)
           /\ Len(More(items, s, a, l)) = Len(items) + Len(Part(s, a, l))
           /\ \A k \in 1..Len(items) : More(items, s, a, l)[k] = items[k]
           /\ \A k \in (Len(items) + 1)..Len(More(items, s, a, l)) :
                 /\ a + (k - Len(items)) \in 1..Len(s)
                 /\ More(items, s, a, l)[k] = s[a + (k - Len(items))]
           /\ \A j \in 1..Len(s) :
                 (a < j /\ j <= a + l) => Len(items) + (j - a) <= Len(More(items, s, a, l))
           /\ (a <= Len(s) /\ Len(Part(s, a, l)) < l) => a + Len(Part(s, a, l)) = Len(s)
<1> DEFINE P == Part(s, a, l)
           t == items \o P
           m == Len(s)
           L == Len(items)
<1>1. m \in Nat /\ L \in Nat
  OBVIOUS
<1> HIDE DEF P
<1>2. /\ P \in Seq(S) /\ Len(P) <= l
      /\ a >= m => Len(P) = 0
      /\ a < m => Len(P) = Smaller(a + l, m) - a
      /\ \A k \in 1..Len(P) : a + k \in 1..m /\ P[k] = s[a + k]
  BY PartOf DEF P
<1>3. /\ Len(P) \in Nat
      /\ a >= m => Len(P) = 0
      /\ a < m => Len(P) = IF a + l < m THEN l ELSE m - a
  BY <1>2 DEF Smaller
<1>4. /\ t \in Seq(S) /\ Len(t) = L + Len(P)
      /\ \A k \in 1..(L + Len(P)) : t[k] = IF k <= L THEN items[k] ELSE P[k - L]
  BY <1>2, ConcatProperties
<1> HIDE DEF t, L, m
<1>5. \A k \in 1..L : t[k] = items[k]
  BY <1>1, <1>3, <1>4
<1>6. ASSUME NEW k \in (L + 1)..Len(t)
      PROVE  a + (k - L) \in 1..m /\ t[k] = s[a + (k - L)]
  <2>1. k - L \in 1..Len(P) /\ k \in 1..(L + Len(P)) /\ ~(k <= L)
    BY <1>1, <1>3, <1>4
  <2> QED  BY <1>2, <1>4, <2>1
<1>7. \A j \in 1..m : (a < j /\ j <= a + l) => L + (j - a) <= Len(t)
  BY <1>1, <1>3, <1>4
<1>8. (a <= m /\ Len(P) < l) => a + Len(P) = m
  BY <1>1, <1>3
<1>9. t \in Seq(S) /\ Len(t) = L + Len(P)
  BY <1>4
<1> QED  BY <1>5, <1>6, <1>7, <1>8, <1>9, Zenon DEF P, t, L, m, More

(* Reading on, with all of the window or all of the pages before in hand.   *)
LEMMA ReadsMore ==
    ASSUME Typed, Listed, Direct, NEW items \in Seq(1..made), NEW a \in Nat, NEW l \in Nat,
           Reads(items), Len(items) <= a,
           Len(items) < Window => (Len(items) = a \/ Due \subseteq Range(items))
    PROVE  Reads(More(items, order, a, l))
<1> DEFINE t == More(items, order, a, l)
           m == Len(order)
           L == Len(items)
           r == Reach(items)
           R == Reach(t)
<1>1. /\ order \in Seq(1..made) /\ made \in Nat /\ m \in Nat /\ L \in Nat /\ DOMAIN items = 1..L
      /\ cursor \in Nat \cup {Null}
  <2>1. made \in Nat /\ cursor \in Nat \cup {Null} /\ order \in Seq(1..made)
    BY Sizes DEF Typed, ForgeTyped, CallerTyped
  <2> QED  BY <2>1
<1>2. /\ t \in Seq(1..made) /\ Len(t) \in Nat /\ Len(t) >= L
      /\ \A k \in 1..L : t[k] = items[k]
      /\ \A k \in (L + 1)..Len(t) : a + (k - L) \in 1..m /\ t[k] = order[a + (k - L)]
      /\ DOMAIN t = 1..Len(t)
  <2>1. order \in Seq(1..made)
    BY <1>1
  <2>2. /\ t \in Seq(1..made) /\ Len(t) = L + Len(Part(order, a, l))
        /\ \A k \in 1..L : t[k] = items[k]
        /\ \A k \in (L + 1)..Len(t) : a + (k - L) \in 1..m /\ t[k] = order[a + (k - L)]
    <3> DEFINE T == 1..made
    <3>1. order \in Seq(T) /\ items \in Seq(T)
      BY <2>1
    <3> HIDE DEF T
    <3>2. /\ t \in Seq(T) /\ Len(t) = L + Len(Part(order, a, l))
          /\ \A k \in 1..L : t[k] = items[k]
          /\ \A k \in (L + 1)..Len(t) : a + (k - L) \in 1..m /\ t[k] = order[a + (k - L)]
      <4>1. t \in Seq(T)
        BY <3>1, MoreIs, Zenon
      <4>2. Len(t) = L + Len(Part(order, a, l))
        BY <3>1, <4>1, MoreIs, SMTT(30)
      <4>3. \A k \in 1..L : t[k] = items[k]
        BY <3>1, <4>1, MoreIs
      <4>4. \A k \in (L + 1)..Len(t) : a + (k - L) \in 1..m /\ t[k] = order[a + (k - L)]
        BY <3>1, <4>1, MoreIs
      <4> QED  BY <4>1, <4>2, <4>3, <4>4
    <3> QED  BY <3>2 DEF T
  <2>3. Part(order, a, l) \in Seq(1..made)
    BY <2>1, PartOf
  <2>4. Len(Part(order, a, l)) \in Nat
    BY <2>3
  <2> HIDE DEF t
  <2>6. Len(t) = L + Len(Part(order, a, l)) /\ L \in Nat
    BY <1>1, <2>2, Zenon
  <2>7. t \in Seq(1..made)
    BY <2>2, Zenon
  <2> HIDE DEF L
  <2>5. Len(t) \in Nat /\ Len(t) >= L /\ DOMAIN t = 1..Len(t)
    BY <2>4, <2>6, <2>7
  <2> QED  BY <2>2, <2>5, Zenon
<1>3. /\ r \in Nat /\ r <= L /\ r <= Window /\ (r < Window => r = L) /\ Offset \in Nat /\ Window \in Nat
      /\ R \in Nat /\ R <= Len(t) /\ R <= Window /\ (R < Window => R = Len(t))
  <2>1. r \in 0..L /\ r <= Window /\ (r < Window => r = L) /\ Offset \in Nat /\ Window \in Nat
    BY <1>1, ReachIs
  <2> HIDE DEF t
  <2>2. R \in 0..Len(t) /\ R <= Window /\ (R < Window => R = Len(t))
    BY <1>1, <1>2, ReachIs
  <2> QED  BY <2>1, <2>2
<1>14. L \in Nat /\ m \in Nat /\ Len(t) \in Nat /\ Len(t) >= L
  BY <1>1, <1>2
<1>4. r <= R /\ (L >= Window => R = r)
  <2> HIDE DEF t, r, R, L
  <2> QED  BY <1>3, <1>14
<1> HIDE DEF t, r, R, L, m
<1> SUFFICES ASSUME NEW n \in Due
             PROVE  IF n \in Within(t) THEN InReach(t, n) ELSE Unread(t, n)
  BY DEF Reads, t
<1>5. n \in Open /\ n \in Nat /\ n \in 1..made /\ Rank(n) \in Nat
  <2>1. n \in Open
    BY DEF Typed, HistoryTyped, Due
  <2>2. n \in 1..made
    BY <1>1, <2>1, RangeIs DEF Open
  <2> QED  BY <1>1, <2>1, <2>2, FrontIs
<1>6. /\ \A i \in 1..m : order[i] = n => i = Rank(n) + 1
      /\ Rank(n) + 1 \in 1..m /\ order[Rank(n) + 1] = n
      /\ NumberSort => \A i \in 1..m : /\ InFront(order[i], n) <=> i <= Rank(n)
                                       /\ InFront(n, order[i]) <=> i > Rank(n) + 1
  BY <1>5, FrontIs DEF m
<1>7. \A i \in 1..L : items[i] \in Nat /\ (InFront(items[i], n) => ~InFront(n, items[i]))
  <2>1. \A i \in 1..L : items[i] \in Nat
    BY <1>1
  <2> QED  BY <1>5, <2>1, InFrontIs
<1>8. Within(items) = {items[k] : k \in 1..r} /\ Within(t) = {t[k] : k \in 1..R}
  BY DEF Within, r, R
<1>9. ASSUME NumberSort, Rank(n) >= a PROVE Cardinality(FrontOf(t, n)) <= Rank(n)
  <2>1. FrontOf(t, n) \subseteq 1..Rank(n)
    <3> SUFFICES ASSUME NEW i \in 1..Len(t), InFront(t[i], n) PROVE i \in 1..Rank(n)
      BY <1>2 DEF FrontOf
    <3>1. CASE i <= L
      <4>1. L <= a
        BY DEF L
      <4> QED  BY <1>5, <1>9, <1>14, <3>1, <4>1
    <3>2. CASE i > L
      <4>1. i \in (L + 1)..Len(t)
        BY <1>1, <1>2, <3>2
      <4>2. a + (i - L) \in 1..m /\ InFront(order[a + (i - L)], n)
        BY <1>2, <4>1
      <4>3. a + (i - L) <= Rank(n)
        BY <1>6, <1>9, <4>2
      <4>4. L <= a
        BY DEF L
      <4> QED  BY <1>1, <1>5, <4>1, <4>3, <4>4
    <3> QED  BY <1>1, <1>2, <3>1, <3>2
  <2> QED  BY <1>2, <1>5, <2>1, FrontCounts
<1>10. ASSUME NumberSort, Rank(n) <= a PROVE FrontOf(t, n) = FrontOf(items, n)
  <2>1. ASSUME NEW i \in (L + 1)..Len(t) PROVE ~InFront(t[i], n)
    <3>1. a + (i - L) \in 1..m /\ t[i] = order[a + (i - L)]
      BY <1>2, <2>1
    <3>2. ~(a + (i - L) <= Rank(n))
      BY <1>1, <1>2, <1>5, <1>10
    <3> QED  BY <1>6, <1>10, <3>1, <3>2
  <2>2. \A i \in 1..Len(t) : i \in 1..L \/ i \in (L + 1)..Len(t)
    BY <1>14
  <2>3. \A i \in 1..L : i \in 1..Len(t) /\ t[i] = items[i]
    BY <1>2, <1>14
  <2> QED  BY <1>1, <1>2, <2>1, <2>2, <2>3 DEF FrontOf
<1>11. CASE n \in Within(items)
  <2>1. InReach(items, n)
    BY <1>11 DEF Reads
  <2>2. PICK k \in (Offset + 1)..r :
               items[k] = n /\ (NumberSort => \A j \in 1..k : ~InFront(n, items[j]))
    BY <2>1 DEF InReach, r
  <2>3. k \in (Offset + 1)..R /\ k \in 1..R /\ k \in 1..L /\ \A j \in 1..k : j \in 1..L
    BY <1>1, <1>3, <1>4
  <2>4. t[k] = n /\ (NumberSort => \A j \in 1..k : ~InFront(n, t[j]))
    BY <1>2, <2>2, <2>3
  <2>5. n \in Within(t)
    BY <1>8, <2>3, <2>4
  <2>6. ASSUME NumberSort PROVE Far(t, n) \/ Cardinality(FrontOf(t, n)) <= Rank(n)
    <3>1. Far(items, n) \/ Cardinality(FrontOf(items, n)) <= Rank(n)
      BY <2>1, <2>6 DEF InReach
    <3>2. CASE Rank(n) >= a
      BY <1>9, <2>6, <3>2
    <3>3. CASE Rank(n) < a /\ L >= Window
      <4>1. FrontOf(t, n) = FrontOf(items, n) /\ R = r
        BY <1>4, <1>5, <1>10, <2>6, <3>3
      <4> QED  BY <3>1, <4>1 DEF Far, r, R
    <3>4. CASE Rank(n) < a /\ L < Window
      <4>1. FrontOf(t, n) = FrontOf(items, n)
        BY <1>5, <1>10, <2>6, <3>4
      <4>2. r = L
        BY <1>1, <1>3, <3>4
      <4>3. Cardinality(FrontOf(items, n)) <= L
        <5>1. FrontOf(items, n) \subseteq 1..L
          BY <1>1 DEF FrontOf
        <5> QED  BY <1>1, <5>1, FrontCounts
      <4>4. CASE Far(items, n)
        <5>1. Rank(n) >= L
          BY <4>2, <4>4 DEF Far, r
        <5>2. Cardinality(FrontOf(items, n)) \in Nat
          <6>1. \A j \in Nat : IsFiniteSet(1..j)
            BY FS_Interval
          <6>2. FrontOf(items, n) \subseteq 1..L
            BY <1>1 DEF FrontOf
          <6> QED  BY <1>1, <6>1, <6>2, FS_Subset, FS_CardinalityType
        <5> QED  BY <1>1, <1>5, <4>1, <4>3, <5>1, <5>2
      <4> QED  BY <3>1, <4>1, <4>4
    <3> QED  BY <1>3, <1>5, <1>14, <3>2, <3>3, <3>4
  <2>7. InReach(t, n)
    BY <2>3, <2>4, <2>6 DEF InReach, R
  <2> QED  BY <2>5, <2>7
<1>12. CASE n \notin Within(items) /\ L >= Window
  <2>1. R = r /\ Within(t) = Within(items)
    <3>1. \A k \in 1..r : k \in 1..L
      BY <1>3, <1>14
    <3>2. \A k \in 1..r : t[k] = items[k]
      BY <1>2, <3>1
    <3> QED  BY <1>4, <1>8, <1>12, <3>2
  <2>2. Unread(items, n)
    BY <1>12 DEF Reads
  <2>3. \A k \in 1..R : t[k] = items[k]
    <3>1. \A k \in 1..R : k \in 1..L
      BY <1>3, <1>14, <2>1
    <3> QED  BY <1>2, <3>1
  <2>4. Unread(t, n)
    BY <2>1, <2>2, <2>3 DEF Unread, Far, r, R
  <2> QED  BY <1>12, <2>1, <2>4
<1>13. CASE n \notin Within(items) /\ L < Window
  <2>1. r = L
    BY <1>1, <1>3, <1>13
  <2>2. \A k \in 1..L : items[k] # n
    BY <1>8, <1>13, <2>1
  <2>3. L = a
    <3>1. n \notin Range(items)
      BY <1>1, <2>2 DEF Range
    <3> QED  BY <1>13, <3>1 DEF L
  <2>4. Unread(items, n)
    BY <1>13 DEF Reads
  <2>5. /\ Rank(n) >= Offset /\ Rank(n) >= L
        /\ NumberSort => \A k \in 1..L : InFront(items[k], n)
    BY <2>1, <2>4 DEF Unread, Far, r
  <2>50. Rank(n) >= Offset /\ Rank(n) >= L
    BY <2>5
  <2>6. ASSUME NEW k \in (L + 1)..Len(t) PROVE k \in 1..m /\ t[k] = order[k]
    <3>1. a + (k - L) = k
      BY <1>1, <1>2, <2>3
    <3> QED  BY <1>2, <3>1
  <2>7. CASE Rank(n) + 1 <= R
    <3>1. /\ Rank(n) + 1 \in (Offset + 1)..R /\ Rank(n) + 1 \in 1..R
          /\ Rank(n) + 1 \in (L + 1)..Len(t)
      BY <1>3, <1>5, <1>14, <2>50, <2>7
    <3>2. t[Rank(n) + 1] = n
      BY <1>6, <2>6, <3>1
    <3>3. n \in Within(t)
      BY <1>8, <3>1, <3>2
    <3>4. ASSUME NumberSort, NEW j \in 1..(Rank(n) + 1) PROVE ~InFront(n, t[j])
      <4>1. CASE j <= L
        <5>1. j \in 1..L /\ t[j] = items[j]
          BY <1>1, <1>2, <4>1
        <5> QED  BY <1>7, <2>5, <3>4, <5>1
      <4>2. CASE j > L
        <5>1. j \in (L + 1)..Len(t) /\ ~(j > Rank(n) + 1)
          BY <1>3, <1>5, <1>14, <2>7, <4>2
        <5> QED  BY <1>6, <2>6, <3>4, <5>1
      <4> QED  BY <1>1, <1>5, <4>1, <4>2
    <3>5. NumberSort => Cardinality(FrontOf(t, n)) <= Rank(n)
      BY <1>9, <2>3, <2>5
    <3>6. InReach(t, n)
      BY <3>1, <3>2, <3>4, <3>5 DEF InReach, R
    <3> QED  BY <3>3, <3>6
  <2>8. CASE ~(Rank(n) + 1 <= R)
    <3>1. Rank(n) >= R
      BY <1>3, <1>5, <2>8
    <3>2. \A k \in 1..R : k \in 1..L \/ k \in (L + 1)..Len(t)
      BY <1>3, <1>14
    <3>3. ASSUME NEW k \in 1..R PROVE t[k] # n
      <4>1. CASE k \in 1..L
        BY <1>2, <2>2, <4>1
      <4>2. CASE k \in (L + 1)..Len(t)
        <5>1. t[k] = order[k] /\ k \in 1..m /\ k # Rank(n) + 1
          BY <1>3, <1>5, <2>6, <3>1, <4>2
        <5> QED  BY <1>6, <5>1
      <4> QED  BY <3>2, <4>1, <4>2
    <3>4. n \notin Within(t)
      BY <1>8, <3>3
    <3>5. ASSUME NumberSort, NEW k \in 1..R PROVE InFront(t[k], n)
      <4>1. CASE k \in 1..L
        BY <1>2, <2>5, <3>5, <4>1
      <4>2. CASE k \in (L + 1)..Len(t)
        <5>1. t[k] = order[k] /\ k \in 1..m /\ k <= Rank(n)
          BY <1>3, <1>5, <2>6, <3>1, <4>2
        <5> QED  BY <1>6, <3>5, <5>1
      <4> QED  BY <3>2, <4>1, <4>2
    <3>6. Unread(t, n)
      BY <2>5, <3>1, <3>5 DEF Unread, Far, R
    <3> QED  BY <3>4, <3>6
  <2> QED  BY <2>7, <2>8
<1> QED  BY <1>1, <1>3, <1>11, <1>12, <1>13

(* The ranks and the window stay while the list and the cursor do.          *)
LEMMA Same ==
    ASSUME UNCHANGED <<provider, sort, order, cursor>>
    PROVE  /\ \A n : Rank(n)' = Rank(n)
           /\ Offset' = Offset /\ Window' = Window
           /\ (NumberSort' <=> NumberSort) /\ (Direct' <=> Direct)
           /\ (OnGitea' <=> OnGitea) /\ (OldestFirst' <=> OldestFirst)
           /\ (ByNumber' <=> ByNumber) /\ (AtTail' <=> AtTail) /\ Extra' = Extra
           /\ \A a, b : InFront(a, b)' <=> InFront(a, b)
<1>1. /\ Offset' = Offset /\ Window' = Window
      /\ (NumberSort' <=> NumberSort) /\ (Direct' <=> Direct)
      /\ (OnGitea' <=> OnGitea) /\ (OldestFirst' <=> OldestFirst)
      /\ (ByNumber' <=> ByNumber) /\ (AtTail' <=> AtTail) /\ Extra' = Extra
      /\ \A a, b : InFront(a, b)' <=> InFront(a, b)
  BY DEF Offset, Window, NumberSort, Direct, OnGitea, OldestFirst, ByNumber, AtTail, Extra, InFront
<1>2. ASSUME NEW n PROVE Rank(n)' = Rank(n)
  <2>1. Place(n)' = Place(n)
    BY DEF Place
  <2> QED  BY <1>1, <2>1 DEF Rank
<1> QED  BY <1>1, <1>2

LEMMA SameReads ==
    ASSUME UNCHANGED <<provider, sort, order, cursor, steady, shown>>
    PROVE  /\ (\A x : Owed(x)' <=> Owed(x)) /\ Due' = Due
           /\ (Reads(got') => Reads(got)')
<1>1. /\ \A n : Rank(n)' = Rank(n)
      /\ Offset' = Offset /\ Window' = Window
      /\ (NumberSort' <=> NumberSort)
      /\ \A a, b : InFront(a, b)' <=> InFront(a, b)
  BY Same
<1>2. Due' = Due /\ \A x : Owed(x)' <=> Owed(x)
  BY <1>1 DEF Due, Owed
<1>3. /\ Reach(got)' = Reach(got')
      /\ Within(got)' = Within(got')
      /\ \A n : (Far(got, n)' <=> Far(got', n)) /\ FrontOf(got, n)' = FrontOf(got', n)
  BY <1>1 DEF Reach, Within, Far, FrontOf
<1>4. ASSUME NEW n PROVE (Unread(got, n)' <=> Unread(got', n)) /\ (InReach(got, n)' <=> InReach(got', n))
  BY <1>1, <1>3 DEF Unread, InReach
<1> QED  BY <1>2, <1>3, <1>4 DEF Reads

(* A pull that is owed has a rank.                                          *)
LEMMA DueIs ==
    ASSUME Typed, Listed
    PROVE  /\ \A n \in Due : n \in Open /\ n \in 1..made /\ n \in Nat /\ Rank(n) \in 0..(Len(order) - 1)
           /\ made \in Nat /\ Len(order) \in Nat /\ cursor \in Nat \cup {Null}
           /\ order \in Seq(1..made)
<1>1. made \in Nat /\ order \in Seq(1..made) /\ cursor \in Nat \cup {Null}
  BY Sizes DEF Typed, ForgeTyped, CallerTyped
<1>2. ASSUME NEW n \in Due PROVE n \in Open /\ n \in 1..made /\ n \in Nat /\ Rank(n) \in 0..(Len(order) - 1)
  <2>1. n \in Open
    BY DEF Typed, HistoryTyped, Due
  <2>2. n \in 1..made
    BY <1>1, <2>1, RangeIs DEF Open
  <2>3. n \in Nat
    BY <1>1, <2>2
  <2> QED  BY <2>1, <2>2, <2>3, AheadIsRank
<1>3. Len(order) \in Nat
  BY <1>1
<1> QED  BY <1>1, <1>2, <1>3

(* Nothing was read yet.                                                    *)
LEMMA ReadsNone ==
    ASSUME Typed, Listed, NEW items \in Seq(1..made), Len(items) = 0
    PROVE  Reads(items) <=> Owed(Offset)
<1>1. \A n \in Due : Rank(n) \in Nat
  BY DueIs
<1>2. Reach(items) = 0
  <2>1. Reach(items) \in 0..Len(items)
    BY DueIs, ReachIs
  <2> QED  BY <2>1
<1>3. Within(items) = {} /\ \A k \in 1..Reach(items) : FALSE
  BY <1>2 DEF Within
<1>4. ASSUME NEW n \in Due PROVE Unread(items, n) <=> Rank(n) >= Offset
  BY <1>1, <1>2, <1>3 DEF Unread, Far
<1> QED  BY <1>3, <1>4 DEF Reads, Owed

(* What is cut behind the window was not read.                              *)
LEMMA ReadsFirst ==
    ASSUME Typed, Listed, NEW items \in Seq(1..made), Reads(items)
    PROVE  Reads(FirstOf(items, Window))
<1> DEFINE t == FirstOf(items, Window)
           r == Reach(items)
<1>1. /\ r \in 0..Len(items) /\ Len(items) \in Nat /\ Window \in Nat
      /\ DOMAIN items = 1..Len(items)
  BY DueIs, ReachIs
<1>2. t \in Seq(1..made) /\ Len(t) = r /\ \A k \in 1..Len(t) : t[k] = items[k]
  <2>1. /\ t \in Seq(1..made) /\ Len(t) = Smaller(Window, Len(items))
        /\ \A k \in 1..Len(t) : t[k] = items[k]
    BY <1>1, FirstOfIs
  <2> QED  BY <2>1 DEF Reach
<1> HIDE DEF t, r
<1>3. DOMAIN t = 1..r
  BY <1>2
<1>4. Reach(t) = r
  <2>1. Reach(t) = Smaller(Window, r) /\ r = Smaller(Window, Len(items))
    BY <1>2 DEF Reach, r
  <2> QED  BY <1>1, <2>1 DEF Smaller
<1>5. Within(t) = Within(items) /\ \A n : Far(t, n) <=> Far(items, n)
  BY <1>2, <1>4 DEF Within, Far, r
<1>6. ASSUME NEW n, Unread(items, n) PROVE Unread(t, n)
  BY <1>2, <1>4, <1>5, <1>6 DEF Unread, r
<1>7. ASSUME NEW n \in Due, InReach(items, n) PROVE InReach(t, n)
  <2>1. PICK k \in (Offset + 1)..r :
            items[k] = n /\ (NumberSort => \A j \in 1..k : ~InFront(n, items[j]))
    BY <1>7 DEF InReach, r
  <2>2. Offset \in Nat
    BY DueIs, ReachIs
  <2>3. k \in 1..r /\ \A j \in 1..k : j \in 1..r
    BY <1>1, <2>2
  <2>4. t[k] = n /\ (NumberSort => \A j \in 1..k : ~InFront(n, t[j]))
    BY <1>2, <2>1, <2>3
  <2>5. /\ Cardinality(FrontOf(t, n)) <= Cardinality(FrontOf(items, n))
        /\ Cardinality(FrontOf(t, n)) \in Nat /\ Cardinality(FrontOf(items, n)) \in Nat
    <3>1. \A j \in Nat : IsFiniteSet(1..j)
      BY FS_Interval
    <3>2. IsFiniteSet(DOMAIN items)
      BY <1>1, <3>1
    <3>3. FrontOf(items, n) \subseteq DOMAIN items
      BY DEF FrontOf
    <3>4. FrontOf(t, n) \subseteq FrontOf(items, n)
      <4>1. \A i \in 1..r : i \in 1..Len(items)
        BY <1>1
      <4> QED  BY <1>1, <1>2, <1>3, <4>1 DEF FrontOf
    <3>5. IsFiniteSet(FrontOf(items, n))
      BY <3>2, <3>3, FS_Subset
    <3> QED  BY <3>4, <3>5, FS_Subset, FS_CardinalityType
  <2>6. ASSUME NumberSort PROVE Far(t, n) \/ Cardinality(FrontOf(t, n)) <= Rank(n)
    <3>1. Far(items, n) \/ Cardinality(FrontOf(items, n)) <= Rank(n)
      BY <1>7, <2>6 DEF InReach
    <3>2. Rank(n) \in Nat
      BY DueIs
    <3> QED  BY <1>5, <2>5, <3>1, <3>2
  <2>7. \E j \in (Offset + 1)..Reach(t) : 
            t[j] = n /\ (NumberSort => \A i \in 1..j : ~InFront(n, t[i]))
    BY <1>4, <2>1, <2>4
  <2> QED  BY <2>6, <2>7 DEF InReach
<1> QED  BY <1>5, <1>6, <1>7 DEF Reads, t

(* What a slice of a direct walk leaves out is behind its cursor.           *)
LEMMA Completes ==
    ASSUME Typed, Listed, NEW items \in Seq(1..made), NEW truncated \in BOOLEAN, NEW count \in Nat,
           Answer(Slice(items, truncated, count)), Counts(truncated, count),
           ~(truncated /\ cursor = Null) => \A n \in Due' : Rank(n)' >= Seen(items)
    PROVE  Done'
<1> DEFINE p == Slice(items, truncated, count)
<1>1. /\ packet' = p /\ shown' = shown \cup Range(p.numbers)
      /\ UNCHANGED <<provider, order, sort, cursor, steady>>
  BY DEF Answer, forge
<1>2. made \in Nat /\ cursor \in Nat \cup {Null}
  BY DueIs
<1>3. /\ (truncated /\ cursor = Null) => p.complete = FALSE
      /\ ~(truncated /\ cursor = Null) => p.complete = ~(truncated \/ Seen(items) < count)
  BY <1>2, SliceShows, ZenonT(60)
<1>4. \A n : Rank(n)' = Rank(n)
  BY <1>1, Same
<1>5. Seen(items) \in Nat /\ Window \in Nat /\ Seen(items) <= Window
  <2>1. Reach(items) <= Window /\ Reach(items) \in Nat /\ Offset \in Nat /\ Seen(items) \in Nat
    BY <1>2, ReachIs
  <2>2. Offset <= Window /\ Window \in Nat
    BY <1>2, Sizes
  <2> QED  BY <2>1, <2>2 DEF Seen
<1> HIDE DEF p
<1> SUFFICES ASSUME p.complete, NEW n \in Due' PROVE FALSE
  BY <1>1 DEF Done
<1>6. ~truncated /\ ~(Seen(items) < count)
  BY <1>3
<1>7. n \in Due /\ Rank(n) >= Seen(items)
  <2>1. n \in Due
    BY <1>1 DEF Due
  <2> QED  BY <1>4, <1>6, <2>1
<1>8. Rank(n) \in Nat
  BY <1>7, DueIs
<1>9. count > Window \/ Rank(n) < count
  BY <1>6, <1>7 DEF Counts
<1> QED  BY <1>5, <1>6, <1>7, <1>8, <1>9

LEMMA DirectShows ==
    ASSUME Typed, Listed, Direct, NEW items \in Seq(1..made), Reads(items),
           NEW truncated \in BOOLEAN, NEW count \in Nat,
           Answer(Slice(items, truncated, count)), ~(truncated /\ cursor = Null)
    PROVE  \A n \in Due' : Rank(n)' >= Seen(items)
<1> DEFINE p == Slice(items, truncated, count)
<1>1. packet' = p /\ shown' = shown \cup Range(p.numbers) /\ UNCHANGED <<provider, order, sort, cursor, steady>>
  BY DEF Answer, forge
<1>2. made \in Nat /\ cursor \in Nat \cup {Null}
  BY DueIs
<1>3. \A k \in (Offset + 1)..Reach(items) : Ordered(items)[k] \in Range(p.numbers)
  BY <1>2, SliceShows, ZenonT(60)
<1>4. \A n : Rank(n)' = Rank(n)
  BY <1>1, Same
<1> HIDE DEF p
<1> SUFFICES ASSUME NEW n \in Due' PROVE Rank(n)' >= Seen(items)
  OBVIOUS
<1>5. n \in Due /\ n \notin Range(p.numbers)
  BY <1>1 DEF Due
<1>6. \A k \in (Offset + 1)..Reach(items) : Ordered(items)[k] # n
  BY <1>3, <1>5
<1> QED  BY <1>4, <1>5, <1>6, DirectSlice

LEMMA DirectAnswers ==
    ASSUME Typed, Listed, Direct, NEW items \in Seq(1..made), Reads(items),
           NEW truncated \in BOOLEAN, NEW count \in Nat,
           Answer(Slice(items, truncated, count))
    PROVE  /\ pc' \in {"between", "finished"}
           /\ pc' = "between" => (Owed(packet.next + Extra)' /\ ~ByNumber')
<1> DEFINE p == Slice(items, truncated, count)
<1>1. /\ pc' \in {"between", "finished"} /\ (pc' = "between" => p.next # Null) /\ packet' = p
      /\ shown' = shown \cup Range(p.numbers) /\ UNCHANGED <<provider, order, sort, cursor, steady>>
  BY DEF Answer, forge
<1>2. made \in Nat /\ cursor \in Nat \cup {Null}
  BY DueIs
<1>3. /\ (truncated /\ cursor = Null) => p.next = Null
      /\ ~(truncated /\ cursor = Null) =>
            p.next = IF truncated \/ Seen(items) < count THEN Seen(items) ELSE Null
  BY <1>2, SliceShows, ZenonT(60)
<1>4. Direct' <=> Direct
  BY <1>1, Same
<1> HIDE DEF p
<1>5. ASSUME pc' = "between" PROVE Owed(packet.next + Extra)' /\ ~ByNumber'
  <2>1. ~ByNumber' /\ Extra' = 0
    BY <1>4 DEF Direct, ByNumber, Extra, OnGitea
  <2>2. packet.next' = Seen(items) /\ ~(truncated /\ cursor = Null)
    BY <1>1, <1>3, <1>5
  <2>3. Seen(items) \in Nat
    BY <1>2, ReachIs
  <2>4. (packet.next + Extra)' = Seen(items)
    BY <2>1, <2>2, <2>3
  <2>5. \A n \in Due' : Rank(n)' >= Seen(items)
    BY <2>2, DirectShows
  <2> QED  BY <2>1, <2>4, <2>5 DEF Owed
<1> QED  BY <1>1, <1>5

(* The page that is there to read.                                          *)
LEMMA ItemsAre ==
    ASSUME Typed, pc \in {"page", "link"}
    PROVE  /\ page \in Nat \ {0} /\ limit \in Nat \ {0}
           /\ Passed(page, limit) \in Nat /\ Passed(page + 1, limit) = Passed(page, limit) + limit
           /\ Items = Part(order, Passed(page, limit), limit)
           /\ HasNext <=> Passed(page, limit) + limit < Len(order)
           /\ ~Short => Len(Items) = limit
           /\ HasNext => Len(Items) = limit
           /\ ~Short => Passed(page, limit) + limit <= Len(order)
           /\ Short => (Passed(page, limit) >= Len(order)
                          \/ Passed(page, limit) + Len(Items) = Len(order))
<1> DEFINE a == Passed(page, limit)
<1>1. /\ page \in Nat \ {0} /\ limit \in Nat \ {0} /\ order \in Seq(1..made)
  <2>1. MaxPages \in Nat /\ PageSize \in Nat
    BY Sizes DEF Typed, CallerTyped
  <2>2. /\ lastPage \in 1..MaxPages /\ page \in 1..lastPage /\ limit \in 1..PageSize
        /\ order \in Seq(1..made)
    BY DEF Typed, ForgeTyped, ListingTyped
  <2> QED  BY <2>1, <2>2
<1>2. a \in Nat /\ page * limit = a + limit /\ Items = Part(order, a, limit)
  BY <1>1, PageIsPart DEF Items
<1>3. Passed(page + 1, limit) = page * limit
  <2>1. (page + 1) - 1 = page
    BY <1>1
  <2> QED  BY <2>1 DEF Passed
<1>4. HasNext <=> a + limit < Len(order)
  BY <1>2 DEF HasNext
<1> HIDE DEF a
<1>5. limit \in Nat /\ Len(order) \in Nat /\ Items \in Seq(1..made) /\ Len(Items) <= limit
      /\ (a >= Len(order) => Len(Items) = 0)
      /\ (a < Len(order) => Len(Items) = Smaller(a + limit, Len(order)) - a)
  <2>1. limit \in Nat
    BY <1>1
  <2> QED  BY <1>1, <1>2, <2>1, PartOf
<1>6. Len(Items) \in Nat /\ limit > 0
  BY <1>1, <1>5
<1>7. a < Len(order) => Len(Items) = IF a + limit < Len(order) THEN limit ELSE Len(order) - a
  BY <1>2, <1>5 DEF Smaller
<1>8. ~Short => Len(Items) = limit
  BY <1>5, <1>6 DEF Short
<1>9. Short => Len(Items) < limit
  BY DEF Short
<1> QED  BY <1>1, <1>2, <1>3, <1>4, <1>5, <1>6, <1>7, <1>8, <1>9 DEF a

(* Reading another page directly.                                           *)
LEMMA DirectReads ==
    ASSUME Typed, Listed, Direct, pc \in {"page", "link"}, Reads(got), Aligned(got, page, limit)
    PROVE  /\ Reads(got \o Items) /\ Reads(Kept)
           /\ Len(Items) = limit => /\ Aligned(got \o Items, page + 1, limit)
                                   /\ Aligned(Kept, page + 1, limit)
<1> DEFINE a == Passed(page, limit)
           t == got \o Items
<1>1. /\ got \in Seq(1..made) /\ Len(got) \in Nat /\ Window \in Nat
      /\ limit \in Nat /\ a \in Nat /\ Passed(page + 1, limit) = a + limit
      /\ t = More(got, order, a, limit)
  <2>1. got \in Seq(1..made) /\ Window \in Nat
    BY Sizes DEF Typed, CallerTyped, ListingTyped
  <2>2. Len(got) \in Nat
    BY <2>1
  <2>3. /\ limit \in Nat \ {0} /\ a \in Nat /\ Passed(page + 1, limit) = a + limit
        /\ Items = Part(order, a, limit)
    BY ItemsAre, Zenon
  <2>4. limit \in Nat
    BY <2>3
  <2> QED  BY <2>1, <2>2, <2>3, <2>4, Zenon DEF More
<1>2. t \in Seq(1..made) /\ Len(t) = Len(got) + Len(Items) /\ Len(Items) \in Nat
  BY KeptTyped
<1>3. /\ Len(got) <= a
      /\ Len(got) < Window => (Len(got) = a \/ Due \subseteq Range(got))
  BY DEF Aligned
<1> HIDE DEF a, t
<1>4. Reads(t)
  BY <1>1, <1>3, ReadsMore
<1>5. Reads(FirstOf(t, Window))
  BY <1>2, <1>4, ReadsFirst
<1>6. Kept = t \/ Kept = FirstOf(t, Window)
  BY DEF Kept, t
<1>7. Range(got) \subseteq Range(t)
  <2>1. \A k \in 1..Len(got) : t[k] = got[k]
    BY <1>1, <1>2, ConcatProperties DEF t
  <2>2. DOMAIN got = 1..Len(got) /\ DOMAIN t = 1..Len(t) /\ \A k \in 1..Len(got) : k \in 1..Len(t)
    BY <1>1, <1>2
  <2> QED  BY <2>1, <2>2 DEF Range
<1>8. /\ FirstOf(t, Window) \in Seq(1..made)
      /\ Len(FirstOf(t, Window)) = IF Window < Len(t) THEN Window ELSE Len(t)
      /\ \A k \in 1..Len(FirstOf(t, Window)) : FirstOf(t, Window)[k] = t[k]
  BY <1>1, <1>2, FirstOfIs DEF Smaller
<1>9. Len(FirstOf(t, Window)) < Window =>
        Len(FirstOf(t, Window)) = Len(t) /\ Range(FirstOf(t, Window)) = Range(t)
  <2> SUFFICES ASSUME Len(FirstOf(t, Window)) < Window
               PROVE  Len(FirstOf(t, Window)) = Len(t) /\ Range(FirstOf(t, Window)) = Range(t)
    OBVIOUS
  <2>1. Len(FirstOf(t, Window)) = Len(t)
    BY <1>1, <1>8
  <2>2. DOMAIN t = 1..Len(t) /\ DOMAIN FirstOf(t, Window) = 1..Len(t)
    BY <1>2, <1>8, <2>1
  <2> QED  BY <1>8, <2>1, <2>2 DEF Range
<1>10. ASSUME Len(Items) = limit
       PROVE  Aligned(t, page + 1, limit) /\ Aligned(FirstOf(t, Window), page + 1, limit)
  <2>1. Len(t) <= a + limit /\ (Len(t) < Window => Len(t) = a + limit \/ Due \subseteq Range(t))
    BY <1>1, <1>2, <1>3, <1>7, <1>10
  <2>2. /\ Len(FirstOf(t, Window)) <= a + limit
        /\ Len(FirstOf(t, Window)) < Window =>
              (Len(FirstOf(t, Window)) = a + limit \/ Due \subseteq Range(FirstOf(t, Window)))
    <3>1. Len(FirstOf(t, Window)) <= a + limit
      <4>1. Len(t) \in Nat /\ Len(FirstOf(t, Window)) \in Nat
        BY <1>2, <1>8
      <4> QED  BY <1>1, <1>8, <2>1, <4>1
    <3>2. Len(FirstOf(t, Window)) < Window => Len(t) < Window
      BY <1>9
    <3> QED  BY <1>9, <2>1, <3>1, <3>2
  <2> QED  BY <1>1, <2>1, <2>2 DEF Aligned
<1> QED  BY <1>4, <1>5, <1>6, <1>10 DEF t

(* The first page.                                                          *)
LEMMA ProbedIs ==
    ASSUME Typed, Listed
    PROVE  /\ Probed \in Seq(1..made) /\ Len(Probed) = Smaller(ProbeLimit, Len(order))
           /\ \A k \in 1..Len(Probed) : Probed[k] = order[k]
           /\ Probed = More(<<>>, order, 0, ProbeLimit)
<1>1. order \in Seq(1..made) /\ ProbeLimit \in Nat \ {0} /\ ProbeLimit \in Nat /\ Len(order) \in Nat
  <2>1. order \in Seq(1..made) /\ Len(order) \in Nat /\ cursor \in Nat \cup {Null}
    BY DueIs, Zenon
  <2>2. ProbeLimit \in 1..PageSize /\ PageSize \in Nat
    BY <2>1, Sizes, Zenon
  <2> QED  BY <2>1, <2>2
<1>2. Probed = Part(order, 0, ProbeLimit)
  <2>1. 1 \in Nat \ {0} /\ Passed(1, ProbeLimit) = 0
    BY <1>1 DEF Passed
  <2>2. PageItems(1, ProbeLimit) = Part(order, Passed(1, ProbeLimit), ProbeLimit)
    BY <1>1, <2>1, PageIsPart
  <2> QED  BY <2>1, <2>2 DEF Probed
<1>3. /\ Part(order, 0, ProbeLimit) \in Seq(1..made) /\ Len(Part(order, 0, ProbeLimit)) <= ProbeLimit
      /\ 0 >= Len(order) => Len(Part(order, 0, ProbeLimit)) = 0
      /\ 0 < Len(order) =>
           Len(Part(order, 0, ProbeLimit)) = Smaller(0 + ProbeLimit, Len(order)) - 0
      /\ \A k \in 1..Len(Part(order, 0, ProbeLimit)) :
            0 + k \in 1..Len(order) /\ Part(order, 0, ProbeLimit)[k] = order[0 + k]
  BY <1>1, PartOf
<1> DEFINE P == Part(order, 0, ProbeLimit)
<1>4. P \in Seq(1..made) /\ \A k \in 1..Len(P) : P[k] = order[k]
  <2>1. \A k \in 1..Len(P) : k \in Nat /\ 0 + k = k
    BY <1>3
  <2> QED  BY <1>3, <2>1
<1>5. Len(P) = Smaller(ProbeLimit, Len(order))
  <2>1. 0 + ProbeLimit = ProbeLimit /\ \A x \in Nat : x - 0 = x
    BY <1>1
  <2>2. Smaller(ProbeLimit, Len(order)) \in Nat
    BY <1>1 DEF Smaller
  <2>3. CASE 0 < Len(order)
    BY <1>3, <2>1, <2>2, <2>3
  <2>4. CASE Len(order) = 0
    BY <1>1, <1>3, <2>4 DEF Smaller
  <2> QED  BY <1>1, <2>3, <2>4
<1>6. P = <<>> \o P
  <2> HIDE DEF P
  <2> QED  BY <1>4
<1> QED  BY <1>2, <1>4, <1>5, <1>6 DEF More, P

LEMMA ProbedReads ==
    ASSUME Typed, Listed, Direct, Reads(got), Len(got) = 0
    PROVE  Reads(Probed) /\ Reads(<<>>)
<1>1. got \in Seq(1..made) /\ <<>> \in Seq(1..made) /\ Len(<<>>) = 0 /\ ProbeLimit \in Nat /\ 0 \in Nat
  BY DueIs, Sizes DEF Typed, ListingTyped
<1>2. Reads(<<>>)
  BY <1>1, ReadsNone
<1>3. Reads(More(<<>>, order, 0, ProbeLimit))
  <2>1. Len(<<>>) <= 0 /\ (Len(<<>>) < Window => (Len(<<>>) = 0 \/ Due \subseteq Range(<<>>)))
    BY <1>1
  <2> DEFINE none == <<>>
  <2>2. none \in Seq(1..made) /\ Reads(none) /\ Len(none) <= 0
        /\ (Len(none) < Window => (Len(none) = 0 \/ Due \subseteq Range(none)))
    BY <1>1, <1>2, <2>1
  <2> HIDE DEF none
  <2>3. Reads(More(none, order, 0, ProbeLimit))
    BY <1>1, <2>2, ReadsMore
  <2> QED  BY <2>3 DEF none
<1> QED  BY <1>2, <1>3, ProbedIs

(* A direct walk goes on, or ends.                                          *)
LEMMA DirectGoesOn ==
    ASSUME Direct, UNCHANGED <<provider, order, sort, cursor, steady, shown>>,
           pc' \in Calling, Reads(got'), pc' \in {"page", "link"} => Aligned(got', page', limit')
    PROVE  Safe'
<1>1. Direct' /\ Due' = Due /\ Reads(got)' /\ Window' = Window
  BY Same, SameReads
<1>2. Aligned(got', page', limit') => Aligned(got, page, limit)'
  BY <1>1 DEF Aligned, Passed
<1>3. pc' \notin {"between", "finished"}
  BY DEF Calling
<1> QED  BY <1>1, <1>2, <1>3 DEF Safe, DirectCall, TurnedCall, Done

LEMMA DirectEnds ==
    ASSUME Typed, Listed, Direct, NEW items \in Seq(1..made), Reads(items),
           NEW truncated \in BOOLEAN, NEW count \in Nat,
           Answer(Slice(items, truncated, count)), Counts(truncated, count)
    PROVE  Safe'
<1>1. /\ pc' \in {"between", "finished"}
      /\ pc' = "between" => (Owed(packet.next + Extra)' /\ ~ByNumber')
  BY DirectAnswers
<1>2. pc' \notin Calling
  BY <1>1 DEF Calling
<1>3. Done'
  BY DirectShows, Completes
<1> QED  BY <1>1, <1>2, <1>3 DEF Safe, Calling

(* The count of an undisturbed walk.                                        *)
LEMMA CountIs ==
    ASSUME Typed, Listed, Covered, ~disturbed, pc \in Calling \ {"probe"},
           NEW items \in Seq(1..made), NEW read \in Nat, NEW truncated \in BOOLEAN,
           Counted(items, read, truncated)
    PROVE  /\ total # Null => total \in Nat /\ Counts(truncated \/ read < total, total)
           /\ (total = Null /\ provider = "github") =>
                 /\ Smaller(Len(items), Window) \in Nat
                 /\ Counts(truncated, Smaller(Len(items), Window))
           /\ (total = Null /\ provider # "github") => Counts(truncated, read)
<1>1. /\ total \in Nat \cup {Null} /\ Len(order) \in Nat /\ Window \in Nat /\ Len(items) \in Nat
      /\ \A n \in Due : Rank(n) \in Nat /\ Rank(n) < Len(order)
  <2>1. total \in Nat \cup {Null} /\ Len(order) \in Nat /\ Window \in Nat
    BY DueIs, Sizes DEF Typed, ListingTyped
  <2>2. \A n \in Due : Rank(n) \in 0..(Len(order) - 1)
    BY DueIs
  <2> QED  BY <2>1, <2>2
<1>2. /\ provider = "github" => \A n \in Due : Rank(n) < Most
      /\ (provider # "github" /\ total # Null) => total > Window
  BY DEF Covered
<1>3. CASE total # Null
  BY <1>1, <1>2, <1>3 DEF Counts, Most
<1>4. CASE total = Null /\ provider = "github"
  <2>1. \A n \in Due : Rank(n) < Window
    BY <1>2, <1>4 DEF Most
  <2>2. Smaller(Len(items), Window) \in Nat
    BY <1>1 DEF Smaller
  <2>3. ASSUME ~truncated, NEW n \in Due PROVE Rank(n) < Smaller(Len(items), Window)
    <3>1. Len(items) >= Len(order)
      BY <1>4, <2>3 DEF Counted
    <3>2. Rank(n) < Len(items) /\ Rank(n) < Window
      BY <1>1, <2>1, <2>3, <3>1
    <3> QED  BY <3>2 DEF Smaller
  <2> QED  BY <1>4, <2>2, <2>3 DEF Counts
<1>5. CASE total = Null /\ provider # "github"
  <2>1. ASSUME ~truncated, NEW n \in Due PROVE Rank(n) < read
    <3>1. read >= Len(order)
      BY <1>5, <2>1 DEF Counted
    <3> QED  BY <1>1, <2>1, <3>1
  <2> QED  BY <1>5, <2>1 DEF Counts
<1> QED  BY <1>3, <1>4, <1>5

LEMMA DirectFinishes ==
    ASSUME Typed, Listed, Covered, ~disturbed, pc \in Calling \ {"probe"}, Direct,
           NEW items \in Seq(1..made), Reads(items),
           NEW read \in Nat, NEW truncated \in BOOLEAN, FinishWalk(items, read, truncated),
           Counted(items, read, truncated)
    PROVE  Safe'
<1>1. /\ total # Null => total \in Nat /\ Counts(truncated \/ read < total, total)
      /\ (total = Null /\ provider = "github") =>
            /\ Smaller(Len(items), Window) \in Nat
            /\ Counts(truncated, Smaller(Len(items), Window))
      /\ (total = Null /\ provider # "github") => Counts(truncated, read)
  BY CountIs
<1>2. CASE total # Null
  <2>1. (truncated \/ read < total) \in BOOLEAN /\ total \in Nat
    BY <1>1, <1>2
  <2>2. Answer(Slice(items, truncated \/ read < total, total))
    BY <1>2 DEF FinishWalk, Emit
  <2> QED  BY <1>1, <1>2, <2>1, <2>2, DirectEnds
<1>3. CASE total = Null /\ provider = "github"
  <2>1. Answer(Slice(items, truncated, Smaller(Len(items), Window)))
    BY <1>3 DEF FinishWalk, Emit
  <2> QED  BY <1>1, <1>3, <2>1, DirectEnds
<1>4. CASE total = Null /\ provider # "github"
  <2>1. Answer(Slice(items, truncated, read))
    BY <1>4 DEF FinishWalk, Emit
  <2> QED  BY <1>1, <1>4, <2>1, DirectEnds
<1> QED  BY <1>2, <1>3, <1>4

LEMMA FailSafe == WalkFails => Safe'
<1> SUFFICES ASSUME WalkFails PROVE Safe'
  OBVIOUS
<1>1. pc' = "finished" /\ packet.complete' = FALSE
  BY DEF WalkFails, Emit, Answer, ErrorPacket, Bare
<1> QED  BY <1>1 DEF Safe, Calling, Done

Begun == (pc = "idle" => cursor = Null) /\ (pc = "tail" => AtTail)

(* A step that leaves the walk undisturbed found it so.                     *)
LEMMA FinishKeeps ==
    ASSUME NEW items, NEW read, NEW truncated, FinishWalk(items, read, truncated)
    PROVE  disturbed' = disturbed
BY DEF FinishWalk, Emit

LEMMA ProbeBegins ==
    ASSUME Typed, Probe
    PROVE  pc \in {"probe", "pulls"} /\ (disturbed => disturbed')
<1>1. disturbed \in BOOLEAN
  BY DEF Typed, HistoryTyped
<1>2. CASE ProbeUnusable \/ ProbeTooLong \/ ProbeTail \/ ProbeSuffices \/ ProbeSeeds \/ ListIssues
  BY <1>1, <1>2 DEF ProbeUnusable, ProbeTooLong, ProbeTail, ProbeSuffices, ProbeSeeds, ListIssues,
                    AskForge, TrustedTotal, WrongEnd, history
<1>3. CASE SearchTotal \/ SearchLost \/ PullsTooMany \/ PullsSuffice \/ PullsSeedLink \/ PullsSeedOffset
  BY <1>1, <1>3 DEF SearchTotal, SearchLost, PullsTooMany, PullsSuffice, PullsSeedLink,
                    PullsSeedOffset, Emit, history
<1>4. CASE PullsAreAll
  BY <1>1, <1>4, FinishKeeps DEF PullsAreAll
<1> QED  BY <1>2, <1>3, <1>4 DEF Probe

LEMMA WalkBegins ==
    ASSUME Typed, Walk
    PROVE  pc \in {"tail", "page", "link", "confirm"} /\ (disturbed => disturbed')
<1>1. disturbed \in BOOLEAN
  BY DEF Typed, HistoryTyped
<1>2. CASE ReadTail \/ TailFails \/ TailFailsAgain \/ ReadOn \/ LastPage \/ LastIssuePage \/ LinkOn
           \/ BackOff \/ WalkFails
  BY <1>1, <1>2 DEF ReadTail, TailFails, TailFailsAgain, ReadOn, LastPage, LastIssuePage, LinkOn,
                    BackOff, WalkFails, Emit, history
<1>3. CASE EndOfList
  BY <1>3, FinishKeeps DEF EndOfList
<1>4. CASE LastTailPage
  BY <1>4, FinishKeeps DEF LastTailPage
<1>5. CASE LinkEnd
  BY <1>5, FinishKeeps DEF LinkEnd
<1>6. CASE ConfirmEnd
  <2>1. FinishWalk(got, walked, PageItems(lastPage + 1, 1) # <<>>) /\ pc = "confirm"
    BY <1>6 DEF ConfirmEnd
  <2> QED  BY <2>1, FinishKeeps
<1> QED  BY <1>2, <1>3, <1>4, <1>5, <1>6 DEF Walk

LEMMA DirectProbe ==
    ASSUME Typed, Listed, Safe, Covered, Direct, Probe
    PROVE  Safe'
<1> SUFFICES ASSUME ~disturbed' PROVE Safe'
  BY DEF Safe
<1>1. ~disturbed /\ pc \in {"probe", "pulls"} /\ pc \in Calling
  BY ProbeBegins DEF Calling
<1>2. Reads(got) /\ Len(got) = 0
  BY <1>1 DEF Safe, DirectCall, Typed, GotWhileReading
<1>3. /\ Reads(Probed) /\ Reads(<<>>)
      /\ Probed \in Seq(1..made) /\ Len(Probed) = Smaller(ProbeLimit, Len(order))
      /\ \A k \in 1..Len(Probed) : Probed[k] = order[k]
  BY <1>2, ProbedReads, ProbedIs
<1>4. /\ PageSize \in Nat /\ PageSize >= 1 /\ Window \in Nat /\ ProbeLimit \in Nat
      /\ ProbeLimit <= Window /\ ProbeLimit <= PageSize /\ LinkPageSize \in Nat /\ made \in Nat
      /\ Len(order) \in Nat /\ order \in Seq(1..made) /\ ProbeLimit = IF Window < PageSize THEN Window ELSE PageSize
      /\ <<>> \in Seq(1..made) /\ total \in Nat \cup {Null}
  <2>1. ProbeLimit = IF Window < PageSize THEN Window ELSE PageSize
    BY DEF ProbeLimit, Smaller
  <2>2. <<>> \in Seq(1..made) /\ total \in Nat \cup {Null}
    BY DEF Typed, ListingTyped
  <2>3. /\ PageSize \in Nat /\ PageSize >= 1 /\ Window \in Nat /\ ProbeLimit \in 1..PageSize
        /\ ProbeLimit <= Window /\ LinkPageSize \in 1..PageSize
    BY DueIs, Sizes
  <2>4. made \in Nat /\ Len(order) \in Nat /\ order \in Seq(1..made)
    BY DueIs
  <2> QED  BY <2>1, <2>2, <2>3, <2>4
<1>5. ASSUME NEW where \in {"page", "link"}, NEW count, NEW l \in Nat, NEW last,
             StartWalk(where, <<>>, count, 1, l, last)
      PROVE  Safe'
  <2>1. /\ UNCHANGED <<provider, order, sort, cursor, steady, shown>> /\ pc' = where /\ pc' \in Calling
        /\ got' = <<>> /\ page' = 1 /\ limit' = l
    BY <1>5 DEF StartWalk, forge, Calling
  <2>2. Passed(1, l) = 0 /\ Len(<<>>) = 0
    BY <1>5 DEF Passed
  <2>3. Aligned(<<>>, 1, l)
    BY <2>2 DEF Aligned
  <2> QED  BY <1>3, <2>1, <2>3, DirectGoesOn
<1>6. ASSUME NEW where \in {"page", "link"}, NEW count, NEW l \in Nat, NEW last,
             StartWalk(where, Probed, count, 2, l, last), Aligned(Probed, 2, l)
      PROVE  Safe'
  <2>1. /\ UNCHANGED <<provider, order, sort, cursor, steady, shown>> /\ pc' = where /\ pc' \in Calling
        /\ got' = Probed /\ page' = 2 /\ limit' = l
    BY <1>6 DEF StartWalk, forge, Calling
  <2> QED  BY <1>3, <1>6, <2>1, DirectGoesOn
<1>7. \A l \in Nat : Passed(2, l) = l
  BY DEF Passed
<1>8. CASE ProbeUnusable
  BY <1>4, <1>5, <1>8 DEF ProbeUnusable
<1>22. (\A count : Counts(TRUE, count)) /\ Counts(FALSE, Len(order))
  <2>1. \A n \in Due : Rank(n) < Len(order)
    <3> SUFFICES ASSUME NEW n \in Due PROVE Rank(n) < Len(order)
      OBVIOUS
    <3>1. Rank(n) \in 0..(Len(order) - 1)
      BY DueIs
    <3> QED  BY <1>4, <3>1
  <2> QED  BY <2>1 DEF Counts
<1>9. CASE ProbeTooLong
  BY <1>3, <1>4, <1>9, <1>22, DirectEnds DEF ProbeTooLong
<1>10. CASE ProbeTail
  BY <1>10 DEF ProbeTail, Direct, OnGitea
<1>11. CASE ProbeSuffices
  BY <1>3, <1>4, <1>11, <1>22, DirectEnds DEF ProbeSuffices
<1>12. CASE ProbeSeeds
  <2>1. StartWalk("page", Probed, Len(order), 2, PageSize, MaxPages) /\ Len(order) > Window
    BY <1>12 DEF ProbeSeeds
  <2>2. Len(Probed) = ProbeLimit
    BY <1>3, <1>4, <2>1 DEF Smaller
  <2>3. Len(Probed) <= PageSize /\ (Len(Probed) < Window => Len(Probed) = PageSize)
    BY <1>4, <2>2
  <2>4. Aligned(Probed, 2, PageSize)
    BY <1>4, <1>7, <2>3 DEF Aligned
  <2> QED  BY <1>4, <1>6, <2>1, <2>4
<1>13. CASE SearchTotal
  <2>1. /\ UNCHANGED <<provider, order, sort, cursor, steady, shown>> /\ pc' = "pulls" /\ got' = got
        /\ pc' \in Calling
    BY <1>13 DEF SearchTotal, forge, history, Calling
  <2> QED  BY <1>2, <2>1, DirectGoesOn
<1>14. CASE SearchLost
  BY <1>4, <1>5, <1>14 DEF SearchLost
<1>15. pc = "pulls" => total \in Nat /\ total # Null /\ Counts(FALSE, total)
  <2> SUFFICES ASSUME pc = "pulls" PROVE total \in Nat /\ total # Null /\ Counts(FALSE, total)
    OBVIOUS
  <2>1. total \in Nat /\ provider = "github"
    BY <1>4 DEF Typed, TotalsAreThere
  <2>2. total # Null
    BY <2>1, NullAssumption
  <2>3. \A n \in Due : Rank(n) < total
    BY <1>1, <2>1, <2>2 DEF Covered, Most
  <2> QED  BY <2>1, <2>2, <2>3 DEF Counts
<1>16. CASE PullsTooMany
  BY <1>3, <1>15, <1>16, <1>22, DirectEnds DEF PullsTooMany, Emit
<1>17. CASE PullsSuffice
  BY <1>3, <1>15, <1>17, DirectEnds DEF PullsSuffice, Emit
<1>18. CASE PullsSeedLink
  <2>1. StartWalk("link", Probed, total, 2, ProbeLimit, MaxPages) /\ Len(order) > ProbeLimit
    BY <1>18 DEF PullsSeedLink
  <2>2. Len(Probed) = ProbeLimit
    BY <1>3, <1>4, <2>1 DEF Smaller
  <2>3. Aligned(Probed, 2, ProbeLimit)
    BY <1>4, <1>7, <2>2 DEF Aligned
  <2> QED  BY <1>4, <1>6, <2>1, <2>3
<1>19. CASE PullsSeedOffset
  <2>1. StartWalk("page", Probed, total, 2, PageSize, MaxPages) /\ Len(order) <= ProbeLimit
    BY <1>19 DEF PullsSeedOffset
  <2>2. Len(Probed) = Len(order) /\ Len(Probed) <= PageSize
    BY <1>3, <1>4, <2>1 DEF Smaller
  <2>3. Due \subseteq Range(Probed)
    <3>1. Open \subseteq Range(Probed)
      <4>1. DOMAIN order = 1..Len(order) /\ DOMAIN Probed = 1..Len(order)
        BY <1>3, <1>4, <2>2
      <4> QED  BY <1>3, <2>2, <4>1 DEF Open, Range
    <3> QED  BY <3>1, DueIs
  <2>4. Aligned(Probed, 2, PageSize)
    BY <1>4, <1>7, <2>2, <2>3 DEF Aligned
  <2> QED  BY <1>4, <1>6, <2>1, <2>4
<1>20. CASE PullsAreAll
  <2>1. FinishWalk(Probed, Len(Probed), FALSE) /\ pc = "pulls"
    BY <1>20 DEF PullsAreAll
  <2>2. Len(Probed) \in Nat
    BY <1>3
  <2>3. Counted(Probed, Len(Probed), FALSE)
    BY <1>15, <2>1 DEF Counted
  <2> QED  BY <1>1, <1>3, <2>1, <2>2, <2>3, DirectFinishes
<1>21. CASE ListIssues
  BY <1>4, <1>5, <1>21 DEF ListIssues
<1> QED  BY <1>8, <1>9, <1>10, <1>11, <1>12, <1>13, <1>14, <1>16, <1>17, <1>18, <1>19, <1>20, <1>21
         DEF Probe

(* What a walk without a total has counted when it ends.                    *)
LEMMA CountedIs ==
    ASSUME Typed, Listed, Covered, ~disturbed, pc \in {"page", "link", "confirm"}
    PROVE  /\ (pc = "page" /\ Short) => Counted(Kept, walked + Len(Items), FALSE)
           /\ (pc = "link" /\ ~HasNext) => Counted(got \o Items, walked + Len(Items), FALSE)
           /\ (pc = "confirm" /\ PageItems(lastPage + 1, 1) = <<>>) => Counted(got, walked, FALSE)
           /\ \A items, read : Counted(items, read, TRUE)
<1>1. /\ Len(order) \in Nat /\ order \in Seq(1..made) /\ made \in Nat /\ Len(Items) \in Nat
      /\ Items \in Seq(1..made) /\ got \in Seq(1..made) /\ walked \in Nat
      /\ lastPage \in Nat \ {0}
  <2>1. MaxPages \in Nat
    BY SizeAssumption
  <2>2. got \in Seq(1..made) /\ walked \in Nat /\ lastPage \in 1..MaxPages
    BY DEF Typed, ListingTyped
  <2>3. lastPage \in Nat \ {0}
    BY <2>1, <2>2
  <2> QED  BY <2>2, <2>3, DueIs, KeptTyped
<1>2. ASSUME pc = "page", Short PROVE Counted(Kept, walked + Len(Items), FALSE)
  <2> SUFFICES ASSUME total = Null
               PROVE  provider # "github" /\ walked + Len(Items) >= Len(order)
    BY DEF Counted
  <2>1. provider # "github" /\ walked = Passed(page, limit)
    BY <1>2 DEF Covered
  <2>2. walked >= Len(order) \/ walked + Len(Items) = Len(order)
    BY <1>2, <2>1, ItemsAre
  <2> QED  BY <1>1, <2>1, <2>2
<1>3. ASSUME pc = "link", ~HasNext PROVE Counted(got \o Items, walked + Len(Items), FALSE)
  <2> SUFFICES ASSUME total = Null
               PROVE  provider = "github" /\ Len(got \o Items) >= Len(order)
    BY DEF Counted
  <2>1. provider = "github" /\ Len(got) = Passed(page, limit)
    BY <1>3 DEF Covered, Typed, TotalsAreThere
  <2>2. Short => (Len(got) >= Len(order) \/ Len(got) + Len(Items) = Len(order))
    BY <1>3, <2>1, ItemsAre
  <2>3. ~Short => Len(got) + Len(Items) >= Len(order)
    <3>1. ~Short => Len(Items) = limit /\ ~(Len(got) + limit < Len(order)) /\ limit \in Nat
      BY <1>3, <2>1, ItemsAre
    <3>2. Len(got) \in Nat
      BY <1>1
    <3> QED  BY <1>1, <3>1, <3>2
  <2>4. Len(got \o Items) = Len(got) + Len(Items) /\ Len(got) \in Nat
    BY <1>1
  <2> QED  BY <1>1, <2>1, <2>2, <2>3, <2>4
<1>4. ASSUME pc = "confirm", PageItems(lastPage + 1, 1) = <<>> PROVE Counted(got, walked, FALSE)
  <2> SUFFICES ASSUME total = Null
               PROVE  provider # "github" /\ walked >= Len(order)
    BY DEF Counted
  <2>1. provider # "github" /\ walked >= lastPage
    BY <1>4 DEF Covered
  <2>2. ~(lastPage < Len(order))
    <3> DEFINE l == lastPage
               P == Part(order, l, 1)
    <3>1. l \in Nat /\ l + 1 \in Nat \ {0} /\ 1 \in Nat \ {0} /\ 1 \in Nat
          /\ Passed(l + 1, 1) = l
      BY <1>1 DEF Passed
    <3>2. PageItems(l + 1, 1) = P
      BY <1>1, <3>1, PageIsPart
    <3>3. l < Len(order) => Len(P) = Smaller(l + 1, Len(order)) - l
      BY <1>1, <3>1, PartOf
    <3>4. Len(P) = 0
      BY <1>4, <3>2
    <3> HIDE DEF l, P
    <3>5. l < Len(order) => Smaller(l + 1, Len(order)) = l + 1
      BY <1>1, <3>1 DEF Smaller
    <3>6. (l + 1) - l = 1
      BY <3>1
    <3>7. ~(l < Len(order))
      BY <3>3, <3>4, <3>5, <3>6
    <3> QED  BY <3>7 DEF l
  <2> QED  BY <1>1, <2>1, <2>2
<1>5. \A items, read : Counted(items, read, TRUE)
  BY DEF Counted
<1> QED  BY <1>2, <1>3, <1>4, <1>5

LEMMA DirectWalk ==
    ASSUME Typed, Listed, Safe, Begun, Covered, Direct, Walk
    PROVE  Safe'
<1> SUFFICES ASSUME ~disturbed' PROVE Safe'
  BY DEF Safe
<1>1. ~disturbed /\ pc \in {"tail", "page", "link", "confirm"} /\ pc \in Calling
  BY WalkBegins DEF Calling
<1>2. Reads(got) /\ (pc \in {"page", "link"} => Aligned(got, page, limit))
  BY <1>1 DEF Safe, DirectCall
<1>3. pc # "tail"
  BY DEF Begun, AtTail, Direct, OnGitea
<1>4. /\ made \in Nat /\ got \in Seq(1..made) /\ Len(got) \in Nat /\ walked \in Nat
      /\ PageSize \in Nat /\ limit \in 1..PageSize
  BY DueIs, Sizes DEF Typed, ListingTyped
<1>5. ASSUME pc \in {"page", "link"}
      PROVE  /\ Reads(got \o Items) /\ Reads(Kept)
             /\ Kept \in Seq(1..made) /\ got \o Items \in Seq(1..made)
             /\ walked + Len(Items) \in Nat
             /\ Len(Items) = limit => /\ Aligned(got \o Items, page + 1, limit)
                                      /\ Aligned(Kept, page + 1, limit)
  BY <1>2, <1>5, DirectReads, KeptTyped
<1>6. CASE ReadTail \/ TailFails \/ TailFailsAgain
  BY <1>3, <1>6 DEF ReadTail, TailFails, TailFailsAgain
<1>7. CASE ReadOn
  <2>1. /\ UNCHANGED <<provider, order, sort, cursor, steady, shown>> /\ pc = "page" /\ pc' = "page"
        /\ pc' \in Calling /\ got' = Kept /\ page' = page + 1 /\ limit' = limit /\ ~Short
    BY <1>7 DEF ReadOn, forge, history, Calling
  <2>2. Len(Items) = limit
    BY <2>1, ItemsAre
  <2> QED  BY <1>5, <2>1, <2>2, DirectGoesOn
<1>17. /\ (pc = "page" /\ Short) => Counted(Kept, walked + Len(Items), FALSE)
       /\ (pc = "link" /\ ~HasNext) => Counted(got \o Items, walked + Len(Items), FALSE)
       /\ (pc = "confirm" /\ PageItems(lastPage + 1, 1) = <<>>) => Counted(got, walked, FALSE)
       /\ \A items, read : Counted(items, read, TRUE)
  BY <1>1, <1>3, CountedIs
<1>8. CASE EndOfList
  <2>1. pc = "page" /\ Short /\ FinishWalk(Kept, walked + Len(Items), FALSE)
    BY <1>8 DEF EndOfList
  <2> QED  BY <1>1, <1>5, <1>17, <2>1, DirectFinishes
<1>9. CASE LastPage
  <2>1. /\ UNCHANGED <<provider, order, sort, cursor, steady, shown>> /\ pc = "page" /\ pc' = "confirm"
        /\ pc' \in Calling /\ got' = Kept
    BY <1>9 DEF LastPage, forge, history, Calling
  <2> QED  BY <1>5, <2>1, DirectGoesOn
<1>10. CASE LastIssuePage
  <2>1. Answer(Slice(Kept, TRUE, walked + Len(Items))) /\ pc = "page"
    BY <1>10 DEF LastIssuePage
  <2>2. Counts(TRUE, walked + Len(Items))
    BY DEF Counts
  <2> QED  BY <1>5, <2>1, <2>2, DirectEnds
<1>11. CASE LastTailPage
  <2>1. pc = "page" /\ FinishWalk(Kept, walked + Len(Items), TRUE)
    BY <1>11 DEF LastTailPage
  <2> QED  BY <1>1, <1>5, <1>17, <2>1, DirectFinishes
<1>12. CASE ConfirmEnd
  <2> DEFINE more == PageItems(lastPage + 1, 1) # <<>>
  <2>1. FinishWalk(got, walked, more) /\ pc = "confirm"
    BY <1>12 DEF ConfirmEnd
  <2>2. more \in BOOLEAN /\ (~more => Counted(got, walked, FALSE))
    BY <1>17, <2>1
  <2> HIDE DEF more
  <2>3. Counted(got, walked, more)
    BY <1>17, <2>2
  <2> QED  BY <1>1, <1>2, <1>4, <2>1, <2>2, <2>3, DirectFinishes
<1>13. CASE LinkOn
  <2>1. /\ UNCHANGED <<provider, order, sort, cursor, steady, shown>> /\ pc = "link" /\ pc' = "link"
        /\ pc' \in Calling /\ got' = got \o Items /\ page' = page + 1 /\ limit' = limit /\ HasNext
    BY <1>13 DEF LinkOn, forge, history, Calling
  <2>2. Len(Items) = limit
    BY <2>1, ItemsAre
  <2> QED  BY <1>5, <2>1, <2>2, DirectGoesOn
<1>14. CASE LinkEnd
  <2>1. FinishWalk(got \o Items, walked + Len(Items), HasNext) /\ HasNext \in BOOLEAN /\ pc = "link"
    BY <1>14 DEF LinkEnd, HasNext
  <2>2. Counted(got \o Items, walked + Len(Items), HasNext)
    BY <1>17, <2>1
  <2> QED  BY <1>1, <1>5, <2>1, <2>2, DirectFinishes
<1>15. CASE BackOff
  <2>1. /\ UNCHANGED <<provider, order, sort, cursor, steady, shown>> /\ pc \in {"page", "link"} /\ pc' = pc
        /\ pc' \in Calling /\ got' = got /\ page' = page /\ limit' = limit \div 2 /\ ~(page > 1)
    BY <1>15 DEF BackOff, forge, Calling
  <2>2. page = 1 /\ limit' \in Nat
    <3>1. page \in Nat \ {0}
      BY <2>1, ItemsAre
    <3> QED  BY <1>4, <2>1, <3>1
  <2>3. \A l \in Nat : Passed(1, l) = 0
    BY DEF Passed
  <2>4. Len(got) = 0
    <3>1. Len(got) <= Passed(1, limit) /\ limit \in Nat
      BY <1>2, <1>4, <2>1, <2>2 DEF Aligned
    <3> QED  BY <1>4, <2>3, <3>1
  <2>5. Aligned(got, 1, limit')
    BY <2>2, <2>3, <2>4 DEF Aligned
  <2> QED  BY <1>2, <2>1, <2>2, <2>5, DirectGoesOn
<1>16. CASE WalkFails
  BY <1>16, FailSafe
<1> QED  BY <1>6, <1>7, <1>8, <1>9, <1>10, <1>11, <1>12, <1>13, <1>14, <1>15, <1>16 DEF Walk

(* A call that begins has read nothing.                                     *)
LEMMA SameRanks ==
    ASSUME UNCHANGED <<provider, sort, order>>
    PROVE  /\ \A n : Rank(n)' = Rank(n)
           /\ (Direct' <=> Direct) /\ (ByNumber' <=> ByNumber) /\ Extra' = Extra
           /\ (AtTail' <=> AtTail)
<1>1. (Direct' <=> Direct) /\ (ByNumber' <=> ByNumber) /\ Extra' = Extra /\ (AtTail' <=> AtTail)
  BY DEF Direct, OnGitea, ByNumber, Extra, AtTail
<1>2. ASSUME NEW n PROVE Rank(n)' = Rank(n)
  <2>1. Place(n)' = Place(n)
    BY DEF Place
  <2> QED  BY <1>1, <2>1 DEF Rank
<1> QED  BY <1>1, <1>2

LEMMA BeginReads ==
    ASSUME Len(got') = 0, Window' \in Nat, \A n \in Due' : Rank(n)' \in Nat, Owed(Offset)'
    PROVE  Reads(got)'
<1>1. Reach(got)' = 0
  BY DEF Reach, Smaller
<1>2. Within(got)' = {} /\ \A k \in 1..Reach(got)' : FALSE
  BY <1>1 DEF Within
<1>3. \A n \in Due' : Unread(got, n)'
  BY <1>1, <1>2 DEF Unread, Far, Owed
<1> QED  BY <1>2, <1>3 DEF Reads

LEMMA ExtraIs == order \in Seq(1..made) => Extra \in Nat
<1>1. CompliantMax \in Nat
  BY SizeAssumption DEF CompliantMax
<1> HIDE DEF CompliantMax
<1> QED  BY <1>1 DEF Extra

LEMMA CallSafe ==
    ASSUME Typed, Listed, Safe, Begun, FirstCall \/ NextCall
    PROVE  Safe'
<1> SUFFICES ASSUME ~disturbed' PROVE Safe'
  BY DEF Safe
<1>1. /\ UNCHANGED <<provider, sort, order, got, shown, disturbed>> /\ pc' = "probe" /\ Limit \in Nat
  <2>1. Limit \in Nat
    BY SizeAssumption
  <2> QED  BY <2>1 DEF FirstCall, NextCall, forge, listing, history
<1>2. /\ \A n : Rank(n)' = Rank(n)
      /\ (Direct' <=> Direct) /\ (ByNumber' <=> ByNumber) /\ Extra' = Extra
  BY <1>1, SameRanks
<1>3. Len(got') = 0
  <2>1. pc \in {"idle", "between"}
    BY DEF FirstCall, NextCall
  <2> QED  BY <1>1, <2>1 DEF Typed, GotWhileReading
<1>4. Extra \in Nat
  BY DueIs, ExtraIs
<1>5. \A n \in Open : Rank(n) \in Nat
  <2> SUFFICES ASSUME NEW n \in Open PROVE Rank(n) \in Nat
    OBVIOUS
  <2>1. Rank(n) \in 0..(Len(order) - 1)
    BY AheadIsRank
  <2> QED  BY <2>1
<1>6. ASSUME Due' \subseteq Open, Owed(Offset)', Offset' \in Nat,
             cursor' # Null => (Owed(Offset + Extra)' /\ (ByNumber /\ Due' # {} => Limit >= PageSize))
      PROVE  Safe'
  <2>1. Window' \in Nat
    <3>1. Offset' \in Nat /\ Limit \in Nat
      BY <1>1, <1>6
    <3>2. Window' = Offset' + Limit
      BY DEF Window
    <3>3. \A x, y \in Nat : x + y \in Nat
      OBVIOUS
    <3> QED  BY <3>1, <3>2, <3>3, Zenon
  <2>2. \A n \in Due' : Rank(n)' \in Nat
    BY <1>2, <1>5, <1>6
  <2>3. Reads(got)'
    BY <1>3, <1>6, <2>1, <2>2, BeginReads
  <2>4. DirectCall'
    BY <1>1, <2>3 DEF DirectCall
  <2>5. TurnedCall'
    BY <1>1, <1>2, <1>6 DEF TurnedCall
  <2> QED  BY <1>1, <2>4, <2>5 DEF Safe, Done
<1>7. CASE FirstCall
  <2>1. steady' = Open /\ cursor' = Null
    BY <1>7 DEF FirstCall, Begun
  <2>2. Due' \subseteq Open /\ Offset' = 0
    BY <2>1 DEF Due, Offset
  <2>3. Owed(Offset)'
    BY <1>2, <1>5, <2>2 DEF Owed
  <2> QED  BY <1>6, <2>1, <2>2, <2>3
<1>8. CASE NextCall
  <2>1. cursor' = packet.next /\ packet.next \in Nat /\ steady' = steady /\ pc = "between"
    BY <1>8 DEF NextCall, history, Typed, CallerTyped, Packets
  <2>2. Due' = Due /\ Offset' = packet.next
    BY <1>1, <2>1, NullAssumption DEF Due, Offset
  <2>3. Owed(packet.next + Extra) /\ (ByNumber /\ Due # {} => Limit >= PageSize)
    BY <1>1, <2>1 DEF Safe
  <2>4. \A n \in Due : Rank(n) >= packet.next + Extra /\ Rank(n) \in Nat /\ n \in Open
    BY <2>3, DueIs, <1>5 DEF Owed
  <2>5. \A n \in Due' : Rank(n)' >= Offset' /\ Rank(n)' >= Offset' + Extra'
    BY <1>2, <1>4, <2>1, <2>2, <2>4
  <2>6. Owed(Offset)' /\ Owed(Offset + Extra)'
    BY <2>5 DEF Owed
  <2>7. Due' \subseteq Open
    BY <2>2, DueIs
  <2> QED  BY <1>2, <1>6, <2>1, <2>2, <2>3, <2>6, <2>7
<1> QED  BY <1>7, <1>8

(* What was read stays read while the list moves behind it.                 *)
LEMMA ReadsKept ==
    ASSUME Typed, Listed, Reads(got), UNCHANGED <<sort, cursor, got>>,
           \A n \in Due' :
              /\ n \in Due /\ Rank(n)' \in Nat
              /\ \/ Rank(n)' >= Rank(n)
                 \/ Rank(n)' >= Offset /\ Rank(n)' >= Reach(got)
                 \/ n \in Within(got) /\ ~NumberSort
    PROVE  Reads(got)'
<1>1. /\ Offset' = Offset /\ Window' = Window /\ (NumberSort' <=> NumberSort)
      /\ \A a, b : InFront(a, b)' <=> InFront(a, b)
  BY DEF Offset, Window, NumberSort, InFront
<1>2. /\ Reach(got)' = Reach(got) /\ Within(got)' = Within(got)
      /\ \A n : FrontOf(got, n)' = FrontOf(got, n)
  BY <1>1 DEF Reach, Within, FrontOf
<1>3. /\ Reach(got) \in Nat /\ Offset \in Nat /\ \A n \in Due : Rank(n) \in Nat
  <2>1. Reach(got) \in 0..Len(got) /\ Offset \in Nat /\ Len(got) \in Nat
    BY DueIs, ReachIs DEF Typed, ListingTyped
  <2> QED  BY <2>1, DueIs
<1>4. ASSUME NEW n \in Due', Far(got, n), ~(n \in Within(got) /\ ~NumberSort) PROVE Far(got, n)'
  <2>1. /\ Rank(n) >= Offset /\ Rank(n) >= Reach(got)
        /\ n \in Due /\ Rank(n)' \in Nat /\ Rank(n) \in Nat
        /\ Rank(n)' >= Rank(n) \/ (Rank(n)' >= Offset /\ Rank(n)' >= Reach(got))
    BY <1>3, <1>4 DEF Far
  <2>2. Rank(n)' >= Offset /\ Rank(n)' >= Reach(got)
    BY <1>3, <2>1
  <2> QED  BY <1>1, <1>2, <2>2 DEF Far
<1>5. ASSUME NEW n \in Due', n \notin Within(got) PROVE Unread(got, n)'
  <2>1. Unread(got, n)
    BY <1>5 DEF Reads
  <2> QED  BY <1>1, <1>2, <1>4, <1>5, <2>1 DEF Unread
<1>6. ASSUME NEW n \in Due', n \in Within(got) PROVE InReach(got, n)'
  <2>1. InReach(got, n) /\ n \in Due
    BY <1>6 DEF Reads
  <2>2. \E k \in (Offset + 1)..Reach(got) :
          got[k] = n /\ (NumberSort => \A j \in 1..k : ~InFront(n, got[j]))
    BY <2>1 DEF InReach
  <2>3. ASSUME NumberSort PROVE Far(got, n)' \/ Cardinality(FrontOf(got, n)) <= Rank(n)'
    <3>1. CASE Far(got, n)
      BY <1>4, <2>3, <3>1
    <3>2. CASE ~Far(got, n) /\ Rank(n)' >= Offset /\ Rank(n)' >= Reach(got)
      BY <1>1, <1>2, <3>2 DEF Far
    <3>3. CASE ~Far(got, n) /\ Rank(n)' >= Rank(n)
      <4>1. Cardinality(FrontOf(got, n)) <= Rank(n) /\ Rank(n) \in Nat /\ Rank(n)' \in Nat
        BY <1>3, <2>1, <2>3, <3>3 DEF InReach
      <4>2. Cardinality(FrontOf(got, n)) \in Nat
        <5>1. \A j \in Nat : IsFiniteSet(1..j)
          BY FS_Interval
        <5>2. FrontOf(got, n) \subseteq 1..Len(got) /\ Len(got) \in Nat
          BY DEF FrontOf, Typed, ListingTyped
        <5> QED  BY <5>1, <5>2, FS_Subset, FS_CardinalityType
      <4>3. \A x, y, z \in Nat : x <= y /\ z >= y => x <= z
        OBVIOUS
      <4> QED  BY <3>3, <4>1, <4>2, <4>3
    <3> QED  BY <2>1, <2>3, <3>1, <3>2, <3>3
  <2>4. InReach(got, n)' <=>
          /\ \E k \in (Offset + 1)..Reach(got) :
                got[k] = n /\ (NumberSort => \A j \in 1..k : ~InFront(n, got[j]))
          /\ NumberSort => (Far(got, n)' \/ Cardinality(FrontOf(got, n)) <= Rank(n)')
    BY <1>1, <1>2 DEF InReach
  <2> QED  BY <2>2, <2>3, <2>4
<1> QED  BY <1>2, <1>5, <1>6 DEF Reads

(* A pull is opened.                                                        *)
LEMMA OpenSafe ==
    ASSUME Typed, Listed, Safe, Begun, OpenPull
    PROVE  Safe'
<1> SUFFICES ASSUME ~disturbed' PROVE Safe'
  BY DEF Safe
<1>1. /\ UNCHANGED <<provider, pc, sort, cursor, packet, page, limit, lastPage, got, walked, total,
                     shown, steady>>
      /\ disturbed \in BOOLEAN /\ Len(order) \in Nat /\ got \in Seq(1..made)
      /\ CompliantMax \in Nat /\ total \in Nat \cup {Null}
  BY DueIs, Sizes DEF OpenPull, listing, Typed, HistoryTyped, ListingTyped
<1>2. /\ ~disturbed
      /\ (pc \in Calling /\ ~Direct) => OldestFirst
  <2>1. sort \in {"number_asc", "number_desc", "recent_update", "recent_created"}
    BY SortAssumption DEF Typed, CallerTyped
  <2>2. /\ ~disturbed
        /\ ~(/\ pc \in Calling /\ ~OldestFirst
             /\ \/ provider \in {"github", "gitea_issues"}
                \/ provider = "gitea" /\ sort = "number_asc")
    BY <1>1 DEF OpenPull
  <2> QED  BY <2>2 DEF Direct, OnGitea, OldestFirst
<1>3. /\ Len(order') = Len(order) + 1
      /\ \A n \in Open : Rank(n)' = IF Direct <=> OldestFirst THEN Rank(n) ELSE Rank(n) + 1
      /\ OldestFirst => \A k \in 1..Len(order) : order'[k] = order[k]
  BY OpenRanks
<1>4. /\ (Direct' <=> Direct) /\ (ByNumber' <=> ByNumber) /\ (AtTail' <=> AtTail)
      /\ Offset' = Offset /\ Window' = Window /\ Due' = Due
  BY <1>1 DEF Direct, OnGitea, ByNumber, AtTail, Offset, Window, Due
<1>5. \A n \in Due : n \in Open /\ Rank(n) \in Nat /\ Rank(n)' \in Nat /\ Rank(n)' >= Rank(n)
  <2> SUFFICES ASSUME NEW n \in Due
               PROVE  n \in Open /\ Rank(n) \in Nat /\ Rank(n)' \in Nat /\ Rank(n)' >= Rank(n)
    OBVIOUS
  <2>1. n \in Open /\ Rank(n) \in Nat
    BY DueIs
  <2> QED  BY <1>3, <2>1
<1>6. Offset \in Nat /\ Extra \in Nat /\ (total \in Nat => Grown \in Nat)
  BY <1>1, DueIs, Sizes, ExtraIs DEF Grown
<1>7. ASSUME NEW x \in Nat, Owed(x) PROVE Owed(x)'
  BY <1>4, <1>5, <1>7 DEF Owed
<1>8. ASSUME NEW x \in Nat, Owed(x + Extra) PROVE \A n \in Due : Rank(n)' >= x + Extra'
  <2>1. CASE provider = "gitea_issues" /\ sort = "recent_created"
    <3>1. Extra' <= Extra + 1 /\ Extra' \in Nat
      BY <1>1, <1>3, <2>1 DEF Extra
    <3>2. \A n \in Due : Rank(n)' = Rank(n) + 1
      BY <1>3, <1>5, <2>1 DEF Direct, OnGitea, OldestFirst
    <3> QED  BY <1>5, <1>6, <1>8, <3>1, <3>2 DEF Owed
  <2>2. CASE ~(provider = "gitea_issues" /\ sort = "recent_created")
    <3>1. Extra' = 0 /\ Extra = 0
      BY <1>1, <2>2 DEF Extra
    <3> QED  BY <1>5, <1>6, <1>8, <3>1 DEF Owed
  <2> QED  BY <2>1, <2>2
<1>9. ASSUME AtTail, total \in Nat, Owed(Offset + Grown) PROVE Owed(Offset + Grown)'
  <2>1. Grown' <= Grown + 1 /\ Grown' \in Nat /\ Grown \in Nat
    BY <1>1, <1>3, <1>9 DEF Grown
  <2>2. \A n \in Due : Rank(n)' = Rank(n) + 1
    BY <1>3, <1>5, <1>9 DEF Direct, OnGitea, OldestFirst, AtTail
  <2>3. \A n \in Due : Rank(n)' >= Offset + Grown'
    BY <1>5, <1>6, <1>9, <2>1, <2>2 DEF Owed
  <2> QED  BY <1>4, <2>3 DEF Owed
<1>10. ASSUME pc = "between" PROVE Owed(packet.next + Extra)' /\ (ByNumber /\ Due # {} => Limit >= PageSize)'
  <2>1. packet.next \in Nat
    BY <1>10 DEF Typed, CallerTyped, Packets
  <2>2. Owed(packet.next + Extra) /\ (ByNumber /\ Due # {} => Limit >= PageSize)
    BY <1>2, <1>10 DEF Safe
  <2> QED  BY <1>1, <1>4, <1>8, <2>1, <2>2 DEF Owed
<1>11. ASSUME pc \in Calling PROVE DirectCall'
  <2> SUFFICES ASSUME Direct PROVE Reads(got)' /\ (pc' \in {"page", "link"} => Aligned(got, page, limit)')
    BY <1>4 DEF DirectCall
  <2>1. Reads(got) /\ (pc \in {"page", "link"} => Aligned(got, page, limit))
    BY <1>2, <1>11 DEF Safe, DirectCall
  <2>2. Reads(got)'
    BY <1>1, <1>4, <1>5, <2>1, ReadsKept
  <2> QED  BY <1>1, <1>4, <2>1, <2>2 DEF Aligned
<1>12. ASSUME pc \in Calling PROVE TurnedCall'
  <2> SUFFICES ASSUME ~Direct, Due # {} PROVE TurnedCall'
    BY <1>4 DEF TurnedCall
  <2>1. TurnedCall /\ OldestFirst
    BY <1>2, <1>12 DEF Safe
  <2>2. /\ Owed(Offset) /\ (cursor # Null => Owed(Offset + Extra))
        /\ (ByNumber /\ cursor # Null) => Limit >= PageSize
        /\ pc = "tail" => AtTail /\ total > Window /\ Owed(Offset + Grown)
        /\ pc \in {"page", "confirm"} =>
              limit = PageSize /\ (TailWalk \/ ShortWalk \/ WholeWalk \/ IssueWalk)
    BY <2>1 DEF TurnedCall
  <2>3. Owed(Offset)' /\ (cursor' # Null => Owed(Offset + Extra)')
    BY <1>1, <1>4, <1>6, <1>7, <1>8, <2>2 DEF Owed
  <2>4. pc' = "tail" => AtTail' /\ total' > Window' /\ Owed(Offset + Grown)'
    BY <1>1, <1>4, <1>9, <2>2 DEF Typed, TotalsAreThere
  <2>5. TailWalk => TailWalk'
    BY <1>1, <1>4, <1>9 DEF TailWalk, TailPage
  <2>6. ~ByNumber
    BY <2>1 DEF ByNumber, OldestFirst, OnGitea
  <2>7. IssueWalk => IssueWalk'
    <3>1. Prefix => Prefix'
      BY <1>1, <1>3, <2>1 DEF Prefix
    <3> QED  BY <1>1, <3>1 DEF IssueWalk
  <2> QED  BY <1>1, <1>4, <2>2, <2>3, <2>4, <2>5, <2>6, <2>7 DEF TurnedCall, ShortWalk, WholeWalk
<1>13. Done'
  BY <1>1, <1>2 DEF Safe, Done, Due
<1> QED  BY <1>1, <1>10, <1>11, <1>12, <1>13 DEF Safe

(* A pull is touched.                                                       *)
LEMMA TouchSafe ==
    ASSUME Typed, Listed, Safe, NEW x \in Open, TouchPull(x)
    PROVE  Safe'
<1> SUFFICES ASSUME ~disturbed' PROVE Safe'
  BY DEF Safe
<1>1. /\ UNCHANGED <<provider, pc, sort, cursor, packet, page, limit, lastPage, got, walked, total,
                     shown, steady>>
      /\ disturbed \in BOOLEAN /\ got \in Seq(1..made) /\ Window \in Nat
      /\ sort = "recent_update"
  BY DueIs, Sizes DEF TouchPull, listing, Typed, HistoryTyped, ListingTyped
<1>2. ~disturbed /\ x \in shown \cup Range(FirstOf(got, Window))
  BY <1>1 DEF TouchPull
<1>3. Direct /\ Direct' /\ Due' = Due
  BY <1>1 DEF Direct, Due
<1>4. x \in shown \/ x \in Within(got)
  <2> SUFFICES ASSUME x \in Range(FirstOf(got, Window)) PROVE x \in Within(got)
    BY <1>2
  <2>1. /\ FirstOf(got, Window) \in Seq(1..made)
        /\ Len(FirstOf(got, Window)) = Reach(got)
        /\ \A k \in 1..Len(FirstOf(got, Window)) : FirstOf(got, Window)[k] = got[k]
    BY <1>1, FirstOfIs DEF Reach
  <2>2. DOMAIN FirstOf(got, Window) = 1..Reach(got)
    BY <2>1
  <2> QED  BY <2>1, <2>2 DEF Range, Within
<1>5. ASSUME NEW n \in Due
      PROVE  /\ n \in Due /\ Rank(n)' \in Nat /\ n \in Open /\ Rank(n) \in Nat
             /\ Rank(n)' >= Rank(n) \/ (n \in Within(got) /\ ~NumberSort)
  <2>1. n \in Open /\ Rank(n) \in Nat
    BY DueIs
  <2>2. CASE n = x
    <3>1. n \in Within(got) /\ ~NumberSort
      BY <1>1, <1>4, <2>2 DEF Due, NumberSort
    <3> QED  BY <2>1, <2>2, <3>1, TouchRanks
  <2>3. CASE n # x
    <3>1. Rank(n)' \in {Rank(n), Rank(n) + 1}
      BY <2>1, <2>3, TouchRanks
    <3> QED  BY <2>1, <3>1
  <2> QED  BY <2>2, <2>3
<1>6. ASSUME pc = "between" PROVE Owed(packet.next + Extra)' /\ (ByNumber /\ Due # {} => Limit >= PageSize)'
  <2>1. packet.next \in Nat /\ Len(got) = 0
    BY <1>6 DEF Typed, CallerTyped, Packets, GotWhileReading
  <2>2. Owed(packet.next + Extra)
    BY <1>2, <1>6 DEF Safe
  <2>3. Extra = 0 /\ Extra' = 0 /\ ~ByNumber'
    BY <1>1 DEF Extra, ByNumber
  <2>4. Within(got) = {}
    <3>1. Reach(got) = 0
      BY <1>1, <2>1 DEF Reach, Smaller
    <3> QED  BY <3>1 DEF Within
  <2>5. \A n \in Due : Rank(n)' >= packet.next
    <3> SUFFICES ASSUME NEW n \in Due PROVE Rank(n)' >= packet.next
      OBVIOUS
    <3>1. Rank(n) >= packet.next + Extra /\ Rank(n)' >= Rank(n) /\ Rank(n) \in Nat /\ Rank(n)' \in Nat
      BY <1>5, <2>2, <2>4 DEF Owed
    <3> QED  BY <2>1, <2>3, <3>1
  <2>6. packet.next + 0 = packet.next
    BY <2>1
  <2> QED  BY <1>1, <1>3, <2>3, <2>5, <2>6 DEF Owed
<1>7. ASSUME pc \in Calling PROVE DirectCall'
  <2>1. Reads(got) /\ (pc \in {"page", "link"} => Aligned(got, page, limit))
    BY <1>2, <1>3, <1>7 DEF Safe, DirectCall
  <2>2. Reads(got)'
    BY <1>1, <1>3, <1>5, <2>1, ReadsKept
  <2>3. Window' = Window
    BY <1>1 DEF Window, Offset
  <2> QED  BY <1>1, <1>3, <2>1, <2>2, <2>3 DEF Aligned, DirectCall
<1>8. TurnedCall'
  BY <1>3 DEF TurnedCall
<1>9. Done'
  BY <1>1, <1>2, <1>3 DEF Safe, Done
<1> QED  BY <1>1, <1>6, <1>7, <1>8, <1>9 DEF Safe

(* A pull is closed.                                                        *)
LEMMA CloseSafe ==
    ASSUME Typed, Listed, Safe, NEW x \in Open, ClosePull(x)
    PROVE  Safe'
<1> SUFFICES ASSUME ~disturbed' PROVE Safe'
  BY DEF Safe
<1>1. /\ UNCHANGED <<provider, pc, sort, cursor, packet, page, limit, lastPage, got, walked, total,
                     shown>>
      /\ disturbed \in BOOLEAN /\ Len(order) \in Nat /\ got \in Seq(1..made)
      /\ CompliantMax \in Nat /\ total \in Nat \cup {Null} /\ Offset \in Nat
      /\ steady' = steady \ {x}
  BY DueIs, Sizes DEF ClosePull, listing, Typed, HistoryTyped, ListingTyped
<1>2. ~disturbed /\ x \in Due /\ x \notin Range(got)
  BY <1>1 DEF ClosePull, Read, Due
<1>3. /\ Len(order') = Len(order) - 1
      /\ \A n \in Open \ {x} :
            /\ Rank(n) \in Nat /\ Rank(x) \in Nat /\ Rank(n) # Rank(x)
            /\ Rank(n)' = IF Rank(x) < Rank(n) THEN Rank(n) - 1 ELSE Rank(n)
      /\ Place(x) \in 1..Len(order) /\ \A k \in 1..(Place(x) - 1) : order'[k] = order[k]
  BY CloseRanks
<1>4. /\ (Direct' <=> Direct) /\ (ByNumber' <=> ByNumber) /\ (AtTail' <=> AtTail)
      /\ Offset' = Offset /\ Window' = Window /\ Due' = Due \ {x}
  BY <1>1 DEF Direct, OnGitea, ByNumber, AtTail, Offset, Window, Due
<1>5. ASSUME NEW n \in Due'
      PROVE  /\ n \in Due /\ Rank(n) \in Nat /\ Rank(x) \in Nat /\ Rank(n)' \in Nat
             /\ Rank(n)' >= Rank(n) \/ Rank(n)' >= Rank(x)
  <2>1. n \in Open \ {x} /\ n \in Due
    BY <1>4, DueIs
  <2>2. /\ Rank(n) \in Nat /\ Rank(x) \in Nat /\ Rank(n) # Rank(x)
        /\ Rank(n)' = IF Rank(x) < Rank(n) THEN Rank(n) - 1 ELSE Rank(n)
    BY <1>3, <2>1
  <2> QED  BY <2>1, <2>2
<1>6. /\ Extra \in Nat /\ Extra' \in Nat /\ Extra' <= Extra
      /\ total \in Nat => Grown \in Nat /\ Grown' \in Nat /\ Grown' <= Grown
  BY <1>1, <1>3 DEF Extra, Grown
<1>7. ASSUME NEW y \in Nat, NEW z \in Nat, Owed(y), z <= y PROVE \A n \in Due' : Rank(n)' >= z
  <2> SUFFICES ASSUME NEW n \in Due' PROVE Rank(n)' >= z
    OBVIOUS
  <2>1. Rank(n) >= y /\ Rank(x) >= y
    BY <1>2, <1>5, <1>7 DEF Owed
  <2> QED  BY <1>5, <1>7, <2>1
<1>8. ASSUME NEW y \in Nat, Owed(y) PROVE Owed(y)'
  BY <1>7, <1>8 DEF Owed
<1>9. ASSUME NEW y \in Nat, Owed(y + Extra) PROVE \A n \in Due' : Rank(n)' >= y + Extra'
  <2>1. y + Extra \in Nat /\ y + Extra' \in Nat /\ y + Extra' <= y + Extra
    <3>1. \A a, b, c \in Nat : b <= c => a + b \in Nat /\ a + c \in Nat /\ a + b <= a + c
      OBVIOUS
    <3>2. y \in Nat /\ Extra \in Nat /\ Extra' \in Nat /\ Extra' <= Extra
      BY <1>6, <1>9
    <3> QED  BY <3>1, <3>2, Zenon
  <2> QED  BY <1>7, <1>9, <2>1
<1>10. ASSUME total \in Nat, Owed(Offset + Grown) PROVE Owed(Offset + Grown)'
  <2>1. Offset + Grown \in Nat /\ Offset + Grown' \in Nat /\ Offset + Grown' <= Offset + Grown
    BY <1>1, <1>6, <1>10
  <2>2. \A n \in Due' : Rank(n)' >= Offset + Grown'
    BY <1>7, <1>10, <2>1
  <2> QED  BY <1>4, <2>2 DEF Owed
<1>11. ASSUME pc = "between" PROVE Owed(packet.next + Extra)' /\ (ByNumber /\ Due # {} => Limit >= PageSize)'
  <2>1. packet.next \in Nat
    BY <1>11 DEF Typed, CallerTyped, Packets
  <2>2. Owed(packet.next + Extra) /\ (ByNumber /\ Due # {} => Limit >= PageSize)
    BY <1>2, <1>11 DEF Safe
  <2> QED  BY <1>1, <1>4, <1>9, <2>1, <2>2 DEF Owed
<1>12. ASSUME pc \in Calling PROVE DirectCall'
  <2> SUFFICES ASSUME Direct PROVE Reads(got)' /\ (pc' \in {"page", "link"} => Aligned(got, page, limit)')
    BY <1>4 DEF DirectCall
  <2>1. Reads(got) /\ (pc \in {"page", "link"} => Aligned(got, page, limit))
    BY <1>2, <1>12 DEF Safe, DirectCall
  <2>2. Rank(x) >= Offset /\ Rank(x) >= Reach(got) /\ Reach(got) \in Nat
    <3>1. Reach(got) \in 0..Len(got) /\ Len(got) \in Nat /\ DOMAIN got = 1..Len(got)
      BY <1>1, DueIs, ReachIs
    <3>2. x \notin Within(got)
      BY <1>2, <3>1 DEF Within, Range
    <3> QED  BY <1>2, <2>1, <3>1, <3>2 DEF Reads, Unread, Far
  <2>3. ASSUME NEW n \in Due'
        PROVE  Rank(n)' >= Rank(n) \/ (Rank(n)' >= Offset /\ Rank(n)' >= Reach(got))
    BY <1>1, <1>5, <2>2
  <2>4. Reads(got)'
    BY <1>1, <1>5, <2>1, <2>3, ReadsKept
  <2> QED  BY <1>1, <1>4, <2>1, <2>4 DEF Aligned
<1>13. ASSUME pc \in Calling PROVE TurnedCall'
  <2> SUFFICES ASSUME ~Direct, Due' # {} PROVE TurnedCall'
    BY <1>4 DEF TurnedCall
  <2>1. TurnedCall /\ Due # {}
    BY <1>2, <1>13 DEF Safe
  <2>2. /\ Owed(Offset) /\ (cursor # Null => Owed(Offset + Extra))
        /\ (ByNumber /\ cursor # Null) => Limit >= PageSize
        /\ pc = "tail" => AtTail /\ total > Window /\ Owed(Offset + Grown)
        /\ pc \in {"page", "confirm"} =>
              limit = PageSize /\ (TailWalk \/ ShortWalk \/ WholeWalk \/ IssueWalk)
    BY <2>1 DEF TurnedCall
  <2>3. Owed(Offset)' /\ (cursor' # Null => Owed(Offset + Extra)')
    BY <1>1, <1>4, <1>8, <1>9, <2>2 DEF Owed
  <2>4. pc' = "tail" => AtTail' /\ total' > Window' /\ Owed(Offset + Grown)'
    BY <1>1, <1>4, <1>10, <2>2 DEF Typed, TotalsAreThere
  <2>5. TailWalk => TailWalk'
    BY <1>1, <1>4, <1>10 DEF TailWalk, TailPage
  <2>6. ShortWalk => ShortWalk'
    BY <1>1, <1>3, <1>4 DEF ShortWalk
  <2>7. Prefix => Prefix' /\ Len(got) < Len(order)
    <3> SUFFICES ASSUME Prefix PROVE Prefix' /\ Len(got) < Len(order)
      OBVIOUS
    <3>1. order[Place(x)] = x /\ Place(x) \in 1..Len(order) /\ DOMAIN got = 1..Len(got) /\ Len(got) \in Nat
      BY <1>1, PlaceIs DEF Typed, ForgeTyped
    <3>2. Place(x) \notin 1..Len(got)
      BY <1>2, <3>1 DEF Prefix, Range
    <3>3. Len(got) < Place(x)
      BY <3>1, <3>2
    <3>4. Len(got) < Len(order) /\ Len(got) <= Len(order') /\ \A k \in 1..Len(got) : k \in 1..(Place(x) - 1)
      BY <1>1, <1>3, <3>1, <3>3
    <3> QED  BY <1>1, <1>3, <3>4 DEF Prefix
  <2>8. WholeWalk => WholeWalk'
    <3> SUFFICES ASSUME WholeWalk PROVE WholeWalk'
      OBVIOUS
    <3>1. Prefix' /\ pc # "confirm"
      BY <1>1, <2>7 DEF WholeWalk
    <3> QED  BY <1>1, <1>3, <1>4, <3>1 DEF WholeWalk
  <2>9. IssueWalk => IssueWalk'
    BY <1>1, <2>7 DEF IssueWalk
  <2> QED  BY <1>1, <1>4, <2>2, <2>3, <2>4, <2>5, <2>6, <2>8, <2>9 DEF TurnedCall
<1>14. Done'
  BY <1>1, <1>2 DEF Safe, Done, Due
<1> QED  BY <1>1, <1>11, <1>12, <1>13, <1>14 DEF Safe

(* A part of a list that is turned round, or sorted against its order.      *)
Block(items, a, c) ==
    /\ a + Len(items) + c = Len(order)
    /\ \A k \in 1..Len(items) : items[k] = order[a + k]

LEMMA TurnedOrder ==
    ASSUME Typed, Listed, ~Direct, NEW items \in Seq(1..made), NEW a \in Nat, NEW c \in Nat,
           Block(items, a, c), NEW k \in 1..Len(items)
    PROVE  Ordered(items)[k] = items[Len(items) + 1 - k]
<1> DEFINE L == Len(items)
           m == Len(order)
           h == L + 1 - k
<1>1. /\ made \in Nat /\ L \in Nat /\ m \in Nat /\ order \in Seq(1..made) /\ DOMAIN order = 1..m
      /\ DOMAIN items = 1..L /\ h \in 1..L /\ k \in 1..L /\ a + L + c = m
  <2>1. made \in Nat /\ m \in Nat /\ order \in Seq(1..made)
    BY DueIs
  <2> QED  BY <2>1 DEF Block
<1>2. (L - k) + 1 = h
  BY <1>1
<1> HIDE DEF L, m
<1>3. CASE sort = "recent_created"
  <2>1. Ordered(items) = Reverse(items)
    BY <1>3 DEF Ordered, Direct
  <2>2. Reverse(items) = [i \in 1..L |-> items[(L - i) + 1]]
    BY DEF Reverse, L
  <2> QED  BY <1>1, <1>2, <2>1, <2>2 DEF L
<1>4. CASE sort = "number_asc"
  <2>1. ~OldestFirst /\ NumberSort
    BY <1>4 DEF OldestFirst, NumberSort, Direct
  <2>2. \A i, j \in 1..L : i < j => items[i] > items[j]
    <3> SUFFICES ASSUME NEW i \in 1..L, NEW j \in 1..L, i < j PROVE items[i] > items[j]
      OBVIOUS
    <3>1. items[i] = order[a + i] /\ items[j] = order[a + j]
      BY DEF Block, L
    <3>2. a + i \in 1..m /\ a + j \in 1..m /\ a + i < a + j
      BY <1>1
    <3>3. \A x, y \in 1..m : x < y => order[x] > order[y]
      BY <1>1, <1>4, <2>1 DEF Listed
    <3> QED  BY <3>1, <3>2, <3>3
  <2> DEFINE n == items[h]
  <2>3. n \in 1..made /\ n \in Nat /\ \A i \in 1..L : items[i] \in Nat
    <3>1. \A i \in 1..L : items[i] \in 1..made
      <4> HIDE DEF h, n
      <4> DEFINE T == 1..made
      <4>1. items \in Seq(T)
        BY Zenon
      <4> HIDE DEF T
      <4>2. \A i \in 1..Len(items) : items[i] \in T
        BY <4>1
      <4>3. \A i \in 1..L : items[i] \in T
        BY <4>2 DEF L
      <4> QED  BY <4>3 DEF T
    <3>2. 1..made \subseteq Nat
      OBVIOUS
    <3>3. h \in 1..L
      BY <1>1
    <3> QED  BY <3>1, <3>2, <3>3, Zenon
  <2> HIDE DEF h, n
  <2>9. ASSUME NEW i \in 1..L
         PROVE  (items[i] < n <=> i > h) /\ (~(n < items[i]) <=> i >= h)
    <3>1. items[i] \in Nat /\ n \in Nat /\ i \in Nat /\ h \in Nat
      BY <1>1, <2>3
    <3>2. i < h => items[i] > n
      BY <1>1, <2>2 DEF n
    <3>3. i > h => n > items[i]
      BY <1>1, <2>2 DEF n
    <3>4. i = h => items[i] = n
      BY DEF n
    <3> QED  BY <3>1, <3>2, <3>3, <3>4
  <2>4. FrontOf(items, n) = (h + 1)..L
    <3>1. \A i \in 1..L : items[i] < n <=> i > h
      BY <2>9
    <3>2. (h + 1)..L = {i \in 1..L : i > h}
      <4>1. L \in Nat /\ h \in 1..L
        BY <1>1
      <4> QED  BY <4>1
    <3>3. \A i \in 1..L : InFront(items[i], n) <=> i > h
      BY <1>4, <3>1 DEF InFront
    <3> QED  BY <1>1, <3>2, <3>3 DEF FrontOf
  <2>5. UpTo(items, n) = h..L
    <3>1. \A i \in 1..L : ~(n < items[i]) <=> i >= h
      BY <2>9
    <3>2. h..L = {i \in 1..L : i >= h}
      <4>1. L \in Nat /\ h \in 1..L
        BY <1>1
      <4> QED  BY <4>1
    <3>3. \A i \in 1..L : ~InFront(n, items[i]) <=> i >= h
      BY <1>4, <3>1 DEF InFront
    <3> QED  BY <1>1, <3>2, <3>3 DEF UpTo
  <2>6. Cardinality((h + 1)..L) = k - 1 /\ Cardinality(h..L) = k
    <3>1. \A x, y \in Int : Cardinality(x..y) = IF x <= y THEN y - x + 1 ELSE 0
      BY FS_Interval
    <3>2. h \in Int /\ h + 1 \in Int /\ L \in Int
      BY <1>1
    <3>3. /\ Cardinality((h + 1)..L) = IF h + 1 <= L THEN L - (h + 1) + 1 ELSE 0
          /\ Cardinality(h..L) = IF h <= L THEN L - h + 1 ELSE 0
      BY <3>1, <3>2, Zenon
    <3>4. (h + 1 <= L => L - (h + 1) + 1 = k - 1) /\ (~(h + 1 <= L) => 0 = k - 1)
          /\ h <= L /\ L - h + 1 = k
      BY <1>1 DEF h
    <3> QED  BY <3>3, <3>4, Zenon
  <2>7. Cardinality(FrontOf(items, n)) < k /\ k <= Cardinality(UpTo(items, n))
    <3>1. k - 1 < k /\ k <= k
      BY <1>1
    <3> QED  BY <2>4, <2>5, <2>6, <3>1, Zenon
  <2>8. Ordered(items)[k] = n
    BY <1>1, <2>1, <2>3, <2>7, SortedHas
  <2> QED  BY <2>8 DEF n, h, L
<1> QED  BY <1>3, <1>4 DEF Direct

(* What is owed and not shown is behind the cursor.                         *)
LEMMA TurnedBlock ==
    ASSUME Typed, Listed, ~Direct, NEW items \in Seq(1..made), NEW a \in Nat, NEW c \in Nat,
           Block(items, a, c), NEW n \in Due, Rank(n) >= Offset + c,
           \A k \in (Offset + 1)..Reach(items) : Ordered(items)[k] # n
    PROVE  Rank(n) >= Seen(items) + c
<1> DEFINE m == Len(order)
           p == Place(n)
           L == Len(items)
           k == m - p - c + 1
<1>1. /\ L \in Nat /\ m \in Nat /\ Offset \in Nat /\ Reach(items) \in 0..L
      /\ p \in 1..m /\ order[p] = n /\ Rank(n) = m - p
      /\ a + L + c = m
  <2>1. n \in Open /\ order \in Seq(1..made) /\ Distinct(order) /\ cursor \in Nat \cup {Null}
    BY DueIs DEF Typed, ForgeTyped
  <2>2. p \in 1..m /\ order[p] = n /\ m \in Nat
    BY <2>1, PlaceIs
  <2>3. L \in Nat /\ Offset \in Nat /\ Reach(items) \in 0..L
    BY <2>1, ReachIs
  <2> QED  BY <2>2, <2>3 DEF Rank, Block
<1> HIDE DEF m, p, L
<1> SUFFICES ASSUME ~(Rank(n) >= Seen(items) + c) PROVE FALSE
  OBVIOUS
<1>2. k \in (Offset + 1)..Reach(items)
  <2>1. Seen(items) = Reach(items) /\ Reach(items) > Offset
    BY <1>1 DEF Seen
  <2>2. \A x, o, r, d \in Int : (x >= o + d /\ ~(x >= r + d)) => x - d + 1 \in (o + 1)..r
    OBVIOUS
  <2>3. /\ m - p \in Int /\ Offset \in Int /\ Reach(items) \in Int /\ c \in Int
        /\ m - p >= Offset + c /\ ~(m - p >= Reach(items) + c)
    BY <1>1, <2>1
  <2>4. (m - p) - c + 1 \in (Offset + 1)..Reach(items)
    BY <2>2, <2>3, Zenon
  <2> QED  BY <2>4
<1>3. k \in 1..L /\ L + 1 - k \in 1..L /\ a + (L + 1 - k) = p
  BY <1>1, <1>2
<1> HIDE DEF k
<1>4. Ordered(items)[k] = items[L + 1 - k]
  BY <1>3, TurnedOrder DEF L
<1>5. items[L + 1 - k] = order[p]
  BY <1>3 DEF Block, L
<1> QED  BY <1>1, <1>2, <1>4, <1>5

LEMMA TurnedShows ==
    ASSUME Typed, Listed, ~Direct, NEW items \in Seq(1..made), NEW a \in Nat, NEW c \in Nat,
           Block(items, a, c), Extra <= c,
           NEW truncated \in BOOLEAN, NEW count \in Nat,
           Answer(Slice(items, truncated, count)), ~(truncated /\ cursor = Null), Owed(Offset + c)
    PROVE  /\ \A n \in Due' : Rank(n)' >= Seen(items) + Extra
           /\ \A n \in Due' : Rank(n)' >= Seen(items)
<1> DEFINE p == Slice(items, truncated, count)
<1>1. packet' = p /\ shown' = shown \cup Range(p.numbers) /\ UNCHANGED <<provider, order, sort, cursor, steady>>
  BY DEF Answer, forge
<1>2. made \in Nat /\ cursor \in Nat \cup {Null} /\ Extra \in Nat
  BY DueIs, ExtraIs
<1>3. \A k \in (Offset + 1)..Reach(items) : Ordered(items)[k] \in Range(p.numbers)
  BY <1>2, SliceShows, ZenonT(60)
<1>4. \A n : Rank(n)' = Rank(n)
  BY <1>1, Same
<1> HIDE DEF p
<1>5. Seen(items) \in Nat
  BY <1>2, ReachIs
<1> SUFFICES ASSUME NEW n \in Due'
             PROVE  Rank(n)' >= Seen(items) + Extra /\ Rank(n)' >= Seen(items)
  OBVIOUS
<1>6. n \in Due /\ n \notin Range(p.numbers)
  BY <1>1 DEF Due
<1>7. \A k \in (Offset + 1)..Reach(items) : Ordered(items)[k] # n
  BY <1>3, <1>6
<1>8. Rank(n) >= Offset + c
  BY <1>6 DEF Owed
<1>9. Rank(n) >= Seen(items) + c
  BY <1>6, <1>7, <1>8, TurnedBlock
<1>10. Rank(n) \in Nat
  BY <1>6, DueIs
<1>11. Rank(n) >= Seen(items) + Extra /\ Rank(n) >= Seen(items)
  BY <1>2, <1>5, <1>9, <1>10
<1> QED  BY <1>4, <1>11

LEMMA TurnedEnds ==
    ASSUME Typed, Listed, ~Direct, NEW items \in Seq(1..made), NEW a \in Nat, NEW c \in Nat,
           Block(items, a, c), Extra <= c, ~ByNumber \/ Limit >= PageSize,
           NEW truncated \in BOOLEAN, NEW count \in Nat,
           ~(truncated /\ cursor = Null) => Owed(Offset + c),
           Answer(Slice(items, truncated, count)), Counts(truncated, count)
    PROVE  Safe'
<1> DEFINE p == Slice(items, truncated, count)
<1>1. /\ pc' \in {"between", "finished"} /\ (pc' = "between" => p.next # Null) /\ packet' = p
      /\ shown' = shown \cup Range(p.numbers) /\ UNCHANGED <<provider, order, sort, cursor, steady>>
  BY DEF Answer, forge
<1>2. made \in Nat /\ cursor \in Nat \cup {Null} /\ Extra \in Nat
  BY DueIs, ExtraIs
<1>3. /\ (truncated /\ cursor = Null) => p.next = Null
      /\ ~(truncated /\ cursor = Null) =>
            p.next = IF truncated \/ Seen(items) < count THEN Seen(items) ELSE Null
  BY <1>2, SliceShows, ZenonT(60)
<1>4. Extra' = Extra /\ (ByNumber' <=> ByNumber)
  BY <1>1, Same
<1> HIDE DEF p
<1>5. ASSUME pc' = "between" PROVE Owed(packet.next + Extra)'
  <2>1. packet.next' = Seen(items) /\ ~(truncated /\ cursor = Null)
    BY <1>1, <1>3, <1>5
  <2>2. (packet.next + Extra)' = Seen(items) + Extra
    BY <1>4, <2>1
  <2>3. \A n \in Due' : Rank(n)' >= Seen(items) + Extra
    BY <2>1, TurnedShows
  <2> QED  BY <2>2, <2>3 DEF Owed
<1>6. pc' \notin Calling
  BY <1>1 DEF Calling
<1>7. (ByNumber /\ Due # {} => Limit >= PageSize)'
  BY <1>4
<1>8. Done'
  BY TurnedShows, Completes
<1> QED  BY <1>1, <1>5, <1>6, <1>7, <1>8 DEF Safe, Calling

(* A list cut before a first cursor ends the walk.                          *)
LEMMA CutEnds ==
    ASSUME NEW items, NEW count, cursor = Null, Answer(Slice(items, TRUE, count))
    PROVE  Safe'
<1>1. Slice(items, TRUE, count) = IncompletePacket
  BY DEF Slice
<1>2. IncompletePacket.next = Null /\ IncompletePacket.complete = FALSE
  BY DEF IncompletePacket, Bare
<1>3. pc' = "finished" /\ packet.complete' = FALSE
  <2>1. /\ pc' = IF Slice(items, TRUE, count).next = Null THEN "finished" ELSE "between"
        /\ packet' = Slice(items, TRUE, count)
    BY DEF Answer
  <2> QED  BY <1>1, <1>2, <2>1
<1> QED  BY <1>3 DEF Safe, Calling, Done

(* A walk goes on that will turn what it reads.                             *)
LEMMA TurnedGoesOn ==
    ASSUME ~Direct, TurnedCall, Due # {},
           UNCHANGED <<provider, order, sort, cursor, steady, shown>>, pc' \in Calling,
           pc' = "tail" => AtTail /\ total' > Window /\ Owed(Offset + Grown)',
           pc' \in {"page", "confirm"} =>
              limit' = PageSize /\ (TailWalk' \/ ShortWalk' \/ WholeWalk' \/ IssueWalk')
    PROVE  Safe'
<1>1. /\ ~Direct' /\ Offset' = Offset /\ Window' = Window /\ (ByNumber' <=> ByNumber)
      /\ (AtTail' <=> AtTail) /\ Extra' = Extra
  BY Same
<1>2. /\ Owed(Offset)' <=> Owed(Offset)
      /\ Owed(Offset + Extra)' <=> Owed(Offset + Extra)
  <2>1. \A n : Rank(n)' = Rank(n)
    BY Same
  <2>2. Due' = Due
    BY DEF Due
  <2> QED  BY <1>1, <2>1, <2>2 DEF Owed
<1>3. TurnedCall'
  BY <1>1, <1>2 DEF TurnedCall
<1>4. pc' \notin {"between", "finished"}
  BY DEF Calling
<1> QED  BY <1>1, <1>3, <1>4 DEF Safe, DirectCall, Done

(* All the pages allowed.                                                   *)
LEMMA PagesAre ==
    /\ \A p \in Nat \ {0} : Passed(p, PageSize) \in Nat
    /\ \A p \in Nat \ {0} : Passed(p + 1, PageSize) = Passed(p, PageSize) + PageSize
    /\ \A p, q \in Nat \ {0} : p <= q => Passed(p, PageSize) <= Passed(q, PageSize)
    /\ CompliantMax = Passed(MaxPages, PageSize) + PageSize
    /\ Passed(1, PageSize) = 0 /\ Passed(2, PageSize) = PageSize
    /\ PageSize \in Nat /\ PageSize >= 1 /\ MaxPages \in Nat /\ MaxPages >= 2
    /\ CompliantMax \in Nat /\ PageSize <= CompliantMax
<1> DEFINE s == PageSize
<1>1. s \in Nat /\ s >= 1 /\ MaxPages \in Nat /\ MaxPages >= 2
  BY SizeAssumption
<1>2. s * MaxPages = Passed(MaxPages, s) + s /\ Passed(1, s) = 0 /\ Passed(2, s) = s
  <2>1. \A x \in Nat : s * x = (x - 1) * s + s
    BY <1>1
  <2> QED  BY <1>1, <2>1 DEF Passed
<1>3. \A x \in Nat : x * s \in Nat
  BY <1>1
<1>4. \A p \in Nat \ {0} : Passed(p, s) \in Nat
  <2>1. \A p \in Nat \ {0} : p - 1 \in Nat
    OBVIOUS
  <2> QED  BY <1>3, <2>1, Zenon DEF Passed
<1>5. \A p \in Nat \ {0} : Passed(p + 1, s) = Passed(p, s) + s
  <2>1. \A x \in Nat : (x + 1) * s = x * s + s
    BY <1>1
  <2>2. \A p \in Nat \ {0} : p - 1 \in Nat /\ (p - 1) + 1 = (p + 1) - 1
    OBVIOUS
  <2> QED  BY <2>1, <2>2 DEF Passed
<1>6. \A p, q \in Nat \ {0} : p <= q => Passed(p, s) <= Passed(q, s)
  <2>1. \A x, y \in Nat : x <= y => x * s <= y * s
    <3> SUFFICES ASSUME NEW x \in Nat, NEW y \in Nat, x <= y PROVE x * s <= y * s
      OBVIOUS
    <3>1. y * s = x * s + (y - x) * s /\ (y - x) \in Nat
      BY <1>1
    <3>2. (y - x) * s \in Nat /\ x * s \in Nat /\ y * s \in Nat
      BY <1>3, <3>1
    <3> QED  BY <3>1, <3>2
  <2>2. \A p, q \in Nat \ {0} : p <= q => p - 1 \in Nat /\ q - 1 \in Nat /\ p - 1 <= q - 1
    OBVIOUS
  <2> QED  BY <2>1, <2>2 DEF Passed
<1>7. CompliantMax \in Nat /\ s <= CompliantMax /\ CompliantMax = Passed(MaxPages, s) + s
  <2>1. CompliantMax = Passed(MaxPages, s) + s
    BY <1>2 DEF CompliantMax
  <2>2. Passed(MaxPages, s) \in Nat
    BY <1>1, <1>4
  <2> QED  BY <1>1, <2>1, <2>2
<1> QED  BY <1>1, <1>2, <1>4, <1>5, <1>6, <1>7

LEMMA TurnedProbe ==
    ASSUME Typed, Listed, Safe, ~Direct, Probe
    PROVE  Safe'
<1> SUFFICES ASSUME ~disturbed' PROVE Safe'
  BY DEF Safe
<1>1. ~disturbed /\ pc \in {"probe", "pulls"} /\ pc \in Calling
  BY ProbeBegins DEF Calling
<1>2. /\ provider \in {"gitea", "gitea_issues"} /\ sort \in {"number_asc", "recent_created"}
      /\ pc # "pulls" /\ Len(got) = 0 /\ TurnedCall
  BY <1>1 DEF Direct, OnGitea, Typed, TotalsAreThere, GotWhileReading, Safe
<1>3. /\ Window \in Nat /\ ProbeLimit \in Nat /\ ProbeLimit <= Window /\ ProbeLimit <= PageSize
      /\ ProbeLimit = (IF Window < PageSize THEN Window ELSE PageSize)
      /\ Window = Offset + Limit /\ Limit \in Nat /\ Offset \in Nat
      /\ cursor \in Nat \cup {Null} /\ made \in Nat
      /\ Len(order) \in Nat /\ order \in Seq(1..made) /\ <<>> \in Seq(1..made)
  <2>1. ProbeLimit = IF Window < PageSize THEN Window ELSE PageSize
    BY DEF ProbeLimit, Smaller
  <2>2. cursor \in Nat \cup {Null} /\ made \in Nat /\ Len(order) \in Nat /\ order \in Seq(1..made)
    BY DueIs
  <2>3. Window \in Nat /\ ProbeLimit \in 1..PageSize /\ PageSize \in Nat /\ ProbeLimit <= Window
        /\ Window = Offset + Limit /\ Limit \in Nat /\ Offset \in Nat
    BY <2>2, Sizes
  <2>4. <<>> \in Seq(1..made)
    OBVIOUS
  <2> QED  BY <2>1, <2>2, <2>3, <2>4
<1>4. /\ Probed \in Seq(1..made) /\ Len(Probed) \in Nat
      /\ Len(Probed) = (IF ProbeLimit < Len(order) THEN ProbeLimit ELSE Len(order))
      /\ \A k \in 1..Len(Probed) : Probed[k] = order[k]
  BY ProbedIs DEF Smaller
<1>5. CASE Due = {}
  <2>1. Due' = {} /\ ~Direct'
    <3>1. steady' = steady /\ shown \subseteq shown' /\ UNCHANGED <<provider, order, sort>>
      BY <1>2 DEF Probe, ProbeUnusable, ProbeTooLong, ProbeTail, ProbeSuffices, ProbeSeeds, ListIssues,
             SearchTotal, SearchLost, PullsTooMany, PullsSuffice, PullsSeedLink, PullsSeedOffset,
             PullsAreAll, StartWalk, Answer, Emit, forge, history
    <3> QED  BY <1>5, <3>1, SameRanks DEF Due
  <2> QED  BY <2>1 DEF Safe, Owed, DirectCall, TurnedCall, Done
<1> SUFFICES ASSUME Due # {} PROVE Safe'
  BY <1>5
<1>6. /\ Owed(Offset) /\ (cursor # Null => Owed(Offset + Extra))
      /\ (ByNumber /\ cursor # Null) => Limit >= PageSize
  BY <1>2 DEF TurnedCall
<1>7. order # <<>> /\ Len(order) > 0
  <2>1. PICK n \in Due : n \in Open
    BY DueIs
  <2> QED  BY <2>1, PlaceIs, <1>3 DEF Typed, ForgeTyped
<1>8. CASE ProbeUnusable
  BY <1>2, <1>7, <1>8 DEF ProbeUnusable, FromTheOtherEnd, AskForge
<1>9. ASSUME WrongEnd, provider = "gitea" PROVE Len(Probed) = Len(order) /\ Len(order) <= ProbeLimit
  <2>1. Probed = order
    BY <1>2, <1>9 DEF WrongEnd, FromTheOtherEnd
  <2>2. Len(Probed) = Len(order)
    BY <2>1
  <2> QED  BY <1>3, <1>4, <2>2
<1>10. AskForge => provider = "gitea"
  BY <1>2 DEF AskForge
<1>11. CASE ProbeTooLong
  <2>1. Len(order) <= ProbeLimit /\ Len(order) > CompliantMax
    BY <1>9, <1>10, <1>11 DEF ProbeTooLong, TrustedTotal
  <2>2. CompliantMax \in Nat /\ PageSize \in Nat /\ PageSize <= CompliantMax
    BY PagesAre
  <2>3. \A a, b, c, d \in Nat : ~(a <= b /\ b <= c /\ c <= d /\ a > d)
    OBVIOUS
  <2> QED  BY <1>3, <2>1, <2>2, <2>3
<1>12. CASE ProbeTail
  <2>1. /\ UNCHANGED <<provider, order, sort, cursor, steady, shown>> /\ pc' = "tail"
        /\ pc' \in Calling /\ AtTail /\ total' = Len(order) /\ Len(order) > Window
    BY <1>12 DEF ProbeTail, forge, history, Calling, AtTail
  <2>2. Grown' = 0
    <3>1. Len(order') = total' /\ total' \in Nat
      BY <1>3, <2>1
    <3>2. \A x \in Nat : ~(x > x)
      OBVIOUS
    <3>3. ~(Len(order') > total')
      BY <3>1, <3>2
    <3> QED  BY <3>3 DEF Grown
  <2>3. Owed(Offset + Grown)'
    <3>1. Offset' + Grown' = Offset
      BY <1>3, <2>1, <2>2, Same
    <3>2. \A n \in Due' : Rank(n)' >= Offset
      BY <1>6, <2>1, SameReads, Same DEF Owed
    <3> QED  BY <3>1, <3>2 DEF Owed
  <2> QED  BY <1>2, <2>1, <2>3, TurnedGoesOn
<1>13. CASE ProbeSuffices
  <2>1. /\ Len(order) <= ProbeLimit /\ Len(Probed) = Len(order)
        /\ Answer(Slice(Probed, FALSE, Len(order)))
    BY <1>9, <1>10, <1>13 DEF ProbeSuffices, TrustedTotal
  <2>2. Block(Probed, 0, 0)
    <3>1. 0 + Len(Probed) + 0 = Len(order)
      BY <1>3, <2>1
    <3>2. \A k \in 1..Len(Probed) : 0 + k = k
      BY <1>4
    <3> QED  BY <1>4, <3>1, <3>2 DEF Block
  <2>3. Seen(Probed) >= Len(order) /\ Seen(Probed) \in Nat
    <3>1. Reach(Probed) = Len(order)
      BY <1>3, <2>1 DEF Reach, Smaller
    <3> QED  BY <1>3, <3>1 DEF Seen
  <2>4. Slice(Probed, FALSE, Len(order)).next = Null
    <3> DEFINE n == Len(order)
               items == Probed
    <3>1. n \in Nat /\ made \in Nat /\ cursor \in Nat \cup {Null} /\ items \in Seq(1..made)
      BY <1>3, <1>4
    <3>2. ~(Seen(items) < n)
      BY <1>3, <2>3
    <3> HIDE DEF n, items
    <3>3. \A t \in BOOLEAN : ~t => Slice(items, t, n).next = Null
      <4> SUFFICES ASSUME NEW t \in BOOLEAN, ~t PROVE Slice(items, t, n).next = Null
        OBVIOUS
      <4> DEFINE p == Slice(items, t, n)
      <4>1. /\ (t /\ cursor = Null) => p.next = Null
            /\ ~(t /\ cursor = Null) =>
                  /\ \A k \in (Offset + 1)..Reach(items) : Ordered(items)[k] \in Range(p.numbers)
                  /\ p.next = IF t \/ Seen(items) < n THEN Seen(items) ELSE Null
        BY <3>1, SliceShows
      <4> HIDE DEF p
      <4> QED  BY <3>2, <4>1 DEF p
    <3> QED  BY <3>3 DEF n, items
  <2>5. pc' = "finished"
    BY <2>1, <2>4 DEF Answer
  <2>6. Extra = 0
    BY <1>10, <1>13 DEF ProbeSuffices, TrustedTotal, Extra
  <2>7. Owed(Offset + 0)
    <3>1. Offset + 0 = Offset
      BY <1>3
    <3> QED  BY <1>6, <3>1
  <2>8. Counts(FALSE, Len(order))
    <3>1. \A n \in Due : Rank(n) < Len(order)
      <4> SUFFICES ASSUME NEW n \in Due PROVE Rank(n) < Len(order)
        OBVIOUS
      <4>1. Rank(n) \in 0..(Len(order) - 1)
        BY DueIs
      <4> QED  BY <1>3, <4>1
    <3> QED  BY <3>1 DEF Counts
  <2>9. \A n \in Due' : Rank(n)' >= Seen(Probed)
    <3>1. Extra <= 0 /\ 0 \in Nat
      BY <2>6
    <3> QED  BY <1>3, <1>4, <2>1, <2>2, <2>7, <3>1, TurnedShows
  <2>10. Done'
    BY <1>3, <1>4, <2>1, <2>8, <2>9, Completes
  <2> QED  BY <2>5, <2>10 DEF Safe, Calling
<1>14. CASE ProbeSeeds
  <2>1. /\ StartWalk("page", Probed, Len(order), 2, PageSize, MaxPages)
        /\ Len(order) > Window /\ Len(order) <= CompliantMax /\ NumberSort /\ AskForge
    BY <1>14 DEF ProbeSeeds, TrustedTotal
  <2>2. /\ UNCHANGED <<provider, order, sort, cursor, steady, shown>> /\ pc' = "page"
        /\ pc' \in Calling /\ got' = Probed /\ walked' = Len(Probed) /\ total' = Len(order)
        /\ page' = 2 /\ limit' = PageSize /\ lastPage' = MaxPages
    BY <2>1 DEF StartWalk, forge, Calling
  <2>3. ByNumber /\ ByNumber'
    BY <1>2, <1>10, <2>1, <2>2 DEF ByNumber, NumberSort
  <2>4. Len(Probed) = ProbeLimit
    BY <1>3, <1>4, <2>1
  <2>5. CASE Limit >= PageSize
    <3>1. Len(Probed) = PageSize
      BY <1>3, <2>4, <2>5, PagesAre
    <3>2. Prefix'
      BY <1>3, <1>4, <2>2 DEF Prefix
    <3>3. WholeWalk'
      BY <1>3, <1>7, <2>1, <2>2, <2>3, <2>5, <3>1, <3>2, PagesAre DEF WholeWalk
    <3> QED  BY <1>2, <2>2, <3>3, TurnedGoesOn
  <2>6. CASE Limit < PageSize
    <3>1. cursor = Null /\ Offset = 0
      BY <1>3, <1>6, <2>3, <2>6, PagesAre DEF Offset
    <3>2. Len(Probed) = Limit /\ Len(Probed) < Len(order)
      BY <1>3, <2>1, <2>4, <2>6, <3>1, PagesAre
    <3>3. walked' <= Limit + Passed(page' - 1, PageSize)
      <4>1. page' - 1 = 1
        BY <2>2
      <4>2. Limit + 0 = Limit
        BY <1>3
      <4> QED  BY <1>3, <2>2, <3>2, <4>1, <4>2, PagesAre
    <3>4. ShortWalk'
      BY <1>3, <2>2, <2>3, <2>6, <3>1, <3>2, <3>3 DEF ShortWalk
    <3> QED  BY <1>2, <2>2, <3>4, TurnedGoesOn
  <2> QED  BY <1>3, <2>5, <2>6, PagesAre
<1>15. CASE ListIssues
  <2>1. /\ UNCHANGED <<provider, order, sort, cursor, steady, shown>> /\ pc' = "page"
        /\ pc' \in Calling /\ got' = <<>> /\ total' = Null /\ provider = "gitea_issues"
        /\ page' = 1 /\ limit' = PageSize /\ lastPage' = MaxPages
    BY <1>15 DEF ListIssues, StartWalk, forge, Calling
  <2>2. Len(got') = 0
    BY <2>1
  <2>3. Prefix'
    BY <1>3, <2>1, <2>2 DEF Prefix
  <2>4. IssueWalk'
    BY <2>1, <2>2, <2>3, PagesAre DEF IssueWalk
  <2> QED  BY <1>2, <2>1, <2>4, TurnedGoesOn
<1>16. CASE SearchTotal \/ SearchLost \/ PullsTooMany \/ PullsSuffice \/ PullsSeedLink \/ PullsSeedOffset
            \/ PullsAreAll
  BY <1>2, <1>16 DEF SearchTotal, SearchLost, PullsTooMany, PullsSuffice, PullsSeedLink,
                     PullsSeedOffset, PullsAreAll
<1> QED  BY <1>8, <1>11, <1>12, <1>13, <1>14, <1>15, <1>16 DEF Probe

(* What a call whose list is turned round may rest on.                      *)
LEMMA TurnedIs ==
    ASSUME Typed, Listed, ~Direct
    PROVE  /\ provider \in {"gitea", "gitea_issues"} /\ sort \in {"number_asc", "recent_created"}
           /\ provider # "github"
           /\ made \in Nat /\ order \in Seq(1..made) /\ Len(order) \in Nat
           /\ cursor \in Nat \cup {Null} /\ Offset \in Nat /\ Limit \in Nat
           /\ Window \in Nat /\ Window = Offset + Limit /\ Extra \in Nat
           /\ got \in Seq(1..made) /\ Len(got) \in Nat /\ walked \in Nat /\ Len(got) <= walked
           /\ total \in Nat \cup {Null}
<1>1. provider \in {"gitea", "gitea_issues"} /\ sort \in {"number_asc", "recent_created"}
  BY DEF Direct, OnGitea
<1>2. /\ made \in Nat /\ order \in Seq(1..made) /\ Len(order) \in Nat
      /\ cursor \in Nat \cup {Null} /\ Extra \in Nat
  BY DueIs, ExtraIs
<1>3. Offset \in Nat /\ Limit \in Nat /\ Window \in Nat /\ Window = Offset + Limit
  BY <1>2, Sizes
<1>4. /\ got \in Seq(1..made) /\ Len(got) \in Nat /\ walked \in Nat /\ Len(got) <= walked
      /\ total \in Nat \cup {Null}
  BY DEF Typed, ListingTyped
<1> QED  BY <1>1, <1>2, <1>3, <1>4

(* The pages up to the tail page hold the total.                            *)
LEMMA TailPasses ==
    ASSUME total \in Nat
    PROVE  total <= Passed(TailPage, PageSize) + PageSize
<1> DEFINE s == PageSize
           t == total + s - 1
<1>1. s \in Nat /\ s >= 1 /\ t \in Nat /\ total \in Nat
  BY SizeAssumption
<1> HIDE DEF s, t
<1>2. t \div s \in Nat /\ t % s \in 0..(s - 1) /\ t = s * (t \div s) + (t % s)
  BY <1>1
<1>3. \A d \in Nat : s * d \in Nat /\ (d - 1) * s + s = s * d
  BY <1>1
<1>4. total <= s * (t \div s)
  <2> DEFINE d == t \div s
             e == s * d
             r == t % s
  <2>1. e \in Nat /\ r \in Nat /\ r <= s - 1 /\ t = e + r
    BY <1>1, <1>2, <1>3
  <2> HIDE DEF e, r
  <2>2. total = t - s + 1
    BY <1>1 DEF t
  <2>3. total <= e
    BY <1>1, <2>1, <2>2
  <2> QED  BY <2>3 DEF e
<1>5. TailPage = t \div s
  BY DEF TailPage, t, s
<1>6. Passed(TailPage, PageSize) + PageSize = s * (t \div s)
  BY <1>2, <1>3, <1>5 DEF Passed, s
<1> QED  BY <1>4, <1>6

(* A full page, or what there is of one, up to the end of the list.         *)
LEMMA PageBlock ==
    ASSUME Typed, Listed, NEW p \in Nat \ {0}, NEW a, a = Passed(p, PageSize), PageItems(p, PageSize) # <<>>
    PROVE  /\ a \in Nat /\ a < Len(order) /\ PageItems(p, PageSize) \in Seq(1..made)
           /\ \E c \in Nat : /\ Block(PageItems(p, PageSize), a, c)
                             /\ c = IF a + PageSize < Len(order) THEN Len(order) - (a + PageSize) ELSE 0
<1> DEFINE items == PageItems(p, PageSize)
           m == Len(order)
           s == PageSize
           c == IF a + s < m THEN m - (a + s) ELSE 0
<1>1. order \in Seq(1..made) /\ m \in Nat /\ s \in Nat \ {0} /\ s \in Nat
  BY DueIs, SizeAssumption
<1>2. a \in Nat /\ items = Part(order, a, s)
  BY <1>1, PageIsPart
<1>3. /\ Part(order, a, s) \in Seq(1..made)
      /\ a >= m => Len(Part(order, a, s)) = 0
      /\ a < m => Len(Part(order, a, s)) = Smaller(a + s, m) - a
      /\ \A k \in 1..Len(Part(order, a, s)) : Part(order, a, s)[k] = order[a + k]
  BY <1>1, <1>2, PartOf
<1> HIDE DEF items, m, s
<1>4. /\ items \in Seq(1..made) /\ items # <<>>
      /\ a >= m => Len(items) = 0
      /\ a < m => Len(items) = IF a + s < m THEN s ELSE m - a
      /\ \A k \in 1..Len(items) : items[k] = order[a + k]
  <2>1. a < m => Len(items) = IF a + s < m THEN s ELSE m - a
    <3>1. Smaller(a + s, m) = IF a + s < m THEN a + s ELSE m
      BY DEF Smaller
    <3>2. (a + s) - a = s
      BY <1>1, <1>2
    <3> QED  BY <1>2, <1>3, <3>1, <3>2
  <2> QED  BY <1>2, <1>3, <2>1 DEF items, s
<1>5. a < m
  BY <1>1, <1>2, <1>4
<1>6. c \in Nat /\ a + Len(items) + c = m
  <2>1. a \in Nat /\ s \in Nat /\ m \in Nat /\ a < m
        /\ Len(items) = IF a + s < m THEN s ELSE m - a
    BY <1>1, <1>2, <1>4, <1>5
  <2> HIDE DEF c
  <2>2. CASE a + s < m
    <3>1. Len(items) = s /\ c = m - (a + s)
      BY <2>1, <2>2 DEF c
    <3>2. a \in Nat /\ s \in Nat /\ m \in Nat /\ c = m - (a + s)
      BY <2>1, <3>1
    <3>3. \A x, z \in Nat : x < z => z - x \in Nat /\ x + (z - x) = z
      OBVIOUS
    <3>4. a + s \in Nat
      BY <3>2
    <3>5. c \in Nat /\ (a + s) + c = m
      BY <2>2, <3>2, <3>3, <3>4, Zenon
    <3> QED  BY <3>1, <3>5, Zenon
  <2>3. CASE ~(a + s < m)
    <3>1. Len(items) = m - a /\ c = 0
      BY <2>1, <2>3 DEF c
    <3> QED  BY <2>1, <3>1
  <2> QED  BY <2>2, <2>3
<1>7. Block(items, a, c)
  BY <1>4, <1>6 DEF Block, m
<1> QED  BY <1>2, <1>4, <1>5, <1>6, <1>7 DEF items, m, s

LEMMA TurnedTail ==
    ASSUME Typed, Listed, Begun, ~Direct, TurnedCall, Due # {}, ~disturbed', pc = "tail",
           ReadTail \/ TailFails \/ TailFailsAgain
    PROVE  Safe'
<1>1. /\ AtTail /\ total > Window /\ Owed(Offset + Grown) /\ total \in 1..CompliantMax /\ total \in Nat
      /\ ~ByNumber /\ Extra = 0
  <2>1. total \in 1..CompliantMax
    BY DEF Typed, TotalsAreThere
  <2>2. CompliantMax \in Nat
    BY DueIs, Sizes
  <2> QED  BY <2>1, <2>2 DEF TurnedCall, AtTail, ByNumber, Extra
<1>2. TailPage \in Nat \ {0} /\ TailPage \in 1..MaxPages
  <2>1. MaxPages \in Nat
    BY SizeAssumption
  <2> QED  BY <1>1, <2>1, TailPageIs
<1>3. CASE ReadTail
  <2> DEFINE items == PageItems(TailPage, PageSize)
             a == Passed(TailPage, PageSize)
  <2>1. items # <<>> /\ Answer(Slice(items, FALSE, total))
    BY <1>3 DEF ReadTail, Emit
  <2>2. PICK c \in Nat :
            /\ Block(items, a, c)
            /\ c = IF a + PageSize < Len(order) THEN Len(order) - (a + PageSize) ELSE 0
    BY <1>2, <2>1, PageBlock
  <2>3. items \in Seq(1..made) /\ a \in Nat
    BY <1>2, <2>1, PageBlock
  <2>4. total <= a + PageSize
    BY <1>1, TailPasses
  <2> HIDE DEF items, a
  <2>5. c <= Grown
    <3>1. Len(order) \in Nat /\ PageSize \in Nat
      BY DueIs, Sizes
    <3> QED  BY <1>1, <2>2, <2>3, <2>4, <3>1 DEF Grown
  <2>6. Owed(Offset + c)
    <3>1. Offset \in Nat /\ Grown \in Nat
      BY <1>1, TurnedIs DEF Grown
    <3>2. \A n \in Due : Rank(n) >= Offset + Grown /\ Rank(n) \in Nat
      BY <1>1, DueIs DEF Owed
    <3>3. \A n \in Due : Rank(n) >= Offset + c
      BY <2>2, <2>5, <3>1, <3>2
    <3> QED  BY <3>3 DEF Owed
  <2>7. Extra <= c
    BY <1>1, <2>2
  <2>8. Counts(FALSE, total)
    BY <1>1 DEF Counts
  <2> QED  BY <1>1, <2>1, <2>2, <2>3, <2>6, <2>7, <2>8, TurnedEnds
<1>4. CASE TailFails
  <2>1. /\ UNCHANGED <<provider, order, sort, cursor, steady, shown, total>> /\ pc' = "tail" /\ pc' \in Calling
    BY <1>4 DEF TailFails, forge, history, Calling
  <2>2. Owed(Offset + Grown)'
    <3>1. Grown' = Grown /\ Offset' = Offset /\ Due' = Due /\ \A n : Rank(n)' = Rank(n)
      BY <2>1, Same DEF Grown, Due
    <3> QED  BY <1>1, <3>1 DEF Owed
  <2>3. total' > Window
    BY <1>1, <2>1
  <2> QED  BY <1>1, <2>1, <2>2, <2>3, TurnedGoesOn
<1>5. CASE TailFailsAgain
  <2>1. /\ UNCHANGED <<provider, order, sort, cursor, steady, shown, total>> /\ pc' = "page" /\ pc' \in Calling
        /\ got' = <<>> /\ page' = TailPage /\ limit' = PageSize /\ lastPage' = TailPage
    BY <1>5 DEF TailFailsAgain, StartWalk, forge, Calling
  <2>2. ~(Window < PageSize)
    BY <1>5 DEF TailFailsAgain
  <2>3. Owed(Offset + Grown)'
    <3>1. Grown' = Grown /\ Offset' = Offset /\ Due' = Due /\ \A n : Rank(n)' = Rank(n)
      BY <2>1, Same DEF Grown, Due
    <3> QED  BY <1>1, <3>1 DEF Owed
  <2>4. TailWalk'
    <3>1. AtTail' /\ TailPage' = TailPage /\ Window' = Window
      <4>1. AtTail' /\ Window' = Window
        BY <1>1, <2>1, Same
      <4>2. TailPage' = TailPage
        <5>1. total' = total
          BY <2>1
        <5> QED  BY <5>1 DEF TailPage
      <4> QED  BY <4>1, <4>2
    <3>2. Window >= PageSize
      <4>1. Window \in Nat /\ PageSize \in Nat
        BY DueIs, Sizes, Zenon
      <4> QED  BY <2>2, <4>1
    <3>3. Len(got') = 0
      BY <2>1
    <3> QED  BY <1>1, <2>1, <2>3, <3>1, <3>2, <3>3 DEF TailWalk
  <2> QED  BY <2>1, <2>4, TurnedGoesOn
<1> QED  BY <1>3, <1>4, <1>5

(* The last page of a list that is turned round, read by itself.            *)
LEMMA TailWalkSafe ==
    ASSUME Typed, Listed, ~Direct, Due # {}, Owed(Offset), ~disturbed', pc = "page",
           limit = PageSize, TailWalk,
           ReadOn \/ EndOfList \/ LastPage \/ LastIssuePage \/ LastTailPage \/ BackOff
    PROVE  Safe'
<1>1. /\ AtTail /\ total \in Nat /\ total # Null /\ total > Window /\ Window >= PageSize
      /\ page = TailPage /\ lastPage = TailPage /\ Owed(Offset + Grown)
      /\ ~ByNumber /\ Extra = 0 /\ Len(got) = 0
  <2>1. total \in Nat
    BY DueIs, Sizes DEF TailWalk
  <2> QED  BY <2>1, NullAssumption DEF TailWalk, AtTail, ByNumber, Extra
<1>2. /\ page \in Nat \ {0} /\ PageSize \in Nat /\ Window \in Nat /\ Offset \in Nat
      /\ Len(order) \in Nat /\ order \in Seq(1..made) /\ made \in Nat
  <2>1. page \in Nat \ {0}
    BY ItemsAre
  <2> QED  BY <2>1, DueIs, Sizes
<1>3. CASE ReadOn
  BY <1>1, <1>2, <1>3 DEF ReadOn
<1>4. CASE LastPage
  BY <1>1, <1>4 DEF LastPage, TailOnly, AtTail
<1>5. CASE LastIssuePage
  BY <1>1, <1>5 DEF LastIssuePage, AtTail
<1>6. CASE BackOff
  <2>1. ~(page > 1)
    BY <1>6 DEF BackOff
  <2>2. page = 1
    BY <1>2, <2>1
  <2>3. Passed(1, PageSize) = 0
    BY <1>2 DEF Passed
  <2>4. total <= 0 + PageSize
    BY <1>1, <2>2, <2>3, TailPasses
  <2> QED  BY <1>1, <1>2, <2>4
<1>7. /\ Kept \in Seq(1..made) /\ Len(Kept) = Len(Items) /\ Len(Items) \in Nat
      /\ \A k \in 1..Len(Kept) : Kept[k] = Items[k]
  <2> DEFINE t == got \o Items
  <2>1. Kept = FirstOf(t, Window)
    BY <1>1 DEF Kept, FullCollect, AtTail, NumberSort
  <2>2. /\ Items \in Seq(1..made) /\ Len(Items) \in Nat /\ Len(Items) <= PageSize
        /\ t \in Seq(1..made) /\ Len(t) = Len(got) + Len(Items)
    BY KeptTyped
  <2>3. \A k \in 1..Len(Items) : t[k] = Items[k]
    <3>1. got \in Seq(1..made)
      BY DEF Typed, ListingTyped
    <3>2. got = <<>>
      BY <1>1, <3>1
    <3> QED  BY <2>2, <3>2
  <2> HIDE DEF t
  <2>4. Len(t) = Len(Items)
    BY <1>1, <2>2
  <2>5. /\ FirstOf(t, Window) \in Seq(1..made)
        /\ Len(FirstOf(t, Window)) = Smaller(Window, Len(t))
        /\ \A k \in 1..Len(FirstOf(t, Window)) : FirstOf(t, Window)[k] = t[k]
    BY <1>2, <2>2, FirstOfIs
  <2>6. Smaller(Window, Len(t)) = Len(Items)
    BY <1>1, <1>2, <2>2, <2>4 DEF Smaller
  <2> QED  BY <2>1, <2>2, <2>3, <2>5, <2>6
<1>8. \E a, c \in Nat : Block(Kept, a, c) /\ Owed(Offset + c)
  <2>1. Items = PageItems(page, PageSize)
    BY DEF Items
  <2>2. CASE Items = <<>>
    <3>1. Len(Kept) = 0
      BY <1>7, <2>2
    <3>2. Len(order) + Len(Kept) + 0 = Len(order) /\ Offset + 0 = Offset
      BY <1>2, <3>1
    <3>3. Block(Kept, Len(order), 0)
      BY <3>1, <3>2 DEF Block
    <3> QED  BY <1>2, <3>2, <3>3
  <2>3. CASE Items # <<>>
    <3> DEFINE a == Passed(page, PageSize)
    <3>1. PICK c \in Nat :
              /\ Block(Items, a, c)
              /\ c = IF a + PageSize < Len(order) THEN Len(order) - (a + PageSize) ELSE 0
      BY <1>2, <2>1, <2>3, PageBlock
    <3>2. a \in Nat
      BY <1>2, <2>1, <2>3, PageBlock
    <3>3. total <= a + PageSize
      BY <1>1, TailPasses
    <3> HIDE DEF a
    <3>4. c <= Grown
      BY <1>1, <1>2, <3>1, <3>2, <3>3 DEF Grown
    <3>5. \A n \in Due : Rank(n) >= Offset + c
      <4>1. \A n \in Due : Rank(n) >= Offset + Grown /\ Rank(n) \in Nat
        BY <1>1, DueIs DEF Owed
      <4>2. Grown \in Nat
        BY <1>1, <1>2 DEF Grown
      <4> QED  BY <1>2, <3>1, <3>4, <4>1, <4>2
    <3>6. Block(Kept, a, c)
      BY <1>7, <3>1 DEF Block
    <3> QED  BY <3>2, <3>5, <3>6 DEF Owed
  <2> QED  BY <2>2, <2>3
<1>9. ASSUME NEW t \in BOOLEAN, Answer(Slice(Kept, t, total)) PROVE Safe'
  <2>1. PICK a \in Nat, c \in Nat : Block(Kept, a, c) /\ Owed(Offset + c)
    BY <1>8
  <2>2. Extra <= c
    BY <1>1, <2>1
  <2>3. Counts(t, total)
    BY <1>1 DEF Counts
  <2> QED  BY <1>1, <1>7, <1>9, <2>1, <2>2, <2>3, TurnedEnds
<1>10. CASE EndOfList
  <2>1. FinishWalk(Kept, walked + Len(Items), FALSE)
    BY <1>10 DEF EndOfList
  <2>2. Answer(Slice(Kept, FALSE \/ walked + Len(Items) < total, total))
    BY <1>1, <2>1 DEF FinishWalk, Emit
  <2> QED  BY <1>9, <2>2
<1>11. CASE LastTailPage
  <2>1. FinishWalk(Kept, walked + Len(Items), TRUE)
    BY <1>11 DEF LastTailPage
  <2>2. Answer(Slice(Kept, TRUE \/ walked + Len(Items) < total, total))
    BY <1>1, <2>1 DEF FinishWalk, Emit
  <2> QED  BY <1>9, <2>2
<1> QED  BY <1>3, <1>4, <1>5, <1>6, <1>10, <1>11

(* What follows a beginning of a list makes a longer one.                   *)
Begins(items, s) == \A k \in 1..Len(items) : items[k] = s[k]

LEMMA PrefixMore ==
    ASSUME NEW S, NEW s \in Seq(S), NEW items \in Seq(S), NEW a \in Nat, NEW l \in Nat
    PROVE  (Len(items) = a /\ Begins(items, s)) => Begins(More(items, s, a, l), s)
<1> DEFINE t == More(items, s, a, l)
<1>1. /\ t \in Seq(S)
      /\ \A k \in 1..Len(items) : t[k] = items[k]
      /\ \A k \in (Len(items) + 1)..Len(t) :
            a + (k - Len(items)) \in 1..Len(s) /\ t[k] = s[a + (k - Len(items))]
  <2>1. t \in Seq(S)
    BY MoreIs, Zenon
  <2>2. \A k \in 1..Len(items) : t[k] = items[k]
    BY <2>1, MoreIs
  <2>3. \A k \in (Len(items) + 1)..Len(t) :
            a + (k - Len(items)) \in 1..Len(s) /\ t[k] = s[a + (k - Len(items))]
    BY <2>1, MoreIs
  <2> QED  BY <2>1, <2>2, <2>3
<1> HIDE DEF t
<1>2. Len(t) \in Nat
  BY <1>1
<1> SUFFICES ASSUME Len(items) = a, \A k \in 1..a : items[k] = s[k]
             PROVE  \A k \in 1..Len(t) : t[k] = s[k]
  BY DEF t, Begins
<1>3. ASSUME NEW k \in 1..Len(t) PROVE t[k] = s[k]
  <2>1. CASE k <= a
    <3>1. k \in 1..a
      BY <1>2, <2>1
    <3> QED  BY <1>1, <3>1
  <2>2. CASE k > a
    <3>1. k \in (Len(items) + 1)..Len(t) /\ a + (k - Len(items)) = k
      BY <1>2, <2>2
    <3> QED  BY <1>1, <3>1
  <2> QED  BY <1>2, <2>1, <2>2
<1> QED  BY <1>3

(* The next page of a list that is collected from its first page on.        *)
LEMMA PrefixGrows ==
    ASSUME Typed, Listed, pc = "page", limit = PageSize, FullCollect, Prefix,
           Len(got) = Passed(page, PageSize)
    PROVE  /\ Kept \in Seq(1..made) /\ Len(Kept) \in Nat /\ Len(Kept) <= Len(order)
           /\ Block(Kept, 0, Len(order) - Len(Kept))
           /\ \A k \in 1..Len(Kept) : Kept[k] = order[k]
           /\ ~Short => Len(Kept) = Passed(page + 1, PageSize)
           /\ Short => Len(Kept) = Len(order)
<1> DEFINE a == Passed(page, PageSize)
           m == Len(order)
           t == More(got, order, a, PageSize)
<1>1. /\ got \in Seq(1..made) /\ order \in Seq(1..made) /\ m \in Nat /\ Len(got) \in Nat
      /\ PageSize \in Nat /\ made \in Nat /\ cursor \in Nat \cup {Null}
  BY DueIs, Sizes DEF Typed, ListingTyped
<1>2. /\ a \in Nat /\ Passed(page + 1, PageSize) = a + PageSize
      /\ Items = Part(order, a, PageSize)
      /\ ~Short => Len(Items) = PageSize /\ a + PageSize <= m
      /\ Short => (a >= m \/ a + Len(Items) = m)
  BY ItemsAre
<1>3. Kept = t
  BY <1>2 DEF Kept, More
<1>4. /\ Kept \in Seq(1..made) /\ Len(Items) \in Nat /\ Len(got \o Items) = Len(got) + Len(Items)
  BY KeptTyped
<1>5. Len(Kept) = a + Len(Items) /\ Len(got) = a /\ Len(got) <= m
  BY <1>4 DEF Kept, Prefix
<1>6. a >= m => Len(Items) = 0
  BY <1>1, <1>2, PartOf
<1> HIDE DEF a, m
<1> HIDE DEF t
<1>7. Begins(got, order) /\ Len(got) = a
  BY <1>5 DEF Prefix, Begins
<1>8. \A k \in 1..Len(Kept) : Kept[k] = order[k]
  <2>1. Begins(t, order)
    <3> DEFINE T == 1..made
    <3>1. order \in Seq(T) /\ got \in Seq(T)
      BY <1>1
    <3>2. a \in Nat /\ PageSize \in Nat
      BY <1>1, <1>2
    <3> HIDE DEF T
    <3> QED  BY <1>7, <3>1, <3>2, PrefixMore DEF t
  <2> QED  BY <1>3, <2>1 DEF Begins
<1>9. /\ Len(Kept) \in Nat /\ Len(Kept) <= m /\ 0 + Len(Kept) + (m - Len(Kept)) = m
      /\ ~Short => Len(Kept) = a + PageSize
      /\ Short => Len(Kept) = m
  <2>1. CASE ~Short
    BY <1>1, <1>2, <1>4, <1>5, <2>1
  <2>2. CASE Short
    <3>1. Len(Kept) = m
      BY <1>1, <1>2, <1>4, <1>5, <1>6, <2>2
    <3> QED  BY <1>1, <2>2, <3>1
  <2> QED  BY <2>1, <2>2
<1>10. Block(Kept, 0, m - Len(Kept))
  <2>1. \A k \in 1..Len(Kept) : 0 + k = k
    OBVIOUS
  <2> QED  BY <1>8, <1>9, <2>1 DEF Block, m
<1> QED  BY <1>2, <1>4, <1>8, <1>9, <1>10 DEF m, a

(* A walk that read too little of the list knows it by the total.           *)
LEMMA ShortWalkSafe ==
    ASSUME Typed, Listed, ~Direct, TurnedCall, Due # {}, ~disturbed', pc \in {"page", "confirm"},
           limit = PageSize, ShortWalk,
           ReadOn \/ EndOfList \/ LastPage \/ LastIssuePage \/ LastTailPage \/ ConfirmEnd \/ BackOff
    PROVE  Safe'
<1>1. /\ ByNumber /\ Limit < PageSize /\ cursor = Null /\ total \in Nat /\ total # Null
      /\ Len(order) <= total /\ walked < total
      /\ pc = "page" => page >= 2 /\ walked <= Limit + Passed(page - 1, PageSize)
  BY NullAssumption DEF ShortWalk
<1>2. /\ Limit \in Nat /\ PageSize \in Nat /\ walked \in Nat /\ Len(order) \in Nat
      /\ order \in Seq(1..made) /\ made \in Nat
  BY DueIs, Sizes DEF Typed, ListingTyped
<1>3. ASSUME pc = "page"
      PROVE  /\ walked + Len(Items) < total /\ walked + Len(Items) \in Nat
             /\ ~Short => walked + Len(Items) <= Limit + Passed(page, PageSize)
  <2> DEFINE a == Passed(page, PageSize)
             b == Passed(page - 1, PageSize)
  <2>1. page \in Nat \ {0} /\ page - 1 \in Nat \ {0} /\ (page - 1) + 1 = page
    <3>1. page \in Nat \ {0}
      BY <1>3, ItemsAre
    <3> QED  BY <1>1, <1>3, <3>1
  <2>2. a = b + PageSize /\ b \in Nat /\ a \in Nat
    BY <2>1, PagesAre
  <2>3. /\ Items = Part(order, a, PageSize)
        /\ ~Short => Len(Items) = PageSize /\ a + PageSize <= Len(order)
        /\ Short => (a >= Len(order) \/ a + Len(Items) = Len(order))
    BY <1>3, ItemsAre
  <2>4. walked <= Limit + b
    BY <1>1, <1>3
  <2>5. Len(Items) \in Nat /\ (a >= Len(order) => Len(Items) = 0)
    <3>1. a >= Len(order) => Len(Part(order, a, PageSize)) = 0
      BY <1>2, <2>2, PartOf
    <3> QED  BY <2>3, <3>1, KeptTyped
  <2> HIDE DEF a, b
  <2>6. CASE ~Short
    BY <1>1, <1>2, <2>2, <2>3, <2>4, <2>5, <2>6 DEF a
  <2>7. CASE Short
    BY <1>1, <1>2, <2>2, <2>3, <2>4, <2>5, <2>7 DEF a
  <2> QED  BY <2>6, <2>7
<1>4. CASE ReadOn
  <2>1. /\ UNCHANGED <<provider, order, sort, cursor, steady, shown, total, limit>> /\ pc = "page" /\ pc' = "page"
        /\ pc' \in Calling /\ walked' = walked + Len(Items) /\ page' = page + 1 /\ ~Short
    BY <1>4 DEF ReadOn, forge, history, Calling
  <2>2. /\ walked' < total /\ walked' <= Limit + Passed(page, PageSize)
    BY <1>3, <2>1
  <2>3. page' - 1 = page /\ page' >= 2
    <3>1. page \in Nat \ {0}
      BY <2>1, ItemsAre
    <3> QED  BY <2>1, <3>1
  <2>4. walked' <= Limit + Passed(page' - 1, PageSize)
    BY <2>2, <2>3
  <2>5. ByNumber'
    BY <1>1, <2>1, Same
  <2>6. ShortWalk'
    BY <1>1, <2>1, <2>2, <2>3, <2>4, <2>5 DEF ShortWalk
  <2> QED  BY <2>1, <2>6, TurnedGoesOn
<1>5. CASE LastPage
  <2>1. /\ UNCHANGED <<provider, order, sort, cursor, steady, shown, total, limit>> /\ pc = "page" /\ pc' = "confirm"
        /\ pc' \in Calling /\ walked' = walked + Len(Items)
    BY <1>5 DEF LastPage, forge, history, Calling
  <2>2. walked' < total
    BY <1>3, <2>1
  <2>3. ByNumber'
    BY <1>1, <2>1, Same
  <2>4. ShortWalk'
    BY <1>1, <2>1, <2>2, <2>3 DEF ShortWalk
  <2> QED  BY <2>1, <2>4, TurnedGoesOn
<1>6. CASE LastIssuePage
  BY <1>1, <1>6 DEF LastIssuePage, ByNumber
<1>7. CASE LastTailPage
  BY <1>1, <1>7 DEF LastTailPage, TailOnly, ByNumber
<1>8. CASE BackOff
  <2>1. pc = "page" /\ ~(page > 1)
    BY <1>8 DEF BackOff
  <2>2. page \in Nat \ {0}
    BY <2>1, ItemsAre
  <2> QED  BY <1>1, <2>1, <2>2
<1>9. CASE EndOfList
  <2>1. FinishWalk(Kept, walked + Len(Items), FALSE) /\ pc = "page"
    BY <1>9 DEF EndOfList
  <2>2. walked + Len(Items) < total
    BY <1>3, <2>1
  <2>3. Answer(Slice(Kept, FALSE \/ walked + Len(Items) < total, total))
    BY <1>1, <2>1 DEF FinishWalk, Emit
  <2>4. (FALSE \/ walked + Len(Items) < total) = TRUE
    BY <2>2
  <2>5. Answer(Slice(Kept, TRUE, total))
    BY <2>3, <2>4
  <2> QED  BY <1>1, <2>5, CutEnds
<1>10. CASE ConfirmEnd
  <2> DEFINE more == PageItems(lastPage + 1, 1) # <<>>
  <2>1. FinishWalk(got, walked, more)
    BY <1>10 DEF ConfirmEnd
  <2> HIDE DEF more
  <2>2. Answer(Slice(got, more \/ walked < total, total))
    BY <1>1, <2>1 DEF FinishWalk, Emit
  <2>3. (more \/ walked < total) = TRUE
    BY <1>1
  <2>4. Answer(Slice(got, TRUE, total))
    BY <2>2, <2>3
  <2> QED  BY <1>1, <2>4, CutEnds
<1> QED  BY <1>4, <1>5, <1>6, <1>7, <1>8, <1>9, <1>10

(* A walk that collects the whole list.                                     *)
LEMMA WholeWalkSafe ==
    ASSUME Typed, Listed, Covered, ~Direct, TurnedCall, Due # {}, ~disturbed, ~disturbed', pc \in {"page", "confirm"},
           limit = PageSize, WholeWalk,
           ReadOn \/ EndOfList \/ LastPage \/ LastIssuePage \/ LastTailPage \/ ConfirmEnd \/ BackOff
    PROVE  Safe'
<1>1. /\ ByNumber /\ Limit >= PageSize /\ total \in 1..CompliantMax /\ total \in Nat /\ total # Null
      /\ Len(order) <= total /\ page >= 2 /\ lastPage = MaxPages /\ Prefix
      /\ pc = "page" => Len(got) = Passed(page, PageSize)
      /\ pc = "confirm" => Len(got) = Len(order)
      /\ FullCollect /\ Extra = 0
  <2>1. WholeWalk
    OBVIOUS
  <2>2. total \in Nat
    BY <2>1, DueIs, Sizes DEF WholeWalk
  <2> QED  BY <2>1, <2>2, NullAssumption DEF WholeWalk, FullCollect, NumberSort, ByNumber, Extra
<1>2. /\ PageSize \in Nat /\ Len(order) \in Nat /\ order \in Seq(1..made) /\ made \in Nat
      /\ Offset \in Nat /\ got \in Seq(1..made) /\ Len(got) \in Nat /\ page \in Nat \ {0}
      /\ CompliantMax \in Nat
  <2>1. page \in Nat \ {0}
    BY DueIs, Sizes DEF Typed, ListingTyped
  <2> QED  BY <2>1, DueIs, Sizes DEF Typed, ListingTyped
<1>3. ASSUME pc = "page"
      PROVE  /\ Kept \in Seq(1..made) /\ Len(Kept) \in Nat /\ Len(Kept) <= Len(order)
             /\ \A k \in 1..Len(Kept) : Kept[k] = order[k]
             /\ ~Short => Len(Kept) = Passed(page + 1, PageSize)
             /\ Short => Len(Kept) = Len(order)
  BY <1>1, <1>3, PrefixGrows
<1>4. ASSUME NEW items \in Seq(1..made), Len(items) = Len(order),
             \A k \in 1..Len(items) : items[k] = order[k],
             NEW t \in BOOLEAN, Answer(Slice(items, t, total))
      PROVE  Safe'
  <2>1. Block(items, 0, 0)
    <3>1. 0 + Len(items) + 0 = Len(order)
      BY <1>2, <1>4
    <3>2. \A k \in 1..Len(items) : 0 + k = k
      OBVIOUS
    <3> QED  BY <1>4, <3>1, <3>2 DEF Block
  <2>2. Owed(Offset + 0)
    <3>1. Offset + 0 = Offset
      BY <1>2
    <3> QED  BY <3>1 DEF TurnedCall
  <2>3. Extra <= 0
    BY <1>1
  <2>4. Counts(t, total)
    <3>1. total > Window
      BY <1>1 DEF Covered, ByNumber, Calling
    <3> QED  BY <3>1 DEF Counts
  <2> QED  BY <1>1, <1>4, <2>1, <2>2, <2>3, <2>4, TurnedEnds
<1>5. CASE ReadOn
  <2>1. /\ UNCHANGED <<provider, order, sort, cursor, steady, shown, total, limit, lastPage>>
        /\ pc = "page" /\ pc' = "page" /\ pc' \in Calling /\ got' = Kept /\ page' = page + 1 /\ ~Short
    BY <1>5 DEF ReadOn, forge, history, Calling
  <2>2. Prefix' /\ Len(got') = Passed(page', PageSize)
    BY <1>3, <2>1 DEF Prefix
  <2>3. ByNumber' /\ page' >= 2
    <3>1. page' >= 2
      BY <1>1, <1>2, <2>1
    <3> QED  BY <1>1, <2>1, <3>1, Same
  <2>4. WholeWalk'
    BY <1>1, <2>1, <2>2, <2>3 DEF WholeWalk
  <2> QED  BY <2>1, <2>4, TurnedGoesOn
<1>6. CASE LastPage
  <2>1. /\ UNCHANGED <<provider, order, sort, cursor, steady, shown, total, limit, page, lastPage>>
        /\ pc = "page" /\ pc' = "confirm" /\ pc' \in Calling /\ got' = Kept /\ page = MaxPages /\ ~Short
    BY <1>1, <1>6 DEF LastPage, forge, history, Calling
  <2>2. Len(Kept) = CompliantMax
    BY <1>2, <1>3, <2>1, PagesAre
  <2>3. Len(Kept) = Len(order)
    BY <1>1, <1>2, <1>3, <2>1, <2>2
  <2>4. Prefix'
    BY <1>3, <2>1 DEF Prefix
  <2>5. ByNumber'
    BY <1>1, <2>1, Same
  <2>6. WholeWalk'
    BY <1>1, <2>1, <2>3, <2>4, <2>5 DEF WholeWalk
  <2> QED  BY <2>1, <2>6, TurnedGoesOn
<1>7. CASE LastIssuePage
  BY <1>1, <1>7 DEF LastIssuePage, ByNumber
<1>8. CASE LastTailPage
  BY <1>1, <1>8 DEF LastTailPage, TailOnly, ByNumber
<1>9. CASE BackOff
  <2>1. ~(page > 1)
    BY <1>9 DEF BackOff
  <2> QED  BY <1>1, <1>2, <2>1
<1>10. CASE EndOfList
  <2>1. FinishWalk(Kept, walked + Len(Items), FALSE) /\ pc = "page" /\ Short
    BY <1>10 DEF EndOfList
  <2>2. Answer(Slice(Kept, FALSE \/ walked + Len(Items) < total, total))
    BY <1>1, <2>1 DEF FinishWalk, Emit
  <2> QED  BY <1>1, <1>3, <1>4, <2>1, <2>2
<1>11. CASE ConfirmEnd
  <2> DEFINE more == PageItems(lastPage + 1, 1) # <<>>
  <2>1. FinishWalk(got, walked, more) /\ pc = "confirm"
    BY <1>11 DEF ConfirmEnd
  <2> HIDE DEF more
  <2>2. Answer(Slice(got, more \/ walked < total, total)) /\ (more \/ walked < total) \in BOOLEAN
    BY <1>1, <2>1 DEF FinishWalk, Emit
  <2>3. \A k \in 1..Len(got) : got[k] = order[k]
    BY <1>1 DEF Prefix
  <2> QED  BY <1>1, <1>2, <1>4, <2>1, <2>2, <2>3
<1> QED  BY <1>5, <1>6, <1>7, <1>8, <1>9, <1>10, <1>11

LEMMA IssueWalkSafe ==
    ASSUME Typed, Listed, Covered, ~Direct, TurnedCall, Due # {}, ~disturbed, ~disturbed', pc \in {"page", "confirm"},
           limit = PageSize, IssueWalk,
           ReadOn \/ EndOfList \/ LastPage \/ LastIssuePage \/ LastTailPage \/ ConfirmEnd \/ BackOff
    PROVE  Safe'
<1>1. /\ provider = "gitea_issues" /\ pc = "page" /\ lastPage = MaxPages
      /\ Prefix /\ Len(got) = Passed(page, PageSize) /\ total = Null
      /\ FullCollect /\ ~ByNumber
  BY DEF IssueWalk, FullCollect, ByNumber
<1>2. /\ PageSize \in Nat /\ Len(order) \in Nat /\ order \in Seq(1..made) /\ made \in Nat
      /\ Offset \in Nat /\ CompliantMax \in Nat /\ MaxPages \in Nat \ {0}
      /\ page \in Nat \ {0} /\ page <= MaxPages /\ walked + Len(Items) \in Nat /\ Len(Items) \in Nat
      /\ sort \in {"number_asc", "recent_created"}
  <2>1. page \in Nat \ {0} /\ page <= MaxPages /\ MaxPages \in Nat \ {0}
    <3>1. MaxPages \in Nat \ {0} /\ MaxPages \in Nat
      BY SizeAssumption
    <3>2. page \in 1..MaxPages
      BY <1>1 DEF Typed, ListingTyped
    <3> QED  BY <3>1, <3>2
  <2>2. walked + Len(Items) \in Nat /\ Len(Items) \in Nat
    BY KeptTyped
  <2>3. sort \in {"number_asc", "recent_created"}
    BY TurnedIs
  <2> QED  BY <2>1, <2>2, <2>3, DueIs, Sizes
<1>3. /\ Kept \in Seq(1..made) /\ Len(Kept) \in Nat /\ Len(Kept) <= Len(order)
      /\ Block(Kept, 0, Len(order) - Len(Kept))
      /\ \A k \in 1..Len(Kept) : Kept[k] = order[k]
      /\ ~Short => Len(Kept) = Passed(page + 1, PageSize)
      /\ Short => Len(Kept) = Len(order)
  BY <1>1, PrefixGrows
<1>4. CASE ReadOn
  <2>1. /\ UNCHANGED <<provider, order, sort, cursor, steady, shown, total, limit, lastPage>>
        /\ pc' = "page" /\ pc' \in Calling /\ got' = Kept /\ page' = page + 1 /\ ~Short
    BY <1>1, <1>4 DEF ReadOn, forge, history, Calling
  <2>2. Prefix' /\ Len(got') = Passed(page', PageSize)
    BY <1>3, <2>1 DEF Prefix
  <2>3. IssueWalk'
    BY <1>1, <2>1, <2>2 DEF IssueWalk
  <2> QED  BY <2>1, <2>3, TurnedGoesOn
<1>5. CASE LastPage
  BY <1>1, <1>5 DEF LastPage
<1>6. CASE LastTailPage
  BY <1>1, <1>6 DEF LastTailPage, TailOnly
<1>7. CASE ConfirmEnd
  BY <1>1, <1>7 DEF ConfirmEnd
<1>8. CASE BackOff
  BY <1>1, <1>2, <1>8 DEF BackOff
<1>9. CASE EndOfList
  <2>1. FinishWalk(Kept, walked + Len(Items), FALSE) /\ Short
    BY <1>9 DEF EndOfList
  <2>2. Answer(Slice(Kept, FALSE, walked + Len(Items)))
    BY <1>1, <2>1 DEF FinishWalk, Emit
  <2>3. Len(order) <= CompliantMax
    <3> DEFINE a == Passed(page, PageSize)
               b == Passed(MaxPages, PageSize)
    <3>1. a \in Nat /\ b \in Nat /\ a <= b /\ CompliantMax = b + PageSize
      BY <1>2, PagesAre
    <3>2. a >= Len(order) \/ a + Len(Items) = Len(order)
      BY <1>1, <2>1, ItemsAre
    <3>3. Len(Items) < PageSize
      BY <2>1 DEF Short
    <3> HIDE DEF a, b
    <3> QED  BY <1>2, <3>1, <3>2, <3>3
  <2>4. Extra = 0
    <3>1. ~(Len(order) > CompliantMax)
      BY <1>2, <2>3
    <3> QED  BY <3>1 DEF Extra
  <2>5. Block(Kept, 0, 0)
    <3>1. Len(order) - Len(Kept) = 0
      BY <1>2, <1>3, <2>1
    <3> QED  BY <1>3, <3>1
  <2>6. Owed(Offset + 0)
    <3>1. Offset + 0 = Offset
      BY <1>2
    <3> QED  BY <3>1 DEF TurnedCall
  <2>7. Extra <= 0
    BY <2>4
  <2>8. Counts(FALSE, walked + Len(Items))
    <3>1. walked + Len(Items) >= Len(order)
      BY <1>1, <2>1, CountedIs DEF Counted
    <3>2. \A n \in Due : Rank(n) < walked + Len(Items)
      <4> SUFFICES ASSUME NEW n \in Due PROVE Rank(n) < walked + Len(Items)
        OBVIOUS
      <4>1. Rank(n) \in 0..(Len(order) - 1)
        BY DueIs
      <4> QED  BY <1>2, <3>1, <4>1
    <3> QED  BY <3>2 DEF Counts
  <2> QED  BY <1>1, <1>2, <1>3, <2>2, <2>5, <2>6, <2>7, <2>8, TurnedEnds
<1>10. CASE LastIssuePage
  <2> DEFINE c == Len(order) - Len(Kept)
  <2>1. /\ Answer(Slice(Kept, TRUE, walked + Len(Items))) /\ ~Short /\ page = MaxPages
        /\ ~(sort = "number_asc" /\ HasNext)
    BY <1>1, <1>10 DEF LastIssuePage
  <2>2. Len(Kept) = CompliantMax
    BY <1>2, <1>3, <2>1, PagesAre
  <2>3. HasNext <=> CompliantMax < Len(order)
    BY <1>1, <2>1, ItemsAre, PagesAre
  <2>4. Extra = c /\ c \in Nat
    BY <1>1, <1>2, <1>3, <2>1, <2>2, <2>3 DEF Extra
  <2>5. Block(Kept, 0, c)
    BY <1>3
  <2>6. cursor # Null => Owed(Offset + c)
    BY <2>4 DEF TurnedCall
  <2>7. Extra <= c
    BY <2>4
  <2>8. Counts(TRUE, walked + Len(Items))
    BY DEF Counts
  <2> HIDE DEF c
  <2> QED  BY <1>1, <1>2, <1>3, <2>1, <2>4, <2>5, <2>6, <2>7, <2>8, TurnedEnds
<1> QED  BY <1>4, <1>5, <1>6, <1>7, <1>8, <1>9, <1>10

LEMMA FinishAnswers ==
    ASSUME NEW items, NEW read, NEW t, FinishWalk(items, read, t)
    PROVE  \E p : Answer(p)
BY DEF FinishWalk, Emit

(* A walk that owes nothing any more.                                       *)
LEMMA NothingOwed ==
    ASSUME Typed, ~Direct, Due = {}, Walk
    PROVE  Safe'
<1>1. steady' = steady /\ shown \subseteq shown' /\ UNCHANGED <<provider, order, sort>>
  <2>1. ASSUME NEW p, Answer(p)
        PROVE  steady' = steady /\ shown \subseteq shown' /\ UNCHANGED <<provider, order, sort>>
    BY <2>1 DEF Answer, forge
  <2>2. ASSUME NEW items, NEW read, NEW t, FinishWalk(items, read, t)
        PROVE  steady' = steady /\ shown \subseteq shown' /\ UNCHANGED <<provider, order, sort>>
    BY <2>1, <2>2, FinishAnswers
  <2>3. CASE ReadTail \/ LastIssuePage \/ WalkFails
    BY <2>1, <2>3 DEF ReadTail, LastIssuePage, WalkFails, Emit
  <2>4. CASE TailFails \/ TailFailsAgain \/ ReadOn \/ LastPage \/ LinkOn \/ BackOff
    BY <2>4 DEF TailFails, TailFailsAgain, StartWalk, ReadOn, LastPage, LinkOn, BackOff, forge, history
  <2>5. CASE EndOfList
    BY <2>2, <2>5 DEF EndOfList
  <2>6. CASE LastTailPage
    BY <2>2, <2>6 DEF LastTailPage
  <2>7. CASE LinkEnd
    BY <2>2, <2>7 DEF LinkEnd
  <2>8. CASE ConfirmEnd
    <3>1. FinishWalk(got, walked, PageItems(lastPage + 1, 1) # <<>>)
      BY <2>8 DEF ConfirmEnd
    <3> QED  BY <2>2, <3>1
  <2> QED  BY <2>3, <2>4, <2>5, <2>6, <2>7, <2>8 DEF Walk
<1>2. Due' = {}
  BY <1>1 DEF Due
<1>3. ~Direct'
  BY <1>1, SameRanks
<1> QED  BY <1>2, <1>3 DEF Safe, Owed, DirectCall, TurnedCall, Done

LEMMA TurnedWalk ==
    ASSUME Typed, Listed, Safe, Begun, Covered, ~Direct, Walk
    PROVE  Safe'
<1> SUFFICES ASSUME ~disturbed', Due # {} PROVE Safe'
  BY NothingOwed DEF Safe
<1>1. ~disturbed /\ pc \in {"tail", "page", "link", "confirm"} /\ pc \in Calling
  BY WalkBegins DEF Calling
<1>2. TurnedCall
  BY <1>1 DEF Safe
<1>3. /\ Owed(Offset)
      /\ pc \in {"page", "confirm"} =>
            limit = PageSize /\ (TailWalk \/ ShortWalk \/ WholeWalk \/ IssueWalk)
  BY <1>2 DEF TurnedCall
<1>4. pc # "link"
  BY TurnedIs DEF Typed, TotalsAreThere
<1>5. CASE WalkFails
  BY <1>5, FailSafe
<1>6. CASE ReadTail \/ TailFails \/ TailFailsAgain
  <2>1. pc = "tail"
    BY <1>6 DEF ReadTail, TailFails, TailFailsAgain
  <2> QED  BY <1>2, <1>6, <2>1, TurnedTail
<1>7. CASE LinkOn \/ LinkEnd
  BY <1>4, <1>7 DEF LinkOn, LinkEnd
<1>8. CASE ReadOn \/ EndOfList \/ LastPage \/ LastIssuePage \/ LastTailPage \/ ConfirmEnd \/ BackOff
  <2>1. pc \in {"page", "confirm"}
    BY <1>4, <1>8 DEF ReadOn, EndOfList, LastPage, LastIssuePage, LastTailPage, ConfirmEnd, BackOff
  <2>2. CASE TailWalk
    <3>1. pc = "page" /\ ~ConfirmEnd
      BY <2>2 DEF TailWalk, ConfirmEnd
    <3> QED  BY <1>3, <1>8, <2>1, <2>2, <3>1, TailWalkSafe
  <2>3. CASE ShortWalk
    BY <1>2, <1>3, <1>8, <2>1, <2>3, ShortWalkSafe
  <2>4. CASE WholeWalk
    BY <1>1, <1>2, <1>3, <1>8, <2>1, <2>4, WholeWalkSafe
  <2>5. CASE IssueWalk
    BY <1>1, <1>2, <1>3, <1>8, <2>1, <2>5, IssueWalkSafe
  <2> QED  BY <1>3, <2>1, <2>2, <2>3, <2>4, <2>5
<1> QED  BY <1>5, <1>6, <1>7, <1>8 DEF Walk

-----------------------------------------------------------------------------
(* The list stays in its order, and a call begins without a cursor.         *)
LEMMA BegunKept ==
    ASSUME Typed, Begun, [Next]_vars
    PROVE  Begun'
<1>1. CASE FirstCall \/ NextCall
  BY <1>1 DEF FirstCall, NextCall, Begun
<1>2. CASE Probe
  <2>1. pc \in {"probe", "pulls"}
    BY <1>2, ProbeBegins
  <2>2. ASSUME NEW p, Answer(p) PROVE pc' \in {"between", "finished"}
    BY <2>2 DEF Answer
  <2>3. CASE ProbeTooLong \/ ProbeSuffices \/ PullsTooMany \/ PullsSuffice
    BY <2>2, <2>3 DEF ProbeTooLong, ProbeSuffices, PullsTooMany, PullsSuffice, Emit, Begun
  <2>4. CASE ProbeTail
    BY <2>4 DEF ProbeTail, Begun, AtTail, forge
  <2>5. CASE ProbeUnusable \/ ProbeSeeds \/ SearchTotal \/ SearchLost \/ PullsSeedLink
             \/ PullsSeedOffset \/ ListIssues
    BY <2>5 DEF ProbeUnusable, ProbeSeeds, SearchTotal, SearchLost, PullsSeedLink,
                PullsSeedOffset, ListIssues, StartWalk, Begun
  <2>6. CASE PullsAreAll
    <3>1. FinishWalk(Probed, Len(Probed), FALSE)
      BY <2>6 DEF PullsAreAll
    <3> QED  BY <2>2, <3>1, FinishAnswers DEF Begun
  <2> QED  BY <1>2, <2>3, <2>4, <2>5, <2>6 DEF Probe
<1>3. CASE Walk
  <2>1. ASSUME NEW p, Answer(p) PROVE Begun'
    BY <2>1 DEF Answer, Begun
  <2>2. ASSUME NEW items, NEW read, NEW t, FinishWalk(items, read, t) PROVE Begun'
    BY <2>1, <2>2, FinishAnswers
  <2>3. CASE ReadTail \/ LastIssuePage \/ WalkFails
    BY <2>1, <2>3 DEF ReadTail, LastIssuePage, WalkFails, Emit
  <2>4. CASE TailFails
    BY <2>4 DEF TailFails, Begun, AtTail, forge
  <2>5. CASE TailFailsAgain \/ ReadOn \/ LastPage \/ LinkOn \/ BackOff
    BY <2>5 DEF TailFailsAgain, StartWalk, ReadOn, LastPage, LinkOn, BackOff, Begun
  <2>6. CASE EndOfList
    BY <2>2, <2>6 DEF EndOfList
  <2>7. CASE LastTailPage
    BY <2>2, <2>7 DEF LastTailPage
  <2>8. CASE LinkEnd
    BY <2>2, <2>8 DEF LinkEnd
  <2>9. CASE ConfirmEnd
    <3>1. FinishWalk(got, walked, PageItems(lastPage + 1, 1) # <<>>)
      BY <2>9 DEF ConfirmEnd
    <3> QED  BY <2>2, <3>1
  <2> QED  BY <1>3, <2>3, <2>4, <2>5, <2>6, <2>7, <2>8, <2>9 DEF Walk
<1>4. CASE OpenPull
  BY <1>4 DEF OpenPull, Begun, AtTail
<1>5. CASE \E n \in Open : ClosePull(n) \/ TouchPull(n)
  BY <1>5 DEF ClosePull, TouchPull, Begun, AtTail
<1>6. CASE UNCHANGED vars
  BY <1>6 DEF vars, Begun, AtTail
<1> QED  BY <1>1, <1>2, <1>3, <1>4, <1>5, <1>6 DEF Next, Proceed

(* A call leaves the list alone.                                            *)
LEMMA CallsKeep ==
    ASSUME FirstCall \/ NextCall \/ Probe \/ Walk
    PROVE  UNCHANGED <<provider, order, sort>>
<1>1. ASSUME NEW p, Answer(p) PROVE UNCHANGED <<provider, order, sort>>
  BY <1>1 DEF Answer, forge
<1>2. ASSUME NEW items, NEW read, NEW t, FinishWalk(items, read, t)
      PROVE  UNCHANGED <<provider, order, sort>>
  BY <1>1, <1>2, FinishAnswers
<1>3. CASE FirstCall \/ NextCall
  BY <1>3 DEF FirstCall, NextCall, forge
<1>4. CASE ProbeTooLong \/ ProbeSuffices \/ PullsTooMany \/ PullsSuffice
  BY <1>1, <1>4 DEF ProbeTooLong, ProbeSuffices, PullsTooMany, PullsSuffice, Emit
<1>5. CASE ProbeUnusable \/ ProbeTail \/ ProbeSeeds \/ SearchTotal \/ SearchLost \/ PullsSeedLink
           \/ PullsSeedOffset \/ ListIssues
  BY <1>5 DEF ProbeUnusable, ProbeTail, ProbeSeeds, SearchTotal, SearchLost, PullsSeedLink,
              PullsSeedOffset, ListIssues, StartWalk, forge
<1>6. CASE PullsAreAll
  BY <1>2, <1>6 DEF PullsAreAll
<1>7. CASE ReadTail \/ LastIssuePage \/ WalkFails
  BY <1>1, <1>7 DEF ReadTail, LastIssuePage, WalkFails, Emit
<1>8. CASE TailFails \/ TailFailsAgain \/ ReadOn \/ LastPage \/ LinkOn \/ BackOff
  BY <1>8 DEF TailFails, TailFailsAgain, StartWalk, ReadOn, LastPage, LinkOn, BackOff, forge
<1>9. CASE EndOfList
  BY <1>2, <1>9 DEF EndOfList
<1>10. CASE LastTailPage
  BY <1>2, <1>10 DEF LastTailPage
<1>11. CASE LinkEnd
  BY <1>2, <1>11 DEF LinkEnd
<1>12. CASE ConfirmEnd
  <2>1. FinishWalk(got, walked, PageItems(lastPage + 1, 1) # <<>>)
    BY <1>12 DEF ConfirmEnd
  <2> QED  BY <1>2, <2>1
<1> QED  BY <1>3, <1>4, <1>5, <1>6, <1>7, <1>8, <1>9, <1>10, <1>11, <1>12 DEF Probe, Walk

LEMMA ListedKept ==
    ASSUME Typed, Listed, [Next]_vars
    PROVE  Listed'
<1>1. CASE FirstCall \/ NextCall \/ Probe \/ Walk \/ UNCHANGED vars
  <2>1. UNCHANGED <<provider, order, sort>>
    BY <1>1, CallsKeep DEF vars
  <2> QED  BY <2>1 DEF Listed, OldestFirst, OnGitea
<1>2. CASE OpenPull
  BY <1>2, OpenRanks
<1>3. CASE \E n \in Open : ClosePull(n) \/ TouchPull(n)
  BY <1>3, CloseRanks, TouchRanks
<1> QED  BY <1>1, <1>2, <1>3 DEF Next, Proceed

(* What the walk counts goes on covering what is due.                       *)
LEMMA CoverIs ==
    ASSUME UNCHANGED <<provider, order, sort, cursor, steady, shown>>,
           provider = "github" =>
              /\ \A n \in Due : Rank(n) < (IF total' # Null THEN total' ELSE Window)
              /\ ~OldestFirst => Len(order) <= (IF total' # Null THEN total' ELSE Window)
              /\ pc' \in {"page", "confirm"} => total' # Null,
           provider # "github" /\ total' # Null => total' > Window,
           total' = Null =>
              /\ pc' = "link" => Len(got') = Passed(page', limit')
              /\ pc' = "page" => walked' = Passed(page', limit')
              /\ pc' = "confirm" => walked' >= lastPage'
    PROVE  Covered'
<1>1. /\ \A n : Rank(n)' = Rank(n)
      /\ Window' = Window /\ (OldestFirst' <=> OldestFirst)
  BY Same
<1>2. Due' = Due /\ Most' = IF total' # Null THEN total' ELSE Window
  BY <1>1 DEF Due, Most
<1>3. Passed(page, limit)' = Passed(page', limit')
  BY DEF Passed
<1> QED  BY <1>1, <1>2, <1>3 DEF Covered

(* Between the requests, at the first of them and at the end there is no    *)
(* count.                                                                   *)
LEMMA CoverNone == pc' \in {"idle", "between", "finished", "probe"} => Covered'
BY DEF Covered, Calling

LEMMA AnswersCover ==
    /\ \A p : Answer(p) => Covered'
    /\ \A items, read, t : FinishWalk(items, read, t) => Covered'
<1>1. ASSUME NEW p, Answer(p) PROVE Covered'
  BY <1>1, CoverNone DEF Answer
<1> QED  BY <1>1, FinishAnswers

LEMMA ProbeCovers ==
    ASSUME Typed, Listed, Covered, Probe
    PROVE  Covered'
<1> SUFFICES ASSUME ~disturbed' PROVE Covered'
  BY DEF Covered
<1>1. ~disturbed /\ pc \in {"probe", "pulls"}
  BY ProbeBegins
<1>2. /\ Len(order) \in Nat /\ Window \in Nat /\ Len(order) # Null
      /\ \A n \in Due : Rank(n) \in Nat /\ Rank(n) < Len(order)
  <2>1. Len(order) \in Nat /\ Window \in Nat
    BY DueIs, Sizes
  <2>2. \A n \in Due : Rank(n) \in 0..(Len(order) - 1)
    BY DueIs
  <2>3. Len(order) # Null
    BY <2>1, NullAssumption
  <2> QED  BY <2>1, <2>2, <2>3
<1>3. Passed(1, PageSize) = 0 /\ Passed(1, LinkPageSize) = 0
  <2>1. PageSize \in Nat /\ LinkPageSize \in Nat
    BY SizeAssumption
  <2> QED  BY <2>1 DEF Passed
<1>4. ASSUME pc = "pulls"
      PROVE  /\ provider = "github" /\ total # Null
             /\ \A n \in Due : Rank(n) < total
             /\ ~OldestFirst => Len(order) <= total
  <2>1. provider = "github" /\ total # Null
    <3>1. provider = "github" /\ total \in 1..(2 * CompliantMax) /\ CompliantMax \in Nat
      BY <1>4, DueIs, Sizes DEF Typed, TotalsAreThere
    <3>2. total \in Nat
      BY <3>1
    <3> QED  BY <3>1, <3>2, NullAssumption
  <2> QED  BY <1>1, <1>4, <2>1 DEF Covered, Calling, Most
<1>5. CASE ProbeUnusable \/ ListIssues
  <2>1. /\ UNCHANGED <<provider, order, sort, cursor, steady, shown>>
        /\ provider # "github" /\ pc' = "page" /\ total' = Null
        /\ walked' = Len(<<>>) /\ page' = 1 /\ limit' = PageSize
    BY <1>5 DEF ProbeUnusable, ListIssues, AskForge, StartWalk, forge
  <2> QED  BY <1>3, <2>1, CoverIs
<1>6. CASE ProbeTooLong \/ ProbeSuffices \/ PullsTooMany \/ PullsSuffice
  BY <1>6, AnswersCover DEF ProbeTooLong, ProbeSuffices, PullsTooMany, PullsSuffice, Emit
<1>7. CASE ProbeTail \/ ProbeSeeds
  <2>1. /\ UNCHANGED <<provider, order, sort, cursor, steady, shown>>
        /\ provider # "github" /\ total' = Len(order) /\ Len(order) > Window
    BY <1>7 DEF ProbeTail, ProbeSeeds, TrustedTotal, AskForge, StartWalk, forge, history
  <2> QED  BY <1>2, <2>1, CoverIs
<1>8. CASE SearchTotal
  <2>1. /\ UNCHANGED <<provider, order, sort, cursor, steady, shown>>
        /\ provider = "github" /\ total' = Len(order)
    BY <1>8 DEF SearchTotal, forge, history
  <2> QED  BY <1>2, <2>1, CoverIs
<1>9. CASE SearchLost
  <2>1. /\ UNCHANGED <<provider, order, sort, cursor, steady, shown>>
        /\ provider = "github" /\ pc' = "link" /\ total' = Null
        /\ got' = <<>> /\ page' = 1 /\ limit' = LinkPageSize
        /\ ~(Len(order) > Window)
    BY <1>9 DEF SearchLost, StartWalk, forge
  <2>2. Len(got') = 0 /\ Len(order) <= Window /\ \A n \in Due : Rank(n) < Window
    BY <1>2, <2>1
  <2> QED  BY <1>3, <2>1, <2>2, CoverIs
<1>10. CASE PullsSeedLink \/ PullsSeedOffset
  <2>1. /\ UNCHANGED <<provider, order, sort, cursor, steady, shown>>
        /\ pc = "pulls" /\ total' = total
    BY <1>10 DEF PullsSeedLink, PullsSeedOffset, StartWalk, forge
  <2> QED  BY <1>4, <2>1, CoverIs
<1>11. CASE PullsAreAll
  <2>1. FinishWalk(Probed, Len(Probed), FALSE)
    BY <1>11 DEF PullsAreAll
  <2> QED  BY <2>1, AnswersCover
<1> QED  BY <1>5, <1>6, <1>7, <1>8, <1>9, <1>10, <1>11 DEF Probe

LEMMA WalkCovers ==
    ASSUME Typed, Listed, Begun, Covered, Walk
    PROVE  Covered'
<1> SUFFICES ASSUME ~disturbed' PROVE Covered'
  BY DEF Covered
<1>1. ~disturbed /\ pc \in {"tail", "page", "link", "confirm"}
  BY WalkBegins
<1>2. /\ provider = "github" =>
            /\ \A n \in Due : Rank(n) < (IF total # Null THEN total ELSE Window)
            /\ ~OldestFirst => Len(order) <= (IF total # Null THEN total ELSE Window)
            /\ pc \in {"page", "confirm"} => total # Null
      /\ provider # "github" /\ total # Null => total > Window
      /\ total = Null =>
            /\ pc = "link" => Len(got) = Passed(page, limit)
            /\ pc = "page" => walked = Passed(page, limit)
  BY <1>1 DEF Covered, Calling, Most
<1>3. /\ Window \in Nat /\ walked \in Nat /\ Len(got) \in Nat /\ got \in Seq(1..made)
      /\ PageSize \in Nat /\ MaxPages \in Nat
      /\ lastPage \in 1..MaxPages /\ page \in 1..lastPage /\ limit \in 1..PageSize
  BY DueIs, Sizes DEF Typed, ListingTyped
<1>4. CASE ReadTail \/ LastIssuePage \/ WalkFails
  BY <1>4, AnswersCover DEF ReadTail, LastIssuePage, WalkFails, Emit
<1>5. CASE EndOfList
  BY <1>5, AnswersCover DEF EndOfList
<1>6. CASE LastTailPage
  BY <1>6, AnswersCover DEF LastTailPage
<1>7. CASE LinkEnd
  BY <1>7, AnswersCover DEF LinkEnd
<1>8. CASE ConfirmEnd
  <2>1. FinishWalk(got, walked, PageItems(lastPage + 1, 1) # <<>>)
    BY <1>8 DEF ConfirmEnd
  <2> QED  BY <2>1, AnswersCover
<1>9. CASE TailFails \/ TailFailsAgain
  <2>1. /\ UNCHANGED <<provider, order, sort, cursor, steady, shown>>
        /\ pc = "tail" /\ total' = total
    BY <1>9 DEF TailFails, TailFailsAgain, StartWalk, forge, history
  <2>2. provider # "github" /\ total # Null
    <3>1. provider = "gitea" /\ total \in 1..CompliantMax /\ CompliantMax \in Nat
      BY <2>1, DueIs, Sizes DEF Begun, AtTail, Typed, TotalsAreThere
    <3>2. total \in Nat
      BY <3>1
    <3> QED  BY <3>1, <3>2, NullAssumption
  <2> QED  BY <1>2, <2>1, <2>2, CoverIs
<1>10. CASE ReadOn
  <2>1. /\ UNCHANGED <<provider, order, sort, cursor, steady, shown>>
        /\ pc = "page" /\ pc' = "page" /\ total' = total /\ ~Short
        /\ walked' = walked + Len(Items) /\ page' = page + 1 /\ limit' = limit
    BY <1>10 DEF ReadOn, forge, history
  <2>2. total = Null => walked' = Passed(page', limit')
    BY <1>2, <2>1, ItemsAre
  <2> QED  BY <1>2, <2>1, <2>2, CoverIs
<1>11. CASE LastPage
  <2>1. /\ UNCHANGED <<provider, order, sort, cursor, steady, shown>>
        /\ pc = "page" /\ pc' = "confirm" /\ total' = total /\ ~Short
        /\ walked' = walked + Len(Items) /\ page = lastPage /\ lastPage' = lastPage
    BY <1>11 DEF LastPage, forge, history
  <2>2. total = Null => walked' = Passed(page, limit) + limit
    BY <1>2, <2>1, ItemsAre
  <2>3. Passed(page, limit) + limit >= lastPage
    <3>1. \A p \in Nat \ {0}, l \in Nat \ {0} : (p - 1) * l + l >= p
      <4> SUFFICES ASSUME NEW p \in Nat \ {0}, NEW l \in Nat \ {0} PROVE (p - 1) * l + l >= p
        OBVIOUS
      <4>1. \A x \in Nat : (x + 1) * l >= x + 1 /\ (x + 1) * l = x * l + l
        BY SMT
      <4>2. p - 1 \in Nat /\ (p - 1) + 1 = p
        OBVIOUS
      <4> QED  BY <4>1, <4>2
    <3>2. page \in Nat \ {0} /\ limit \in Nat \ {0}
      BY <1>3
    <3> QED  BY <2>1, <3>1, <3>2 DEF Passed
  <2>4. total = Null => walked' >= lastPage'
    BY <2>1, <2>2, <2>3
  <2> QED  BY <1>2, <2>1, <2>4, CoverIs
<1>12. CASE LinkOn
  <2>1. /\ UNCHANGED <<provider, order, sort, cursor, steady, shown>>
        /\ pc = "link" /\ pc' = "link" /\ total' = total /\ HasNext
        /\ got' = got \o Items /\ page' = page + 1 /\ limit' = limit
    BY <1>12 DEF LinkOn, forge, history
  <2>2. Len(got') = Len(got) + Len(Items)
    BY <2>1, KeptTyped
  <2>3. total = Null => Len(got') = Passed(page', limit')
    BY <1>2, <2>1, <2>2, ItemsAre
  <2> QED  BY <1>2, <2>1, <2>3, CoverIs
<1>13. CASE BackOff
  <2>1. /\ UNCHANGED <<provider, order, sort, cursor, steady, shown>>
        /\ pc \in {"page", "link"} /\ pc' = pc /\ total' = total /\ ~(page > 1)
        /\ got' = got /\ walked' = walked /\ page' = page /\ limit' = limit \div 2
    BY <1>13 DEF BackOff, forge
  <2>2. page = 1 /\ limit' \in Nat /\ limit \in Nat
    BY <1>3, <2>1
  <2>3. Passed(page, limit) = 0 /\ Passed(page', limit') = 0
    <3>1. \A l \in Nat : Passed(1, l) = 0
      BY DEF Passed
    <3> QED  BY <2>1, <2>2, <3>1
  <2> QED  BY <1>2, <2>1, <2>3, CoverIs
<1> QED  BY <1>4, <1>5, <1>6, <1>7, <1>8, <1>9, <1>10, <1>11, <1>12, <1>13 DEF Walk

(* A move of the list.                                                      *)
LEMMA MovesCover ==
    ASSUME Typed, Listed, Covered, OpenPull \/ \E x \in Open : ClosePull(x) \/ TouchPull(x)
    PROVE  Covered'
<1> SUFFICES ASSUME ~disturbed' PROVE Covered'
  BY DEF Covered
<1>1. /\ UNCHANGED <<provider, pc, sort, cursor, page, limit, lastPage, got, walked, total, shown>>
      /\ ~disturbed /\ steady' \subseteq steady
  BY DEF OpenPull, ClosePull, TouchPull, listing, Typed, HistoryTyped
<1>2. /\ Len(order) \in Nat /\ Window \in Nat /\ total \in Nat \cup {Null}
      /\ \A n \in Due : n \in Open /\ Rank(n) \in Nat
  <2>1. Len(order) \in Nat /\ Window \in Nat /\ total \in Nat \cup {Null}
    BY DueIs, Sizes DEF Typed, ListingTyped
  <2>2. \A n \in Due : n \in Open /\ Rank(n) \in 0..(Len(order) - 1)
    BY DueIs
  <2> QED  BY <2>1, <2>2
<1>3. /\ Window' = Window /\ Most' = Most /\ Most \in Nat /\ (OldestFirst' <=> OldestFirst)
      /\ Passed(page, limit)' = Passed(page, limit) /\ Due' \subseteq Due
  BY <1>1, <1>2 DEF Window, Offset, Most, OldestFirst, OnGitea, Passed, Due
<1>4. ASSUME provider = "github", pc \in Calling \ {"probe"}
      PROVE  /\ \A n \in Due' : Rank(n)' < Most
             /\ ~OldestFirst => Len(order') <= Most
  <2>1. /\ \A n \in Due : Rank(n) < Most
        /\ ~OldestFirst => Len(order) <= Most
    BY <1>1, <1>4 DEF Covered
  <2>2. Direct
    BY <1>4 DEF Direct, OnGitea
  <2>3. CASE OpenPull
    <3>1. OldestFirst
      BY <1>4, <2>3 DEF OpenPull
    <3>2. \A n \in Open : Rank(n)' = Rank(n)
      BY <2>2, <2>3, <3>1, OpenRanks
    <3> QED  BY <1>2, <1>3, <2>1, <3>1, <3>2
  <2>4. ASSUME NEW x \in Open, ClosePull(x)
        PROVE  /\ \A n \in Due' : Rank(n)' < Most
               /\ ~OldestFirst => Len(order') <= Most
    <3>1. Len(order') = Len(order) - 1 /\ x \notin Due'
      <4>1. steady' = steady \ {x}
        BY <2>4 DEF ClosePull
      <4> QED  BY <2>4, <4>1, CloseRanks DEF Due
    <3>2. ASSUME NEW n \in Due' PROVE Rank(n)' < Most
      <4>1. n \in Due /\ n \in Open \ {x}
        BY <1>2, <1>3, <3>1, <3>2
      <4>2. Rank(n)' \in {Rank(n), Rank(n) - 1}
        BY <2>4, <4>1, CloseRanks
      <4> QED  BY <1>2, <1>3, <2>1, <4>1, <4>2
    <3>3. ~OldestFirst => Len(order') <= Most
      BY <1>2, <1>3, <2>1, <3>1
    <3> QED  BY <3>2, <3>3
  <2>5. ASSUME NEW x \in Open, TouchPull(x)
        PROVE  /\ \A n \in Due' : Rank(n)' < Most
               /\ ~OldestFirst => Len(order') <= Most
    <3>1. Len(order') = Len(order) /\ Open' = Open
      BY <2>5, TouchRanks
    <3>2. ~OldestFirst
      BY <1>4, <2>5 DEF TouchPull, OldestFirst, OnGitea
    <3>3. Len(order') <= Most /\ Len(order') \in Nat
      BY <1>2, <2>1, <3>1, <3>2
    <3>4. ASSUME NEW n \in Due' PROVE Rank(n)' < Most
      <4>1. n \in Open'
        BY <1>2, <1>3, <3>1
      <4>2. order' \in Seq(1..made') /\ Distinct(order')
        <5>1. Typed'
          BY <2>5, ForgeTypedKept
        <5>2. Distinct(order)'
          BY <5>1 DEF Typed, ForgeTyped
        <5> QED  BY <5>1, <5>2 DEF Typed, ForgeTyped, Distinct
      <4>3. Place(n)' \in 1..Len(order')
        BY <4>1, <4>2, PlaceNext
      <4>4. Rank(n)' = Place(n)' - 1
        <5>1. Direct'
          BY <1>1, <2>2 DEF Direct, OnGitea
        <5> QED  BY <5>1 DEF Rank
      <4> QED  BY <1>3, <3>3, <4>3, <4>4
    <3> QED  BY <3>3, <3>4
  <2> QED  BY <2>3, <2>4, <2>5
<1> QED  BY <1>1, <1>3, <1>4 DEF Covered, Calling

LEMMA CoveredKept ==
    ASSUME Typed, Listed, Begun, Covered, [Next]_vars
    PROVE  Covered'
<1>1. CASE FirstCall \/ NextCall
  BY <1>1, CoverNone DEF FirstCall, NextCall
<1>2. CASE Probe
  BY <1>2, ProbeCovers
<1>3. CASE Walk
  BY <1>3, WalkCovers
<1>4. CASE OpenPull \/ \E x \in Open : ClosePull(x) \/ TouchPull(x)
  BY <1>4, MovesCover
<1>5. CASE UNCHANGED vars
  <2>1. /\ \A n : Rank(n)' = Rank(n)
        /\ Window' = Window /\ (OldestFirst' <=> OldestFirst)
    BY <1>5, Same DEF vars
  <2>2. Due' = Due /\ Most' = Most /\ Passed(page, limit)' = Passed(page, limit)
    BY <1>5, <2>1 DEF vars, Due, Most, Passed
  <2> QED  BY <1>5, <2>1, <2>2 DEF vars, Covered, Calling
<1> QED  BY <1>1, <1>2, <1>3, <1>4, <1>5 DEF Next, Proceed

LEMMA StutterSafe ==
    ASSUME Typed, Safe, UNCHANGED vars
    PROVE  Safe'
<1> USE DEF vars
<1>1. /\ \A n : Rank(n)' = Rank(n)
      /\ Offset' = Offset /\ Window' = Window /\ (Direct' <=> Direct)
      /\ (ByNumber' <=> ByNumber) /\ (AtTail' <=> AtTail) /\ Extra' = Extra
  BY Same
<1>2. /\ (\A x : Owed(x)' <=> Owed(x)) /\ Due' = Due
      /\ Reads(got) => Reads(got)'
  BY SameReads
<1>3. Grown' = Grown /\ TailPage' = TailPage /\ (Prefix' <=> Prefix)
      /\ (Aligned(got, page, limit)' <=> Aligned(got, page, limit))
  BY <1>1, <1>2 DEF Grown, TailPage, Prefix, Aligned, Passed
<1>4. /\ Owed(Offset)' <=> Owed(Offset)
      /\ Owed(Offset + Extra)' <=> Owed(Offset + Extra)
      /\ Owed(Offset + Grown)' <=> Owed(Offset + Grown)
      /\ Owed(packet.next + Extra)' <=> Owed(packet.next + Extra)
  BY <1>1, <1>2, <1>3 DEF Owed
<1>5. (TailWalk' <=> TailWalk) /\ (ShortWalk' <=> ShortWalk)
      /\ (WholeWalk' <=> WholeWalk) /\ (IssueWalk' <=> IssueWalk)
  BY <1>1, <1>3, <1>4 DEF TailWalk, ShortWalk, WholeWalk, IssueWalk
<1>6. (TurnedCall => TurnedCall') /\ (DirectCall => DirectCall')
  BY <1>1, <1>2, <1>3, <1>4, <1>5 DEF TurnedCall, DirectCall
<1> QED  BY <1>1, <1>2, <1>4, <1>6 DEF Safe, Done

LEMMA SafeKept ==
    ASSUME Typed, Listed, Safe, Begun, Covered, [Next]_vars
    PROVE  Safe'
<1>1. CASE FirstCall \/ NextCall
  BY <1>1, CallSafe
<1>2. CASE Probe
  BY <1>2, DirectProbe, TurnedProbe
<1>3. CASE Walk
  BY <1>3, DirectWalk, TurnedWalk
<1>4. CASE OpenPull
  BY <1>4, OpenSafe
<1>5. CASE \E n \in Open : ClosePull(n) \/ TouchPull(n)
  BY <1>5, CloseSafe, TouchSafe
<1>6. CASE UNCHANGED vars
  BY <1>6, StutterSafe
<1> QED  BY <1>1, <1>2, <1>3, <1>4, <1>5, <1>6 DEF Next, Proceed

(* A packet says `complete` only where the walk has ended.                  *)
Told == packet.complete => pc = "finished"

LEMMA ToldIs ==
    ASSUME Typed, NEW items \in Seq(1..made), NEW truncated \in BOOLEAN, NEW count \in Nat,
           Answer(Slice(items, truncated, count))
    PROVE  Told'
<1> DEFINE p == Slice(items, truncated, count)
<1>1. packet' = p /\ pc' = IF p.next = Null THEN "finished" ELSE "between"
  BY DEF Answer
<1>2. made \in Nat /\ cursor \in Nat \cup {Null}
  BY Sizes DEF Typed, ForgeTyped, CallerTyped
<1>3. /\ (truncated /\ cursor = Null) => p.complete = FALSE
      /\ ~(truncated /\ cursor = Null) =>
            /\ p.next = IF truncated \/ Seen(items) < count THEN Seen(items) ELSE Null
            /\ p.complete = ~(truncated \/ Seen(items) < count)
  BY <1>2, SliceShows, ZenonT(60)
<1> HIDE DEF p
<1> QED  BY <1>1, <1>3 DEF Told

LEMMA FinishTold ==
    ASSUME Typed, NEW items \in Seq(1..made), NEW read \in Nat, NEW truncated \in BOOLEAN,
           FinishWalk(items, read, truncated)
    PROVE  Told'
<1>1. total \in Nat \cup {Null} /\ Smaller(Len(items), Window) \in Nat
  BY Sizes DEF Smaller, Typed, CallerTyped, ListingTyped
<1>2. CASE total # Null
  <2>1. (truncated \/ read < total) \in BOOLEAN /\ total \in Nat
    BY <1>1, <1>2
  <2>2. Answer(Slice(items, truncated \/ read < total, total))
    BY <1>2 DEF FinishWalk, Emit
  <2> QED  BY <2>1, <2>2, ToldIs
<1>3. CASE total = Null /\ provider = "github"
  <2>1. Answer(Slice(items, truncated, Smaller(Len(items), Window)))
    BY <1>3 DEF FinishWalk, Emit
  <2> QED  BY <1>1, <2>1, ToldIs
<1>4. CASE total = Null /\ provider # "github"
  <2>1. Answer(Slice(items, truncated, read))
    BY <1>4 DEF FinishWalk, Emit
  <2> QED  BY <2>1, ToldIs
<1> QED  BY <1>2, <1>3, <1>4

LEMMA ToldKept ==
    ASSUME Typed, Told, [Next]_vars
    PROVE  Told'
<1>1. ASSUME packet' = packet, pc # "finished" PROVE Told'
  BY <1>1 DEF Told
<1>2. CASE OpenPull \/ \E n \in Open : ClosePull(n) \/ TouchPull(n)
  BY <1>2 DEF OpenPull, ClosePull, TouchPull, Told
<1>3. CASE FirstCall
  BY <1>1, <1>3 DEF FirstCall
<1>4. CASE NextCall
  BY <1>4 DEF NextCall, NoPacket, Bare, Told
<1>5. CASE Probe
  <2>1. /\ Probed \in Seq(1..made) /\ Len(Probed) \in Nat /\ Len(order) \in Nat
        /\ pc \in {"probe", "pulls"}
        /\ pc = "pulls" => total \in Nat
    <3>1. CompliantMax \in Nat
      BY Sizes DEF Typed, CallerTyped
    <3>2. pc = "pulls" => total \in Nat
      BY <3>1 DEF Typed, TotalsAreThere
    <3> QED  BY <1>5, <3>2, ProbedTyped, ProbeBegins
  <2>2. CASE ProbeTooLong \/ ProbeSuffices
    <3>1. \E t \in BOOLEAN : Answer(Slice(Probed, t, Len(order)))
      BY <2>2 DEF ProbeTooLong, ProbeSuffices
    <3> QED  BY <2>1, <3>1, ToldIs
  <2>3. CASE PullsTooMany \/ PullsSuffice
    <3>1. \E t \in BOOLEAN : Answer(Slice(Probed, t, total))
      BY <2>3 DEF PullsTooMany, PullsSuffice, Emit
    <3>2. total \in Nat
      BY <2>1, <2>3 DEF PullsTooMany, PullsSuffice
    <3> QED  BY <2>1, <3>1, <3>2, ToldIs
  <2>4. CASE PullsAreAll
    <3>1. FinishWalk(Probed, Len(Probed), FALSE)
      BY <2>4 DEF PullsAreAll
    <3> QED  BY <2>1, <3>1, FinishTold
  <2>5. CASE ProbeUnusable \/ ProbeTail \/ ProbeSeeds \/ SearchTotal \/ SearchLost \/ PullsSeedLink
             \/ PullsSeedOffset \/ ListIssues
    BY <1>1, <2>1, <2>5 DEF ProbeUnusable, ProbeTail, ProbeSeeds, SearchTotal, SearchLost,
       PullsSeedLink, PullsSeedOffset, ListIssues, StartWalk
  <2> QED  BY <1>5, <2>2, <2>3, <2>4, <2>5 DEF Probe
<1>6. CASE Walk
  <2>1. /\ Kept \in Seq(1..made) /\ got \o Items \in Seq(1..made) /\ walked + Len(Items) \in Nat
        /\ got \in Seq(1..made) /\ walked \in Nat
        /\ pc \in {"tail", "page", "link", "confirm"}
    BY <1>6, KeptTyped, WalkBegins DEF Typed, ListingTyped
  <2>2. CASE ReadTail
    <3>1. pc = "tail" /\ total \in 1..CompliantMax /\ CompliantMax \in Nat
      BY <2>2, Sizes DEF ReadTail, Typed, CallerTyped, TotalsAreThere
    <3>2. TailPage \in Nat \ {0} /\ PageSize \in Nat \ {0} /\ total \in Nat /\ order \in Seq(1..made)
      <4>1. TailPage \in 1..MaxPages /\ MaxPages \in Nat /\ PageSize \in Nat \ {0}
        BY <3>1, TailPageIs, SizeAssumption
      <4> QED  BY <3>1, <4>1 DEF Typed, ForgeTyped
    <3>3. PageItems(TailPage, PageSize) \in Seq(1..made)
      BY <3>2, PageIs, Zenon
    <3>4. Answer(Slice(PageItems(TailPage, PageSize), FALSE, total))
      BY <2>2, Zenon DEF ReadTail, Emit
    <3> QED  BY <3>2, <3>3, <3>4, ToldIs
  <2>3. CASE EndOfList
    BY <2>1, <2>3, FinishTold DEF EndOfList
  <2>4. CASE LastTailPage
    BY <2>1, <2>4, FinishTold DEF LastTailPage
  <2>5. CASE LastIssuePage
    <3>1. Answer(Slice(Kept, TRUE, walked + Len(Items)))
      BY <2>5 DEF LastIssuePage
    <3> QED  BY <2>1, <3>1, ToldIs
  <2>6. CASE ConfirmEnd
    <3>1. \E t \in BOOLEAN : FinishWalk(got, walked, t)
      BY <2>6 DEF ConfirmEnd
    <3> QED  BY <2>1, <3>1, FinishTold
  <2>7. CASE LinkEnd
    <3>1. FinishWalk(got \o Items, walked + Len(Items), HasNext) /\ HasNext \in BOOLEAN
      BY <2>7 DEF LinkEnd, HasNext
    <3> QED  BY <2>1, <3>1, FinishTold
  <2>8. CASE WalkFails
    BY <2>8 DEF WalkFails, Emit, Answer, ErrorPacket, Bare, Told
  <2>9. CASE TailFails \/ TailFailsAgain \/ ReadOn \/ LastPage \/ LinkOn \/ BackOff
    BY <1>1, <2>1, <2>9 DEF TailFails, TailFailsAgain, StartWalk, ReadOn, LastPage, LinkOn, BackOff
  <2> QED  BY <1>6, <2>2, <2>3, <2>4, <2>5, <2>6, <2>7, <2>8, <2>9 DEF Walk
<1>7. CASE UNCHANGED vars
  BY <1>7 DEF vars, Told
<1> QED  BY <1>2, <1>3, <1>4, <1>5, <1>6, <1>7 DEF Next, Proceed

LEMMA InitSafe == Init => Listed /\ Begun /\ Safe /\ Covered /\ Told
<1> SUFFICES ASSUME Init PROVE Listed /\ Begun /\ Safe /\ Covered /\ Told
  OBVIOUS
<1>1. Begun /\ Safe
  BY DEF Init, Begun, Safe, Calling, Done
<1>2. Covered /\ Told
  BY DEF Init, Covered, Calling, NoPacket, Bare, Told
<1>3. Listed
  <2>1. made \in Nat /\ order = [k \in 1..made |-> IF OldestFirst THEN k ELSE made + 1 - k]
    BY BoundAssumption DEF Init
  <2> QED  BY <2>1 DEF Listed
<1> QED  BY <1>1, <1>2, <1>3

(* The inductive invariant of the walk.                                     *)
Invariant == Typed /\ Listed /\ Begun /\ Safe /\ Covered /\ Told

LEMMA InvariantHolds == Spec => []Invariant
<1>1. Init => Invariant
  BY InitTyped, InitSafe DEF Invariant
<1>2. Invariant /\ [Next]_vars => Invariant'
  <2> SUFFICES ASSUME Invariant, [Next]_vars PROVE Invariant'
    OBVIOUS
  <2>1. Typed'
    BY NextTyped DEF Invariant
  <2>2. Listed' /\ Begun' /\ Safe' /\ Covered' /\ Told'
    BY ListedKept, BegunKept, SafeKept, CoveredKept, ToldKept DEF Invariant
  <2> QED  BY <2>1, <2>2 DEF Invariant
<1> QED  BY <1>1, <1>2, PTL DEF Spec

(* The cursor of a slice never moves past a pull that was open all along    *)
(* and that no packet has shown.  For any list, window and page sizes: what *)
(* the running call has read holds every such pull before its end, or the   *)
(* pull is still behind what was read, in the order of the slices; and the  *)
(* forge's list moves behind the cursor only where `disturbed` says so.     *)
THEOREM CursorSkipsNothing == Spec => []NextSkipsNothing
<1>1. Invariant => NextSkipsNothing
  <2> SUFFICES ASSUME Invariant, pc = "between", ~disturbed, NEW n \in steady \ shown
               PROVE  packet.next <= Cardinality(Before(n))
    BY DEF NextSkipsNothing
  <2> USE DEF Invariant
  <2>1. n \in Due /\ n \in Open /\ Rank(n) \in Nat
    <3>1. n \in Due
      BY DEF Due
    <3> QED  BY <3>1, DueIs
  <2>2. Cardinality(Before(n)) = Rank(n)
    BY <2>1, AheadIsRank
  <2>3. Rank(n) >= packet.next + Extra
    BY <2>1 DEF Safe, Owed
  <2>4. packet.next \in Nat /\ Extra \in Nat
    BY DueIs, ExtraIs DEF Typed, CallerTyped, Packets
  <2> QED  BY <2>1, <2>2, <2>3, <2>4
<1> QED  BY <1>1, InvariantHolds, PTL

(* A walk that ends with `complete` has shown every pull that was open all  *)
(* along.  For any list, window and page sizes: an answer is complete only  *)
(* when it was not cut and its count is reached, and an undisturbed walk    *)
(* counts at least to the last pull it still owes, or past its window.      *)
THEOREM CompleteWalksMissNothing == Spec => []CompleteWalkMissesNothing
<1>1. Invariant => CompleteWalkMissesNothing
  <2> SUFFICES ASSUME Invariant, packet.complete, ~disturbed PROVE steady \subseteq shown
    BY DEF CompleteWalkMissesNothing
  <2>1. pc = "finished"
    BY DEF Invariant, Told
  <2>2. Due = {}
    BY <2>1 DEF Invariant, Safe, Done
  <2> QED  BY <2>2 DEF Due
<1> QED  BY <1>1, InvariantHolds, PTL
=============================================================================
