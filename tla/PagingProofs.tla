--------------------------- MODULE PagingProofs ---------------------------
(***************************************************************************)
(* Facts about positions in a paged listing that every proof about a walk  *)
(* needs: how they move when the listing changes under the walk, and when  *)
(* the page size does.                                                     *)
(***************************************************************************)
EXTENDS Paging, FiniteSetTheorems, WellFoundedInduction, TLAPS

(* An item's position is a number, at least one and within the listing.     *)
LEMMA PositionBounds ==
    ASSUME NEW L, L \subseteq Nat, IsFiniteSet(L), NEW i \in L
    PROVE  /\ Position(i, L) \in Nat
           /\ Position(i, L) >= 1
           /\ Position(i, L) <= Cardinality(L)
<1> DEFINE S == {j \in L : j >= i}
<1>1. IsFiniteSet(S) /\ Cardinality(S) <= Cardinality(L)
  BY FS_Subset
<1>2. i \in S
  OBVIOUS
<1>3. Cardinality(S) \in Nat /\ Cardinality(S) # 0
  BY <1>1, <1>2, FS_CardinalityType, FS_EmptySet
<1> QED  BY <1>1, <1>3 DEF Position

(* A listing that grows, wherever it grows, moves no item forward.          *)
LEMMA PositionGrows ==
    ASSUME NEW L, NEW M, L \subseteq M, M \subseteq Nat, IsFiniteSet(M), NEW i \in L
    PROVE  Position(i, L) <= Position(i, M)
<1> DEFINE S == {j \in L : j >= i}
           T == {j \in M : j >= i}
<1>1. IsFiniteSet(T) /\ S \subseteq T
  BY FS_Subset
<1>2. Cardinality(S) <= Cardinality(T)
  BY <1>1, FS_Subset
<1> QED  BY <1>2 DEF Position

(* Taking out an item beyond the first k leaves the items beyond them       *)
(* there.                                                                   *)
LEMMA PositionAfterRemoval ==
    ASSUME NEW L, L \subseteq Nat, IsFiniteSet(L), NEW i \in L, NEW j \in L, i # j,
           NEW k \in Nat, Position(i, L) > k, Position(j, L) > k
    PROVE  Position(i, L \ {j}) > k
<1> DEFINE S == {x \in L : x >= i}
           T == {x \in L : x >= j}
           R == {x \in L \ {j} : x >= i}
<1>1. /\ IsFiniteSet(S) /\ IsFiniteSet(T)
      /\ Cardinality(S) \in Nat /\ Cardinality(T) \in Nat
      /\ Cardinality(S) > k /\ Cardinality(T) > k
  BY FS_Subset, FS_CardinalityType DEF Position
<1>2. CASE j < i
  <2>1. R = S
    BY <1>2
  <2> QED  BY <1>1, <2>1 DEF Position
<1>3. CASE j > i
  <2>1. R = S \ {j} /\ j \in S
    BY <1>3
  <2>2. Cardinality(R) = Cardinality(S) - 1
    <3> HIDE DEF S, R
    <3> QED  BY <1>1, <2>1, FS_RemoveElement
  <2>3. T \subseteq S \ {i} /\ i \in S
    <3>1. i \in Nat /\ j \in Nat /\ \A x \in L : x \in Nat
      OBVIOUS
    <3>2. \A x \in Nat : x >= j => x >= i /\ x # i
      BY <1>3, <3>1
    <3>3. i >= i
      BY <3>1
    <3> QED  BY <3>1, <3>2, <3>3
  <2>4. IsFiniteSet(S \ {i}) /\ Cardinality(S \ {i}) = Cardinality(S) - 1
    BY <1>1, <2>3, FS_RemoveElement
  <2>5. Cardinality(T) <= Cardinality(S) - 1
    BY <2>3, <2>4, FS_Subset
  <2>6. Cardinality(R) > k
    BY <1>1, <2>2, <2>5
  <2> QED  BY <2>6 DEF Position
<1> QED  BY <1>2, <1>3

(* The back-off makes a page smaller, never empty, and what the pages       *)
(* before it cover no more than it was.                                     *)
LEMMA HalvedShrinks ==
    ASSUME NEW l \in Nat \ {0}, NEW p \in Nat \ {0}
    PROVE  /\ Halved(l) \in 1..l
           /\ (p - 1) * Halved(l) <= (p - 1) * l
<1>1. Halved(l) \in 1..l
  BY DEF Halved
<1>2. \A a, b, c \in Nat : a <= b => c * a <= c * b
  OBVIOUS
<1> QED  BY <1>1, <1>2

(* A walk that has covered every position of the listing, or ends within   *)
(* the page it reads, has met each item or finds it on this page.          *)
LEMMA AheadIsOnLastPage ==
    ASSUME NEW L, L \subseteq Nat, IsFiniteSet(L), NEW i \in L,
           NEW p \in Nat \ {0}, NEW l \in Nat \ {0},
           Position(i, L) > (p - 1) * l, Cardinality(L) <= p * l
    PROVE  i \in PageOf(L, p, l)
<1>1. Position(i, L) \in Nat /\ Position(i, L) <= Cardinality(L) /\ Cardinality(L) \in Nat
  BY PositionBounds, FS_CardinalityType
<1>2. p * l \in Nat
  BY SMT
<1>3. Position(i, L) <= p * l
  BY <1>1, <1>2
<1> QED  BY <1>3 DEF PageOf

(* An item ahead of a page and not on it is ahead of the next one.         *)
LEMMA AheadOfNextPage ==
    ASSUME NEW L, L \subseteq Nat, IsFiniteSet(L), NEW i \in L,
           NEW p \in Nat \ {0}, NEW l \in Nat \ {0},
           Position(i, L) > (p - 1) * l, i \notin PageOf(L, p, l)
    PROVE  Position(i, L) > ((p + 1) - 1) * l
<1>1. Position(i, L) \in Nat
  BY PositionBounds
<1>2. p * l \in Nat /\ (p + 1) - 1 = p
  BY SMT
<1>3. ~(Position(i, L) <= p * l)
  BY DEF PageOf
<1> QED  BY <1>1, <1>2, <1>3

(* A set of numbers that is not empty has a least one.                      *)
LEMMA LeastExists ==
    ASSUME NEW T, T \subseteq Nat, T # {}
    PROVE  \E x \in T : \A y \in T : x <= y
<1> DEFINE R == OpToRel(<, Nat)
<1>1. IsWellFoundedOn(R, Nat)
  BY NatLessThanWellFounded
<1>2. PICK x \in T : \A y \in T : <<y, x>> \notin R
  <2> HIDE DEF R
  <2> QED  BY <1>1, WFMin
<1>3. \A y \in T : ~(y < x)
  BY <1>2 DEF OpToRel
<1> QED  BY <1>3

(* A set of numbers up to n that is not empty has a latest one.             *)
LEMMA LatestExists ==
    ASSUME NEW n \in Nat, NEW S, S \subseteq 1..n, S # {}
    PROVE  \E i \in S : \A j \in S : j <= i
<1> DEFINE T == {n - i : i \in S}
<1>1. T \subseteq Nat /\ T # {}
  <2>1. \A i \in S : n - i \in Nat
    OBVIOUS
  <2>2. PICK i \in S : TRUE
    OBVIOUS
  <2>3. n - i \in T
    BY <2>2
  <2> QED  BY <2>1, <2>3
<1>2. PICK x \in T : \A y \in T : x <= y
  <2> HIDE DEF T
  <2> QED  BY <1>1, LeastExists
<1>3. PICK i \in S : x = n - i
  OBVIOUS
<1>4. \A j \in S : j <= i
  BY <1>2, <1>3
<1> QED  BY <1>4
===========================================================================
