------------------------------ MODULE Extrema ------------------------------
(***************************************************************************)
(* The least and the greatest of a set of numbers: what Min and Max of     *)
(* FiniteSetsExt return, for the modules that prove things about them.     *)
(***************************************************************************)
EXTENDS Integers, FiniteSetsExt, WellFoundedInduction, TLAPS

LEMMA LessIsWellFounded ==
  IsWellFoundedOn({ss \in Nat \X Nat : ss[1] < ss[2]}, Nat)
BY NatLessThanWellFounded DEF OpToRel

LEMMA LeastExists ==
  ASSUME NEW S \in SUBSET Nat, NEW n \in S
  PROVE  \E m \in S : \A k \in S : m <= k
<1> DEFINE R == {ss \in Nat \X Nat : ss[1] < ss[2]}
<1>1. IsWellFoundedOn(R, Nat)
  BY LessIsWellFounded
<1>2. \A x, y \in Nat : <<y, x>> \in R <=> y < x
  OBVIOUS
<1> HIDE DEF R
<1>3. PICK x \in S : \A y \in S : ~ (<<y, x>> \in R)
  BY <1>1, WFMin
<1>4. \A k \in S : k \in Nat
  OBVIOUS
<1>5. \A k \in S : ~ (k < x)
  BY <1>2, <1>3, <1>4
<1>6. \A k \in S : x <= k
  BY <1>4, <1>5
<1> QED
  BY <1>6

(* Min(S) is the least element of a set of natural numbers that has one.    *)
LEMMA MinIsLeast ==
  ASSUME NEW S \in SUBSET Nat, S # {}
  PROVE  Min(S) \in S /\ \A k \in S : Min(S) <= k
<1>1. \E m \in S : \A k \in S : m <= k
  BY LeastExists
<1> QED
  BY <1>1 DEF Min

(* Max(S) is the greatest element of one that is bounded: the distances to the
   bound have a least one.                                                 *)
LEMMA MaxIsGreatest ==
  ASSUME NEW S \in SUBSET Nat, NEW b \in Nat, \A k \in S : k <= b, S # {}
  PROVE  Max(S) \in S /\ \A k \in S : k <= Max(S)
<1> DEFINE D == {b - k : k \in S}
<1>1. D \in SUBSET Nat /\ D # {}
  <2>1. \A k \in S : b - k \in Nat
    OBVIOUS
  <2> QED
    BY <2>1
<1>2. PICK d \in D : \A e \in D : d <= e
  BY <1>1, LeastExists
<1>3. PICK m \in S : d = b - m
  BY <1>2
<1>4. \A k \in S : k <= m
  BY <1>2, <1>3
<1>5. \E x \in S : \A y \in S : x >= y
  BY <1>4
<1> QED
  BY <1>5 DEF Max
=============================================================================
