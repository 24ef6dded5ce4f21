------------------------------ MODULE Extremes ------------------------------
(***************************************************************************)
(* What Max and Min of the community modules return, for the sets of       *)
(* numbers the models take them of.                                        *)
(***************************************************************************)
EXTENDS Integers, FiniteSetsExt, WellFoundedInduction, TLAPS

(* A set of naturals that is not empty has a least element, and Min is it. *)
LEMMA MinOfNaturals ==
  ASSUME NEW S, S \subseteq Nat, S # {}
  PROVE  Min(S) \in S /\ \A y \in S : Min(S) <= y
<1>1. PICK x \in S : \A y \in S : <<y, x>> \notin OpToRel(<, Nat)
  <2> DEFINE R == OpToRel(<, Nat)
  <2>1. IsWellFoundedOn(R, Nat)
    BY NatLessThanWellFounded
  <2> HIDE DEF R
  <2>2. \E x \in S : \A y \in S : <<y, x>> \notin R
    BY <2>1, WFMin
  <2> QED BY <2>2 DEF R
<1>2. \A y \in S : x <= y
  <2>1. ASSUME NEW y \in S, y < x  PROVE FALSE
    BY <1>1, <2>1 DEF OpToRel
  <2> QED BY <2>1
<1> QED BY <1>2 DEF Min

(* A set of naturals below a bound has a greatest element, and Max is it.  *)
LEMMA MaxOfBounded ==
  ASSUME NEW S, NEW n \in Nat, S \subseteq 0..n, S # {}
  PROVE  Max(S) \in S /\ \A y \in S : y <= Max(S)
<1> DEFINE T == {n - s : s \in S}
<1>1. T \subseteq Nat /\ T # {}
  <2>1. \A s \in S : n - s \in Nat
    OBVIOUS
  <2>2. PICK s \in S : TRUE
    OBVIOUS
  <2> QED BY <2>1, <2>2
<1>2. PICK t \in T : \A u \in T : t <= u
  BY <1>1, MinOfNaturals
<1>3. PICK x \in S : t = n - x
  OBVIOUS
<1>4. ASSUME NEW y \in S  PROVE x >= y
  <2>1. n - x <= n - y
    BY <1>2, <1>3
  <2> QED BY <2>1
<1> HIDE DEF T
<1> QED BY <1>3, <1>4 DEF Max

(* The greater of two naturals is one of them.                             *)
LEMMA MaxOfTwo ==
  ASSUME NEW a \in Nat, NEW b \in Nat
  PROVE  Max({a, b}) \in {a, b}
<1>1. PICK n \in Nat : a <= n /\ b <= n
  <2>1. CASE a <= b
    BY <2>1
  <2>2. CASE b <= a
    BY <2>2
  <2> QED BY <2>1, <2>2
<1>2. {a, b} \subseteq 0..n
  BY <1>1
<1> QED BY <1>2, MaxOfBounded
=============================================================================
