----------------------------- MODULE NumberLemmas -----------------------------
(***************************************************************************)
(* The induction that the proofs need: what is said of all numbers follows  *)
(* from there being no least number of which it is false.                   *)
(***************************************************************************)
EXTENDS Integers, FiniteSetsExt, FiniteSetTheorems, WellFoundedInduction, TLAPS

(* Of some subsets of a finite set, one has no other of them within it.     *)
HasMinimal(F) == \E T \in F : \A U \in F : U \subseteq T => U = T
LEMMA MinimalSubset ==
  ASSUME NEW S, IsFiniteSet(S), NEW F \in SUBSET (SUBSET S), F # {}
  PROVE  HasMinimal(F)
<1>1. IsWellFoundedOn(StrictSubsetOrdering(S), SUBSET S)
  BY FS_FiniteSubsetsOfFinite, FS_StrictSubsetOrderingWellFounded
<1>2. PICK T \in F : \A U \in F : ~(<<U, T>> \in StrictSubsetOrdering(S))
  BY <1>1, WFMin
<1>3. QED
  BY <1>2 DEF StrictSubsetOrdering, HasMinimal

(* A non-empty set of numbers has a least one; if it has a bound, a greatest. *)
LEMMA LeastExists ==
  ASSUME NEW S, S \subseteq Nat, S # {}
  PROVE  Min(S) \in S /\ \A y \in S : Min(S) <= y
<1>1. PICK b \in S : b \in Nat
  OBVIOUS
<1> DEFINE Below(x) == {y \in S : y <= x}
           F == {Below(x) : x \in Below(b)}
<1>2. IsFiniteSet(0 .. b) /\ F \subseteq SUBSET (0 .. b) /\ Below(b) \in F
  <2>1. IsFiniteSet(0 .. b)
    BY <1>1, FS_Interval
  <2>2. ASSUME NEW x \in Below(b)
        PROVE  Below(x) \subseteq 0 .. b
    <3>1. ASSUME NEW z \in Below(x)
          PROVE  z \in 0 .. b
      BY <1>1, <2>2
    <3>2. QED
      BY <3>1
  <2>3. b \in Below(b)
    BY <1>1
  <2>4. QED
    BY <2>1, <2>2, <2>3
<1>3. PICK T \in F : \A U \in F : U \subseteq T => U = T
  <2> HIDE DEF F
  <2>1. F \in SUBSET (SUBSET (0 .. b)) /\ F # {} /\ IsFiniteSet(0 .. b)
    BY <1>2
  <2>2. HasMinimal(F)
    BY <2>1, MinimalSubset
  <2>3. QED
    BY <2>2 DEF HasMinimal
<1>4. PICK x \in Below(b) : T = Below(x)
  BY <1>3
<1>5. ASSUME NEW y \in S, y < x
      PROVE  FALSE
  <2>1. Below(y) \in F /\ Below(y) \subseteq T
    <3>1. y \in Below(b)
      BY <1>1, <1>4, <1>5
    <3>2. Below(y) \subseteq Below(x)
      <4>1. ASSUME NEW z \in Below(y)
            PROVE  z \in Below(x)
        BY <1>1, <1>4, <1>5
      <4>2. QED
        BY <4>1
    <3>3. QED
      BY <1>4, <3>1, <3>2
  <2>2. x \in T /\ x \notin Below(y)
    BY <1>4, <1>5
  <2>3. QED
    BY <1>3, <2>1, <2>2
<1>6. x \in S /\ \A y \in S : x <= y
  BY <1>4, <1>5
<1>7. QED
  BY <1>6 DEF Min

LEMMA GreatestExists ==
  ASSUME NEW b \in Nat, NEW S, S \subseteq 0 .. b, S # {}
  PROVE  Max(S) \in S /\ \A y \in S : Max(S) >= y
<1> DEFINE T == {b - y : y \in S}
<1>0. \A y \in S : y \in Nat /\ b - y \in Nat
  OBVIOUS
<1>1. T \subseteq Nat /\ T # {}
  BY <1>0
<1>2. Min(T) \in T /\ \A t \in T : Min(T) <= t
  <2> HIDE DEF T
  <2>1. QED
    BY <1>1, LeastExists
<1>3. PICK x \in S : Min(T) = b - x
  BY <1>2
<1>4. ASSUME NEW y \in S
      PROVE  x >= y
  <2>1. b - y \in T
    OBVIOUS
  <2>2. b - x <= b - y
    BY <1>2, <1>3, <2>1
  <2>3. QED
    BY <1>0, <2>2
<1>5. QED
  BY <1>4 DEF Max
=============================================================================
