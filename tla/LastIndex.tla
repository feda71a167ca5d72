----------------------------- MODULE LastIndex -----------------------------
(***************************************************************************)
(* Sets of numbers up to a bound have a last element, proved without       *)
(* induction from the well-foundedness of strict inclusion.                *)
(***************************************************************************)
EXTENDS Integers, FiniteSetTheorems, WellFoundedInduction, TLAPS

(* A set of the numbers of events or answers has a last one: no infinite   *)
(* chain of ever smaller sets of later numbers exists.                     *)
LEMMA HasLast ==
    ASSUME NEW n \in Nat, NEW S \in SUBSET (1..n), S # {}
    PROVE  \E m \in S : \A d \in S : d <= m
<1> DEFINE Above(e) == {d \in S : d > e}
           T == {Above(e) : e \in S}
<1> HIDE DEF Above, T
<1>1. IsFiniteSet(S)
  <2>1. 1 \in Int /\ n \in Int
    OBVIOUS
  <2>2. IsFiniteSet(1..n)
    BY <2>1, FS_Interval
  <2>3. QED
    BY <2>2, FS_Subset
<1>2. FiniteSubsetsOf(S) = SUBSET S
  BY <1>1, FS_FiniteSubsetsOfFinite
<1>3. \A e \in S : Above(e) \in SUBSET S
  BY DEF Above
<1>4. T \subseteq FiniteSubsetsOf(S) /\ T # {}
  <2>1. PICK e \in S : TRUE
    OBVIOUS
  <2>2. Above(e) \in T
    BY DEF T
  <2>3. \A V \in T : V \in SUBSET S
    BY <1>3 DEF T
  <2>4. QED
    BY <1>2, <2>2, <2>3
<1>5. IsWellFoundedOn(StrictSubsetOrdering(S), FiniteSubsetsOf(S))
  BY FS_StrictSubsetOrderingWellFounded
<1>6. PICK U \in T : \A V \in T : ~ (<<V, U>> \in StrictSubsetOrdering(S))
  BY <1>4, <1>5, WFMin
<1>7. PICK m \in S : U = Above(m)
  BY <1>6 DEF T
<1>8. ASSUME NEW d \in S, d > m
      PROVE  FALSE
  <2>1. Above(d) \in T
    BY DEF T
  <2>2. Above(d) \subseteq Above(m) /\ d \in Above(m) /\ d \notin Above(d)
    <3>1. d \in Int /\ m \in Int /\ \A x \in S : x \in Int
      OBVIOUS
    <3>2. ASSUME NEW x \in Above(d)
          PROVE  x \in Above(m)
      <4>1. x \in S /\ x > d
        BY DEF Above
      <4>2. x > m
        BY <1>8, <3>1, <4>1
      <4>3. QED
        BY <4>1, <4>2 DEF Above
    <3>3. d \in Above(m)
      BY <1>8 DEF Above
    <3>4. d \notin Above(d)
      BY <3>1 DEF Above
    <3>5. QED
      BY <3>2, <3>3, <3>4
  <2>3. <<Above(d), Above(m)>> \in StrictSubsetOrdering(S)
    BY <1>3, <2>2 DEF StrictSubsetOrdering
  <2>4. QED
    BY <1>6, <1>7, <2>1, <2>3
<1>9. QED
  BY <1>8

=============================================================================
