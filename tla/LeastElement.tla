---------------------------- MODULE LeastElement ----------------------------
(***************************************************************************)
(* The fact behind every "first entry that matches" of the simulator.      *)
(***************************************************************************)
EXTENDS WellFoundedInduction, TLAPS

\* A non-empty set of natural numbers, such as the slots a search would stop
\* at, has a least element.
LEMMA LeastElementExists ==
    ASSUME NEW S \in SUBSET Nat, S # {}
    PROVE  \E x \in S : \A y \in S : x <= y
<1> DEFINE R == {ss \in Nat \X Nat : ss[1] < ss[2]}
<1>1. IsWellFoundedOn(R, Nat)
  BY NatLessThanWellFounded, Zenon DEF OpToRel
<1> HIDE DEF R
<1>2. PICK x \in S : \A y \in S : ~ (<<y, x>> \in R)
  BY <1>1, WFMin, Zenon
<1>3. \A y \in S : ~ (y < x)
  <2>1. ASSUME NEW y \in S, y < x
        PROVE  <<y, x>> \in R
    <3>1. <<y, x>> \in Nat \X Nat /\ <<y, x>>[1] = y /\ <<y, x>>[2] = x
      OBVIOUS
    <3>2. QED BY <2>1, <3>1 DEF R
  <2>2. QED BY <1>2, <2>1
<1>4. QED BY <1>3

=============================================================================
