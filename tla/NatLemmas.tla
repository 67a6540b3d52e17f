------------------------------ MODULE NatLemmas ------------------------------
(***************************************************************************)
(* Facts about the natural numbers that the proofs of several components *)
(* need: a non-empty set of naturals has a least element.  It is derived  *)
(* from the well-foundedness of < on Nat, as a statement about sets, so   *)
(* that it is cited for a set written out in place rather than for an     *)
(* operator parameter.  The handlers take a least element twice: the      *)
(* first foreign network of a BTreeSet, and the first instruction a       *)
(* visitor fails on; the traversal proofs use it to reason by induction   *)
(* over the number of value visitors.                                     *)
(***************************************************************************)
EXTENDS Naturals, WellFoundedInduction, TLAPS

(* A non-empty set of naturals has a least element. *)
LEMMA LeastNat ==
    ASSUME NEW T \in SUBSET Nat, T # {}
    PROVE  \E x \in T : \A y \in T : x <= y
<1>1. \E x \in T : \A y \in T : ~(<<y, x>> \in OpToRel(<, Nat))
  BY NatLessThanWellFounded, WFMin
<1>2. PICK x \in T : \A y \in T : ~(<<y, x>> \in OpToRel(<, Nat))
  BY <1>1
<1>3. \A y \in T : <<y, x>> \in OpToRel(<, Nat) <=> y < x
  BY DEF OpToRel
<1>4. \A y \in T : ~(y < x)
  BY <1>2, <1>3, Zenon
<1>. QED  BY <1>4

(* The least element of a non-empty set of naturals, as CHOOSE names it: *)
(* it is in the set and below every member.                              *)
LEMMA ChooseLeast ==
    ASSUME NEW T \in SUBSET Nat, T # {}
    PROVE  LET x == CHOOSE n \in T : \A m \in T : n <= m
           IN  x \in T /\ \A m \in T : x <= m
  BY LeastNat

(* Induction over an interval of naturals, stated for a set: a set that  *)
(* holds 0 and, with each member below the bound, its successor, holds   *)
(* the whole interval.                                                    *)
LEMMA IntervalInduction ==
    ASSUME NEW N \in Nat, NEW S,
           0 \in S,
           \A k \in 0..(N - 1) : k \in S => k + 1 \in S
    PROVE  0..N \subseteq S
<1> SUFFICES ASSUME (0..N) \ S # {} PROVE FALSE
  OBVIOUS
<1>0. (0..N) \ S \in SUBSET Nat
  OBVIOUS
<1>1. PICK x \in (0..N) \ S : \A y \in (0..N) \ S : x <= y
  BY <1>0, LeastNat
<1>2. x # 0
  BY <1>1
<1>3. x - 1 \in S
  BY <1>1, <1>2
<1>. QED  BY <1>1, <1>2, <1>3

=============================================================================
