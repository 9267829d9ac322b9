---------------------------- MODULE LeastElement ----------------------------
(***************************************************************************)
(* A set of naturals that is not empty has a least element. The proofs     *)
(* take it for induction: of the indexes at which something fails, look at *)
(* the least one.                                                          *)
(***************************************************************************)
EXTENDS Integers, WellFoundedInduction, TLAPS

NatLess == {ij \in Nat \X Nat : ij[1] < ij[2]}

(* There is a least element. *)
LEMMA LeastNat ==
    ASSUME NEW S, S \subseteq Nat, S # {}
    PROVE  \E n \in S : \A m \in S : n <= m
  <1>1. IsWellFoundedOn(NatLess, Nat)
    BY NatLessThanWellFounded, Zenon DEF OpToRel, NatLess
  <1>2. PICK n \in S : \A m \in S : <<m, n>> \notin NatLess
    BY <1>1, WFMin, Zenon
  <1>3. \A u, v \in Nat : v < u => <<v, u>> \in NatLess
    BY Zenon DEF NatLess
  <1>4. \A m \in S : n <= m
    <2>1. \A m \in S : ~ (m < n)
      BY <1>2, <1>3, Zenon
    <2> QED BY <2>1
  <1> QED BY <1>4

=============================================================================
