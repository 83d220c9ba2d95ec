---------------------------- MODULE MCHostLifecycle ----------------------------
(***************************************************************************)
(* HostLifecycle for TLC: a user whose filter finds the other's hosts too. *)
(* Creates and deletes are interchangeable, which is sound since the run   *)
(* checks invariants only.                                                 *)
(***************************************************************************)
EXTENDS HostLifecycle, TLC

CONSTANTS bob, bobby

MCUsers == {bob, bobby}
MCFinds == [u \in MCUsers |-> IF u = bob THEN MCUsers ELSE {bobby}]

Symmetry == Permutations(Creates) \cup Permutations(Deletes)

=============================================================================
