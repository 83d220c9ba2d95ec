---------------------------- MODULE MCCredentials ----------------------------
(***************************************************************************)
(* Credentials for TLC: two accounts share a username, a third has its     *)
(* own.  Requests are interchangeable, and so are the two accounts, which  *)
(* is sound since the run checks invariants only.                          *)
(***************************************************************************)
EXTENDS Credentials, TLC

CONSTANTS alice_a, alice_b, bob_a, alice, bob

MCAccounts == {alice_a, alice_b, bob_a}
MCUsers == {alice, bob}
MCUsername == [a \in MCAccounts |-> IF a = bob_a THEN bob ELSE alice]

Symmetry == Permutations(Requests) \cup Permutations({alice_a, alice_b})

=============================================================================
