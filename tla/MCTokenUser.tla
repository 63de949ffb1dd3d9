---------------------------- MODULE MCTokenUser ----------------------------
(***************************************************************************)
(* An instance of TokenUser for TLC: two calls, two users.               *)
(***************************************************************************)
EXTENDS TokenUser, TLC

CONSTANTS c1, c2, alice, bob

MCCalls == {c1, c2}
MCUsers == {alice, bob}
Symmetry == Permutations(MCCalls)
=============================================================================
