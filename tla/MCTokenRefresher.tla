-------------------------- MODULE MCTokenRefresher --------------------------
(***************************************************************************)
(* An instance of TokenRefresher for TLC: of the tokens of 1, 5, 10 and 20 *)
(* ticks the first expires too soon, and the timer of the last is clamped. *)
(***************************************************************************)
EXTENDS TokenRefresher

MCLifetimes == {1, 5, 10, 20}
MCRefreshDelay == [l \in MCLifetimes |-> (l * 4) \div 5]
=============================================================================
