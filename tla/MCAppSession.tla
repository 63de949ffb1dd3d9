---------------------------- MODULE MCAppSession ----------------------------
(***************************************************************************)
(* An instance of AppSession: two users, one of them with two tokens.      *)
(***************************************************************************)
EXTENDS AppSession

CONSTANTS alice, bob, a1, a2, b1

MCUsers == {alice, bob}
MCTokens == {a1, a2, b1}
MCOwner == [t \in MCTokens |-> IF t = b1 THEN bob ELSE alice]
MCOpaque == {b1}
MCExp == [t \in MCTokens |-> IF t = a1 THEN 1 ELSE 3]
=============================================================================
