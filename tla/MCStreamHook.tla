---------------------------- MODULE MCStreamHook ----------------------------
(***************************************************************************)
(* An instance of StreamHook for TLC: two queries, two contracts.           *)
(***************************************************************************)
EXTENDS StreamHook

CONSTANTS a, b, assets, bonds

MCContracts == {a, b}
MCQueries == {assets, bonds}
MCQueryOf == [c \in MCContracts |-> assets]
=============================================================================
