--------------------------- MODULE MCLedgerStream ---------------------------
(***************************************************************************)
(* Instances of LedgerStream for TLC: two filters of two packages and one  *)
(* contract or two of each.                                                *)
(***************************************************************************)
EXTENDS LedgerStream, TLC

CONSTANTS f1, f2, p1, p2, c1, c2, c3

MCFilters   == {f1, f2}
MCPackages  == {p1, p2}
MCPkgOf     == f1 :> p1 @@ f2 :> p2
MCContracts == {c1, c2}
MCFilterOf  == c1 :> f1 @@ c2 :> f2
MCInitial   == <<[kind |-> "create", c |-> c1]>>
MCEmpty     == <<>>
MCKnown     == {p1}

\* One contract, for the run whose trouble is with packages and timers.
MCContracts1 == {c1}
MCFilterOf1  == c1 :> f1

\* A third contract, for the runs without package trouble.
MCContracts3 == {c1, c2, c3}
MCFilterOf3  == c1 :> f1 @@ c2 :> f2 @@ c3 :> f1
=============================================================================
