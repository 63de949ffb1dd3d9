-------------------------- MODULE MCLedgerEndCache --------------------------
(***************************************************************************)
(* Instances of LedgerEndCache for TLC.                                    *)
(***************************************************************************)
EXTENDS LedgerEndCache, TLC

CONSTANTS r1, r2, r3, s1

MCReaders == {r1, r2}
MCSubmitters == {s1}
Symmetry == Permutations(MCReaders)
=============================================================================
