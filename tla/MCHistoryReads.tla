--------------------------- MODULE MCHistoryReads ---------------------------
(***************************************************************************)
(* An instance of HistoryReads.                                            *)
(***************************************************************************)
EXTENDS HistoryReads

CONSTANTS c1, c2, c3

MCContracts == {c1, c2, c3}
MCWanted == {c1, c2}
MCUndecodable == {c2}
MCLimits == {{}, {0}, {1}}

\* The loop and a probe share nothing but the ledger: one of them at a time.
OneReader == reader.pc = "idle" \/ probe.pc = "idle"
=============================================================================
