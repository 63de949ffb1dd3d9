-------------------------- MODULE MCHistoryIterable --------------------------
(***************************************************************************)
(* An instance of HistoryIterable for TLC: four messages, one with nothing *)
(* that decodes and one with more events than the queue holds.             *)
(***************************************************************************)
EXTENDS HistoryAsFeed, TLC

CONSTANTS e1, e2, e3, e4, e5

MCEvents   == {e1, e2, e3, e4, e5}
MCMessages == <<<<e1>>, <<>>, <<e2, e3, e4>>, <<e5>>>>
MCWindow   == <<e1, e2, e3, e4, e5>>
MCEnds     == 0 :> 0 @@ 1 :> 1 @@ 2 :> 1 @@ 3 :> 4 @@ 4 :> 5
=============================================================================
