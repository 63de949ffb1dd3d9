--------------------------- MODULE MCSubmissions ---------------------------
(***************************************************************************)
(* An instance of Submissions: a transfer by submit with the mining round, *)
(* a choice called for its result, and an archive by exercise.             *)
(***************************************************************************)
EXTENDS Submissions

CONSTANTS transfer, quote, archive

Event(type, cid, tid, node, choice) ==
  [type |-> type, contractId |-> cid, templateId |-> tid, nodeId |-> node, choice |-> choice]

MCEffects == {transfer, quote}
MCArchives == {archive}
MCTarget == [c \in MCArchives |-> "held"]
MCVia == (transfer :> "submit") @@ (quote :> "exerciseResult") @@ (archive :> "exercise")
MCWithContext == {transfer}
\* The transfer makes a holding that it archives, and one that it leaves.
MCTransaction ==
  (transfer :> {Event("create", "h1", "Holding", 1, "none"), Event("archive", "h1", "Holding", 2, "none"),
                Event("create", "h2", "Holding", 3, "none")})
  @@ (quote :> {Event("exercised", quote, "Rules", 0, "Effect"), Event("exercised", "other", "Rules", 1, "Effect"),
                Event("create", "q", "Quote", 2, "none")})
  @@ (archive :> {Event("archive", "held", "Holding", 0, "none")})
MCMaxSends == (transfer :> 3) @@ (quote :> 1) @@ (archive :> 2)
MCWanted == [c \in MCEffects \cup MCArchives |-> "Holding"]

\* Bound: requests under way at a time.
FewUnderWay == Cardinality(work) <= 2
=============================================================================
