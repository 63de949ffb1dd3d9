--------------------------- MODULE MCMultiStream ---------------------------
(***************************************************************************)
(* An instance of MultiStream for TLC: a mapping of two templates, one by  *)
(* package name, one by the package that v1 is of; or of two interfaces.   *)
(* Contract a is of the second version of its template.                    *)
(***************************************************************************)
EXTENDS MultiStream, TLC

CONSTANTS a, b, asset, asset2, bond, holding, owned

MCIds == {asset, asset2, bond, holding, owned}
MCName == [id \in MCIds |-> IF id = asset2 THEN "asset" ELSE ToString(id)]
MCMappingOf == [i \in BOOLEAN |-> IF i THEN {holding, owned} ELSE {asset, bond}]
MCContracts == {a, b}
MCTemplateOf == a :> asset2 @@ b :> bond
MCViewsOf == a :> <<holding, owned>> @@ b :> <<owned, holding>>
MCUnreadable == {<<b, owned>>}
=============================================================================
