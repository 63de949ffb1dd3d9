------------------------------ MODULE MCScribe ------------------------------
(***************************************************************************)
(* An instance of Scribe for TLC: two versions of a model, the second with *)
(* two contents, a library that has a template of the same name, a Splice  *)
(* package, a standard library, and a package that cannot be read.          *)
(***************************************************************************)
EXTENDS Scribe, TLC

CONSTANTS m1, m2, m2b, lib, amulet, prim, broken, T, U, V

MCPackages == {m1, m2, m2b, lib, amulet, prim, broken}
MCDir == m1 :> "model-1" @@ m2 :> "model-2" @@ m2b :> "model-2" @@ lib :> "lib-3"
           @@ amulet :> "splice-amulet-1" @@ prim :> "daml-prim-1" @@ broken :> "broken"
MCFamily == [p \in MCPackages |->
  CASE p \in {m1, m2, m2b} -> "model" [] p = lib -> "lib" [] p = amulet -> "splice-amulet"
    [] p = prim -> "daml-prim" [] OTHER -> "broken"]
MCVersion == [p \in MCPackages |-> CASE p \in {m2, m2b} -> 2 [] p = lib -> 3 [] p = broken -> 0 [] OTHER -> 1]
MCPrefix == [p \in MCPackages |->
  CASE p = amulet -> "splice" [] p = prim -> "stdlib" [] OTHER -> "other"]
MCHash == [p \in MCPackages |->
  CASE p = m1 -> "h1" [] p = m2 -> "h2" [] p = m2b -> "h2b" [] p = lib -> "hl"
    [] p = amulet -> "ha" [] p = prim -> "hp" [] OTHER -> "none"]
MCDeclares == [p \in MCPackages |->
  CASE p = m1 -> {T} [] p \in {m2, m2b} -> {T, U} [] p = lib -> {T} [] p = amulet -> {V} [] OTHER -> {}]
MCModules == [p \in MCPackages |->
  CASE p \in {m1, lib} -> {"Main"} [] p \in {m2, m2b} -> {"Main", "Types"}
    [] p = amulet -> {"Splice", "Types"} [] OTHER -> {}]

MCInputs == {{m1, m2, amulet, prim}, {m2b, amulet, prim}, {m2, lib}, {m1, broken}}

MCDefault ==
  [pattern |-> {}, vendor |-> {}, version |-> Unset, modules |-> MCModules, only |-> MCDeclares, renamed |-> {},
   compat |-> <<>>, bundle |-> TRUE, dryRun |-> FALSE]
MCModel == [MCDefault EXCEPT !.pattern = {m1, m2, m2b}]
MCOld == <<[matches |-> {m1, m2, m2b}, versions |-> <<<<"h0", 0>>, <<"h1", 1>>>>]>>
MCConfigs ==
  {MCDefault, [MCDefault EXCEPT !.version = Empty, !.dryRun = TRUE],
   [MCModel EXCEPT !.version = 1],
   [MCModel EXCEPT !.compat = MCOld, !.renamed = {lib, amulet}],
   [MCModel EXCEPT !.compat = MCOld, !.vendor = {lib}, !.renamed = {lib, amulet}, !.only[m2] = {U}],
   [MCDefault EXCEPT !.vendor = {m1, m2}, !.compat = MCOld, !.renamed = {m1}],
   [MCDefault EXCEPT !.vendor = {lib, amulet}, !.bundle = FALSE]}
=============================================================================
