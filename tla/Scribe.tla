------------------------------- MODULE Scribe -------------------------------
(***************************************************************************)
(* The scribe code generator (scribe/src): a run reads the configuration,  *)
(* discovers the packages in the codegen directory and gives each a role,  *)
(* analyzes them, stages them in .scribe/, writes the generated modules    *)
(* there and bundles them into the output directory.  A run may stop at    *)
(* any step, and the next one starts over what it has left.  The generated *)
(* registry (versionedRegistry) is modelled as the code it becomes.        *)
(*                                                                         *)
(* A package stands for a directory with its contents, so that a directory *)
(* may come back with other contents; a member is a template or an         *)
(* interface with the module it is in.                                     *)
(***************************************************************************)
EXTENDS Naturals, Sequences, FiniteSets, SequencesExt, FiniteSetsExt

CONSTANTS
  Packages, Dir, Family, \* a package, its directory, and that without the version
  Version,               \* the version in the directory's name; NoVersion: none
  Prefix,                \* of the name: "stdlib", "splice" or "other"
  Hash,                  \* the packageId it declares; NoHash: unreadable
  NoHash,
  Declares,              \* the members of a package
  Modules,               \* its modules, those with no member included
  Configs,               \* the configurations a run may have
  Inputs,                \* what the codegen directory may hold
  MaxRuns                \* bound: runs

NoVersion == 0           \* "0.0.0"
Unset     == 100         \* undefined
Empty     == 101         \* the empty string, which DAR_VERSION may be

\* A configuration: `pattern` and `vendor`, the packages that main.pattern and the
\* keys of vendor match ({}: not given); `modules` and `only`, the modules and the
\* members that its overrides leave of a package; `renamed`, the packages whose modules it gives an alias;
\* `compat`, in order, the packages a key matches with the versions under it.
ASSUME ScribeAssumption ==
  /\ IsFiniteSet(Packages) /\ Inputs \subseteq SUBSET Packages /\ MaxRuns \in Nat
  /\ Dir \in [Packages -> STRING] /\ Family \in [Packages -> STRING]
  /\ Version \in [Packages -> 0..99] /\ Prefix \in [Packages -> {"stdlib", "splice", "other"}]
  /\ Hash \in [Packages -> STRING]
  /\ DOMAIN Declares = Packages /\ \A p \in Packages : IsFiniteSet(Declares[p])
  /\ \A c \in Configs : /\ c.pattern \subseteq Packages /\ c.vendor \subseteq Packages
                        /\ c.version \in 0..99 \cup {Unset, Empty}
                        /\ \A p \in Packages : c.only[p] \subseteq Declares[p] /\ c.modules[p] \subseteq Modules[p]
                        /\ c.compat \in Seq([matches : SUBSET Packages, versions : Seq(STRING \X (0..99))])
                        /\ c.bundle \in BOOLEAN /\ c.dryRun \in BOOLEAN

-----------------------------------------------------------------------------
(* Discovery: roles and versions.                                          *)

Classified(config, p) ==
  CASE Prefix[p] = "stdlib"    -> "stdlib"
    [] Prefix[p] # "stdlib" /\ p \in config.pattern -> "main"
    [] OTHER ->
       IF config.vendor # {}
       THEN CASE p \in config.vendor -> "vendor"
              [] p \notin config.vendor /\ Prefix[p] = "splice" -> "stdlib"
              [] OTHER -> IF config.pattern # {} THEN "stdlib" ELSE "main"
       ELSE IF Prefix[p] = "splice" \/ config.pattern # {} THEN "vendor" ELSE "main"

Forced(config) == config.version \notin {Unset, Empty}

\* Of several main packages, those that may be chosen.
Selected(config, mains) ==
  IF Forced(config) THEN {p \in mains : Version[p] = config.version}
  ELSE {p \in mains : \A q \in mains : Version[p] >= Version[q]}

Mains(config, input) == {p \in input : Classified(config, p) = "main"}
Several(config, input) == \E p, q \in Mains(config, input) : p # q

\* The packages that remain main, one of which is: none when the version that is
\* asked for is not among several.
Chosen(config, input) ==
  IF Several(config, input) THEN Selected(config, Mains(config, input)) ELSE Mains(config, input)

-----------------------------------------------------------------------------
(* Analysis: what a run generates from, its plan.                          *)

VersionOf(config, role, p) ==
  IF role = "main" /\ config.version # Unset THEN config.version ELSE Version[p]

Compat(config, p) ==
  LET hits == {k \in DOMAIN config.compat : p \in config.compat[k].matches} IN
  IF hits = {} THEN <<>>
  ELSE config.compat[CHOOSE k \in hits : \A l \in hits : k <= l].versions

\* buildVersionPairs: the older hashes, the current one, and the package's name.
VersionPairs(config, role, p) ==
  Compat(config, p) \o << <<Hash[p], VersionOf(config, role, p)>>,
                          <<"#" \o Family[p], VersionOf(config, role, p)>> >>

\* The package of a plan with what its modules export under.
Exported(config, role, p) ==
  [pkg |-> p, version |-> VersionOf(config, role, p), members |-> config.only[p],
   pairs |-> VersionPairs(config, role, p),
   aliases |-> {<<IF p \in config.renamed THEN Family[p] ELSE "", m>> : m \in config.modules[p]}]

\* A plan: the main package and the vendor packages, in the order they were read.
PlanOf(config, main, vendors, input) ==
  [exports |-> [k \in DOMAIN main |-> Exported(config, "main", main[k])]
                 \o [k \in DOMAIN vendors |-> Exported(config, "vendor", vendors[k])],
   main    |-> main,
   version |-> IF config.version # Unset THEN config.version
               ELSE IF main = <<>> THEN NoVersion ELSE Version[main[1]],
   dirs    |-> {Dir[p] : p \in input},
   config  |-> config, input |-> input]

Exports(plan) == {plan.exports[k] : k \in DOMAIN plan.exports}

-----------------------------------------------------------------------------
(* The generated registry.                                                 *)

\* The registrations that index.js makes, in order: a member of each exported
\* package under each of its prefixes.
Registrations(plan) ==
  FlattenSeq([k \in DOMAIN plan.exports |->
    LET x == plan.exports[k] IN
    FlattenSeq([j \in 1..Len(SetToSeq(x.members)) |->
      [i \in DOMAIN x.pairs |-> [key |-> <<x.pairs[i][1], SetToSeq(x.members)[j]>>,
                                 pkg |-> x.pkg, version |-> x.pairs[i][2]]]])])

\* The registry, a Map, by what it keeps of the registrations: one whose key is
\* taken is not made.
Registry(r) == {k \in DOMAIN r : \A l \in DOMAIN r : l < k => r[l].key # r[k].key}

PackageNames == {"#" \o Family[p] : p \in Packages}

\* Mutant: any registration of the name answers for an unknown prefix.
MutFallback(entry) == TRUE
Fallback(entry) == entry.key[1] \in PackageNames

\* versionedRegistry: the exact key, or else the first entry of the name under a
\* package's name; <<>> is undefined.
Lookup(r, prefix, member) ==
  LET exact == {k \in Registry(r) : r[k].key = <<prefix, member>>}
      named == {k \in Registry(r) : Fallback(r[k]) /\ r[k].key[2] = member}
  IN  IF exact # {} THEN <<r[Min(exact)]>> ELSE IF named # {} THEN <<r[Min(named)]>> ELSE <<>>

-----------------------------------------------------------------------------
(* A run.                                                                  *)

\* The files in the order they are written: those of .scribe/, those of the bundle,
\* and the declarations that are copied.
Scribed == <<"version.js", "index.js", "index.d.ts", "version.d.ts">>
Bundled == <<"dist/codegen.js", "dist/index.js", "dist/version.js">>
Copied  == <<"dist/index.d.ts", "dist/version.d.ts">>
Files == {(Scribed \o Bundled \o Copied)[k] : k \in 1..9}

VARIABLES
  input,   \* the packages in the codegen directory
  pc,      \* "none", "discovered", "cleaned", "staged", "done", "failed"
  run,     \* the number of the run
  plan,    \* what it generates from
  staged,  \* the packages copied to .scribe/
  files,   \* of each file, the run that wrote it and its plan, or nothing
  written, \* how many files the run has written
  moved    \* history: the input has changed since the run read it

vars == <<input, pc, run, plan, staged, files, written, moved>>

Nothing == [run |-> 0]

Init ==
  /\ input \in Inputs
  /\ pc = "none" /\ run = 0 /\ plan = Nothing /\ staged = {} /\ written = 0 /\ moved = FALSE
  /\ files = [f \in Files |-> Nothing]

Running == pc \in {"discovered", "cleaned", "staged"}

\* loadConfig, discoverPackages and analyzePackage of each package.  Directories are
\* read in any order; the main package is the first that is chosen.
Reads(config) ==
  /\ ~Running /\ run < MaxRuns /\ run' = run + 1 /\ written' = 0 /\ moved' = FALSE
  /\ IF \/ Several(config, input) /\ Chosen(config, input) = {}
        \/ \E p \in input : Hash[p] = NoHash
     THEN pc' = "failed" /\ UNCHANGED plan
     ELSE /\ pc' = "discovered"
          /\ \E main \in {<<p>> : p \in Chosen(config, input)}
                           \cup (IF Chosen(config, input) = {} THEN {<<>>} ELSE {}),
                vendors \in SetToSeqs({p \in input : Classified(config, p) = "vendor"}) :
               plan' = PlanOf(config, main, vendors, input)
  /\ UNCHANGED <<input, staged, files>>

\* Mutant: .scribe/ is made and not removed before.
MutCleans ==
  /\ pc = "discovered" /\ pc' = IF plan.config.dryRun THEN "done" ELSE "cleaned"
  /\ UNCHANGED <<input, run, plan, staged, files, written, moved>>

\* generate() of a dry run ends here; any other removes .scribe/.
Cleans ==
  /\ pc = "discovered"
  /\ IF plan.config.dryRun
     THEN pc' = "done" /\ UNCHANGED <<staged, files>>
     ELSE /\ pc' = "cleaned" /\ staged' = {}
          /\ files' = [f \in Files |-> IF Contains(Scribed, f) THEN Nothing ELSE files[f]]
  /\ UNCHANGED <<input, run, plan, written, moved>>

\* stagePackages copies what the codegen directory holds now over what is there.
Stages ==
  /\ pc = "cleaned" /\ pc' = "staged"
  /\ staged' = input \cup {p \in staged : \A q \in input : Dir[q] # Dir[p]}
  /\ UNCHANGED <<input, run, plan, files, written, moved>>

Order == IF plan.config.bundle THEN Scribed \o Bundled \o Copied ELSE Scribed

\* Two modules under one alias do not parse, and a module that is not there is not
\* resolved: the bundle is not made.
Clash(x, y) == x.aliases \cap y.aliases # {}
Bundles ==
  /\ \A k, l \in DOMAIN plan.exports : k # l => ~Clash(plan.exports[k], plan.exports[l])
  /\ plan.dirs \subseteq {Dir[p] : p \in staged}

Writes ==
  /\ pc = "staged" /\ written < Len(Order)
  /\ LET file == Order[written + 1] IN
     IF Contains(Bundled, file) /\ ~Bundles
     THEN pc' = "failed" /\ UNCHANGED <<files, written>>
     ELSE /\ files' = [files EXCEPT ![file] = [run |-> run, plan |-> plan, code |-> staged]]
          /\ written' = written + 1
          /\ pc' = IF written + 1 = Len(Order) THEN "done" ELSE pc
  /\ UNCHANGED <<input, run, plan, staged, moved>>

\* A step rejects, or the process is killed.
Fails ==
  /\ Running /\ pc' = "failed"
  /\ UNCHANGED <<input, run, plan, staged, files, written, moved>>

\* The Daml codegen writes its directory again.
Regenerates ==
  /\ \E i \in Inputs \ {input} : input' = i
  /\ moved' = (moved \/ Running)
  /\ UNCHANGED <<pc, run, plan, staged, files, written>>

Next ==
  (\E config \in Configs : Reads(config)) \/ Cleans \/ Stages \/ Writes \/ Fails \/ Regenerates

Spec == Init /\ [][Next]_vars

-----------------------------------------------------------------------------
(* Properties.                                                             *)

\* When a bundling run has ended well, everything an application reads is of that
\* run: the declarations it compiles against (.scribe/), and the code it loads
\* (the output directory), whatever the runs before it left half done; and the
\* code is of the packages that the registry's hashes were read from, unless the
\* codegen directory has changed under the run (read at discover.ts:62 and again at
\* stage.ts:27).
OutputIsOfOneRun ==
  (pc = "done" /\ ~plan.config.dryRun /\ plan.config.bundle) =>
    \A f \in Files : /\ files[f].run = run
                     /\ ~moved => files[f].code = plan.input

Has(x, prefix) == \E k \in DOMAIN x.pairs : x.pairs[k][1] = prefix
Current(x, prefixes) == \A k \in DOMAIN x.pairs : x.pairs[k][1] \in prefixes => x.pairs[k][2] = x.version

\* What the registry of a plan is to answer for a prefix and a member.
AnswersRight(generated, prefix, member) ==
  LET holders == {x \in Exports(generated) : member \in x.members}
      claims  == {x \in holders : Has(x, prefix)}
      answer  == Lookup(Registrations(generated), prefix, member)
  IN  IF holders = {} THEN answer = <<>>
      ELSE \E x \in holders :
             /\ answer # <<>> /\ answer[1].pkg = x.pkg
             /\ claims # {} => x \in claims /\ \E k \in DOMAIN x.pairs : x.pairs[k] = <<prefix, answer[1].version>>
             /\ claims = {} /\ Current(x, PackageNames) => answer[1].version = x.version
             /\ Hash[x.pkg] = prefix /\ Current(x, {prefix}) => answer[1].version = x.version

LooksUpRight(generated) ==
  \A member \in UNION {Declares[p] : p \in Packages},
     prefix \in {Hash[p] : p \in Packages} \cup PackageNames \cup {x.pairs[1][1] : x \in Exports(generated)} :
    AnswersRight(generated, prefix, member)

\* What the registry in force answers for a prefix and a member: by a package that
\* is exported and declares the member, with a version given for that prefix; the
\* package's own hash is answered by the package with the version it has, unless
\* compat lists that hash; and a prefix nobody registered is answered with a
\* package's current version, unless compat lists a package's name, and not at all
\* when nobody declares the member.
LookupIsOfThePackage ==
  (pc = "done" /\ files["dist/codegen.js"] # Nothing) => LooksUpRight(files["dist/codegen.js"].plan)

\* Contradicted: "Know exactly which package version created each contract"
\* (ledger/VERSIONED_TEMPLATES.md:119), that is, where no version is forced, a
\* package's own hash is answered with that package's version or not at all.  A
\* hash that the run did not read, of an older or a newer package, is answered with
\* the version of the package that has a member of the same name.
VersionIsOfTheCreator ==
  (pc = "done" /\ files["dist/codegen.js"] # Nothing) =>
    LET generated == files["dist/codegen.js"].plan IN
    generated.config.version = Unset =>
      \A p \in Packages : \A member \in Declares[p] :
        LET answer == Lookup(Registrations(generated), Hash[p], member) IN
        answer = <<>> \/ answer[1].version = Version[p]
=============================================================================
