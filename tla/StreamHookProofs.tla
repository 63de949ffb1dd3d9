-------------------------- MODULE StreamHookProofs --------------------------
(***************************************************************************)
(* Theorems about StreamHook, for any number of queries, contracts,        *)
(* renders and events, with StrictMode or without it.                      *)
(***************************************************************************)
EXTENDS StreamHook, TLAPS

Open == {"init", "live"}
Dead == {"creating", "closed"}   \* what a run that was cleaned up can be in

\* Only the last run is in force, and only while the effects are; a run that
\* was cleaned up can still await its stream, and nothing else.
RunsAgree ==
  \A i \in DOMAIN runs :
    /\ runs[i].cancelled <=> ~(done.ran /\ i = Len(runs))
    /\ runs[i].cancelled => runs[i].phase \in Dead
    /\ ~runs[i].cancelled => runs[i].phase # "closed"
    /\ runs[i].phase \in Open => streamRef = i
    /\ runs[i].phase = "waiting" => timerRef = i
    /\ runs[i].phase \notin Open => runs[i].seen = {}

LastRunAgrees ==
  done.ran => /\ runs # <<>>
              /\ runs[Len(runs)].ledger = done.ledger /\ runs[Len(runs)].query = done.query

\* A new Ledger has the token of its render; one that stays has the token the
\* effects last ran with, and so has the stream.
TokensAgree ==
  /\ done.ledger <= Len(ledgerTok) /\ ledgerTok[done.ledger] = done.token
  /\ props.ledger # done.ledger => ledgerTok[props.ledger] = props.token
  /\ streamRef # NoRun => runs[streamRef].token = done.token

\* A triggerReload always comes with a new Ledger, so it empties the map only
\* when the stream that filled it is closed.
ViewAgrees ==
  /\ done.ran /\ props.trigger # done.trigger => props.ledger # done.ledger
  /\ hook.connected => streamRef # NoRun /\ runs[streamRef].phase = "live"
  /\ ~reloaded /\ streamRef # NoRun => runs[streamRef].seen \subseteq hook.map

IInv == TypeOK /\ RunsAgree /\ LastRunAgrees /\ TokensAgree /\ ViewAgrees

\* A run that was cleaned up.
IsDead(run) == run.cancelled /\ run.phase \in Dead /\ run.seen = {}

\* In an initial state no effect has run.
LEMMA InitIInv == Init => IInv
<1> SUFFICES ASSUME Init PROVE IInv
  OBVIOUS
<1>1. TypeOK
  <2>1. PICK t \in {0, 1} :
          props = [mounted |-> TRUE, token |-> 0, trigger |-> t, query |-> FirstQuery, ledger |-> 1]
    BY DEF Init
  <2>2. props \in Props /\ props.ledger = 1
    BY <2>1, HookAssumption DEF Props
  <2>3. status \in [Contracts -> {"future", "active", "archived"}]
    BY DEF Init
  <2>4. ledgerTok \in Seq(Nat) /\ Len(ledgerTok) = 1 /\ runs \in Seq(Run)
    BY DEF Init
  <2>5. done \in [ran : BOOLEAN, token : Nat, trigger : Nat, query : Queries, ledger : Nat \ {0}]
    BY HookAssumption DEF Init
  <2>6. /\ hook \in Hook /\ streamRef = NoRun /\ timerRef = NoRun
        /\ reloaded \in BOOLEAN /\ events \in Nat
    BY DEF Init, Hook
  <2>7. QED
    BY <2>2, <2>3, <2>4, <2>5, <2>6 DEF TypeOK
<1>2. RunsAgree /\ LastRunAgrees /\ TokensAgree /\ ViewAgrees
  BY DEF Init, RunsAgree, LastRunAgrees, TokensAgree, ViewAgrees, NoRun
<1>3. QED
  BY <1>1, <1>2 DEF IInv

-----------------------------------------------------------------------------
(* Sequences of runs.                                                      *)

\* A step that updates one run leaves the others.
LEMMA RunUpdated ==
  ASSUME TypeOK, NEW i \in DOMAIN runs, NEW run \in Run, runs' = [runs EXCEPT ![i] = run]
  PROVE  /\ runs' \in Seq(Run) /\ DOMAIN runs' = DOMAIN runs /\ Len(runs') = Len(runs)
         /\ runs'[i] = run
         /\ \A j \in DOMAIN runs : j # i => runs'[j] = runs[j]
BY DEF TypeOK

\* The cleanup leaves no run in force.
LEMMA CleanedUpIsDead ==
  ASSUME IInv
  PROVE  /\ CleanedUp \in Seq(Run) /\ Len(CleanedUp) = Len(runs)
         /\ \A i \in DOMAIN CleanedUp : IsDead(CleanedUp[i])
<1>1. runs \in Seq(Run) /\ DOMAIN runs = 1..Len(runs) /\ Len(runs) \in Nat
  BY DEF IInv, TypeOK
<1>2. ASSUME NEW i \in DOMAIN runs
      PROVE  CleanedUp[i] \in Run /\ IsDead(CleanedUp[i])
  <2> DEFINE run == [runs[i] EXCEPT !.cancelled = @ \/ i = Len(runs)]
  <2>1. runs[i] \in Run
    BY <1>1, <1>2
  <2>2. run \in Run /\ run.cancelled /\ run.phase = runs[i].phase /\ run.seen = runs[i].seen
    <3>1. runs[i].cancelled \/ i = Len(runs)
      BY <1>2 DEF IInv, RunsAgree
    <3>2. QED
      BY <2>1, <3>1 DEF Run
  <2>3. \/ i = streamRef \/ (i = timerRef /\ run.phase = "waiting")
        \/ run.phase \in Dead /\ run.seen = {}
    BY <1>2, <2>1, <2>2 DEF IInv, RunsAgree, Run, Phases, Dead, Open
  <2>4. CleanedUp[i] = IF i = streamRef \/ (i = timerRef /\ run.phase = "waiting")
                       THEN Closed(run) ELSE run
    BY <1>2 DEF CleanedUp
  <2>5. Closed(run) \in Run /\ Closed(run).cancelled /\ Closed(run).phase = "closed"
        /\ Closed(run).seen = {}
    BY <2>2 DEF Closed, Run, Phases
  <2> HIDE DEF run
  <2>6. QED
    BY <2>2, <2>3, <2>4, <2>5 DEF Dead, IsDead
<1>3. CleanedUp \in [1..Len(runs) -> Run]
  BY <1>1, <1>2 DEF CleanedUp
<1>4. CleanedUp \in Seq(Run) /\ Len(CleanedUp) = Len(runs) /\ DOMAIN CleanedUp = DOMAIN runs
  BY <1>1, <1>3
<1>5. QED
  BY <1>2, <1>4

\* Effects that run again leave only the run they make in force.
LEMMA RunAgain ==
  ASSUME IInv
  PROVE  LET r == CleanedUp \o NewRuns IN
         /\ r \in Seq(Run) /\ Len(r) \in Nat /\ Len(r) > 0
         /\ r[Len(r)] = NewRun(FALSE)
         /\ \A i \in DOMAIN r : i # Len(r) => IsDead(r[i])
<1> DEFINE r == CleanedUp \o NewRuns
<1>1. /\ CleanedUp \in Seq(Run) /\ Len(CleanedUp) \in Nat
      /\ \A i \in 1..Len(CleanedUp) : IsDead(CleanedUp[i])
  BY CleanedUpIsDead
<1>2. \A b \in BOOLEAN : /\ NewRun(b) \in Run /\ NewRun(b).phase = "creating"
                         /\ NewRun(b).cancelled = b /\ NewRun(b).seen = {}
  BY DEF IInv, TypeOK, Props, NewRun, Run, Phases
<1>3. CASE StrictMode /\ ~done.ran
  <2> DEFINE first == NewRun(TRUE)   second == NewRun(FALSE)
  <2>1. r = CleanedUp \o <<first, second>>
    BY <1>3 DEF NewRuns
  <2>2. first \in Run /\ second \in Run /\ IsDead(first)
    BY <1>2 DEF Dead, IsDead
  <2> HIDE DEF first, second
  <2>3. /\ <<first, second>> \in Seq(Run) /\ Len(<<first, second>>) = 2
        /\ <<first, second>>[1] = first /\ <<first, second>>[2] = second
    BY <2>2
  <2>4. /\ r \in Seq(Run) /\ Len(r) = Len(CleanedUp) + 2
        /\ \A i \in 1..Len(CleanedUp) : r[i] = CleanedUp[i]
        /\ r[Len(CleanedUp) + 1] = first /\ r[Len(CleanedUp) + 2] = second
    BY <1>1, <2>1, <2>2, <2>3
  <2> HIDE DEF r
  <2>5. \A i \in DOMAIN r : i # Len(r) => IsDead(r[i])
    <3>1. \A i \in DOMAIN r : i # Len(r) => i \in 1..Len(CleanedUp) \/ i = Len(CleanedUp) + 1
      BY <1>1, <2>4
    <3>2. QED
      BY <1>1, <2>2, <2>4, <3>1
  <2>6. Len(r) \in Nat /\ Len(r) > 0 /\ r[Len(r)] = second
    BY <1>1, <2>4
  <2>7. QED
    BY <2>4, <2>5, <2>6 DEF second, r
<1>4. CASE ~(StrictMode /\ ~done.ran)
  <2> DEFINE new == NewRun(FALSE)
  <2>1. r = CleanedUp \o <<new>>
    BY <1>4 DEF NewRuns
  <2>2. new \in Run
    BY <1>2
  <2> HIDE DEF new
  <2>3. /\ r \in Seq(Run) /\ Len(r) = Len(CleanedUp) + 1
        /\ \A i \in 1..Len(CleanedUp) : r[i] = CleanedUp[i]
        /\ r[Len(CleanedUp) + 1] = new
    BY <1>1, <2>1, <2>2
  <2> HIDE DEF r
  <2>4. \A i \in DOMAIN r : i # Len(r) => i \in 1..Len(CleanedUp)
    BY <1>1, <2>3
  <2>5. Len(r) \in Nat /\ Len(r) > 0 /\ r[Len(r)] = new
    BY <1>1, <2>3
  <2>6. QED
    BY <1>1, <2>3, <2>4, <2>5 DEF new, r
<1>5. QED
  BY <1>3, <1>4

-----------------------------------------------------------------------------
(* Renders and effects.                                                    *)

\* A render keeps the invariant: a new Ledger has the token of its render.
LEMMA RenderIInv == ASSUME IInv, Render PROVE IInv'
<1>1. /\ UNCHANGED <<done, runs, streamRef, timerRef, hook, status, reloaded>>
      /\ props.mounted /\ Flushed
  BY DEF Render
<1>2. /\ props \in Props /\ ledgerTok \in Seq(Nat) /\ Len(ledgerTok) \in Nat
      /\ props.ledger <= Len(ledgerTok) /\ events \in Nat
      /\ done.ledger \in Nat \ {0} /\ done.token \in Nat
  BY DEF IInv, TypeOK
<1>3. /\ done.ran /\ done.token = props.token /\ done.trigger = props.trigger
      /\ done.ledger = props.ledger
  BY <1>1 DEF Flushed
<1>4. events' \in Nat
  BY <1>2 DEF Render, Counted
<1>5. PICK token \in {props.token, props.token + 1}, trigger \in {props.trigger, props.trigger + 1},
           query \in Queries :
        IF trigger # props.trigger
        THEN /\ ledgerTok' = Append(ledgerTok, token)
             /\ props' = [props EXCEPT !.token = token, !.trigger = trigger,
                                       !.query = query, !.ledger = Len(ledgerTok) + 1]
        ELSE /\ token # props.token \/ query # props.query
             /\ props' = [props EXCEPT !.token = token, !.query = query]
             /\ UNCHANGED ledgerTok
  BY DEF Render
<1>6. /\ props' \in Props /\ ledgerTok' \in Seq(Nat) /\ Len(ledgerTok') >= props'.ledger
      /\ done.ledger <= Len(ledgerTok') /\ ledgerTok'[done.ledger] = ledgerTok[done.ledger]
      /\ props'.ledger # done.ledger => ledgerTok'[props'.ledger] = props'.token
      /\ props'.trigger # done.trigger => props'.ledger # done.ledger
  <2>1. token \in Nat /\ trigger \in Nat
    BY <1>2 DEF Props
  <2>2. CASE trigger # props.trigger
    <3>1. /\ ledgerTok' = Append(ledgerTok, token)
          /\ props' = [props EXCEPT !.token = token, !.trigger = trigger,
                                    !.query = query, !.ledger = Len(ledgerTok) + 1]
      BY <1>5, <2>2
    <3>2. /\ ledgerTok' \in Seq(Nat) /\ Len(ledgerTok') = Len(ledgerTok) + 1
          /\ ledgerTok'[Len(ledgerTok) + 1] = token
          /\ \A k \in 1..Len(ledgerTok) : ledgerTok'[k] = ledgerTok[k]
      BY <1>2, <2>1, <3>1
    <3>3. /\ props' \in Props /\ props'.ledger = Len(ledgerTok) + 1 /\ props'.token = token
      <4>1. Len(ledgerTok) + 1 \in Nat \ {0}
        BY <1>2
      <4>2. QED
        BY <1>2, <2>1, <3>1, <4>1 DEF Props
    <3>4. QED
      BY <1>2, <1>3, <3>2, <3>3
  <2>3. CASE trigger = props.trigger
    BY <1>2, <1>3, <1>5, <2>1, <2>3 DEF Props, IInv, TokensAgree
  <2>4. QED
    BY <2>2, <2>3
<1>7. QED
  BY <1>1, <1>4, <1>6 DEF IInv, TypeOK, RunsAgree, LastRunAgrees, TokensAgree, ViewAgrees

\* The commit of an unmount keeps the invariant.
LEMMA UnmountIInv == ASSUME IInv, Unmount PROVE IInv'
<1>1. /\ UNCHANGED <<done, ledgerTok, runs, streamRef, timerRef, hook, status, reloaded, events>>
      /\ props' = [props EXCEPT !.mounted = FALSE]
  BY DEF Unmount
<1>2. props \in Props
  BY DEF IInv, TypeOK
<1>3. /\ props' \in Props /\ props'.ledger = props.ledger /\ props'.token = props.token
      /\ props'.trigger = props.trigger
  BY <1>1, <1>2 DEF Props
<1>4. QED
  BY <1>1, <1>3 DEF IInv, TypeOK, RunsAgree, LastRunAgrees, TokensAgree, ViewAgrees

\* What the flush of the effects makes of the runs and their refs.
LEMMA FlushedRuns ==
  ASSUME IInv, FlushEffects
  PROVE  /\ runs' \in Seq(Run)
         /\ DepsChanged =>
              /\ streamRef' = NoRun /\ timerRef' = NoRun
              /\ Len(runs') \in Nat /\ Len(runs') > 0 /\ runs'[Len(runs')] = NewRun(FALSE)
              /\ \A i \in DOMAIN runs' : i # Len(runs') => IsDead(runs'[i])
         /\ ~DepsChanged =>
              /\ UNCHANGED <<streamRef, timerRef>>
              /\ DOMAIN runs' = DOMAIN runs /\ Len(runs') = Len(runs)
              /\ \A i \in DOMAIN runs :
                   /\ runs'[i].cancelled = runs[i].cancelled /\ runs'[i].phase = runs[i].phase
                   /\ runs'[i].seen = runs[i].seen /\ runs'[i].ledger = runs[i].ledger
                   /\ runs'[i].query = runs[i].query
              /\ streamRef # NoRun => runs'[streamRef].token = props.token
<1>1. /\ runs \in Seq(Run) /\ props.token \in Nat /\ streamRef \in {NoRun} \cup DOMAIN runs
      /\ Len(runs) \in Nat /\ DOMAIN runs = 1..Len(runs)
  BY DEF IInv, TypeOK, Props
<1>2. CASE DepsChanged
  <2> DEFINE r == CleanedUp \o NewRuns
  <2>1. runs' = Pushed(r) /\ streamRef' = NoRun /\ timerRef' = NoRun
    BY <1>2 DEF FlushEffects
  <2>2. /\ r \in Seq(Run) /\ Len(r) \in Nat /\ Len(r) > 0 /\ r[Len(r)] = NewRun(FALSE)
        /\ \A i \in DOMAIN r : i # Len(r) => IsDead(r[i])
    BY RunAgain
  <2> HIDE DEF r
  <2>3. runs' = [i \in DOMAIN r |-> r[i]]
    BY <1>2, <2>1 DEF Pushed, TokenReaches
  <2>4. runs' = r
    BY <2>2, <2>3
  <2>5. QED
    BY <1>2, <2>1, <2>2, <2>4
<1>3. CASE ~DepsChanged
  <2>1. runs' = Pushed(runs) /\ UNCHANGED <<streamRef, timerRef>>
    BY <1>3 DEF FlushEffects
  <2>2. ASSUME NEW i \in DOMAIN runs
        PROVE  /\ runs'[i] \in Run
               /\ runs'[i].cancelled = runs[i].cancelled /\ runs'[i].phase = runs[i].phase
               /\ runs'[i].seen = runs[i].seen /\ runs'[i].ledger = runs[i].ledger
               /\ runs'[i].query = runs[i].query
               /\ i = streamRef => runs'[i].token = props.token
    <3>1. runs[i] \in Run
      BY <1>1, <2>2
    <3>2. runs'[i] = IF i \in TokenReaches THEN [runs[i] EXCEPT !.token = props.token] ELSE runs[i]
      BY <2>1, <2>2 DEF Pushed
    <3>3. CASE i \in TokenReaches
      BY <1>1, <3>1, <3>2, <3>3 DEF Run
    <3>4. CASE i \notin TokenReaches
      <4>1. i = streamRef => props.token = done.token
        BY <1>3, <2>2, <3>4 DEF TokenReaches
      <4>2. i = streamRef => runs[i].token = done.token
        BY <2>2, <1>1 DEF IInv, TokensAgree, NoRun
      <4>3. QED
        BY <3>1, <3>2, <3>4, <4>1, <4>2
    <3>5. QED
      BY <3>3, <3>4
  <2>3. DOMAIN runs' = DOMAIN runs
    BY <2>1 DEF Pushed
  <2>4. runs' \in [1..Len(runs) -> Run]
    BY <1>1, <2>1, <2>2, <2>3 DEF Pushed
  <2>5. runs' \in Seq(Run) /\ Len(runs') = Len(runs)
    BY <1>1, <2>4
  <2>6. streamRef # NoRun => runs'[streamRef].token = props.token
    BY <1>1, <2>2
  <2>7. QED
    BY <1>3, <2>1, <2>2, <2>3, <2>5, <2>6
<1>4. QED
  BY <1>2, <1>3

\* The effects of a commit keep the invariant: cleanups come before setups.
LEMMA FlushEffectsIInv == ASSUME IInv, FlushEffects PROVE IInv'
<1>1. /\ UNCHANGED <<props, status, reloaded, events>>
      /\ hook' = [map       |-> IF Reloads THEN {} ELSE hook.map,
                  loading   |-> hook.loading \/ DepsChanged \/ Reloads,
                  connected |-> hook.connected /\ ~DepsChanged,
                  error     |-> hook.error /\ ~DepsChanged /\ ~Reloads]
      /\ ledgerTok' = IF props.token # done.token
                      THEN [ledgerTok EXCEPT ![props.ledger] = props.token] ELSE ledgerTok
      /\ done' = [ran |-> TRUE, token |-> props.token, trigger |-> props.trigger,
                  query |-> props.query, ledger |-> props.ledger]
  BY DEF FlushEffects
<1>2. /\ props \in Props /\ hook \in Hook /\ ledgerTok \in Seq(Nat)
      /\ props.ledger \in 1..Len(ledgerTok) /\ props.token \in Nat /\ Len(ledgerTok) \in Nat
      /\ runs \in Seq(Run)
  BY DEF IInv, TypeOK, Props
<1>3. /\ done' \in [ran : BOOLEAN, token : Nat, trigger : Nat, query : Queries, ledger : Nat \ {0}]
      /\ done'.ran /\ done'.token = props.token /\ done'.trigger = props.trigger
      /\ done'.ledger = props.ledger /\ done'.query = props.query
  BY <1>1, <1>2 DEF Props
<1>4. /\ ledgerTok' \in Seq(Nat) /\ Len(ledgerTok') = Len(ledgerTok)
      /\ ledgerTok'[props.ledger] = props.token
  BY <1>1, <1>2 DEF IInv, TokensAgree
<1>5. hook' \in Hook
  BY <1>1, <1>2 DEF Hook, DepsChanged, Reloads
<1>6. TokensAgree' /\ ViewAgrees'
  <2>1. CASE DepsChanged
    <3>1. streamRef' = NoRun /\ ~hook'.connected
      BY <1>1, <2>1, FlushedRuns
    <3>2. QED
      BY <1>1, <1>2, <1>3, <1>4, <3>1 DEF TokensAgree, ViewAgrees
  <2>2. CASE ~DepsChanged
    <3>1. done.ran /\ done.ledger = props.ledger
      BY <2>2 DEF DepsChanged
    <3>2. hook'.map = hook.map /\ hook'.connected = hook.connected
      BY <1>1, <1>2, <2>2, <3>1 DEF IInv, ViewAgrees, Reloads, Hook
    <3>3. /\ streamRef' = streamRef
          /\ streamRef # NoRun => /\ runs'[streamRef].token = props.token
                                  /\ runs'[streamRef].phase = runs[streamRef].phase
                                  /\ runs'[streamRef].seen = runs[streamRef].seen
      BY <2>2, FlushedRuns DEF IInv, TypeOK
    <3>4. QED
      BY <1>1, <1>2, <1>3, <1>4, <3>2, <3>3 DEF TokensAgree, ViewAgrees, IInv
  <2>3. QED
    BY <2>1, <2>2
<1>7. RunsAgree' /\ LastRunAgrees'
  <2>1. CASE DepsChanged
    <3>1. /\ runs' \in Seq(Run) /\ Len(runs') \in Nat /\ Len(runs') > 0
          /\ runs'[Len(runs')] = NewRun(FALSE)
          /\ \A i \in DOMAIN runs' : i # Len(runs') => IsDead(runs'[i])
      BY <2>1, FlushedRuns
    <3>2. /\ ~NewRun(FALSE).cancelled /\ NewRun(FALSE).phase = "creating" /\ NewRun(FALSE).seen = {}
          /\ NewRun(FALSE).ledger = props.ledger /\ NewRun(FALSE).query = props.query
      BY DEF NewRun
    <3>3. /\ ~runs'[Len(runs')].cancelled /\ runs'[Len(runs')].phase = "creating" /\ runs'[Len(runs')].seen = {}
          /\ runs'[Len(runs')].ledger = props.ledger /\ runs'[Len(runs')].query = props.query
      BY <3>1, <3>2
    <3>4. runs' # <<>>
      BY <3>1
    <3>5. LastRunAgrees'
      BY <1>3, <3>3, <3>4 DEF LastRunAgrees
    <3>6. RunsAgree'
      BY <1>3, <3>1, <3>3 DEF RunsAgree, IsDead, Dead, Open
    <3>7. QED
      BY <3>5, <3>6
  <2>2. CASE ~DepsChanged
    <3>1. done.ran /\ done.ledger = props.ledger /\ done.query = props.query
      BY <2>2 DEF DepsChanged
    <3>2. runs # <<>>
      BY <3>1 DEF IInv, LastRunAgrees
    <3>3. Len(runs) \in DOMAIN runs /\ runs' # <<>>
      BY <1>2, <2>2, <3>2, FlushedRuns
    <3>4. /\ UNCHANGED <<streamRef, timerRef>>
          /\ DOMAIN runs' = DOMAIN runs /\ Len(runs') = Len(runs)
          /\ \A i \in DOMAIN runs :
               /\ runs'[i].cancelled = runs[i].cancelled /\ runs'[i].phase = runs[i].phase
               /\ runs'[i].seen = runs[i].seen /\ runs'[i].ledger = runs[i].ledger
               /\ runs'[i].query = runs[i].query
      BY <2>2, FlushedRuns
    <3>5. RunsAgree'
      <4>1. RunsAgree
        BY DEF IInv
      <4>2. QED
        BY <1>3, <3>1, <3>4, <4>1 DEF RunsAgree
    <3>6. LastRunAgrees'
      <4>1. runs[Len(runs)].ledger = done.ledger /\ runs[Len(runs)].query = done.query
        BY <3>1 DEF IInv, LastRunAgrees
      <4>2. QED
        BY <1>3, <3>1, <3>3, <3>4, <4>1 DEF LastRunAgrees
    <3>7. QED
      BY <3>5, <3>6
  <2>3. QED
    BY <2>1, <2>2
<1>8. TypeOK'
  <2>1. /\ runs' \in Seq(Run)
        /\ streamRef' \in {NoRun} \cup DOMAIN runs' /\ timerRef' \in {NoRun} \cup DOMAIN runs'
        /\ streamRef' # NoRun => runs'[streamRef'].phase \in {"init", "live"}
    BY FlushedRuns DEF IInv, TypeOK
  <2>2. QED
    BY <1>1, <1>2, <1>3, <1>4, <1>5, <2>1 DEF IInv, TypeOK
<1>9. QED
  BY <1>6, <1>7, <1>8 DEF IInv

\* The cleanups of an unmount keep the invariant.
LEMMA FlushUnmountIInv == ASSUME IInv, FlushUnmount PROVE IInv'
<1>1. /\ runs' = CleanedUp /\ streamRef' = NoRun /\ timerRef' = NoRun
      /\ done' = [done EXCEPT !.ran = FALSE]
      /\ hook' = [hook EXCEPT !.connected = FALSE]
      /\ UNCHANGED <<props, ledgerTok, status, reloaded, events>>
  BY DEF FlushUnmount
<1>2. hook \in Hook /\ done \in [ran : BOOLEAN, token : Nat, trigger : Nat, query : Queries, ledger : Nat \ {0}]
  BY DEF IInv, TypeOK
<1>3. /\ done' \in [ran : BOOLEAN, token : Nat, trigger : Nat, query : Queries, ledger : Nat \ {0}]
      /\ ~done'.ran /\ done'.token = done.token /\ done'.ledger = done.ledger
      /\ hook' \in Hook /\ ~hook'.connected
  BY <1>1, <1>2 DEF Hook
<1>4. /\ runs' \in Seq(Run)
      /\ \A i \in DOMAIN runs' : IsDead(runs'[i])
  BY <1>1, CleanedUpIsDead
<1>5. TypeOK'
  BY <1>1, <1>3, <1>4 DEF IInv, TypeOK
<1>6. RunsAgree' /\ LastRunAgrees'
  BY <1>1, <1>3, <1>4 DEF RunsAgree, LastRunAgrees, IsDead, Dead, Open
<1>7. TokensAgree' /\ ViewAgrees'
  BY <1>1, <1>3 DEF IInv, TokensAgree, ViewAgrees
<1>8. QED
  BY <1>5, <1>6, <1>7 DEF IInv

-----------------------------------------------------------------------------
(* setupStream and the stream.                                             *)

\* A step of one run that keeps it in force or dead, and its refs with it.
LEMMA StepOfRun ==
  ASSUME IInv, NEW i \in DOMAIN runs, NEW run \in Run, runs' = [runs EXCEPT ![i] = run],
         UNCHANGED <<props, done, ledgerTok>>,
         streamRef' \in {streamRef, i}, timerRef' \in {timerRef, i},
         run.cancelled = runs[i].cancelled, run.ledger = runs[i].ledger, run.query = runs[i].query,
         run.cancelled => run.phase \in Dead /\ streamRef' = streamRef /\ timerRef' = timerRef,
         ~run.cancelled => run.phase # "closed",
         run.phase \in Open <=> streamRef' = i,
         run.phase = "waiting" => timerRef' = i,
         run.phase \notin Open => run.seen = {},
         streamRef' = i => run.token = done.token
  PROVE  /\ RunsAgree' /\ LastRunAgrees' /\ TokensAgree'
         /\ runs' \in Seq(Run) /\ DOMAIN runs' = DOMAIN runs
         /\ runs'[i] = run
         /\ \A j \in DOMAIN runs : j # i => runs'[j] = runs[j]
         /\ streamRef' \in {NoRun} \cup DOMAIN runs' /\ timerRef' \in {NoRun} \cup DOMAIN runs'
         /\ streamRef' # NoRun => runs'[streamRef'].phase \in {"init", "live"}
<1>1. /\ runs' \in Seq(Run) /\ DOMAIN runs' = DOMAIN runs /\ Len(runs') = Len(runs)
      /\ runs'[i] = run
      /\ \A j \in DOMAIN runs : j # i => runs'[j] = runs[j]
  BY RunUpdated DEF IInv
<1>2. /\ streamRef \in {NoRun} \cup DOMAIN runs /\ timerRef \in {NoRun} \cup DOMAIN runs
      /\ streamRef # NoRun => runs[streamRef].phase \in {"init", "live"}
      /\ Len(runs) \in Nat /\ DOMAIN runs = 1..Len(runs)
  BY DEF IInv, TypeOK
<1>3. /\ streamRef' \in {NoRun} \cup DOMAIN runs' /\ timerRef' \in {NoRun} \cup DOMAIN runs'
      /\ streamRef' # NoRun => runs'[streamRef'].phase \in {"init", "live"}
  BY <1>1, <1>2 DEF Open
<1>4. LastRunAgrees'
  <2>1. ASSUME done.ran
        PROVE  runs' # <<>> /\ runs'[Len(runs)].ledger = done.ledger /\ runs'[Len(runs)].query = done.query
    <3>1. runs # <<>> /\ runs[Len(runs)].ledger = done.ledger /\ runs[Len(runs)].query = done.query
      BY <2>1 DEF IInv, LastRunAgrees
    <3>2. Len(runs) \in DOMAIN runs
      BY <1>2
    <3>3. QED
      BY <1>1, <3>1, <3>2
  <2>2. QED
    BY <1>1, <2>1 DEF LastRunAgrees
<1>5. TokensAgree'
  BY <1>1, <1>2 DEF IInv, TokensAgree
<1>6. RunsAgree'
  <2>1. ASSUME ~run.cancelled, NEW j \in DOMAIN runs, j # i
        PROVE  runs[j].phase \in Dead
    BY <1>2, <2>1 DEF IInv, RunsAgree
  <2>2. ASSUME NEW j \in DOMAIN runs, j # i
        PROVE  /\ runs[j].phase \in Open => streamRef' = j
               /\ runs[j].phase = "waiting" => timerRef' = j
    BY <2>1, <2>2 DEF IInv, RunsAgree, Dead, Open
  <2>3. QED
    BY <1>1, <2>2 DEF IInv, RunsAgree
<1>7. QED
  BY <1>1, <1>3, <1>4, <1>5, <1>6

\* What IInv says of the run that takes a step.
LEMMA RunFacts ==
  ASSUME IInv, NEW i \in DOMAIN runs
  PROVE  /\ runs[i] \in Run /\ hook \in Hook
         /\ events \in Nat /\ streamRef \in {NoRun} \cup DOMAIN runs
         /\ runs[i].phase \in Open <=> streamRef = i
         /\ runs[i].phase \notin Dead => ~runs[i].cancelled
         /\ ~runs[i].cancelled => done.ran /\ i = Len(runs) /\ runs[i].phase # "closed"
         /\ runs[i].phase = "waiting" => timerRef = i
         /\ streamRef = i => runs[i].token = done.token
         /\ runs[i].phase \notin Open => runs[i].seen = {}
         /\ NoRun \notin DOMAIN runs
<1>1. runs \in Seq(Run) /\ DOMAIN runs = 1..Len(runs) /\ Len(runs) \in Nat
  BY DEF IInv, TypeOK
<1>2. NoRun \notin DOMAIN runs
  BY <1>1 DEF NoRun
<1>3. QED
  BY <1>1, <1>2 DEF IInv, TypeOK, RunsAgree, TokensAgree, Open, Dead

\* createStream() that resolves keeps the invariant, cleaned up or not.
LEMMA CreatedIInv == ASSUME IInv, NEW i \in DOMAIN runs, Created(i) PROVE IInv'
<1>1. /\ runs[i].phase = "creating"
      /\ UNCHANGED <<props, done, ledgerTok, timerRef, status, reloaded, events>>
  BY DEF Created
<1>2. CASE runs[i].cancelled
  <2> DEFINE run == [runs[i] EXCEPT !.phase = "closed"]
  <2>1. runs' = [runs EXCEPT ![i] = run] /\ UNCHANGED <<streamRef, hook>>
    BY <1>2 DEF Created
  <2>2. /\ run \in Run /\ run.phase = "closed" /\ run.cancelled
        /\ run.seen = {} /\ run.ledger = runs[i].ledger /\ run.query = runs[i].query
    BY <1>1, <1>2, RunFacts DEF Run, Phases, Open
  <2>3. streamRef # i
    BY <1>1, RunFacts DEF Open
  <2> HIDE DEF run
  <2>4. /\ RunsAgree' /\ LastRunAgrees' /\ TokensAgree'
        /\ runs' \in Seq(Run) /\ DOMAIN runs' = DOMAIN runs
        /\ \A j \in DOMAIN runs : j # i => runs'[j] = runs[j]
        /\ streamRef' \in {NoRun} \cup DOMAIN runs' /\ timerRef' \in {NoRun} \cup DOMAIN runs'
        /\ streamRef' # NoRun => runs'[streamRef'].phase \in {"init", "live"}
    BY <1>1, <1>2, <2>1, <2>2, <2>3, StepOfRun DEF Dead, Open
  <2>5. ViewAgrees'
    BY <1>1, <2>1, <2>3, <2>4, RunFacts DEF IInv, ViewAgrees
  <2>6. TypeOK'
    BY <1>1, <2>1, <2>4 DEF IInv, TypeOK
  <2>7. QED
    BY <2>4, <2>5, <2>6 DEF IInv
<1>3. CASE ~runs[i].cancelled
  <2> DEFINE run == [runs[i] EXCEPT !.phase = "init", !.acs = ActiveOf(runs[i].query),
                                    !.token = ledgerTok[runs[i].ledger]]
  <2>1. /\ runs' = [runs EXCEPT ![i] = run] /\ streamRef' = i
        /\ hook' = [hook EXCEPT !.connected = FALSE]
    BY <1>3 DEF Created
  <2>2. done.token \in Nat /\ ledgerTok[runs[i].ledger] = done.token
    BY <1>3, RunFacts DEF IInv, TypeOK, LastRunAgrees, TokensAgree
  <2>3. /\ run \in Run /\ run.phase = "init" /\ run.cancelled = runs[i].cancelled /\ run.seen = {}
        /\ run.ledger = runs[i].ledger /\ run.query = runs[i].query /\ run.token = done.token
    <3>1. ActiveOf(runs[i].query) \in SUBSET Contracts
      BY DEF ActiveOf
    <3>2. QED
      BY <1>1, <1>3, <2>2, <3>1, RunFacts DEF Run, Phases, Open
  <2> HIDE DEF run
  <2>4. /\ RunsAgree' /\ LastRunAgrees' /\ TokensAgree'
        /\ runs' \in Seq(Run) /\ DOMAIN runs' = DOMAIN runs /\ runs'[i] = run
        /\ streamRef' \in {NoRun} \cup DOMAIN runs' /\ timerRef' \in {NoRun} \cup DOMAIN runs'
        /\ streamRef' # NoRun => runs'[streamRef'].phase \in {"init", "live"}
    BY <1>1, <1>3, <2>1, <2>3, StepOfRun DEF Dead, Open
  <2>5. hook' \in Hook /\ ~hook'.connected
    BY <2>1, RunFacts DEF Hook
  <2>6. ViewAgrees'
    BY <1>1, <2>1, <2>3, <2>4, <2>5 DEF IInv, ViewAgrees
  <2>7. TypeOK'
    BY <1>1, <2>4, <2>5 DEF IInv, TypeOK
  <2>8. QED
    BY <2>4, <2>6, <2>7 DEF IInv
<1>4. QED
  BY <1>2, <1>3

\* createStream() that rejects keeps the invariant, cleaned up or not.
LEMMA CreateFailsIInv == ASSUME IInv, NEW i \in DOMAIN runs, CreateFails(i) PROVE IInv'
<1> DEFINE run == [runs[i] EXCEPT !.phase = IF runs[i].cancelled THEN "closed" ELSE "waiting"]
<1>1. /\ runs[i].phase = "creating" /\ events' \in Nat
      /\ UNCHANGED <<props, done, ledgerTok, streamRef, status, reloaded>>
      /\ runs' = [runs EXCEPT ![i] = run]
      /\ IF runs[i].cancelled
         THEN UNCHANGED <<timerRef, hook>>
         ELSE /\ timerRef' = i
              /\ hook' = [hook EXCEPT !.error = TRUE, !.connected = FALSE, !.loading = FALSE]
  BY RunFacts DEF CreateFails, Counted, Failed
<1>2. /\ run \in Run /\ run.cancelled = runs[i].cancelled /\ run.ledger = runs[i].ledger
      /\ run.query = runs[i].query /\ run.seen = {} /\ run.token = runs[i].token
      /\ run.phase = IF runs[i].cancelled THEN "closed" ELSE "waiting"
  BY <1>1, RunFacts DEF Run, Phases, Open
<1>3. streamRef # i
  BY <1>1, RunFacts DEF Open
<1> HIDE DEF run
<1>4. /\ RunsAgree' /\ LastRunAgrees' /\ TokensAgree'
      /\ runs' \in Seq(Run) /\ DOMAIN runs' = DOMAIN runs
      /\ \A j \in DOMAIN runs : j # i => runs'[j] = runs[j]
      /\ streamRef' \in {NoRun} \cup DOMAIN runs' /\ timerRef' \in {NoRun} \cup DOMAIN runs'
      /\ streamRef' # NoRun => runs'[streamRef'].phase \in {"init", "live"}
  BY <1>1, <1>2, <1>3, StepOfRun DEF Dead, Open
<1>5. hook' \in Hook /\ hook'.map = hook.map /\ (hook'.connected => hook.connected)
  BY <1>1, RunFacts DEF Hook
<1>6. ViewAgrees'
  BY <1>1, <1>3, <1>4, <1>5, RunFacts DEF IInv, ViewAgrees
<1>7. TypeOK'
  BY <1>1, <1>4, <1>5 DEF IInv, TypeOK
<1>8. QED
  BY <1>4, <1>6, <1>7 DEF IInv

\* A retry keeps the invariant.
LEMMA RetryFiresIInv == ASSUME IInv, NEW i \in DOMAIN runs, RetryFires(i) PROVE IInv'
<1> DEFINE run == [runs[i] EXCEPT !.phase = "creating"]
<1>1. /\ runs[i].phase = "waiting" /\ ~runs[i].cancelled
      /\ UNCHANGED <<props, done, ledgerTok, streamRef, timerRef, status, reloaded, events>>
      /\ runs' = [runs EXCEPT ![i] = run]
      /\ hook' = [hook EXCEPT !.loading = TRUE, !.error = FALSE]
  BY RunFacts DEF RetryFires, Dead
<1>2. /\ run \in Run /\ run.cancelled = runs[i].cancelled /\ run.ledger = runs[i].ledger
      /\ run.query = runs[i].query /\ run.seen = {} /\ run.phase = "creating"
  BY <1>1, RunFacts DEF Run, Phases, Open
<1>3. streamRef # i
  BY <1>1, RunFacts DEF Open
<1> HIDE DEF run
<1>4. /\ RunsAgree' /\ LastRunAgrees' /\ TokensAgree'
      /\ runs' \in Seq(Run) /\ DOMAIN runs' = DOMAIN runs
      /\ \A j \in DOMAIN runs : j # i => runs'[j] = runs[j]
      /\ streamRef' \in {NoRun} \cup DOMAIN runs' /\ timerRef' \in {NoRun} \cup DOMAIN runs'
      /\ streamRef' # NoRun => runs'[streamRef'].phase \in {"init", "live"}
  BY <1>1, <1>2, <1>3, StepOfRun DEF Dead, Open
<1>5. hook' \in Hook /\ hook'.map = hook.map /\ hook'.connected = hook.connected
  BY <1>1, RunFacts DEF Hook
<1>6. ViewAgrees'
  BY <1>1, <1>3, <1>4, <1>5, RunFacts DEF IInv, ViewAgrees
<1>7. TypeOK'
  BY <1>1, <1>4, <1>5 DEF IInv, TypeOK
<1>8. QED
  BY <1>4, <1>6, <1>7 DEF IInv

\* The steps of an open stream, by what they make of its run and of the hook.
LEMMA OpenStreamSteps ==
  ASSUME IInv, NEW i \in DOMAIN runs, runs[i].phase \in Open,
         NEW run \in Run, runs' = [runs EXCEPT ![i] = run],
         UNCHANGED <<props, done, ledgerTok, streamRef, timerRef, status, reloaded>>,
         events' \in Nat, hook' \in Hook,
         run.cancelled = runs[i].cancelled, run.ledger = runs[i].ledger,
         run.query = runs[i].query, run.token = runs[i].token, run.phase \in Open,
         hook'.connected => run.phase = "live",
         ~reloaded /\ runs[i].seen \subseteq hook.map => run.seen \subseteq hook'.map
  PROVE  IInv'
<1>1. streamRef = i /\ ~runs[i].cancelled /\ i # NoRun /\ run.token = done.token
  BY RunFacts DEF Open, Dead
<1>2. /\ RunsAgree' /\ LastRunAgrees' /\ TokensAgree'
      /\ runs' \in Seq(Run) /\ DOMAIN runs' = DOMAIN runs /\ runs'[i] = run
      /\ streamRef' \in {NoRun} \cup DOMAIN runs' /\ timerRef' \in {NoRun} \cup DOMAIN runs'
      /\ streamRef' # NoRun => runs'[streamRef'].phase \in {"init", "live"}
  BY <1>1, StepOfRun DEF Open
<1>3. ViewAgrees'
  BY <1>1, <1>2 DEF IInv, ViewAgrees
<1>4. TypeOK'
  BY <1>2 DEF IInv, TypeOK
<1>5. QED
  BY <1>2, <1>3, <1>4 DEF IInv

\* The events of an open stream keep the invariant.
LEMMA StreamIInv ==
  ASSUME IInv, NEW i \in DOMAIN runs, Stream(i) \/ Restarts(i) \/ Errors(i) PROVE IInv'
<1>1. /\ runs[i] \in Run /\ hook \in Hook /\ events \in Nat
      /\ runs[i].phase \in Open => streamRef = i /\ i # NoRun
      /\ hook.connected => streamRef # NoRun /\ runs[streamRef].phase = "live"
      /\ runs \in Seq(Run)
  BY RunFacts DEF IInv, ViewAgrees, TypeOK
<1>2. CASE GoesLive(i)
  <2> DEFINE run == [runs[i] EXCEPT !.phase = "live"]
  <2>1. /\ run \in Run /\ run.cancelled = runs[i].cancelled /\ run.ledger = runs[i].ledger
        /\ run.query = runs[i].query /\ run.token = runs[i].token /\ run.phase = "live"
        /\ run.seen = runs[i].seen
    BY <1>1 DEF Run, Phases
  <2>2. /\ runs[i].phase \in Open /\ runs' = [runs EXCEPT ![i] = run]
        /\ UNCHANGED <<props, done, ledgerTok, streamRef, timerRef, status, reloaded, events>>
        /\ hook' \in Hook /\ hook'.map = hook.map
    BY <1>1, <1>2 DEF GoesLive, Open, Hook
  <2> HIDE DEF run
  <2>3. QED
    BY <1>1, <2>1, <2>2, OpenStreamSteps DEF Open
<1>3. ASSUME NEW c \in Contracts, Shows(i, c) PROVE IInv'
  <2> DEFINE run == [runs[i] EXCEPT !.seen = @ \cup {c}]
  <2>1. /\ run \in Run /\ run.cancelled = runs[i].cancelled /\ run.ledger = runs[i].ledger
        /\ run.query = runs[i].query /\ run.token = runs[i].token /\ run.phase = runs[i].phase
        /\ run.seen = runs[i].seen \cup {c}
    BY <1>1 DEF Run
  <2>2. /\ runs[i].phase \in Open /\ runs' = [runs EXCEPT ![i] = run]
        /\ UNCHANGED <<props, done, ledgerTok, streamRef, timerRef, status, reloaded, events>>
        /\ hook' \in Hook /\ hook'.map = hook.map \cup {c} /\ hook'.connected = hook.connected
    BY <1>1, <1>3 DEF Shows, Shown, Open, Hook
  <2> HIDE DEF run
  <2>3. QED
    BY <1>1, <2>1, <2>2, OpenStreamSteps
<1>4. ASSUME NEW c \in Contracts, Archives(i, c) PROVE IInv'
  <2> DEFINE run == [runs[i] EXCEPT !.seen = @ \ {c}]
  <2>1. /\ run \in Run /\ run.cancelled = runs[i].cancelled /\ run.ledger = runs[i].ledger
        /\ run.query = runs[i].query /\ run.token = runs[i].token /\ run.phase = runs[i].phase
        /\ run.seen = runs[i].seen \ {c}
    BY <1>1 DEF Run
  <2>2. /\ runs[i].phase \in Open /\ runs' = [runs EXCEPT ![i] = run]
        /\ UNCHANGED <<props, done, ledgerTok, streamRef, timerRef, status, reloaded, events>>
        /\ hook' \in Hook /\ hook'.map = hook.map \ {c} /\ hook'.connected = hook.connected
    BY <1>1, <1>4 DEF Archives, Open, Hook
  <2> HIDE DEF run
  <2>3. QED
    BY <1>1, <2>1, <2>2, OpenStreamSteps
<1>5. CASE Restarts(i)
  <2> DEFINE run == Restarted(runs[i])
  <2>1. /\ run \in Run /\ run.cancelled = runs[i].cancelled /\ run.ledger = runs[i].ledger
        /\ run.query = runs[i].query /\ run.token = runs[i].token /\ run.phase = "init"
        /\ run.seen = {}
    BY <1>1 DEF Restarted, Run, Phases
  <2>2. /\ runs[i].phase \in Open /\ runs' = [runs EXCEPT ![i] = run]
        /\ UNCHANGED <<props, done, ledgerTok, streamRef, timerRef, status, reloaded>>
        /\ events' \in Nat /\ hook' \in Hook /\ ~hook'.connected
    <3>1. Counted /\ hook' = [hook EXCEPT !.connected = FALSE]
      BY <1>5 DEF Restarts
    <3>2. events' \in Nat
      BY <1>1, <3>1 DEF Counted
    <3>3. hook' \in Hook /\ ~hook'.connected
      BY <1>1, <3>1 DEF Hook
    <3>4. QED
      BY <1>5, <3>2, <3>3 DEF Restarts, Open
  <2> HIDE DEF run
  <2>3. QED
    BY <2>1, <2>2, OpenStreamSteps DEF Open
<1>6. CASE Errors(i)
  <2>1. /\ runs[i].phase \in Open /\ runs' = [runs EXCEPT ![i] = runs[i]]
        /\ UNCHANGED <<props, done, ledgerTok, streamRef, timerRef, status, reloaded>>
        /\ events' \in Nat /\ hook' \in Hook /\ ~hook'.connected /\ hook'.map = hook.map
    <3>1. Counted /\ hook' = [hook EXCEPT !.error = TRUE, !.connected = FALSE]
      BY <1>6 DEF Errors
    <3>2. events' \in Nat
      BY <1>1, <3>1 DEF Counted
    <3>3. hook' \in Hook /\ ~hook'.connected /\ hook'.map = hook.map
      BY <1>1, <3>1 DEF Hook
    <3>4. runs = [runs EXCEPT ![i] = runs[i]]
      BY <1>1
    <3>5. QED
      BY <1>6, <3>2, <3>3, <3>4 DEF Errors, Open
  <2>2. QED
    BY <1>1, <2>1, OpenStreamSteps
<1>7. QED
  BY <1>2, <1>3, <1>4, <1>5, <1>6 DEF Stream

\* reload() keeps the invariant, which claims nothing of the map from then on.
LEMMA ReloadIInv == ASSUME IInv, Reload PROVE IInv'
<1>1. /\ UNCHANGED <<props, done, ledgerTok, runs, streamRef, timerRef, status>>
      /\ reloaded' = TRUE /\ events' \in Nat
      /\ hook' \in Hook /\ hook'.connected = hook.connected
  <2>1. hook \in Hook /\ events \in Nat
    BY DEF IInv, TypeOK
  <2>2. Counted /\ hook' = [hook EXCEPT !.map = {}, !.loading = TRUE, !.error = FALSE]
    BY DEF Reload
  <2>3. events' \in Nat
    BY <2>1, <2>2 DEF Counted
  <2>4. hook' \in Hook /\ hook'.connected = hook.connected
    BY <2>1, <2>2 DEF Hook
  <2>5. QED
    BY <2>3, <2>4 DEF Reload
<1>2. QED
  BY <1>1 DEF IInv, TypeOK, RunsAgree, LastRunAgrees, TokensAgree, ViewAgrees

\* The ledger's own steps keep the invariant.
LEMMA LedgerMovesIInv == ASSUME IInv, NEW c \in Contracts, LedgerMoves(c) PROVE IInv'
<1>1. /\ UNCHANGED <<props, done, ledgerTok, runs, streamRef, timerRef, hook, reloaded, events>>
      /\ status' \in [Contracts -> {"future", "active", "archived"}]
  BY DEF LedgerMoves, IInv, TypeOK
<1>2. QED
  BY <1>1 DEF IInv, TypeOK, RunsAgree, LastRunAgrees, TokensAgree, ViewAgrees

\* Every step, and every stutter, keeps the invariant.
LEMMA NextIInv == IInv /\ [Next]_vars => IInv'
<1> SUFFICES ASSUME IInv, [Next]_vars PROVE IInv'
  OBVIOUS
<1>1. CASE Render \/ Unmount \/ FlushEffects \/ FlushUnmount \/ Reload
  BY <1>1, RenderIInv, UnmountIInv, FlushEffectsIInv, FlushUnmountIInv, ReloadIInv
<1>2. ASSUME NEW i \in DOMAIN runs,
             Setup(i) \/ RetryFires(i) \/ Stream(i) \/ Restarts(i) \/ Errors(i)
      PROVE  IInv'
  BY <1>2, CreatedIInv, CreateFailsIInv, RetryFiresIInv, StreamIInv DEF Setup
<1>3. ASSUME NEW c \in Contracts, LedgerMoves(c) PROVE IInv'
  BY <1>3, LedgerMovesIInv
<1>4. CASE UNCHANGED vars
  BY <1>4 DEF vars, IInv, TypeOK, RunsAgree, LastRunAgrees, TokensAgree, ViewAgrees
<1>5. QED
  BY <1>1, <1>2, <1>3, <1>4 DEF Next

\* The invariant holds in every reachable state.
LEMMA Invariant == Spec => []IInv
BY InitIInv, NextIInv, PTL DEF Spec

-----------------------------------------------------------------------------
(* The theorems.                                                           *)

\* Every reachable state is well typed, and the ref holds an open stream or none.
THEOREM TypeCorrect == Spec => []TypeOK
<1>1. IInv => TypeOK
  BY DEF IInv
<1>2. QED
  BY <1>1, Invariant, PTL

\* No stream and no timer outlives the run of the effect that made it, however
\* renders, StrictMode and late answers of createStream() come together.
THEOREM NothingLeaks == Spec => []OneStream
<1>1. ASSUME IInv PROVE OneStream
  <2>1. \A i \in DOMAIN runs : Busy(i) <=> done.ran /\ i = Len(runs)
    <3>1. ASSUME NEW i \in DOMAIN runs PROVE Busy(i) <=> done.ran /\ i = Len(runs)
      <4>1. runs[i] \in Run
        BY <1>1, RunFacts
      <4>2. QED
        BY <1>1, <4>1 DEF IInv, RunsAgree, Busy, Run, Phases, Dead
    <3>2. QED
      BY <3>1
  <2>2. QED
    BY <1>1, <2>1 DEF IInv, RunsAgree, LastRunAgrees, OneStream, Open
<1>2. QED
  BY <1>1, Invariant, PTL

\* "Passes refreshed tokens through to the live Ledger so streams and queries
\* stay authenticated" (react/README.md:257).
THEOREM TokensPassThrough == Spec => []TokenFollows
<1>1. IInv => TokenFollows
  BY DEF IInv, TokensAgree, TokenFollows, Flushed
<1>2. QED
  BY <1>1, Invariant, PTL

\* A map that nothing reloaded by hand is complete whenever it says so.
THEOREM LoadedMapIsComplete == Spec => []CompleteWhenLoaded
<1>1. IInv => CompleteWhenLoaded
  BY DEF IInv, ViewAgrees, CompleteWhenLoaded, Loaded
<1>2. QED
  BY <1>1, Invariant, PTL
=============================================================================
