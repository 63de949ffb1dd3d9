----------------------------- MODULE StreamHook -----------------------------
(***************************************************************************)
(* A streaming hook of the react package under its provider: DamlLedger    *)
(* and useStreamBase, as useStreamQuery uses it (react/src/context.ts),    *)
(* over the Ledger and the LedgerStream of the ledger package.             *)
(*                                                                         *)
(* A render commits new props; the effects of the commit run later, all of *)
(* them at once, and before the next render.  Between the two, and while   *)
(* createStream() is awaited, anything else may happen.  Each run of the   *)
(* setup effect has its own `cancelled` flag, makes at most one stream and *)
(* is numbered here; its stream is known by that number.                   *)
(*                                                                         *)
(* The stream is what LedgerStream promises: it shows the contracts of its *)
(* ACS, goes live, and shows what is created and archived from then on.    *)
(***************************************************************************)
EXTENDS Naturals, Sequences

CONSTANTS
  Queries, FirstQuery,   \* what a hook may ask for, and what it asks first
  Contracts, QueryOf,    \* QueryOf[c]: the query that contract c matches
  StrictMode,            \* React mounts, unmounts and mounts again
  MaxTokens,             \* bound: changes of the token prop
  MaxTriggers,           \* bound: calls of triggerReload
  MaxEvents              \* bound: changes of the query, calls of the reload() a
                         \* hook returns, calls of createStream that reject, and
                         \* errors and new ACS phases of the streams, together

ASSUME HookAssumption ==
  /\ FirstQuery \in Queries /\ QueryOf \in [Contracts -> Queries]
  /\ StrictMode \in BOOLEAN
  /\ MaxTokens \in Nat /\ MaxTriggers \in Nat /\ MaxEvents \in Nat

Phases == {"creating", "waiting", "init", "live", "closed"}
NoRun  == 0   \* null

VARIABLES
  props,      \* what is committed: token, reloadTrigger, query, ledger
  done,       \* what the effects have last run with
  ledgerTok,  \* the token of each Ledger that useMemo has made
  runs,       \* the runs of the setup effect, each with its stream
  streamRef,  \* NoRun, or the run whose stream it holds
  timerRef,   \* reconnectTimeoutRef: NoRun, or the run whose timer it names
  hook,       \* contractsMap, loading, connected, error
  status,     \* of each contract on the ledger
  reloaded,   \* history: reload() was called
  events      \* what MaxEvents counts

vars == <<props, done, ledgerTok, runs, streamRef, timerRef, hook, status, reloaded, events>>

Props == [mounted : BOOLEAN, token : Nat, trigger : Nat, query : Queries, ledger : Nat \ {0}]
Run == [ledger : Nat \ {0}, query : Queries, cancelled : BOOLEAN, phase : Phases,
        token : Nat,                 \* of the stream's WebSocketClient
        acs   : SUBSET Contracts,    \* what the ACS phase has to show
        seen  : SUBSET Contracts]    \* shown by this phase and not archived
Hook == [map : SUBSET Contracts, loading : BOOLEAN, connected : BOOLEAN, error : BOOLEAN]

\* The first render; a hook may also be mounted after a triggerReload.
Init ==
  /\ \E t \in {0, 1} :
       props = [mounted |-> TRUE, token |-> 0, trigger |-> t, query |-> FirstQuery, ledger |-> 1]
  /\ done = [ran |-> FALSE, token |-> 0, trigger |-> 0, query |-> FirstQuery, ledger |-> 1]
  /\ ledgerTok = <<0>>
  /\ runs = <<>> /\ streamRef = NoRun /\ timerRef = NoRun
  /\ hook = [map |-> {}, loading |-> TRUE, connected |-> FALSE, error |-> FALSE]
  /\ status \in [Contracts -> {"future", "active"}]
  /\ reloaded = FALSE /\ events = 0

Counted == events < MaxEvents /\ events' = events + 1

-----------------------------------------------------------------------------
(* Renders.                                                                *)

\* The effects of the last commit have run.
Flushed ==
  IF props.mounted
  THEN done = [ran |-> TRUE, token |-> props.token, trigger |-> props.trigger,
               query |-> props.query, ledger |-> props.ledger]
  ELSE ~done.ran

\* A render with any mix of a new token, a new query and a triggerReload, for
\* which useMemo makes a new Ledger.
Render ==
  /\ props.mounted /\ Flushed
  /\ \E token \in {props.token, props.token + 1},
        trigger \in {props.trigger, props.trigger + 1}, query \in Queries :
       /\ token <= MaxTokens /\ trigger <= MaxTriggers
       /\ IF query # props.query THEN Counted ELSE UNCHANGED events
       /\ IF trigger # props.trigger
          THEN /\ ledgerTok' = Append(ledgerTok, token)
               /\ props' = [props EXCEPT !.token = token, !.trigger = trigger,
                                         !.query = query, !.ledger = Len(ledgerTok) + 1]
          ELSE /\ token # props.token \/ query # props.query
               /\ props' = [props EXCEPT !.token = token, !.query = query]
               /\ UNCHANGED ledgerTok
  /\ UNCHANGED <<done, runs, streamRef, timerRef, hook, status, reloaded>>

Unmount ==
  /\ props.mounted /\ Flushed
  /\ props' = [props EXCEPT !.mounted = FALSE]
  /\ UNCHANGED <<done, ledgerTok, runs, streamRef, timerRef, hook, status, reloaded, events>>

-----------------------------------------------------------------------------
(* Effects.                                                                *)

DepsChanged == ~done.ran \/ done.ledger # props.ledger \/ done.query # props.query

Closed(run) == [run EXCEPT !.phase = "closed", !.token = 0, !.acs = {}, !.seen = {}]

\* The cleanup of the setup effect: the run in force is the last one.
CleanedUp ==
  [i \in DOMAIN runs |->
    LET run == [runs[i] EXCEPT !.cancelled = @ \/ i = Len(runs)] IN
    IF i = streamRef \/ (i = timerRef /\ run.phase = "waiting") THEN Closed(run) ELSE run]

NewRun(cancelled) ==
  [ledger |-> props.ledger, query |-> props.query, cancelled |-> cancelled,
   phase |-> "creating", token |-> 0, acs |-> {}, seen |-> {}]
\* StrictMode cleans the first run up at once and runs the effect again.
NewRuns == IF StrictMode /\ ~done.ran THEN <<NewRun(TRUE), NewRun(FALSE)>> ELSE <<NewRun(FALSE)>>

\* The stream that updateToken of the hook reaches: cleanups run first.
TokenReaches == IF props.token # done.token /\ ~DepsChanged THEN {streamRef} \cap DOMAIN runs ELSE {}
\* Mutant: the hook leaves a new token to the next stream.
MutPushed(r) == r
Pushed(r) == [i \in DOMAIN r |-> IF i \in TokenReaches THEN [r[i] EXCEPT !.token = props.token] ELSE r[i]]

Reloads == props.trigger # done.trigger /\ props.trigger > 0

\* Cleanup, then the effects of the hook in order, then those of DamlLedger.
FlushEffects ==
  /\ props.mounted /\ ~Flushed
  /\ IF DepsChanged
     THEN /\ runs' = Pushed(CleanedUp \o NewRuns)
          /\ streamRef' = NoRun /\ timerRef' = NoRun
     ELSE runs' = Pushed(runs) /\ UNCHANGED <<streamRef, timerRef>>
  /\ hook' = [map       |-> IF Reloads THEN {} ELSE hook.map,
              loading   |-> hook.loading \/ DepsChanged \/ Reloads,
              connected |-> hook.connected /\ ~DepsChanged,
              error     |-> hook.error /\ ~DepsChanged /\ ~Reloads]
  /\ ledgerTok' = IF props.token # done.token
                  THEN [ledgerTok EXCEPT ![props.ledger] = props.token] ELSE ledgerTok
  /\ done' = [ran |-> TRUE, token |-> props.token, trigger |-> props.trigger,
              query |-> props.query, ledger |-> props.ledger]
  /\ UNCHANGED <<props, status, reloaded, events>>

FlushUnmount ==
  /\ ~props.mounted /\ ~Flushed
  /\ runs' = CleanedUp /\ streamRef' = NoRun /\ timerRef' = NoRun
  /\ done' = [done EXCEPT !.ran = FALSE]
  /\ hook' = [hook EXCEPT !.connected = FALSE]
  /\ UNCHANGED <<props, ledgerTok, status, reloaded, events>>

-----------------------------------------------------------------------------
(* setupStream.                                                            *)

ActiveOf(q) == {c \in Contracts : QueryOf[c] = q /\ status[c] = "active"}

\* Mutant: a run does not look whether it was cleaned up while it waited.
MutCreated(i) ==
  /\ runs[i].phase = "creating"
  /\ runs' = [runs EXCEPT ![i] = [@ EXCEPT !.phase = "init", !.acs = ActiveOf(runs[i].query),
                                           !.token = ledgerTok[runs[i].ledger]]]
  /\ streamRef' = i
  /\ hook' = [hook EXCEPT !.connected = FALSE]
  /\ UNCHANGED <<props, done, ledgerTok, timerRef, status, reloaded, events>>

\* createStream() resolves with a stream that has the Ledger's token.
Created(i) ==
  /\ runs[i].phase = "creating"
  /\ IF runs[i].cancelled
     THEN runs' = [runs EXCEPT ![i].phase = "closed"] /\ UNCHANGED <<streamRef, hook>>
     ELSE /\ runs' = [runs EXCEPT ![i] = [@ EXCEPT !.phase = "init", !.acs = ActiveOf(runs[i].query),
                                                   !.token = ledgerTok[runs[i].ledger]]]
          /\ streamRef' = i
          /\ hook' = [hook EXCEPT !.connected = FALSE]
  /\ UNCHANGED <<props, done, ledgerTok, timerRef, status, reloaded, events>>

\* Mutant: the error is shown, but no timer is armed.
MutFailed(i) == [runs EXCEPT ![i].phase = "closed"]
Failed(i) == [runs EXCEPT ![i].phase = IF runs[i].cancelled THEN "closed" ELSE "waiting"]

\* createStream() rejects.
CreateFails(i) ==
  /\ runs[i].phase = "creating" /\ Counted
  /\ runs' = Failed(i)
  /\ IF runs[i].cancelled
     THEN UNCHANGED <<timerRef, hook>>
     ELSE /\ timerRef' = i
          /\ hook' = [hook EXCEPT !.error = TRUE, !.connected = FALSE, !.loading = FALSE]
  /\ UNCHANGED <<props, done, ledgerTok, streamRef, status, reloaded>>

\* The timer of a failed run: setupStream() again.
RetryFires(i) ==
  /\ runs[i].phase = "waiting"
  /\ IF runs[i].cancelled
     THEN runs' = [runs EXCEPT ![i].phase = "closed"] /\ UNCHANGED hook
     ELSE /\ runs' = [runs EXCEPT ![i].phase = "creating"]
          /\ hook' = [hook EXCEPT !.loading = TRUE, !.error = FALSE]
  /\ UNCHANGED <<props, done, ledgerTok, streamRef, timerRef, status, reloaded, events>>

-----------------------------------------------------------------------------
(* The stream, and what the hook's listeners make of its events.  A closed *)
(* stream has no listeners.                                                *)

\* Mutant: the map of the render that set the listener up is updated.
MutShown(c) == {c}
Shown(c) == hook.map \cup {c}

Shows(i, c) ==
  /\ \/ runs[i].phase = "init" /\ c \in runs[i].acs
     \/ runs[i].phase = "live" /\ c \in ActiveOf(runs[i].query)
  /\ c \notin runs[i].seen
  /\ runs' = [runs EXCEPT ![i].seen = @ \cup {c}]
  /\ hook' = [hook EXCEPT !.map = Shown(c)]
  /\ UNCHANGED <<props, done, ledgerTok, streamRef, timerRef, status, reloaded, events>>

Archives(i, c) ==
  /\ runs[i].phase = "live" /\ c \in runs[i].seen /\ status[c] = "archived"
  /\ runs' = [runs EXCEPT ![i].seen = @ \ {c}]
  /\ hook' = [hook EXCEPT !.map = @ \ {c}]
  /\ UNCHANGED <<props, done, ledgerTok, streamRef, timerRef, status, reloaded, events>>

\* The "state" event "live".
GoesLive(i) ==
  /\ runs[i].phase = "init" /\ runs[i].acs \subseteq runs[i].seen
  /\ runs' = [runs EXCEPT ![i].phase = "live"]
  /\ hook' = [hook EXCEPT !.connected = TRUE, !.loading = FALSE]
  /\ UNCHANGED <<props, done, ledgerTok, streamRef, timerRef, status, reloaded, events>>

Restarted(run) ==
  [run EXCEPT !.phase = "init", !.seen = {},
              !.acs = IF run.phase = "live" THEN run.seen ELSE run.acs]

\* The "state" event "init": restartFromAcs, at the offset the stream has reached.
Restarts(i) ==
  /\ runs[i].phase \in {"init", "live"} /\ Counted
  /\ runs' = [runs EXCEPT ![i] = Restarted(@)]
  /\ hook' = [hook EXCEPT !.connected = FALSE]
  /\ UNCHANGED <<props, done, ledgerTok, streamRef, timerRef, status, reloaded>>

\* The "error" event: the stream itself goes on.
Errors(i) ==
  /\ runs[i].phase \in {"init", "live"} /\ Counted
  /\ hook' = [hook EXCEPT !.error = TRUE, !.connected = FALSE]
  /\ UNCHANGED <<props, done, ledgerTok, runs, streamRef, timerRef, status, reloaded>>

-----------------------------------------------------------------------------
(* The application and the ledger.                                         *)

\* The reload() that the hook returns: the stream is not made again.
Reload ==
  /\ props.mounted /\ Counted
  /\ hook' = [hook EXCEPT !.map = {}, !.loading = TRUE, !.error = FALSE]
  /\ reloaded' = TRUE
  /\ UNCHANGED <<props, done, ledgerTok, runs, streamRef, timerRef, status>>

LedgerMoves(c) ==
  /\ status[c] # "archived"
  /\ status' = [status EXCEPT ![c] = IF @ = "future" THEN "active" ELSE "archived"]
  /\ UNCHANGED <<props, done, ledgerTok, runs, streamRef, timerRef, hook, reloaded, events>>

Setup(i)  == Created(i) \/ CreateFails(i)
Stream(i) == GoesLive(i) \/ \E c \in Contracts : Shows(i, c) \/ Archives(i, c)

Next ==
  \/ Render \/ Unmount \/ FlushEffects \/ FlushUnmount \/ Reload
  \/ \E i \in DOMAIN runs : Setup(i) \/ RetryFires(i) \/ Stream(i) \/ Restarts(i) \/ Errors(i)
  \/ \E c \in Contracts : LedgerMoves(c)

Spec == Init /\ [][Next]_vars

\* React runs the effects of a commit, createStream() settles, timers fire, and
\* the participant sends what a stream asks for.
Fairness ==
  /\ WF_vars(FlushEffects \/ FlushUnmount)
  /\ WF_vars(\E i \in DOMAIN runs : Setup(i))
  /\ WF_vars(\E i \in DOMAIN runs : RetryFires(i))
  /\ WF_vars(\E i \in DOMAIN runs : Stream(i))

FairSpec == Spec /\ Fairness

-----------------------------------------------------------------------------
(* Properties.                                                             *)

TypeOK ==
  /\ props \in Props
  /\ done \in [ran : BOOLEAN, token : Nat, trigger : Nat, query : Queries, ledger : Nat \ {0}]
  /\ ledgerTok \in Seq(Nat) /\ Len(ledgerTok) >= props.ledger
  /\ runs \in Seq(Run)
  /\ streamRef \in {NoRun} \cup DOMAIN runs /\ timerRef \in {NoRun} \cup DOMAIN runs
  /\ streamRef # NoRun => runs[streamRef].phase \in {"init", "live"}
  /\ hook \in Hook
  /\ status \in [Contracts -> {"future", "active", "archived"}]
  /\ reloaded \in BOOLEAN /\ events \in Nat

\* A run that will still do something to the hook: it awaits its stream, its
\* timer is armed, or its stream is open.
Busy(i) ==
  \/ runs[i].phase = "creating" /\ ~runs[i].cancelled
  \/ runs[i].phase = "waiting"
  \/ runs[i].phase \in {"init", "live"}

\* A mounted hook has one thing under way, for the query and the Ledger it was
\* last run with, and its refs reach it; an unmounted one has none, so no
\* stream "leaks as a live, auto-reconnecting WebSocket that nothing holds a
\* reference to" (context.ts:411-412), and no timer outlives its run.
OneStream ==
  /\ \A i \in DOMAIN runs : Busy(i) <=> done.ran /\ i = Len(runs)
  /\ done.ran => /\ runs # <<>>
                 /\ runs[Len(runs)].ledger = done.ledger /\ runs[Len(runs)].query = done.query
  /\ \A i \in DOMAIN runs :
       /\ runs[i].phase \in {"init", "live"} => streamRef = i
       /\ runs[i].phase = "waiting" => timerRef = i

\* When the effects have run, the Ledger and the open stream have the token of
\* the last render, also when it came while the stream was being made.
TokenFollows ==
  props.mounted /\ Flushed =>
    /\ ledgerTok[props.ledger] = props.token
    /\ streamRef # NoRun => runs[streamRef].token = props.token

Loaded == hook.connected /\ ~hook.loading

\* While nothing has called reload(), a hook that says it is connected and not
\* loading has every contract in its map that its stream has shown and not
\* archived, also right after a triggerReload.
CompleteWhenLoaded ==
  Loaded /\ ~reloaded =>
    streamRef # NoRun /\ runs[streamRef].seen \subseteq hook.map

\* Contradicted: the same, whenever reload() was called: "Function to manually reload the
\* query" (react/src/types.ts:66).
ReloadedIsComplete ==
  Loaded => streamRef # NoRun /\ runs[streamRef].seen \subseteq hook.map

\* A hook that stays mounted gets a live stream for its last render, whatever
\* rejections, tokens, reloads and renders came before.
ComesLive ==
  props.mounted ~>
    ~props.mounted \/ (Flushed /\ streamRef # NoRun /\ runs[streamRef].phase = "live")
=============================================================================
