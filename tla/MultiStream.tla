---------------------------- MODULE MultiStream ----------------------------
(***************************************************************************)
(* One stream for many templates or interfaces: the adapters that route a  *)
(* stream's events to the listeners of an identifier                       *)
(* (ledger/src/multistream.ts, PackageIdEmitterMap.ts), the hook that makes *)
(* them (useMultiStreamBase of react/src/context.ts) and the component     *)
(* that uses the hook: an effect of it registers a listener of each kind   *)
(* for each identifier whenever the hook returns another stream, and its   *)
(* cleanup takes them off.                                                 *)
(*                                                                         *)
(* The stream itself is what LedgerStream promises.  Everything that makes *)
(* the setup effect run again, a new mapping or the new Ledger of a        *)
(* triggerReload, is a change of `deps`.  Tokens pass through the hook as  *)
(* in StreamHook and are left out.                                         *)
(***************************************************************************)
EXTENDS Naturals, Sequences

CONSTANTS
  Ids, Name,         \* identifiers, and the part of each after its package
  MappingOf,         \* the keys of the mapping: of templates (FALSE), of interfaces (TRUE)
  Contracts,         \* the contracts that the stream's filters match
  TemplateOf,        \* the identifier a contract's events carry
  ViewsOf,           \* the interfaces a create event shows, in order
  Unreadable,        \* pairs of a contract and an interface it has no view of here
  StrictMode,        \* React mounts, unmounts and mounts again
  CommitsFirst,      \* a stream's first event comes after the commit that returns it
  MaxDeps,           \* bound: changes of deps
  MaxListens,        \* bound: times the component's effect runs for the same stream
  MaxEvents          \* bound: rejections, errors, restarts, calls of reload(), together

ASSUME MultiAssumption ==
  /\ TemplateOf \in [Contracts -> Ids] /\ ViewsOf \in [Contracts -> Seq(Ids)]
  /\ MappingOf \in [BOOLEAN -> SUBSET Ids] /\ Unreadable \subseteq Contracts \X Ids
  /\ DOMAIN Name = Ids /\ StrictMode \in BOOLEAN /\ CommitsFirst \in BOOLEAN
  /\ MaxDeps \in Nat /\ MaxListens \in Nat /\ MaxEvents \in Nat

Kinds  == {"create", "archive", "interfaceView"}
Phases == {"creating", "waiting", "init", "live", "closed"}
NoRun  == 0   \* null

VARIABLES
  interfaces,  \* a mapping of interfaces: an InterfaceMultiStreamImpl
  props,       \* what is committed: mounted, deps
  done,        \* what the setup effect has last run with
  runs,        \* the runs of the setup effect, each with its stream
  streamRef,   \* NoRun, or the run whose stream it holds
  timerRef,    \* reconnectTimeoutRef: NoRun, or the run whose timer it names
  hook,        \* what the hook returns
  listening,   \* NoRun, or the run whose stream the component's effect has seen last
  status,      \* of each contract on the ledger
  reloaded,    \* history: reload() was called since the setup effect ran
  late,        \* history: a run rejected after its cleanup, since the last state event
  events       \* what MaxEvents counts

hookVars == <<props, done, streamRef, timerRef, hook, listening, reloaded>>
multiVars == <<interfaces, props, done, runs, streamRef, timerRef, hook, listening,
          status, reloaded, late, events>>

Mapping == MappingOf[interfaces]
Heard == [Mapping \X Kinds \X Contracts -> Nat]
Silence == [h \in Mapping \X Kinds \X Contracts |-> 0]

NewRun(cancelled) ==
  [cancelled |-> cancelled, phase |-> "creating",
   acs   |-> {},        \* what the ACS phase has to show
   shown |-> {},        \* created, and
   gone  |-> {},        \* archived, in this ACS phase and the updates after it
   on    |-> [id \in Mapping |-> 0],   \* the wrappers that the emitters hold
   heard |-> Silence]   \* how often each listener was called in it

MultiInit ==
  /\ interfaces \in BOOLEAN
  /\ props = [mounted |-> TRUE, deps |-> 0] /\ done = [ran |-> FALSE, deps |-> 0]
  /\ runs = <<>> /\ streamRef = NoRun /\ timerRef = NoRun /\ listening = NoRun
  /\ hook = [stream |-> NoRun, loading |-> TRUE, connected |-> FALSE, error |-> FALSE]
  /\ status \in [Contracts -> {"future", "active"}]
  /\ reloaded = FALSE /\ late = FALSE /\ events = 0

Counted == events < MaxEvents /\ events' = events + 1

-----------------------------------------------------------------------------
(* The adapter: events and listeners.                                      *)

\* Mutant: an emitter is looked up by the whole identifier.
MutSameEmitter(a, b) == a = b
SameEmitter(a, b) == Name[a] = Name[b]

\* A view that this package's code does not know is null, and the adapter's
\* listener throws on it: the views after it are not emitted.
Views(c) ==
  IF interfaces
  THEN {ViewsOf[c][k] : k \in {n \in DOMAIN ViewsOf[c] :
                                 \A l \in 1..n : <<c, ViewsOf[c][l]>> \notin Unreadable}}
  ELSE {}

\* Events of a kind for contract c, about the identifiers of `ids`: the wrappers
\* of an emitter are called, and an event without an emitter is dropped.
Emitted(run, kind, ids, c) ==
  [h \in DOMAIN run.heard |->
     run.heard[h] + IF h[2] = kind /\ h[3] = c /\ \E id \in ids : SameEmitter(id, h[1])
                    THEN run.on[h[1]] ELSE 0]

HandleCreate(run, c) ==
  LET created == [run EXCEPT !.shown = @ \cup {c},
                             !.heard = Emitted(run, "create", {TemplateOf[c]}, c)]
  IN  [created EXCEPT !.heard = Emitted(created, "interfaceView", Views(c), c)]

HandleArchive(run, c) ==
  [run EXCEPT !.gone = @ \cup {c}, !.heard = Emitted(run, "archive", {TemplateOf[c]}, c)]

\* Mutant: closing the adapter leaves the stream under it open.
MutClosed(run) == [run EXCEPT !.on = [id \in Mapping |-> 0], !.heard = Silence]
\* close() of the adapter and of the stream.
Closed(run) == [NewRun(run.cancelled) EXCEPT !.phase = "closed"]

\* onCreate, onArchive, onInterfaceView wrap the listener; offCreate and the others
\* look for the listener itself, which no emitter holds.
On(run)  == [run EXCEPT !.on = [id \in Mapping |-> @[id] + 1]]
Off(run) == run

-----------------------------------------------------------------------------
(* The hook: effects.                                                      *)

Flushed == IF props.mounted THEN done = [ran |-> TRUE, deps |-> props.deps] ELSE ~done.ran

RenderMulti ==
  /\ props.mounted /\ Flushed /\ props.deps < MaxDeps
  /\ props' = [props EXCEPT !.deps = @ + 1]
  /\ UNCHANGED <<interfaces, done, runs, streamRef, timerRef, hook, listening, status, reloaded, late, events>>

Unmount ==
  /\ props.mounted /\ Flushed
  /\ props' = [props EXCEPT !.mounted = FALSE]
  /\ UNCHANGED <<interfaces, done, runs, streamRef, timerRef, hook, listening, status, reloaded, late, events>>

\* The cleanup of the setup effect.
CleanedUp ==
  [i \in DOMAIN runs |->
    LET run == [runs[i] EXCEPT !.cancelled = @ \/ i = Len(runs)] IN
    IF i = streamRef \/ (i = timerRef /\ run.phase = "waiting") THEN Closed(run) ELSE run]

NewRuns == IF StrictMode /\ ~done.ran THEN <<NewRun(TRUE), NewRun(FALSE)>> ELSE <<NewRun(FALSE)>>

FlushEffects ==
  /\ props.mounted /\ ~Flushed
  /\ runs' = CleanedUp \o NewRuns
  /\ streamRef' = NoRun /\ timerRef' = NoRun
  /\ hook' = [stream |-> NoRun, loading |-> TRUE, connected |-> FALSE, error |-> FALSE]
  /\ late' = FALSE /\ reloaded' = FALSE
  /\ done' = [ran |-> TRUE, deps |-> props.deps]
  /\ UNCHANGED <<interfaces, props, listening, status, events>>

FlushUnmount ==
  /\ ~props.mounted /\ ~Flushed
  /\ runs' = CleanedUp
  /\ streamRef' = NoRun /\ timerRef' = NoRun /\ listening' = NoRun
  /\ hook' = [hook EXCEPT !.stream = NoRun, !.connected = FALSE]
  /\ done' = [done EXCEPT !.ran = FALSE]
  /\ UNCHANGED <<interfaces, props, status, reloaded, late, events>>

\* The component's effect, run for another stream: the cleanup for the old one,
\* which has closed or is the same to it, and the listeners for the new one.
Listens ==
  /\ props.mounted /\ hook.stream # listening
  /\ runs' = IF hook.stream = NoRun THEN runs ELSE [runs EXCEPT ![hook.stream] = On(@)]
  /\ listening' = hook.stream
  /\ UNCHANGED <<interfaces, props, done, streamRef, timerRef, hook, status, reloaded, late, events>>

\* It runs again for the same stream, with other listeners: off, then on.
ListensAnew ==
  /\ props.mounted /\ listening # NoRun /\ hook.stream = listening
  /\ \A id \in Mapping : runs[listening].on[id] \in 1..MaxListens
  /\ runs' = [runs EXCEPT ![listening] = On(Off(@))]
  /\ UNCHANGED <<interfaces, props, done, streamRef, timerRef, hook, listening, status, reloaded, late, events>>

-----------------------------------------------------------------------------
(* The hook: setupStream.                                                  *)

ActiveContracts == {c \in Contracts : status[c] = "active"}

Started(run) == [run EXCEPT !.phase = "init", !.acs = ActiveContracts]

\* createStream() resolves: the stream is shown and started.
Created(i) ==
  /\ runs[i].phase = "creating"
  /\ IF runs[i].cancelled
     THEN runs' = [runs EXCEPT ![i] = Closed(@)] /\ UNCHANGED <<streamRef, hook>>
     ELSE /\ runs' = [runs EXCEPT ![i] = Started(@)]
          /\ streamRef' = i /\ hook' = [hook EXCEPT !.stream = i]
  /\ UNCHANGED <<interfaces, props, done, timerRef, listening, status, reloaded, late, events>>

\* Mutant: a run that rejects arms no timer.
MutRetrying(i) == FALSE
Retrying(i) == ~runs[i].cancelled

\* createStream() rejects: the state is set, the run cleaned up or not.
CreateFails(i) ==
  /\ runs[i].phase = "creating" /\ Counted
  /\ runs' = [runs EXCEPT ![i].phase = IF Retrying(i) THEN "waiting" ELSE "closed"]
  /\ timerRef' = IF Retrying(i) THEN i ELSE timerRef
  /\ hook' = [hook EXCEPT !.error = TRUE, !.connected = FALSE, !.loading = FALSE]
  /\ late' = (late \/ runs[i].cancelled)
  /\ UNCHANGED <<interfaces, props, done, streamRef, listening, status, reloaded>>

\* The timer of a failed run: setupStream() again.
RetryFires(i) ==
  /\ runs[i].phase = "waiting"
  /\ runs' = [runs EXCEPT ![i].phase = IF runs[i].cancelled THEN "closed" ELSE "creating"]
  /\ hook' = IF runs[i].cancelled THEN hook ELSE [hook EXCEPT !.loading = TRUE, !.error = FALSE]
  /\ UNCHANGED <<interfaces, props, done, streamRef, timerRef, listening, status, reloaded, late, events>>

\* reload(): nothing gives the stream back.
ReloadMulti ==
  /\ props.mounted /\ Counted
  /\ hook' = [hook EXCEPT !.stream = NoRun, !.loading = TRUE, !.error = FALSE]
  /\ reloaded' = TRUE
  /\ UNCHANGED <<interfaces, props, done, runs, streamRef, timerRef, listening, status, late>>

-----------------------------------------------------------------------------
(* The stream.                                                             *)

Open(run) == run.phase \in {"init", "live"}
Ready(i) == CommitsFirst => \A id \in Mapping : runs[i].on[id] > 0

Shows(i, c) ==
  /\ Ready(i) /\ c \notin runs[i].shown
  /\ \/ runs[i].phase = "init" /\ c \in runs[i].acs
     \/ runs[i].phase = "live" /\ status[c] = "active"
  /\ runs' = [runs EXCEPT ![i] = HandleCreate(@, c)]
  /\ UNCHANGED <<interfaces, status, late, events, hookVars>>

Archives(i, c) ==
  /\ runs[i].phase = "live" /\ c \in runs[i].shown \ runs[i].gone /\ status[c] = "archived"
  /\ runs' = [runs EXCEPT ![i] = HandleArchive(@, c)]
  /\ UNCHANGED <<interfaces, status, late, events, hookVars>>

\* Mutant: only the state "live" is looked at.
MutStateSeen(live) == [hook EXCEPT !.connected = @ \/ live, !.loading = @ /\ ~live]
\* The listener of the "state" events.
StateSeen(live) == [hook EXCEPT !.connected = live, !.loading = @ /\ ~live]

GoesLive(i) ==
  /\ Ready(i) /\ runs[i].phase = "init" /\ runs[i].acs \subseteq runs[i].shown
  /\ runs' = [runs EXCEPT ![i].phase = "live"]
  /\ hook' = StateSeen(TRUE) /\ late' = FALSE
  /\ UNCHANGED <<interfaces, props, done, streamRef, timerRef, listening, status, reloaded, events>>

\* The stream begins again with the ACS at the offset it has reached.
Restarts(i) ==
  /\ Open(runs[i]) /\ Ready(i) /\ Counted
  /\ runs' = [runs EXCEPT ![i] = [@ EXCEPT !.phase = "init", !.shown = {}, !.gone = {}, !.heard = Silence,
                                  !.acs = IF runs[i].phase = "live" THEN runs[i].shown \ runs[i].gone ELSE runs[i].acs]]
  /\ hook' = StateSeen(FALSE) /\ late' = FALSE
  /\ UNCHANGED <<interfaces, props, done, streamRef, timerRef, listening, status, reloaded>>

\* The "error" event.
Errors(i) ==
  /\ Open(runs[i]) /\ Counted
  /\ hook' = [hook EXCEPT !.error = TRUE]
  /\ UNCHANGED <<interfaces, props, done, runs, streamRef, timerRef, listening, status, reloaded, late>>

LedgerMoves ==
  /\ \E c \in Contracts :
       \/ status[c] = "future" /\ status' = [status EXCEPT ![c] = "active"]
       \/ status[c] = "active" /\ status' = [status EXCEPT ![c] = "archived"]
  /\ UNCHANGED <<interfaces, runs, late, events, hookVars>>

-----------------------------------------------------------------------------
MultiNext ==
  \/ RenderMulti \/ Unmount \/ FlushEffects \/ FlushUnmount \/ Listens \/ ListensAnew
  \/ ReloadMulti \/ LedgerMoves
  \/ \E i \in DOMAIN runs :
       \/ Created(i) \/ CreateFails(i) \/ RetryFires(i) \/ GoesLive(i) \/ Restarts(i) \/ Errors(i)
       \/ \E c \in Contracts : Shows(i, c) \/ Archives(i, c)

MultiSpec == MultiInit /\ [][MultiNext]_multiVars

\* React flushes effects and commits state, requests settle, timers fire, and a
\* stream shows its ACS and goes live.
Fairness ==
  /\ WF_multiVars(FlushEffects) /\ WF_multiVars(FlushUnmount) /\ WF_multiVars(Listens)
  /\ \A i \in 1..(MaxDeps + 2) :
       /\ WF_multiVars(i \in DOMAIN runs /\ (Created(i) \/ CreateFails(i)))
       /\ WF_multiVars(i \in DOMAIN runs /\ RetryFires(i))
       /\ WF_multiVars(i \in DOMAIN runs /\ (GoesLive(i) \/ \E c \in Contracts : Shows(i, c)))

FairMultiSpec == MultiSpec /\ Fairness

-----------------------------------------------------------------------------
(* Properties.                                                             *)

\* A mounted hook has one creation, timer or open stream, of the last run of its
\* setup effect, and an unmounted one none: a stream that createStream resolves
\* with after the cleanup is closed (context.ts:634-640).
OneStream ==
  LET Held(i) == runs[i].phase \in {"waiting", "init", "live"} IN
  /\ Flushed => {i \in DOMAIN runs : Held(i)} \subseteq (IF props.mounted THEN {Len(runs)} ELSE {})
  /\ \A i \in DOMAIN runs : Open(runs[i]) <=> i = streamRef

\* What the listener of an identifier is to be called for.
Due(run, id, kind, c) ==
  CASE kind = "create"  -> c \in run.shown /\ Name[id] = Name[TemplateOf[c]]
    [] kind = "archive" -> c \in run.gone /\ Name[id] = Name[TemplateOf[c]]
    [] OTHER -> interfaces /\ c \in run.shown /\ \E k \in DOMAIN ViewsOf[c] : Name[id] = Name[ViewsOf[c][k]]

\* Every contract the stream has shown since its ACS began was heard by each
\* listener of its template's or its view's name once, and by no other, whatever
\* package version its own identifier names; and so was every archive.  Contracts
\* with an unreadable view are left out, whose later views are lost, and listeners
\* the component has registered a second time: they are called twice.
EachHearsItsOwn ==
  \A i \in DOMAIN runs : Open(runs[i]) =>
    \A id \in Mapping, kind \in Kinds, c \in Contracts :
      (runs[i].on[id] = 1 /\ \A v \in Ids : <<c, v>> \notin Unreadable) =>
        (runs[i].heard[<<id, kind, c>>] = IF Due(runs[i], id, kind, c) THEN 1 ELSE 0)

\* The hook says it is connected exactly while its stream is live, except after a
\* run that was cleaned up has rejected: its catch block (context.ts:658-663)
\* writes the state of the run that follows it.
ConnectedIsTrue ==
  LET live == streamRef # NoRun /\ runs[streamRef].phase = "live" IN
  (hook.connected => live) /\ (live /\ ~late => hook.connected)

\* A run that is under way ends with a live stream that the hook has returned and
\* the component listens to, unless reload() has taken the stream away.
ComesLive ==
  \A i \in 1..(MaxDeps + 2) :
    (i \in DOMAIN runs /\ runs[i].phase \in {"creating", "waiting"} /\ ~runs[i].cancelled)
      ~> (i \in DOMAIN runs
          /\ \/ runs[i].cancelled \/ reloaded
             \/ runs[i].phase = "live" /\ listening = i /\ hook.connected /\ ~hook.loading)

\* Contradicted: a listener is called at most once for an event ("Remove a create
\* event listener for a specific template", types.ts:478).
HeardOnce ==
  \A i \in DOMAIN runs : \A h \in DOMAIN runs[i].heard : runs[i].heard[h] <= 1
=============================================================================
