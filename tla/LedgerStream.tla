---------------------------- MODULE LedgerStream ----------------------------
(***************************************************************************)
(* A contract stream of the ledger package: LedgerStream in                *)
(* ledger/src/ledger.ts over the sockets that WebSocketClient.stream in    *)
(* ledger/src/websocket.ts opens for it.                                   *)
(*                                                                         *)
(* A stream first reads the active contract set (ACS) over one socket and, *)
(* when that socket closes, follows the updates over another one.  Every   *)
(* socket keeps the handlers it was opened with: a message or the close    *)
(* event of a socket the stream has already given up still runs them, on   *)
(* the state the stream is in by then.                                     *)
(*                                                                         *)
(* The participant and the network are the environment: a log of creates   *)
(* and archives (the offset of an event is its position), the set of       *)
(* packages the participant knows, and what happens to each socket.        *)
(***************************************************************************)
EXTENDS Naturals, FiniteSets, Sequences

CONSTANTS
  Filters,       \* originalFilters: the filters the caller asked for
  Packages,      \* package names, all in the #name form
  PkgOf,         \* PkgOf[f]: the package that filter f names
  Contracts,     \* contract ids
  FilterOf,      \* FilterOf[c]: the filter contract c matches, or a value
                 \* outside Filters for a template nobody asked for
  InitialLog,    \* the participant's log when the stream is constructed
  InitialKnown,  \* the packages the participant knows from the start
  SkipAcs,       \* the values of the skipAcs option a caller may choose
  AutoReconnect,
  RewidenMin, RewidenMax,
  MaxSockets,    \* bound: sockets that are not closed, at any moment
  MaxOffset,     \* bound: length of the participant's log
  MaxFaults,     \* bound: connections that the network breaks
  MaxTokens      \* bound: calls of updateToken

Slots   == 1..MaxSockets
NoSlot  == 0                       \* undefined
Codes   == {"normal", "abnormal"}  \* close codes: 1006 is "abnormal"
NoCode  == "none"                  \* no close event yet
Event   == [kind : {"create", "archive"}, c : Contracts]

Socket ==
  [kind    : {"acs", "updates"},
   ready   : {"free", "connecting", "open", "closing"},
   filters : SUBSET Filters,       \* filtersByParty of the request
   pos     : Nat,                  \* activeAtOffset; or beginExclusive, and
                                   \* then the last log position sent
   loaded  : SUBSET Contracts,     \* acs: contracts sent so far
   names   : SUBSET Packages,      \* the packages a pending rejection names
   over    : BOOLEAN]              \* the participant has nothing more to send

FreeSocket ==
  [kind |-> "acs", ready |-> "free", filters |-> {}, pos |-> 0, loaded |-> {},
   names |-> {}, over |-> FALSE]

ASSUME StreamAssumption ==
  /\ IsFiniteSet(Filters) /\ IsFiniteSet(Contracts)
  /\ PkgOf \in [Filters -> Packages]
  /\ InitialLog \in Seq(Event)
  /\ InitialKnown \subseteq Packages
  /\ SkipAcs \subseteq BOOLEAN /\ AutoReconnect \in BOOLEAN
  /\ RewidenMin \in Nat /\ RewidenMax \in Nat /\ RewidenMin <= RewidenMax
  /\ MaxSockets \in Nat /\ MaxOffset \in Nat
  /\ MaxFaults \in Nat /\ MaxTokens \in Nat

VARIABLES
  st,             \* state_
  offset,
  active,         \* activeFilters
  dropped,        \* droppedPackageNames
  rewidenTimer,   \* rewidenTimer is armed
  backoff,        \* rewidenBackoffMs
  reconnectTimer, \* the socket whose close armed the timer the field holds
  timers,         \* every reconnect timer that can still fire
  stopClient,     \* the socket the stored stop function closes
  socks,          \* the sockets
  view,           \* the consumer's contract map: create adds, archive deletes
  told,           \* the code of the last close event the consumer has seen
  log, known, faults, tokens   \* the environment

clientVars == <<st, offset, active, dropped, rewidenTimer, backoff,
                reconnectTimer, timers, stopClient, view, told>>
envVars == <<log, known, faults, tokens>>
vars == <<clientVars, socks, envVars>>

-----------------------------------------------------------------------------
(* The participant.                                                        *)

\* An empty cumulative filter is read as one wildcard filter.
Matches(fl, c) == fl = {} \/ FilterOf[c] \in fl

Created(c, n)  == \E i \in 1..n : log[i] = [kind |-> "create", c |-> c]
Archived(c, n) == \E i \in 1..n : log[i] = [kind |-> "archive", c |-> c]

\* The contracts active at offset n that a request with filters fl selects.
ActiveAt(n, fl) ==
  {c \in Contracts : Matches(fl, c) /\ Created(c, n) /\ ~Archived(c, n)}

\* The log positions an updates socket has still to send.
Unsent(s) == {k \in (s.pos + 1)..Len(log) : Matches(s.filters, log[k].c)}

Unknown(fl) == {PkgOf[f] : f \in fl} \ known

-----------------------------------------------------------------------------
(* WebSocketClient: opening a socket, and the function that stops one.     *)

FreeSlots == {i \in Slots : socks[i].ready = "free"} \ timers
NewSlot   == CHOOSE i \in FreeSlots : TRUE

\* The stop function closes an OPEN socket and leaves any other as it is.
Stopped(s) ==
  IF stopClient # NoSlot /\ s[stopClient].ready = "open"
  THEN [s EXCEPT ![stopClient].ready = "closing"]
  ELSE s

\* Mutant: the request resumes from the ledger end instead of the offset.
MutOpenSocket(s, kind, fl) ==
  /\ FreeSlots # {}
  /\ stopClient' = NewSlot
  /\ socks' = [s EXCEPT ![NewSlot] =
       [kind |-> kind, ready |-> "connecting", filters |-> fl,
        pos |-> Len(log), loaded |-> {}, names |-> {}, over |-> FALSE]]

\* Open a socket on top of the sockets s and keep its stop function.
OpenSocket(s, kind, fl) ==
  /\ FreeSlots # {}
  /\ stopClient' = NewSlot
  /\ socks' = [s EXCEPT ![NewSlot] =
       [kind |-> kind, ready |-> "connecting", filters |-> fl,
        pos |-> offset, loaded |-> {}, names |-> {}, over |-> FALSE]]

-----------------------------------------------------------------------------
(* LedgerStream: operations and handlers.                                  *)

Init ==
  /\ st = "start"
  /\ log = InitialLog
  /\ offset = Len(InitialLog)
  /\ active = Filters
  /\ dropped = {} /\ rewidenTimer = FALSE /\ backoff = RewidenMin
  /\ reconnectTimer = NoSlot /\ timers = {}
  /\ stopClient = NoSlot
  /\ socks = [i \in Slots |-> FreeSocket]
  /\ view = {} /\ told = NoCode
  /\ known = InitialKnown
  /\ faults = 0 /\ tokens = 0

\* start()
Start ==
  /\ st = "start"
  /\ \E skipAcs \in SkipAcs :
       IF skipAcs
       THEN st' = "live" /\ OpenSocket(socks, "updates", active)
       ELSE st' = "init" /\ OpenSocket(socks, "acs", active)
  /\ UNCHANGED <<offset, active, dropped, rewidenTimer, backoff,
                 reconnectTimer, timers, view, told, envVars>>

\* close(): the listeners are removed, so the consumer sees nothing more.
Close ==
  /\ st # "stop"
  /\ st' = "stop"
  /\ timers' = timers \ {reconnectTimer} /\ reconnectTimer' = NoSlot
  /\ rewidenTimer' = FALSE
  /\ socks' = Stopped(socks) /\ stopClient' = NoSlot
  /\ UNCHANGED <<offset, active, dropped, backoff, view, told, envVars>>

\* updateToken() in the live state; in any other state it only stores the token.
UpdateToken ==
  /\ st = "live"
  /\ tokens < MaxTokens /\ tokens' = tokens + 1
  /\ timers' = timers \ {reconnectTimer} /\ reconnectTimer' = NoSlot
  /\ OpenSocket(Stopped(socks), "updates", active)
  /\ UNCHANGED <<st, offset, active, dropped, rewidenTimer, backoff, view,
                 told, log, known, faults>>

\* restartFromAcs(originalFilters)
RestartFromAcs ==
  /\ active' = Filters
  /\ st' = "init"
  /\ OpenSocket(Stopped(socks), "acs", Filters)

NextBackoff == IF 2 * backoff < RewidenMax THEN 2 * backoff ELSE RewidenMax

\* Mutant: the callback leaves the next timer to a new rejection.
MutRewidenFires ==
  /\ rewidenTimer
  /\ backoff' = NextBackoff
  /\ RestartFromAcs
  /\ rewidenTimer' = FALSE
  /\ UNCHANGED <<offset, dropped, reconnectTimer, timers, view, told, envVars>>

\* The callback of scheduleRewiden, which arms the next timer itself.
RewidenFires ==
  /\ rewidenTimer
  /\ IF st = "stop" \/ dropped = {}
     THEN /\ rewidenTimer' = FALSE
          /\ UNCHANGED <<st, active, backoff, stopClient, socks>>
     ELSE /\ backoff' = NextBackoff
          /\ RestartFromAcs
          /\ rewidenTimer' = TRUE
  /\ UNCHANGED <<offset, dropped, reconnectTimer, timers, view, told, envVars>>

\* Mutant: the callback trusts close() and updateToken to have cleared it.
MutReconnectFires(i) ==
  /\ i \in timers
  /\ timers' = timers \ {i} /\ reconnectTimer' = NoSlot
  /\ IF dropped # {}
     THEN RestartFromAcs
     ELSE OpenSocket(socks, "updates", active) /\ UNCHANGED <<st, active>>
  /\ UNCHANGED <<offset, dropped, rewidenTimer, backoff, view, told, envVars>>

\* The reconnect callback that the close of socket i armed.  It opens the
\* updates socket without stopping the one the stream may have by then.
ReconnectFires(i) ==
  /\ i \in timers
  /\ timers' = timers \ {i} /\ reconnectTimer' = NoSlot
  /\ IF st # "live"
     THEN UNCHANGED <<st, active, stopClient, socks>>
     ELSE IF dropped # {}
          THEN RestartFromAcs
          ELSE OpenSocket(socks, "updates", active) /\ UNCHANGED <<st, active>>
  /\ UNCHANGED <<offset, dropped, rewidenTimer, backoff, view, told, envVars>>

-----------------------------------------------------------------------------
(* Messages.  A socket delivers them while it is open, and while it is     *)
(* closing until the close handshake ends.                                 *)

Delivers(i) == socks[i].ready \in {"open", "closing"}

\* emit("create"): a contract of a template that is not in the registry makes
\* the decoder throw, and no create event leaves the stream.
Shown(c) == IF st # "stop" /\ FilterOf[c] \in Filters THEN view \cup {c} ELSE view
Hidden(c) == IF st # "stop" THEN view \ {c} ELSE view

\* Mutant: the offset follows the last event, a late one too.
MutAdvanced(k) == k

\* The offset after an event created at offset k.
Advanced(k) == IF k > offset THEN k ELSE offset

\* handleActiveContractsResponse with a contract, at the offset it was created at.
AcsContract(i) ==
  LET s == socks[i] IN
  /\ Delivers(i) /\ s.kind = "acs" /\ s.names = {} /\ ~s.over
  /\ \E c \in ActiveAt(s.pos, s.filters) \ s.loaded, k \in 1..Len(log) :
       /\ log[k] = [kind |-> "create", c |-> c]
       /\ socks' = [socks EXCEPT ![i].loaded = @ \cup {c}]
       /\ offset' = Advanced(k)
       /\ view' = Shown(c)
  /\ UNCHANGED <<st, active, dropped, rewidenTimer, backoff,
                 reconnectTimer, timers, stopClient, told, envVars>>

\* handleUpdatesResponse with a transaction of one event, at its offset.
UpdatesEvent(i) ==
  LET s == socks[i] IN
  /\ Delivers(i) /\ s.kind = "updates" /\ s.names = {} /\ ~s.over
  /\ \E k \in Unsent(s) :
       /\ \A j \in Unsent(s) : k <= j
       /\ socks' = [socks EXCEPT ![i].pos = k]
       /\ offset' = Advanced(k)
       /\ view' = IF log[k].kind = "create" THEN Shown(log[k].c) ELSE Hidden(log[k].c)
  /\ UNCHANGED <<st, active, dropped, rewidenTimer, backoff, reconnectTimer,
                 timers, stopClient, told, envVars>>

\* The filters left when the packages in names are dropped.
Kept(names) == {f \in active : PkgOf[f] \notin names}

\* handleMissingPackages: drop the packages the rejection names and restart
\* the phase the rejected socket was opened for.
PackagesDropped(i) ==
  LET s == socks[i] IN
  /\ Delivers(i) /\ s.names # {}
  /\ st # "stop" /\ Kept(s.names) # active
  /\ active' = Kept(s.names)
  /\ dropped' = dropped \cup s.names
  /\ OpenSocket(Stopped([socks EXCEPT ![i].names = {}, ![i].over = TRUE]),
                s.kind, Kept(s.names))
  /\ rewidenTimer' = TRUE
  /\ UNCHANGED <<st, offset, backoff, reconnectTimer, timers, view, told, envVars>>

\* handleMissingPackages returns false: the error goes to the consumer.
RejectionSurfaced(i) ==
  LET s == socks[i] IN
  /\ Delivers(i) /\ s.names # {}
  /\ st = "stop" \/ Kept(s.names) = active
  /\ socks' = [socks EXCEPT ![i].names = {}, ![i].over = TRUE]
  /\ UNCHANGED <<clientVars, envVars>>

-----------------------------------------------------------------------------
(* Close events.                                                           *)

Told(code) == IF st # "stop" THEN code ELSE told

\* Mutant: any end of the ACS clears the dropped packages.
MutAcsDone(s) ==
  /\ st = "init" /\ st' = "live"
  /\ dropped' = {} /\ backoff' = RewidenMin /\ rewidenTimer' = FALSE
  /\ OpenSocket(Stopped(s), "updates", active)
  /\ UNCHANGED <<reconnectTimer, timers, told>>

\* handleActiveContractsClose, in the init state: the close of an ACS socket
\* is the signal to go live, whatever closed it.
AcsDone(s) ==
  /\ st = "init"
  /\ st' = "live"
  /\ IF dropped # {} /\ Cardinality(active) = Cardinality(Filters)
     THEN dropped' = {} /\ backoff' = RewidenMin /\ rewidenTimer' = FALSE
     ELSE UNCHANGED <<dropped, backoff, rewidenTimer>>
  /\ OpenSocket(Stopped(s), "updates", active)
  /\ UNCHANGED <<reconnectTimer, timers, told>>

\* handleActiveContractsClose in any other state.
AcsClosedLate(s, code) ==
  /\ st # "init"
  /\ socks' = Stopped(s) /\ stopClient' = NoSlot
  /\ told' = Told(code)
  /\ UNCHANGED <<st, dropped, backoff, rewidenTimer, reconnectTimer, timers>>

\* Mutant: an abnormal close is reported and not retried.
MutUpdatesClosed(i, s, code) ==
  /\ socks' = Stopped(s) /\ stopClient' = NoSlot
  /\ told' = Told(code)
  /\ UNCHANGED <<st, dropped, backoff, rewidenTimer, timers, reconnectTimer>>

\* handleUpdatesClose of socket i.
UpdatesClosed(i, s, code) ==
  /\ socks' = Stopped(s) /\ stopClient' = NoSlot
  /\ told' = Told(code)
  /\ IF code = "abnormal" /\ st = "live" /\ AutoReconnect
     THEN timers' = timers \cup {i} /\ reconnectTimer' = i
     ELSE UNCHANGED <<timers, reconnectTimer>>
  /\ UNCHANGED <<st, dropped, backoff, rewidenTimer>>

\* The onclose handler of socket i.
HandleClose(i, code) ==
  LET s == [socks EXCEPT ![i] = FreeSocket] IN
  /\ IF socks[i].kind = "acs"
     THEN AcsDone(s) \/ AcsClosedLate(s, code)
     ELSE UpdatesClosed(i, s, code)
  /\ UNCHANGED <<offset, active, view, log, known, tokens>>

\* The participant has sent the whole ACS, or has rejected the request.
Finished(s) ==
  \/ s.over
  \/ s.kind = "acs" /\ s.names = {} /\ s.loaded = ActiveAt(s.pos, s.filters)

\* The participant closes a socket it has finished with.
ServerCloses(i) ==
  /\ socks[i].ready = "open" /\ Finished(socks[i])
  /\ HandleClose(i, "normal")
  /\ UNCHANGED faults

\* The close handshake that the stop function began ends.
HandshakeEnds(i) ==
  /\ socks[i].ready = "closing"
  /\ HandleClose(i, "normal")
  /\ UNCHANGED faults

\* The network breaks a connection, or the participant ends an updates stream.
ConnectionBreaks(i) ==
  /\ socks[i].ready # "free"
  /\ faults < MaxFaults /\ faults' = faults + 1
  /\ \E code \in Codes :
       /\ code = "normal" => socks[i].ready = "open" /\ socks[i].kind = "updates"
       /\ HandleClose(i, code)

-----------------------------------------------------------------------------
(* The environment.                                                        *)

\* The handshake of socket i ends and the participant reads the request.
SocketOpens(i) ==
  /\ socks[i].ready = "connecting"
  /\ socks' = [socks EXCEPT ![i].ready = "open", ![i].names = Unknown(socks[i].filters)]
  /\ UNCHANGED <<clientVars, envVars>>

Commit(e) ==
  /\ Len(log) < MaxOffset
  /\ IF e.kind = "create"
     THEN ~Created(e.c, Len(log)) /\ (FilterOf[e.c] \in Filters => PkgOf[FilterOf[e.c]] \in known)
     ELSE Created(e.c, Len(log)) /\ ~Archived(e.c, Len(log))
  /\ log' = Append(log, e)
  /\ UNCHANGED <<clientVars, socks, known, faults, tokens>>

UploadDar(p) ==
  /\ p \notin known
  /\ known' = known \cup {p}
  /\ UNCHANGED <<clientVars, socks, log, faults, tokens>>

Client ==
  \/ RewidenFires
  \/ \E i \in Slots :
       \/ ReconnectFires(i)
       \/ AcsContract(i) \/ UpdatesEvent(i)
       \/ PackagesDropped(i) \/ RejectionSurfaced(i)
       \/ SocketOpens(i) \/ ServerCloses(i) \/ HandshakeEnds(i)

Next ==
  \/ Start \/ Close \/ UpdateToken
  \/ Client
  \/ \E i \in Slots : ConnectionBreaks(i)
  \/ \E e \in Event : Commit(e)
  \/ \E p \in Packages : UploadDar(p)

Spec == Init /\ [][Next]_vars

\* What Node's event loop, its timers and TCP guarantee: an armed timer fires,
\* a handshake ends, a sent message arrives, a close is answered.
Fairness ==
  /\ WF_vars(Start)
  /\ WF_vars(RewidenFires)
  /\ \A i \in Slots :
       /\ WF_vars(ReconnectFires(i)) /\ WF_vars(SocketOpens(i))
       /\ WF_vars(AcsContract(i)) /\ WF_vars(UpdatesEvent(i))
       /\ WF_vars(PackagesDropped(i)) /\ WF_vars(RejectionSurfaced(i))
       /\ WF_vars(ServerCloses(i)) /\ WF_vars(HandshakeEnds(i))

FairSpec == Spec /\ Fairness

-----------------------------------------------------------------------------
(* Properties.                                                             *)

TypeOK ==
  /\ st \in {"start", "init", "live", "stop"}
  /\ offset \in Nat
  /\ active \subseteq Filters
  /\ dropped \subseteq Packages
  /\ rewidenTimer \in BOOLEAN
  /\ backoff \in RewidenMin..RewidenMax
  /\ reconnectTimer \in Slots \cup {NoSlot} /\ timers \subseteq Slots
  /\ stopClient \in Slots \cup {NoSlot}
  /\ socks \in [Slots -> Socket]
  /\ view \subseteq Contracts /\ told \in Codes \cup {NoCode}
  /\ log \in Seq(Event) /\ known \subseteq Packages
  /\ faults \in 0..MaxFaults /\ tokens \in 0..MaxTokens

\* While a package is dropped and the stream is not closed, a re-widen timer
\* is armed: the package is tried again without a restart (ledger.ts
\* REWIDEN_MIN_MS: "a DAR uploaded after the stream started is picked up").
DroppedIsRetried == dropped # {} /\ st # "stop" => rewidenTimer

\* No filter is lost: each one the caller asked for is in the set sent to the
\* participant or has its package among the dropped ones (ledger.ts comment on
\* activeFilters), whatever order rejections, re-widens and closes come in.
EveryFilterAccounted == \A f \in Filters : f \in active \/ PkgOf[f] \in dropped

\* A closed stream stays closed: no later timer, rejection or close event
\* moves it, opens a socket, or shows the consumer anything (close() comment:
\* "Set state to stop to prevent transitions").
StopIsFinal ==
  [][st = "stop" =>
       /\ st' = "stop" /\ view' = view /\ told' = told
       /\ \A i \in Slots : socks[i].ready = "free" => socks'[i].ready = "free"]_vars

\* The offset an updates request resumes from never moves back, even when a
\* socket given up earlier delivers events another one has delivered already.
OffsetNeverRetreats == [][offset' >= offset]_vars

\* A live stream that no socket feeds and no timer will give one.
Deaf ==
  /\ st = "live" /\ timers = {} /\ ~rewidenTimer
  /\ \A i \in Slots : socks[i].kind = "updates" => socks[i].ready = "free"

\* A live stream goes deaf in one way only: its last updates socket closes with a
\* code that is not retried, and that close event is what tells the consumer.  No
\* order of breaks, rejections, token updates, late closes and timers that find
\* nothing to do leaves it deaf without anyone knowing (handleUpdatesClose).
NeverSilentlyDeaf ==
  [][~Deaf /\ Deaf' =>
       /\ told' = "normal" \/ ~AutoReconnect
       /\ \E i \in Slots : /\ socks[i].kind = "updates" /\ socks[i].ready # "free"
                           /\ socks'[i].ready = "free"]_vars

\* The updates sockets that still feed the stream.
Feeding == {i \in Slots : socks[i].kind = "updates" /\ socks[i].ready \in {"connecting", "open"}}

\* Contradicted: updateToken's comment "to avoid duplicate connections".  At most one
\* socket feeds updates to the stream.
NoDuplicateConnections == Cardinality(Feeding) <= 1

\* Contradicted: types.ts on "live", "After ACS loaded (or ACS skipped)".  When init ends,
\* the consumer has every contract the active filters select at the offset.
LiveMeansLoaded ==
  [][st = "init" /\ st' = "live" => ActiveAt(offset, active) \subseteq view]_vars

\* The consumer's map follows the participant at offset n: nothing archived
\* by then is in it, and everything created since the stream began is.
FollowsLedgerAt(n) ==
  /\ view \subseteq ActiveAt(n, Filters)
  /\ {c \in ActiveAt(n, Filters) : ~Created(c, Len(InitialLog))} \subseteq view

\* A live stream shows the ledger at its offset: following the updates and
\* reconnecting from the offset neither lose a contract nor leave an archived
\* one behind.  (A contract of the initial ACS is missing when the network
\* breaks the ACS socket, which the stream takes for the end of the ACS.)
ViewFollowsLedger == st = "live" => FollowsLedgerAt(offset)

\* Until it is closed, or has reported a close it does not retry, the stream
\* catches up with the participant.
CatchesUp ==
  <>[](\/ st = "stop" \/ told = "normal"
       \/ st = "live" /\ FollowsLedgerAt(Len(log)))
=============================================================================
