------------------------- MODULE LedgerStreamProofs -------------------------
(***************************************************************************)
(* Theorems about LedgerStream, for every set of filters, packages and     *)
(* contracts and every bound.  The inductive invariant is the conjunction  *)
(* of TypeOK, DroppedIsRetried and EveryFilterAccounted.  What needs a     *)
(* steady environment comes last, with an invariant of its own.            *)
(***************************************************************************)
EXTENDS LedgerStream, FiniteSetTheorems, TLAPS

IInv == TypeOK /\ DroppedIsRetried /\ EveryFilterAccounted

-----------------------------------------------------------------------------
(* The helpers the handlers are built from.                                *)

\* Stopping a socket keeps the table of sockets well formed.
LEMMA StoppedType ==
  ASSUME TypeOK, NEW s \in [Slots -> Socket]
  PROVE  Stopped(s) \in [Slots -> Socket]
  BY SMTT(20) DEF Stopped, Socket, TypeOK, Slots, NoSlot

\* A slot is chosen among the free ones.
LEMMA NewSlotFree ==
  ASSUME FreeSlots # {}
  PROVE  NewSlot \in FreeSlots /\ NewSlot \in Slots
  BY DEF NewSlot, FreeSlots

\* Opening a socket keeps the table well formed and the stop function defined.
LEMMA OpenSocketType ==
  ASSUME TypeOK, NEW s \in [Slots -> Socket],
         NEW kind \in {"acs", "updates"}, NEW fl \in SUBSET Filters,
         OpenSocket(s, kind, fl)
  PROVE  /\ socks' \in [Slots -> Socket]
         /\ stopClient' \in Slots \cup {NoSlot}
<1>1. NewSlot \in Slots
  BY NewSlotFree DEF OpenSocket
<1>2. [kind |-> kind, ready |-> "connecting", filters |-> fl,
       pos |-> offset, loaded |-> {}, names |-> {}, over |-> FALSE] \in Socket
  BY DEF Socket, TypeOK
<1>3. QED
  BY <1>1, <1>2 DEF OpenSocket

\* The capped doubling stays between the two bounds.
LEMMA NextBackoffBounded ==
  ASSUME TypeOK PROVE NextBackoff \in RewidenMin..RewidenMax
  BY StreamAssumption DEF NextBackoff, TypeOK

\* A subset of the filters with as many members as all of them is all of them.
LEMMA FullSet ==
  ASSUME NEW S \in SUBSET Filters, Cardinality(S) = Cardinality(Filters)
  PROVE  S = Filters
<1>1. IsFiniteSet(Filters)
  BY StreamAssumption DEF StreamAssumption
<1>2. QED
  BY <1>1, FS_Subset

-----------------------------------------------------------------------------
(* The inductive invariant.                                                *)

\* The stream starts with every filter active.
LEMMA InitIInv == Init => IInv
<1> SUFFICES ASSUME Init PROVE IInv
  OBVIOUS
<1>1. FreeSocket \in Socket
  BY DEF FreeSocket, Socket
<1>2. offset \in Nat /\ log \in Seq(Event) /\ backoff \in RewidenMin..RewidenMax
  BY StreamAssumption DEF Init
<1>3. socks \in [Slots -> Socket]
  BY <1>1 DEF Init
<1>4. st \in {"start", "init", "live", "stop"} /\ active \subseteq Filters /\ dropped \subseteq Packages
  BY DEF Init
<1>5. rewidenTimer \in BOOLEAN
  BY DEF Init
<1>6. timers \subseteq Slots /\ view \subseteq Contracts /\ told \in Codes \cup {NoCode}
  BY DEF Init
<1>7. reconnectTimer \in Slots \cup {NoSlot} /\ stopClient \in Slots \cup {NoSlot}
  BY DEF Init
<1>8. known \subseteq Packages /\ faults \in 0..MaxFaults /\ tokens \in 0..MaxTokens
  BY StreamAssumption DEF Init
<1>9. TypeOK
  BY <1>2, <1>3, <1>4, <1>5, <1>6, <1>7, <1>8 DEF TypeOK
<1>10. QED
  BY <1>9 DEF Init, IInv, DroppedIsRetried, EveryFilterAccounted

\* What a step must show of the sockets and of the rest to keep TypeOK.
SocksOK == socks \in [Slots -> Socket] /\ stopClient \in Slots \cup {NoSlot}
TimersOK ==
  /\ rewidenTimer \in BOOLEAN /\ backoff \in RewidenMin..RewidenMax
  /\ reconnectTimer \in Slots \cup {NoSlot} /\ timers \subseteq Slots
ScalarsOK ==
  /\ st \in {"start", "init", "live", "stop"} /\ offset \in Nat
  /\ active \subseteq Filters /\ dropped \subseteq Packages
  /\ view \subseteq Contracts /\ told \in Codes \cup {NoCode}
EnvOK ==
  /\ log \in Seq(Event) /\ known \subseteq Packages
  /\ faults \in 0..MaxFaults /\ tokens \in 0..MaxTokens

\* TypeOK in four parts, so that a step need only look at those it disturbs.
LEMMA TypeParts == TypeOK <=> SocksOK /\ TimersOK /\ ScalarsOK /\ EnvOK
  BY Zenon DEF TypeOK, SocksOK, TimersOK, ScalarsOK, EnvOK

\* start() keeps the invariant.
LEMMA StartStep == ASSUME IInv, Start PROVE IInv'
<1> USE DEF IInv
<1>1. PICK skipAcs \in SkipAcs :
        IF skipAcs
        THEN st' = "live" /\ OpenSocket(socks, "updates", active)
        ELSE st' = "init" /\ OpenSocket(socks, "acs", active)
  BY Zenon DEF Start
<1>2. PICK kind \in {"acs", "updates"} : OpenSocket(socks, kind, active)
  BY <1>1, Zenon
<1>3. SocksOK'
  BY <1>2, OpenSocketType DEF SocksOK, TypeOK
<1>4. TimersOK'
  BY Zenon DEF Start, TypeOK, TimersOK
<1>5. ScalarsOK' /\ st' # "stop"
  BY <1>1, Zenon DEF Start, TypeOK, ScalarsOK
<1>6. EnvOK'
  BY Zenon DEF Start, TypeOK, EnvOK, envVars
<1>7. DroppedIsRetried' /\ EveryFilterAccounted'
  BY Zenon DEF Start, DroppedIsRetried, EveryFilterAccounted
<1>8. QED
  BY <1>3, <1>4, <1>5, <1>6, <1>7, TypeParts, PTL

\* close() keeps the invariant: the stream needs no retry any more.
LEMMA CloseStep == ASSUME IInv, Close PROVE IInv'
<1> USE DEF IInv
<1>1. SocksOK'
  BY StoppedType, Zenon DEF Close, SocksOK, TypeOK
<1>2. TimersOK'
  BY Zenon DEF Close, TypeOK, TimersOK
<1>3. ScalarsOK'
  BY Zenon DEF Close, TypeOK, ScalarsOK
<1>4. EnvOK'
  BY Zenon DEF Close, TypeOK, EnvOK, envVars
<1>5. DroppedIsRetried' /\ EveryFilterAccounted'
  BY Zenon DEF Close, DroppedIsRetried, EveryFilterAccounted
<1>6. QED
  BY <1>1, <1>2, <1>3, <1>4, <1>5, TypeParts, PTL

\* updateToken() keeps the invariant.
LEMMA UpdateTokenStep == ASSUME IInv, UpdateToken PROVE IInv'
<1> USE DEF IInv
<1>1. SocksOK'
  <2>1. Stopped(socks) \in [Slots -> Socket]
    BY StoppedType DEF TypeOK
  <2>2. OpenSocket(Stopped(socks), "updates", active) /\ active \in SUBSET Filters
    BY DEF UpdateToken, TypeOK
  <2>3. QED
    BY <2>1, <2>2, OpenSocketType DEF SocksOK
<1>2. TimersOK'
  BY Zenon DEF UpdateToken, TypeOK, TimersOK
<1>3. ScalarsOK'
  BY Zenon DEF UpdateToken, TypeOK, ScalarsOK
<1>4. EnvOK'
  <2>1. tokens' \in 0..MaxTokens
    BY StreamAssumption DEF UpdateToken, TypeOK
  <2>2. QED
    BY <2>1, Zenon DEF UpdateToken, TypeOK, EnvOK
<1>5. DroppedIsRetried' /\ EveryFilterAccounted'
  BY Zenon DEF UpdateToken, DroppedIsRetried, EveryFilterAccounted
<1>6. QED
  BY <1>1, <1>2, <1>3, <1>4, <1>5, TypeParts, PTL

\* A restart opens its socket with all the filters, so it loses none.
LEMMA RestartFromAcsFacts ==
  ASSUME IInv, RestartFromAcs
  PROVE  SocksOK' /\ st' = "init" /\ active' = Filters
<1>1. Stopped(socks) \in [Slots -> Socket]
  BY StoppedType DEF IInv, TypeOK
<1>2. OpenSocket(Stopped(socks), "acs", Filters)
  BY DEF RestartFromAcs
<1>3. QED
  BY <1>1, <1>2, OpenSocketType DEF RestartFromAcs, IInv, SocksOK

\* The re-widen callback keeps the invariant: it arms the next timer.
LEMMA RewidenFiresStep == ASSUME IInv, RewidenFires PROVE IInv'
<1>1. CASE st = "stop" \/ dropped = {}
  <2>1. /\ rewidenTimer' = FALSE
        /\ UNCHANGED <<st, active, backoff, stopClient, socks, offset, dropped,
                       reconnectTimer, timers, view, told, envVars>>
    BY <1>1, Zenon DEF RewidenFires
  <2>2. SocksOK' /\ TimersOK' /\ ScalarsOK' /\ EnvOK'
    BY <2>1, Zenon DEF IInv, TypeOK, SocksOK, TimersOK, ScalarsOK, EnvOK, envVars
  <2>3. DroppedIsRetried' /\ EveryFilterAccounted'
    BY <1>1, <2>1, Zenon DEF IInv, DroppedIsRetried, EveryFilterAccounted
  <2>4. QED
    BY <2>2, <2>3, TypeParts, PTL DEF IInv
<1>2. CASE ~(st = "stop" \/ dropped = {})
  <2>1. /\ backoff' = NextBackoff /\ RestartFromAcs /\ rewidenTimer' = TRUE
        /\ UNCHANGED <<offset, dropped, reconnectTimer, timers, view, told, envVars>>
    BY <1>2, Zenon DEF RewidenFires
  <2>2. SocksOK' /\ st' = "init" /\ active' = Filters
    BY <2>1, RestartFromAcsFacts
  <2>3. backoff' \in RewidenMin..RewidenMax
    BY <2>1, NextBackoffBounded DEF IInv
  <2>4. TimersOK' /\ ScalarsOK' /\ EnvOK'
    BY <2>1, <2>2, <2>3, Zenon DEF IInv, TypeOK, TimersOK, ScalarsOK, EnvOK, envVars
  <2>5. DroppedIsRetried' /\ EveryFilterAccounted'
    BY <2>1, <2>2, Zenon DEF DroppedIsRetried, EveryFilterAccounted
  <2>6. QED
    BY <2>2, <2>4, <2>5, TypeParts, PTL DEF IInv
<1>3. QED
  BY <1>1, <1>2

\* The reconnect callback keeps the invariant.
LEMMA ReconnectFiresStep ==
  ASSUME IInv, NEW i \in Slots, ReconnectFires(i) PROVE IInv'
<1>1. /\ timers' = timers \ {i} /\ reconnectTimer' = NoSlot
      /\ UNCHANGED <<offset, dropped, rewidenTimer, backoff, view, told, envVars>>
  BY Zenon DEF ReconnectFires
<1>2. /\ SocksOK' /\ st' \in {"start", "init", "live", "stop"}
      /\ (st = "stop" <=> st' = "stop")
      /\ active' = active \/ active' = Filters
  <2>1. CASE st # "live"
    BY <2>1, Zenon DEF ReconnectFires, IInv, TypeOK, SocksOK
  <2>2. CASE st = "live" /\ dropped # {}
    BY <2>2, RestartFromAcsFacts DEF ReconnectFires
  <2>3. CASE st = "live" /\ dropped = {}
    <3>1. OpenSocket(socks, "updates", active) /\ UNCHANGED <<st, active>>
      BY <2>3, Zenon DEF ReconnectFires
    <3>2. active \in SUBSET Filters /\ socks \in [Slots -> Socket]
      BY DEF IInv, TypeOK
    <3>3. QED
      BY <2>3, <3>1, <3>2, OpenSocketType DEF IInv, SocksOK
  <2>4. QED
    BY <2>1, <2>2, <2>3
<1>3. TimersOK' /\ ScalarsOK' /\ EnvOK'
  BY <1>1, <1>2, Zenon DEF IInv, TypeOK, TimersOK, ScalarsOK, EnvOK, envVars
<1>4. DroppedIsRetried' /\ EveryFilterAccounted'
  BY <1>1, <1>2, Zenon DEF IInv, DroppedIsRetried, EveryFilterAccounted
<1>5. QED
  BY <1>2, <1>3, <1>4, TypeParts, PTL DEF IInv

\* What a socket delivers only ever changes that socket's own record.
LEMMA AcsContractStep ==
  ASSUME IInv, NEW i \in Slots, AcsContract(i) PROVE IInv' /\ offset' >= offset
<1>1. PICK c \in ActiveAt(socks[i].pos, socks[i].filters) \ socks[i].loaded, k \in 1..Len(log) :
        /\ socks' = [socks EXCEPT ![i].loaded = @ \cup {c}]
        /\ offset' = Advanced(k)
        /\ view' = Shown(c)
  BY Zenon DEF AcsContract
<1>2. c \in Contracts /\ offset' \in Nat /\ offset' >= offset
  BY <1>1 DEF ActiveAt, Advanced, IInv, TypeOK
<1>3. UNCHANGED <<st, active, dropped, rewidenTimer, backoff,
                  reconnectTimer, timers, stopClient, told, envVars>>
  BY Zenon DEF AcsContract
<1>4. socks' \in [Slots -> Socket]
  <2>1. socks \in [Slots -> Socket] /\ socks[i] \in Socket
    BY DEF IInv, TypeOK
  <2>2. [socks[i] EXCEPT !.loaded = @ \cup {c}] \in Socket
    BY <1>2, <2>1 DEF Socket
  <2>3. socks' = [socks EXCEPT ![i] = [socks[i] EXCEPT !.loaded = @ \cup {c}]]
    BY <1>1, <2>1
  <2>4. QED
    BY <2>1, <2>2, <2>3
<1>5. view' \subseteq Contracts
  BY <1>1, <1>2, Zenon DEF Shown, IInv, TypeOK
<1>6. SocksOK' /\ TimersOK' /\ ScalarsOK' /\ EnvOK'
  BY <1>2, <1>3, <1>4, <1>5, Zenon DEF IInv, TypeOK, SocksOK, TimersOK, ScalarsOK, EnvOK, envVars
<1>7. DroppedIsRetried' /\ EveryFilterAccounted'
  BY <1>3, Zenon DEF IInv, DroppedIsRetried, EveryFilterAccounted
<1>8. QED
  BY <1>2, <1>6, <1>7, TypeParts, PTL DEF IInv

\* An event of the updates keeps the invariant.
LEMMA UpdatesEventStep ==
  ASSUME IInv, NEW i \in Slots, UpdatesEvent(i) PROVE IInv' /\ offset' >= offset
<1>1. PICK k \in Unsent(socks[i]) :
        /\ socks' = [socks EXCEPT ![i].pos = k]
        /\ offset' = Advanced(k)
        /\ view' = IF log[k].kind = "create" THEN Shown(log[k].c) ELSE Hidden(log[k].c)
  BY Zenon DEF UpdatesEvent
<1>2. UNCHANGED <<st, active, dropped, rewidenTimer, backoff, reconnectTimer,
                  timers, stopClient, told, envVars>>
  BY Zenon DEF UpdatesEvent
<1>3. k \in Nat /\ k \in 1..Len(log)
  BY <1>1 DEF Unsent, IInv, TypeOK, Socket
<1>4. log[k].c \in Contracts
  <2>1. log \in Seq(Event) /\ k \in 1..Len(log)
    BY <1>3 DEF IInv, TypeOK
  <2>2. log[k] \in Event
    BY <2>1
  <2>3. QED
    BY <2>2 DEF Event
<1>5. socks' \in [Slots -> Socket]
  <2>1. socks \in [Slots -> Socket] /\ socks[i] \in Socket
    BY DEF IInv, TypeOK
  <2>2. [socks[i] EXCEPT !.pos = k] \in Socket
    BY <1>3, <2>1 DEF Socket
  <2>3. socks' = [socks EXCEPT ![i] = [socks[i] EXCEPT !.pos = k]]
    BY <1>1, <2>1
  <2>4. QED
    BY <2>1, <2>2, <2>3
<1>6. offset' \in Nat /\ offset' >= offset
  BY <1>1, <1>3 DEF Advanced, IInv, TypeOK
<1>7. view' \subseteq Contracts
  BY <1>1, <1>4, Zenon DEF Shown, Hidden, IInv, TypeOK
<1>8. SocksOK' /\ TimersOK' /\ ScalarsOK' /\ EnvOK'
  BY <1>2, <1>5, <1>6, <1>7, Zenon
     DEF IInv, TypeOK, SocksOK, TimersOK, ScalarsOK, EnvOK, envVars
<1>9. DroppedIsRetried' /\ EveryFilterAccounted'
  BY <1>2, Zenon DEF IInv, DroppedIsRetried, EveryFilterAccounted
<1>10. QED
  BY <1>6, <1>8, <1>9, TypeParts, PTL DEF IInv

\* A rejection keeps the invariant: what it drops is retried.
LEMMA PackagesDroppedStep ==
  ASSUME IInv, NEW i \in Slots, PackagesDropped(i) PROVE IInv'
<1> DEFINE s == socks[i]
           answered == [socks EXCEPT ![i].names = {}, ![i].over = TRUE]
<1>1. /\ st # "stop" /\ active' = Kept(s.names) /\ dropped' = dropped \cup s.names
      /\ OpenSocket(Stopped(answered), s.kind, Kept(s.names))
      /\ rewidenTimer' = TRUE
      /\ UNCHANGED <<st, offset, backoff, reconnectTimer, timers, view, told, envVars>>
  BY Zenon DEF PackagesDropped
<1>2. s.names \subseteq Packages /\ s.kind \in {"acs", "updates"}
  BY DEF IInv, TypeOK, Socket
<1>3. Kept(s.names) \in SUBSET Filters
  BY DEF Kept, IInv, TypeOK
<1>4. SocksOK'
  <2>1. answered \in [Slots -> Socket]
    <3>1. socks \in [Slots -> Socket] /\ s \in Socket
      BY DEF IInv, TypeOK
    <3>2. [s EXCEPT !.names = {}, !.over = TRUE] \in Socket
      BY <3>1 DEF Socket
    <3>3. answered = [socks EXCEPT ![i] = [s EXCEPT !.names = {}, !.over = TRUE]]
      BY <3>1
    <3>4. QED
      BY <3>1, <3>2, <3>3
  <2>2. Stopped(answered) \in [Slots -> Socket]
    BY <2>1, StoppedType DEF IInv
  <2>3. QED
    BY <1>1, <1>2, <1>3, <2>2, OpenSocketType DEF IInv, SocksOK
<1>5. TimersOK' /\ ScalarsOK' /\ EnvOK'
  BY <1>1, <1>2, <1>3, Zenon DEF IInv, TypeOK, TimersOK, ScalarsOK, EnvOK, envVars
<1>6. DroppedIsRetried'
  BY <1>1, Zenon DEF DroppedIsRetried
<1>7. EveryFilterAccounted'
  BY <1>1 DEF IInv, EveryFilterAccounted, Kept
<1>8. QED
  BY <1>4, <1>5, <1>6, <1>7, TypeParts, PTL DEF IInv

\* A step of the sockets alone.
LEMMA SocksOnlyStep ==
  ASSUME IInv, socks' \in [Slots -> Socket], UNCHANGED <<clientVars, envVars>>
  PROVE  IInv'
<1>1. SocksOK' /\ TimersOK' /\ ScalarsOK' /\ EnvOK'
  BY Zenon DEF IInv, TypeOK, SocksOK, TimersOK, ScalarsOK, EnvOK, clientVars, envVars
<1>2. DroppedIsRetried' /\ EveryFilterAccounted'
  BY Zenon DEF IInv, DroppedIsRetried, EveryFilterAccounted, clientVars
<1>3. QED
  BY <1>1, <1>2, TypeParts, PTL DEF IInv

\* An error that is passed on changes only its socket.
LEMMA RejectionSurfacedStep ==
  ASSUME IInv, NEW i \in Slots, RejectionSurfaced(i) PROVE IInv'
<1>1. socks' = [socks EXCEPT ![i].names = {}, ![i].over = TRUE] /\ UNCHANGED <<clientVars, envVars>>
  BY Zenon DEF RejectionSurfaced
<1>2. socks' \in [Slots -> Socket]
  <2>1. socks \in [Slots -> Socket] /\ socks[i] \in Socket
    BY DEF IInv, TypeOK
  <2>2. [socks[i] EXCEPT !.names = {}, !.over = TRUE] \in Socket
    BY <2>1 DEF Socket
  <2>3. socks' = [socks EXCEPT ![i] = [socks[i] EXCEPT !.names = {}, !.over = TRUE]]
    BY <1>1, <2>1
  <2>4. QED
    BY <2>1, <2>2, <2>3
<1>3. QED
  BY <1>1, <1>2, SocksOnlyStep

\* A handshake that ends changes only its socket.
LEMMA SocketOpensStep ==
  ASSUME IInv, NEW i \in Slots, SocketOpens(i) PROVE IInv'
<1>1. /\ socks' = [socks EXCEPT ![i].ready = "open",
                                ![i].names = Unknown(socks[i].filters)]
      /\ UNCHANGED <<clientVars, envVars>>
  BY Zenon DEF SocketOpens
<1>2. Unknown(socks[i].filters) \subseteq Packages
  BY StreamAssumption DEF Unknown, IInv, TypeOK, Socket
<1>3. socks' \in [Slots -> Socket]
  <2>1. socks \in [Slots -> Socket] /\ socks[i] \in Socket
    BY DEF IInv, TypeOK
  <2>2. [socks[i] EXCEPT !.ready = "open", !.names = Unknown(socks[i].filters)] \in Socket
    BY <1>2, <2>1 DEF Socket
  <2>3. QED
    BY <1>1, <2>1, <2>2
<1>4. QED
  BY <1>1, <1>3, SocksOnlyStep

\* Every close handler keeps the invariant; the count of faults is left open.
LEMMA HandleCloseStep ==
  ASSUME IInv, NEW i \in Slots, NEW code \in Codes, HandleClose(i, code),
         faults' \in 0..MaxFaults
  PROVE  IInv' /\ offset' = offset
<1> DEFINE s == [socks EXCEPT ![i] = FreeSocket]
<1>1. s \in [Slots -> Socket] /\ Stopped(s) \in [Slots -> Socket]
  <2>1. s \in [Slots -> Socket]
    BY DEF IInv, TypeOK, Socket, FreeSocket
  <2>2. QED
    BY <2>1, StoppedType DEF IInv
<1>2. UNCHANGED <<offset, active, view, log, known, tokens>>
  BY Zenon DEF HandleClose
<1> SUFFICES IInv'
  BY <1>2
<1>3. EnvOK'
  BY <1>2, Zenon DEF IInv, TypeOK, EnvOK
<1>4. Told(code) \in Codes \cup {NoCode}
  BY Zenon DEF Told, IInv, TypeOK
<1>5. CASE AcsDone(s)
  <2>1. /\ st' = "live" /\ st = "init" /\ OpenSocket(Stopped(s), "updates", active)
        /\ UNCHANGED <<reconnectTimer, timers, told>>
    BY <1>5, Zenon DEF AcsDone
  <2>2. SocksOK'
    BY <1>1, <2>1, OpenSocketType DEF IInv, TypeOK, SocksOK
  <2>3. CASE dropped # {} /\ Cardinality(active) = Cardinality(Filters)
    <3>1. dropped' = {} /\ backoff' = RewidenMin /\ rewidenTimer' = FALSE
      BY <1>5, <2>3, Zenon DEF AcsDone
    <3>2. active = Filters
      BY <2>3, FullSet DEF IInv, TypeOK
    <3>3. backoff' \in RewidenMin..RewidenMax
      BY <3>1, StreamAssumption
    <3>4. TimersOK' /\ ScalarsOK'
      BY <1>2, <2>1, <3>1, <3>3, Zenon DEF IInv, TypeOK, TimersOK, ScalarsOK
    <3>5. DroppedIsRetried' /\ EveryFilterAccounted'
      BY <1>2, <3>1, <3>2, Zenon DEF DroppedIsRetried, EveryFilterAccounted
    <3>6. QED
      BY <1>3, <2>2, <3>4, <3>5, TypeParts, PTL DEF IInv
  <2>4. CASE ~(dropped # {} /\ Cardinality(active) = Cardinality(Filters))
    <3>1. UNCHANGED <<dropped, backoff, rewidenTimer>>
      BY <1>5, <2>4, Zenon DEF AcsDone
    <3>2. TimersOK' /\ ScalarsOK'
      BY <1>2, <2>1, <3>1, Zenon DEF IInv, TypeOK, TimersOK, ScalarsOK
    <3>3. st # "stop"
      BY <2>1
    <3>4. DroppedIsRetried' /\ EveryFilterAccounted'
      BY <1>2, <3>1, <3>3, Zenon DEF IInv, DroppedIsRetried, EveryFilterAccounted
    <3>5. QED
      BY <1>3, <2>2, <3>2, <3>4, TypeParts, PTL DEF IInv
  <2>5. QED
    BY <2>3, <2>4
<1>6. CASE AcsClosedLate(s, code) \/ UpdatesClosed(i, s, code)
  <2>1. /\ socks' = Stopped(s) /\ stopClient' = NoSlot /\ told' = Told(code)
        /\ UNCHANGED <<st, dropped, backoff, rewidenTimer>>
    BY <1>6, Zenon DEF AcsClosedLate, UpdatesClosed
  <2>2. reconnectTimer' \in Slots \cup {NoSlot} /\ timers' \subseteq Slots
    BY <1>6, Zenon DEF AcsClosedLate, UpdatesClosed, IInv, TypeOK
  <2>3. SocksOK' /\ TimersOK' /\ ScalarsOK'
    BY <1>1, <1>2, <1>4, <2>1, <2>2, Zenon DEF IInv, TypeOK, SocksOK, TimersOK, ScalarsOK
  <2>4. DroppedIsRetried' /\ EveryFilterAccounted'
    BY <1>2, <2>1, Zenon DEF IInv, DroppedIsRetried, EveryFilterAccounted
  <2>5. QED
    BY <1>3, <2>3, <2>4, TypeParts, PTL DEF IInv
<1>7. QED
  BY <1>5, <1>6, Zenon DEF HandleClose

\* The three ways a socket closes keep the invariant.
LEMMA SocketClosesStep ==
  ASSUME IInv, NEW i \in Slots,
         ServerCloses(i) \/ HandshakeEnds(i) \/ ConnectionBreaks(i)
  PROVE  IInv' /\ offset' = offset
<1>1. CASE ServerCloses(i) \/ HandshakeEnds(i)
  <2>1. HandleClose(i, "normal") /\ faults' = faults
    BY <1>1, Zenon DEF ServerCloses, HandshakeEnds
  <2>2. faults' \in 0..MaxFaults
    BY <2>1 DEF IInv, TypeOK
  <2>3. QED
    BY <2>1, <2>2, HandleCloseStep DEF Codes
<1>2. CASE ConnectionBreaks(i)
  <2>1. PICK code \in Codes : HandleClose(i, code)
    BY <1>2, Zenon DEF ConnectionBreaks
  <2>2. faults' \in 0..MaxFaults
    BY <1>2, StreamAssumption DEF ConnectionBreaks, IInv, TypeOK
  <2>3. QED
    BY <2>1, <2>2, HandleCloseStep
<1>3. QED
  BY <1>1, <1>2

\* Commits and uploads keep the invariant.
LEMMA EnvironmentStep ==
  ASSUME IInv, (\E e \in Event : Commit(e)) \/ (\E p \in Packages : UploadDar(p))
  PROVE  IInv' /\ offset' = offset
<1>1. UNCHANGED <<clientVars, socks, faults, tokens>>
  BY Zenon DEF Commit, UploadDar
<1>2. log' \in Seq(Event) /\ known' \subseteq Packages
  <2>1. CASE \E e \in Event : Commit(e)
    BY <2>1 DEF Commit, IInv, TypeOK
  <2>2. CASE \E p \in Packages : UploadDar(p)
    BY <2>2 DEF UploadDar, IInv, TypeOK
  <2>3. QED
    BY <2>1, <2>2
<1>3. SocksOK' /\ TimersOK' /\ ScalarsOK' /\ EnvOK'
  BY <1>1, <1>2, Zenon
     DEF IInv, TypeOK, SocksOK, TimersOK, ScalarsOK, EnvOK, clientVars
<1>4. DroppedIsRetried' /\ EveryFilterAccounted' /\ offset' = offset
  BY <1>1, Zenon DEF IInv, DroppedIsRetried, EveryFilterAccounted, clientVars
<1>5. QED
  BY <1>3, <1>4, TypeParts, PTL DEF IInv

-----------------------------------------------------------------------------
(* The theorems.                                                           *)

\* So does every step of the client.
LEMMA ClientStep ==
  ASSUME IInv, Client PROVE IInv' /\ offset' >= offset
<1>1. offset \in Nat /\ offset >= offset
  BY DEF IInv, TypeOK
<1>2. CASE RewidenFires
  BY <1>1, <1>2, RewidenFiresStep DEF RewidenFires
<1>3. ASSUME NEW i \in Slots, ReconnectFires(i) PROVE IInv' /\ offset' = offset
  BY <1>3, ReconnectFiresStep DEF ReconnectFires
<1>4. ASSUME NEW i \in Slots, AcsContract(i) PROVE IInv' /\ offset' >= offset
  BY <1>4, AcsContractStep
<1>5. ASSUME NEW i \in Slots, UpdatesEvent(i) PROVE IInv' /\ offset' >= offset
  BY <1>5, UpdatesEventStep
<1>6. ASSUME NEW i \in Slots, PackagesDropped(i) PROVE IInv' /\ offset' = offset
  BY <1>6, PackagesDroppedStep DEF PackagesDropped
<1>7. ASSUME NEW i \in Slots, RejectionSurfaced(i) PROVE IInv' /\ offset' = offset
  BY <1>7, RejectionSurfacedStep DEF RejectionSurfaced, clientVars
<1>8. ASSUME NEW i \in Slots, SocketOpens(i) PROVE IInv' /\ offset' = offset
  BY <1>8, SocketOpensStep DEF SocketOpens, clientVars
<1>9. ASSUME NEW i \in Slots, ServerCloses(i) \/ HandshakeEnds(i)
      PROVE  IInv' /\ offset' = offset
  BY <1>9, SocketClosesStep
<1>10. CASE ~RewidenFires
  <2>1. PICK i \in Slots :
          \/ ReconnectFires(i) \/ AcsContract(i) \/ UpdatesEvent(i)
          \/ PackagesDropped(i) \/ RejectionSurfaced(i)
          \/ SocketOpens(i) \/ ServerCloses(i) \/ HandshakeEnds(i)
    BY <1>10, Zenon DEF Client
  <2>2. IInv' /\ (offset' = offset \/ offset' >= offset)
    BY <1>3, <1>4, <1>5, <1>6, <1>7, <1>8, <1>9, <2>1, Zenon
  <2>3. QED
    BY <1>1, <2>2
<1>11. QED
  BY <1>2, <1>10

\* Every step keeps the inductive invariant and never moves the offset back.
LEMMA NextStep ==
  ASSUME IInv, [Next]_vars PROVE IInv' /\ offset' >= offset
<1>1. offset \in Nat /\ offset >= offset
  BY DEF IInv, TypeOK
<1>2. CASE Start
  BY <1>1, <1>2, StartStep DEF Start
<1>3. CASE Close
  BY <1>1, <1>3, CloseStep DEF Close
<1>4. CASE UpdateToken
  BY <1>1, <1>4, UpdateTokenStep DEF UpdateToken
<1>5. CASE Client
  BY <1>5, ClientStep
<1>6. CASE \E i \in Slots : ConnectionBreaks(i)
  BY <1>1, <1>6, SocketClosesStep
<1>7. CASE (\E e \in Event : Commit(e)) \/ (\E p \in Packages : UploadDar(p))
  BY <1>1, <1>7, EnvironmentStep
<1>8. CASE UNCHANGED vars
  <2>1. UNCHANGED <<clientVars, envVars>> /\ socks' = socks
    BY <1>8 DEF vars
  <2>2. socks' \in [Slots -> Socket]
    BY <2>1, Zenon DEF IInv, TypeOK
  <2>3. QED
    BY <1>1, <2>1, <2>2, SocksOnlyStep DEF clientVars
<1>9. QED
  BY <1>2, <1>3, <1>4, <1>5, <1>6, <1>7, <1>8, Zenon DEF Next

\* The invariant holds in every reachable state.
LEMMA Inductive == Spec => []IInv
<1>1. IInv /\ [Next]_vars => IInv'
  BY NextStep
<1>2. QED
  BY InitIInv, <1>1, PTL DEF Spec

\* The stream's state is well typed: in particular the back-off stays between
\* REWIDEN_MIN_MS and REWIDEN_MAX_MS and every slot a timer names exists.
THEOREM TypeCorrect == Spec => []TypeOK
<1>1. IInv => TypeOK
  BY DEF IInv
<1>2. QED
  BY <1>1, Inductive, PTL

\* A package dropped by handleMissingPackages has a re-widen timer armed until
\* it is accepted again or the stream is closed, for any number of sockets.
THEOREM DroppedPackagesAreRetried == Spec => []DroppedIsRetried
<1>1. IInv => DroppedIsRetried
  BY DEF IInv
<1>2. QED
  BY <1>1, Inductive, PTL

\* No filter of the caller is lost by any order of rejections, re-widens,
\* reconnects and close events: it is active or its package is remembered.
THEOREM NoFilterIsLost == Spec => []EveryFilterAccounted
<1>1. IInv => EveryFilterAccounted
  BY DEF IInv
<1>2. QED
  BY <1>1, Inductive, PTL

\* The messages of the ACS and of the updates only ever move the offset forward,
\* whichever of the sockets the stream has opened delivers.
THEOREM OffsetIsMonotone == Spec => OffsetNeverRetreats
<1>1. IInv /\ [Next]_vars => offset' >= offset
  BY NextStep
<1>2. QED
  BY <1>1, Inductive, PTL DEF Spec, OffsetNeverRetreats

-----------------------------------------------------------------------------
(* A live stream never goes silently deaf.  This needs, on top of TypeOK,  *)
(* that the re-widen timer runs only while something is dropped: then the  *)
(* callback that finds nothing dropped is never what a live stream waits   *)
(* for.                                                                    *)

Hears == \E i \in Slots : socks[i].kind = "updates" /\ socks[i].ready # "free"

Waits == timers # {} \/ rewidenTimer

RewidenMeansDropped == rewidenTimer => dropped # {}

\* The step closes an updates socket, and its close event tells the consumer of a
\* code that is not retried.
ToldOfClose ==
  /\ told' = "normal" \/ ~AutoReconnect
  /\ \E i \in Slots : /\ socks[i].kind = "updates" /\ socks[i].ready # "free"
                      /\ socks'[i].ready = "free"

\* What a step must show: it deafens no stream, or says so.
HeardStep == RewidenMeansDropped' /\ (Deaf' => Deaf \/ ToldOfClose)

\* Deaf in the names used here.
LEMMA DeafDef == Deaf <=> st = "live" /\ ~Hears /\ ~Waits
  BY Zenon DEF Deaf, Hears, Waits

\* Opening an updates socket is enough to hear.
LEMMA OpensUpdates ==
  ASSUME NEW s \in [Slots -> Socket], NEW fl, OpenSocket(s, "updates", fl)
  PROVE  Hears'
<1>1. NewSlot \in Slots
  BY NewSlotFree DEF OpenSocket
<1>2. socks'[NewSlot].kind = "updates" /\ socks'[NewSlot].ready = "connecting"
  BY <1>1 DEF OpenSocket
<1>3. QED
  BY <1>1, <1>2 DEF Hears

\* Stopping a socket leaves its kind, and frees none.
LEMMA StoppedKeeps ==
  ASSUME TypeOK, NEW s \in [Slots -> Socket], NEW j \in Slots
  PROVE  /\ Stopped(s)[j].kind = s[j].kind
         /\ Stopped(s)[j].ready = "free" <=> s[j].ready = "free"
<1>1. s[j] \in Socket
  OBVIOUS
<1>2. CASE stopClient = j /\ stopClient # NoSlot /\ s[stopClient].ready = "open"
  <2>1. Stopped(s) = [s EXCEPT ![j].ready = "closing"]
    BY <1>2 DEF Stopped
  <2>2. Stopped(s)[j] = [s[j] EXCEPT !.ready = "closing"]
    BY <2>1
  <2>3. QED
    BY <1>1, <1>2, <2>2 DEF Socket
<1>3. CASE ~(stopClient = j /\ stopClient # NoSlot /\ s[stopClient].ready = "open")
  <2>1. Stopped(s)[j] = s[j]
    BY <1>3 DEF Stopped
  <2>2. QED
    BY <2>1
<1>4. QED
  BY <1>2, <1>3

\* A step that only changes what a socket has sent keeps its kind and state.
LEMMA DeliveryKeepsHearing ==
  ASSUME TypeOK, NEW i \in Slots,
         AcsContract(i) \/ UpdatesEvent(i) \/ RejectionSurfaced(i) \/ SocketOpens(i)
  PROVE  /\ Hears => Hears'
         /\ UNCHANGED <<st, timers, rewidenTimer, dropped, told>>
<1>1. socks \in [Slots -> Socket] /\ socks[i] \in Socket
  BY DEF TypeOK
<1>2. \A j \in Slots : socks'[j].kind = socks[j].kind
                       /\ (socks[j].ready # "free" => socks'[j].ready # "free")
  <2>1. CASE AcsContract(i)
    BY <1>1, <2>1 DEF AcsContract, Socket
  <2>2. CASE UpdatesEvent(i)
    BY <1>1, <2>2 DEF UpdatesEvent, Socket
  <2>3. CASE RejectionSurfaced(i)
    BY <1>1, <2>3 DEF RejectionSurfaced, Socket
  <2>4. CASE SocketOpens(i)
    BY <1>1, <2>4 DEF SocketOpens, Socket
  <2>5. QED
    BY <2>1, <2>2, <2>3, <2>4
<1>3. Hears => Hears'
  BY <1>2 DEF Hears
<1>4. UNCHANGED <<st, timers, rewidenTimer, dropped, told>>
  BY Zenon DEF AcsContract, UpdatesEvent, RejectionSurfaced, SocketOpens, clientVars
<1>5. QED
  BY <1>3, <1>4

\* A close event leaves a live stream an updates socket or a timer, or reports.
LEMMA CloseKeepsHearing ==
  ASSUME TypeOK, RewidenMeansDropped, NEW i \in Slots, NEW code \in Codes,
         socks[i].ready # "free", HandleClose(i, code)
  PROVE  HeardStep
<1> DEFINE s == [socks EXCEPT ![i] = FreeSocket]
<1>1. s \in [Slots -> Socket] /\ Stopped(s) \in [Slots -> Socket]
  <2>1. s \in [Slots -> Socket]
    BY DEF TypeOK, Socket, FreeSocket
  <2>2. QED
    BY <2>1, StoppedType
<1>2. CASE AcsDone(s)
  <2>1. OpenSocket(Stopped(s), "updates", active)
    BY <1>2, Zenon DEF AcsDone
  <2>2. Hears'
    BY <1>1, <2>1, OpensUpdates
  <2>3. RewidenMeansDropped'
    BY <1>2, Zenon DEF AcsDone, RewidenMeansDropped
  <2>4. ~Deaf'
    BY <2>2, Zenon DEF Deaf, Hears
  <2>5. QED
    BY <2>3, <2>4 DEF HeardStep
<1>3. CASE socks[i].kind = "acs" /\ AcsClosedLate(s, code)
  <2>1. socks' = Stopped(s) /\ UNCHANGED <<st, dropped, rewidenTimer, timers>>
    BY <1>3, Zenon DEF AcsClosedLate
  <2>2. ASSUME NEW j \in Slots, socks[j].kind = "updates", socks[j].ready # "free"
        PROVE  socks'[j].kind = "updates" /\ socks'[j].ready # "free"
    <3>1. s[j] = socks[j]
      BY <1>3, <2>2 DEF TypeOK
    <3>2. QED
      BY <1>1, <2>1, <2>2, <3>1, StoppedKeeps
  <2>3. Deaf' => Deaf
    BY <2>1, <2>2, Zenon DEF Deaf
  <2>4. QED
    BY <2>1, <2>3, Zenon DEF HeardStep, RewidenMeansDropped
<1>4. CASE socks[i].kind = "updates" /\ UpdatesClosed(i, s, code)
  <2>1. /\ socks' = Stopped(s) /\ told' = Told(code)
        /\ UNCHANGED <<st, dropped, rewidenTimer>>
        /\ (code = "abnormal" /\ st = "live" /\ AutoReconnect => i \in timers')
    BY <1>4, Zenon DEF UpdatesClosed
  <2>2. s[i].ready = "free"
    BY DEF TypeOK, FreeSocket
  <2>3. socks'[i].ready = "free"
    BY <1>1, <2>1, <2>2, StoppedKeeps
  <2>4. Deaf' => st = "live" /\ timers' = {}
    BY <2>1 DEF Deaf
  <2>5. Deaf' => told' = "normal" \/ ~AutoReconnect
    BY <2>1, <2>4 DEF Told, Codes
  <2>6. QED
    BY <1>4, <2>1, <2>3, <2>5, Zenon DEF HeardStep, ToldOfClose, RewidenMeansDropped
<1>5. QED
  <2>1. socks[i].kind \in {"acs", "updates"}
    BY DEF TypeOK, Socket
  <2>2. QED
    BY <1>2, <1>3, <1>4, <2>1, Zenon DEF HandleClose

\* No step deafens a live stream without a word.
LEMMA DeafStep ==
  ASSUME TypeOK, RewidenMeansDropped, [Next]_vars
  PROVE  HeardStep
<1>1. socks \in [Slots -> Socket] /\ Stopped(socks) \in [Slots -> Socket]
  BY StoppedType DEF TypeOK
<1>2. Hears' \/ Waits' \/ st' # "live" => ~Deaf'
  BY Zenon DEF Deaf, Hears, Waits
<1>3. CASE Start
  <2>1. (st' = "live" /\ OpenSocket(socks, "updates", active)) \/ st' = "init"
    BY <1>3, Zenon DEF Start
  <2>2. RewidenMeansDropped'
    BY <1>3, Zenon DEF Start, RewidenMeansDropped
  <2>3. Hears' \/ st' # "live"
    BY <1>1, <2>1, OpensUpdates
  <2>4. QED
    BY <1>2, <2>2, <2>3 DEF HeardStep
<1>4. CASE Close
  BY <1>2, <1>4 DEF Close, RewidenMeansDropped, HeardStep
<1>5. CASE UpdateToken
  <2>1. Hears'
    BY <1>1, <1>5, OpensUpdates DEF UpdateToken
  <2>2. QED
    BY <1>2, <1>5, <2>1, Zenon DEF UpdateToken, RewidenMeansDropped, HeardStep
<1>6. CASE RewidenFires
  <2>1. CASE st = "stop" \/ dropped = {}
    <3>1. ~rewidenTimer' /\ st' = "stop"
      BY <1>6, <2>1, Zenon DEF RewidenFires, RewidenMeansDropped
    <3>2. QED
      BY <1>2, <3>1 DEF HeardStep, RewidenMeansDropped
  <2>2. CASE ~(st = "stop" \/ dropped = {})
    <3>1. st' = "init" /\ dropped' # {}
      BY <1>6, <2>2 DEF RewidenFires, RestartFromAcs
    <3>2. QED
      BY <1>2, <3>1 DEF HeardStep, RewidenMeansDropped
  <2>3. QED
    BY <2>1, <2>2
<1>7. ASSUME NEW i \in Slots, ReconnectFires(i) PROVE HeardStep
  <2>1. RewidenMeansDropped'
    BY <1>7, Zenon DEF ReconnectFires, RewidenMeansDropped
  <2>2. Hears' \/ st' # "live"
    <3>1. CASE st # "live"
      BY <1>7, <3>1 DEF ReconnectFires
    <3>2. CASE st = "live" /\ dropped # {}
      BY <1>7, <3>2 DEF ReconnectFires, RestartFromAcs
    <3>3. CASE st = "live" /\ dropped = {}
      <4>1. OpenSocket(socks, "updates", active)
        BY <1>7, <3>3, Zenon DEF ReconnectFires
      <4>2. QED
        BY <1>1, <4>1, OpensUpdates
    <3>4. QED
      BY <3>1, <3>2, <3>3
  <2>3. QED
    BY <1>2, <2>1, <2>2 DEF HeardStep
<1>8. ASSUME NEW i \in Slots,
             AcsContract(i) \/ UpdatesEvent(i) \/ RejectionSurfaced(i) \/ SocketOpens(i)
      PROVE  HeardStep
  <2>1. (Hears => Hears') /\ UNCHANGED <<st, timers, rewidenTimer, dropped>>
    BY <1>8, DeliveryKeepsHearing
  <2>2. Deaf' <=> st' = "live" /\ ~Hears' /\ ~Waits'
    BY Zenon DEF Deaf, Hears, Waits
  <2>3. QED
    BY <2>1, <2>2, DeafDef, Zenon DEF RewidenMeansDropped, Waits, HeardStep
<1>9. ASSUME NEW i \in Slots, PackagesDropped(i) PROVE HeardStep
  <2>1. rewidenTimer' /\ dropped' = dropped \cup socks[i].names /\ socks[i].names # {}
    BY <1>9, Zenon DEF PackagesDropped
  <2>2. QED
    BY <1>2, <2>1 DEF RewidenMeansDropped, Waits, HeardStep
<1>10. ASSUME NEW i \in Slots, ServerCloses(i) \/ HandshakeEnds(i) \/ ConnectionBreaks(i)
      PROVE  HeardStep
  <2>1. PICK code \in Codes : HandleClose(i, code)
    BY <1>10, Zenon DEF ServerCloses, HandshakeEnds, ConnectionBreaks, Codes
  <2>2. socks[i].ready # "free"
    BY <1>10 DEF ServerCloses, HandshakeEnds, ConnectionBreaks
  <2>3. QED
    BY <2>1, <2>2, CloseKeepsHearing
<1>11. CASE (\E e \in Event : Commit(e)) \/ (\E p \in Packages : UploadDar(p)) \/ UNCHANGED vars
  <2>1. UNCHANGED <<clientVars, socks>>
    BY <1>11, Zenon DEF Commit, UploadDar, vars
  <2>2. QED
    BY <2>1, Zenon DEF RewidenMeansDropped, Deaf, HeardStep, clientVars
<1>12. QED
  BY <1>3, <1>4, <1>5, <1>6, <1>7, <1>8, <1>9, <1>10, <1>11, Zenon DEF Next, Client

\* A live stream is deafened only by the close of an updates socket that its consumer
\* is told of and that is not retried, whatever the order of closes, rejections, token
\* updates and timers, for any number of sockets and any filters.
THEOREM LiveStreamIsHeard == Spec => NeverSilentlyDeaf
<1>1. Init => RewidenMeansDropped
  BY DEF Init, RewidenMeansDropped
<1>2. TypeOK /\ RewidenMeansDropped /\ [Next]_vars => RewidenMeansDropped'
  BY DeafStep DEF HeardStep
<1>3. TypeOK /\ RewidenMeansDropped /\ [Next]_vars => (~Deaf /\ Deaf' => ToldOfClose)
  BY DeafStep DEF HeardStep
<1>4. NeverSilentlyDeaf <=> [][~Deaf /\ Deaf' => ToldOfClose]_vars
  BY DEF NeverSilentlyDeaf, ToldOfClose
<1>5. QED
  BY <1>1, <1>2, <1>3, <1>4, TypeCorrect, PTL DEF Spec

-----------------------------------------------------------------------------
(* A closed stream stays closed.                                           *)

\* What a step can change once the stream is closed.
LEMMA ClosedStep ==
  ASSUME TypeOK, st = "stop", [Next]_vars
  PROVE  /\ st' = "stop" /\ view' = view /\ told' = told
         /\ \A j \in Slots : socks[j].ready = "free" => socks'[j].ready = "free"
<1>1. socks \in [Slots -> Socket]
  BY DEF TypeOK
<1>2. ASSUME NEW i \in Slots, AcsContract(i) \/ UpdatesEvent(i)
      PROVE  UNCHANGED <<st, view, told>>
  <2>1. (\E c \in Contracts : view' = Shown(c) \/ view' = Hidden(c)) \/ view' = view
    BY <1>2, Zenon DEF AcsContract, UpdatesEvent, Shown, Hidden
  <2>2. UNCHANGED <<st, told>>
    BY <1>2, Zenon DEF AcsContract, UpdatesEvent
  <2>3. QED
    BY <2>1, <2>2, Zenon DEF Shown, Hidden
<1>3. ASSUME NEW i \in Slots,
             AcsContract(i) \/ UpdatesEvent(i) \/ RejectionSurfaced(i) \/ SocketOpens(i)
      PROVE  \A j \in Slots : socks[j].ready = "free" => socks'[j].ready = "free"
  <2>1. socks[i].ready # "free"
    BY <1>3 DEF AcsContract, UpdatesEvent, RejectionSurfaced, SocketOpens, Delivers
  <2>2. \A j \in Slots : j # i => socks'[j] = socks[j]
    BY <1>1, <1>3 DEF AcsContract, UpdatesEvent, RejectionSurfaced, SocketOpens
  <2>3. QED
    BY <2>1, <2>2
<1>4. ASSUME NEW i \in Slots, NEW code \in Codes, HandleClose(i, code)
      PROVE  /\ UNCHANGED <<st, view, told>>
             /\ \A j \in Slots : socks[j].ready = "free" => socks'[j].ready = "free"
  <2> DEFINE s == [socks EXCEPT ![i] = FreeSocket]
  <2>1. /\ socks' = Stopped(s) /\ told' = Told(code) /\ UNCHANGED <<st, view>>
    BY <1>4, Zenon DEF HandleClose, AcsDone, AcsClosedLate, UpdatesClosed
  <2>2. s \in [Slots -> Socket]
    BY DEF TypeOK, Socket, FreeSocket
  <2>3. ASSUME NEW j \in Slots, socks[j].ready = "free" PROVE s[j].ready = "free"
    BY <1>1, <2>3 DEF FreeSocket
  <2>4. QED
    BY <2>1, <2>2, <2>3, StoppedKeeps DEF Told
<1>5. CASE RewidenFires
  BY <1>5 DEF RewidenFires
<1>6. ASSUME NEW i \in Slots, ReconnectFires(i)
      PROVE  UNCHANGED <<st, view, told, socks>>
  BY <1>6 DEF ReconnectFires
<1>7. CASE (\E e \in Event : Commit(e)) \/ (\E p \in Packages : UploadDar(p)) \/ UNCHANGED vars
  <2>1. UNCHANGED <<clientVars, socks>>
    BY <1>7, Zenon DEF Commit, UploadDar, vars
  <2>2. QED
    BY <2>1 DEF clientVars
<1>8. ASSUME NEW i \in Slots, RejectionSurfaced(i) \/ SocketOpens(i)
      PROVE  UNCHANGED <<st, view, told>>
  BY <1>8, Zenon DEF RejectionSurfaced, SocketOpens, clientVars
<1>9. ASSUME NEW i \in Slots, ServerCloses(i) \/ HandshakeEnds(i) \/ ConnectionBreaks(i)
      PROVE  \E code \in Codes : HandleClose(i, code)
  BY <1>9, Zenon DEF ServerCloses, HandshakeEnds, ConnectionBreaks, Codes
<1>10. ~Start /\ ~Close /\ ~UpdateToken /\ \A i \in Slots : ~PackagesDropped(i)
  BY DEF Start, Close, UpdateToken, PackagesDropped
<1>11. QED
  BY <1>2, <1>3, <1>4, <1>5, <1>6, <1>7, <1>8, <1>9, <1>10, Zenon DEF Next, Client

\* close() is final: no timer, rejection, message or close event that comes
\* later moves the stream, opens a socket or reaches the consumer.
THEOREM CloseIsFinal == Spec => StopIsFinal
<1>1. TypeOK /\ [Next]_vars =>
        (st = "stop" =>
           /\ st' = "stop" /\ view' = view /\ told' = told
           /\ \A i \in Slots : socks[i].ready = "free" => socks'[i].ready = "free")
  BY ClosedStep, Zenon
<1>2. QED
  BY <1>1, TypeCorrect, PTL DEF Spec, StopIsFinal

-----------------------------------------------------------------------------
(* A steady environment.                                                   *)

\* A ledger's log creates a contract once, and archives it later.
WellFormed(l) ==
  \A j \in 1..Len(l) :
    /\ l[j].kind = "archive" => \E i \in 1..(j - 1) : l[i] = [kind |-> "create", c |-> l[j].c]
    /\ l[j].kind = "create" => \A i \in 1..(j - 1) : l[i] # l[j]

\* No token update, every package known, and a caller that asks for something.
SteadyEnvironment ==
  /\ MaxTokens = 0 /\ InitialKnown = Packages
  /\ Filters # {} /\ WellFormed(InitialLog)

\* The sockets that are not closed.
InUse == {i \in Slots : socks[i].ready # "free"}

\* Nothing is rejected, so nothing is dropped, and the stream does one thing at a
\* time: it reads one socket or waits for one timer.
OneAtATime ==
  /\ known = Packages /\ tokens = 0 /\ dropped = {} /\ active = Filters /\ ~rewidenTimer
  /\ \A i, j \in InUse : i = j
  /\ timers \subseteq {reconnectTimer} /\ (timers # {} => InUse = {} /\ st = "live")
  /\ \A i \in InUse : socks[i].names = {} /\ socks[i].filters = Filters
  /\ st = "start" => InUse = {}
  /\ st = "init" => \A i \in InUse : socks[i].kind = "acs"
  /\ st = "live" => \A i \in InUse : socks[i].kind = "updates"

\* What the consumer has seen is the ledger at the offset, and the socket goes on
\* from there.
Follows ==
  /\ WellFormed(log) /\ Len(InitialLog) <= Len(log) /\ offset <= Len(log)
  /\ st \in {"start", "init"} => offset = Len(InitialLog)
  /\ st # "stop" => /\ FollowsLedgerAt(offset)
                    /\ \A i \in InUse : socks[i].pos = offset

\* A request as OpenSocket makes it.
Opened(kind, fl) ==
  [kind |-> kind, ready |-> "connecting", filters |-> fl, pos |-> offset,
   loaded |-> {}, names |-> {}, over |-> FALSE]

\* A socket opened where none is in use is the only one.
LEMMA OpenedAlone ==
  ASSUME NEW s \in [Slots -> Socket], \A j \in Slots : s[j].ready = "free",
         NEW kind, NEW fl, OpenSocket(s, kind, fl)
  PROVE  \E n \in Slots : InUse' = {n} /\ socks'[n] = Opened(kind, fl)
<1>1. NewSlot \in Slots
  BY NewSlotFree DEF OpenSocket
<1>2. socks' = [s EXCEPT ![NewSlot] = Opened(kind, fl)]
  BY DEF OpenSocket, Opened
<1>3. socks'[NewSlot] = Opened(kind, fl) /\ \A j \in Slots : j # NewSlot => socks'[j] = s[j]
  BY <1>1, <1>2
<1>4. socks'[NewSlot].ready = "connecting"
  BY <1>3 DEF Opened
<1>5. InUse' = {NewSlot}
  BY <1>1, <1>3, <1>4 DEF InUse
<1>6. QED
  BY <1>1, <1>3, <1>5

\* The stop function leaves a socket its request.
LEMMA StoppedKeepsRequest ==
  ASSUME TypeOK, NEW s \in [Slots -> Socket], NEW j \in Slots
  PROVE  /\ Stopped(s)[j].kind = s[j].kind /\ Stopped(s)[j].names = s[j].names
         /\ Stopped(s)[j].filters = s[j].filters
         /\ Stopped(s)[j].pos = s[j].pos
         /\ Stopped(s)[j].ready = "free" <=> s[j].ready = "free"
<1>1. s[j] \in Socket
  OBVIOUS
<1>2. CASE stopClient = j /\ stopClient # NoSlot /\ s[stopClient].ready = "open"
  <2>1. Stopped(s) = [s EXCEPT ![j].ready = "closing"]
    BY <1>2 DEF Stopped
  <2>2. Stopped(s)[j] = [s[j] EXCEPT !.ready = "closing"]
    BY <2>1
  <2>3. QED
    BY <1>1, <1>2, <2>2 DEF Socket
<1>3. CASE ~(stopClient = j /\ stopClient # NoSlot /\ s[stopClient].ready = "open")
  <2>1. Stopped(s)[j] = s[j]
    BY <1>3 DEF Stopped
  <2>2. QED
    BY <2>1
<1>4. QED
  BY <1>2, <1>3

\* The table without a socket that has closed has no other.
LEMMA LastOneFreed ==
  ASSUME TypeOK, OneAtATime, NEW i \in InUse
  PROVE  LET s == [socks EXCEPT ![i] = FreeSocket] IN
         /\ s \in [Slots -> Socket] /\ Stopped(s) \in [Slots -> Socket]
         /\ \A j \in Slots : s[j].ready = "free" /\ Stopped(s)[j].ready = "free"
<1> DEFINE s == [socks EXCEPT ![i] = FreeSocket]
<1>1. i \in Slots
  BY DEF InUse
<1>2. FreeSocket \in Socket /\ FreeSocket.ready = "free"
  BY DEF FreeSocket, Socket
<1>3. s \in [Slots -> Socket]
  BY <1>2 DEF TypeOK
<1>4. \A j \in Slots : s[j].ready = "free"
  <2>1. SUFFICES ASSUME NEW j \in Slots PROVE s[j].ready = "free"
    OBVIOUS
  <2>2. CASE j = i
    BY <1>2, <2>2 DEF TypeOK
  <2>3. CASE j # i
    <3>1. s[j] = socks[j]
      BY <2>3 DEF TypeOK
    <3>2. j \notin InUse
      BY <2>3 DEF OneAtATime
    <3>3. QED
      BY <3>1, <3>2 DEF InUse
  <2>4. QED
    BY <2>2, <2>3
<1>5. Stopped(s) \in [Slots -> Socket]
  BY <1>3, StoppedType
<1>6. \A j \in Slots : Stopped(s)[j].ready = "free"
  BY <1>3, <1>4, StoppedKeepsRequest
<1>7. QED
  BY <1>3, <1>4, <1>5, <1>6

\* A step that leaves the requests of the sockets, and what surrounds them, as they are.
LEMMA SameRequests ==
  ASSUME OneAtATime, InUse' = InUse,
         \A i \in InUse : /\ socks'[i].names = {} /\ socks'[i].filters = socks[i].filters
                          /\ socks'[i].kind = socks[i].kind,
         UNCHANGED <<st, known, tokens, dropped, active, rewidenTimer, timers, reconnectTimer>>
  PROVE  OneAtATime'
BY DEF OneAtATime

\* A message, or an opened handshake, leaves the requests as they are.
LEMMA MessageKeepsOne ==
  ASSUME IInv, OneAtATime, NEW i \in Slots, AcsContract(i) \/ UpdatesEvent(i) \/ SocketOpens(i)
  PROVE  OneAtATime'
<1>1. socks \in [Slots -> Socket] /\ socks[i] \in Socket
  BY DEF IInv, TypeOK
<1>2. UNCHANGED <<st, known, tokens, dropped, active, rewidenTimer, timers, reconnectTimer>>
  BY Zenon DEF AcsContract, UpdatesEvent, SocketOpens, clientVars, envVars
<1>3. /\ \A j \in Slots : /\ socks'[j].ready = "free" <=> socks[j].ready = "free"
                          /\ socks'[j].filters = socks[j].filters /\ socks'[j].kind = socks[j].kind
      /\ \A j \in InUse : socks'[j].names = {}
  <2>1. \A j \in InUse : socks[j].names = {} /\ j \in Slots
    BY DEF OneAtATime, InUse
  <2>2. CASE AcsContract(i)
    BY <1>1, <2>1, <2>2 DEF AcsContract, Socket
  <2>3. CASE UpdatesEvent(i)
    BY <1>1, <2>1, <2>3 DEF UpdatesEvent, Socket
  <2>4. CASE SocketOpens(i)
    <3>1. Unknown(socks[i].filters) = {}
      BY <1>1, StreamAssumption DEF Unknown, OneAtATime, Socket, StreamAssumption
    <3>2. QED
      BY <1>1, <2>1, <2>4, <3>1 DEF SocketOpens, Socket
  <2>5. QED
    BY <2>2, <2>3, <2>4
<1>4. InUse' = InUse
  BY <1>3 DEF InUse
<1>5. QED
  BY <1>2, <1>3, <1>4, SameRequests DEF InUse

\* A close event leaves one thing to do at most.
LEMMA CloseKeepsOne ==
  ASSUME IInv, OneAtATime, NEW i \in InUse, NEW code \in Codes, HandleClose(i, code)
  PROVE  OneAtATime'
<1> DEFINE s == [socks EXCEPT ![i] = FreeSocket]
<1>1. /\ s \in [Slots -> Socket] /\ Stopped(s) \in [Slots -> Socket]
      /\ \A j \in Slots : Stopped(s)[j].ready = "free"
  BY LastOneFreed DEF IInv
<1>2. UNCHANGED <<active, known, tokens>> /\ timers = {}
  BY DEF HandleClose, OneAtATime
<1>3. CASE AcsDone(s)
  <2>1. PICK n \in Slots : InUse' = {n} /\ socks'[n] = Opened("updates", active)
    BY <1>1, <1>3, OpenedAlone DEF AcsDone
  <2>2. socks'[n].kind = "updates" /\ socks'[n].names = {} /\ socks'[n].filters = active
    BY <2>1 DEF Opened
  <2>3. st' = "live" /\ timers' = timers /\ dropped' = {} /\ ~rewidenTimer'
    BY <1>3 DEF AcsDone, OneAtATime
  <2>4. QED
    BY <1>2, <2>1, <2>2, <2>3 DEF OneAtATime
<1>4. CASE AcsClosedLate(s, code) \/ UpdatesClosed(i, s, code)
  <2>1. socks' = Stopped(s) /\ UNCHANGED <<st, dropped, rewidenTimer>>
    BY <1>4, Zenon DEF AcsClosedLate, UpdatesClosed
  <2>2. InUse' = {}
    BY <1>1, <2>1 DEF InUse
  <2>3. timers' = {} \/ (timers' = {i} /\ reconnectTimer' = i /\ st = "live")
    BY <1>2, <1>4 DEF AcsClosedLate, UpdatesClosed
  <2>4. QED
    BY <1>2, <2>1, <2>2, <2>3 DEF OneAtATime
<1>5. QED
  BY <1>3, <1>4, Zenon DEF HandleClose

\* The environment of a single stream is what the theorem assumes of it, initially.
LEMMA InitOneAtATime == SteadyEnvironment /\ Init => OneAtATime
BY DEF SteadyEnvironment, Init, OneAtATime, InUse, FreeSocket, NoSlot

\* Every step in a steady environment leaves the stream one thing to do at most.
LEMMA OneStep ==
  ASSUME SteadyEnvironment, IInv, OneAtATime, [Next]_vars
  PROVE  OneAtATime'
<1>0. socks \in [Slots -> Socket] /\ TypeOK
  BY DEF IInv, TypeOK
<1>1. CASE Start
  <2>1. \A j \in Slots : socks[j].ready = "free"
    BY <1>1 DEF Start, OneAtATime, InUse
  <2>2. timers = {}
    BY <1>1 DEF Start, OneAtATime
  <2>3. (st' = "live" /\ OpenSocket(socks, "updates", active)) \/ (st' = "init" /\ OpenSocket(socks, "acs", active))
    BY <1>1, Zenon DEF Start
  <2>4. UNCHANGED <<active, dropped, rewidenTimer, timers, reconnectTimer, known, tokens>>
    BY <1>1 DEF Start, envVars
  <2>5. PICK kind \in {"acs", "updates"} :
          /\ OpenSocket(socks, kind, active)
          /\ (st' = "live" /\ kind = "updates") \/ (st' = "init" /\ kind = "acs")
    BY <2>3
  <2>6. PICK n \in Slots : InUse' = {n} /\ socks'[n] = Opened(kind, active)
    BY <1>0, <2>1, <2>5, OpenedAlone
  <2>7. socks'[n].kind = kind /\ socks'[n].names = {} /\ socks'[n].filters = active
    BY <2>6 DEF Opened
  <2>8. QED
    BY <2>2, <2>4, <2>5, <2>6, <2>7 DEF OneAtATime
<1>2. CASE Close
  <2>1. /\ \A j \in Slots : Stopped(socks)[j].names = socks[j].names /\ Stopped(socks)[j].filters = socks[j].filters
        /\ \A j \in Slots : Stopped(socks)[j].ready = "free" <=> socks[j].ready = "free"
    BY <1>0, StoppedKeepsRequest
  <2>2. InUse' = InUse /\ \A j \in InUse : j \in Slots
    BY <1>2, <2>1 DEF Close, InUse
  <2>3. timers' = {} /\ st' = "stop" /\ ~rewidenTimer' /\ UNCHANGED <<active, dropped, known, tokens>>
    BY <1>2 DEF Close, envVars, OneAtATime
  <2>4. \A j \in InUse : socks'[j].names = {} /\ socks'[j].filters = Filters
    BY <1>2, <2>1, <2>2 DEF Close, OneAtATime
  <2>5. QED
    BY <2>2, <2>3, <2>4 DEF OneAtATime
<1>3. CASE UpdateToken
  BY <1>3 DEF UpdateToken, SteadyEnvironment, OneAtATime
<1>4. CASE RewidenFires
  BY <1>4 DEF RewidenFires, OneAtATime
<1>5. ASSUME NEW i \in Slots, ReconnectFires(i) PROVE OneAtATime'
  <2>1. InUse = {} /\ st = "live" /\ dropped = {} /\ active = Filters /\ i \in timers
    BY <1>5 DEF ReconnectFires, OneAtATime
  <2>2. OpenSocket(socks, "updates", active) /\ timers' = timers \ {i}
    BY <1>5, <2>1 DEF ReconnectFires
  <2>3. UNCHANGED <<st, active, dropped, rewidenTimer, known, tokens>>
    BY <1>5, <2>1 DEF ReconnectFires, envVars
  <2>4. timers' = {}
    BY <2>1, <2>2 DEF OneAtATime
  <2>5. \A j \in Slots : socks[j].ready = "free"
    BY <2>1 DEF InUse
  <2>6. PICK n \in Slots : InUse' = {n} /\ socks'[n] = Opened("updates", active)
    BY <1>0, <2>2, <2>5, OpenedAlone
  <2>7. socks'[n].kind = "updates" /\ socks'[n].names = {} /\ socks'[n].filters = active
    BY <2>6 DEF Opened
  <2>8. QED
    BY <2>1, <2>3, <2>4, <2>6, <2>7 DEF OneAtATime
<1>6. ASSUME NEW i \in Slots, AcsContract(i) \/ UpdatesEvent(i) \/ SocketOpens(i) PROVE OneAtATime'
  BY <1>6, MessageKeepsOne
<1>7. ASSUME NEW i \in Slots, PackagesDropped(i) \/ RejectionSurfaced(i) PROVE FALSE
  BY <1>7 DEF PackagesDropped, RejectionSurfaced, Delivers, OneAtATime, InUse
<1>8. ASSUME NEW i \in Slots, ServerCloses(i) \/ HandshakeEnds(i) \/ ConnectionBreaks(i) PROVE OneAtATime'
  <2>1. i \in InUse /\ \E code \in Codes : HandleClose(i, code)
    BY <1>8 DEF ServerCloses, HandshakeEnds, ConnectionBreaks, InUse, Codes
  <2>2. QED
    BY <2>1, CloseKeepsOne
<1>9. CASE \E e \in Event : Commit(e)
  <2>1. UNCHANGED <<clientVars, socks, known, tokens>>
    BY <1>9 DEF Commit
  <2>2. QED
    BY <2>1 DEF clientVars, OneAtATime, InUse
<1>10. CASE \E p \in Packages : UploadDar(p)
  BY <1>10 DEF UploadDar, OneAtATime
<1>11. CASE UNCHANGED vars
  BY <1>11 DEF vars, clientVars, envVars, OneAtATime, InUse
<1>12. QED
  BY <1>1, <1>2, <1>3, <1>4, <1>5, <1>6, <1>7, <1>8, <1>9, <1>10, <1>11 DEF Next, Client

-----------------------------------------------------------------------------
(* The consumer's map.                                                     *)

\* A commit leaves what the log was before it.
LEMMA CommitKeepsPast ==
  ASSUME TypeOK, NEW e \in Event, log' = Append(log, e), NEW n \in 0..Len(log)
  PROVE  \A c : (Created(c, n)' <=> Created(c, n)) /\ (Archived(c, n)' <=> Archived(c, n))
<1>1. \A i \in 1..n : log'[i] = log[i]
  BY DEF TypeOK
<1>2. QED
  BY <1>1 DEF Created, Archived

\* A commit keeps the log well formed: a contract is created once, and archived later.
LEMMA CommitKeepsForm ==
  ASSUME TypeOK, WellFormed(log), NEW e \in Event, Commit(e)
  PROVE  WellFormed(log)' /\ Len(log') = Len(log) + 1
<1>1. log \in Seq(Event) /\ log' = Append(log, e)
  BY DEF TypeOK, Commit
<1>2. Len(log') = Len(log) + 1 /\ log'[Len(log) + 1] = e /\ \A i \in 1..Len(log) : log'[i] = log[i]
  BY <1>1
<1>3. e.kind = "create" => \A i \in 1..Len(log) : log[i] # e
  <2>1. e.kind = "create" => e = [kind |-> "create", c |-> e.c]
    BY DEF Event
  <2>2. QED
    BY <2>1 DEF Commit, Created
<1>4. e.kind = "archive" => \E i \in 1..Len(log) : log[i] = [kind |-> "create", c |-> e.c]
  BY DEF Commit, Created
<1>5. ASSUME NEW j \in 1..Len(log')
      PROVE  /\ log'[j].kind = "archive" => \E i \in 1..(j - 1) : log'[i] = [kind |-> "create", c |-> log'[j].c]
             /\ log'[j].kind = "create" => \A i \in 1..(j - 1) : log'[i] # log'[j]
  <2>1. Len(log) \in Nat /\ (j \in 1..Len(log) \/ j = Len(log) + 1)
    BY <1>1, <1>2
  <2>2. CASE j = Len(log) + 1
    BY <1>2, <1>3, <1>4, <2>1, <2>2
  <2>3. CASE j \in 1..Len(log)
    <3>1. \A i \in 1..(j - 1) : i \in 1..Len(log) /\ log'[i] = log[i]
      BY <1>2, <2>1, <2>3
    <3>2. log'[j] = log[j]
      BY <1>2, <2>3
    <3>3. QED
      BY <2>3, <3>1, <3>2 DEF WellFormed
  <2>4. QED
    BY <2>1, <2>2, <2>3
<1>6. QED
  BY <1>2, <1>5 DEF WellFormed

\* A commit leaves the ledger at the offset as it was.
LEMMA CommitKeepsView ==
  ASSUME TypeOK, NEW e \in Event, log' = Append(log, e), UNCHANGED <<offset, view>>,
         offset <= Len(log), Len(InitialLog) <= Len(log), FollowsLedgerAt(offset)
  PROVE  FollowsLedgerAt(offset)'
<1>1. offset \in 0..Len(log) /\ Len(InitialLog) \in 0..Len(log)
  BY StreamAssumption DEF TypeOK, StreamAssumption
<1>2. \A c : (Created(c, offset)' <=> Created(c, offset)) /\ (Archived(c, offset)' <=> Archived(c, offset))
  <2>1. \A c : /\ (\E i \in 1..offset : log'[i] = [kind |-> "create", c |-> c]) <=> Created(c, offset)
               /\ (\E i \in 1..offset : log'[i] = [kind |-> "archive", c |-> c]) <=> Archived(c, offset)
    <3>1. \A i \in 1..offset : log'[i] = log[i]
      BY <1>1 DEF TypeOK
    <3>2. QED
      BY <3>1 DEF Created, Archived
  <2>2. QED
    BY <2>1 DEF Created, Archived
<1>3. \A c : Created(c, Len(InitialLog))' <=> Created(c, Len(InitialLog))
  BY <1>1, CommitKeepsPast
<1>4. ActiveAt(offset, Filters)' = ActiveAt(offset, Filters)
  BY <1>2 DEF ActiveAt, Matches
<1>5. QED
  BY <1>3, <1>4 DEF FollowsLedgerAt

\* The next event of a well-formed log that the filters select, added to or taken
\* from a map that shows the ledger before it, gives one that shows it after.
LEMMA NextEventFollows ==
  ASSUME TypeOK, WellFormed(log), Filters # {}, st # "stop", FollowsLedgerAt(offset),
         NEW k \in (offset + 1)..Len(log), Matches(Filters, log[k].c),
         \A j \in (offset + 1)..(k - 1) : ~Matches(Filters, log[j].c),
         view' = (IF log[k].kind = "create" THEN Shown(log[k].c) ELSE Hidden(log[k].c)),
         log' = log
  PROVE  FollowsLedgerAt(k)'
<1> DEFINE d == log[k].c
<1>1. log \in Seq(Event) /\ offset \in Nat /\ k \in Nat /\ offset < k /\ k \in 1..Len(log)
  BY DEF TypeOK
<1>2. log[k] \in Event /\ d \in Contracts /\ FilterOf[d] \in Filters
  <2>1. log[k] \in Event
    BY <1>1
  <2>2. d \in Contracts
    BY <2>1 DEF Event
  <2>3. FilterOf[d] \in Filters
    BY DEF Matches
  <2>4. QED
    BY <2>1, <2>2, <2>3
<1>3. \A c : Matches(Filters, c) <=> FilterOf[c] \in Filters
  BY DEF Matches
<1>4. ASSUME NEW c, FilterOf[c] \in Filters
      PROVE  /\ Created(c, k) <=> Created(c, offset) \/ log[k] = [kind |-> "create", c |-> c]
             /\ Archived(c, k) <=> Archived(c, offset) \/ log[k] = [kind |-> "archive", c |-> c]
  <2>1. \A i \in 1..k : i \in 1..offset \/ i \in (offset + 1)..(k - 1) \/ i = k
    BY <1>1
  <2>2. \A i \in (offset + 1)..(k - 1) : log[i].c # c
    BY <1>3, <1>4
  <2>3. 1..offset \subseteq 1..k /\ k \in 1..k
    BY <1>1
  <2>4. [kind |-> "create", c |-> c].c = c /\ [kind |-> "archive", c |-> c].c = c
    OBVIOUS
  <2>5. QED
    BY <2>1, <2>2, <2>3, <2>4 DEF Created, Archived
<1>5. CASE log[k].kind = "create"
  <2>1. log[k] = [kind |-> "create", c |-> d] /\ view' = view \cup {d}
    BY <1>2, <1>5 DEF Event, Shown
  <2>2. ~Archived(d, k)
    <3>1. SUFFICES ASSUME NEW j \in 1..k, log[j] = [kind |-> "archive", c |-> d] PROVE FALSE
      BY DEF Archived
    <3>2. j \in 1..Len(log) /\ log[j].kind = "archive" /\ log[j].c = d
      BY <1>1, <3>1
    <3>3. PICK i \in 1..(j - 1) : log[i] = [kind |-> "create", c |-> d]
      BY <3>2 DEF WellFormed
    <3>4. i \in 1..(k - 1)
      BY <1>1, <3>3
    <3>5. QED
      BY <1>1, <1>5, <2>1, <3>3, <3>4 DEF WellFormed
  <2>3. \A c : log[k] = [kind |-> "create", c |-> c] => c = d
    BY <2>1
  <2>4. \A c : log[k] # [kind |-> "archive", c |-> c]
    BY <2>1
  <2>5. ActiveAt(k, Filters) = ActiveAt(offset, Filters) \cup {d}
    <3>1. d \in ActiveAt(k, Filters)
      BY <1>2, <1>3, <1>4, <2>1, <2>2 DEF ActiveAt
    <3>2. \A c \in Contracts : c # d => (c \in ActiveAt(k, Filters) <=> c \in ActiveAt(offset, Filters))
      BY <1>3, <1>4, <2>3, <2>4 DEF ActiveAt
    <3>3. d \in ActiveAt(offset, Filters) \/ d \notin ActiveAt(offset, Filters)
      OBVIOUS
    <3>4. QED
      BY <1>2, <3>1, <3>2 DEF ActiveAt
  <2>6. QED
    BY <2>1, <2>5 DEF FollowsLedgerAt, ActiveAt, Created, Archived, Matches
<1>6. CASE log[k].kind = "archive"
  <2>1. log[k] = [kind |-> "archive", c |-> d] /\ view' = view \ {d}
    BY <1>2, <1>6 DEF Event, Hidden
  <2>2. Archived(d, k)
    BY <1>2, <1>4, <2>1
  <2>3. \A c : log[k] = [kind |-> "archive", c |-> c] => c = d
    BY <2>1
  <2>4. \A c : log[k] # [kind |-> "create", c |-> c]
    BY <2>1
  <2>5. ActiveAt(k, Filters) = ActiveAt(offset, Filters) \ {d}
    <3>1. d \notin ActiveAt(k, Filters)
      BY <2>2 DEF ActiveAt
    <3>2. \A c \in Contracts : c # d => (c \in ActiveAt(k, Filters) <=> c \in ActiveAt(offset, Filters))
      BY <1>3, <1>4, <2>3, <2>4 DEF ActiveAt
    <3>3. QED
      BY <3>1, <3>2 DEF ActiveAt
  <2>6. QED
    BY <2>1, <2>5 DEF FollowsLedgerAt, ActiveAt, Created, Archived, Matches
<1>7. QED
  BY <1>2, <1>5, <1>6 DEF Event

\* The map shows the ledger where the stream begins.
LEMMA InitFollows == SteadyEnvironment /\ Init => Follows
<1> SUFFICES ASSUME SteadyEnvironment, Init PROVE Follows
  OBVIOUS
<1>1. Len(InitialLog) \in Nat /\ log = InitialLog /\ offset = Len(InitialLog) /\ view = {}
  BY StreamAssumption DEF Init, StreamAssumption
<1>2. FollowsLedgerAt(offset)
  BY <1>1 DEF FollowsLedgerAt, ActiveAt
<1>3. InUse = {}
  BY DEF Init, InUse, FreeSocket
<1>4. QED
  BY <1>1, <1>2, <1>3 DEF Follows, SteadyEnvironment

\* A step that leaves the log, the offset and the map, and opens a socket at the
\* offset or none.
LEMMA SameView ==
  ASSUME Follows, UNCHANGED <<log, offset, view>>,
         st' \in {"start", "init"} => offset = Len(InitialLog),
         st' # "stop" => st # "stop",
         st' # "stop" =>
           \A i \in InUse' : socks'[i].pos = offset
  PROVE  Follows'
<1>1. st' # "stop" => FollowsLedgerAt(offset)'
  BY DEF Follows, FollowsLedgerAt, ActiveAt, Created, Archived
<1>2. WellFormed(log)'
  BY DEF Follows
<1>3. QED
  BY <1>1, <1>2 DEF Follows

\* A socket that the stream opens where none is in use is at the offset.
LEMMA OpenedFollows ==
  ASSUME NEW s \in [Slots -> Socket], \A j \in Slots : s[j].ready = "free",
         NEW kind, NEW fl, OpenSocket(s, kind, fl)
  PROVE  \A i \in InUse' : socks'[i].pos = offset
<1>1. PICK n \in Slots : InUse' = {n} /\ socks'[n] = Opened(kind, fl)
  BY OpenedAlone
<1>2. QED
  BY <1>1 DEF Opened

\* A contract of the ACS.
LEMMA AcsFollows ==
  ASSUME SteadyEnvironment, IInv, OneAtATime, Follows, NEW i \in Slots, AcsContract(i)
  PROVE  Follows'
<1>1. socks \in [Slots -> Socket] /\ socks[i] \in Socket
  BY DEF IInv, TypeOK
<1>2. i \in InUse /\ UNCHANGED <<st, log>>
  BY DEF AcsContract, Delivers, InUse, envVars
<1>3. st \notin {"start", "live"}
  BY <1>2 DEF AcsContract, OneAtATime
<1>4. /\ \A j \in Slots : /\ socks'[j].ready = "free" <=> socks[j].ready = "free"
                          /\ socks'[j].pos = socks[j].pos
  BY <1>1 DEF AcsContract, Socket
<1>5. InUse' = InUse /\ \A j \in InUse : j \in Slots
  BY <1>4 DEF InUse
<1>6. WellFormed(log)'
  BY <1>2 DEF Follows
<1>7. CASE st = "stop"
  <2>1. PICK k \in 1..Len(log) : offset' = Advanced(k)
    BY DEF AcsContract
  <2>2. offset' <= Len(log)
    BY <2>1 DEF Advanced, Follows
  <2>3. QED
    BY <1>2, <1>6, <1>7, <2>2 DEF Follows
<1>8. CASE st = "init"
  <2>1. socks[i].pos = offset /\ socks[i].filters = Filters /\ offset = Len(InitialLog)
    BY <1>2, <1>8 DEF OneAtATime, Follows
  <2>2. PICK c \in ActiveAt(offset, Filters), k \in 1..Len(log) :
          log[k] = [kind |-> "create", c |-> c] /\ offset' = Advanced(k) /\ view' = Shown(c)
    BY <2>1 DEF AcsContract
  <2>3. offset' = offset
    <3>1. PICK j \in 1..offset : log[j] = [kind |-> "create", c |-> c]
      BY <2>2 DEF ActiveAt, Created
    <3>2. k \in Nat /\ offset \in Nat /\ (j \in 1..(k - 1) => log[j] # log[k])
      BY <2>2 DEF Follows, WellFormed, IInv, TypeOK
    <3>3. ~(k > offset)
      BY <2>2, <3>1, <3>2
    <3>4. QED
      BY <2>2, <3>2, <3>3 DEF Advanced
  <2>4. view' \subseteq ActiveAt(offset, Filters)
    BY <1>8, <2>2 DEF Shown, Follows, FollowsLedgerAt
  <2>5. {d \in ActiveAt(offset, Filters) : ~Created(d, Len(InitialLog))} = {}
    BY <2>1 DEF ActiveAt
  <2>6. FollowsLedgerAt(offset)'
    BY <1>2, <2>3, <2>4, <2>5 DEF FollowsLedgerAt, ActiveAt, Created, Archived
  <2>7. QED
    BY <1>2, <1>4, <1>5, <1>6, <2>3, <2>6 DEF Follows
<1>9. QED
  BY <1>3, <1>7, <1>8 DEF IInv, TypeOK

\* An event of the updates.
LEMMA UpdateFollows ==
  ASSUME SteadyEnvironment, IInv, OneAtATime, Follows, NEW i \in Slots, UpdatesEvent(i)
  PROVE  Follows'
<1>1. socks \in [Slots -> Socket] /\ socks[i] \in Socket /\ offset \in Nat
  BY DEF IInv, TypeOK
<1>2. i \in InUse /\ UNCHANGED <<st, log>>
  BY DEF UpdatesEvent, Delivers, InUse, envVars
<1>3. st \notin {"start", "init"}
  BY <1>2 DEF UpdatesEvent, OneAtATime
<1>4. WellFormed(log)'
  BY <1>2 DEF Follows
<1>5. PICK k \in Unsent(socks[i]) :
        /\ \A j \in Unsent(socks[i]) : k <= j
        /\ socks' = [socks EXCEPT ![i].pos = k]
        /\ offset' = Advanced(k)
        /\ view' = IF log[k].kind = "create" THEN Shown(log[k].c) ELSE Hidden(log[k].c)
  BY DEF UpdatesEvent
<1>6. Len(log) \in Nat /\ k \in (socks[i].pos + 1)..Len(log) /\ socks[i].pos \in Nat
  BY <1>1, <1>5 DEF Unsent, IInv, TypeOK, Socket
<1>7. offset' <= Len(log)
  BY <1>1, <1>5, <1>6 DEF Advanced, Follows
<1>8. CASE st = "stop"
  BY <1>2, <1>4, <1>7, <1>8 DEF Follows
<1>9. CASE st # "stop"
  <2>1. socks[i].pos = offset /\ socks[i].filters = Filters
    BY <1>2, <1>9 DEF OneAtATime, Follows
  <2>2. offset' = k
    BY <1>1, <1>5, <1>6, <2>1 DEF Advanced
  <2>3. Unsent(socks[i]) = {j \in (offset + 1)..Len(log) : Matches(Filters, log[j].c)}
    BY <2>1 DEF Unsent
  <2>4. \A j \in (offset + 1)..(k - 1) : ~Matches(Filters, log[j].c)
    <3>1. SUFFICES ASSUME NEW j \in (offset + 1)..(k - 1), Matches(Filters, log[j].c) PROVE FALSE
      OBVIOUS
    <3>2. j \in (offset + 1)..Len(log) /\ ~(k <= j)
      BY <1>1, <1>6, <2>1
    <3>3. QED
      BY <1>5, <2>3, <3>1, <3>2
  <2>5. Matches(Filters, log[k].c) /\ k \in (offset + 1)..Len(log)
    BY <1>5, <2>3
  <2>6. FollowsLedgerAt(k)'
    BY <1>2, <1>5, <1>9, <2>4, <2>5, NextEventFollows DEF SteadyEnvironment, IInv, Follows
  <2>7. \A j \in InUse' : socks'[j].pos = k
    <3>1. \A j \in Slots : socks'[j].ready = "free" <=> socks[j].ready = "free"
      BY <1>1, <1>5 DEF Socket
    <3>2. InUse' = {i}
      BY <1>2, <3>1 DEF InUse, OneAtATime
    <3>3. socks'[i].pos = k
      BY <1>1, <1>5 DEF Socket
    <3>4. QED
      BY <3>2, <3>3
  <2>8. FollowsLedgerAt(offset)'
    BY <2>2, <2>6 DEF FollowsLedgerAt
  <2>9. QED
    BY <1>2, <1>3, <1>4, <1>7, <2>2, <2>7, <2>8 DEF Follows
<1>10. QED
  BY <1>8, <1>9

\* A close event leaves the map, and a stream that reads on reads from the offset.
LEMMA CloseFollows ==
  ASSUME IInv, OneAtATime, Follows, NEW i \in InUse, NEW code \in Codes, HandleClose(i, code)
  PROVE  Follows'
<1> DEFINE s == [socks EXCEPT ![i] = FreeSocket]
<1>1. /\ s \in [Slots -> Socket] /\ Stopped(s) \in [Slots -> Socket]
      /\ \A j \in Slots : Stopped(s)[j].ready = "free"
  BY LastOneFreed DEF IInv
<1>2. UNCHANGED <<log, offset, view>>
  BY DEF HandleClose
<1>3. CASE AcsDone(s)
  <2>1. \A j \in InUse' : socks'[j].pos = offset
    BY <1>1, <1>3, OpenedFollows DEF AcsDone
  <2>2. st' = "live" /\ st = "init"
    BY <1>3 DEF AcsDone
  <2>3. QED
    BY <1>2, <2>1, <2>2, SameView
<1>4. CASE AcsClosedLate(s, code) \/ UpdatesClosed(i, s, code)
  <2>1. socks' = Stopped(s) /\ st' = st
    BY <1>4, Zenon DEF AcsClosedLate, UpdatesClosed
  <2>2. InUse' = {}
    BY <1>1, <2>1 DEF InUse
  <2>3. st \in {"start", "init"} => offset = Len(InitialLog)
    BY DEF Follows
  <2>4. QED
    BY <1>2, <2>1, <2>2, <2>3, SameView
<1>5. QED
  BY <1>3, <1>4, Zenon DEF HandleClose

\* Every step in a steady environment keeps the map at the offset.
LEMMA FollowsStep ==
  ASSUME SteadyEnvironment, IInv, OneAtATime, Follows, [Next]_vars
  PROVE  Follows'
<1>0. socks \in [Slots -> Socket] /\ TypeOK
  BY DEF IInv, TypeOK
<1>1. CASE Start
  <2>1. \A j \in Slots : socks[j].ready = "free"
    BY <1>1 DEF Start, OneAtATime, InUse
  <2>2. \E kind : OpenSocket(socks, kind, active)
    BY <1>1, Zenon DEF Start
  <2>3. \A j \in InUse' : socks'[j].pos = offset
    BY <1>0, <2>1, <2>2, OpenedFollows
  <2>4. UNCHANGED <<log, offset, view>> /\ st = "start" /\ offset = Len(InitialLog)
    BY <1>1 DEF Start, envVars, Follows
  <2>5. QED
    BY <2>3, <2>4, SameView
<1>2. CASE Close
  <2>1. UNCHANGED <<log, offset, view>> /\ st' = "stop"
    BY <1>2 DEF Close, envVars
  <2>2. QED
    BY <2>1, SameView
<1>3. CASE UpdateToken
  BY <1>3 DEF UpdateToken, SteadyEnvironment, OneAtATime
<1>4. CASE RewidenFires
  BY <1>4 DEF RewidenFires, OneAtATime
<1>5. ASSUME NEW i \in Slots, ReconnectFires(i) PROVE Follows'
  <2>1. InUse = {} /\ st = "live" /\ dropped = {}
    BY <1>5 DEF ReconnectFires, OneAtATime
  <2>2. OpenSocket(socks, "updates", active) /\ UNCHANGED <<st, log, offset, view>>
    BY <1>5, <2>1 DEF ReconnectFires, envVars
  <2>3. \A j \in Slots : socks[j].ready = "free"
    BY <2>1 DEF InUse
  <2>4. \A j \in InUse' : socks'[j].pos = offset
    BY <1>0, <2>2, <2>3, OpenedFollows
  <2>5. QED
    BY <2>1, <2>2, <2>4, SameView
<1>6. ASSUME NEW i \in Slots, AcsContract(i) \/ UpdatesEvent(i) PROVE Follows'
  BY <1>6, AcsFollows, UpdateFollows
<1>7. ASSUME NEW i \in Slots, PackagesDropped(i) \/ RejectionSurfaced(i) PROVE FALSE
  BY <1>7 DEF PackagesDropped, RejectionSurfaced, Delivers, OneAtATime, InUse
<1>8. ASSUME NEW i \in Slots, SocketOpens(i) PROVE Follows'
  <2>1. UNCHANGED <<log, offset, view, st>>
    BY <1>8 DEF SocketOpens, clientVars, envVars
  <2>2. \A j \in Slots : /\ socks'[j].ready # "free" => socks[j].ready # "free"
                         /\ socks'[j].pos = socks[j].pos
    BY <1>0, <1>8 DEF SocketOpens, Socket
  <2>3. \A j \in InUse' : j \in InUse /\ socks'[j].pos = socks[j].pos
    BY <2>2 DEF InUse
  <2>4. QED
    BY <2>1, <2>3, SameView DEF Follows
<1>9. ASSUME NEW i \in Slots, ServerCloses(i) \/ HandshakeEnds(i) \/ ConnectionBreaks(i) PROVE Follows'
  <2>1. i \in InUse /\ \E code \in Codes : HandleClose(i, code)
    BY <1>9 DEF ServerCloses, HandshakeEnds, ConnectionBreaks, InUse, Codes
  <2>2. QED
    BY <2>1, CloseFollows
<1>10. ASSUME NEW e \in Event, Commit(e) PROVE Follows'
  <2>1. UNCHANGED <<st, offset, view, socks>> /\ log' = Append(log, e)
    BY <1>10 DEF Commit, clientVars
  <2>2. WellFormed(log)' /\ Len(log') = Len(log) + 1
    BY <1>0, <1>10, CommitKeepsForm DEF Follows
  <2>3. st # "stop" => FollowsLedgerAt(offset)'
    BY <1>0, <2>1, CommitKeepsView DEF Follows
  <2>4. Len(InitialLog) <= Len(log') /\ offset <= Len(log')
    BY <1>0, <2>2, StreamAssumption DEF Follows, TypeOK, StreamAssumption
  <2>5. QED
    BY <2>1, <2>2, <2>3, <2>4 DEF Follows, InUse
<1>11. CASE \E p \in Packages : UploadDar(p)
  BY <1>11 DEF UploadDar, OneAtATime
<1>12. CASE UNCHANGED vars
  <2>1. UNCHANGED <<log, offset, view, st, socks>>
    BY <1>12 DEF vars, clientVars, envVars
  <2>2. InUse' = InUse
    BY <2>1 DEF InUse
  <2>3. QED
    BY <2>1, <2>2, SameView DEF Follows
<1>13. QED
  BY <1>1, <1>2, <1>3, <1>4, <1>5, <1>6, <1>7, <1>8, <1>9, <1>10, <1>11, <1>12 DEF Next, Client

\* ViewFollowsLedger in a steady environment, for any filters, contracts, log and
\* faults: neither a break nor a reconnect from the offset loses a contract that was
\* created since the stream began, or leaves one behind that was archived.
THEOREM MapIsTheLedger == SteadyEnvironment /\ Spec => []ViewFollowsLedger
<1>1. Follows => ViewFollowsLedger
  BY DEF Follows, ViewFollowsLedger
<1>2. CASE SteadyEnvironment
  <2>1. Init => OneAtATime /\ Follows
    BY <1>2, InitOneAtATime, InitFollows
  <2>2. IInv /\ (OneAtATime /\ Follows) /\ [Next]_vars => (OneAtATime /\ Follows)'
    BY <1>2, OneStep, FollowsStep
  <2>3. QED
    BY <1>1, <2>1, <2>2, Inductive, PTL DEF Spec
<1>3. QED
  BY <1>2
=============================================================================
