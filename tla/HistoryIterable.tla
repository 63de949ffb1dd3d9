--------------------------- MODULE HistoryIterable ---------------------------
(***************************************************************************)
(* makeHistoryIterable in ledger/src/ledger.ts: it turns the events that   *)
(* the socket of an updates subscription pushes into the answers of the    *)
(* next() calls of an AsyncIterable.                                       *)
(*                                                                         *)
(* Events wait in a queue of limited length, calls that find it empty are  *)
(* parked.  With validation on, a message that has arrived is handled only *)
(* when the schemas are loaded; the close event of the socket does not     *)
(* wait for them.  The consumer may call next() any number of times before *)
(* it reads an answer, and return() at any time.                           *)
(***************************************************************************)
EXTENDS Naturals, Sequences

CONSTANTS
  Events,      \* the events of the window
  Messages,    \* the events of each message, in the order of the stream; those
               \* that do not decode, or have no recordTime, are left out
  MaxQueue,    \* HISTORY_ITERABLE_MAX_QUEUE
  Bounded,     \* the request has an endInclusive
  Validation,  \* the client validates what it receives
  MaxCalls,    \* bound: calls of next()
  MaxFaults    \* bound: errors and broken connections

Parked == "parked"   \* the promise is pending
Done   == "done"     \* it resolved with {done: true}
Failed == "failed"   \* it rejected

ASSUME IterableAssumption ==
  /\ Messages \in Seq(Seq(Events))
  /\ {Parked, Done, Failed} \cap Events = {}
  /\ MaxQueue \in Nat \ {0} /\ MaxCalls \in Nat /\ MaxFaults \in Nat
  /\ Bounded \in BOOLEAN /\ Validation \in BOOLEAN

VARIABLES
  queue, resolvers,    \* resolvers: the parked calls
  done, pendingError,
  answers,             \* what became of each call of next(), in call order
  sock,                \* readyState of the socket
  received, handled,   \* messages that have arrived, that onMessage has run for
  ready,               \* the schemas are loaded
  faults,
  given,               \* history: the decoded events of the handled messages
  cut                  \* history: what has cut the replay short

client == <<queue, resolvers, done, pendingError, answers>>
vars == <<client, sock, received, handled, ready, faults, given, cut>>

Init ==
  /\ queue = <<>> /\ resolvers = <<>> /\ done = FALSE /\ pendingError = FALSE
  /\ answers = <<>>
  /\ sock = "connecting" /\ received = 0 /\ handled = 0
  /\ ready = ~Validation
  /\ faults = 0 /\ given = <<>> /\ cut = {}

IsParked(i) == \E j \in DOMAIN resolvers : resolvers[j] = i
Least(a, b) == IF a < b THEN a ELSE b

\* The answers when every parked call gets the answer a.
Release(a) == [i \in DOMAIN answers |-> IF IsParked(i) THEN a ELSE answers[i]]

-----------------------------------------------------------------------------
(* push, fail and finish.                                                  *)

\* Mutant: every parked call gets the first event.
MutPush(es) ==
  LET rest == IF resolvers = <<>> THEN es ELSE Tail(es) IN
  /\ answers' = Release(es[1])
  /\ resolvers' = <<>>
  /\ queue' = queue \o rest
  /\ UNCHANGED <<done, pendingError, sock>>

Room == MaxQueue - Len(queue)

Stopped == IF sock = "open" THEN "closing" ELSE sock

\* fail(e).  A socket that fails to connect is closing of itself.
Fail ==
  /\ sock' = IF sock = "connecting" THEN "closing" ELSE IF done THEN sock ELSE Stopped
  /\ IF done
     THEN UNCHANGED <<done, pendingError, resolvers, answers>>
     ELSE /\ done' = TRUE /\ pendingError' = TRUE
          /\ answers' = Release(Failed) /\ resolvers' = <<>>

\* push, for the events es of one message: the parked calls are served first,
\* in order, then the queue takes the rest, and one event too many fails.
Push(es) ==
  LET m == Least(Len(resolvers), Len(es))
      rest == SubSeq(es, m + 1, Len(es)) IN
  /\ answers' = [i \in DOMAIN answers |->
       IF \E j \in 1..m : resolvers[j] = i
       THEN es[CHOOSE j \in 1..m : resolvers[j] = i] ELSE answers[i]]
  /\ resolvers' = SubSeq(resolvers, m + 1, Len(resolvers))
  /\ queue' = queue \o SubSeq(rest, 1, Least(Len(rest), Room))
  /\ IF Len(rest) > Room
     THEN done' = TRUE /\ pendingError' = TRUE /\ sock' = Stopped
     ELSE UNCHANGED <<done, pendingError, sock>>

\* Mutant: the calls that are waiting stay parked.
MutFinish == done' = TRUE /\ UNCHANGED <<answers, resolvers>>

\* finish()
Finish ==
  IF done
  THEN UNCHANGED <<done, answers, resolvers>>
  ELSE done' = TRUE /\ answers' = Release(Done) /\ resolvers' = <<>>

-----------------------------------------------------------------------------
(* The consumer.                                                           *)

\* Mutant: a closed iterable is not drained.
MutAnswered(a) == answers' = Append(answers, IF done THEN Done ELSE a)
Answered(a) == answers' = Append(answers, a)

\* Mutant: the first rejection clears the error.
MutNextRejects ==
  /\ pendingError /\ pendingError' = FALSE
  /\ Answered(Failed)
  /\ UNCHANGED <<queue, resolvers, done>>

NextRejects ==
  /\ pendingError
  /\ Answered(Failed)
  /\ UNCHANGED <<queue, resolvers, done, pendingError>>

NextTakes ==
  /\ ~pendingError /\ queue # <<>>
  /\ Answered(Head(queue)) /\ queue' = Tail(queue)
  /\ UNCHANGED <<resolvers, done, pendingError>>

NextEnds ==
  /\ ~pendingError /\ queue = <<>> /\ done
  /\ Answered(Done)
  /\ UNCHANGED <<queue, resolvers, done, pendingError>>

NextParks ==
  /\ ~pendingError /\ queue = <<>> /\ ~done
  /\ Answered(Parked)
  /\ resolvers' = Append(resolvers, Len(answers) + 1)
  /\ UNCHANGED <<queue, done, pendingError>>

\* next()
NextCall ==
  /\ Len(answers) < MaxCalls
  /\ NextRejects \/ NextTakes \/ NextEnds \/ NextParks
  /\ UNCHANGED <<sock, received, handled, ready, faults, given, cut>>

\* return(): the stop function does nothing to a socket that is connecting.
Return ==
  /\ cut' = cut \cup {"return"}
  /\ sock' = Stopped
  /\ Finish
  /\ UNCHANGED <<queue, pendingError, received, handled, ready, faults, given>>

-----------------------------------------------------------------------------
(* The socket.                                                             *)

Opens ==
  /\ sock = "connecting" /\ sock' = "open"
  /\ UNCHANGED <<client, received, handled, ready, faults, given, cut>>

Receive ==
  /\ sock \in {"open", "closing"} /\ received < Len(Messages)
  /\ received' = received + 1
  /\ UNCHANGED <<client, sock, handled, ready, faults, given, cut>>

SchemasLoad ==
  /\ ~ready /\ ready' = TRUE
  /\ UNCHANGED <<client, sock, received, handled, faults, given, cut>>

\* onMessage with the next message.
HandleMessage ==
  /\ ready /\ handled < received
  /\ handled' = handled + 1
  /\ LET es == Messages[handled'] IN
       /\ given' = given \o es
       /\ IF done \/ es = <<>> THEN UNCHANGED <<client, sock>> ELSE Push(es)
  /\ UNCHANGED <<received, ready, faults, cut>>

\* A continuation that can run does so before the next event of the loop.
Settled == ready => handled = received

\* An error response, a message that does not parse, an error of the socket.
StreamError ==
  /\ sock # "closed" /\ Settled
  /\ faults < MaxFaults /\ faults' = faults + 1
  /\ Fail
  /\ UNCHANGED <<queue, received, handled, ready, given, cut>>

\* The onclose handler.
OnClose ==
  /\ Settled
  /\ sock' = "closed"
  /\ Finish
  /\ UNCHANGED <<queue, pendingError, received, handled, ready, given>>

\* The participant has sent the window and closes; or it answers our close.
ServerCloses ==
  /\ \/ sock = "open" /\ Bounded /\ received = Len(Messages)
     \/ sock = "closing"
  /\ cut' = IF handled < received THEN cut \cup {"schemas"} ELSE cut
  /\ OnClose
  /\ UNCHANGED faults

ConnectionBreaks ==
  /\ sock # "closed"
  /\ faults < MaxFaults /\ faults' = faults + 1
  /\ cut' = cut \cup {"network"}
  /\ OnClose

System == Opens \/ Receive \/ SchemasLoad \/ HandleMessage \/ ServerCloses

Next == NextCall \/ Return \/ System \/ StreamError \/ ConnectionBreaks

Spec == Init /\ [][Next]_vars

\* The handshake ends, messages arrive, the schemas load, continuations run,
\* and the participant closes a bounded stream it has sent.
FairSpec ==
  /\ Spec
  /\ WF_vars(Opens) /\ WF_vars(Receive) /\ WF_vars(SchemasLoad)
  /\ WF_vars(HandleMessage) /\ WF_vars(ServerCloses)

-----------------------------------------------------------------------------
(* Properties.                                                             *)

TypeOK ==
  /\ queue \in Seq(Events) /\ Len(queue) <= MaxQueue
  /\ resolvers \in Seq(Nat)
  /\ done \in BOOLEAN /\ pendingError \in BOOLEAN
  /\ answers \in Seq(Events \cup {Parked, Done, Failed})
  /\ sock \in {"connecting", "open", "closing", "closed"}
  /\ received \in 0..Len(Messages) /\ handled \in 0..received
  /\ ready \in BOOLEAN /\ faults \in 0..MaxFaults
  /\ given \in Seq(Events)
  /\ cut \subseteq {"return", "network", "schemas"}

\* The n-th call of next() that gets an event gets the n-th one of the
\* stream: none is lost, repeated or out of order, however calls are parked
\* (push's comment: "each parked next() is a separate request for ONE event").
NthCallNthEvent ==
  \A i \in DOMAIN answers :
    answers[i] \in Events => i <= Len(given) /\ answers[i] = given[i]

\* A call is parked only while there is nothing to give it and something may
\* still come: an end or an error releases every one of them.
NoStrandedCall ==
  \A i \in DOMAIN answers :
    answers[i] = Parked => queue = <<>> /\ ~done /\ IsParked(i)

\* "The stream has failed permanently": once it has, every later call rejects,
\* and no socket stays open behind it (fail's comment: "would leak a live
\* connection").
FailureIsFinal ==
  [][pendingError =>
       /\ pendingError' /\ sock' # "open"
       /\ Len(answers') > Len(answers) => answers'[Len(answers')] = Failed]_vars

\* Every event of the window that decodes has been yielded.
Complete ==
  /\ handled = Len(Messages)
  /\ \A i \in DOMAIN given : i \in DOMAIN answers /\ answers[i] \in Events

\* A replay that ends of itself, with the schemas loaded, tells its consumer
\* that it is done only after it has yielded every event of the window.
CompleteWhenReady ==
  (\E i \in DOMAIN answers : answers[i] = Done) /\ cut = {} => Complete

\* Contradicted: the same of every replay that neither return() nor the network cut short
\* (streamHistoryUpdates: "the exact data needed for 'what happened over this
\* window' replays").
ReplayIsComplete ==
  (\E i \in DOMAIN answers : answers[i] = Done) /\ cut \subseteq {"schemas"} => Complete

\* Every call of next() is answered.
EveryCallAnswered ==
  \A i \in 1..MaxCalls : []<>(i \in DOMAIN answers => answers[i] # Parked)
=============================================================================
