---------------------------- MODULE LedgerEndCache ----------------------------
(***************************************************************************)
(* How a Ledger of the ledger package answers "what is the ledger end":    *)
(* getLedgerEnd, cacheLedgerEnd and submitAndWaitForTransaction in         *)
(* ledger/src/ledger.ts.                                                   *)
(*                                                                         *)
(* Calls that arrive while a request is in flight share its promise, a     *)
(* cached answer serves the calls of the next second, and a submit that    *)
(* returns advances the cache.  Each call is a client of its own; between  *)
(* two awaits of one call every other call may run.  The participant, the  *)
(* other writers of the ledger and the clock are the environment.          *)
(***************************************************************************)
EXTENDS Integers, Sequences

CONSTANTS
  Readers,      \* callers of getLedgerEnd
  Submitters,   \* callers of submitAndWaitForTransaction
  MaxAge,       \* the 1000 ms of the cache, in ticks of the clock
  MaxLatency,   \* ticks from a commit to the arrival of the submit's response
  MaxEnd,       \* bound: the ledger end
  MaxTime       \* bound: the clock

None == "none"      \* undefined
Failed == -1        \* the promise was rejected

ASSUME CacheAssumption ==
  /\ MaxAge \in Nat \ {0} /\ MaxLatency \in Nat
  /\ MaxEnd \in Nat /\ MaxTime \in Nat
  /\ None \notin Readers

VARIABLES
  cache,     \* ledgerEndCache; offset 0 with an expired timestamp is undefined
  promise,   \* ledgerEndPromise: the reader whose request it is, or None
  reads,     \* the calls of getLedgerEnd
  submits,   \* the calls of submitAndWaitForTransaction
  end, now,  \* the participant's ledger end, Date.now()
  seen,      \* history: the latest transaction a submit has returned
  endAt      \* history: endAt[t] is the ledger end when the clock reached t

vars == <<cache, promise, reads, submits, end, now, seen, endAt>>

Leading == {"asked", "answered", "settled"}

Read ==
  [pc     : {"idle", "joined", "resolved", "done"} \cup Leading,
   leader : Readers \cup {None},    \* a joiner's: whose request it shares
   offset : Int,                    \* what the promise settled with
   answer : Int,                    \* what the call returned
   since  : Int,                    \* when the request it waits for began
   base   : Int,                    \* history: seen when that request began
   floor  : Int]                    \* history: seen when the call was made

NoRead == [pc |-> "idle", leader |-> None, offset |-> 0, answer |-> 0,
           since |-> 0, base |-> 0, floor |-> 0]

Submit == [pc : {"idle", "sent", "committed"}, offset : Int, at : Int]

Init ==
  /\ cache = [offset |-> 0, timestamp |-> -MaxAge]
  /\ promise = None
  /\ reads = [c \in Readers |-> NoRead]
  /\ submits = [s \in Submitters |-> [pc |-> "idle", offset |-> 0, at |-> 0]]
  /\ end = 0 /\ now = 0 /\ seen = 0 /\ endAt = <<>>

-----------------------------------------------------------------------------
(* getLedgerEnd.                                                           *)

\* cacheLedgerEnd: the cache after it, which never moves back.
Cached(offset, timestamp) ==
  IF offset >= cache.offset
  THEN [offset |-> offset, timestamp |-> timestamp]
  ELSE cache

Fresh == now - cache.timestamp < MaxAge

\* The call shares the promise of the request in flight.
Join(c) ==
  /\ reads[c].pc = "idle" /\ promise # None
  /\ LET l == reads[promise] IN
       reads' = [reads EXCEPT ![c] =
         [l EXCEPT !.pc = IF l.pc = "settled" THEN "resolved" ELSE "joined",
                   !.leader = promise, !.floor = seen]]
  /\ UNCHANGED <<cache, promise, submits, end, now, seen, endAt>>

\* The cache answers.
CachedRead(c) ==
  /\ reads[c].pc = "idle" /\ promise = None /\ Fresh
  /\ reads' = [reads EXCEPT ![c] = [NoRead EXCEPT !.pc = "done", !.answer = cache.offset]]
  /\ UNCHANGED <<cache, promise, submits, end, now, seen, endAt>>

\* The call makes the request, and keeps its promise for the others.
Lead(c) ==
  /\ reads[c].pc = "idle" /\ promise = None /\ ~Fresh
  /\ promise' = c
  /\ reads' = [reads EXCEPT ![c] =
       [NoRead EXCEPT !.pc = "asked", !.since = now, !.base = seen, !.floor = seen]]
  /\ UNCHANGED <<cache, submits, end, now, seen, endAt>>

\* The participant reads its ledger end; the response is on its way.
ParticipantReads(c) ==
  /\ reads[c].pc = "asked"
  /\ reads' = [reads EXCEPT ![c].pc = "answered", ![c].offset = end]
  /\ UNCHANGED <<cache, promise, submits, end, now, seen, endAt>>

\* The promise of leader c settles: those that joined it are resolved too.
Settle(c, offset) ==
  reads' = [d \in Readers |->
    IF d = c THEN [reads[d] EXCEPT !.pc = "settled", !.offset = offset]
    ELSE IF reads[d].pc = "joined" /\ reads[d].leader = c
         THEN [reads[d] EXCEPT !.pc = "resolved", !.offset = offset]
         ELSE reads[d]]

\* A response is an event of its own: the continuations of the one before it
\* have run.
Quiet == \A c \in Readers : reads[c].pc # "settled"

ResponseArrives(c) ==
  /\ reads[c].pc = "answered" /\ Quiet
  /\ Settle(c, reads[c].offset)
  /\ UNCHANGED <<cache, promise, submits, end, now, seen, endAt>>

\* The request fails, or the response has no offset.
RequestFails(c) ==
  /\ reads[c].pc \in {"asked", "answered"} /\ Quiet
  /\ Settle(c, Failed)
  /\ UNCHANGED <<cache, promise, submits, end, now, seen, endAt>>

\* Mutant: the leader returns the response, not the cached offset.
MutLeaderAnswers(c) ==
  /\ reads[c].pc = "settled" /\ reads[c].offset # Failed
  /\ cache' = Cached(reads[c].offset, reads[c].since)
  /\ promise' = None
  /\ reads' = [reads EXCEPT ![c].pc = "done", ![c].answer = reads[c].offset]
  /\ UNCHANGED <<submits, end, now, seen, endAt>>

\* Mutant: the answer is stamped with the time it came back.
MutLateStamp(c) ==
  /\ reads[c].pc = "settled" /\ reads[c].offset # Failed
  /\ cache' = Cached(reads[c].offset, now)
  /\ promise' = None
  /\ reads' = [reads EXCEPT ![c].pc = "done", ![c].answer = cache'.offset]
  /\ UNCHANGED <<submits, end, now, seen, endAt>>

\* The leader's call goes on after the await: it caches the answer, stamped
\* with the time it asked, and returns what is cached by then.
LeaderAnswers(c) ==
  /\ reads[c].pc = "settled" /\ reads[c].offset # Failed
  /\ cache' = Cached(reads[c].offset, reads[c].since)
  /\ promise' = None
  /\ reads' = [reads EXCEPT ![c].pc = "done", ![c].answer = cache'.offset]
  /\ UNCHANGED <<submits, end, now, seen, endAt>>

\* The await throws; the finally block clears the promise all the same.
LeaderThrows(c) ==
  /\ reads[c].pc = "settled" /\ reads[c].offset = Failed
  /\ promise' = None
  /\ reads' = [reads EXCEPT ![c].pc = "done", ![c].answer = Failed]
  /\ UNCHANGED <<cache, submits, end, now, seen, endAt>>

\* A joiner returns what the promise settled with, whatever is cached.
JoinerReturns(c) ==
  /\ reads[c].pc = "resolved"
  /\ reads' = [reads EXCEPT ![c].pc = "done", ![c].answer = reads[c].offset]
  /\ UNCHANGED <<cache, promise, submits, end, now, seen, endAt>>

\* The caller has used its answer and may call again.
Used(c) ==
  /\ reads[c].pc = "done"
  /\ reads' = [reads EXCEPT ![c] = NoRead]
  /\ UNCHANGED <<cache, promise, submits, end, now, seen, endAt>>

-----------------------------------------------------------------------------
(* submitAndWaitForTransaction.                                            *)

Send(s) ==
  /\ submits[s].pc = "idle"
  /\ submits' = [submits EXCEPT ![s].pc = "sent"]
  /\ UNCHANGED <<cache, promise, reads, end, now, seen, endAt>>

\* The participant commits the transaction.
Commit(s) ==
  /\ submits[s].pc = "sent" /\ end < MaxEnd
  /\ end' = end + 1
  /\ submits' = [submits EXCEPT ![s] = [pc |-> "committed", offset |-> end + 1, at |-> now]]
  /\ UNCHANGED <<cache, promise, reads, now, seen, endAt>>

Later(a, b) == IF a > b THEN a ELSE b

\* The response arrives: cache the transaction's offset as of now.
SubmitReturns(s) ==
  /\ submits[s].pc = "committed" /\ Quiet
  /\ cache' = Cached(submits[s].offset, now)
  /\ seen' = Later(seen, submits[s].offset)
  /\ submits' = [submits EXCEPT ![s].pc = "idle"]
  /\ UNCHANGED <<promise, reads, end, now, endAt>>

\* The command is rejected, or the connection breaks after the commit.
SubmitThrows(s) ==
  /\ submits[s].pc \in {"sent", "committed"}
  /\ submits' = [submits EXCEPT ![s].pc = "idle"]
  /\ UNCHANGED <<cache, promise, reads, end, now, seen, endAt>>

-----------------------------------------------------------------------------
(* The environment.                                                        *)

OtherCommit ==
  /\ end < MaxEnd /\ end' = end + 1
  /\ UNCHANGED <<cache, promise, reads, submits, now, seen, endAt>>

Tick ==
  /\ now < MaxTime /\ now' = now + 1
  /\ \A s \in Submitters : submits[s].pc = "committed" => now < submits[s].at + MaxLatency
  /\ endAt' = Append(endAt, end)
  /\ UNCHANGED <<cache, promise, reads, submits, end, seen>>

Next ==
  \/ \E c \in Readers :
       \/ Join(c) \/ CachedRead(c) \/ Lead(c)
       \/ ParticipantReads(c) \/ ResponseArrives(c) \/ RequestFails(c)
       \/ LeaderAnswers(c) \/ LeaderThrows(c) \/ JoinerReturns(c) \/ Used(c)
  \/ \E s \in Submitters : Send(s) \/ Commit(s) \/ SubmitReturns(s) \/ SubmitThrows(s)
  \/ OtherCommit \/ Tick

Spec == Init /\ [][Next]_vars

-----------------------------------------------------------------------------
(* Properties.                                                             *)

TypeOK ==
  /\ cache \in [offset : Nat, timestamp : Int] /\ cache.timestamp <= now
  /\ promise \in Readers \cup {None}
  /\ reads \in [Readers -> Read]
  /\ submits \in [Submitters -> Submit]
  /\ end \in Nat /\ now \in Nat /\ seen \in Nat
  /\ endAt \in Seq(Nat)

\* The stored promise is that of the one request in flight: no second request
\* runs beside it, and no call joins one whose leader has already finished,
\* failed requests included (getLedgerEnd's finally block).
OneRequestInFlight == \A c \in Readers : reads[c].pc \in Leading <=> promise = c

\* Every transaction a submit has returned is at or before the cached offset,
\* and the cache is never ahead of the participant, in whatever order reads
\* and submits come back (comment of cacheLedgerEnd).
CacheCoversOwnWrites == seen <= cache.offset /\ cache.offset <= end

Returns(c) == reads[c].pc # "done" /\ reads'[c].pc = "done" /\ reads'[c].answer # Failed

\* A call that asks the participant or is served from the cache returns no
\* less than any write the instance has seen by then; a call that joined a
\* request, no less than the writes seen when that request was made.
ReadsCoverWrites ==
  [][\A c \in Readers : Returns(c) =>
       reads'[c].answer >= IF reads[c].pc = "resolved" THEN reads[c].base ELSE seen]_vars

EndAt(t) == IF t <= 0 THEN 0 ELSE endAt[t]

\* A cached answer is at most a second behind the participant, plus the time
\* the response of a submit took; an answer of the participant is the ledger
\* end of the time of the request or later.
AnswersAreFresh ==
  [][\A c \in Readers : Returns(c) =>
       reads'[c].answer >=
         IF reads[c].pc = "idle" THEN EndAt(now - MaxAge + 1 - MaxLatency)
                                 ELSE EndAt(reads[c].since)]_vars

\* Contradicted: what the comment of cacheLedgerEnd says of every read at "end": it "never
\* misses a write that this instance has already seen", when it was called.
NeverMissesSeenWrite ==
  [][\A c \in Readers : Returns(c) =>
       reads'[c].answer >= IF reads[c].pc = "idle" THEN seen ELSE reads[c].floor]_vars
=============================================================================
