------------------------------ MODULE TokenUser ------------------------------
(***************************************************************************)
(* The token of a Ledger and what it knows of the token's user: setToken,  *)
(* getTokenUserInfo, refreshTokenUserInfo, getTokenActAsParties, and the   *)
(* submits that take their parties from them (ledger/src/ledger.ts).       *)
(*                                                                         *)
(* A read of the user is two HTTP requests.  Its answer is cached for a    *)
(* while; calls that come while a read is under way share it; setToken     *)
(* may come at any point between.  The rights of a user are the number of  *)
(* their last change at the participant.                                   *)
(***************************************************************************)
EXTENDS Naturals, Sequences

CONSTANTS
  Calls,       \* the calls that are made, each of them once
  Users,       \* users of the participant
  FirstUser,   \* the user of the token the Ledger was made with
  MaxAge,      \* tokenUserInfoMaxAgeMs, in ticks
  MaxClock,    \* bound: ticks
  MaxTokens,   \* bound: calls of setToken
  MaxChanges   \* bound: changes of a user's rights

ASSUME TokenUserAssumption ==
  /\ FirstUser \in Users
  /\ MaxAge \in Nat /\ MaxClock \in Nat /\ MaxTokens \in Nat /\ MaxChanges \in Nat

Operations == {"get", "refresh", "submit"}
Unsettled == {"user", "rights", "answered"}
Settled == {"ok", "missing", "failed"}
None == [read |-> 0, rights |-> 0, readAt |-> 0]   \* no answer is cached

VARIABLES
  clock,
  tok,       \* [user, nr]: tokenUserId and client.token; nr numbers the tokens
  rights,    \* at the participant
  cache,     \* tokenUserInfo, with the read it is the answer of
  promise,   \* tokenUserInfoPromise: 0, or the read it is the promise of
  reads,     \* the calls of getUserInfo, in the order they were made
  calls      \* what became of each call

vars == <<clock, tok, rights, cache, promise, reads, calls>>

\* The history in these records: the token (nr) and rights (begun) when a read
\* was made and the time (back) when it settled; the token and time of a call.
Read == [user : Users, nr : Nat, st : Unsettled \cup Settled,
         seen : Nat, begun : Nat, back : Nat]
Call == [st : {"idle", "waiting", "answered", "failed", "sent"},
         op : Operations, read : Nat, nr : Nat, at : Nat,
         userId : Users]

IdleCall == [st |-> "idle", op |-> "get", read |-> 0, nr |-> 0, at |-> 0,
             userId |-> FirstUser]

Init ==
  /\ clock = 0
  /\ tok = [user |-> FirstUser, nr |-> 0]
  /\ rights = [u \in Users |-> 1]
  /\ cache = None /\ promise = 0 /\ reads = <<>>
  /\ calls = [c \in Calls |-> IdleCall]

-----------------------------------------------------------------------------
(* The calls.                                                              *)

\* Mutant: an answer as old as the limit is still used.
MutUsable == cache # None /\ clock - cache.readAt <= MaxAge
\* getTokenUserInfo finds an answer that is young enough.
Usable == cache # None /\ clock - cache.readAt < MaxAge

\* Call c waits for read r: a read in flight, or one whose answer is cached.
WaitFor(c, op, r) ==
  calls' = [calls EXCEPT ![c] =
    [@ EXCEPT !.st = "waiting", !.op = op, !.read = r, !.nr = tok.nr, !.at = clock]]

FromCache(c, op) ==
  /\ op # "refresh" /\ Usable
  /\ WaitFor(c, op, cache.read)
  /\ UNCHANGED <<promise, reads>>

Join(c, op) ==
  /\ op = "refresh" \/ ~Usable
  /\ promise # 0
  /\ WaitFor(c, op, promise)
  /\ UNCHANGED <<promise, reads>>

NewRead(c, op) ==
  /\ op = "refresh" \/ ~Usable
  /\ promise = 0
  /\ reads' = Append(reads, [user |-> tok.user, nr |-> tok.nr, st |-> "user",
                             seen |-> 0, begun |-> rights[tok.user], back |-> 0])
  /\ promise' = Len(reads')
  /\ WaitFor(c, op, Len(reads'))

\* getTokenUserInfo (of a caller's own, or in a submit) or refreshTokenUserInfo.
Begin(c) ==
  /\ calls[c].st = "idle"
  /\ \E op \in Operations : FromCache(c, op) \/ Join(c, op) \/ NewRead(c, op)
  /\ UNCHANGED <<clock, tok, rights, cache>>

\* What a submit puts into its commands once it has its parties.
Sends(c) ==
  calls' = [calls EXCEPT ![c] = [@ EXCEPT !.st = "sent", !.userId = tok.user]]

Resume(c) ==
  /\ calls[c].st = "waiting" /\ reads[calls[c].read].st \in Settled
  /\ \/ /\ reads[calls[c].read].st = "failed"
        /\ calls' = [calls EXCEPT ![c].st = "failed"]
     \/ /\ reads[calls[c].read].st # "failed" /\ calls[c].op # "submit"
        /\ calls' = [calls EXCEPT ![c].st = "answered"]
     \/ /\ reads[calls[c].read].st # "failed" /\ calls[c].op = "submit"
        /\ Sends(c)
  /\ UNCHANGED <<clock, tok, rights, cache, promise, reads>>

-----------------------------------------------------------------------------
(* A read.                                                                 *)

\* Only the read that is the current one may touch the cache.
Keep(r, entry) ==
  IF promise = r THEN cache' = entry /\ promise' = 0 ELSE UNCHANGED <<cache, promise>>

Settle(r, st) ==
  /\ reads' = [reads EXCEPT ![r] = [@ EXCEPT !.st = st, !.back = clock]]
  /\ UNCHANGED <<clock, tok, rights, calls>>

\* The user is found: getUserInfo asks for the rights.
UserFound(r) ==
  /\ reads[r].st = "user"
  /\ reads' = [reads EXCEPT ![r].st = "rights"]
  /\ UNCHANGED <<clock, tok, rights, cache, promise, calls>>

RightsRead(r) ==
  /\ reads[r].st = "rights"
  /\ reads' = [reads EXCEPT ![r] = [@ EXCEPT !.st = "answered", !.seen = rights[reads[r].user]]]
  /\ UNCHANGED <<clock, tok, rights, cache, promise, calls>>

Answered(r) ==
  /\ reads[r].st = "answered"
  /\ Settle(r, "ok")
  /\ Keep(r, [read |-> r, rights |-> reads[r].seen, readAt |-> clock])

UserMissing(r) ==
  /\ reads[r].st = "user"
  /\ Settle(r, "missing")
  /\ Keep(r, None)

ReadFails(r) ==
  /\ reads[r].st \in Unsettled
  /\ Settle(r, "failed")
  /\ Keep(r, cache)

-----------------------------------------------------------------------------
(* The token, the participant and the clock.                               *)

\* Mutant: the read under way is not given up.
MutDropCacheOnly(u) == cache' = None /\ UNCHANGED promise
DropTokenUserInfo(u) == cache' = None /\ promise' = 0

SetToken(u) ==
  /\ tok.nr < MaxTokens
  /\ tok' = [user |-> u, nr |-> tok.nr + 1]
  /\ DropTokenUserInfo(u)
  /\ UNCHANGED <<clock, rights, reads, calls>>

RightsChange(u) ==
  /\ rights[u] <= MaxChanges
  /\ rights' = [rights EXCEPT ![u] = @ + 1]
  /\ UNCHANGED <<clock, tok, cache, promise, reads, calls>>

\* No call is waiting for its continuation to run.
Quiet == \A c \in Calls : calls[c].st = "waiting" => reads[calls[c].read].st \in Unsettled

Tick ==
  /\ Quiet /\ clock < MaxClock
  /\ clock' = clock + 1
  /\ UNCHANGED <<tok, rights, cache, promise, reads, calls>>

Reading(r) == UserFound(r) \/ RightsRead(r) \/ Answered(r) \/ UserMissing(r) \/ ReadFails(r)

Next ==
  \/ \E c \in Calls : Begin(c) \/ Resume(c)
  \/ \E r \in DOMAIN reads : Reading(r)
  \/ \E u \in Users : SetToken(u) \/ RightsChange(u)
  \/ Tick

Spec == Init /\ [][Next]_vars

-----------------------------------------------------------------------------
(* Properties.                                                             *)

TypeOK ==
  /\ clock \in Nat /\ tok \in [user : Users, nr : Nat]
  /\ rights \in [Users -> Nat]
  /\ cache = None \/ cache \in [read : DOMAIN reads, rights : Nat \ {0}, readAt : Nat]
  /\ promise \in {0} \cup DOMAIN reads
  /\ reads \in Seq(Read)
  /\ calls \in [Calls -> Call]
  /\ \A c \in Calls : calls[c].st # "idle" => calls[c].read \in DOMAIN reads

\* What is cached was asked for with the very token the Ledger has now, also
\* when setToken came between the two requests ("A setToken during the read
\* replaces this read; keep its answer out").
CacheIsOfTheToken ==
  cache # None => /\ reads[cache.read].nr = tok.nr /\ reads[cache.read].user = tok.user
                  /\ reads[cache.read].st = "ok" /\ reads[cache.read].seen = cache.rights

\* Concurrent callers share one read: a token never has two in flight, and the
\* promise that is kept is of that read ("concurrent callers share one read").
OneReadPerToken ==
  \A r \in DOMAIN reads :
    reads[r].st \in Unsettled /\ reads[r].nr = tok.nr <=> r = promise

\* A call is answered with what was read for the token it was made under,
\* whatever tokens and reads come between.
AnswersAreOfTheCallsToken ==
  \A c \in Calls : calls[c].st # "idle" => reads[calls[c].read].nr = calls[c].nr

\* An answer shows every change of the rights made before its read began, and
\* that read came back less than MaxAge before the call, or after it if the
\* call is a refresh.
AnswersAreFresh ==
  \A c \in Calls :
    calls[c].st # "idle" =>
      LET r == reads[calls[c].read] IN
      r.st = "ok" =>
        /\ r.seen >= r.begun
        /\ calls[c].op = "refresh" => r.back >= calls[c].at
        /\ r.back >= calls[c].at \/ calls[c].at - r.back < MaxAge

\* Contradicted: submitInternal, "Defaults to the actAs parties of the user in the
\* token".  A command acts as the parties of the user that it names.
CommandIsOfOneUser ==
  \A c \in Calls :
    calls[c].st = "sent" => reads[calls[c].read].user = calls[c].userId
=============================================================================
