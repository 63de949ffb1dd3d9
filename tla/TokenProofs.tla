---------------------------- MODULE TokenProofs -----------------------------
(***************************************************************************)
(* Theorems about TokenUser, for any number of calls, tokens, users and    *)
(* ticks, and about TokenRefresher, for every set of lifetimes and every   *)
(* refresh fraction below one.                                             *)
(*                                                                         *)
(* What carries the induction of TokenUser is what each read and each call *)
(* remembers of the token they were made under.  That of TokenRefresher adds *)
(* to its three invariants that a mint of start() is pending only before the *)
(* refresher has run, and that an outcome being delivered has armed a timer *)
(* that is not due: else the timer could join a promise that is about to be *)
(* cleared, and the schedule would die.                                    *)
(***************************************************************************)
EXTENDS TokenUser, TokenRefresher, TLAPS

-----------------------------------------------------------------------------
(* TokenUser.                                                              *)

\* The reads: a read of the present token is of its user, and no read knows of
\* rights older than those when it began.
ReadsAgree ==
  \A r \in DOMAIN reads :
    /\ reads[r].nr <= tok.nr /\ (reads[r].nr = tok.nr => reads[r].user = tok.user)
    /\ reads[r].begun <= rights[reads[r].user]
    /\ reads[r].back <= clock
    /\ reads[r].st \in {"answered", "ok"} => reads[r].seen >= reads[r].begun
    /\ reads[r].st = "answered" => reads[r].seen > 0

\* The cache holds the answer of a read and the time when it came.
CacheAgrees ==
  cache # None => reads[cache.read].back = cache.readAt

CallsAgree ==
  \A c \in Calls : calls[c].st # "idle" =>
    /\ calls[c].nr <= tok.nr /\ calls[c].at <= clock
    /\ calls[c].st # "waiting" => reads[calls[c].read].st \in Settled

\* The rights are numbered from one.
RightsCounted == \A u \in Users : rights[u] > 0

IInv ==
  /\ TypeOK /\ RightsCounted /\ ReadsAgree /\ CacheAgrees /\ CallsAgree
  /\ CacheIsOfTheToken /\ OneReadPerToken /\ AnswersAreOfTheCallsToken
  /\ AnswersAreFresh

\* In an initial state nothing is read, cached or called.
LEMMA InitIInv == Init => IInv
<1> SUFFICES ASSUME Init PROVE IInv
  OBVIOUS
<1>1. TypeOK
  BY TokenUserAssumption DEF Init, TypeOK, Call, Read, IdleCall, None, Operations
<1>2. RightsCounted /\ ReadsAgree /\ CacheAgrees /\ CacheIsOfTheToken /\ OneReadPerToken
  BY DEF Init, RightsCounted, ReadsAgree, CacheAgrees, CacheIsOfTheToken, OneReadPerToken
<1>3. CallsAgree /\ AnswersAreOfTheCallsToken /\ AnswersAreFresh
  BY DEF Init, IdleCall, CallsAgree, AnswersAreOfTheCallsToken, AnswersAreFresh
<1>4. QED
  BY <1>1, <1>2, <1>3 DEF IInv

-----------------------------------------------------------------------------
(* The calls.                                                              *)

\* What WaitFor makes of the calls.
LEMMA CallWaits ==
  ASSUME TypeOK, NEW c \in Calls, NEW op \in Operations, NEW r \in Nat, WaitFor(c, op, r)
  PROVE  /\ calls' \in [Calls -> Call]
         /\ \A d \in Calls : d # c => calls'[d] = calls[d]
         /\ calls'[c].st = "waiting" /\ calls'[c].op = op /\ calls'[c].read = r
         /\ calls'[c].nr = tok.nr /\ calls'[c].at = clock
<1>1. calls \in [Calls -> Call] /\ tok.nr \in Nat /\ clock \in Nat
  BY DEF TypeOK
<1>2. calls' = [calls EXCEPT ![c] =
        [@ EXCEPT !.st = "waiting", !.op = op, !.read = r, !.nr = tok.nr, !.at = clock]]
  BY DEF WaitFor
<1>3. QED
  BY <1>1, <1>2 DEF Call

\* A call that begins waits for a read of the present token.
LEMMA BeginIInv == ASSUME IInv, NEW c \in Calls, Begin(c) PROVE IInv'
<1>1. /\ TypeOK /\ calls[c].st = "idle" /\ UNCHANGED <<clock, tok, rights, cache>>
      /\ reads \in Seq(Read) /\ calls \in [Calls -> Call] /\ clock \in Nat
      /\ tok \in [user : Users, nr : Nat] /\ Len(reads) \in Nat
      /\ DOMAIN reads = 1..Len(reads)
      /\ rights \in [Users -> Nat]
  BY DEF IInv, TypeOK, Begin
<1>2. PICK op \in Operations : FromCache(c, op) \/ Join(c, op) \/ NewRead(c, op)
  BY DEF Begin
\* The read the call waits for, among the reads as they are then.
<1>3. PICK r \in Nat :
        /\ WaitFor(c, op, r)
        /\ r \in DOMAIN reads' /\ reads'[r].nr = tok.nr
        /\ reads' \in Seq(Read)
        /\ \A q \in DOMAIN reads : q \in DOMAIN reads' /\ reads'[q] = reads[q]
        /\ \A q \in DOMAIN reads' : q \notin DOMAIN reads =>
             /\ q = r /\ reads'[q].st = "user" /\ reads'[q].nr = tok.nr
             /\ reads'[q].user = tok.user /\ reads'[q].back = 0
             /\ reads'[q].begun = rights[tok.user]
             /\ promise = 0 /\ promise' = q
        /\ reads' = reads => promise' = promise
        /\ promise' \in {0} \cup DOMAIN reads'
        /\ reads'[r].st = "ok" => op # "refresh" /\ clock - reads'[r].back < MaxAge
                                  /\ reads'[r].seen >= reads'[r].begun
        /\ reads'[r].st \in Settled => reads'[r].st = "ok"
  <2>1. CASE FromCache(c, op)
    <3>1. /\ op # "refresh" /\ cache # None /\ clock - cache.readAt < MaxAge
          /\ WaitFor(c, op, cache.read) /\ UNCHANGED <<promise, reads>>
      BY <2>1 DEF FromCache, Usable
    <3>2. /\ cache.read \in DOMAIN reads /\ reads[cache.read].nr = tok.nr
          /\ reads[cache.read].st = "ok" /\ reads[cache.read].back = cache.readAt
          /\ reads[cache.read].seen >= reads[cache.read].begun
      BY <1>1, <3>1 DEF IInv, TypeOK, CacheIsOfTheToken, CacheAgrees, ReadsAgree
    <3>3. promise \in {0} \cup DOMAIN reads
      BY DEF IInv, TypeOK
    <3>4. QED
      BY <1>1, <3>1, <3>2, <3>3
  <2>2. CASE Join(c, op)
    <3>1. WaitFor(c, op, promise) /\ promise # 0 /\ UNCHANGED <<promise, reads>>
      BY <2>2 DEF Join
    <3>2. promise \in DOMAIN reads
      BY <3>1 DEF IInv, TypeOK
    <3>3. reads[promise].st \in Unsettled /\ reads[promise].nr = tok.nr
      BY <3>2 DEF IInv, OneReadPerToken
    <3>4. QED
      BY <1>1, <3>1, <3>2, <3>3 DEF Unsettled, Settled
  <2>3. CASE NewRead(c, op)
    <3> DEFINE new == [user |-> tok.user, nr |-> tok.nr, st |-> "user",
                       seen |-> 0, begun |-> rights[tok.user], back |-> 0]
    <3>1. /\ reads' = Append(reads, new) /\ promise = 0
          /\ promise' = Len(reads') /\ WaitFor(c, op, Len(reads'))
      BY <2>3 DEF NewRead
    <3>2. new \in Read
      BY <1>1 DEF Read, Unsettled
    <3>3. /\ reads' \in Seq(Read) /\ Len(reads') = Len(reads) + 1
          /\ DOMAIN reads' = 1..(Len(reads) + 1)
          /\ reads'[Len(reads) + 1] = new
          /\ \A q \in 1..Len(reads) : reads'[q] = reads[q]
      <4> HIDE DEF new
      <4> QED
        BY <1>1, <3>1, <3>2
    <3>4. \A q \in DOMAIN reads' : q \notin DOMAIN reads => q = Len(reads) + 1
      BY <1>1, <3>3
    <3>5. Len(reads) + 1 \in Nat /\ Len(reads) + 1 \in DOMAIN reads' /\ reads' # reads
      BY <1>1, <3>3
    <3>6. \A q \in DOMAIN reads' : q \notin DOMAIN reads =>
            /\ q = Len(reads) + 1 /\ reads'[q].st = "user" /\ reads'[q].nr = tok.nr
            /\ reads'[q].user = tok.user /\ reads'[q].back = 0
            /\ reads'[q].begun = rights[tok.user]
            /\ promise = 0 /\ promise' = q
      BY <3>1, <3>3, <3>4
    <3>7. reads'[Len(reads) + 1].nr = tok.nr /\ reads'[Len(reads) + 1].st \notin Settled
      BY <3>3 DEF Settled
    <3>8. promise' = Len(reads) + 1 /\ WaitFor(c, op, Len(reads) + 1)
      BY <3>1, <3>3
    <3>9. \A q \in DOMAIN reads : q \in DOMAIN reads' /\ reads'[q] = reads[q]
      BY <1>1, <3>3
    <3>10. reads'[Len(reads) + 1].st # "ok"
      BY <3>3
    <3>11. QED
      BY <3>3, <3>5, <3>6, <3>7, <3>8, <3>9, <3>10
  <2>4. QED
    BY <1>2, <2>1, <2>2, <2>3
<1>4. /\ calls' \in [Calls -> Call]
      /\ \A d \in Calls : d # c => calls'[d] = calls[d]
      /\ calls'[c].st = "waiting" /\ calls'[c].op = op /\ calls'[c].read = r
      /\ calls'[c].nr = tok.nr /\ calls'[c].at = clock
  BY <1>1, <1>2, <1>3, CallWaits
<1>5. \A d \in Calls : calls[d].st # "idle" => calls[d].read \in DOMAIN reads
  BY <1>1 DEF TypeOK
<1>6. TypeOK'
  <2>1. \A d \in Calls : calls'[d].st # "idle" => calls'[d].read \in DOMAIN reads'
    BY <1>3, <1>4, <1>5
  <2>2. cache' = None \/ cache' \in [read : DOMAIN reads', rights : Nat \ {0}, readAt : Nat]
    BY <1>1, <1>3 DEF TypeOK
  <2>3. QED
    BY <1>1, <1>3, <1>4, <2>1, <2>2 DEF TypeOK
<1>7. ReadsAgree'
  <2> SUFFICES ASSUME NEW q \in DOMAIN reads'
               PROVE  /\ reads'[q].nr <= tok.nr /\ (reads'[q].nr = tok.nr => reads'[q].user = tok.user)
                      /\ reads'[q].begun <= rights[reads'[q].user]
                      /\ reads'[q].back <= clock
                      /\ reads'[q].st \in {"answered", "ok"} => reads'[q].seen >= reads'[q].begun
                      /\ reads'[q].st = "answered" => reads'[q].seen > 0
    BY <1>1 DEF ReadsAgree
  <2>1. CASE q \in DOMAIN reads
    BY <1>3, <2>1 DEF IInv, ReadsAgree
  <2>2. CASE q \notin DOMAIN reads
    BY <1>1, <1>3, <2>2
  <2>3. QED
    BY <2>1, <2>2
<1>8. CacheAgrees' /\ CacheIsOfTheToken'
  <2>1. cache # None => cache.read \in DOMAIN reads
    BY <1>1 DEF TypeOK
  <2>2. QED
    BY <1>1, <1>3, <2>1 DEF IInv, CacheAgrees, CacheIsOfTheToken
<1>9. OneReadPerToken'
  <2> SUFFICES ASSUME NEW q \in DOMAIN reads'
               PROVE  reads'[q].st \in Unsettled /\ reads'[q].nr = tok.nr <=> q = promise'
    BY <1>1 DEF OneReadPerToken
  <2>1. CASE reads' = reads
    BY <1>3, <2>1 DEF IInv, OneReadPerToken
  <2>2. CASE q \notin DOMAIN reads
    BY <1>3, <2>2 DEF Unsettled
  <2>3. CASE q \in DOMAIN reads /\ reads' # reads
    <3>1. PICK p \in DOMAIN reads' : p \notin DOMAIN reads
      <4>1. DOMAIN reads' # DOMAIN reads
        <5> SUFFICES ASSUME DOMAIN reads' = DOMAIN reads PROVE reads' = reads
          BY <2>3
        <5>1. /\ reads = [i \in DOMAIN reads |-> reads[i]]
              /\ reads' = [i \in DOMAIN reads' |-> reads'[i]]
          BY <1>1, <1>3
        <5>2. QED
          BY <1>3, <5>1
      <4>2. QED
        BY <1>3, <4>1
    <3>2. promise = 0 /\ promise' = p
      BY <1>3, <3>1
    <3>3. q # 0 /\ q # p
      BY <1>1, <2>3, <3>1
    <3>4. QED
      BY <1>3, <2>3, <3>2, <3>3 DEF IInv, OneReadPerToken
  <2>4. QED
    BY <2>1, <2>2, <2>3
<1>10. CallsAgree' /\ AnswersAreOfTheCallsToken'
  <2> SUFFICES ASSUME NEW d \in Calls, calls'[d].st # "idle"
               PROVE  /\ calls'[d].nr <= tok.nr /\ calls'[d].at <= clock
                      /\ calls'[d].st # "waiting" => reads'[calls'[d].read].st \in Settled
                      /\ reads'[calls'[d].read].nr = calls'[d].nr
    BY <1>1 DEF CallsAgree, AnswersAreOfTheCallsToken
  <2>1. CASE d = c
    BY <1>1, <1>3, <1>4, <2>1
  <2>2. CASE d # c
    <3>1. calls'[d] = calls[d] /\ reads'[calls[d].read] = reads[calls[d].read]
      BY <1>3, <1>4, <1>5, <2>2
    <3>2. QED
      BY <3>1 DEF IInv, CallsAgree, AnswersAreOfTheCallsToken
  <2>3. QED
    BY <2>1, <2>2
<1>11. AnswersAreFresh'
  <2> SUFFICES ASSUME NEW d \in Calls, calls'[d].st # "idle", reads'[calls'[d].read].st = "ok"
               PROVE  LET x == reads'[calls'[d].read] IN
                      /\ x.seen >= x.begun
                      /\ calls'[d].op = "refresh" => x.back >= calls'[d].at
                      /\ x.back >= calls'[d].at \/ calls'[d].at - x.back < MaxAge
    BY DEF AnswersAreFresh
  <2>1. CASE d = c
    BY <1>3, <1>4, <2>1
  <2>2. CASE d # c
    <3>1. calls'[d] = calls[d] /\ reads'[calls[d].read] = reads[calls[d].read]
      BY <1>3, <1>4, <1>5, <2>2
    <3>2. QED
      BY <3>1 DEF IInv, AnswersAreFresh
  <2>3. QED
    BY <2>1, <2>2
<1>12. QED
  BY <1>1, <1>6, <1>7, <1>8, <1>9, <1>10, <1>11 DEF IInv, RightsCounted

\* A call resumes only when its read has settled.
LEMMA ResumeIInv == ASSUME IInv, NEW c \in Calls, Resume(c) PROVE IInv'
<1>1. /\ TypeOK /\ calls[c].st = "waiting" /\ reads[calls[c].read].st \in Settled
      /\ UNCHANGED <<clock, tok, rights, cache, promise, reads>>
      /\ calls \in [Calls -> Call] /\ tok \in [user : Users, nr : Nat]
  BY DEF IInv, TypeOK, Resume
<1>2. /\ calls' \in [Calls -> Call]
      /\ \A d \in Calls : d # c => calls'[d] = calls[d]
      /\ calls'[c].read = calls[c].read /\ calls'[c].nr = calls[c].nr
      /\ calls'[c].at = calls[c].at /\ calls'[c].op = calls[c].op
      /\ \/ calls'[c].st \in {"failed", "answered"}
         \/ calls'[c].st = "sent"
  <2>1. CASE calls' = [calls EXCEPT ![c].st = "failed"]
    BY <1>1, <2>1 DEF Call
  <2>2. CASE calls' = [calls EXCEPT ![c].st = "answered"]
    BY <1>1, <2>2 DEF Call
  <2>3. CASE Sends(c)
    BY <1>1, <2>3 DEF Call, Sends
  <2>4. QED
    BY <2>1, <2>2, <2>3 DEF Resume
<1>3. TypeOK'
  BY <1>1, <1>2 DEF TypeOK
<1>4. ReadsAgree' /\ CacheAgrees' /\ CacheIsOfTheToken' /\ OneReadPerToken' /\ RightsCounted'
  BY <1>1 DEF IInv, ReadsAgree, CacheAgrees, CacheIsOfTheToken, OneReadPerToken, RightsCounted
<1>5. CallsAgree' /\ AnswersAreOfTheCallsToken' /\ AnswersAreFresh'
  BY <1>1, <1>2 DEF IInv, CallsAgree, AnswersAreOfTheCallsToken, AnswersAreFresh
<1>6. QED
  BY <1>3, <1>4, <1>5 DEF IInv

-----------------------------------------------------------------------------
(* The reads.                                                              *)

\* Read r moves on from one of its requests to the next.
LEMMA ReadMovesOn ==
  ASSUME IInv, NEW r \in DOMAIN reads, UserFound(r) \/ RightsRead(r)
  PROVE  IInv'
<1>1. /\ TypeOK /\ reads \in Seq(Read) /\ DOMAIN reads = 1..Len(reads)
      /\ rights \in [Users -> Nat] /\ reads[r] \in Read
      /\ UNCHANGED <<clock, tok, rights, cache, promise, calls>>
  BY DEF IInv, TypeOK, UserFound, RightsRead
<1>2. /\ reads' \in Seq(Read) /\ DOMAIN reads' = DOMAIN reads
      /\ \A q \in DOMAIN reads : q # r => reads'[q] = reads[q]
      /\ reads[r].st \in {"user", "rights"} /\ reads'[r].nr = reads[r].nr
      /\ reads'[r].user = reads[r].user /\ reads'[r].begun = reads[r].begun
      /\ reads'[r].back = reads[r].back
      /\ \/ reads'[r].st = "rights"
         \/ reads'[r].st = "answered" /\ reads'[r].seen = rights[reads[r].user]
  <2>1. CASE UserFound(r)
    <3>1. reads[r].st = "user" /\ reads' = [reads EXCEPT ![r] = [@ EXCEPT !.st = "rights"]]
      BY <2>1 DEF UserFound
    <3>2. [reads[r] EXCEPT !.st = "rights"] \in Read
      BY <1>1 DEF Read, Unsettled
    <3>3. QED
      BY <1>1, <3>1, <3>2 DEF Read
  <2>2. CASE RightsRead(r)
    <3>1. /\ reads[r].st = "rights"
          /\ reads' = [reads EXCEPT ![r] =
               [@ EXCEPT !.st = "answered", !.seen = rights[reads[r].user]]]
      BY <2>2 DEF RightsRead
    <3>2. [reads[r] EXCEPT !.st = "answered", !.seen = rights[reads[r].user]] \in Read
      BY <1>1 DEF Read, Unsettled
    <3>3. QED
      BY <1>1, <3>1, <3>2 DEF Read
  <2>3. QED
    BY <2>1, <2>2
<1>3. reads[r].st \in Unsettled /\ reads'[r].st \in Unsettled /\ reads[r].st \notin Settled
  BY <1>2 DEF Unsettled, Settled
<1>4. cache # None => cache.read \in DOMAIN reads /\ cache.read # r
  BY <1>1, <1>3 DEF IInv, TypeOK, CacheIsOfTheToken, Settled
<1>5. TypeOK'
  BY <1>1, <1>2 DEF TypeOK
<1>6. ReadsAgree'
  <2> SUFFICES ASSUME NEW q \in DOMAIN reads
               PROVE  /\ reads'[q].nr <= tok.nr /\ (reads'[q].nr = tok.nr => reads'[q].user = tok.user)
                      /\ reads'[q].begun <= rights[reads'[q].user]
                      /\ reads'[q].back <= clock
                      /\ reads'[q].st \in {"answered", "ok"} => reads'[q].seen >= reads'[q].begun
                      /\ reads'[q].st = "answered" => reads'[q].seen > 0
    BY <1>1, <1>2 DEF ReadsAgree
  <2>1. CASE q # r
    BY <1>2, <2>1 DEF IInv, ReadsAgree
  <2>2. CASE q = r
    <3>1. /\ reads[r].nr <= tok.nr /\ (reads[r].nr = tok.nr => reads[r].user = tok.user)
          /\ reads[r].begun <= rights[reads[r].user]
          /\ reads[r].back <= clock
      BY DEF IInv, ReadsAgree
    <3>2. rights[reads[r].user] > 0 /\ rights[reads[r].user] \in Nat /\ reads[r].begun \in Nat
      BY <1>1 DEF IInv, RightsCounted, Read
    <3>3. QED
      BY <1>2, <2>2, <3>1, <3>2
  <2>3. QED
    BY <2>1, <2>2
<1>7. CacheAgrees' /\ CacheIsOfTheToken'
  BY <1>1, <1>2, <1>4 DEF IInv, CacheAgrees, CacheIsOfTheToken
<1>8. OneReadPerToken'
  BY <1>1, <1>2, <1>3 DEF IInv, OneReadPerToken
<1>9. ASSUME NEW d \in Calls, calls[d].st # "idle"
      PROVE  /\ calls[d].read \in DOMAIN reads
             /\ reads'[calls[d].read].nr = reads[calls[d].read].nr
             /\ reads'[calls[d].read].user = reads[calls[d].read].user
             /\ reads[calls[d].read].st \in Settled =>
                  reads'[calls[d].read] = reads[calls[d].read]
             /\ reads'[calls[d].read].st = "ok" =>
                  reads'[calls[d].read] = reads[calls[d].read]
  BY <1>1, <1>2, <1>3, <1>9 DEF TypeOK
<1>10. CallsAgree' /\ AnswersAreOfTheCallsToken'
  BY <1>1, <1>9 DEF IInv, CallsAgree, AnswersAreOfTheCallsToken
<1>11. AnswersAreFresh'
  BY <1>1, <1>9 DEF IInv, AnswersAreFresh
<1>12. QED
  BY <1>1, <1>5, <1>6, <1>7, <1>8, <1>10, <1>11 DEF IInv, RightsCounted

\* Read r comes back: with an answer for the cache, or without.
LEMMA ReadSettles ==
  ASSUME IInv, NEW r \in DOMAIN reads, reads[r].st \in Unsettled,
         NEW st \in Settled, Settle(r, st), NEW entry, Keep(r, entry),
         st = "ok" => /\ reads[r].st = "answered"
                      /\ entry = [read |-> r, rights |-> reads[r].seen, readAt |-> clock],
         st # "ok" => entry = None \/ entry = cache
  PROVE  IInv'
<1>1. /\ TypeOK /\ reads \in Seq(Read) /\ DOMAIN reads = 1..Len(reads)
      /\ reads[r] \in Read /\ r \in Nat /\ r # 0 /\ clock \in Nat
      /\ UNCHANGED <<clock, tok, rights, calls>>
  BY DEF IInv, TypeOK, Settle
<1>2. /\ reads' \in Seq(Read) /\ DOMAIN reads' = DOMAIN reads
      /\ \A q \in DOMAIN reads : q # r => reads'[q] = reads[q]
      /\ reads'[r].nr = reads[r].nr /\ reads'[r].seen = reads[r].seen
      /\ reads'[r].user = reads[r].user /\ reads'[r].begun = reads[r].begun
      /\ reads'[r].back = clock /\ reads'[r].st = st
  <2>1. reads' = [reads EXCEPT ![r] = [@ EXCEPT !.st = st, !.back = clock]]
    BY DEF Settle
  <2>2. [reads[r] EXCEPT !.st = st, !.back = clock] \in Read
    BY <1>1 DEF Read
  <2>3. QED
    BY <1>1, <2>1, <2>2 DEF Read
<1>3. reads[r].st \notin Settled /\ reads'[r].st \notin Unsettled
  BY <1>2 DEF Unsettled, Settled
<1>4. cache # None => cache.read \in DOMAIN reads /\ cache.read # r
  BY <1>1, <1>3 DEF IInv, TypeOK, CacheIsOfTheToken, Settled
<1>5. ReadsAgree'
  <2> SUFFICES ASSUME NEW q \in DOMAIN reads
               PROVE  /\ reads'[q].nr <= tok.nr /\ (reads'[q].nr = tok.nr => reads'[q].user = tok.user)
                      /\ reads'[q].begun <= rights[reads'[q].user]
                      /\ reads'[q].back <= clock
                      /\ reads'[q].st \in {"answered", "ok"} => reads'[q].seen >= reads'[q].begun
                      /\ reads'[q].st = "answered" => reads'[q].seen > 0
    BY <1>1, <1>2 DEF ReadsAgree
  <2>1. CASE q # r
    BY <1>2, <2>1 DEF IInv, ReadsAgree
  <2>2. CASE q = r
    <3>1. /\ reads[r].nr <= tok.nr /\ (reads[r].nr = tok.nr => reads[r].user = tok.user)
          /\ reads[r].begun <= rights[reads[r].user]
          /\ reads[r].back <= clock
      BY DEF IInv, ReadsAgree
    <3>2. reads'[r].st = "ok" => reads[r].seen >= reads[r].begun
      BY <1>2 DEF IInv, ReadsAgree
    <3>3. reads'[r].st # "answered"
      BY <1>3 DEF Unsettled
    <3>4. QED
      BY <1>1, <1>2, <2>2, <3>1, <3>2, <3>3
  <2>3. QED
    BY <2>1, <2>2
<1>6. /\ CacheAgrees' /\ CacheIsOfTheToken'
      /\ cache' = None \/ cache' \in [read : DOMAIN reads, rights : Nat \ {0}, readAt : Nat]
  <2>1. CASE cache' = cache
    BY <1>1, <1>2, <1>4, <2>1 DEF IInv, TypeOK, CacheAgrees, CacheIsOfTheToken
  <2>2. CASE cache' = None
    BY <2>2 DEF CacheAgrees, CacheIsOfTheToken
  <2>3. CASE cache' = entry /\ promise = r /\ st = "ok"
    <3>1. reads[r].nr = tok.nr /\ reads[r].user = tok.user /\ reads[r].seen > 0
      BY <2>3 DEF IInv, OneReadPerToken, ReadsAgree
    <3>2. cache' = [read |-> r, rights |-> reads[r].seen, readAt |-> clock]
      BY <2>3
    <3>3. reads[r].seen \in Nat \ {0}
      BY <1>1, <3>1 DEF Read
    <3>4. cache'.read = r /\ cache'.rights = reads[r].seen /\ cache'.readAt = clock
      BY <3>2
    <3>5. cache' \in [read : DOMAIN reads, rights : Nat \ {0}, readAt : Nat]
      BY <1>1, <3>2, <3>3
    <3>6. QED
      BY <1>1, <1>2, <2>3, <3>1, <3>4, <3>5 DEF CacheAgrees, CacheIsOfTheToken
  <2>4. QED
    BY <2>1, <2>2, <2>3 DEF Keep
<1>7. promise' = (IF promise = r THEN 0 ELSE promise)
  BY DEF Keep
<1>8. TypeOK'
  BY <1>1, <1>2, <1>6, <1>7 DEF TypeOK
<1>9. OneReadPerToken'
  BY <1>1, <1>2, <1>3, <1>7 DEF IInv, OneReadPerToken
<1>10. ASSUME NEW d \in Calls, calls[d].st # "idle"
       PROVE  /\ calls[d].read \in DOMAIN reads
              /\ reads'[calls[d].read].nr = reads[calls[d].read].nr
              /\ reads'[calls[d].read].user = reads[calls[d].read].user
              /\ \/ reads'[calls[d].read] = reads[calls[d].read]
                 \/ /\ calls[d].read = r /\ reads'[calls[d].read].st \in Settled
                    /\ reads'[calls[d].read].back = clock
  BY <1>1, <1>2, <1>10 DEF TypeOK
<1>11. CallsAgree' /\ AnswersAreOfTheCallsToken'
  BY <1>1, <1>10 DEF IInv, CallsAgree, AnswersAreOfTheCallsToken
<1>12. AnswersAreFresh'
  <2> SUFFICES ASSUME NEW d \in Calls, calls[d].st # "idle", reads'[calls[d].read].st = "ok"
               PROVE  LET x == reads'[calls[d].read] IN
                      /\ x.seen >= x.begun
                      /\ calls[d].op = "refresh" => x.back >= calls[d].at
                      /\ x.back >= calls[d].at \/ calls[d].at - x.back < MaxAge
    BY <1>1 DEF AnswersAreFresh
  <2>1. CASE reads'[calls[d].read] = reads[calls[d].read]
    BY <2>1 DEF IInv, AnswersAreFresh
  <2>2. CASE reads'[calls[d].read] # reads[calls[d].read]
    <3>1. calls[d].read = r /\ reads'[r].back = clock
      BY <1>10, <2>2
    <3>2. calls[d].at <= clock /\ calls[d].at \in Nat
      BY <1>1 DEF IInv, CallsAgree, TypeOK, Call
    <3>3. reads'[r].seen >= reads'[r].begun
      BY <1>2, <1>5, <3>1 DEF ReadsAgree
    <3>4. QED
      BY <1>1, <3>1, <3>2, <3>3
  <2>3. QED
    BY <2>1, <2>2
<1>13. QED
  BY <1>1, <1>5, <1>6, <1>8, <1>9, <1>11, <1>12 DEF IInv, RightsCounted

\* Every step of a read keeps the invariant.
LEMMA ReadingIInv == ASSUME IInv, NEW r \in DOMAIN reads, Reading(r) PROVE IInv'
<1>1. CASE UserFound(r) \/ RightsRead(r)
  BY <1>1, ReadMovesOn
<1>2. CASE Answered(r)
  <2>1. reads[r].st = "answered" /\ Settle(r, "ok")
        /\ Keep(r, [read |-> r, rights |-> reads[r].seen, readAt |-> clock])
    BY <1>2 DEF Answered
  <2>2. "ok" \in Settled /\ reads[r].st \in Unsettled
    BY <2>1 DEF Settled, Unsettled
  <2>3. QED
    BY <2>1, <2>2, ReadSettles
<1>3. CASE UserMissing(r)
  <2>1. Settle(r, "missing") /\ Keep(r, None) /\ "missing" \in Settled
        /\ reads[r].st \in Unsettled
    BY <1>3 DEF UserMissing, Settled, Unsettled
  <2>2. QED
    BY <2>1, ReadSettles
<1>4. CASE ReadFails(r)
  <2>1. Settle(r, "failed") /\ Keep(r, cache) /\ "failed" \in Settled
        /\ reads[r].st \in Unsettled
    BY <1>4 DEF ReadFails, Settled
  <2>2. QED
    BY <2>1, ReadSettles
<1>5. QED
  BY <1>1, <1>2, <1>3, <1>4 DEF Reading

-----------------------------------------------------------------------------
(* The token, the participant and the clock.                               *)

\* The types of what a read remembers.
LEMMA ReadTypes ==
  ASSUME TypeOK, NEW r \in DOMAIN reads
  PROVE  /\ r \in Nat /\ r # 0 /\ reads[r].user \in Users
         /\ reads[r].nr \in Nat /\ reads[r].seen \in Nat /\ reads[r].begun \in Nat
         /\ reads[r].back \in Nat
<1>1. reads \in Seq(Read) /\ r \in 1..Len(reads)
  BY DEF TypeOK
<1>2. reads[r] \in Read /\ r \in Nat /\ r # 0
  BY <1>1
<1>3. QED
  BY <1>2 DEF Read

\* setToken() empties the cache, and a read under way is of a former token.
LEMMA SetTokenIInv == ASSUME IInv, NEW u \in Users, SetToken(u) PROVE IInv'
<1>1. /\ TypeOK /\ tok.nr \in Nat /\ tok' = [user |-> u, nr |-> tok.nr + 1]
      /\ cache' = None /\ promise' = 0 /\ UNCHANGED <<clock, rights, reads, calls>>
      /\ reads \in Seq(Read) /\ calls \in [Calls -> Call]
  BY DEF IInv, TypeOK, SetToken, DropTokenUserInfo
<1>2. TypeOK'
  BY <1>1 DEF TypeOK
<1>3. \A r \in DOMAIN reads : reads[r].nr \in Nat /\ reads[r].nr < tok'.nr /\ r # 0
  <2> TAKE r \in DOMAIN reads
  <2>1. reads[r].nr <= tok.nr /\ reads[r].nr \in Nat /\ r # 0
    BY <1>1, ReadTypes DEF IInv, ReadsAgree
  <2>2. QED
    BY <1>1, <2>1
<1>4. ReadsAgree' /\ CacheAgrees' /\ CacheIsOfTheToken' /\ OneReadPerToken'
  BY <1>1, <1>3 DEF IInv, ReadsAgree, CacheAgrees, CacheIsOfTheToken, OneReadPerToken
<1>5. CallsAgree'
  BY <1>1 DEF IInv, CallsAgree, Call
<1>6. AnswersAreOfTheCallsToken' /\ AnswersAreFresh' /\ RightsCounted'
  BY <1>1 DEF IInv, AnswersAreOfTheCallsToken, AnswersAreFresh, RightsCounted
<1>7. QED
  BY <1>2, <1>4, <1>5, <1>6 DEF IInv

\* Rights only grow.
LEMMA RightsChangeIInv == ASSUME IInv, NEW u \in Users, RightsChange(u) PROVE IInv'
<1>1. /\ TypeOK /\ rights \in [Users -> Nat] /\ rights' = [rights EXCEPT ![u] = @ + 1]
      /\ UNCHANGED <<clock, tok, cache, promise, reads, calls>>
      /\ reads \in Seq(Read)
  BY DEF IInv, TypeOK, RightsChange
<1>2. rights' \in [Users -> Nat] /\ \A v \in Users : rights'[v] >= rights[v]
  BY <1>1
<1>3. TypeOK' /\ RightsCounted'
  BY <1>1, <1>2 DEF IInv, TypeOK, RightsCounted
<1>4. ReadsAgree'
  <2> SUFFICES ASSUME NEW r \in DOMAIN reads PROVE reads[r].begun <= rights'[reads[r].user]
    BY <1>1 DEF IInv, ReadsAgree
  <2>1. reads[r].begun <= rights[reads[r].user] /\ reads[r].begun \in Nat /\ reads[r].user \in Users
    BY <1>1, ReadTypes DEF IInv, ReadsAgree
  <2>2. QED
    BY <1>1, <1>2, <2>1
<1>5. QED
  BY <1>1, <1>3, <1>4 DEF IInv, CacheAgrees, CallsAgree, CacheIsOfTheToken, OneReadPerToken,
     AnswersAreOfTheCallsToken, AnswersAreFresh

\* Time passes while no settled call waits.
LEMMA TickIInv == ASSUME IInv, Tick PROVE IInv'
<1>1. /\ TypeOK /\ clock \in Nat /\ clock' = clock + 1
      /\ UNCHANGED <<tok, rights, cache, promise, reads, calls>>
      /\ reads \in Seq(Read) /\ calls \in [Calls -> Call]
  BY DEF IInv, TypeOK, Tick
<1>2. TypeOK'
  BY <1>1 DEF TypeOK
<1>3. ReadsAgree' /\ CallsAgree'
  <2>1. ASSUME NEW r \in DOMAIN reads PROVE reads[r].back <= clock + 1
    <3>1. reads[r].back <= clock /\ reads[r].back \in Nat
      BY <1>1, ReadTypes DEF IInv, ReadsAgree
    <3>2. QED
      BY <1>1, <3>1
  <2>2. ReadsAgree'
    BY <1>1, <2>1 DEF IInv, ReadsAgree
  <2>3. CallsAgree'
    BY <1>1 DEF IInv, CallsAgree, Call
  <2>4. QED
    BY <2>2, <2>3
<1>4. QED
  BY <1>1, <1>2, <1>3 DEF IInv, CacheAgrees, CacheIsOfTheToken, OneReadPerToken, RightsCounted,
     AnswersAreOfTheCallsToken, AnswersAreFresh

\* Every step, and every stutter, keeps the invariant.
LEMMA NextIInv == IInv /\ [Next]_vars => IInv'
<1> SUFFICES ASSUME IInv, [Next]_vars PROVE IInv'
  OBVIOUS
<1>1. CASE Next
  BY <1>1, BeginIInv, ResumeIInv, ReadingIInv, SetTokenIInv, RightsChangeIInv, TickIInv DEF Next
<1>2. CASE UNCHANGED vars
  BY <1>2 DEF vars, IInv, TypeOK, RightsCounted, ReadsAgree, CacheAgrees, CallsAgree,
     CacheIsOfTheToken, OneReadPerToken, AnswersAreOfTheCallsToken, AnswersAreFresh
<1>3. QED
  BY <1>1, <1>2

\* The invariant holds in every reachable state.
LEMMA Invariant == Spec => []IInv
BY InitIInv, NextIInv, PTL DEF Spec

-----------------------------------------------------------------------------
(* The theorems.                                                           *)

\* Every reachable state is well typed: what is cached is a user's rights.
THEOREM TypeCorrect == Spec => []TypeOK
<1>1. IInv => TypeOK
  BY DEF IInv
<1>2. QED
  BY <1>1, Invariant, PTL

\* The cache never holds an answer to a former token (setToken and the guard
\* in refreshTokenUserInfo).
THEOREM CacheFollowsToken == Spec => []CacheIsOfTheToken
<1>1. IInv => CacheIsOfTheToken
  BY DEF IInv
<1>2. QED
  BY <1>1, Invariant, PTL

\* Concurrent callers share one read, also after failures and new tokens.
THEOREM ReadsAreShared == Spec => []OneReadPerToken
<1>1. IInv => OneReadPerToken
  BY DEF IInv
<1>2. QED
  BY <1>1, Invariant, PTL

\* No call is answered with what was read for another token.
THEOREM AnswersFollowToken == Spec => []AnswersAreOfTheCallsToken
<1>1. IInv => AnswersAreOfTheCallsToken
  BY DEF IInv
<1>2. QED
  BY <1>1, Invariant, PTL

\* How old the rights in an answer can be (tokenUserInfoMaxAgeMs).
THEOREM RightsAreFresh == Spec => []AnswersAreFresh
<1>1. IInv => AnswersAreFresh
  BY DEF IInv
<1>2. QED
  BY <1>1, Invariant, PTL

-----------------------------------------------------------------------------
(* TokenRefresher.                                                         *)

FirstOnlyAtStart == (first => state \in {"starting", "stopped"}) /\ (state = "new" => ~first)

DeliveryArms == inFlight = "delivering" /\ state = "running" => timer > 0

RInv ==
  /\ RefresherTypeOK /\ RunningMeansScheduled /\ RefreshOnTime
  /\ FirstOnlyAtStart /\ DeliveryArms

\* The refresh of a usable token is armed within the timer limit and before
\* the token expires.
LEMMA RefreshAfterBounds ==
  ASSUME NEW l \in Lifetimes, Refreshable(l)
  PROVE  /\ l \in Nat /\ RefreshAfter(l) \in 1..MaxTimerDelay /\ RefreshAfter(l) < l
         /\ RefreshAfter(l) = Least(RefreshDelay[l], MaxTimerDelay)
<1>1. /\ l \in Nat /\ RefreshDelay[l] \in Nat /\ MinRefresh \in Nat /\ MinRefresh > 0
      /\ MaxTimerDelay \in Nat /\ MinRefresh <= RefreshDelay[l]
      /\ (RefreshDelay[l] < l \/ RefreshDelay[l] = 0)
  BY RefresherAssumption DEF Refreshable
<1>2. MaxTimerDelay >= 1 /\ RefreshDelay[l] >= 1 /\ RefreshDelay[l] < l
  BY <1>1, RefresherAssumption
<1>3. Most(MinRefresh, RefreshDelay[l]) = RefreshDelay[l]
  BY <1>1 DEF Most
<1>4. QED
  BY <1>1, <1>2, <1>3 DEF RefreshAfter, Arm, SetTimeout, Least

\* So is every retry.
LEMMA RetryBounds ==
  ASSUME NEW n \in 1..MaxFailures
  PROVE  Retry(n) \in 1..MaxTimerDelay
<1>1. /\ RetryBase * 2 ^ (n - 1) \in Nat \ {0}
      /\ RetryMax \in Nat \ {0} /\ MaxTimerDelay \in Nat \ {0}
  BY RefresherAssumption
<1> DEFINE delay == RetryBase * 2 ^ (n - 1)
<1>2. delay \in Nat \ {0}
  BY <1>1
<1> HIDE DEF delay
<1>3. Least(Least(RetryMax, delay), MaxTimerDelay) \in 1..MaxTimerDelay
  BY <1>1, <1>2 DEF Least
<1>4. QED
  BY <1>1, <1>2, <1>3 DEF Retry, Arm, SetTimeout, Least, delay

\* A new refresher has no timer and no mint.
LEMMA InitRInv == RefresherInit => RInv
<1> SUFFICES ASSUME RefresherInit PROVE RInv
  OBVIOUS
<1>1. 0 \in 0..MaxFailures /\ NoTimer \in -1..MaxTimerDelay
  BY RefresherAssumption DEF NoTimer
<1>2. RefresherTypeOK
  BY <1>1 DEF RefresherInit, RefresherTypeOK
<1>3. QED
  BY <1>2 DEF RefresherInit, RInv, RunningMeansScheduled, RefreshOnTime, FirstOnlyAtStart, DeliveryArms

\* A delivered token sets the schedule of a running refresher.
LEMMA AcceptFacts ==
  ASSUME RInv, NEW l \in Lifetimes, Refreshable(l), Accept(l)
  PROVE  /\ left' \in Nat /\ failures' = 0 /\ hooks' \in {0, 1}
         /\ timer' \in 1..MaxTimerDelay /\ timer' # NoTimer /\ timer' < left'
         /\ \E m \in Lifetimes : left' - timer' = m - Least(RefreshDelay[m], MaxTimerDelay)
  BY RefreshAfterBounds DEF Accept, Tell, RInv, RefresherTypeOK, NoTimer

\* So does a failure, by its retry.
LEMMA RejectFacts ==
  ASSUME RInv, Reject
  PROVE  /\ left' = left /\ failures' \in 1..MaxFailures /\ hooks' \in {0, 1}
         /\ timer' \in 1..MaxTimerDelay /\ timer' # NoTimer
<1>1. failures' \in 1..MaxFailures
  BY RefresherAssumption DEF Reject, Least, RInv, RefresherTypeOK
<1>2. timer' \in 1..MaxTimerDelay
  BY <1>1, RetryBounds DEF Reject
<1>3. QED
  BY <1>1, <1>2 DEF Reject, Tell, RInv, RefresherTypeOK, NoTimer

\* The steps that only touch the state and the promises keep the invariant.
LEMMA StartStep ==
  ASSUME RInv, Start \/ FirstFails \/ RefreshNow \/ Stop \/ SourceChanges \/ Finally
  PROVE  RInv'
<1> USE RefresherAssumption DEF RInv, RefresherTypeOK, NoTimer, RunningMeansScheduled,
                                RefreshOnTime, FirstOnlyAtStart, DeliveryArms
<1>1. CASE Start
  BY <1>1 DEF Start
<1>2. CASE FirstFails
  BY <1>2 DEF FirstFails
<1>3. CASE RefreshNow
  BY <1>3 DEF RefreshNow
<1>4. CASE Stop
  BY <1>4 DEF Stop
<1>5. CASE SourceChanges
  BY <1>5 DEF SourceChanges
<1>6. CASE Finally
  BY <1>6 DEF Finally
<1>7. QED
  BY <1>1, <1>2, <1>3, <1>4, <1>5, <1>6

\* The token of start() arms the first timer.
LEMMA FirstTokenStep == ASSUME RInv, NEW l \in Lifetimes, FirstToken(l) PROVE RInv'
<1> USE DEF RInv, RefresherTypeOK, NoTimer, RunningMeansScheduled, RefreshOnTime, FirstOnlyAtStart, DeliveryArms
<1>1. CASE state = "starting"
  <2>1. Refreshable(l) /\ Accept(l) /\ state' = "running" /\ first' = FALSE
        /\ UNCHANGED <<inFlight, healthy>>
    BY <1>1 DEF FirstToken
  <2>2. /\ left' \in Nat /\ failures' = 0 /\ hooks' \in {0, 1}
        /\ timer' \in 1..MaxTimerDelay /\ timer' < left'
        /\ \E m \in Lifetimes : left' - timer' = m - Least(RefreshDelay[m], MaxTimerDelay)
    BY <2>1, AcceptFacts
  <2>3. 0 \in 0..MaxFailures /\ timer' \in -1..MaxTimerDelay /\ timer' > 0
    BY <2>2, RefresherAssumption
  <2>4. RefresherTypeOK'
    BY <2>1, <2>2, <2>3
  <2>5. QED
    BY <2>1, <2>2, <2>3, <2>4
<1>2. CASE state # "starting"
  BY <1>2 DEF FirstToken
<1>3. QED
  BY <1>1, <1>2

\* The outcome of a mint arms a timer that is not due.
LEMMA MintEndsStep == ASSUME RInv, MintEnds PROVE RInv'
<1> USE DEF RInv, RefresherTypeOK, NoTimer, RunningMeansScheduled, RefreshOnTime, FirstOnlyAtStart, DeliveryArms
<1>1. inFlight = "minting" /\ inFlight' = "delivering" /\ UNCHANGED <<state, first, healthy>>
  BY DEF MintEnds, RefreshFails, RefreshSucceeds, OutcomeSettled
<1>2. CASE state # "running"
  <2>1. UNCHANGED <<timer, left, failures, hooks>>
    BY <1>2 DEF MintEnds, RefreshFails, RefreshSucceeds, OutcomeSettled
  <2>2. QED
    BY <1>1, <1>2, <2>1
<1>3. CASE state = "running"
  <2>1. CASE RefreshFails
    BY <1>1, <1>3, <2>1, RejectFacts DEF RefreshFails, OutcomeSettled
  <2>2. ASSUME NEW l \in Lifetimes, RefreshSucceeds(l) PROVE RInv'
    <3>1. Refreshable(l) /\ Accept(l)
      BY <1>3, <2>2 DEF RefreshSucceeds, OutcomeSettled
    <3>2. /\ left' \in Nat /\ failures' = 0 /\ hooks' \in {0, 1}
          /\ timer' \in 1..MaxTimerDelay /\ timer' < left'
          /\ \E m \in Lifetimes : left' - timer' = m - Least(RefreshDelay[m], MaxTimerDelay)
      BY <3>1, AcceptFacts
    <3>3. QED
      BY <1>1, <1>3, <3>2, RefresherAssumption
  <2>3. QED
    BY <2>1, <2>2 DEF MintEnds
<1>4. QED
  BY <1>2, <1>3

\* A timer that fires leaves a mint in flight; a tick never passes a due timer.
LEMMA TimeStep == ASSUME RInv, TimerFires \/ RefresherTick PROVE RInv'
<1> USE DEF RInv, RefresherTypeOK, NoTimer, RunningMeansScheduled, RefreshOnTime, FirstOnlyAtStart, DeliveryArms
<1>1. CASE TimerFires
  <2>1. state = "running" /\ inFlight # "delivering" /\ inFlight' = "minting"
    BY <1>1 DEF TimerFires
  <2>2. -1 \in -1..MaxTimerDelay
    BY RefresherAssumption
  <2>3. QED
    BY <1>1, <2>1, <2>2 DEF TimerFires
<1>2. CASE RefresherTick
  BY <1>2, RefresherAssumption DEF RefresherTick
<1>3. QED
  BY <1>1, <1>2

\* Every step keeps the invariant.
LEMMA NextStep == ASSUME RInv, [RefresherNext]_refresherVars PROVE RInv'
<1>1. CASE UNCHANGED refresherVars
  BY <1>1 DEF refresherVars, RInv, RefresherTypeOK, RunningMeansScheduled, RefreshOnTime, FirstOnlyAtStart, DeliveryArms
<1>2. QED
  BY <1>1, StartStep, FirstTokenStep, MintEndsStep, TimeStep DEF RefresherNext

\* The invariant holds in every reachable state.
LEMMA Inductive == RefresherSpec => []RInv
<1>1. RInv /\ [RefresherNext]_refresherVars => RInv'
  BY NextStep
<1>2. QED
  BY InitRInv, <1>1, PTL DEF RefresherSpec

\* The types; no timer is armed for longer than setTimeout can wait.
THEOREM RefresherTypeCorrect == RefresherSpec => []RefresherTypeOK
<1>1. RInv => RefresherTypeOK
  BY DEF RInv
<1>2. QED
  BY <1>1, Inductive, PTL

\* A running refresher always has a timer armed or a mint in flight.
THEOREM ScheduleNeverDies == RefresherSpec => []RunningMeansScheduled
<1>1. RInv => RunningMeansScheduled
  BY DEF RInv
<1>2. QED
  BY <1>1, Inductive, PTL

\* While nothing has failed, the armed refresh comes before the expiry and not
\* before its time.
THEOREM RefreshIsInTime == RefresherSpec => []RefreshOnTime
<1>1. RInv => RefreshOnTime
  BY DEF RInv
<1>2. QED
  BY <1>1, Inductive, PTL

\* After stop() no timer is armed and no hook is called, whatever mint ends.
THEOREM StopIsQuiet == RefresherSpec => QuietAfterStop
<1>1. ASSUME RInv, [RefresherNext]_refresherVars, state = "stopped"
      PROVE  state' = "stopped" /\ timer' = NoTimer /\ hooks' = hooks /\ left' <= left
  <2>1. timer = NoTimer /\ left \in Nat
    BY <1>1 DEF RInv, RefresherTypeOK, RunningMeansScheduled
  <2>2. QED
    BY <1>1, <2>1
       DEF RefresherNext, refresherVars, NoTimer, Start, FirstFails, RefreshNow, TimerFires, FirstToken, MintEnds,
           RefreshFails, RefreshSucceeds, OutcomeSettled, Finally, Stop, RefresherTick, SourceChanges
<1>2. RInv /\ [RefresherNext]_refresherVars =>
        (state = "stopped" =>
           state' = "stopped" /\ timer' = NoTimer /\ hooks' = hooks /\ left' <= left)
  BY <1>1
<1>3. QED
  BY <1>2, Inductive, PTL DEF RefresherSpec, QuietAfterStop
=============================================================================
