-------------------------- MODULE SubmissionsProofs --------------------------
(***************************************************************************)
(* Theorems about Submissions, for any set of commands, any number of      *)
(* requests, rounds and failures.  What carries the induction is, for each *)
(* command, which requests can still take effect and under which id; and   *)
(* for the answers, that sorting by nodeId keeps the events.               *)
(***************************************************************************)
EXTENDS Submissions, FiniteSetTheorems, WellFoundedInduction, TLAPS

\* What the theorems assume of the caller and of what answers its requests.
CarefulCaller == Careful /\ LostStatuses \subseteq {503} /\ Archives \cap WithContext = {}

-----------------------------------------------------------------------------
(* The errors.                                                             *)

\* What readErrorBody makes of a payload that has the fields of one.
LEMMA RejectedIs ==
  ASSUME NEW s, NEW code, NEW n
  PROVE  /\ Rejected(s, code, n).status = s
         /\ Rejected(s, code, n).body = [kind |-> "canton", error |-> Payload(code, n)]
<1> DEFINE p == Payload(code, n)
<1>1. IsCantonError(p) /\ Json(p).is = "json" /\ Json(p).json = p
  BY DEF IsCantonError, Payload, Json
<1>2. readErrorBody(Json(p)) = [kind |-> "canton", error |-> p]
  <2> HIDE DEF p
  <2> QED
    BY <1>1 DEF readErrorBody
<1>3. QED
  BY <1>2 DEF Rejected, LedgerApiError

\* Errors without a Canton payload.
LEMMA PlainErrors ==
  /\ \A s : ~HasCantonError(LedgerApiError(s, Html)) /\ LedgerApiError(s, Html).status = s
  /\ ~HasCantonError(ClientError) /\ ClientError.status = 0
  /\ \A s, raw : raw.is \in {"unreadable", "blank", "text", "json"} =>
       ~HasCantonError(ScanApiError(s, raw))
BY DEF HasCantonError, LedgerApiError, ScanApiError, ClientError, readErrorBody, Html, Blank,
   NoStatus

\* A client's error, or one of Scan's, says nothing of a command.
LEMMA ScanErrorsArePlain ==
  \A e \in ScanErrors : ~HasCantonError(e)
BY PlainErrors DEF ScanErrors, Html, Blank, Json

\* What an error means without a payload.
LEMMA PlainMeans ==
  ASSUME NEW e, ~HasCantonError(e)
  PROVE  /\ ~isAlreadyApplied(e) /\ ~isAlreadyArchived(e) /\ ~isConfirmedPermanentReject(e)
         /\ isIndeterminateSubmit(e) <=> e.status = 503
         /\ isRetriableSubmit(e) <=> e.status \in {408, 429} \/ e.status >= 500
BY DEF isAlreadyApplied, isAlreadyArchived, isConfirmedPermanentReject, isIndeterminateSubmit,
   isRetriableSubmit

\* A deadline is indeterminate, and retriable: it confirms nothing.
LEMMA DeadlineMeans ==
  LET e == Rejected(504, "REQUEST_TIME_OUT", 3) IN
  /\ ~isAlreadyApplied(e) /\ ~isAlreadyArchived(e) /\ ~isConfirmedPermanentReject(e)
  /\ isIndeterminateSubmit(e)
<1> DEFINE e == Rejected(504, "REQUEST_TIME_OUT", 3)
<1>0. e.status = 504 /\ e.body = [kind |-> "canton", error |-> Payload("REQUEST_TIME_OUT", 3)]
  BY RejectedIs
<1>1. e.status = 504 /\ e.body.kind = "canton" /\ e.body.error = Payload("REQUEST_TIME_OUT", 3)
  <2> HIDE DEF e
  <2> QED
    BY <1>0
<1>2. e.body.error.code = "REQUEST_TIME_OUT" /\ categoryOf(e.body.error) = "deadline"
  BY <1>1 DEF Payload, categoryOf, CATEGORY_BY_INT
<1> HIDE DEF e
<1>3. ~isAlreadyApplied(e) /\ ~isAlreadyArchived(e)
  BY <1>2 DEF isAlreadyApplied, isAlreadyArchived, CONTRACT_GONE_CODES
<1>4. isIndeterminateSubmit(e) /\ isRetriableSubmit(e)
  BY <1>1, <1>2 DEF isIndeterminateSubmit, isRetriableSubmit, isRetryable, RETRYABLE_CATEGORIES,
     HasCantonError
<1>5. QED
  BY <1>3, <1>4 DEF isConfirmedPermanentReject, e

\* A refusal that says the work is done tells of a commit, or of a contract gone.
LEMMA RefusalsMean ==
  ASSUME NEW r, NEW e \in Refusals(r)
  PROVE  /\ isAlreadyApplied(e) => Committed(r)
         /\ isAlreadyArchived(e) => Committed(r) \/ ContractGone(r)
<1>1. CASE Committed(r)
  BY <1>1
<1>2. CASE ~Committed(r)
  <2>1. ASSUME NEW code \in {"SUBMISSION_ALREADY_IN_FLIGHT", "PERMISSION_DENIED",
                             "LOCAL_VERDICT_LOCKED_CONTRACTS", "PARTICIPANT_BACKPRESSURE"},
               NEW s, NEW n, e = Rejected(s, code, n)
        PROVE  ~isAlreadyApplied(e) /\ ~isAlreadyArchived(e)
    <3>1. e.body = [kind |-> "canton", error |-> Payload(code, n)]
      BY <2>1, RejectedIs
    <3>2. e.body.error.code = code
      BY <3>1 DEF Payload
    <3>3. QED
      BY <3>2 DEF isAlreadyApplied, isAlreadyArchived, CONTRACT_GONE_CODES
  <2>2. ASSUME e = LedgerApiError(403, Html)
        PROVE  ~isAlreadyApplied(e) /\ ~isAlreadyArchived(e)
    BY <2>2, PlainErrors, PlainMeans
  <2>3. ASSUME e = Rejected(404, "CONTRACT_NOT_FOUND", 11)
        PROVE  ~isAlreadyApplied(e)
    <3>1. e.body = [kind |-> "canton", error |-> Payload("CONTRACT_NOT_FOUND", 11)]
      BY <2>3, RejectedIs
    <3>2. e.body.error.code = "CONTRACT_NOT_FOUND"
      BY <3>1 DEF Payload
    <3>3. QED
      BY <3>2 DEF isAlreadyApplied
  <2>4. \/ e = Rejected(409, "SUBMISSION_ALREADY_IN_FLIGHT", 2)
        \/ e = Rejected(403, "PERMISSION_DENIED", 7)
        \/ e = Rejected(409, "LOCAL_VERDICT_LOCKED_CONTRACTS", 2)
        \/ e = Rejected(429, "PARTICIPANT_BACKPRESSURE", 2)
        \/ e = LedgerApiError(403, Html)
        \/ e = Rejected(404, "CONTRACT_NOT_FOUND", 11) /\ ContractGone(r)
    BY <1>2 DEF Refusals
  <2>5. QED
    BY <2>1, <2>2, <2>3, <2>4
<1>3. QED
  BY <1>1, <1>2

-----------------------------------------------------------------------------
(* The invariant of one command: its caller a, the requests w and the      *)
(* ledger l.                                                               *)

\* Which requests of c there are, and what the ledger has of it.
Counted(c, id, sends, w, l) ==
  /\ \A r \in w : r.cmd = c =>
       /\ r.id <= id /\ r.nr <= sends
       /\ r.st = "accepted" => <<c, r.id>> \notin l.done
       /\ c \in Effects => r.id = id
  /\ \A r, q \in w : r.cmd = c /\ q.cmd = c =>
       /\ r.nr = q.nr => r = q
       /\ r.id = q.id /\ r.st = "accepted" /\ q.st = "accepted" => r = q
  /\ \A i \in Nat : <<c, i>> \in l.done =>
       /\ c \in Effects => i = id
       /\ c \in Archives => Target[c] \notin l.live
  /\ c \in Archives => l.times[c] = 0 \/ (l.times[c] = 1 /\ Target[c] \notin l.live)
  /\ c \in Effects => l.times[c] = IF <<c, id>> \in l.done THEN 1 ELSE 0

\* Nothing of c has taken effect, and nothing can.
Clear(c, w, l) == l.times[c] = 0 /\ \A r \in w : r.cmd # c

\* What c was to bring about is the case.
IsDone(c, l) ==
  (c \in Effects => l.times[c] = 1) /\ (c \in Archives => Target[c] \notin l.live)

Sound(c, a, w, l) ==
  /\ Counted(c, a.id, a.sends, w, l)
  /\ ~a.open /\ a.pc \in Asking \cup {"idle", "ready", "ignored"} => Clear(c, w, l)
  /\ ~a.open /\ a.pc = "sent" =>
       l.times[c] = 0 /\ \A r \in w : r.cmd = c => r.nr = a.sends
  /\ a.pc = "ignored" => ~a.open
  /\ a.pc = "applied" => IsDone(c, l)

SInv == TypeOK /\ \A c \in Commands : Sound(c, app[c], work, ledger)

\* The ways in which a caller takes an error.
Takes(c, a, b, e) ==
  /\ b \in Caller /\ b.sends = a.sends
  /\ \/ AlreadyDone(c, e) /\ b.pc = "applied" /\ b.id = a.id /\ b.open = a.open
     \/ /\ b.pc \in Asking \cup {"ready", "thrown"} /\ b.open
        /\ b.id = a.id \/ (c \notin Effects /\ b.id = a.id + 1)
     \/ b.pc = "thrown" /\ b.id = a.id /\ b.open = a.open
     \/ /\ isRetriableSubmit(e) /\ ~isIndeterminateSubmit(e) /\ ~a.open
        /\ b.pc \in Asking \cup {"ready", "thrown"} /\ ~b.open
        /\ b.id = a.id \/ b.id = a.id + 1
     \/ /\ isConfirmedPermanentReject(e) /\ ~a.open
        /\ b.pc = "ignored" /\ ~b.open /\ b.id = a.id

\* Caught does one of these, to this command's caller only.
LEMMA CaughtTakes ==
  ASSUME TypeOK, CarefulCaller, NEW c \in Commands, NEW e, Caught(c, e)
  PROVE  /\ app' \in [Commands -> Caller] /\ Takes(c, app[c], app'[c], e)
         /\ \A d \in Commands : d # c => app'[d] = app[d]
<1>1. app \in [Commands -> Caller] /\ app[c] \in Caller /\ Careful
  BY DEF TypeOK, CarefulCaller
<1>2. ASSUME NEW id \in Nat, NEW open \in BOOLEAN, Retry(c, id, open)
      PROVE  /\ app' \in [Commands -> Caller]
             /\ \A d \in Commands : d # c => app'[d] = app[d]
             /\ app'[c].pc \in Asking \cup {"ready", "thrown"}
             /\ app'[c].id = id /\ app'[c].open = open /\ app'[c].sends = app[c].sends
  <2>1. Restart(c) \in Asking \cup {"ready"}
    BY DEF Restart, Asking
  <2> DEFINE pc == IF app[c].sends < MaxSends[c] THEN Restart(c) ELSE "thrown"
  <2>2. pc \in Asking \cup {"ready", "thrown"}
    BY <2>1
  <2>3. app' = [app EXCEPT ![c] = [@ EXCEPT !.pc = pc, !.id = id, !.open = open]]
    BY <1>2 DEF Retry
  <2> HIDE DEF pc
  <2>4. QED
    BY <1>1, <2>2, <2>3 DEF Caller
<1>3. ASSUME NEW pc \in {"applied", "ignored", "thrown"}, Ends(c, pc)
      PROVE  /\ app' \in [Commands -> Caller]
             /\ \A d \in Commands : d # c => app'[d] = app[d]
             /\ app'[c].pc = pc /\ app'[c].id = app[c].id /\ app'[c].open = app[c].open
             /\ app'[c].sends = app[c].sends
  BY <1>1, <1>3 DEF Ends, Caller
<1>4. app[c].id \in Nat /\ app[c].id + 1 \in Nat /\ app[c].open \in BOOLEAN
  BY <1>1 DEF Caller
<1>5. ASSUME KeepsTheId(c)
      PROVE  /\ app' \in [Commands -> Caller] /\ Takes(c, app[c], app'[c], e)
             /\ \A d \in Commands : d # c => app'[d] = app[d]
  <2>1. CASE Retry(c, app[c].id, TRUE)
    BY <2>1, <1>2, <1>4 DEF Takes
  <2>2. CASE c \in Archives /\ Retry(c, app[c].id + 1, TRUE)
    BY <2>2, <1>2, <1>4, SubmissionsAssumption DEF Takes
  <2>3. CASE Ends(c, "thrown")
    BY <2>3, <1>3 DEF Takes
  <2>4. QED
    BY <1>5, <2>1, <2>2, <2>3 DEF KeepsTheId
<1>6. CASE AlreadyDone(c, e) /\ Ends(c, "applied")
  BY <1>6, <1>3 DEF Takes
<1>7. CASE KeepsTheId(c)
  BY <1>5, <1>7
<1>8. CASE isRetriableSubmit(e) /\ ~isIndeterminateSubmit(e) /\ Again(c)
  <2>1. CASE app[c].open
    BY <1>1, <1>5, <1>8, <2>1 DEF Again
  <2>2. CASE ~app[c].open
    <3>1. app[c].open = FALSE
      BY <1>4, <2>2
    <3>2. Retry(c, app[c].id + 1, FALSE) \/ Retry(c, app[c].id, FALSE)
      BY <1>8, <3>1 DEF Again
    <3>3. QED
      BY <1>2, <1>4, <1>8, <3>1, <3>2 DEF Takes
  <2>3. QED
    BY <2>1, <2>2
<1>9. CASE isConfirmedPermanentReject(e) /\ ~app[c].open /\ Ends(c, "ignored")
  BY <1>3, <1>4, <1>9 DEF Takes
<1>10. CASE Ends(c, "thrown")
  BY <1>3, <1>10 DEF Takes
<1>11. QED
  BY <1>1, <1>6, <1>7, <1>8, <1>9, <1>10 DEF Caught

\* If "already done" was true, and whoever may forget the id has a clear field,
\* the command stays sound.
LEMMA TakesSound ==
  ASSUME NEW c \in Commands, NEW a \in Caller, NEW b, NEW e, NEW w, NEW l,
         Takes(c, a, b, e), Counted(c, a.id, a.sends, w, l),
         w \subseteq Request, l.times[c] \in Nat,
         AlreadyDone(c, e) => IsDone(c, l),
         ~a.open /\ (isConfirmedPermanentReject(e)
                     \/ (isRetriableSubmit(e) /\ ~isIndeterminateSubmit(e))) => Clear(c, w, l)
  PROVE  Sound(c, b, w, l)
<1>1. b \in Caller /\ b.sends = a.sends /\ a.id \in Nat /\ a.sends \in Nat
  BY DEF Takes, Caller
<1>2. ASSUME c \notin Effects
      PROVE  Counted(c, a.id + 1, a.sends, w, l)
  <2>0. \A r \in w : r.id \in Nat
    BY DEF Request
  <2>1. \A r \in w : r.cmd = c => r.id <= a.id + 1
    <3>1. \A r \in w : r.cmd = c => r.id <= a.id
      BY DEF Counted
    <3>2. QED
      BY <1>1, <2>0, <3>1
  <2>2. /\ \A r, q \in w : r.cmd = c /\ q.cmd = c =>
             /\ r.nr = q.nr => r = q
             /\ r.id = q.id /\ r.st = "accepted" /\ q.st = "accepted" => r = q
        /\ \A r \in w : r.cmd = c =>
             r.nr <= a.sends /\ (r.st = "accepted" => <<c, r.id>> \notin l.done)
    BY DEF Counted
  <2>3. /\ \A i \in Nat : <<c, i>> \in l.done => (c \in Archives => Target[c] \notin l.live)
        /\ c \in Archives => l.times[c] = 0 \/ (l.times[c] = 1 /\ Target[c] \notin l.live)
    BY DEF Counted
  <2>4. QED
    BY <1>2, <2>1, <2>2, <2>3, Zenon DEF Counted
<1>3. ASSUME Clear(c, w, l)
      PROVE  Counted(c, a.id + 1, a.sends, w, l)
  <2>1. c \in Effects => \A i \in Nat : <<c, i>> \notin l.done
    BY <1>1, <1>3 DEF Clear, Counted
  <2>2. QED
    BY <1>1, <1>2, <1>3, <2>1 DEF Clear, Counted
<1>4. CASE AlreadyDone(c, e) /\ b.pc = "applied" /\ b.id = a.id /\ b.open = a.open
  BY <1>1, <1>4 DEF Sound, Asking
<1>5. CASE /\ b.pc \in Asking \cup {"ready", "thrown"} /\ b.open
           /\ b.id = a.id \/ (c \notin Effects /\ b.id = a.id + 1)
  <2>1. Counted(c, b.id, b.sends, w, l)
    BY <1>1, <1>2, <1>5
  <2>2. QED
    BY <1>5, <2>1 DEF Sound, Asking
<1>6. CASE b.pc = "thrown" /\ b.id = a.id
  BY <1>1, <1>6 DEF Sound, Asking
<1>7. CASE /\ isRetriableSubmit(e) /\ ~isIndeterminateSubmit(e) /\ ~a.open
           /\ b.pc \in Asking \cup {"ready", "thrown"} /\ ~b.open
           /\ b.id = a.id \/ b.id = a.id + 1
  BY <1>1, <1>3, <1>7 DEF Sound, Asking
<1>8. CASE /\ isConfirmedPermanentReject(e) /\ ~a.open
           /\ b.pc = "ignored" /\ ~b.open /\ b.id = a.id
  BY <1>1, <1>8 DEF Sound, Asking
<1>9. QED
  BY <1>4, <1>5, <1>6, <1>7, <1>8 DEF Takes

\* A command is not disturbed by what others do, nor by losing requests.
LEMMA OthersSound ==
  ASSUME NEW c \in Commands, NEW a \in Caller, NEW w, NEW l, NEW w2, NEW l2,
         Sound(c, a, w, l),
         \A r \in w2 : r.cmd = c => r \in w,
         l2.times[c] = l.times[c], l2.live \subseteq l.live,
         \A i \in Nat : <<c, i>> \in l2.done <=> <<c, i>> \in l.done,
         w2 \subseteq Request
  PROVE  Sound(c, a, w2, l2)
<1>1. a.id \in Nat /\ \A r \in w2 : r.id \in Nat
  BY DEF Caller, Request
<1>2. Counted(c, a.id, a.sends, w2, l2)
  <2>1. \A r \in w2 : r.cmd = c =>
          /\ r.id <= a.id /\ r.nr <= a.sends
          /\ r.st = "accepted" => <<c, r.id>> \notin l2.done
          /\ c \in Effects => r.id = a.id
    BY <1>1 DEF Sound, Counted
  <2>2. \A r, q \in w2 : r.cmd = c /\ q.cmd = c =>
          /\ r.nr = q.nr => r = q
          /\ r.id = q.id /\ r.st = "accepted" /\ q.st = "accepted" => r = q
    BY DEF Sound, Counted
  <2>3. \A i \in Nat : <<c, i>> \in l2.done =>
          /\ c \in Effects => i = a.id
          /\ c \in Archives => Target[c] \notin l2.live
    BY DEF Sound, Counted
  <2>4. /\ c \in Archives => l2.times[c] = 0 \/ (l2.times[c] = 1 /\ Target[c] \notin l2.live)
        /\ c \in Effects => l2.times[c] = IF <<c, a.id>> \in l2.done THEN 1 ELSE 0
    BY <1>1 DEF Sound, Counted
  <2>5. QED
    BY <2>1, <2>2, <2>3, <2>4 DEF Counted
<1>3. /\ Clear(c, w, l) => Clear(c, w2, l2)
      /\ IsDone(c, l) => IsDone(c, l2)
  BY DEF Clear, IsDone
<1>4. QED
  BY <1>2, <1>3 DEF Sound

\* The invariant's parts, for one command.
LEMMA SInvParts ==
  ASSUME SInv, NEW c \in Commands
  PROVE  /\ TypeOK /\ app \in [Commands -> Caller] /\ app[c] \in Caller
         /\ work \subseteq Request /\ ledger.times[c] \in Nat
         /\ Sound(c, app[c], work, ledger)
         /\ Counted(c, app[c].id, app[c].sends, work, ledger)
BY DEF SInv, TypeOK, Sound

\* In an initial state nothing has been sent.
LEMMA InitSInv == Init => SInv
<1> SUFFICES ASSUME Init PROVE SInv
  OBVIOUS
<1>1. TypeOK
  <2>1. app \in [Commands -> Caller]
    BY DEF Init, Caller
  <2>2. work \subseteq Request /\ IsFiniteSet(work)
    BY FS_EmptySet DEF Init
  <2>3. ledger \in [done : SUBSET (Commands \X Nat), times : [Commands -> Nat],
                    live : SUBSET Contracts]
    <3>1. [c \in Commands |-> 0] \in [Commands -> Nat]
      OBVIOUS
    <3>2. {} \in SUBSET (Commands \X Nat) /\ Contracts \in SUBSET Contracts
      OBVIOUS
    <3>3. QED
      BY <3>1, <3>2, Zenon DEF Init
  <2>4. round \in Nat /\ scan \in [v1 : BOOLEAN, missing : BOOLEAN, faults : Nat]
    <3>1. round = 1 /\ scan \in [v1 : BOOLEAN, missing : {FALSE}, faults : {0}]
      BY DEF Init
    <3>2. {FALSE} \subseteq BOOLEAN /\ {0} \subseteq Nat /\ 1 \in Nat
      OBVIOUS
    <3>3. [v1 : BOOLEAN, missing : {FALSE}, faults : {0}]
            \subseteq [v1 : BOOLEAN, missing : BOOLEAN, faults : Nat]
      BY <3>2
    <3>4. QED
      BY <3>1, <3>2, <3>3
  <2>5. QED
    BY <2>1, <2>2, <2>3, <2>4 DEF TypeOK
<1>2. ASSUME NEW c \in Commands PROVE Sound(c, app[c], work, ledger)
  BY DEF Init, Sound, Counted, Clear
<1>3. QED
  BY <1>1, <1>2 DEF SInv

\* A caller that has nothing under way goes on asking, or is ready to send.
LEMMA MovesSound ==
  ASSUME SInv, NEW c \in Commands, NEW b \in Caller,
         app' = [app EXCEPT ![c] = b], UNCHANGED <<work, ledger>>, UNCHANGED round,
         scan' \in [v1 : BOOLEAN, missing : BOOLEAN, faults : Nat],
         app[c].pc \in Asking \cup {"idle"}, b.pc \in Asking \cup {"ready"},
         b.id = app[c].id, b.sends = app[c].sends, b.open = app[c].open
  PROVE  SInv'
<1>1. TypeOK'
  BY DEF SInv, TypeOK
<1>2. ASSUME NEW d \in Commands PROVE Sound(d, app'[d], work', ledger')
  <2>1. CASE d = c
    <3>1. app'[c] = b
      BY DEF SInv, TypeOK
    <3>2. Sound(c, app[c], work, ledger)
      BY DEF SInv
    <3>3. Sound(c, b, work, ledger)
      BY <3>2 DEF Sound, Asking
    <3>4. QED
      BY <2>1, <3>1, <3>3
  <2>2. CASE d # c
    BY <2>2, SInvParts
  <2>3. QED
    BY <2>1, <2>2
<1>3. QED
  BY <1>1, <1>2 DEF SInv

\* A call begins; the mining round is read; an endpoint turns out to be missing.
LEMMA AskingSound ==
  ASSUME SInv, NEW c \in Commands, Begin(c) \/ RoundRead(c) \/ EndpointMissing(c)
  PROVE  SInv'
<1>1. app \in [Commands -> Caller] /\ app[c] \in Caller /\ round \in Nat
      /\ scan \in [v1 : BOOLEAN, missing : BOOLEAN, faults : Nat]
  BY DEF SInv, TypeOK
<1>2. CASE Begin(c)
  <2>1. Restart(c) \in Asking \cup {"ready"}
    BY DEF Restart, Asking
  <2>2. /\ app[c].pc = "idle" /\ app' = [app EXCEPT ![c].pc = Restart(c)]
        /\ UNCHANGED <<work, ledger, round, scan>>
    BY <1>2 DEF Begin
  <2> DEFINE b == [app[c] EXCEPT !.pc = Restart(c)]
  <2>3. /\ b \in Caller /\ app' = [app EXCEPT ![c] = b] /\ b.pc \in Asking \cup {"ready"}
        /\ b.id = app[c].id /\ b.sends = app[c].sends /\ b.open = app[c].open
    BY <1>1, <2>1, <2>2 DEF Caller
  <2> HIDE DEF b
  <2>4. QED
    BY <1>1, <2>2, <2>3, MovesSound
<1>3. CASE RoundRead(c)
  <2>1. /\ app[c].pc \in Asking
        /\ app' = [app EXCEPT ![c] = [@ EXCEPT !.pc = "ready", !.round = round]]
        /\ UNCHANGED <<work, ledger, round, scan>>
    BY <1>3 DEF RoundRead, Asking
  <2> DEFINE b == [app[c] EXCEPT !.pc = "ready", !.round = round]
  <2>2. /\ b \in Caller /\ app' = [app EXCEPT ![c] = b] /\ b.pc = "ready"
        /\ b.id = app[c].id /\ b.sends = app[c].sends /\ b.open = app[c].open
    BY <1>1, <2>1 DEF Caller
  <2> HIDE DEF b
  <2>3. QED
    BY <1>1, <2>1, <2>2, MovesSound
<1>4. CASE EndpointMissing(c)
  <2>1. /\ app[c].pc \in Asking /\ app' = [app EXCEPT ![c].pc = "asksV0"]
        /\ scan' = [scan EXCEPT !.missing = TRUE]
        /\ UNCHANGED <<work, ledger, round>>
    BY <1>4 DEF EndpointMissing, Asking
  <2> DEFINE b == [app[c] EXCEPT !.pc = "asksV0"]
  <2>2. /\ b \in Caller /\ app' = [app EXCEPT ![c] = b] /\ b.pc \in Asking
        /\ b.id = app[c].id /\ b.sends = app[c].sends /\ b.open = app[c].open
    BY <1>1, <2>1 DEF Caller, Asking
  <2>3. scan' \in [v1 : BOOLEAN, missing : BOOLEAN, faults : Nat]
    BY <1>1, <2>1
  <2> HIDE DEF b
  <2>4. QED
    BY <2>1, <2>2, <2>3, MovesSound
<1>5. QED
  BY <1>2, <1>3, <1>4

\* An error is taken for c while requests and ledger become w2 and l2.
LEMMA CaughtSound ==
  ASSUME SInv, CarefulCaller, NEW c \in Commands, NEW e, Caught(c, e), TypeOK',
         Counted(c, app[c].id, app[c].sends, work', ledger'),
         AlreadyDone(c, e) => IsDone(c, ledger'),
         ~app[c].open /\ (isConfirmedPermanentReject(e)
              \/ (isRetriableSubmit(e) /\ ~isIndeterminateSubmit(e))) => Clear(c, work', ledger'),
         \A d \in Commands : d # c => Sound(d, app[d], work', ledger')
  PROVE  SInv'
<1>1. /\ Takes(c, app[c], app'[c], e) /\ \A d \in Commands : d # c => app'[d] = app[d]
  BY CaughtTakes DEF SInv
<1>2. app[c] \in Caller /\ work' \subseteq Request /\ ledger'.times[c] \in Nat
  BY DEF SInv, TypeOK
<1>3. Sound(c, app'[c], work', ledger')
  BY <1>1, <1>2, TakesSound
<1>4. \A d \in Commands : Sound(d, app'[d], work', ledger')
  BY <1>1, <1>3
<1>5. QED
  BY <1>4 DEF SInv

-----------------------------------------------------------------------------
(* The steps.                                                              *)

\* Scan fails, or its contract cannot be disclosed: nothing was sent by this
\* attempt.
LEMMA ScanErrorSound ==
  ASSUME SInv, CarefulCaller, NEW c \in Commands, RoundUnassigned(c) \/ ScanFails(c)
  PROVE  SInv'
<1>1. /\ app[c].pc \in Asking /\ UNCHANGED <<work, ledger, round>>
      /\ scan' \in [v1 : BOOLEAN, missing : BOOLEAN, faults : Nat]
      /\ \E e \in ScanErrors : Caught(c, e)
  <2>1. ClientError \in ScanErrors
    BY DEF ScanErrors
  <2>2. QED
    BY <2>1 DEF RoundUnassigned, ScanFails, Asking, SInv, TypeOK
<1>2. PICK e \in ScanErrors : Caught(c, e)
  BY <1>1
<1>3. ~AlreadyDone(c, e)
  BY ScanErrorsArePlain, PlainMeans DEF AlreadyDone
<1>4. app' \in [Commands -> Caller]
  BY <1>2, CaughtTakes DEF SInv
<1>5. TypeOK'
  BY <1>1, <1>4 DEF SInv, TypeOK
<1>6. /\ Counted(c, app[c].id, app[c].sends, work', ledger')
      /\ ~app[c].open => Clear(c, work', ledger')
  BY <1>1, SInvParts DEF Sound
<1>7. \A d \in Commands : d # c => Sound(d, app[d], work', ledger')
  BY <1>1 DEF SInv
<1>8. QED
  BY <1>2, <1>3, <1>5, <1>6, <1>7, CaughtSound

\* Rounds open and Scan is upgraded without a word to any caller.
LEMMA WorldSound ==
  ASSUME SInv, NewRound \/ ScanUpgraded
  PROVE  SInv'
<1>1. UNCHANGED <<app, work, ledger>>
  BY DEF NewRound, ScanUpgraded
<1>2. round' \in Nat /\ scan' \in [v1 : BOOLEAN, missing : BOOLEAN, faults : Nat]
  <2>1. round \in Nat /\ scan \in [v1 : BOOLEAN, missing : BOOLEAN, faults : Nat]
    BY DEF SInv, TypeOK
  <2>2. CASE NewRound
    BY <2>1, <2>2 DEF NewRound
  <2>3. CASE ScanUpgraded
    BY <2>1, <2>3 DEF ScanUpgraded
  <2>4. QED
    BY <2>2, <2>3
<1>3. QED
  BY <1>1, <1>2 DEF SInv, TypeOK

\* A request is sent: it has the caller's id and a number of its own.
LEMMA SendSound ==
  ASSUME SInv, NEW c \in Commands, Send(c)
  PROVE  SInv'
<1> DEFINE a == app[c]
           b == [app[c] EXCEPT !.pc = "sent", !.sends = app[c].sends + 1]
           n == [cmd |-> c, id |-> app[c].id, nr |-> app[c].sends + 1,
                 round |-> app[c].round, st |-> "travels"]
<1>1. /\ a.pc = "ready" /\ app' = [app EXCEPT ![c] = b] /\ work' = work \cup {n}
      /\ UNCHANGED <<ledger, round, scan>>
  BY DEF Send
<1>2. /\ app \in [Commands -> Caller] /\ a \in Caller /\ work \subseteq Request
      /\ IsFiniteSet(work)
  BY DEF SInv, TypeOK
<1>3. /\ b \in Caller /\ b.pc = "sent" /\ b.sends = a.sends + 1 /\ b.id = a.id
      /\ b.open = a.open /\ a.id \in Nat /\ a.sends \in Nat
  <2>1. a.id \in Nat /\ a.sends \in Nat /\ a.sends + 1 \in Nat
    BY <1>2 DEF Caller
  <2>2. b = [a EXCEPT !.pc = "sent", !.sends = a.sends + 1]
    BY <1>2 DEF Caller
  <2> HIDE DEF a, b
  <2>3. QED
    BY <1>2, <2>1, <2>2 DEF Caller
<1>4. /\ n \in Request /\ n.cmd = c /\ n.id = a.id /\ n.nr = a.sends + 1 /\ n.st = "travels"
  BY <1>2 DEF Request, Caller
<1> HIDE DEF a, b, n
<1>5. TypeOK'
  <2>1. app' \in [Commands -> Caller] /\ work' \subseteq Request
    BY <1>1, <1>2, <1>3, <1>4
  <2>2. IsFiniteSet(work')
    BY <1>1, <1>2, FS_AddElement
  <2>3. QED
    BY <1>1, <2>1, <2>2 DEF SInv, TypeOK
<1>6. Sound(c, a, work, ledger) /\ Counted(c, a.id, a.sends, work, ledger)
  BY SInvParts DEF a
<1>7. \A r \in work : r.id \in Nat /\ r.nr \in Nat
  BY <1>2 DEF Request
<1>8. Counted(c, b.id, b.sends, work', ledger')
  <2>1. \A r \in work' : r.cmd = c =>
          /\ r.id <= a.id /\ r.nr <= a.sends + 1
          /\ r.st = "accepted" => <<c, r.id>> \notin ledger.done
          /\ c \in Effects => r.id = a.id
    <3>1. ASSUME NEW r \in work, r.cmd = c
          PROVE  /\ r.id <= a.id /\ r.nr <= a.sends + 1
                 /\ r.st = "accepted" => <<c, r.id>> \notin ledger.done
                 /\ c \in Effects => r.id = a.id
      <4>1. /\ r.id <= a.id /\ r.nr <= a.sends
            /\ r.st = "accepted" => <<c, r.id>> \notin ledger.done
            /\ c \in Effects => r.id = a.id
        BY <1>6, <3>1 DEF Counted
      <4>2. QED
        BY <1>3, <1>7, <4>1
    <3>2. QED
      BY <1>1, <1>3, <1>4, <3>1
  <2>2. \A r, q \in work' : r.cmd = c /\ q.cmd = c =>
          /\ r.nr = q.nr => r = q
          /\ r.id = q.id /\ r.st = "accepted" /\ q.st = "accepted" => r = q
    <3>1. \A r \in work : r.cmd = c => r.nr # n.nr
      <4>1. \A r \in work : r.cmd = c => r.nr <= a.sends
        BY <1>6 DEF Counted
      <4>2. QED
        BY <1>3, <1>4, <1>7, <4>1
    <3>2. \A r, q \in work : r.cmd = c /\ q.cmd = c =>
            /\ r.nr = q.nr => r = q
            /\ r.id = q.id /\ r.st = "accepted" /\ q.st = "accepted" => r = q
      BY <1>6 DEF Counted
    <3>3. QED
      BY <1>1, <1>4, <3>1, <3>2
  <2>3. /\ \A i \in Nat : <<c, i>> \in ledger.done =>
             /\ c \in Effects => i = a.id
             /\ c \in Archives => Target[c] \notin ledger.live
        /\ c \in Archives => ledger.times[c] = 0
                               \/ (ledger.times[c] = 1 /\ Target[c] \notin ledger.live)
        /\ c \in Effects => ledger.times[c] = IF <<c, a.id>> \in ledger.done THEN 1 ELSE 0
    BY <1>6 DEF Counted
  <2>4. QED
    BY <1>1, <1>3, <2>1, <2>2, <2>3 DEF Counted
<1>9. ~b.open => ledger.times[c] = 0 /\ \A r \in work' : r.cmd = c => r.nr = b.sends
  <2>1. ~a.open => Clear(c, work, ledger)
    BY <1>1, <1>6 DEF Sound
  <2>2. QED
    BY <1>1, <1>3, <1>4, <2>1 DEF Clear
<1>10. Sound(c, b, work', ledger')
  BY <1>1, <1>3, <1>8, <1>9 DEF Sound, Asking
<1>11. ASSUME NEW d \in Commands, d # c
       PROVE  Sound(d, app[d], work', ledger')
  <2>1. Sound(d, app[d], work, ledger) /\ app[d] \in Caller
    BY SInvParts
  <2>2. \A r \in work' : r.cmd = d => r \in work
    BY <1>1, <1>4, <1>11
  <2>3. work' \subseteq Request /\ ledger' = ledger
    BY <1>1, <1>2, <1>4
  <2>4. QED
    BY <2>1, <2>2, <2>3, OthersSound
<1>12. app'[c] = b /\ \A d \in Commands : d # c => app'[d] = app[d]
  BY <1>1, <1>2
<1>13. QED
  BY <1>5, <1>10, <1>11, <1>12 DEF SInv

\* A request is accepted: no other of its id is, and none has committed.
LEMMA AcceptSound ==
  ASSUME SInv, NEW r \in work, Accept(r)
  PROVE  SInv'
<1> DEFINE c == r.cmd
           s == [r EXCEPT !.st = "accepted"]
<1>1. /\ r.st = "travels" /\ <<c, r.id>> \notin ledger.done
      /\ \A q \in work : q.cmd = c /\ q.id = r.id => q.st # "accepted"
      /\ work' = (work \ {r}) \cup {s} /\ UNCHANGED <<app, ledger, round, scan>>
  BY DEF Accept, Committed, InFlight
<1>2. /\ app \in [Commands -> Caller] /\ work \subseteq Request /\ r \in Request
      /\ c \in Commands /\ IsFiniteSet(work)
  BY DEF SInv, TypeOK, Request
<1>3. /\ s \in Request /\ s.cmd = c /\ s.id = r.id /\ s.nr = r.nr /\ s.st = "accepted"
  BY <1>2 DEF Request
<1> HIDE DEF c, s
<1>4. TypeOK'
  <2>1. IsFiniteSet(work')
    BY <1>1, <1>2, FS_AddElement, FS_RemoveElement
  <2>2. QED
    BY <1>1, <1>2, <1>3, <2>1 DEF SInv, TypeOK
<1>5. Sound(c, app[c], work, ledger) /\ Counted(c, app[c].id, app[c].sends, work, ledger)
  BY <1>2, SInvParts
<1>6. Counted(c, app[c].id, app[c].sends, work', ledger')
  <2>1. \A q \in work' : q.cmd = c =>
          /\ q.id <= app[c].id /\ q.nr <= app[c].sends
          /\ q.st = "accepted" => <<c, q.id>> \notin ledger.done
          /\ c \in Effects => q.id = app[c].id
    BY <1>1, <1>3, <1>5 DEF Counted, c
  <2>2. \A p, q \in work' : p.cmd = c /\ q.cmd = c =>
          /\ p.nr = q.nr => p = q
          /\ p.id = q.id /\ p.st = "accepted" /\ q.st = "accepted" => p = q
    <3>1. \A p, q \in work : p.cmd = c /\ q.cmd = c =>
            /\ p.nr = q.nr => p = q
            /\ p.id = q.id /\ p.st = "accepted" /\ q.st = "accepted" => p = q
      BY <1>5 DEF Counted
    <3>2. \A q \in work \ {r} : q.cmd = c => q.nr # s.nr
      BY <1>3, <3>1 DEF c
    <3>3. QED
      BY <1>1, <1>3, <3>1, <3>2
  <2>3. QED
    BY <1>1, <1>5, <2>1, <2>2 DEF Counted
<1>7. Sound(c, app[c], work', ledger')
  <2>1. Clear(c, work, ledger) => Clear(c, work', ledger')
    BY DEF Clear, c
  <2>2. (\A q \in work : q.cmd = c => q.nr = app[c].sends)
          => \A q \in work' : q.cmd = c => q.nr = app[c].sends
    BY <1>1, <1>3 DEF c
  <2>3. QED
    BY <1>1, <1>5, <1>6, <2>1, <2>2 DEF Sound
<1>8. ASSUME NEW d \in Commands, d # c
      PROVE  Sound(d, app[d], work', ledger')
  <2>1. Sound(d, app[d], work, ledger) /\ app[d] \in Caller
    BY SInvParts
  <2>2. \A q \in work' : q.cmd = d => q \in work
    BY <1>1, <1>3, <1>8
  <2>3. work' \subseteq Request /\ ledger' = ledger
    BY <1>1, <1>2, <1>3
  <2>4. QED
    BY <2>1, <2>2, <2>3, OthersSound
<1>9. QED
  BY <1>1, <1>4, <1>7, <1>8 DEF SInv

\* The caller waits for r, so r is the last request of its command.
LEMMA AwaitedIsLast ==
  ASSUME SInv, NEW r \in work, Awaited(r)
  PROVE  ~app[r.cmd].open => Clear(r.cmd, work \ {r}, ledger)
<1> DEFINE c == r.cmd
<1>1. c \in Commands
  BY DEF SInv, TypeOK, Request
<1>2. app[c].pc = "sent" /\ app[c].sends = r.nr
  BY DEF Awaited
<1>3. ~app[c].open => ledger.times[c] = 0 /\ \A q \in work : q.cmd = c => q.nr = r.nr
  BY <1>1, <1>2, SInvParts DEF Sound
<1>4. \A q \in work : q.cmd = c /\ q.nr = r.nr => q = r
  BY <1>1, SInvParts DEF Counted
<1>5. QED
  BY <1>3, <1>4 DEF Clear

\* Every command stays sound when a request ends without effect.
LEMMA EndedSound ==
  ASSUME SInv, NEW r \in work, NEW d \in Commands
  PROVE  Sound(d, app[d], work \ {r}, ledger)
<1>1. Sound(d, app[d], work, ledger) /\ app[d] \in Caller /\ work \subseteq Request
  BY SInvParts
<1>2. QED
  BY <1>1, OthersSound

\* A request ends with an error that tells the truth about what is done.
LEMMA FailsSound ==
  ASSUME SInv, CarefulCaller, NEW r \in work, NEW e, Fails(r, e),
         isAlreadyApplied(e) => Committed(r),
         isAlreadyArchived(e) => Committed(r) \/ ContractGone(r)
  PROVE  SInv'
<1> DEFINE c == r.cmd
<1>1. /\ work' = work \ {r} /\ UNCHANGED <<ledger, round, scan>>
      /\ IF Awaited(r) THEN Caught(c, e) ELSE UNCHANGED app
  BY DEF Fails
<1>2. /\ c \in Commands /\ r.id \in Nat /\ r \in Request
  BY DEF SInv, TypeOK, Request
<1>3. \A d \in Commands : Sound(d, app[d], work', ledger')
  BY <1>1, EndedSound
<1>4. app' \in [Commands -> Caller] => TypeOK'
  <2>1. IsFiniteSet(work \ {r})
    BY FS_RemoveElement DEF SInv, TypeOK
  <2>2. QED
    BY <1>1, <2>1 DEF SInv, TypeOK
<1>5. CASE ~Awaited(r)
  BY <1>1, <1>3, <1>4, <1>5 DEF SInv, TypeOK
<1>6. CASE Awaited(r)
  <2>1. Caught(c, e)
    BY <1>1, <1>6
  <2>2. TypeOK'
    BY <1>2, <1>4, <2>1, CaughtTakes DEF SInv
  <2>3. Counted(c, app[c].id, app[c].sends, work', ledger')
    BY <1>2, <1>3 DEF Sound
  <2>4. ~app[c].open => Clear(c, work', ledger')
    BY <1>1, <1>6, AwaitedIsLast
  <2>5. AlreadyDone(c, e) => IsDone(c, ledger')
    <3> SUFFICES ASSUME AlreadyDone(c, e) PROVE IsDone(c, ledger)
      BY <1>1
    <3>1. Counted(c, app[c].id, app[c].sends, work, ledger)
      BY <1>2, SInvParts
    <3>2. CASE c \in Archives
      <4>1. c \notin Effects /\ c \notin WithContext
        BY <3>2, SubmissionsAssumption DEF CarefulCaller
      <4>2. Committed(r) \/ ContractGone(r)
        BY <3>2 DEF AlreadyDone
      <4>3. Target[c] \notin ledger.live
        BY <1>2, <3>1, <3>2, <4>1, <4>2 DEF Committed, ContractGone, Counted
      <4>4. QED
        BY <4>1, <4>3 DEF IsDone
    <3>3. CASE c \notin Archives
      <4>1. c \in Effects /\ Committed(r)
        BY <1>2, <3>3 DEF AlreadyDone, Commands
      <4>2. <<c, r.id>> \in ledger.done
        BY <4>1 DEF Committed
      <4>3. r.id = app[c].id /\ ledger.times[c] = 1
        BY <1>2, <3>1, <4>1, <4>2 DEF Counted
      <4>4. QED
        BY <3>3, <4>3 DEF IsDone
    <3>4. QED
      BY <3>2, <3>3
  <2>6. QED
    BY <1>2, <1>3, <2>1, <2>2, <2>3, <2>4, <2>5, CaughtSound
<1>7. QED
  BY <1>5, <1>6

\* A request is turned away, or found inactive when it is confirmed.
LEMMA RefusedSound ==
  ASSUME SInv, CarefulCaller, NEW r \in work, Refuse(r) \/ Abort(r)
  PROVE  SInv'
<1>1. CASE Refuse(r)
  <2>1. PICK e \in Refusals(r) : Fails(r, e)
    BY <1>1 DEF Refuse
  <2>2. QED
    BY <2>1, RefusalsMean, FailsSound
<1>2. CASE Abort(r)
  <2> DEFINE code == "LOCAL_VERDICT_INACTIVE_CONTRACTS"
             e == Rejected(409, code, 11)
  <2>1. ContractGone(r) /\ Fails(r, e)
    BY <1>2 DEF Abort
  <2>2. e.body = [kind |-> "canton", error |-> Payload(code, 11)]
    BY RejectedIs
  <2>3. ~isAlreadyApplied(e)
    <3>1. e.body.error.code = code
      BY <2>2 DEF Payload
    <3>2. QED
      BY <3>1 DEF isAlreadyApplied
  <2> HIDE DEF e
  <2>4. QED
    BY <2>1, <2>3, FailsSound
<1>3. QED
  BY <1>1, <1>2

\* The answers that say nothing definite.
LEMMA AbandonSound ==
  ASSUME SInv, CarefulCaller, NEW r \in work, Abandon(r)
  PROVE  SInv'
<1> DEFINE c == r.cmd
<1>1. c \in Commands
  BY DEF SInv, TypeOK, Request
<1>2. PICK e : /\ Caught(c, e)
               /\ \/ e = ClientError \/ e = Rejected(504, "REQUEST_TIME_OUT", 3)
                  \/ e = LedgerApiError(503, Html)
  BY DEF Abandon, CarefulCaller
<1>3. UNCHANGED <<work, ledger, round, scan>>
  BY DEF Abandon
<1>4. /\ ~AlreadyDone(c, e) /\ ~isConfirmedPermanentReject(e)
      /\ isRetriableSubmit(e) => isIndeterminateSubmit(e)
  <2>1. CASE e = ClientError
    BY <2>1, PlainErrors, PlainMeans DEF AlreadyDone
  <2>2. CASE e = Rejected(504, "REQUEST_TIME_OUT", 3)
    BY <2>2, DeadlineMeans DEF AlreadyDone
  <2>3. CASE e = LedgerApiError(503, Html)
    BY <2>3, PlainErrors, PlainMeans DEF AlreadyDone
  <2>4. QED
    BY <1>2, <2>1, <2>2, <2>3
<1>5. TypeOK'
  <2>1. app' \in [Commands -> Caller]
    BY <1>1, <1>2, CaughtTakes DEF SInv
  <2>2. QED
    BY <1>3, <2>1 DEF SInv, TypeOK
<1>6. /\ Counted(c, app[c].id, app[c].sends, work', ledger')
      /\ \A d \in Commands : d # c => Sound(d, app[d], work', ledger')
  BY <1>1, <1>3, SInvParts
<1>7. QED
  BY <1>1, <1>2, <1>4, <1>5, <1>6, CaughtSound

\* A command commits: its id, and its contract, were still free.
LEMMA CommitSound ==
  ASSUME SInv, CarefulCaller, NEW r \in work, Commit(r)
  PROVE  SInv'
<1> DEFINE c == r.cmd
           a == app[r.cmd]
<1>1. /\ r.st = "accepted" /\ ~ContractGone(r) /\ work' = work \ {r}
      /\ ledger' = [done |-> ledger.done \cup {<<c, r.id>>},
                    times |-> [ledger.times EXCEPT ![c] = @ + 1],
                    live |-> IF c \in Archives THEN ledger.live \ {Target[c]} ELSE ledger.live]
      /\ IF Awaited(r) THEN Answered(c) ELSE UNCHANGED app
      /\ UNCHANGED <<round, scan>>
  BY DEF Commit
<1>2. /\ r \in Request /\ c \in Commands /\ r.id \in Nat /\ a \in Caller
      /\ app \in [Commands -> Caller] /\ work \subseteq Request /\ work' \subseteq Request
      /\ ledger \in [done : SUBSET (Commands \X Nat), times : [Commands -> Nat],
                     live : SUBSET Contracts]
  BY <1>1 DEF SInv, TypeOK, Request
<1>3. /\ Sound(c, a, work, ledger) /\ Counted(c, a.id, a.sends, work, ledger)
  BY <1>2, SInvParts
<1>4. /\ ledger'.done = ledger.done \cup {<<c, r.id>>}
      /\ ledger'.times = [ledger.times EXCEPT ![c] = @ + 1]
      /\ ledger'.live = IF c \in Archives THEN ledger.live \ {Target[c]} ELSE ledger.live
  BY <1>1
<1>5. app' \in [Commands -> Caller] => TypeOK'
  <2>1. IsFiniteSet(work \ {r})
    BY FS_RemoveElement DEF SInv, TypeOK
  <2>2. /\ ledger'.done \subseteq Commands \X Nat /\ ledger'.times \in [Commands -> Nat]
        /\ ledger'.live \subseteq Contracts
    BY <1>2, <1>4
  <2>3. ledger' \in [done : SUBSET (Commands \X Nat), times : [Commands -> Nat],
                     live : SUBSET Contracts]
    BY <1>1, <1>4, <2>2
  <2>4. QED
    BY <1>1, <1>2, <2>1, <2>3 DEF SInv, TypeOK
<1>6. /\ ledger.times[c] = 0 /\ ledger'.times[c] = 1
      /\ c \in Archives => Target[c] \notin ledger'.live
  <2>1. <<c, r.id>> \notin ledger.done /\ (c \in Effects => r.id = a.id)
    BY <1>1, <1>3 DEF Counted
  <2>2. c \in Archives => Target[c] \in ledger.live
    BY <1>1 DEF ContractGone
  <2>3. ledger.times[c] = 0
    BY <1>2, <1>3, <2>1, <2>2 DEF Counted, Commands
  <2>4. QED
    BY <1>2, <1>4, <2>3
<1>7. Counted(c, a.id, a.sends, work', ledger')
  <2>1. \A q \in work' : q.cmd = c =>
          /\ q.id <= a.id /\ q.nr <= a.sends
          /\ q.st = "accepted" => <<c, q.id>> \notin ledger'.done
          /\ c \in Effects => q.id = a.id
    <3>1. ASSUME NEW q \in work', q.cmd = c, q.st = "accepted"
          PROVE  <<c, q.id>> \notin ledger'.done
      <4>1. q.id # r.id
        BY <1>1, <1>3, <3>1 DEF Counted
      <4>2. <<c, q.id>> \notin ledger.done
        BY <1>1, <1>3, <3>1 DEF Counted
      <4>3. QED
        BY <1>4, <4>1, <4>2
    <3>2. \A q \in work' : q.cmd = c =>
            q.id <= a.id /\ q.nr <= a.sends /\ (c \in Effects => q.id = a.id)
      BY <1>1, <1>3 DEF Counted
    <3>3. QED
      BY <3>1, <3>2
  <2>2. \A q, p \in work' : q.cmd = c /\ p.cmd = c =>
          /\ q.nr = p.nr => q = p
          /\ q.id = p.id /\ q.st = "accepted" /\ p.st = "accepted" => q = p
    BY <1>1, <1>3 DEF Counted
  <2>3. c \in Effects => r.id = a.id
    BY <1>3 DEF Counted
  <2>4. \A i \in Nat : <<c, i>> \in ledger'.done =>
          /\ c \in Effects => i = a.id
          /\ c \in Archives => Target[c] \notin ledger'.live
    BY <1>3, <1>4, <1>6, <2>3 DEF Counted
  <2>5. c \in Effects => <<c, a.id>> \in ledger'.done
    BY <1>4, <2>3
  <2>6. QED
    BY <1>6, <2>1, <2>2, <2>4, <2>5 DEF Counted
<1>8. IsDone(c, ledger')
  BY <1>6 DEF IsDone
<1>9. ASSUME NEW d \in Commands, d # c
      PROVE  Sound(d, app[d], work', ledger')
  <2>1. Sound(d, app[d], work, ledger) /\ app[d] \in Caller
    BY SInvParts
  <2>2. /\ \A q \in work' : q.cmd = d => q \in work
        /\ ledger'.times[d] = ledger.times[d] /\ ledger'.live \subseteq ledger.live
        /\ \A i \in Nat : <<d, i>> \in ledger'.done <=> <<d, i>> \in ledger.done
    BY <1>1, <1>2, <1>4, <1>9
  <2>3. QED
    BY <1>2, <2>1, <2>2, OthersSound
<1>10. CASE ~Awaited(r)
  <2>1. app' = app
    BY <1>1, <1>10
  <2>2. ~a.open => a.pc \notin Asking \cup {"idle", "ready", "ignored", "sent"}
    <3>1. ~Clear(c, work, ledger)
      BY DEF Clear
    <3>2. a.pc = "sent" => r.nr # a.sends
      BY <1>10 DEF Awaited
    <3>3. QED
      BY <1>3, <3>1, <3>2 DEF Sound
  <2>3. Sound(c, a, work', ledger')
    BY <1>3, <1>7, <1>8, <2>2 DEF Sound
  <2>4. TypeOK'
    BY <1>2, <1>5, <2>1
  <2>5. QED
    BY <1>9, <2>1, <2>3, <2>4 DEF SInv
<1>11. CASE Awaited(r) /\ Ends(c, "applied")
  <2> DEFINE b == [a EXCEPT !.pc = "applied"]
  <2>1. /\ app' = [app EXCEPT ![c] = b] /\ b \in Caller /\ b.pc = "applied"
        /\ b.id = a.id /\ b.sends = a.sends
    BY <1>2, <1>11 DEF Ends, Caller
  <2> HIDE DEF b
  <2>2. TypeOK'
    BY <1>2, <1>5, <2>1
  <2>3. Sound(c, b, work', ledger')
    BY <1>7, <1>8, <2>1 DEF Sound, Asking
  <2>4. \A d \in Commands : Sound(d, app'[d], work', ledger')
    BY <1>2, <1>9, <2>1, <2>3
  <2>5. QED
    BY <2>2, <2>4 DEF SInv
<1>12. CASE Awaited(r) /\ Caught(c, ClientError)
  <2>1. /\ ~AlreadyDone(c, ClientError) /\ ~isConfirmedPermanentReject(ClientError)
        /\ ~isRetriableSubmit(ClientError)
    BY PlainErrors, PlainMeans DEF AlreadyDone
  <2>2. TypeOK'
    BY <1>2, <1>5, <1>12, CaughtTakes DEF SInv
  <2>3. QED
    BY <1>2, <1>7, <1>9, <1>12, <2>1, <2>2, CaughtSound
<1>13. QED
  BY <1>1, <1>10, <1>11, <1>12 DEF Answered

-----------------------------------------------------------------------------
(* What the answers are asked.                                             *)

\* What FoundIsLive asks of the commands: an archive is exercised or submitted,
\* and its transaction archives no other contract of the template, for the lookup
\* of an archive goes by the template alone.
OwnArchives ==
  \A c \in Archives :
    /\ Via[c] \in {"exercise", "submit"}
    /\ \A e \in Transaction[c] :
         e.type = "archive" /\ e.templateId = Wanted[c] => e.contractId = Target[c]

-----------------------------------------------------------------------------
(* The events of an answer.                                                *)

\* A list of all elements of a finite set holds each of them.
LEMMA ListsHoldAll ==
  ASSUME NEW S, IsFiniteSet(S), NEW events \in SetToSeqs(S)
  PROVE  /\ Cardinality(S) \in Nat
         /\ events \in [1..Cardinality(S) -> S]
         /\ \A e \in S : \E i \in 1..Cardinality(S) : events[i] = e
<1> DEFINE D == 1..Cardinality(S)
<1>1. Cardinality(S) \in Nat
  BY FS_CardinalityType
<1>2. events \in [D -> S] /\ \A i, j \in D : i # j => events[i] # events[j]
  BY DEF SetToSeqs
<1>3. events \in Injection(D, S)
  BY <1>2 DEF Injection, IsInjective
<1>4. Cardinality(D) = Cardinality(S)
  BY <1>1, FS_Interval
<1>5. events \in Surjection(D, S)
  <2> HIDE DEF D
  <2> QED
    BY <1>3, <1>4, FS_Injection
<1>6. QED
  BY <1>1, <1>2, <1>5 DEF Surjection

\* The places of a list's events are the numbers 1 to n, each taken once, and a
\* lesser node id has a lesser place.
LEMMA PlacesAre ==
  ASSUME NEW n \in Nat, NEW events, DOMAIN events = 1..n,
         \A i \in 1..n : events[i].nodeId \in Nat
  PROVE  /\ \A i \in 1..n : Place(events, i) \in 1..n
         /\ \A i, j \in 1..n : Before(events, i, j) => Place(events, i) < Place(events, j)
         /\ \A i, j \in 1..n : Place(events, i) = Place(events, j) => i = j
         /\ \A k \in 1..n : \E i \in 1..n : Place(events, i) = k
<1> DEFINE D == 1..n
           Ahead(i) == {j \in D : Before(events, j, i)}
           p == [i \in D |-> Place(events, i)]
<1>1. IsFiniteSet(D) /\ Cardinality(D) = n
  BY FS_Interval
<1>2. \A i \in D : /\ IsFiniteSet(Ahead(i)) /\ Cardinality(Ahead(i)) \in Nat
                   /\ Place(events, i) = Cardinality(Ahead(i)) + 1
  <2> TAKE i \in D
  <2>1. Ahead(i) \in SUBSET D
    OBVIOUS
  <2>2. IsFiniteSet(Ahead(i))
    <3> HIDE DEF D, Ahead
    <3> QED
      BY <1>1, <2>1, FS_Subset
  <2>3. Cardinality(Ahead(i)) \in Nat
    <3> HIDE DEF Ahead
    <3> QED
      BY <2>2, FS_CardinalityType
  <2>4. QED
    BY <2>2, <2>3 DEF Place
\* Nothing precedes itself, any two precede one way, and precedence is transitive.
<1>3. /\ \A i \in D : ~Before(events, i, i)
      /\ \A i, j \in D : i # j => Before(events, i, j) \/ Before(events, j, i)
      /\ \A i, j, k \in D : Before(events, i, j) /\ Before(events, j, k) => Before(events, i, k)
  BY DEF Before
<1>4. \A i \in D : Place(events, i) \in D
  <2> TAKE i \in D
  <2>1. Ahead(i) \in SUBSET D /\ Ahead(i) # D
    BY <1>3
  <2>2. Cardinality(Ahead(i)) <= n /\ Cardinality(Ahead(i)) # n
    <3> HIDE DEF D, Ahead
    <3> QED
      BY <1>1, <2>1, FS_Subset
  <2>3. QED
    <3> HIDE DEF Ahead
    <3> QED
      BY <1>2, <2>2
<1>5. \A i, j \in D : Before(events, i, j) => Place(events, i) < Place(events, j)
  <2> SUFFICES ASSUME NEW i \in D, NEW j \in D, Before(events, i, j)
               PROVE  Place(events, i) < Place(events, j)
    OBVIOUS
  <2>1. Ahead(i) \in SUBSET Ahead(j)
    BY <1>3
  <2>2. Ahead(i) # Ahead(j)
    BY <1>3
  <2>3. Cardinality(Ahead(i)) <= Cardinality(Ahead(j)) /\ Cardinality(Ahead(i)) # Cardinality(Ahead(j))
    <3>1. IsFiniteSet(Ahead(j))
      BY <1>2
    <3> HIDE DEF D, Ahead
    <3> QED
      BY <3>1, <2>1, <2>2, FS_Subset
  <2>4. QED
    <3> HIDE DEF Ahead
    <3> QED
      BY <1>2, <2>3
<1>6. \A i, j \in D : Place(events, i) = Place(events, j) => i = j
  <2> SUFFICES ASSUME NEW i \in D, NEW j \in D, i # j
               PROVE  Place(events, i) # Place(events, j)
    OBVIOUS
  <2>1. Place(events, i) < Place(events, j) \/ Place(events, j) < Place(events, i)
    BY <1>3, <1>5
  <2>2. Place(events, i) \in Nat /\ Place(events, j) \in Nat
    BY <1>4
  <2>3. QED
    BY <2>1, <2>2
<1>7. p \in Injection(D, D)
  BY <1>4, <1>6 DEF Injection, IsInjective
<1>8. p \in Surjection(D, D)
  <2> HIDE DEF D, p
  <2> QED
    BY <1>1, <1>7, FS_Injection
<1>9. \A k \in D : \E i \in D : Place(events, i) = k
  BY <1>8 DEF Surjection
<1>10. QED
  BY <1>4, <1>5, <1>6, <1>9

\* Sorting keeps the events and puts them in the order of their node ids.
LEMMA SortIs ==
  ASSUME NEW n \in Nat, NEW events, DOMAIN events = 1..n,
         \A i \in 1..n : events[i].nodeId \in Nat,
         NEW sorted, sorted = sortEventsByNodeId(events)
  PROVE  /\ DOMAIN sorted = 1..n
         /\ \A k \in 1..n : \E i \in 1..n : sorted[k] = events[i]
         /\ \A i \in 1..n : \E k \in 1..n : sorted[k] = events[i]
         /\ \A k, l \in 1..n : k <= l => sorted[k].nodeId <= sorted[l].nodeId
<1> DEFINE At(k) == CHOOSE i \in 1..n : Place(events, i) = k
<1>1. /\ DOMAIN sorted = 1..n
      /\ \A k \in 1..n : sorted[k] = events[At(k)]
  BY DEF sortEventsByNodeId
<1>2. \A k \in 1..n : At(k) \in 1..n /\ Place(events, At(k)) = k
  BY PlacesAre
<1>3. \A i \in 1..n : Place(events, i) \in 1..n /\ At(Place(events, i)) = i
  BY <1>2, PlacesAre
<1>4. ASSUME NEW k \in 1..n, NEW l \in 1..n, k <= l
      PROVE  sorted[k].nodeId <= sorted[l].nodeId
  <2> DEFINE a == At(k)
             b == At(l)
  <2>1. a \in 1..n /\ b \in 1..n /\ Place(events, a) = k /\ Place(events, b) = l
    BY <1>2
  <2>2. sorted[k] = events[a] /\ sorted[l] = events[b]
    BY <1>1
  <2> HIDE DEF a, b
  <2>3. ~Before(events, b, a)
    <3>1. Before(events, b, a) => Place(events, b) < Place(events, a)
      BY <2>1, PlacesAre
    <3>2. QED
      BY <2>1, <3>1, <1>4
  <2>4. QED
    BY <2>1, <2>2, <2>3 DEF Before
<1> HIDE DEF At
<1>5. QED
  BY <1>1, <1>2, <1>3, <1>4

\* A non-empty set of numbers has a least one.
LEMMA LeastNumber ==
  ASSUME NEW T \in SUBSET Nat, T # {}
  PROVE  Min(T) \in T /\ \A j \in T : Min(T) <= j
<1> DEFINE R == OpToRel(<, Nat)
<1>1. IsWellFoundedOn(R, Nat)
  BY NatLessThanWellFounded
<1>2. PICK x \in T : \A y \in T : <<y, x>> \notin R
  <2> HIDE DEF R
  <2> QED
    BY <1>1, WFMin
<1>3. \A y \in T : ~(y < x)
  BY <1>2 DEF OpToRel
<1>4. \E m \in T : \A y \in T : m <= y
  BY <1>3
<1>5. QED
  BY <1>4 DEF Min

\* First finds the first match, or there is none.
LEMMA FirstIs ==
  ASSUME NEW events, NEW found \in SUBSET Nat, First(events, found) # NoEvent
  PROVE  \E i \in found : First(events, found) = events[i] /\ \A j \in found : i <= j
<1>1. found # {}
  BY DEF First
<1>2. First(events, found) = events[Min(found)]
  BY <1>1 DEF First
<1>3. QED
  BY <1>1, <1>2, LeastNumber

-----------------------------------------------------------------------------
(* The answers.                                                            *)

\* What FoundIsLive says of the event e that command c is answered with.
Live(c, e) ==
  /\ e \in Transaction[c]
  /\ c \in Archives => e.type = "archive" /\ e.contractId = Target[c]
  /\ c \in Effects /\ Via[c] \in {"exercise", "submit"} =>
       /\ \A a \in Transaction[c] : a.type = "archive" => a.contractId # e.contractId
       /\ \A b \in Transaction[c] :
            b.type = "create" /\ b.templateId = Wanted[c] /\ b.nodeId < e.nodeId =>
              \E a \in Transaction[c] : a.type = "archive" /\ a.contractId = b.contractId

\* list has the n events of S, in the order of their node ids.
InOrder(list, n, S) ==
  /\ n \in Nat /\ DOMAIN list = 1..n
  /\ \A k \in 1..n : list[k] \in S
  /\ \A e \in S : e.nodeId \in Nat /\ \E k \in 1..n : list[k] = e
  /\ \A k, l \in 1..n : k <= l => list[k].nodeId <= list[l].nodeId

\* A create that is looked up in the sorted events is the first live one.
LEMMA CreatedIsLive ==
  ASSUME NEW n, NEW S, NEW sorted, InOrder(sorted, n, S),
         NEW t, NEW e, e = lookupCreatedEvent(sorted, t), e # NoEvent
  PROVE  /\ e \in S
         /\ \A a \in S : a.type = "archive" => a.contractId # e.contractId
         /\ \A b \in S : b.type = "create" /\ b.templateId = t /\ b.nodeId < e.nodeId =>
              \E a \in S : a.type = "archive" /\ a.contractId = b.contractId
<1> DEFINE found == lookupCreatedEvents(sorted, t)
<1>1. /\ found \in SUBSET Nat
      /\ \A i \in found : i \in 1..n /\ sorted[i].contractId \notin archivedContractIds(sorted)
      /\ \A i \in 1..n : sorted[i].type = "create" /\ sorted[i].templateId = t =>
           i \in found \/ sorted[i].contractId \in archivedContractIds(sorted)
  BY DEF lookupCreatedEvents, OfTemplate, InOrder
<1>2. e = First(sorted, found)
  BY DEF lookupCreatedEvent
<1> HIDE DEF found
<1>3. PICK i \in found : e = sorted[i] /\ \A j \in found : i <= j
  BY <1>1, <1>2, FirstIs
<1>4. \A x : x \in archivedContractIds(sorted) <=>
             \E a \in S : a.type = "archive" /\ a.contractId = x
  <2>1. /\ \A k \in DOMAIN sorted : sorted[k] \in S
        /\ \A a \in S : \E k \in DOMAIN sorted : sorted[k] = a
    BY DEF InOrder
  <2>2. QED
    BY <2>1 DEF archivedContractIds
<1>5. e \in S /\ \A a \in S : a.type = "archive" => a.contractId # e.contractId
  BY <1>1, <1>3, <1>4 DEF InOrder
<1>6. ASSUME NEW b \in S, b.type = "create", b.templateId = t, b.nodeId < e.nodeId
      PROVE  b.contractId \in archivedContractIds(sorted)
  <2>1. PICK k \in 1..n : sorted[k] = b
    BY DEF InOrder
  <2>2. ~(i <= k)
    <3>1. b.nodeId \in Nat /\ e.nodeId \in Nat /\ ~(e.nodeId <= b.nodeId)
      BY <1>5, <1>6 DEF InOrder
    <3>2. i \in 1..n
      BY <1>1
    <3>3. QED
      BY <1>3, <2>1, <3>1, <3>2 DEF InOrder
  <2>3. k \notin found
    BY <1>3, <2>2
  <2>4. QED
    BY <1>1, <1>6, <2>1, <2>3
<1>7. QED
  BY <1>4, <1>5, <1>6

\* Whatever order the events come in, the answer is the live event.
LEMMA AnswerIsLive ==
  ASSUME OwnArchives, NEW c \in Commands, NEW events \in SetToSeqs(Transaction[c]),
         NEW e, e = Answer(c, events), e # NoEvent
  PROVE  Live(c, e)
<1> DEFINE S == Transaction[c]
           n == Cardinality(S)
           sorted == sortEventsByNodeId(events)
<1>1. IsFiniteSet(S) /\ \A x \in S : x.nodeId \in Nat
  BY SubmissionsAssumption
<1>2. n \in Nat /\ events \in [1..n -> S] /\ \A x \in S : \E i \in 1..n : events[i] = x
  BY <1>1, ListsHoldAll
<1>3. c \notin Archives \/ c \notin Effects
  BY SubmissionsAssumption
<1>4. InOrder(sorted, n, S)
  <2> HIDE DEF n, sorted, S
  <2>1. DOMAIN events = 1..n /\ \A i \in 1..n : events[i] \in S /\ events[i].nodeId \in Nat
    BY <1>1, <1>2
  <2>2. /\ DOMAIN sorted = 1..n
        /\ \A k \in 1..n : \E i \in 1..n : sorted[k] = events[i]
        /\ \A i \in 1..n : \E k \in 1..n : sorted[k] = events[i]
        /\ \A k, l \in 1..n : k <= l => sorted[k].nodeId <= sorted[l].nodeId
    BY <1>2, <2>1, SortIs DEF sorted
  <2>3. QED
    BY <1>1, <1>2, <2>1, <2>2 DEF InOrder
<1> HIDE DEF n, sorted, S
\* Any of the searches finds an event of the transaction.
<1>5. \A list, found : /\ DOMAIN list = 1..n /\ (\A k \in 1..n : list[k] \in S)
                       /\ found \subseteq 1..n /\ First(list, found) # NoEvent
        => \E k \in found : First(list, found) = list[k] /\ list[k] \in S
  BY <1>2, FirstIs
<1>6. CASE Via[c] = "create"
  <2>1. e \in S
    BY <1>2, <1>5, <1>6 DEF Answer, TheCreated, OfTemplate
  <2>2. c \notin Archives
    BY <1>6 DEF OwnArchives
  <2>3. QED
    BY <1>6, <2>1, <2>2 DEF Live, S
<1>7. CASE Via[c] = "exerciseResult"
  <2>1. e \in S
    BY <1>2, <1>5, <1>7 DEF Answer, decodeExerciseResult
  <2>2. c \notin Archives
    BY <1>7 DEF OwnArchives
  <2>3. QED
    BY <1>7, <2>1, <2>2 DEF Live, S
<1>8. CASE Via[c] \in {"exercise", "submit"} /\ c \in Effects
  <2>1. e = lookupCreatedEvent(sorted, Wanted[c])
    BY <1>8 DEF Answer, sorted
  <2>2. /\ e \in S
        /\ \A a \in S : a.type = "archive" => a.contractId # e.contractId
        /\ \A b \in S : b.type = "create" /\ b.templateId = Wanted[c] /\ b.nodeId < e.nodeId =>
             \E a \in S : a.type = "archive" /\ a.contractId = b.contractId
    BY <1>4, <2>1, CreatedIsLive
  <2>3. QED
    BY <1>3, <1>8, <2>2 DEF Live, S
<1>9. CASE Via[c] \in {"exercise", "submit"} /\ c \in Archives
  <2>1. e = First(sorted, OfTemplate(sorted, "archive", Wanted[c]))
    BY <1>3, <1>9 DEF Answer, sorted, lookupArchivedEvent
  <2>2. PICK k \in OfTemplate(sorted, "archive", Wanted[c]) : e = sorted[k] /\ sorted[k] \in S
    <3>1. /\ DOMAIN sorted = 1..n /\ \A j \in 1..n : sorted[j] \in S
          /\ OfTemplate(sorted, "archive", Wanted[c]) \subseteq 1..n
      BY <1>4 DEF OfTemplate, InOrder
    <3>2. QED
      BY <1>5, <2>1, <3>1
  <2>3. e \in S /\ e.type = "archive" /\ e.templateId = Wanted[c]
    BY <2>2 DEF OfTemplate
  <2>4. e.contractId = Target[c]
    BY <1>9, <2>3 DEF OwnArchives, S
  <2>5. QED
    BY <1>3, <1>9, <2>3, <2>4 DEF Live, S
<1>10. QED
  BY <1>6, <1>7, <1>8, <1>9, SubmissionsAssumption DEF Commands, Methods

-----------------------------------------------------------------------------
(* The theorems.                                                           *)

\* The invariant holds of every behaviour.
THEOREM Invariance == ASSUME CarefulCaller PROVE Spec => []SInv
<1>1. Init => SInv
  BY InitSInv
<1>2. SInv /\ [Next]_vars => SInv'
  <2> SUFFICES ASSUME SInv, [Next]_vars PROVE SInv'
    OBVIOUS
  <2>1. ASSUME NEW c \in Commands, Submitting(c) PROVE SInv'
    BY <2>1, AskingSound, ScanErrorSound, SendSound DEF Submitting
  <2>2. ASSUME NEW r \in work, Processing(r) PROVE SInv'
    BY <2>2, RefusedSound, AcceptSound, CommitSound, AbandonSound DEF Processing
  <2>3. CASE NewRound \/ ScanUpgraded
    BY <2>3, WorldSound
  <2>4. CASE UNCHANGED vars
    BY <2>4 DEF vars, SInv, TypeOK
  <2>5. QED
    BY <2>1, <2>2, <2>3, <2>4 DEF Next
<1>3. QED
  BY <1>1, <1>2, PTL DEF Spec

\* The state keeps its types.
THEOREM TypeCorrect == ASSUME CarefulCaller PROVE Spec => []TypeOK
<1>1. SInv => TypeOK
  BY DEF SInv
<1>2. QED
  BY <1>1, Invariance, PTL

\* A command that is retried by the rules takes effect at most once.
THEOREM CommandsApplyOnce == ASSUME CarefulCaller PROVE Spec => []AppliedAtMostOnce
<1>1. SInv => AppliedAtMostOnce
  <2> SUFFICES ASSUME SInv, NEW c \in Commands PROVE ledger.times[c] <= 1
    BY DEF AppliedAtMostOnce
  <2>1. Counted(c, app[c].id, app[c].sends, work, ledger)
    BY SInvParts
  <2>2. QED
    BY <2>1 DEF Counted, Commands
<1>2. QED
  BY <1>1, Invariance, PTL

\* What the caller reports of its commands is so.
THEOREM ReportsTell == ASSUME CarefulCaller PROVE Spec => []ReportsAreTrue
<1>1. SInv => ReportsAreTrue
  <2> SUFFICES ASSUME SInv, NEW c \in Commands
               PROVE  /\ app[c].pc = "applied" /\ c \in Effects => ledger.times[c] = 1
                      /\ app[c].pc = "applied" /\ c \in Archives => Target[c] \notin ledger.live
                      /\ app[c].pc = "ignored" => ledger.times[c] = 0 /\ \A r \in work : r.cmd # c
    BY DEF ReportsAreTrue
  <2>1. Sound(c, app[c], work, ledger)
    BY SInvParts
  <2>2. QED
    BY <2>1 DEF Sound, IsDone, Clear
<1>2. QED
  BY <1>1, Invariance, PTL

\* However the participant orders the events, what the caller looks up is made
\* by its command and outlives the transaction.
THEOREM FoundIsAlwaysLive == ASSUME OwnArchives PROVE Spec => []FoundIsLive
<1> DEFINE GInv == got = [c \in Commands |-> got[c]] /\ \A c \in Commands : got[c] # NoEvent => Live(c, got[c])
<1>1. Init => GInv
  BY DEF Init
<1>2. GInv /\ [Next]_vars => GInv'
  <2> SUFFICES ASSUME GInv, [Next]_vars PROVE GInv'
    OBVIOUS
  <2>1. CASE UNCHANGED got
    BY <2>1 DEF Live
  <2>2. ASSUME NEW r \in work, Commit(r), ~UNCHANGED got PROVE GInv'
    <3>1. PICK events \in SetToSeqs(Transaction[r.cmd]) :
            got' = [got EXCEPT ![r.cmd] = Answer(r.cmd, events)]
      BY <2>2 DEF Commit, Answered
    <3>2. r.cmd \in Commands
      BY <2>2, <3>1
    <3>3. Answer(r.cmd, events) # NoEvent => Live(r.cmd, Answer(r.cmd, events))
      BY <3>2, AnswerIsLive
    <3>4. QED
      BY <3>1, <3>2, <3>3 DEF Live
  <2>3. UNCHANGED got \/ \E r \in work : Commit(r)
    BY DEF Next, vars, Submitting, Processing, Begin, Send, RoundRead, RoundUnassigned,
           EndpointMissing, ScanFails, Refuse, Accept, Abort, Abandon, Fails, NewRound,
           ScanUpgraded
  <2>4. QED
    BY <2>1, <2>2, <2>3
<1>3. GInv => FoundIsLive
  BY DEF Live, FoundIsLive
<1>4. QED
  BY <1>1, <1>2, <1>3, PTL DEF Spec
=============================================================================
