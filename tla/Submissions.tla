----------------------------- MODULE Submissions -----------------------------
(***************************************************************************)
(* Commands that must take effect once, submitted over a connection that   *)
(* loses answers: Ledger.create, exercise, exerciseResult and submit       *)
(* (ledger.ts), the HTTP clients (client.ts of ledger and scan), and a     *)
(* caller that acts on their errors as ledger/README.md documents it.      *)
(*                                                                         *)
(* A command may need a contract that Scan discloses: the mining round in  *)
(* the DSO information, which Scan serves at /v1/dso or, before its        *)
(* upgrade, at /v0/dso only.  The participant deduplicates by command id;  *)
(* a request may outlive the answer that said 503 or deadline.             *)
(***************************************************************************)
EXTENDS SubmitErrors, TransactionEvents, FiniteSets, SequencesExt

CONSTANTS
  Effects,       \* commands that could take effect twice
  Archives,      \* commands that archive a contract
  Target,        \* the contract each of them archives
  Via,           \* the method each command is given to
  WithContext,   \* commands that need the mining round
  Transaction,   \* the events of each command's transaction
  Wanted,        \* the template the caller looks for in them
  LostStatuses,  \* statuses that answer a request which may still be under way
  Careful,       \* the caller remembers that an attempt may be under way
  MaxSends,      \* bound: requests for each command
  MaxRounds,     \* bound: mining rounds
  MaxFaults      \* bound: failures of Scan

Commands == Effects \cup Archives
Methods == {"create", "exercise", "exerciseResult", "submit"}
Contracts == {Target[c] : c \in Archives}

ASSUME SubmissionsAssumption ==
  /\ Effects \cap Archives = {} /\ WithContext \subseteq Commands
  /\ DOMAIN Target = Archives
  /\ Via \in [Commands -> Methods]
  /\ MaxSends \in [Commands -> Nat] /\ MaxRounds \in Nat /\ MaxFaults \in Nat
  /\ Careful \in BOOLEAN
  /\ LostStatuses \subseteq Int
  /\ DOMAIN Transaction = Commands
  /\ \A c \in Commands : IsFiniteSet(Transaction[c]) /\ \A e \in Transaction[c] : e.nodeId \in Nat

VARIABLES
  app,      \* the caller, per command: see Caller
  work,     \* requests that travel to the participant or are accepted by it
  ledger,   \* [done: committed ids, times: commits per command, live: contracts]
  round,    \* the open mining round
  scan,     \* [v1: /v1/dso is served, missing: it is in missingEndpoints, faults]
  got       \* the event that each command's answer was looked up for

vars == <<app, work, ledger, round, scan, got>>

\* id is the number of the command id in use, open that an attempt with an
\* unknown outcome may be under way, sends the requests so far.
Asking == {"asksV1", "asksV0"}
Caller == [pc : Asking \cup {"idle", "ready", "sent", "applied", "ignored", "thrown"},
           id : Nat, open : BOOLEAN, sends : Nat, round : Nat]
Request == [cmd : Commands, id : Nat, nr : Nat, round : Nat, st : {"travels", "accepted"}]

Init ==
  /\ app = [c \in Commands |-> [pc |-> "idle", id |-> 0, open |-> FALSE, sends |-> 0,
                                round |-> 0]]
  /\ work = {} /\ round = 1
  /\ ledger = [done |-> {}, times |-> [c \in Commands |-> 0], live |-> Contracts]
  /\ scan \in [v1 : BOOLEAN, missing : {FALSE}, faults : {0}]
  /\ got = [c \in Commands |-> NoEvent]

-----------------------------------------------------------------------------
(* The caller's catch.                                                     *)

\* create, exercise and exerciseResult make a fresh id each; submit takes one.
CanKeepId(c) == Via[c] = "submit"

\* getOrFallback: where the next request for the mining round goes.
Restart(c) ==
  IF c \notin WithContext THEN "ready" ELSE IF scan.missing THEN "asksV0" ELSE "asksV1"

\* Another attempt, with the same id or a fresh one; after MaxSends it gives up.
Retry(c, id, open) ==
  app' = [app EXCEPT ![c] =
    [@ EXCEPT !.pc = IF app[c].sends < MaxSends[c] THEN Restart(c) ELSE "thrown",
              !.id = id, !.open = open]]

Ends(c, pc) == app' = [app EXCEPT ![c].pc = pc]

AlreadyDone(c, e) == IF c \in Archives THEN isAlreadyArchived(e) ELSE isAlreadyApplied(e)

\* A command whose effect could come twice is not sent under another id.
KeepsTheId(c) ==
  \/ CanKeepId(c) /\ Retry(c, app[c].id, TRUE)
  \/ ~CanKeepId(c) /\ c \in Archives /\ Retry(c, app[c].id + 1, TRUE)
  \/ ~CanKeepId(c) /\ c \in Effects /\ Ends(c, "thrown")

Again(c) ==
  IF Careful /\ app[c].open THEN KeepsTheId(c)
  ELSE Retry(c, app[c].id + 1, app[c].open) \/ (CanKeepId(c) /\ Retry(c, app[c].id, app[c].open))

\* The order of the tests is that of the README's example.
Caught(c, e) ==
  CASE AlreadyDone(c, e) -> Ends(c, "applied")
    [] ~AlreadyDone(c, e) /\ isIndeterminateSubmit(e) -> KeepsTheId(c)
    [] ~AlreadyDone(c, e) /\ ~isIndeterminateSubmit(e) /\ isRetriableSubmit(e) -> Again(c)
    [] OTHER ->
         Ends(c, IF isConfirmedPermanentReject(e) /\ ~(Careful /\ app[c].open)
                 THEN "ignored" ELSE "thrown")

-----------------------------------------------------------------------------
(* The mining round (scan/src/client.ts, disclosure.ts).                   *)

Begin(c) ==
  /\ app[c].pc = "idle"
  /\ app' = [app EXCEPT ![c].pc = Restart(c)]
  /\ UNCHANGED <<work, ledger, round, scan, got>>

\* What Scan has of a contract: the contract unless it is cached, its domain
\* unless it is unassigned, and the blob; TRUE is "present".
Scanned == [contract : BOOLEAN, domain_id : BOOLEAN, created_event_blob : BOOLEAN]

disclosedContractFromWire(w) == w.createdEventBlob /\ w.synchronizerId

disclosedContractFromScan(s) ==
  /\ s.contract /\ s.domain_id
  /\ disclosedContractFromWire([createdEventBlob |-> s.created_event_blob,
                                synchronizerId |-> s.domain_id])

RoundRead(c) ==
  /\ app[c].pc = "asksV0" \/ (app[c].pc = "asksV1" /\ scan.v1)
  /\ \E s \in Scanned : disclosedContractFromScan(s)
  /\ app' = [app EXCEPT ![c] = [@ EXCEPT !.pc = "ready", !.round = round]]
  /\ UNCHANGED <<work, ledger, round, scan, got>>

\* The contract cannot be disclosed: the conversion throws.
RoundUnassigned(c) ==
  /\ app[c].pc = "asksV0" \/ (app[c].pc = "asksV1" /\ scan.v1)
  /\ \E s \in Scanned : ~disclosedContractFromScan(s)
  /\ Caught(c, ClientError)
  /\ UNCHANGED <<work, ledger, round, scan, got>>

EndpointMissing(c) ==
  /\ app[c].pc = "asksV1" /\ ~scan.v1
  /\ app' = [app EXCEPT ![c].pc = "asksV0"]
  /\ scan' = [scan EXCEPT !.missing = TRUE]
  /\ UNCHANGED <<work, ledger, round, got>>

ScanErrors ==
  {ScanApiError(503, Html), ScanApiError(500, Blank), ScanApiError(429, Json(NoPayload)),
   ScanApiError(403, Html), ClientError}

ScanFails(c) ==
  /\ app[c].pc \in Asking /\ scan.faults < MaxFaults
  /\ \E e \in ScanErrors : Caught(c, e)
  /\ scan' = [scan EXCEPT !.faults = @ + 1]
  /\ UNCHANGED <<work, ledger, round, got>>

ScanUpgraded ==
  /\ ~scan.v1
  /\ scan' = [scan EXCEPT !.v1 = TRUE]
  /\ UNCHANGED <<app, work, ledger, round, got>>

NewRound ==
  /\ round < MaxRounds
  /\ round' = round + 1
  /\ UNCHANGED <<app, work, ledger, scan, got>>

-----------------------------------------------------------------------------
(* The request.                                                            *)

Send(c) ==
  /\ app[c].pc = "ready" /\ app[c].sends < MaxSends[c]
  /\ app' = [app EXCEPT ![c] = [@ EXCEPT !.pc = "sent", !.sends = app[c].sends + 1]]
  /\ work' = work \cup {[cmd |-> c, id |-> app[c].id, nr |-> app[c].sends + 1,
                         round |-> app[c].round, st |-> "travels"]}
  /\ UNCHANGED <<ledger, round, scan, got>>

\* The caller still waits for the answer to request r.
Awaited(r) == app[r.cmd].pc = "sent" /\ app[r.cmd].sends = r.nr

\* r ends with error e, which reaches the caller if it still waits.
Fails(r, e) ==
  /\ work' = work \ {r}
  /\ IF Awaited(r) THEN Caught(r.cmd, e) ELSE UNCHANGED app
  /\ UNCHANGED <<ledger, round, scan, got>>

InFlight(r) == \E q \in work : q.cmd = r.cmd /\ q.id = r.id /\ q.st = "accepted"
Committed(r) == <<r.cmd, r.id>> \in ledger.done
ContractGone(r) ==
  \/ r.cmd \in Archives /\ Target[r.cmd] \notin ledger.live
  \/ r.cmd \in WithContext /\ r.round # round

Rejected(status, code, category) == LedgerApiError(status, Json(Payload(code, category)))

\* The errors of a request that is turned away for good.
Refusals(r) ==
  IF Committed(r) THEN {Rejected(409, "DUPLICATE_COMMAND", 10)}
  ELSE IF InFlight(r) THEN {Rejected(409, "SUBMISSION_ALREADY_IN_FLIGHT", 2)}
  ELSE {Rejected(403, "PERMISSION_DENIED", 7), Rejected(409, "LOCAL_VERDICT_LOCKED_CONTRACTS", 2),
        Rejected(429, "PARTICIPANT_BACKPRESSURE", 2), LedgerApiError(403, Html)}
       \cup IF ContractGone(r) THEN {Rejected(404, "CONTRACT_NOT_FOUND", 11)} ELSE {}

Refuse(r) == r.st = "travels" /\ \E e \in Refusals(r) : Fails(r, e)

Accept(r) ==
  /\ r.st = "travels" /\ ~Committed(r) /\ ~InFlight(r)
  /\ work' = (work \ {r}) \cup {[r EXCEPT !.st = "accepted"]}
  /\ UNCHANGED <<app, ledger, round, scan, got>>

Abort(r) ==
  /\ r.st = "accepted" /\ ContractGone(r)
  /\ Fails(r, Rejected(409, "LOCAL_VERDICT_INACTIVE_CONTRACTS", 11))

\* What the method answers of the transaction with these events, and whether it
\* throws instead.
Answer(c, events) ==
  CASE Via[c] = "create" -> TheCreated(events, Wanted[c])
    [] Via[c] = "exerciseResult" -> decodeExerciseResult(events, "Effect", c)
    [] Via[c] \in {"exercise", "submit"} /\ c \in Effects ->
         lookupCreatedEvent(sortEventsByNodeId(events), Wanted[c])
    [] OTHER -> lookupArchivedEvent(sortEventsByNodeId(events), Wanted[c])

Undecodable(c, events) ==
  IF Via[c] \in {"create", "exerciseResult"} THEN Answer(c, events) = NoEvent
  ELSE \E i \in DOMAIN events : events[i].type = "exercised"

\* The 200 with the transaction: it is decoded, or the client throws.
Answered(c) ==
  \/ /\ Ends(c, "applied")
     /\ \E events \in SetToSeqs(Transaction[c]) :
          ~Undecodable(c, events) /\ got' = [got EXCEPT ![c] = Answer(c, events)]
  \/ Caught(c, ClientError) /\ UNCHANGED got

Commit(r) ==
  /\ r.st = "accepted" /\ ~ContractGone(r)
  /\ ledger' = [done |-> ledger.done \cup {<<r.cmd, r.id>>},
                times |-> [ledger.times EXCEPT ![r.cmd] = @ + 1],
                live |-> IF r.cmd \in Archives THEN ledger.live \ {Target[r.cmd]} ELSE ledger.live]
  /\ work' = work \ {r}
  /\ IF Awaited(r) THEN Answered(r.cmd) ELSE UNCHANGED <<app, got>>
  /\ UNCHANGED <<round, scan>>

\* The caller is told nothing definite: the connection breaks, the participant
\* gives up waiting, or something before it does.
Abandon(r) ==
  /\ Awaited(r)
  /\ \E e \in {ClientError, Rejected(504, "REQUEST_TIME_OUT", 3)}
              \cup {LedgerApiError(s, Html) : s \in LostStatuses} : Caught(r.cmd, e)
  /\ UNCHANGED <<work, ledger, round, scan, got>>

Submitting(c) ==
  \/ Begin(c) \/ Send(c)
  \/ RoundRead(c) \/ RoundUnassigned(c) \/ EndpointMissing(c) \/ ScanFails(c)

Processing(r) == Refuse(r) \/ Accept(r) \/ Commit(r) \/ Abort(r) \/ Abandon(r)

Next ==
  \/ \E c \in Commands : Submitting(c)
  \/ \E r \in work : Processing(r)
  \/ NewRound \/ ScanUpgraded

Spec == Init /\ [][Next]_vars

-----------------------------------------------------------------------------
(* Properties.                                                             *)

TypeOK ==
  /\ app \in [Commands -> Caller]
  /\ work \subseteq Request /\ IsFiniteSet(work)
  /\ ledger \in [done : SUBSET (Commands \X Nat), times : [Commands -> Nat], live : SUBSET Contracts]
  /\ round \in Nat
  /\ scan \in [v1 : BOOLEAN, missing : BOOLEAN, faults : Nat]

\* However answers are lost and requests delayed, no command takes effect twice:
\* isIndeterminateSubmit tells its caller when to keep the command id.
AppliedAtMostOnce == \A c \in Commands : ledger.times[c] <= 1

\* A command reported as applied has taken effect, an archive has left no
\* contract, and one marked as ignored after a confirmed permanent reject has
\* not and will not take effect.
ReportsAreTrue ==
  \A c \in Commands :
    /\ app[c].pc = "applied" /\ c \in Effects => ledger.times[c] = 1
    /\ app[c].pc = "applied" /\ c \in Archives => Target[c] \notin ledger.live
    /\ app[c].pc = "ignored" => ledger.times[c] = 0 /\ \A r \in work : r.cmd # c

\* In whatever order the participant lists the events, the contract that the
\* caller looks up was made by its command and outlives the transaction, and is
\* the first such contract in the transaction tree ("Live-contract filtering").
FoundIsLive ==
  \A c \in Commands : got[c] # NoEvent =>
    /\ got[c] \in Transaction[c]
    /\ c \in Archives => got[c].type = "archive" /\ got[c].contractId = Target[c]
    /\ c \in Effects /\ Via[c] \in {"exercise", "submit"} =>
         /\ \A e \in Transaction[c] : e.type = "archive" => e.contractId # got[c].contractId
         /\ \A e \in Transaction[c] :
              e.type = "create" /\ e.templateId = Wanted[c] /\ e.nodeId < got[c].nodeId =>
                \E a \in Transaction[c] : a.type = "archive" /\ a.contractId = e.contractId
=============================================================================
