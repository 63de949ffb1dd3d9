----------------------------- MODULE ReadProofs -----------------------------
(***************************************************************************)
(* Theorems about LedgerEndCache, for any number of readers and submits and *)
(* any bounds, and about HistoryReads, for every history, page size and    *)
(* limit.                                                                  *)
(*                                                                         *)
(* Calls is what the calls in progress must know for the invariants of     *)
(* LedgerEndCache to be inductive: what a request was answered lies between *)
(* the writes seen when it was made and the participant's ledger end.  RInv is *)
(* what the reader of HistoryReads carries from one request to the next: it *)
(* stands for the contracts that were active at the offset it asked at, and *)
(* for the updates up to where its page ends.                              *)
(***************************************************************************)
EXTENDS LedgerEndCache, HistoryReads, FiniteSetTheorems, WellFoundedInduction, TLAPS

-----------------------------------------------------------------------------
(* LedgerEndCache.                                                         *)

Calls ==
  /\ \A c \in Readers :
       /\ reads[c].pc \in Leading \cup {"joined", "resolved"} =>
            reads[c].base <= end /\ reads[c].since <= now
       /\ reads[c].pc \in {"answered", "settled", "resolved"} /\ reads[c].offset # Failed =>
            reads[c].base <= reads[c].offset /\ reads[c].offset <= end
       /\ reads[c].pc = "joined" =>
            \E l \in Readers : reads[c].leader = l /\ reads[c].base = reads[l].base
                               /\ reads[c].since = reads[l].since
                               /\ reads[l].pc \in {"asked", "answered"}
  /\ \A s \in Submitters : submits[s].pc = "committed" =>
       submits[s].offset \in Nat /\ submits[s].offset <= end

CInv == TypeOK /\ OneRequestInFlight /\ CacheCoversOwnWrites /\ Calls

\* In an initial state no request is in flight and nothing is seen.
LEMMA InitCInv == Init => CInv
<1> SUFFICES ASSUME Init PROVE CInv
  OBVIOUS
<1>1. TypeOK
  <2>1. NoRead \in Read
    BY DEF NoRead, Read, Leading
  <2>2. cache \in [offset : Nat, timestamp : Int] /\ cache.timestamp <= now
    BY CacheAssumption DEF Init
  <2>3. submits \in [Submitters -> Submit]
    BY DEF Init, Submit
  <2>4. QED
    BY <2>1, <2>2, <2>3 DEF Init, TypeOK
<1>2. OneRequestInFlight
  BY CacheAssumption DEF Init, OneRequestInFlight, NoRead, Leading
<1>3. CacheCoversOwnWrites /\ Calls
  BY CacheAssumption DEF Init, CacheCoversOwnWrites, Calls, NoRead, Leading
<1>4. QED
  BY <1>1, <1>2, <1>3 DEF CInv

\* What a call copies into its record.
LEMMA CopiedValues ==
  ASSUME TypeOK
  PROVE  /\ cache.offset \in Int /\ seen \in Int /\ now \in Int /\ end \in Int
         /\ Failed \in Int /\ \A c \in Readers : reads[c] \in Read
  BY DEF TypeOK, Failed

\* A call that has not been made is well formed.
LEMMA NoReadType == NoRead \in Read
  BY DEF NoRead, Read, Leading

\* A step of one call, which others may have joined, keeps what they know.
LEMMA OwnCall ==
  ASSUME CInv, NEW c \in Readers, NEW r, reads' = [reads EXCEPT ![c] = r],
         UNCHANGED <<end, now, submits>>, r.pc # "joined",
         r.pc \in Leading \cup {"resolved"} => r.base <= end /\ r.since <= now,
         r.pc \in {"answered", "settled", "resolved"} /\ r.offset # Failed =>
           r.base <= r.offset /\ r.offset <= end,
         reads[c].pc \in {"asked", "answered"} =>
           r.pc \in {"asked", "answered"} /\ r.base = reads[c].base /\ r.since = reads[c].since
  PROVE  Calls'
<1>1. reads'[c] = r /\ \A d \in Readers : d # c => reads'[d] = reads[d]
  BY DEF CInv, TypeOK
<1>2. ASSUME NEW d \in Readers
      PROVE  /\ reads'[d].pc \in Leading \cup {"joined", "resolved"} =>
                  reads'[d].base <= end /\ reads'[d].since <= now
             /\ reads'[d].pc \in {"answered", "settled", "resolved"} /\ reads'[d].offset # Failed =>
                  reads'[d].base <= reads'[d].offset /\ reads'[d].offset <= end
  <2>1. CASE d = c
    BY <1>1, <2>1
  <2>2. CASE d # c
    BY <1>1, <2>2 DEF CInv, Calls
  <2>3. QED
    BY <2>1, <2>2
<1>3. ASSUME NEW d \in Readers, reads'[d].pc = "joined"
      PROVE  \E l \in Readers : reads'[d].leader = l /\ reads'[d].base = reads'[l].base
                                /\ reads'[d].since = reads'[l].since
                                /\ reads'[l].pc \in {"asked", "answered"}
  <2>1. d # c /\ reads'[d] = reads[d]
    BY <1>1, <1>3
  <2>2. PICK l \in Readers : reads[d].leader = l /\ reads[d].base = reads[l].base
                             /\ reads[d].since = reads[l].since
                             /\ reads[l].pc \in {"asked", "answered"}
    BY <1>3, <2>1 DEF CInv, Calls
  <2>3. CASE l = c
    BY <1>1, <2>1, <2>2, <2>3
  <2>4. CASE l # c
    BY <1>1, <2>1, <2>2, <2>4
  <2>5. QED
    BY <2>3, <2>4
<1>4. \A s \in Submitters : submits'[s].pc = "committed" =>
        submits'[s].offset \in Nat /\ submits'[s].offset <= end
  BY DEF CInv, Calls
<1>5. QED
  BY <1>2, <1>3, <1>4 DEF Calls

\* A joiner copies what its leader knows.
LEMMA JoinStep == ASSUME CInv, NEW c \in Readers, Join(c) PROVE CInv'
<1> USE DEF CInv, Leading
<1>1. TypeOK'
  <2> DEFINE r == [reads[promise] EXCEPT
                   !.pc = IF reads[promise].pc = "settled" THEN "resolved" ELSE "joined",
                   !.leader = promise, !.floor = seen]
  <2>1. r \in Read
    <3>1. promise \in Readers /\ reads[promise] \in Read
      BY CacheAssumption DEF Join, TypeOK
    <3>2. QED
      BY <3>1, CopiedValues DEF Read
  <2>2. reads' = [reads EXCEPT ![c] = r]
    BY DEF Join, TypeOK
  <2>3. reads' \in [Readers -> Read]
    BY <2>1, <2>2 DEF TypeOK
  <2>4. QED
    BY <2>3, CacheAssumption DEF Join, TypeOK
<1>2. OneRequestInFlight'
  BY CacheAssumption DEF Join, TypeOK, Read, NoRead, OneRequestInFlight
<1>3. CacheCoversOwnWrites'
  BY DEF Join, Cached, TypeOK, Read, CacheCoversOwnWrites, Calls
<1>4. Calls'
  <2>1. promise \in Readers /\ reads[promise].pc \in Leading /\ reads[promise] \in Read
    BY CacheAssumption DEF Join, OneRequestInFlight, TypeOK
  <2>2. /\ UNCHANGED <<end, now, submits>>
        /\ \A d \in Readers : d # c => reads'[d] = reads[d]
        /\ reads'[c].base = reads[promise].base /\ reads'[c].since = reads[promise].since
        /\ reads'[c].offset = reads[promise].offset /\ reads'[c].leader = promise
        /\ reads'[c].pc = IF reads[promise].pc = "settled" THEN "resolved" ELSE "joined"
        /\ promise # c
    BY <2>1 DEF Join, TypeOK, Read
  <2>3. ASSUME NEW d \in Readers
        PROVE  /\ reads'[d].pc \in Leading \cup {"joined", "resolved"} =>
                    reads'[d].base <= end' /\ reads'[d].since <= now'
               /\ reads'[d].pc \in {"answered", "settled", "resolved"}
                    /\ reads'[d].offset # Failed =>
                      reads'[d].base <= reads'[d].offset /\ reads'[d].offset <= end'
    BY <2>1, <2>2 DEF Calls
  <2>4. ASSUME NEW d \in Readers, reads'[d].pc = "joined"
        PROVE  \E l \in Readers : reads'[d].leader = l /\ reads'[d].base = reads'[l].base
                                  /\ reads'[d].since = reads'[l].since
                                  /\ reads'[l].pc \in {"asked", "answered"}
    <3>1. CASE d = c
      BY <2>1, <2>2, <2>4, <3>1
    <3>2. CASE d # c
      <4>1. PICK l \in Readers : reads[d].leader = l /\ reads[d].base = reads[l].base
                                 /\ reads[d].since = reads[l].since
                                 /\ reads[l].pc \in {"asked", "answered"}
        BY <2>2, <2>4, <3>2 DEF Calls
      <4>2. l # c
        BY <4>1 DEF Join
      <4>3. QED
        BY <2>2, <3>2, <4>1, <4>2
    <3>3. QED
      BY <3>1, <3>2
  <2>5. QED
    BY <2>2, <2>3, <2>4 DEF Calls
<1>5. QED
  BY <1>1, <1>2, <1>3, <1>4

\* A call that the cache answers starts no request.
LEMMA CachedReadStep == ASSUME CInv, NEW c \in Readers, CachedRead(c) PROVE CInv'
<1> USE DEF CInv, Leading
<1>1. TypeOK'
  <2> DEFINE r == [NoRead EXCEPT !.pc = "done", !.answer = cache.offset]
  <2>1. r \in Read
    BY NoReadType, CopiedValues DEF Read
  <2>2. reads' = [reads EXCEPT ![c] = r]
    BY DEF CachedRead, TypeOK
  <2>3. reads' \in [Readers -> Read]
    BY <2>1, <2>2 DEF TypeOK
  <2>4. QED
    BY <2>3, CacheAssumption DEF CachedRead, TypeOK
<1>2. OneRequestInFlight'
  BY CacheAssumption DEF CachedRead, TypeOK, Read, NoRead, OneRequestInFlight
<1>3. CacheCoversOwnWrites'
  BY DEF CachedRead, Cached, TypeOK, Read, CacheCoversOwnWrites, Calls
<1>4. Calls'
  <2> DEFINE r == [NoRead EXCEPT !.pc = "done", !.answer = cache.offset]
  <2>1. reads' = [reads EXCEPT ![c] = r] /\ UNCHANGED <<end, now, submits>>
    BY DEF CachedRead, TypeOK
  <2>2. r.pc = "done"
    BY NoReadType, CopiedValues DEF Read
  <2>3. reads[c].pc \notin {"asked", "answered"}
    BY DEF CachedRead
  <2> HIDE DEF r
  <2>4. QED
    BY <2>1, <2>2, <2>3, OwnCall, CopiedValues
<1>5. QED
  BY <1>1, <1>2, <1>3, <1>4

\* A new leader takes a promise nobody holds.
LEMMA LeadStep == ASSUME CInv, NEW c \in Readers, Lead(c) PROVE CInv'
<1> USE DEF CInv, Leading
<1>1. TypeOK'
  <2> DEFINE r == [NoRead EXCEPT !.pc = "asked", !.since = now, !.base = seen, !.floor = seen]
  <2>1. r \in Read
    BY NoReadType, CopiedValues DEF Read
  <2>2. reads' = [reads EXCEPT ![c] = r]
    BY DEF Lead, TypeOK
  <2>3. reads' \in [Readers -> Read]
    BY <2>1, <2>2 DEF TypeOK
  <2>4. QED
    BY <2>3, CacheAssumption DEF Lead, TypeOK
<1>2. OneRequestInFlight'
  BY CacheAssumption DEF Lead, TypeOK, Read, NoRead, OneRequestInFlight
<1>3. CacheCoversOwnWrites'
  BY DEF Lead, Cached, TypeOK, Read, CacheCoversOwnWrites, Calls
<1>4. Calls'
  <2> DEFINE r == [NoRead EXCEPT !.pc = "asked", !.since = now, !.base = seen, !.floor = seen]
  <2>1. reads' = [reads EXCEPT ![c] = r] /\ UNCHANGED <<end, now, submits>>
    BY DEF Lead, TypeOK
  <2>2. r.pc = "asked" /\ r.base = seen /\ r.since = now
    BY NoReadType, CopiedValues DEF Read
  <2>3. seen <= end /\ now <= now /\ reads[c].pc = "idle"
    BY CopiedValues DEF Lead, CacheCoversOwnWrites, TypeOK
  <2> HIDE DEF r
  <2>4. /\ r.pc # "joined" /\ reads[c].pc \notin {"asked", "answered"}
        /\ r.base <= end /\ r.since <= now
        /\ r.pc \notin {"answered", "settled", "resolved"}
    BY <2>2, <2>3
  <2>5. QED
    BY <2>1, <2>4, OwnCall
<1>5. QED
  BY <1>1, <1>2, <1>3, <1>4

\* The participant's answer is its ledger end.
LEMMA ParticipantReadsStep == ASSUME CInv, NEW c \in Readers, ParticipantReads(c) PROVE CInv'
<1> USE DEF CInv, Leading
<1>1. TypeOK'
  <2> DEFINE r == [reads[c] EXCEPT !.pc = "answered", !.offset = end]
  <2>1. r \in Read
    BY CopiedValues DEF Read
  <2>2. reads' = [reads EXCEPT ![c] = r]
    BY DEF ParticipantReads, TypeOK
  <2>3. reads' \in [Readers -> Read]
    BY <2>1, <2>2 DEF TypeOK
  <2>4. QED
    BY <2>3, CacheAssumption DEF ParticipantReads, TypeOK
<1>2. OneRequestInFlight'
  BY CacheAssumption DEF ParticipantReads, TypeOK, Read, NoRead, OneRequestInFlight
<1>3. CacheCoversOwnWrites'
  BY DEF ParticipantReads, Cached, TypeOK, Read, CacheCoversOwnWrites, Calls
<1>4. Calls'
  <2> DEFINE r == [reads[c] EXCEPT !.pc = "answered", !.offset = end]
  <2>1. reads' = [reads EXCEPT ![c] = r] /\ UNCHANGED <<end, now, submits>>
    BY DEF ParticipantReads, TypeOK
  <2>2. r.pc = "answered" /\ r.base = reads[c].base /\ r.since = reads[c].since /\ r.offset = end
    BY NoReadType, CopiedValues DEF Read
  <2>3. reads[c].base <= end /\ reads[c].since <= now /\ end <= end
    BY CopiedValues DEF ParticipantReads, Calls
  <2> HIDE DEF r
  <2>4. QED
    BY <2>1, <2>2, <2>3, OwnCall, CopiedValues
<1>5. QED
  BY <1>1, <1>2, <1>3, <1>4

\* A response resolves the leader and all who joined it.
LEMMA ResponseArrivesStep == ASSUME CInv, NEW c \in Readers, ResponseArrives(c) PROVE CInv'
<1> USE DEF CInv, Leading
<1>1. TypeOK'
  <2>1. ASSUME NEW d \in Readers PROVE reads'[d] \in Read
    BY CopiedValues DEF ResponseArrives, Settle, Read
  <2>2. reads' \in [Readers -> Read]
    BY <2>1 DEF ResponseArrives, Settle
  <2>3. QED
    BY <2>2 DEF ResponseArrives, TypeOK
<1>2. OneRequestInFlight'
  BY CacheAssumption DEF ResponseArrives, TypeOK, Read, NoRead, OneRequestInFlight, Settle
<1>3. CacheCoversOwnWrites'
  BY DEF ResponseArrives, Cached, TypeOK, Read, CacheCoversOwnWrites, Calls
<1>4. Calls'
  <2>1. UNCHANGED <<end, now, submits>> /\ reads' = [d \in Readers |-> reads'[d]]
    BY DEF ResponseArrives, Settle
  <2>2. ASSUME NEW d \in Readers
        PROVE  /\ reads'[d].base = reads[d].base /\ reads'[d].since = reads[d].since
               /\ reads'[d].leader = reads[d].leader
               /\ \/ reads'[d] = reads[d] /\ d # c /\ ~(reads[d].pc = "joined" /\ reads[d].leader = c)
                  \/ d = c /\ reads'[d].pc = "settled" /\ reads'[d].offset = reads[c].offset
                  \/ reads[d].pc = "joined" /\ reads[d].leader = c
                     /\ reads'[d].pc = "resolved" /\ reads'[d].offset = reads[c].offset
    BY DEF ResponseArrives, Settle, TypeOK, Read
  <2>3. ASSUME NEW d \in Readers, reads[d].pc = "joined", reads[d].leader = c
        PROVE  reads[d].base = reads[c].base /\ reads[d].since = reads[c].since
    BY <2>3 DEF Calls
  <2>4. ASSUME NEW d \in Readers
        PROVE  /\ reads'[d].pc \in Leading \cup {"joined", "resolved"} =>
                    reads'[d].base <= end' /\ reads'[d].since <= now'
               /\ reads'[d].pc \in {"answered", "settled", "resolved"}
                    /\ reads'[d].offset # Failed =>
                      reads'[d].base <= reads'[d].offset /\ reads'[d].offset <= end'
    BY <2>1, <2>2, <2>3 DEF ResponseArrives, Calls, Leading
  <2>5. ASSUME NEW d \in Readers, reads'[d].pc = "joined"
        PROVE  \E l \in Readers : reads'[d].leader = l /\ reads'[d].base = reads'[l].base
                                  /\ reads'[d].since = reads'[l].since
                                  /\ reads'[l].pc \in {"asked", "answered"}
    <3>1. reads'[d] = reads[d] /\ reads[d].pc = "joined" /\ reads[d].leader # c
      BY <2>2, <2>5
    <3>2. PICK l \in Readers : reads[d].leader = l /\ reads[d].base = reads[l].base
                              /\ reads[d].since = reads[l].since
                              /\ reads[l].pc \in {"asked", "answered"}
      BY <3>1 DEF Calls
    <3>3. reads'[l] = reads[l]
      BY <2>2, <3>1, <3>2
    <3>4. QED
      BY <3>1, <3>2, <3>3
  <2>6. QED
    BY <2>1, <2>4, <2>5 DEF Calls
<1>5. QED
  BY <1>1, <1>2, <1>3, <1>4

\* A failure resolves the same calls, with no offset.
LEMMA RequestFailsStep == ASSUME CInv, NEW c \in Readers, RequestFails(c) PROVE CInv'
<1> USE DEF CInv, Leading
<1>1. TypeOK'
  <2>1. ASSUME NEW d \in Readers PROVE reads'[d] \in Read
    BY CopiedValues DEF RequestFails, Settle, Read
  <2>2. reads' \in [Readers -> Read]
    BY <2>1 DEF RequestFails, Settle
  <2>3. QED
    BY <2>2 DEF RequestFails, TypeOK
<1>2. OneRequestInFlight'
  BY CacheAssumption DEF RequestFails, TypeOK, Read, NoRead, OneRequestInFlight, Settle
<1>3. CacheCoversOwnWrites'
  BY DEF RequestFails, Cached, TypeOK, Read, CacheCoversOwnWrites, Calls
<1>4. Calls'
  <2>1. UNCHANGED <<end, now, submits>> /\ reads' = [d \in Readers |-> reads'[d]]
    BY DEF RequestFails, Settle
  <2>2. ASSUME NEW d \in Readers
        PROVE  /\ reads'[d].base = reads[d].base /\ reads'[d].since = reads[d].since
               /\ reads'[d].leader = reads[d].leader
               /\ \/ reads'[d] = reads[d] /\ d # c /\ ~(reads[d].pc = "joined" /\ reads[d].leader = c)
                  \/ d = c /\ reads'[d].pc = "settled" /\ reads'[d].offset = Failed
                  \/ reads[d].pc = "joined" /\ reads[d].leader = c
                     /\ reads'[d].pc = "resolved" /\ reads'[d].offset = Failed
    BY DEF RequestFails, Settle, TypeOK, Read
  <2>3. ASSUME NEW d \in Readers, reads[d].pc = "joined", reads[d].leader = c
        PROVE  reads[d].base = reads[c].base /\ reads[d].since = reads[c].since
    BY <2>3 DEF Calls
  <2>4. ASSUME NEW d \in Readers
        PROVE  /\ reads'[d].pc \in Leading \cup {"joined", "resolved"} =>
                    reads'[d].base <= end' /\ reads'[d].since <= now'
               /\ reads'[d].pc \in {"answered", "settled", "resolved"}
                    /\ reads'[d].offset # Failed =>
                      reads'[d].base <= reads'[d].offset /\ reads'[d].offset <= end'
    BY <2>1, <2>2, <2>3 DEF RequestFails, Calls, Leading
  <2>5. ASSUME NEW d \in Readers, reads'[d].pc = "joined"
        PROVE  \E l \in Readers : reads'[d].leader = l /\ reads'[d].base = reads'[l].base
                                  /\ reads'[d].since = reads'[l].since
                                  /\ reads'[l].pc \in {"asked", "answered"}
    <3>1. reads'[d] = reads[d] /\ reads[d].pc = "joined" /\ reads[d].leader # c
      BY <2>2, <2>5
    <3>2. PICK l \in Readers : reads[d].leader = l /\ reads[d].base = reads[l].base
                              /\ reads[d].since = reads[l].since
                              /\ reads[l].pc \in {"asked", "answered"}
      BY <3>1 DEF Calls
    <3>3. reads'[l] = reads[l]
      BY <2>2, <3>1, <3>2
    <3>4. QED
      BY <3>1, <3>2, <3>3
  <2>6. QED
    BY <2>1, <2>4, <2>5 DEF Calls
<1>5. QED
  BY <1>1, <1>2, <1>3, <1>4

\* The leader's continuation never moves the cache back, and clears its own promise.
LEMMA LeaderAnswersStep == ASSUME CInv, NEW c \in Readers, LeaderAnswers(c) PROVE CInv'
<1> USE DEF CInv, Leading
<1>1. TypeOK'
  <2>1. cache' \in [offset : Nat, timestamp : Int] /\ cache'.timestamp <= now
    BY DEF LeaderAnswers, Cached, TypeOK, Read, Calls, CacheCoversOwnWrites
  <2> DEFINE r == [reads[c] EXCEPT !.pc = "done", !.answer = cache'.offset]
  <2>2. r \in Read
    <3>1. cache'.offset \in Int
      BY <2>1
    <3>2. QED
      BY <3>1, CopiedValues DEF Read
  <2>3. reads' = [reads EXCEPT ![c] = r]
    BY DEF LeaderAnswers, TypeOK
  <2>4. reads' \in [Readers -> Read]
    BY <2>2, <2>3 DEF TypeOK
  <2>5. QED
    BY <2>1, <2>4 DEF LeaderAnswers, TypeOK
<1>2. OneRequestInFlight'
  BY CacheAssumption DEF LeaderAnswers, TypeOK, Read, NoRead, OneRequestInFlight
<1>3. CacheCoversOwnWrites'
  BY DEF LeaderAnswers, Cached, TypeOK, Read, CacheCoversOwnWrites, Calls
<1>4. Calls'
  <2> DEFINE r == [reads[c] EXCEPT !.pc = "done", !.answer = cache'.offset]
  <2>1. reads' = [reads EXCEPT ![c] = r] /\ UNCHANGED <<end, now, submits>>
    BY DEF LeaderAnswers, TypeOK
  <2>2. r.pc = "done"
    BY NoReadType, CopiedValues DEF Read
  <2>3. reads[c].pc \notin {"asked", "answered"}
    BY DEF LeaderAnswers
  <2> HIDE DEF r
  <2>4. QED
    BY <2>1, <2>2, <2>3, OwnCall, CopiedValues
<1>5. QED
  BY <1>1, <1>2, <1>3, <1>4

\* A leader that throws clears its promise too.
LEMMA LeaderThrowsStep == ASSUME CInv, NEW c \in Readers, LeaderThrows(c) PROVE CInv'
<1> USE DEF CInv, Leading
<1>1. TypeOK'
  <2> DEFINE r == [reads[c] EXCEPT !.pc = "done", !.answer = Failed]
  <2>1. r \in Read
    BY NoReadType, CopiedValues DEF Read
  <2>2. reads' = [reads EXCEPT ![c] = r]
    BY DEF LeaderThrows, TypeOK
  <2>3. reads' \in [Readers -> Read]
    BY <2>1, <2>2 DEF TypeOK
  <2>4. QED
    BY <2>3, CacheAssumption DEF LeaderThrows, TypeOK
<1>2. OneRequestInFlight'
  BY CacheAssumption DEF LeaderThrows, TypeOK, Read, NoRead, OneRequestInFlight
<1>3. CacheCoversOwnWrites'
  BY DEF LeaderThrows, Cached, TypeOK, Read, CacheCoversOwnWrites, Calls
<1>4. Calls'
  <2> DEFINE r == [reads[c] EXCEPT !.pc = "done", !.answer = Failed]
  <2>1. reads' = [reads EXCEPT ![c] = r] /\ UNCHANGED <<end, now, submits>>
    BY DEF LeaderThrows, TypeOK
  <2>2. r.pc = "done"
    BY NoReadType, CopiedValues DEF Read
  <2>3. reads[c].pc \notin {"asked", "answered"}
    BY DEF LeaderThrows
  <2> HIDE DEF r
  <2>4. QED
    BY <2>1, <2>2, <2>3, OwnCall, CopiedValues
<1>5. QED
  BY <1>1, <1>2, <1>3, <1>4

\* A joiner that returns changes only its own call.
LEMMA JoinerReturnsStep == ASSUME CInv, NEW c \in Readers, JoinerReturns(c) PROVE CInv'
<1> USE DEF CInv, Leading
<1>1. TypeOK'
  <2> DEFINE r == [reads[c] EXCEPT !.pc = "done", !.answer = reads[c].offset]
  <2>1. r \in Read
    BY NoReadType, CopiedValues DEF Read
  <2>2. reads' = [reads EXCEPT ![c] = r]
    BY DEF JoinerReturns, TypeOK
  <2>3. reads' \in [Readers -> Read]
    BY <2>1, <2>2 DEF TypeOK
  <2>4. QED
    BY <2>3, CacheAssumption DEF JoinerReturns, TypeOK
<1>2. OneRequestInFlight'
  BY CacheAssumption DEF JoinerReturns, TypeOK, Read, NoRead, OneRequestInFlight
<1>3. CacheCoversOwnWrites'
  BY DEF JoinerReturns, Cached, TypeOK, Read, CacheCoversOwnWrites, Calls
<1>4. Calls'
  <2> DEFINE r == [reads[c] EXCEPT !.pc = "done", !.answer = reads[c].offset]
  <2>1. reads' = [reads EXCEPT ![c] = r] /\ UNCHANGED <<end, now, submits>>
    BY DEF JoinerReturns, TypeOK
  <2>2. r.pc = "done"
    BY NoReadType, CopiedValues DEF Read
  <2>3. reads[c].pc \notin {"asked", "answered"}
    BY DEF JoinerReturns
  <2> HIDE DEF r
  <2>4. QED
    BY <2>1, <2>2, <2>3, OwnCall, CopiedValues
<1>5. QED
  BY <1>1, <1>2, <1>3, <1>4

\* A call that is over is not the leader of any other.
LEMMA UsedStep == ASSUME CInv, NEW c \in Readers, Used(c) PROVE CInv'
<1> USE DEF CInv, Leading
<1>1. TypeOK'
  <2> DEFINE r == NoRead
  <2>1. r \in Read
    BY NoReadType, CopiedValues DEF Read
  <2>2. reads' = [reads EXCEPT ![c] = r]
    BY DEF Used, TypeOK
  <2>3. reads' \in [Readers -> Read]
    BY <2>1, <2>2 DEF TypeOK
  <2>4. QED
    BY <2>3, CacheAssumption DEF Used, TypeOK
<1>2. OneRequestInFlight'
  BY CacheAssumption DEF Used, TypeOK, Read, NoRead, OneRequestInFlight
<1>3. CacheCoversOwnWrites'
  BY DEF Used, Cached, TypeOK, Read, CacheCoversOwnWrites, Calls
<1>4. Calls'
  BY DEF Used, TypeOK, Read, NoRead, OneRequestInFlight, CacheCoversOwnWrites, Calls, Failed
<1>5. QED
  BY <1>1, <1>2, <1>3, <1>4

-----------------------------------------------------------------------------
(* Submits and the environment leave the calls of getLedgerEnd alone.      *)

\* The steps of a submit; a response covers its own transaction.
LEMMA SubmitStep ==
  ASSUME CInv, NEW s \in Submitters,
         Send(s) \/ Commit(s) \/ SubmitReturns(s) \/ SubmitThrows(s)
  PROVE  CInv'
<1>1. /\ reads' = reads /\ promise' = promise /\ now' = now /\ endAt' = endAt
      /\ end' \in Nat /\ end <= end'
  BY DEF CInv, TypeOK, Send, Commit, SubmitReturns, SubmitThrows
<1>2. submits' \in [Submitters -> Submit]
  <2>1. submits \in [Submitters -> Submit] /\ now \in Int /\ end + 1 \in Int
    BY DEF CInv, TypeOK
  <2>2. CASE Commit(s)
    <3>1. [pc |-> "committed", offset |-> end + 1, at |-> now] \in Submit
      BY <2>1 DEF Submit
    <3>2. QED
      BY <2>1, <2>2, <3>1 DEF Commit
  <2>3. CASE Send(s) \/ SubmitReturns(s) \/ SubmitThrows(s)
    <3>1. PICK pc \in {"idle", "sent"} : submits' = [submits EXCEPT ![s].pc = pc]
      BY <2>3 DEF Send, SubmitReturns, SubmitThrows
    <3>2. QED
      BY <2>1, <3>1 DEF Submit
  <2>4. QED
    BY <2>2, <2>3
<1>3. /\ cache' \in [offset : Nat, timestamp : Int] /\ cache'.timestamp <= now
      /\ seen' \in Nat /\ CacheCoversOwnWrites'
  <2>1. CASE SubmitReturns(s)
    BY <2>1 DEF CInv, TypeOK, Submit, SubmitReturns, Cached, Later, Calls, CacheCoversOwnWrites
  <2>2. CASE ~SubmitReturns(s)
    <3>1. cache' = cache /\ seen' = seen
      BY <2>2 DEF Send, Commit, SubmitThrows
    <3>2. QED
      BY <1>1, <3>1 DEF CInv, TypeOK, CacheCoversOwnWrites
  <2>3. QED
    BY <2>1, <2>2
<1>4. \A t \in Submitters : submits'[t].pc = "committed" =>
        submits'[t].offset \in Nat /\ submits'[t].offset <= end'
  <2> SUFFICES ASSUME NEW t \in Submitters, submits'[t].pc = "committed"
               PROVE  submits'[t].offset \in Nat /\ submits'[t].offset <= end'
    OBVIOUS
  <2>1. CASE t = s
    BY <2>1 DEF CInv, TypeOK, Submit, Send, Commit, SubmitReturns, SubmitThrows
  <2>2. CASE t # s
    <3>1. submits'[t] = submits[t]
      BY <2>2 DEF CInv, TypeOK, Send, Commit, SubmitReturns, SubmitThrows
    <3>2. submits[t].offset \in Nat /\ submits[t].offset <= end /\ end \in Nat
      BY <3>1 DEF CInv, Calls, TypeOK
    <3>3. QED
      BY <1>1, <3>1, <3>2
  <2>3. QED
    BY <2>1, <2>2
<1>5. Calls'
  BY <1>1, <1>4 DEF CInv, TypeOK, Read, Calls, Leading
<1>6. TypeOK' /\ OneRequestInFlight'
  BY <1>1, <1>2, <1>3 DEF CInv, TypeOK, OneRequestInFlight
<1>7. QED
  BY <1>3, <1>5, <1>6 DEF CInv

\* Other writers only raise the ledger end, and time only passes.
LEMMA EnvironmentStep == ASSUME CInv, OtherCommit \/ Tick PROVE CInv'
<1>1. /\ UNCHANGED <<cache, promise, reads, submits, seen>>
      /\ end' \in Nat /\ end <= end' /\ now' \in Nat /\ now <= now'
  BY DEF CInv, TypeOK, OtherCommit, Tick
<1>2. endAt' \in Seq(Nat)
  <2>1. endAt \in Seq(Nat) /\ end \in Nat
    BY DEF CInv, TypeOK
  <2>2. endAt' = endAt \/ endAt' = Append(endAt, end)
    BY DEF OtherCommit, Tick
  <2>3. QED
    BY <2>1, <2>2
<1>3. TypeOK'
  BY <1>1, <1>2 DEF CInv, TypeOK
<1>4. OneRequestInFlight' /\ CacheCoversOwnWrites'
  BY <1>1 DEF CInv, TypeOK, OneRequestInFlight, CacheCoversOwnWrites
<1>5. Calls'
  BY <1>1 DEF CInv, TypeOK, Read, Calls, Leading
<1>6. QED
  BY <1>3, <1>4, <1>5 DEF CInv

\* Every step keeps the invariant.
LEMMA NextStep == ASSUME CInv, [Next]_vars PROVE CInv'
<1>1. ASSUME NEW c \in Readers,
             \/ Join(c) \/ CachedRead(c) \/ Lead(c)
             \/ ParticipantReads(c) \/ ResponseArrives(c) \/ RequestFails(c)
             \/ LeaderAnswers(c) \/ LeaderThrows(c) \/ JoinerReturns(c) \/ Used(c)
      PROVE  CInv'
  BY <1>1, JoinStep, CachedReadStep, LeadStep, ParticipantReadsStep, ResponseArrivesStep,
     RequestFailsStep, LeaderAnswersStep, LeaderThrowsStep, JoinerReturnsStep, UsedStep
<1>2. ASSUME NEW s \in Submitters,
             Send(s) \/ Commit(s) \/ SubmitReturns(s) \/ SubmitThrows(s)
      PROVE  CInv'
  BY <1>2, SubmitStep
<1>3. CASE OtherCommit \/ Tick
  BY <1>3, EnvironmentStep
<1>4. CASE UNCHANGED vars
  BY <1>4, Zenon DEF vars, CInv, TypeOK, OneRequestInFlight, CacheCoversOwnWrites, Calls
<1>5. QED
  BY <1>1, <1>2, <1>3, <1>4, Zenon DEF Next

\* The invariant holds in every reachable state.
LEMMA Inductive == Spec => []CInv
<1>1. CInv /\ [Next]_vars => CInv'
  BY NextStep
<1>2. QED
  BY InitCInv, <1>1, PTL DEF Spec

-----------------------------------------------------------------------------
(* The theorems.                                                           *)

\* The types, and no cached answer is stamped with a time still to come.
THEOREM TypeCorrect == Spec => []TypeOK
<1>1. CInv => TypeOK
  BY DEF CInv
<1>2. QED
  BY <1>1, Inductive, PTL

\* One request at a time, and the stored promise is always that request's,
\* for any number of concurrent calls and whatever fails.
THEOREM SingleRequest == Spec => []OneRequestInFlight
<1>1. CInv => OneRequestInFlight
  BY DEF CInv
<1>2. QED
  BY <1>1, Inductive, PTL

\* The cache covers every write a submit has returned and is never ahead of
\* the participant.
THEOREM CacheIsCovering == Spec => []CacheCoversOwnWrites
<1>1. CInv => CacheCoversOwnWrites
  BY DEF CInv
<1>2. QED
  BY <1>1, Inductive, PTL

\* Only three actions return an answer.
LEMMA WhoReturns ==
  ASSUME CInv, [Next]_vars, NEW c \in Readers, Returns(c)
  PROVE  CachedRead(c) \/ LeaderAnswers(c) \/ JoinerReturns(c)
<1>1. ASSUME NEW d \in Readers,
             \/ Join(d) \/ CachedRead(d) \/ Lead(d) \/ ParticipantReads(d)
             \/ LeaderAnswers(d) \/ LeaderThrows(d) \/ JoinerReturns(d) \/ Used(d)
      PROVE  d = c
  BY <1>1 DEF Returns, CInv, TypeOK, Join, CachedRead, Lead, ParticipantReads,
              LeaderAnswers, LeaderThrows, JoinerReturns, Used
<1>2. ASSUME NEW d \in Readers, ResponseArrives(d) \/ RequestFails(d) PROVE FALSE
  <2>1. PICK v : Settle(d, v)
    BY <1>2 DEF ResponseArrives, RequestFails
  <2>2. reads[c] \in Read
    BY DEF CInv, TypeOK
  <2>3. reads'[c].pc \in {"settled", "resolved"} \/ reads'[c] = reads[c]
    BY <2>1, <2>2 DEF Settle, Read
  <2>4. QED
    BY <2>3 DEF Returns
<1>3. ~Join(c)
  <2>1. SUFFICES ASSUME Join(c) PROVE reads'[c].pc # "done"
    BY DEF Returns
  <2>2. promise \in Readers /\ reads[promise] \in Read
    BY <2>1 DEF CInv, TypeOK, Join
  <2>3. reads'[c].pc = IF reads[promise].pc = "settled" THEN "resolved" ELSE "joined"
    BY <2>1, <2>2 DEF CInv, TypeOK, Join, Read
  <2>4. QED
    BY <2>3
<1>4. ~Lead(c) /\ ~ParticipantReads(c) /\ ~Used(c)
  BY DEF Returns, CInv, TypeOK, Read, NoRead, Lead, ParticipantReads, Used
<1>5. ~LeaderThrows(c)
  BY DEF Returns, CInv, TypeOK, Read, LeaderThrows
<1>6. ASSUME reads' = reads PROVE FALSE
  BY <1>6 DEF Returns
<1>7. QED
  BY <1>1, <1>2, <1>3, <1>4, <1>5, <1>6
     DEF Next, Send, Commit, SubmitReturns, SubmitThrows, OtherCommit, Tick, vars

\* A returning call covers the writes it has to, by what CInv says of its record.
LEMMA ReadsCoverStep ==
  ASSUME CInv, [Next]_vars, NEW c \in Readers, Returns(c)
  PROVE  reads'[c].answer >= IF reads[c].pc = "resolved" THEN reads[c].base ELSE seen
<1>1. CASE CachedRead(c)
  BY <1>1 DEF CachedRead, CInv, TypeOK, NoRead, CacheCoversOwnWrites
<1>2. CASE LeaderAnswers(c)
  BY <1>2 DEF LeaderAnswers, Cached, CInv, TypeOK, Read, CacheCoversOwnWrites
<1>3. CASE JoinerReturns(c)
  BY <1>3 DEF JoinerReturns, Returns, CInv, TypeOK, Read, Calls
<1>4. QED
  BY <1>1, <1>2, <1>3, WhoReturns

\* No answer misses a write seen by then, except that a call that joined a
\* request only covers the writes seen when that request was made.
THEOREM ReadsCover == Spec => ReadsCoverWrites
<1>1. CInv /\ [Next]_vars =>
        \A c \in Readers : Returns(c) =>
          reads'[c].answer >= IF reads[c].pc = "resolved" THEN reads[c].base ELSE seen
  BY ReadsCoverStep
<1>2. QED
  BY <1>1, Inductive, PTL DEF Spec, ReadsCoverWrites

-----------------------------------------------------------------------------
(* How old an answer can be.  Every offset the instance holds is at least  *)
(* the ledger end of the time it is stamped with, up to MaxLatency.        *)

History ==
  /\ Len(endAt) = now
  /\ \A t \in 1..now : endAt[t] <= end
  /\ \A t, u \in 1..now : t <= u => endAt[t] <= endAt[u]

CacheFresh == cache.offset >= EndAt(cache.timestamp - MaxLatency)

ReadsFresh ==
  \A c \in Readers :
    reads[c].pc \in {"answered", "settled", "resolved"} /\ reads[c].offset # Failed =>
      reads[c].offset >= EndAt(reads[c].since)

SubmitsFresh ==
  \A s \in Submitters : submits[s].pc = "committed" =>
    /\ submits[s].at <= now /\ now <= submits[s].at + MaxLatency
    /\ submits[s].offset >= EndAt(submits[s].at)

FInv == History /\ CacheFresh /\ ReadsFresh /\ SubmitsFresh

\* The recorded ledger ends do not fall as time passes.
LEMMA EndAtMonotone ==
  ASSUME TypeOK, History, NEW t \in Int, NEW u \in Int, t <= u, u <= now
  PROVE  EndAt(t) \in Nat /\ EndAt(u) \in Nat /\ EndAt(t) <= EndAt(u) /\ EndAt(u) <= end
<1>1. endAt \in Seq(Nat) /\ end \in Nat /\ now \in Nat /\ Len(endAt) = now
  BY DEF TypeOK, History
<1>2. \A v \in 1..now : endAt[v] \in Nat
  BY <1>1
<1>3. QED
  BY <1>1, <1>2 DEF EndAt, History

\* The past does not change.
LEMMA EndAtKept ==
  ASSUME TypeOK, History, [Next]_vars, NEW t \in Int, t <= now
  PROVE  EndAt(t)' = EndAt(t)
<1>1. endAt \in Seq(Nat) /\ end \in Nat /\ now \in Nat /\ Len(endAt) = now
  BY DEF TypeOK, History
<1>2. endAt' = endAt \/ endAt' = Append(endAt, end)
  BY DEF Next, vars, Join, CachedRead, Lead, ParticipantReads, ResponseArrives,
         RequestFails, LeaderAnswers, LeaderThrows, JoinerReturns, Used, Send, Commit,
         SubmitReturns, SubmitThrows, OtherCommit, Tick
<1>3. CASE endAt' = endAt
  BY <1>3 DEF EndAt
<1>4. CASE endAt' = Append(endAt, end)
  <2>1. t \in 1..Len(endAt) => endAt'[t] = endAt[t]
    BY <1>1, <1>4
  <2>2. QED
    BY <1>1, <2>1 DEF EndAt
<1>5. QED
  BY <1>2, <1>3, <1>4

\* Every step keeps the record of past ledger ends.
LEMMA HistoryStep == ASSUME TypeOK, History, [Next]_vars PROVE History'
<1>1. endAt \in Seq(Nat) /\ end \in Nat /\ now \in Nat /\ Len(endAt) = now
      /\ \A v \in 1..now : endAt[v] \in Nat
  BY DEF TypeOK, History
<1>2. CASE Tick
  <2>1. endAt' = Append(endAt, end) /\ now' = now + 1 /\ end' = end
    BY <1>2 DEF Tick
  <2>2. Len(endAt') = now + 1 /\ endAt'[now + 1] = end
        /\ \A v \in 1..now : endAt'[v] = endAt[v]
    BY <1>1, <2>1
  <2>3. QED
    BY <1>1, <2>1, <2>2 DEF History
<1>3. CASE ~Tick
  <2>1. endAt' = endAt /\ now' = now /\ (end' = end \/ end' = end + 1)
    BY <1>3 DEF Next, vars, Join, CachedRead, Lead, ParticipantReads, ResponseArrives,
         RequestFails, LeaderAnswers, LeaderThrows, JoinerReturns, Used, Send, Commit,
         SubmitReturns, SubmitThrows, OtherCommit
  <2>2. QED
    BY <1>1, <2>1 DEF History
<1>4. QED
  BY <1>2, <1>3

\* Every step keeps the cache as fresh as its timestamp says.
LEMMA CacheFreshStep == ASSUME CInv, FInv, [Next]_vars PROVE CacheFresh'
<1>1. /\ cache.offset \in Nat /\ cache.timestamp \in Int /\ cache.timestamp <= now
      /\ now \in Nat /\ end \in Nat /\ MaxLatency \in Nat
      /\ TypeOK /\ History
  BY CacheAssumption DEF CInv, FInv, TypeOK
<1>2. CASE cache' = cache
  <2>1. EndAt(cache.timestamp - MaxLatency)' = EndAt(cache.timestamp - MaxLatency)
    <3>1. cache.timestamp - MaxLatency \in Int /\ cache.timestamp - MaxLatency <= now
      BY <1>1
    <3>2. \A t \in Int : t <= now => (EndAt(t)' = EndAt(t))
      BY <1>1, EndAtKept
    <3>3. QED
      BY <1>2, <3>1, <3>2 DEF EndAt
  <2>2. QED
    BY <1>2, <2>1 DEF FInv, CacheFresh
<1>3. ASSUME NEW stamp \in Int, NEW offset \in Nat, stamp <= now,
             cache' = Cached(offset, stamp), offset >= EndAt(stamp - MaxLatency)
      PROVE  CacheFresh'
  <2>1. CASE cache' = cache
    BY <1>2, <2>1
  <2>2. CASE cache' = [offset |-> offset, timestamp |-> stamp]
    <3>1. \A t \in Int : t <= now => (EndAt(t)' = EndAt(t))
      BY <1>1, EndAtKept
    <3>2. stamp - MaxLatency \in Int /\ stamp - MaxLatency <= now
      BY <1>1, <1>3
    <3>3. cache'.offset = offset /\ cache'.timestamp = stamp
      BY <2>2
    <3>4. QED
      BY <1>3, <3>1, <3>2, <3>3 DEF CacheFresh, EndAt
  <2>3. QED
    BY <1>3, <2>1, <2>2 DEF Cached
<1>4. ASSUME NEW c \in Readers, LeaderAnswers(c) PROVE CacheFresh'
  <2>1. /\ reads[c].offset \in Nat /\ reads[c].since \in Int /\ reads[c].since <= now
        /\ cache' = Cached(reads[c].offset, reads[c].since)
        /\ reads[c].offset >= EndAt(reads[c].since)
    <3>1. reads[c].offset \in Int /\ reads[c].since \in Int /\ reads[c].pc = "settled"
          /\ reads[c].offset # Failed /\ cache' = Cached(reads[c].offset, reads[c].since)
      BY <1>4 DEF LeaderAnswers, CInv, TypeOK, Read
    <3>2. reads[c].since <= now /\ reads[c].offset >= EndAt(reads[c].since)
      BY <3>1 DEF CInv, Calls, Leading, FInv, ReadsFresh
    <3>3. EndAt(reads[c].since) \in Nat
      BY <1>1, <3>1, <3>2, EndAtMonotone
    <3>4. QED
      BY <3>1, <3>2, <3>3
  <2>2. /\ EndAt(reads[c].since - MaxLatency) <= EndAt(reads[c].since)
        /\ EndAt(reads[c].since) \in Nat /\ EndAt(reads[c].since - MaxLatency) \in Nat
    <3>1. reads[c].since - MaxLatency \in Int /\ reads[c].since - MaxLatency <= reads[c].since
      BY <1>1, <2>1
    <3>2. QED
      BY <1>1, <2>1, <3>1, EndAtMonotone
  <2>3. reads[c].offset >= EndAt(reads[c].since - MaxLatency)
    BY <2>1, <2>2
  <2>4. QED
    BY <1>3, <2>1, <2>3
<1>5. ASSUME NEW s \in Submitters, SubmitReturns(s) PROVE CacheFresh'
  <2>1. submits[s].pc = "committed" /\ cache' = Cached(submits[s].offset, now)
    BY <1>5 DEF SubmitReturns
  <2>2. /\ submits[s].offset \in Nat /\ submits[s].at \in Int
        /\ submits[s].at <= now /\ now <= submits[s].at + MaxLatency
        /\ submits[s].offset >= EndAt(submits[s].at)
    BY <2>1 DEF CInv, Calls, TypeOK, Submit, FInv, SubmitsFresh
  <2>3. EndAt(now - MaxLatency) <= EndAt(submits[s].at)
        /\ EndAt(now - MaxLatency) \in Nat /\ EndAt(submits[s].at) \in Nat
    <3>1. now - MaxLatency \in Int /\ now - MaxLatency <= submits[s].at
      BY <1>1, <2>2
    <3>2. QED
      BY <1>1, <2>2, <3>1, EndAtMonotone
  <2>4. submits[s].offset >= EndAt(now - MaxLatency)
    BY <2>2, <2>3
  <2>5. QED
    BY <1>1, <1>3, <2>1, <2>2, <2>4
<1>6. \/ cache' = cache \/ (\E c \in Readers : LeaderAnswers(c))
      \/ (\E s \in Submitters : SubmitReturns(s))
  BY DEF Next, vars, Join, CachedRead, Lead, ParticipantReads, ResponseArrives,
         RequestFails, LeaderThrows, JoinerReturns, Used, Send, Commit,
         SubmitThrows, OtherCommit, Tick
<1>7. QED
  BY <1>2, <1>4, <1>5, <1>6

\* Every step keeps an answer as fresh as the time of its request.
LEMMA ReadsFreshStep == ASSUME CInv, FInv, [Next]_vars PROVE ReadsFresh'
<1>1. /\ TypeOK /\ History /\ end \in Nat /\ now \in Nat
      /\ \A c \in Readers : reads[c] \in Read
  BY DEF CInv, FInv, TypeOK
<1> SUFFICES ASSUME NEW c \in Readers, reads'[c].offset # Failed,
                    reads'[c].pc \in {"answered", "settled", "resolved"}
             PROVE  reads'[c].offset >= EndAt(reads[c].since)'
  BY DEF ReadsFresh
<1>2. ASSUME NEW d \in Readers, reads[d].pc \in {"answered", "settled", "resolved"},
             reads[d].offset # Failed, reads'[c].offset = reads[d].offset,
             reads'[c].since = reads[d].since
      PROVE  reads'[c].offset >= EndAt(reads[c].since)'
  <2>1. reads[d].since \in Int /\ reads[d].since <= now
    BY <1>1, <1>2 DEF Read, CInv, Calls, Leading
  <2>2. reads'[c].offset >= EndAt(reads[c].since)'
    <3>1. \A t \in Int : t <= now => (EndAt(t)' = EndAt(t))
      BY <1>1, EndAtKept
    <3>2. EndAt(reads[c].since)' = EndAt(reads[d].since)
      BY <1>2, <2>1, <3>1 DEF EndAt
    <3>3. reads[d].offset >= EndAt(reads[d].since)
      BY <1>2 DEF FInv, ReadsFresh
    <3>4. QED
      BY <1>2, <3>2, <3>3
  <2>3. QED
    BY <1>2, <2>2
<1>3. CASE reads'[c] = reads[c]
  BY <1>2, <1>3
<1>4. CASE ParticipantReads(c)
  <2>1. reads'[c].offset = end /\ reads'[c].since = reads[c].since /\ reads[c].pc = "asked"
    BY <1>1, <1>4 DEF ParticipantReads, CInv, TypeOK, Read
  <2>2. reads[c].since \in Int /\ reads[c].since <= now
    BY <1>1, <2>1 DEF Read, CInv, Calls, Leading
  <2>3. EndAt(reads[c].since) <= end /\ EndAt(reads[c].since) \in Nat
    BY <1>1, <2>2, EndAtMonotone
  <2>4. \A t \in Int : t <= now => (EndAt(t)' = EndAt(t))
    BY <1>1, EndAtKept
  <2>5. EndAt(reads[c].since)' = EndAt(reads[c].since)
    BY <2>1, <2>2, <2>4 DEF EndAt
  <2>6. QED
    BY <1>1, <2>1, <2>3, <2>5
<1>5. CASE Join(c)
  <2>1. promise \in Readers /\ reads[promise] \in Read
    BY <1>1, <1>5, CacheAssumption DEF Join, CInv, TypeOK
  <2>2. /\ reads'[c].offset = reads[promise].offset /\ reads'[c].since = reads[promise].since
        /\ (reads'[c].pc = "resolved" => reads[promise].pc = "settled")
        /\ reads'[c].pc \in {"resolved", "joined"}
    BY <1>5, <2>1 DEF Join, CInv, TypeOK, Read
  <2>3. QED
    BY <1>2, <2>1, <2>2
<1>6. ASSUME NEW d \in Readers, ResponseArrives(d) \/ RequestFails(d)
      PROVE  reads'[c].offset >= EndAt(reads[c].since)'
  <2>1. PICK v : Settle(d, v) /\ (v = Failed \/ (v = reads[d].offset /\ reads[d].pc = "answered"))
    BY <1>6 DEF ResponseArrives, RequestFails
  <2>2. CASE c = d \/ (reads[c].pc = "joined" /\ reads[c].leader = d)
    <3>1. reads'[c].offset = v /\ reads'[c].since = reads[c].since
      BY <1>1, <2>1, <2>2 DEF Settle, Read
    <3>2. reads[c].since = reads[d].since
      BY <2>2 DEF CInv, Calls
    <3>3. QED
      BY <1>2, <2>1, <3>1, <3>2
  <2>3. CASE ~(c = d \/ (reads[c].pc = "joined" /\ reads[c].leader = d))
    <3>1. reads'[c] = reads[c]
      BY <2>1, <2>3 DEF Settle
    <3>2. QED
      BY <1>3, <3>1
  <2>4. QED
    BY <2>2, <2>3
<1>7. ASSUME NEW d \in Readers,
             \/ Join(d) \/ CachedRead(d) \/ Lead(d) \/ ParticipantReads(d)
             \/ LeaderAnswers(d) \/ LeaderThrows(d) \/ JoinerReturns(d) \/ Used(d)
      PROVE  reads'[c].offset >= EndAt(reads[c].since)'
  <2>1. CASE d # c
    <3>1. reads'[c] = reads[c]
      BY <1>7, <2>1 DEF CInv, TypeOK, Join, CachedRead, Lead, ParticipantReads,
                        LeaderAnswers, LeaderThrows, JoinerReturns, Used
    <3>2. QED
      BY <1>3, <3>1
  <2>2. CASE d = c
    <3>1. CASE CachedRead(c) \/ Lead(c) \/ LeaderAnswers(c) \/ LeaderThrows(c)
               \/ JoinerReturns(c) \/ Used(c)
      <4>1. reads \in [Readers -> Read] /\ NoRead \in Read
        BY <1>1, NoReadType DEF TypeOK
      <4>2. reads'[c].pc \in {"done", "asked", "idle"}
        <5>1. CASE CachedRead(c) \/ Lead(c) \/ Used(c)
          <6>1. CASE CachedRead(c)
            BY <4>1, <6>1 DEF Read, CachedRead
          <6>2. CASE Lead(c)
            BY <4>1, <6>2 DEF Read, Lead
          <6>3. CASE Used(c)
            BY <4>1, <6>3 DEF NoRead, Used
          <6>4. QED
            BY <5>1, <6>1, <6>2, <6>3
        <5>2. CASE LeaderAnswers(c) \/ LeaderThrows(c) \/ JoinerReturns(c)
          BY <4>1, <5>2 DEF Read, LeaderAnswers, LeaderThrows, JoinerReturns
        <5>3. QED
          BY <3>1, <5>1, <5>2
      <4>3. QED
        BY <4>2
    <3>2. QED
      BY <1>4, <1>5, <1>7, <2>2, <3>1
  <2>3. QED
    BY <2>1, <2>2
<1>8. QED
  BY <1>3, <1>6, <1>7
     DEF Next, vars, Send, Commit, SubmitReturns, SubmitThrows, OtherCommit, Tick

\* Every step keeps a committed submit within its latency.
LEMMA SubmitsFreshStep == ASSUME CInv, FInv, [Next]_vars PROVE SubmitsFresh'
<1>1. /\ TypeOK /\ History /\ end \in Nat /\ now \in Nat /\ MaxLatency \in Nat
      /\ submits \in [Submitters -> Submit]
  BY CacheAssumption DEF CInv, FInv, TypeOK
<1>2. \A t \in Int : t <= now => (EndAt(t)' = EndAt(t))
  BY <1>1, EndAtKept
<1> SUFFICES ASSUME NEW s \in Submitters, submits'[s].pc = "committed"
             PROVE  /\ submits'[s].at <= now' /\ now' <= submits'[s].at + MaxLatency
                    /\ submits'[s].offset >= EndAt(submits[s].at)'
  BY DEF SubmitsFresh
<1>3. CASE Commit(s)
  <2>1. submits'[s].offset = end + 1 /\ submits'[s].at = now /\ now' = now
    BY <1>1, <1>3 DEF Commit
  <2>2. EndAt(now) <= end /\ EndAt(now) \in Nat
    BY <1>1, EndAtMonotone
  <2>3. EndAt(submits[s].at)' = EndAt(now)
    BY <1>1, <1>2, <2>1 DEF EndAt
  <2>4. QED
    BY <1>1, <2>1, <2>2, <2>3
<1>4. CASE ~Commit(s)
  <2>1. submits'[s] = submits[s] /\ submits[s].pc = "committed"
    <3>1. submits[s] \in Submit
      BY <1>1
    <3>2. QED
      BY <1>1, <1>4, <3>1
         DEF Next, vars, Join, CachedRead, Lead, ParticipantReads, ResponseArrives,
             RequestFails, LeaderAnswers, LeaderThrows, JoinerReturns, Used, Send, Commit,
             SubmitReturns, SubmitThrows, OtherCommit, Tick, Submit
  <2>2. /\ submits[s].at <= now /\ now <= submits[s].at + MaxLatency
        /\ submits[s].offset >= EndAt(submits[s].at) /\ submits[s].at \in Int
    BY <1>1, <2>1 DEF FInv, SubmitsFresh, Submit
  <2>3. EndAt(submits[s].at)' = EndAt(submits[s].at)
    BY <1>2, <2>1, <2>2 DEF EndAt
  <2>4. now' = now \/ (now' = now + 1 /\ now < submits[s].at + MaxLatency)
    BY <2>1 DEF Next, vars, Join, CachedRead, Lead, ParticipantReads, ResponseArrives,
         RequestFails, LeaderAnswers, LeaderThrows, JoinerReturns, Used, Send, Commit,
         SubmitReturns, SubmitThrows, OtherCommit, Tick
  <2>5. QED
    BY <1>1, <2>1, <2>2, <2>3, <2>4
<1>5. QED
  BY <1>3, <1>4

\* In an initial state nothing has been recorded.
LEMMA InitFInv == Init => FInv
  BY CacheAssumption
     DEF Init, FInv, History, CacheFresh, ReadsFresh, SubmitsFresh, EndAt, NoRead

\* The freshness invariant holds in every reachable state.
LEMMA FreshInductive == Spec => []FInv
<1>1. CInv /\ FInv /\ [Next]_vars => FInv'
  <2>1. ASSUME CInv, FInv, [Next]_vars
        PROVE  History' /\ CacheFresh' /\ ReadsFresh' /\ SubmitsFresh'
    BY <2>1, HistoryStep, CacheFreshStep, ReadsFreshStep, SubmitsFreshStep DEF CInv, FInv
  <2>2. QED
    BY <2>1 DEF FInv
<1>2. QED
  BY <1>1, InitFInv, Inductive, PTL DEF Spec

\* A returning call is as fresh as the cache or the request it had.
LEMMA AnswerFreshStep ==
  ASSUME CInv, FInv, [Next]_vars, NEW c \in Readers, Returns(c)
  PROVE  reads'[c].answer >=
           IF reads[c].pc = "idle" THEN EndAt(now - MaxAge + 1 - MaxLatency)
                                   ELSE EndAt(reads[c].since)
<1>1. /\ TypeOK /\ History /\ now \in Nat /\ MaxLatency \in Nat /\ MaxAge \in Nat
      /\ cache.offset \in Nat /\ cache.timestamp \in Int /\ cache.timestamp <= now
      /\ reads[c] \in Read
  BY CacheAssumption DEF CInv, FInv, TypeOK
<1>2. CASE CachedRead(c)
  <2>1. reads'[c].answer = cache.offset /\ reads[c].pc = "idle"
        /\ now - cache.timestamp < MaxAge
    BY <1>2 DEF CachedRead, Fresh, CInv, TypeOK, NoRead
  <2>2. /\ EndAt(now - MaxAge + 1 - MaxLatency) <= EndAt(cache.timestamp - MaxLatency)
        /\ EndAt(now - MaxAge + 1 - MaxLatency) \in Nat
        /\ EndAt(cache.timestamp - MaxLatency) \in Nat
    <3>1. /\ now - MaxAge + 1 - MaxLatency \in Int /\ cache.timestamp - MaxLatency \in Int
          /\ now - MaxAge + 1 - MaxLatency <= cache.timestamp - MaxLatency
          /\ cache.timestamp - MaxLatency <= now
      BY <1>1, <2>1
    <3>2. QED
      BY <1>1, <3>1, EndAtMonotone
  <2>3. cache.offset >= EndAt(cache.timestamp - MaxLatency)
    BY DEF FInv, CacheFresh
  <2>4. QED
    BY <1>1, <2>1, <2>2, <2>3
<1>3. CASE LeaderAnswers(c)
  <2>1. /\ reads[c].pc = "settled" /\ reads[c].offset # Failed
        /\ reads'[c].answer = Cached(reads[c].offset, reads[c].since).offset
    BY <1>3 DEF LeaderAnswers, CInv, TypeOK
  <2>2. reads'[c].answer >= reads[c].offset
    BY <1>1, <2>1 DEF Cached, Read
  <2>3. reads[c].offset >= EndAt(reads[c].since) /\ reads[c].since <= now
    BY <2>1 DEF FInv, ReadsFresh, CInv, Calls, Leading
  <2>4. EndAt(reads[c].since) \in Nat
    BY <1>1, <2>3, EndAtMonotone DEF Read
  <2>5. reads'[c].answer \in Int /\ reads[c].offset \in Int
    BY <1>1, <2>1 DEF Cached, Read
  <2>6. QED
    BY <2>1, <2>2, <2>3, <2>4, <2>5
<1>4. CASE JoinerReturns(c)
  <2>1. /\ reads[c].pc = "resolved" /\ reads'[c].answer = reads[c].offset
        /\ reads[c].offset # Failed
    BY <1>4 DEF JoinerReturns, Returns, CInv, TypeOK
  <2>2. QED
    BY <2>1 DEF FInv, ReadsFresh
<1>5. QED
  BY <1>2, <1>3, <1>4, WhoReturns

\* An answer is never staler than the second the cache allows and the time a
\* submit's response took; one asked of the participant is from the time of
\* the request or later: for any number of callers, writers and clock ticks.
THEOREM AnswersFresh == Spec => AnswersAreFresh
<1>1. CInv /\ FInv /\ [Next]_vars =>
        \A c \in Readers : Returns(c) =>
          reads'[c].answer >=
            IF reads[c].pc = "idle" THEN EndAt(now - MaxAge + 1 - MaxLatency)
                                    ELSE EndAt(reads[c].since)
  BY AnswerFreshStep
<1>2. QED
  BY <1>1, Inductive, FreshInductive, PTL DEF Spec, AnswersAreFresh

-----------------------------------------------------------------------------
(* HistoryReads.                                                           *)

\* Of some numbers one is the least.
LEMMA LeastNumber ==
  ASSUME NEW S \in SUBSET Nat, S # {}
  PROVE  \E m \in S : \A n \in S : m <= n
<1> DEFINE R == OpToRel(<, Nat)
<1>1. IsWellFoundedOn(R, Nat)
  BY NatLessThanWellFounded
<1>2. PICK x \in S : \A y \in S : <<y, x>> \notin R
  <2> HIDE DEF R
  <2>1. QED
    BY <1>1, WFMin
<1>3. \A y \in S : ~(y < x)
  BY <1>2 DEF OpToRel
<1>4. QED
  BY <1>3

\* And of those that are bounded, one is the greatest.
LEMMA GreatestNumber ==
  ASSUME NEW S \in SUBSET Nat, S # {}, NEW b \in Nat, \A n \in S : n <= b
  PROVE  \E m \in S : \A n \in S : m >= n
<1> DEFINE T == {b - n : n \in S}
<1>1. T \in SUBSET Nat /\ T # {}
  <2>1. \A n \in S : b - n \in Nat
    OBVIOUS
  <2>2. QED
    BY <2>1
<1>2. PICK t \in T : \A u \in T : t <= u
  BY <1>1, LeastNumber
<1>3. PICK m \in S : t = b - m
  BY <1>2
<1>4. ASSUME NEW n \in S
      PROVE  m >= n
  <2>1. b - n \in T
    OBVIOUS
  <2>2. b - m <= b - n
    BY <1>2, <1>3, <2>1
  <2>3. m \in Nat /\ n \in Nat
    OBVIOUS
  <2>4. QED
    BY <2>2, <2>3
<1>5. QED
  BY <1>4

LEMMA MinIsLeast ==
  ASSUME NEW S \in SUBSET Nat, S # {}
  PROVE  Min(S) \in S /\ \A n \in S : Min(S) <= n
BY LeastNumber DEF Min

-----------------------------------------------------------------------------
(* The ledger.                                                             *)

LedgerOK ==
  /\ End \in Nat /\ ledger \in [1..End -> Update]
  /\ pruned \in 0..End /\ known \in 0..End

\* A contract is created once, and archived once, later.
LedgerIsSound ==
  \A c \in Contracts :
    /\ \A i, j \in Offsets("create", c) : i = j
    /\ \A i, j \in Offsets("archive", c) : i = j
    /\ \A j \in Offsets("archive", c) : \E i \in Offsets("create", c) : i < j

ReaderOK ==
  /\ reader \in Reader
  /\ reader.begin <= reader.reached /\ reader.reached <= reader.end /\ reader.end <= End
  /\ reader.pc = "idle" => reader.begin = 0 /\ reader.end = 0 /\ view = {} /\ given = {}
  /\ reader.pc = "asksContracts" => reader.end = reader.begin
  /\ reader.pc = "asksPage" => LimitOK(reader.limit)
  /\ reader.pc = "done" => reader.reached = reader.end
  /\ view \subseteq Contracts
  /\ given = IF reader.pc = "asksContracts" THEN {} ELSE Seen(reader.begin, reader.reached)

ProbeOK ==
  /\ probe \in Probe
  /\ probe.pc \in {"idle", "asksEnd", "reads"} => probe.answer = 0
  /\ probe.pc \notin {"idle", "asksEnd"} => probe.end <= End

RInv == LedgerOK /\ LedgerIsSound /\ ReaderOK /\ ViewIsOfTheLedger /\ ProbeOK /\ ProbeIsFirst

\* The end of the ledger is its length.
LEMMA EndIsLength ==
  ASSUME NEW n \in Nat, NEW f, DOMAIN f = 1..n
  PROVE  Cardinality(DOMAIN f) = n
BY FS_Interval

LEMMA LedgerDomain == LedgerOK => DOMAIN ledger = 1..End
BY DEF LedgerOK

\* A request's cap leaves room for an update.
LEMMA CapIsPositive ==
  ASSUME NEW limit \in Limits \cup {{}}, LimitOK(limit)
  PROVE  Cap(limit) \in Nat \ {0}
<1> DEFINE S == {ServerLimit} \cup limit
<1>1. S \in SUBSET Nat /\ S # {} /\ 0 \notin S
  BY ReadsAssumption DEF LimitOK
<1>2. Min(S) \in S
  BY <1>1, MinIsLeast
<1>3. QED
  BY <1>1, <1>2 DEF Cap

\* What a page hands over is what the ledger has up to the offset it reaches.
LEMMA PageIsNext ==
  ASSUME LedgerOK, NEW begin \in Nat, NEW upto \in Nat, begin <= upto, NEW cap \in Nat \ {0},
         NEW page \in Pages(begin, upto, cap)
  PROVE  /\ reachedOffset(begin, upto, page) \in Nat
         /\ begin <= reachedOffset(begin, upto, page) /\ reachedOffset(begin, upto, page) <= upto
         /\ transactions(page) = Seen(begin, reachedOffset(begin, upto, page))
<1> DEFINE shown == Seen(begin, upto)
           Sent(all, kind, last) ==
             {[offset |-> o, kind |-> IF o \in shown THEN "Transaction" ELSE kind] : o \in {x \in all : x <= last}}
           reached == reachedOffset(begin, upto, page)
<1>1. PICK more \in SUBSET (((begin + 1)..upto) \ shown) :
        \/ shown \cup more = {} /\ page = {}
        \/ \E kind \in OtherKinds, last \in shown \cup more : page = Sent(shown \cup more, kind, last)
  BY DEF Pages
<1>2. shown \subseteq (begin + 1)..upto
  BY LedgerDomain DEF Seen, LedgerOK
<1> DEFINE all == shown \cup more
<1>a. all \subseteq (begin + 1)..upto
  <2> HIDE DEF shown
  <2>1. QED
    BY <1>2
<1>3. CASE all = {} /\ page = {}
  <2>1. reached = upto
    BY <1>3 DEF reachedOffset
  <2>2. transactions(page) = {} /\ shown = {}
    BY <1>3 DEF transactions
  <2>3. QED
    BY <2>1, <2>2
<1>4. ASSUME NEW kind \in OtherKinds, NEW last \in all, page = Sent(all, kind, last)
      PROVE  reached = last /\ transactions(page) = Seen(begin, last)
  <2>1. kind # "Transaction" /\ kind \in KnownKinds
    BY ReadsAssumption DEF KnownKinds
  <2>2. last \in (begin + 1)..upto /\ last \in Nat
    <3> HIDE DEF all
    <3>1. QED
      BY <1>a
  <2>3. \A u \in page : /\ u.offset \in all /\ u.offset <= last
                        /\ u.kind \in {"Transaction"} \cup KnownKinds
                        /\ u.kind = "Transaction" <=> u.offset \in shown
    <3> HIDE DEF all, shown
    <3>1. QED
      BY <1>4, <2>1
  <2>4. \A o \in all : o <= last => \E u \in page : u.offset = o
    <3> HIDE DEF all, shown
    <3> SUFFICES ASSUME NEW o \in all, o <= last PROVE \E u \in page : u.offset = o
      OBVIOUS
    <3>1. [offset |-> o, kind |-> IF o \in shown THEN "Transaction" ELSE kind] \in page
      BY <1>4
    <3>2. QED
      BY <3>1
  <2> DEFINE S == {begin} \cup {u.offset : u \in {x \in page : x.kind \in {"Transaction"} \cup KnownKinds}}
  <2>5. last \in S /\ \A n \in S : n \in Nat /\ last >= n
    <3>1. PICK u \in page : u.offset = last
      BY <2>2, <2>4
    <3>2. last \in S
      BY <2>3, <3>1
    <3>3. \A n \in S : n = begin \/ \E x \in page : n = x.offset
      OBVIOUS
    <3>4. QED
      BY <1>a, <2>2, <2>3, <3>2, <3>3
  <2>6. Max(S) = last
    <3>1. Max(S) \in S /\ \A n \in S : Max(S) >= n
      BY <2>5 DEF Max
    <3> HIDE DEF S
    <3>2. QED
      BY <2>5, <3>1
  <2>7. page # {}
    BY <2>2, <2>4
  <2>8. reached = last
    BY <2>6, <2>7 DEF reachedOffset
  <2>9. transactions(page) = {o \in shown : o <= last}
    BY <2>3, <2>4 DEF transactions
  <2>10. {o \in shown : o <= last} = Seen(begin, last)
    BY <2>2, LedgerDomain DEF Seen, LedgerOK
  <2>11. QED
    BY <2>8, <2>9, <2>10
<1>5. QED
  <2> HIDE DEF shown, Sent
  <2>1. \/ all = {} /\ page = {}
        \/ \E kind \in OtherKinds, last \in all : page = Sent(all, kind, last)
    BY <1>1
  <2>2. \A last \in all : last \in Nat /\ begin <= last /\ last <= upto
    <3> HIDE DEF all
    <3>1. QED
      BY <1>a
  <2>3. CASE \E kind \in OtherKinds, last \in all : page = Sent(all, kind, last)
    <3>1. \E last \in all : reached = last /\ transactions(page) = Seen(begin, last)
      BY <1>4, <2>3
    <3>2. QED
      BY <2>2, <3>1
  <2>4. QED
    BY <1>3, <2>1, <2>3

\* The contracts active at an offset, from those active at one before it.
LEMMA ActiveMoves ==
  ASSUME LedgerOK, LedgerIsSound, NEW a \in Nat, NEW b \in Nat, a <= b, NEW c \in Contracts
  PROVE  c \in ActiveAt(b) <=>
           /\ c \in ActiveAt(a) \/ \E i \in Offsets("create", c) : a < i /\ i <= b
           /\ ~ \E i \in Offsets("archive", c) : a < i /\ i <= b
<1>1. \A what : Offsets(what, c) \subseteq Nat
  BY LedgerDomain DEF Offsets, LedgerOK
<1>2. \A j \in Offsets("archive", c), i \in Offsets("create", c) : i < j
  BY <1>1 DEF LedgerIsSound
<1>3. QED
  BY <1>1, <1>2 DEF ActiveAt, CreatedBy, ArchivedBy

-----------------------------------------------------------------------------
(* What is written stays as it is.                                         *)

\* The ledger up to its end is the same after a step.
PastStands ==
  /\ End <= End'
  /\ \A b, o \in 0..End : Seen(b, o)' = Seen(b, o) /\ Events(b, o)' = Events(b, o)
  /\ \A o \in 0..End : ActiveAt(o)' = ActiveAt(o)

LEMMA UnchangedStands ==
  ASSUME LedgerOK, LedgerIsSound, UNCHANGED ledger
  PROVE  PastStands /\ LedgerIsSound' /\ End' = End
<1>1. End' = End /\ End \in Nat
  BY DEF End, LedgerOK
<1>2. \A w, c : Offsets(w, c)' = Offsets(w, c)
  BY DEF Offsets
<1>3. \A b, o : Seen(b, o)' = Seen(b, o)
  BY DEF Seen
<1>4. \A b, o : Events(b, o)' = Events(b, o)
  BY <1>3 DEF Events
<1>5. \A o : ActiveAt(o)' = ActiveAt(o)
  BY <1>2 DEF ActiveAt, CreatedBy, ArchivedBy
<1>6. LedgerIsSound'
  BY <1>2 DEF LedgerIsSound
<1>7. QED
  BY <1>1, <1>3, <1>4, <1>5, <1>6 DEF PastStands

LEMMA WriteStands ==
  ASSUME LedgerOK, LedgerIsSound, Write
  PROVE  PastStands /\ LedgerIsSound' /\ LedgerOK'
<1>1. PICK u \in Update :
        /\ u.does = "create" => u.cid \notin CreatedBy(End)
        /\ u.does = "archive" => u.cid \in ActiveAt(End)
        /\ ledger' = [o \in DOMAIN ledger \cup {End + 1} |-> IF o = End + 1 THEN u ELSE ledger[o]]
  BY DEF Write
<1>2. DOMAIN ledger = 1..End /\ End \in Nat /\ UNCHANGED <<pruned, known>>
  BY LedgerDomain DEF LedgerOK, Write
<1>3. DOMAIN ledger' = 1..(End + 1)
  BY <1>1, <1>2
<1>4. End' = End + 1
  BY <1>2, <1>3, EndIsLength DEF End
<1>5. /\ ledger'[End + 1] = u
      /\ \A o \in 1..End : ledger'[o] = ledger[o]
  BY <1>1, <1>2
<1>6. LedgerOK'
  <2>1. ledger' \in [1..(End + 1) -> Update]
    BY <1>1, <1>2 DEF LedgerOK
  <2>2. QED
    BY <1>2, <1>4, <2>1 DEF LedgerOK
<1>7. \A w, c : Offsets(w, c)' = Offsets(w, c) \cup {o \in {End + 1} : u.does = w /\ u.cid = c}
  BY <1>2, <1>3, <1>5 DEF Offsets
<1>8. \A b, o \in 0..End : Seen(b, o)' = Seen(b, o)
  BY <1>2, <1>3, <1>5 DEF Seen
<1>9. \A b, o \in 0..End : Events(b, o)' = Events(b, o)
  <2>1. \A b, o \in 0..End : \A e \in Seen(b, o) : e \in 1..End
    BY <1>2 DEF Seen
  <2>2. QED
    BY <1>5, <1>8, <2>1 DEF Events
<1>10. \A o \in 0..End : ActiveAt(o)' = ActiveAt(o)
  BY <1>2, <1>7 DEF ActiveAt, CreatedBy, ArchivedBy
<1>11. LedgerIsSound'
  <2> SUFFICES ASSUME NEW c \in Contracts
               PROVE  /\ \A i, j \in Offsets("create", c)' : i = j
                      /\ \A i, j \in Offsets("archive", c)' : i = j
                      /\ \A j \in Offsets("archive", c)' : \E i \in Offsets("create", c)' : i < j
    BY DEF LedgerIsSound
  <2>1. \A w : Offsets(w, c) \subseteq 1..End
    BY <1>2 DEF Offsets
  <2>2. u.does = "create" /\ u.cid = c => Offsets("create", c) = {}
    BY <1>1, <1>2, <2>1 DEF CreatedBy
  <2>3. u.does = "archive" /\ u.cid = c => Offsets("archive", c) = {} /\ Offsets("create", c) # {}
    BY <1>1, <1>2, <2>1 DEF ActiveAt, CreatedBy, ArchivedBy
  <2>4. QED
    BY <1>2, <1>7, <2>1, <2>2, <2>3 DEF LedgerIsSound
<1>12. QED
  BY <1>2, <1>4, <1>6, <1>8, <1>9, <1>10, <1>11 DEF PastStands

\* What the reader and the probe know is of the past.
LEMMA KnowledgeStands ==
  ASSUME RInv, PastStands, LedgerOK', LedgerIsSound'
  PROVE  /\ UNCHANGED <<reader, view, given>> => ReaderOK' /\ ViewIsOfTheLedger'
         /\ UNCHANGED probe => ProbeOK' /\ ProbeIsFirst'
<1>1. End \in Nat /\ End' \in Nat /\ End <= End'
  BY DEF RInv, LedgerOK, PastStands
<1>2. ASSUME UNCHANGED <<reader, view, given>>
      PROVE  ReaderOK' /\ ViewIsOfTheLedger'
  <2>1. reader.begin \in 0..End /\ reader.reached \in 0..End /\ reader.end \in Nat
    BY <1>1 DEF RInv, ReaderOK, Reader
  <2>2. Seen(reader.begin, reader.reached)' = Seen(reader.begin, reader.reached)
    BY <1>2, <2>1 DEF PastStands
  <2>3. ActiveAt(reader.reached)' = ActiveAt(reader.reached)
    BY <1>2, <2>1 DEF PastStands
  <2>4. ReaderOK'
    BY <1>1, <1>2, <2>1, <2>2 DEF RInv, ReaderOK, LimitOK
  <2>5. ViewIsOfTheLedger'
    BY <1>2, <2>3 DEF RInv, ViewIsOfTheLedger, Kept
  <2>6. QED
    BY <2>4, <2>5
<1>3. ASSUME UNCHANGED probe
      PROVE  ProbeOK' /\ ProbeIsFirst'
  <2>1. ProbeOK'
    BY <1>1, <1>3 DEF RInv, ProbeOK, Probe
  <2>2. ASSUME probe.pc = "answered" PROVE Events(0, probe.end)' = Events(0, probe.end)
    <3>1. probe.end \in 0..End
      BY <1>1, <2>2 DEF RInv, ProbeOK, Probe
    <3>2. QED
      BY <1>1, <1>3, <3>1 DEF PastStands
  <2>3. ProbeIsFirst'
    BY <1>3, <2>2 DEF RInv, ProbeIsFirst
  <2>4. QED
    BY <2>1, <2>3
<1>4. QED
  BY <1>2, <1>3

-----------------------------------------------------------------------------
(* The steps.                                                              *)

\* Nothing is written or read in an initial state.
LEMMA InitRInv == ReadsInit => RInv
<1> SUFFICES ASSUME ReadsInit PROVE RInv
  OBVIOUS
<1>1. DOMAIN ledger = {} /\ DOMAIN ledger = 1..0
  BY DEF ReadsInit
<1>2. End = 0
  BY <1>1, EndIsLength DEF End
<1>3. LedgerOK
  BY <1>1, <1>2 DEF ReadsInit, LedgerOK
<1>4. \A w, c : Offsets(w, c) = {}
  BY <1>1 DEF Offsets
<1>5. Seen(0, 0) = {}
  BY <1>1 DEF Seen
<1>6. ReaderOK
  BY <1>2, <1>5 DEF ReadsInit, ReaderOK, Reader
<1>7. ProbeOK
  BY DEF ReadsInit, ProbeOK, Probe
<1>8. QED
  BY <1>3, <1>4, <1>6, <1>7 DEF ReadsInit, RInv, LedgerIsSound, ViewIsOfTheLedger, ProbeIsFirst

\* A step of the reader touches neither the ledger nor the probe.
LEMMA ReaderSteps ==
  ASSUME RInv, UNCHANGED <<ledger, pruned, probe>>, known' \in 0..End, ReaderOK', ViewIsOfTheLedger'
  PROVE  RInv'
<1>1. PastStands /\ LedgerIsSound' /\ End' = End
  BY UnchangedStands DEF RInv
<1>2. LedgerOK'
  BY <1>1 DEF RInv, LedgerOK
<1>3. QED
  BY <1>1, <1>2, KnowledgeStands DEF RInv

\* Nor does a step of the probe touch the reader.
LEMMA ProbeSteps ==
  ASSUME RInv, UNCHANGED <<ledger, pruned, reader, view, given>>, known' \in 0..End, ProbeOK', ProbeIsFirst'
  PROVE  RInv'
<1>1. PastStands /\ LedgerIsSound' /\ End' = End
  BY UnchangedStands DEF RInv
<1>2. LedgerOK'
  BY <1>1 DEF RInv, LedgerOK
<1>3. QED
  BY <1>1, <1>2, KnowledgeStands DEF RInv

LEMMA WriteRInv == RInv /\ Write => RInv'
<1> SUFFICES ASSUME RInv, Write PROVE RInv'
  OBVIOUS
<1>1. PastStands /\ LedgerIsSound' /\ LedgerOK'
  BY WriteStands DEF RInv
<1>2. QED
  BY <1>1, KnowledgeStands DEF RInv, Write

LEMMA PruneRInv == RInv /\ Prune => RInv'
<1> SUFFICES ASSUME RInv, Prune PROVE RInv'
  OBVIOUS
<1>1. PastStands /\ LedgerIsSound' /\ End' = End
  BY UnchangedStands DEF RInv, Prune
<1>2. LedgerOK'
  BY <1>1, LedgerDomain DEF RInv, LedgerOK, Prune
<1>3. QED
  BY <1>1, <1>2, KnowledgeStands DEF RInv, Prune

\* What holds of the reader and the ledger as they are before a step.
LEMMA ReaderNow ==
  ASSUME RInv
  PROVE  /\ End \in Nat /\ known \in 0..End /\ reader \in Reader /\ view \subseteq Contracts
         /\ reader.begin \in Nat /\ reader.reached \in Nat /\ reader.end \in Nat
         /\ reader.begin <= reader.reached /\ reader.reached <= reader.end /\ reader.end <= End
BY DEF RInv, LedgerOK, ReaderOK, Reader

LEMMA NothingSeen == LedgerOK => \A o \in Nat : Seen(o, o) = {}
BY LedgerDomain DEF Seen, LedgerOK

LEMMA SameLedger ==
  ASSUME UNCHANGED ledger
  PROVE  /\ End' = End /\ \A b, o : Seen(b, o)' = Seen(b, o)
         /\ \A o : ActiveAt(o)' = ActiveAt(o)
         /\ \A b, o : Events(b, o)' = Events(b, o)
<1>1. \A b, o : Seen(b, o)' = Seen(b, o)
  BY DEF Seen
<1>2. \A w, c : Offsets(w, c)' = Offsets(w, c)
  BY DEF Offsets
<1>3. QED
  BY <1>1, <1>2 DEF End, ActiveAt, CreatedBy, ArchivedBy, Events

LEMMA StartReadRInv == ASSUME NEW offset, RInv, StartRead(offset) PROVE RInv'
<1>1. PICK o \in 0..End :
        /\ resolveOffset(offset, o)
        /\ reader' = [reader EXCEPT !.pc = "asksContracts", !.begin = o, !.end = o, !.reached = o]
  BY DEF StartRead
<1>2. UNCHANGED <<ledger, pruned, view, probe>> /\ given' = {}
  BY DEF StartRead
<1>3. known' \in 0..End
  BY <1>1, ReaderNow DEF resolveOffset, getLedgerEnd
<1>4. reader' \in Reader /\ reader'.pc = "asksContracts"
      /\ reader'.begin = o /\ reader'.end = o /\ reader'.reached = o
  <2>1. o \in Nat /\ reader \in Reader
    BY ReaderNow
  <2>2. reader' = [pc |-> "asksContracts", begin |-> o, end |-> o, reached |-> o, limit |-> reader.limit]
    BY <1>1, <2>1 DEF Reader
  <2>3. QED
    BY <2>1, <2>2 DEF Reader
<1>5. ReaderOK'
  BY <1>2, <1>4, ReaderNow, SameLedger DEF ReaderOK
<1>6. ViewIsOfTheLedger'
  BY <1>4 DEF ViewIsOfTheLedger
<1>7. QED
  BY <1>2, <1>3, <1>5, <1>6, ReaderSteps

LEMMA ReadAllRInv == RInv /\ ReadAll => RInv'
<1> SUFFICES ASSUME RInv, ReadAll PROVE RInv'
  OBVIOUS
<1>1. PICK o \in 0..End :
        /\ getLedgerEnd(o)
        /\ reader' = [reader EXCEPT !.pc = "loop", !.begin = 0, !.end = o, !.reached = 0]
  BY DEF ReadAll
<1>2. UNCHANGED <<ledger, pruned, probe>> /\ view' = {} /\ given' = {}
  BY DEF ReadAll
<1>3. Seen(0, 0) = {} /\ ActiveAt(0) = {}
  <2>1. DOMAIN ledger = 1..End /\ End \in Nat
    BY LedgerDomain DEF RInv, LedgerOK
  <2>2. QED
    BY <2>1 DEF Seen, ActiveAt, CreatedBy, Offsets
<1>4. reader' \in Reader /\ reader'.pc = "loop"
      /\ reader'.begin = 0 /\ reader'.end = o /\ reader'.reached = 0
  <2>1. o \in Nat /\ reader \in Reader
    BY ReaderNow
  <2>2. reader' = [pc |-> "loop", begin |-> 0, end |-> o, reached |-> 0, limit |-> reader.limit]
    BY <1>1, <2>1 DEF Reader
  <2>3. QED
    BY <2>1, <2>2 DEF Reader
<1>5. ReaderOK'
  BY <1>2, <1>3, <1>4, ReaderNow, SameLedger DEF ReaderOK
<1>6. ViewIsOfTheLedger'
  BY <1>2, <1>3, <1>4, SameLedger DEF ViewIsOfTheLedger, Kept
<1>7. known' \in 0..End
  BY <1>1, ReaderNow DEF getLedgerEnd
<1>8. QED
  BY <1>2, <1>5, <1>6, <1>7, ReaderSteps

LEMMA QueryRInv == RInv /\ QueryAnswered => RInv'
<1> SUFFICES ASSUME RInv, QueryAnswered PROVE RInv'
  OBVIOUS
<1>1. /\ UNCHANGED <<ledger, pruned, known, given, probe>> /\ reader.pc = "asksContracts"
      /\ reader.end = reader.begin /\ reader.reached = reader.begin /\ given = {}
  BY ReaderNow DEF QueryAnswered, RInv, ReaderOK
<1>2. PICK moving \in SUBSET (Contracts \ ActiveAt(reader.begin)) :
        LET rows == Rows(ActiveAt(reader.begin), moving) IN
        \/ reader' = [reader EXCEPT !.pc = "failed"] /\ UNCHANGED view
        \/ reader' = [reader EXCEPT !.pc = "loop"] /\ view' = Kept(createEventsFromWire(rows))
  BY DEF QueryAnswered
<1>3. createEventsFromWire(Rows(ActiveAt(reader.begin), moving)) = ActiveAt(reader.begin) \cap Wanted
  <2> DEFINE rows == Rows(ActiveAt(reader.begin), moving)
  <2>1. \A r \in rows : r.entry = "JsActiveContract" => r.cid \in ActiveAt(reader.begin)
    BY DEF Rows
  <2>2. \A c \in ActiveAt(reader.begin) : \E r \in rows : r.entry = "JsActiveContract" /\ r.cid = c
    <3> TAKE c \in ActiveAt(reader.begin)
    <3>1. [entry |-> "JsActiveContract", cid |-> c] \in rows
      BY DEF Rows
    <3>2. QED
      BY <3>1
  <2>3. QED
    BY <2>1, <2>2 DEF createEventsFromWire
<1>4. /\ reader' \in Reader /\ reader'.pc \in {"failed", "loop"}
      /\ reader'.begin = reader.begin /\ reader'.end = reader.begin /\ reader'.reached = reader.begin
      /\ reader'.pc = "loop" => view' = Kept(ActiveAt(reader.begin) \cap Wanted)
      /\ view' \subseteq Contracts
  BY <1>1, <1>2, <1>3, ReaderNow, ReadsAssumption DEF Reader, Kept
<1>5. ReaderOK'
  BY <1>1, <1>4, ReaderNow, NothingSeen, SameLedger DEF ReaderOK, RInv
<1>6. ViewIsOfTheLedger'
  BY <1>1, <1>4, SameLedger DEF ViewIsOfTheLedger, Kept
<1>7. QED
  BY <1>1, <1>5, <1>6, ReaderNow, ReaderSteps

\* Steps that ask, end or fail move the program counter alone.
LEMMA ReaderMovesOn ==
  ASSUME RInv, UNCHANGED <<ledger, pruned, known, view, given, probe>>,
         NEW pc \in {"loop", "asksPage", "done", "failed"}, NEW limit \in Limits \cup {{}},
         reader.pc # "idle", reader' = [reader EXCEPT !.pc = pc, !.limit = limit],
         pc = "asksPage" => LimitOK(limit), pc = "done" => reader.reached = reader.end,
         pc # "failed" => reader.pc \in {"loop", "asksPage"}
  PROVE  RInv'
<1>1. /\ reader' \in Reader /\ reader'.pc = pc /\ reader'.limit = limit
      /\ reader'.begin = reader.begin /\ reader'.end = reader.end /\ reader'.reached = reader.reached
  BY ReaderNow DEF Reader
<1>2. given = Seen(reader.begin, reader.reached)
  <2>1. reader.pc = "asksContracts" => reader.reached = reader.begin
    BY ReaderNow DEF RInv, ReaderOK
  <2>2. QED
    BY <2>1, NothingSeen, ReaderNow DEF RInv, ReaderOK
<1>3. ReaderOK'
  BY <1>1, <1>2, ReaderNow, SameLedger DEF ReaderOK, LimitOK
<1>4. ViewIsOfTheLedger'
  BY <1>1, SameLedger DEF ViewIsOfTheLedger, RInv, Kept
<1>5. QED
  BY <1>3, <1>4, ReaderNow, ReaderSteps

LEMMA AskPageRInv == RInv /\ AskPage => RInv'
<1> SUFFICES ASSUME RInv, AskPage PROVE RInv'
  OBVIOUS
<1>1. PICK limit \in Limits : LimitOK(limit) /\ reader' = [reader EXCEPT !.pc = "asksPage", !.limit = limit]
  BY DEF AskPage
<1>2. QED
  BY <1>1, ReaderMovesOn DEF AskPage

LEMMA AskNothingRInv == RInv /\ AskNothing => RInv'
<1> SUFFICES ASSUME RInv, AskNothing PROVE RInv'
  OBVIOUS
<1>1. PastStands /\ LedgerIsSound' /\ End' = End
  BY UnchangedStands DEF RInv, AskNothing
<1>2. QED
  BY <1>1, KnowledgeStands DEF AskNothing, RInv, LedgerOK

\* The record with the program counter moved, as the lemma above has it.
LEMMA SameLimit ==
  ASSUME RInv, NEW pc, reader' = [reader EXCEPT !.pc = pc]
  PROVE  reader' = [reader EXCEPT !.pc = pc, !.limit = reader.limit] /\ reader.limit \in Limits \cup {{}}
BY ReaderNow DEF Reader

LEMMA LoopEndsRInv == RInv /\ LoopEnds => RInv'
<1> SUFFICES ASSUME RInv, LoopEnds PROVE RInv'
  OBVIOUS
<1>1. reader.reached = reader.end
  BY ReaderNow DEF LoopEnds
<1>2. QED
  BY <1>1, SameLimit, ReaderMovesOn DEF LoopEnds

LEMMA RefusedRInv == RInv /\ Refused => RInv'
BY SameLimit, ReaderMovesOn DEF Refused

LEMMA RequestFailsRInv == RInv /\ ReadRequestFails => RInv'
<1> SUFFICES ASSUME RInv, ReadRequestFails PROVE RInv'
  OBVIOUS
<1>1. CASE reader.pc = "asksPage"
  BY <1>1, SameLimit, ReaderMovesOn DEF ReadRequestFails
<1>2. CASE reader.pc = "asksContracts"
  BY <1>2, SameLimit, ReaderMovesOn DEF ReadRequestFails
<1>3. QED
  BY <1>1, <1>2 DEF ReadRequestFails

LEMMA PageRInv == RInv /\ PageAnswered => RInv'
<1> SUFFICES ASSUME RInv, PageAnswered PROVE RInv'
  OBVIOUS
<1> DEFINE a == reader.reached
<1>1. PICK page \in Pages(a, reader.end, Cap(reader.limit)) :
        LET new == transactions(page) IN
        /\ reader' = [reader EXCEPT !.pc = "loop", !.reached = reachedOffset(a, reader.end, page)]
        /\ given' = given \cup new
        /\ view' = Kept({c \in Wanted : c \in view \/ new \cap Offsets("create", c) # {}})
                     \ {c \in Wanted : new \cap Offsets("archive", c) # {}}
  BY DEF PageAnswered
<1>2. UNCHANGED <<ledger, pruned, known, probe>> /\ reader.pc = "asksPage"
  BY DEF PageAnswered
<1> DEFINE b == reachedOffset(a, reader.end, page)
<1>3. b \in Nat /\ a <= b /\ b <= reader.end /\ transactions(page) = Seen(a, b)
  <2>1. Cap(reader.limit) \in Nat \ {0}
    BY <1>2, CapIsPositive, ReaderNow DEF RInv, ReaderOK, Reader
  <2>2. QED
    BY <2>1, PageIsNext, ReaderNow DEF RInv
<1> HIDE DEF b
<1>4. /\ reader' \in Reader /\ reader'.pc = "loop"
      /\ reader'.begin = reader.begin /\ reader'.end = reader.end /\ reader'.reached = b
  BY <1>1, <1>3, ReaderNow DEF Reader, b
<1>5. view = Kept(ActiveAt(a) \cap Wanted) /\ given = Seen(reader.begin, a)
  BY <1>2 DEF RInv, ViewIsOfTheLedger, ReaderOK
<1>6. \A w \in {"create", "archive"}, c \in Contracts :
        Seen(a, b) \cap Offsets(w, c) # {} <=> \E i \in Offsets(w, c) : a < i /\ i <= b
  BY DEF Seen, Offsets
<1>7. view' = Kept(ActiveAt(b) \cap Wanted)
  <2>1. \A c \in Wanted : c \in ActiveAt(b) <=>
          /\ c \in ActiveAt(a) \/ Seen(a, b) \cap Offsets("create", c) # {}
          /\ ~(Seen(a, b) \cap Offsets("archive", c) # {})
    BY <1>3, <1>6, ActiveMoves, ReaderNow, ReadsAssumption DEF RInv
  <2>2. view' = Kept({c \in Wanted : c \in view \/ Seen(a, b) \cap Offsets("create", c) # {}})
                     \ {c \in Wanted : Seen(a, b) \cap Offsets("archive", c) # {}}
    BY <1>1, <1>3
  <2>3. QED
    BY <1>5, <2>1, <2>2 DEF Kept
<1>8. given' = Seen(reader.begin, b)
  <2>1. Seen(reader.begin, a) \cup Seen(a, b) = Seen(reader.begin, b)
    BY <1>3, ReaderNow, LedgerDomain DEF Seen, RInv, LedgerOK
  <2>2. QED
    BY <1>1, <1>3, <1>5, <2>1
<1>9. view' \subseteq Contracts
  BY <1>7, ReadsAssumption DEF Kept
<1>10. ReaderOK'
  BY <1>2, <1>3, <1>4, <1>8, <1>9, ReaderNow, SameLedger DEF ReaderOK
<1>11. ViewIsOfTheLedger'
  BY <1>2, <1>4, <1>7, SameLedger DEF ViewIsOfTheLedger, Kept
<1>12. QED
  BY <1>2, <1>10, <1>11, ReaderNow, ReaderSteps

LEMMA GoOnRInv == RInv /\ GoOn => RInv'
<1> SUFFICES ASSUME RInv, GoOn PROVE RInv'
  OBVIOUS
<1>1. PICK o \in 0..End :
        /\ known' = o /\ o > reader.reached
        /\ reader' = [reader EXCEPT !.pc = "loop", !.begin = reader.reached, !.end = o]
  BY DEF GoOn, getLedgerEnd
<1>2. UNCHANGED <<ledger, pruned, view, probe>> /\ given' = {} /\ reader.pc = "done"
  BY DEF GoOn
<1>3. reader' \in Reader /\ reader'.pc = "loop"
      /\ reader'.begin = reader.reached /\ reader'.end = o /\ reader'.reached = reader.reached
  <2>1. o \in Nat /\ reader \in Reader
    BY ReaderNow
  <2>2. reader' = [pc |-> "loop", begin |-> reader.reached, end |-> o, reached |-> reader.reached, limit |-> reader.limit]
    BY <1>1, <2>1 DEF Reader
  <2>3. QED
    BY <2>1, <2>2 DEF Reader
<1>4. ReaderOK'
  BY <1>1, <1>2, <1>3, ReaderNow, NothingSeen, SameLedger DEF RInv, ReaderOK
<1>5. ViewIsOfTheLedger'
  BY <1>2, <1>3, SameLedger DEF RInv, ViewIsOfTheLedger, Kept
<1>6. QED
  BY <1>1, <1>2, <1>4, <1>5, ReaderSteps

\* What holds of the probe before a step.
LEMMA ProbeNow ==
  ASSUME RInv
  PROVE  /\ End \in Nat /\ known \in 0..End /\ pruned \in 0..End /\ probe \in Probe
         /\ probe.begin \in Nat /\ probe.end \in Nat /\ BeginExclusive \in Nat
BY DEF RInv, LedgerOK, ProbeOK, Probe, BeginExclusive

LEMMA ProbeBeginsRInv == ASSUME NEW offset, RInv, ProbeBegins(offset) PROVE RInv'
<1>1. PICK o \in 0..MaxOffset :
        resolveOffset(offset, o) /\ probe' = [probe EXCEPT !.pc = "asksEnd", !.begin = o]
  BY DEF ProbeBegins
<1>2. UNCHANGED <<ledger, pruned, reader, view, given>> /\ probe.pc = "idle"
  BY DEF ProbeBegins
<1>3. known' \in 0..End
  BY <1>1, ProbeNow DEF resolveOffset, getLedgerEnd
<1>4. probe' \in Probe /\ probe'.pc = "asksEnd" /\ probe'.answer = 0
  <2>1. o \in Nat /\ probe \in Probe /\ probe.answer = 0
    BY <1>2, ProbeNow, ReadsAssumption DEF RInv, ProbeOK
  <2>2. probe' = [pc |-> "asksEnd", begin |-> o, end |-> probe.end, answer |-> 0]
    BY <1>1, <2>1 DEF Probe
  <2>3. QED
    BY <2>1, <2>2 DEF Probe
<1>5. ProbeOK' /\ ProbeIsFirst'
  BY <1>4 DEF ProbeOK, ProbeIsFirst
<1>6. QED
  BY <1>2, <1>3, <1>5, ProbeSteps

\* The events at or after an offset are those after the one before it.
LEMMA AtOrAfter ==
  ASSUME RInv
  PROVE  Events(BeginExclusive, probe.end) = {o \in Events(0, probe.end) : o >= probe.begin}
<1>1. DOMAIN ledger = 1..End /\ End \in Nat /\ probe.begin \in Nat
  BY LedgerDomain, ProbeNow DEF RInv
<1>2. \A o \in Nat : BeginExclusive < o <=> 0 < o /\ o >= probe.begin
  BY <1>1 DEF BeginExclusive
<1>3. \A o \in DOMAIN ledger : o \in Nat /\ 0 < o
  BY <1>1
<1>4. QED
  BY <1>1, <1>2, <1>3 DEF Events, Seen

LEMMA ProbeHasEndRInv == RInv /\ ProbeHasEnd => RInv'
<1> SUFFICES ASSUME RInv, ProbeHasEnd PROVE RInv'
  OBVIOUS
<1>1. PICK o \in 0..End :
        LET upto == Min({probe.begin + ScanLimit, o}) IN
        /\ known' = o
        /\ probe' = [probe EXCEPT !.pc = IF upto <= BeginExclusive THEN "answered" ELSE "reads", !.end = upto]
  BY DEF ProbeHasEnd, getLedgerEnd
<1>2. UNCHANGED <<ledger, pruned, reader, view, given>> /\ probe.pc = "asksEnd" /\ probe.answer = 0
  BY DEF ProbeHasEnd, RInv, ProbeOK
<1> DEFINE e == Min({probe.begin + ScanLimit, o})
<1>3. e \in Nat /\ e <= o /\ o \in Nat
  <2>1. {probe.begin + ScanLimit, o} \in SUBSET Nat
    BY ProbeNow, ReadsAssumption
  <2>2. QED
    BY <2>1, MinIsLeast, ProbeNow
<1> HIDE DEF e
<1> DEFINE pc == IF e <= BeginExclusive THEN "answered" ELSE "reads"
<1>4. probe' = [pc |-> pc, begin |-> probe.begin, end |-> e, answer |-> 0]
  BY <1>1, <1>2, ProbeNow DEF Probe, e
<1>5. ProbeOK'
  BY <1>2, <1>3, <1>4, ProbeNow, SameLedger DEF ProbeOK, Probe
<1>6. ProbeIsFirst'
  <2> SUFFICES ASSUME pc = "answered"
               PROVE  {x \in Events(0, e) : x >= probe.begin} = {}
    BY <1>2, <1>4, SameLedger DEF ProbeIsFirst
  <2>1. e <= BeginExclusive
    OBVIOUS
  <2>2. \A x \in Events(0, e) : x \in Nat /\ 0 < x /\ x <= e
    BY LedgerDomain, ProbeNow DEF Events, Seen, RInv
  <2>3. QED
    BY <1>3, <2>1, <2>2, ProbeNow DEF BeginExclusive
<1>7. QED
  BY <1>1, <1>2, <1>5, <1>6, ProbeSteps

LEMMA ProbeAnsweredRInv == RInv /\ ProbeAnswered => RInv'
<1> SUFFICES ASSUME RInv, ProbeAnswered PROVE RInv'
  OBVIOUS
<1> DEFINE events == Events(BeginExclusive, probe.end)
           answer == IF events = {} THEN 0 ELSE Min(events)
<1>1. /\ UNCHANGED <<ledger, pruned, known, reader, view, given>> /\ probe.pc = "reads"
      /\ probe' = [probe EXCEPT !.pc = "answered", !.answer = answer]
  BY DEF ProbeAnswered
<1>2. events \in SUBSET (Nat \ {0})
  BY LedgerDomain, ProbeNow DEF Events, Seen, RInv
<1>3. /\ answer \in Nat
      /\ IF answer = 0 THEN events = {} ELSE answer \in events /\ \A o \in events : answer <= o
  <2> HIDE DEF events
  <2>1. events # {} => Min(events) \in events /\ \A n \in events : Min(events) <= n
    BY <1>2, MinIsLeast
  <2>2. QED
    BY <1>2, <2>1
<1>4. events = {o \in Events(0, probe.end) : o >= probe.begin}
  BY AtOrAfter
<1> HIDE DEF events, answer
<1>5. /\ probe' \in Probe /\ probe'.pc = "answered" /\ probe'.answer = answer
      /\ probe'.begin = probe.begin /\ probe'.end = probe.end
  BY <1>1, <1>3, ProbeNow DEF Probe
<1>6. ProbeOK'
  BY <1>1, <1>5, SameLedger DEF RInv, ProbeOK
<1>7. ProbeIsFirst'
  BY <1>1, <1>3, <1>4, <1>5, SameLedger DEF ProbeIsFirst
<1>8. QED
  BY <1>1, <1>6, <1>7, ProbeNow, ProbeSteps

LEMMA ProbeEndsRInv == RInv /\ (ProbeRefused \/ ProbeBreaks) => RInv'
<1> SUFFICES ASSUME RInv, ProbeRefused \/ ProbeBreaks PROVE RInv'
  OBVIOUS
<1>1. /\ UNCHANGED <<ledger, pruned, known, reader, view, given>> /\ probe.pc = "reads"
      /\ \E pc \in {"threw", "broke"} : probe' = [probe EXCEPT !.pc = pc]
  BY DEF ProbeRefused, ProbeBreaks
<1>2. /\ probe' \in Probe /\ probe'.pc \in {"threw", "broke"} /\ probe'.end = probe.end
  BY <1>1, ProbeNow DEF Probe
<1>3. ProbeOK' /\ ProbeIsFirst'
  BY <1>1, <1>2, SameLedger DEF RInv, ProbeOK, ProbeIsFirst
<1>4. QED
  BY <1>1, <1>3, ProbeNow, ProbeSteps

LEMMA NextRInv == RInv /\ [ReadsNext]_readsVars => RInv'
<1> SUFFICES ASSUME RInv, [ReadsNext]_readsVars PROVE RInv'
  OBVIOUS
<1>1. CASE UNCHANGED readsVars
  <2>1. PastStands /\ LedgerIsSound' /\ End' = End
    BY <1>1, UnchangedStands DEF RInv, readsVars
  <2>2. LedgerOK'
    BY <1>1, <2>1 DEF RInv, LedgerOK, readsVars
  <2>3. QED
    BY <1>1, <2>1, <2>2, KnowledgeStands DEF RInv, readsVars
<1>2. CASE Write \/ Prune
  BY <1>2, WriteRInv, PruneRInv
<1>3. CASE StartRead(AtEnd) \/ StartRead(LedgerOffset("number", pruned)) \/ ReadAll \/ GoOn
  BY <1>3, StartReadRInv, ReadAllRInv, GoOnRInv
<1>4. CASE Reading \/ AskNothing \/ ReadRequestFails
  BY <1>4, QueryRInv, RefusedRInv, AskPageRInv, PageRInv, LoopEndsRInv, AskNothingRInv, RequestFailsRInv
     DEF Reading
<1>5. CASE \E offset \in {Start, AtEnd} \cup {LedgerOffset("number", n) : n \in 1..MaxOffset} :
             ProbeBegins(offset)
  BY <1>5, ProbeBeginsRInv
<1>6. CASE ProbeHasEnd \/ ProbeAnswered \/ ProbeRefused \/ ProbeBreaks
  BY <1>6, ProbeHasEndRInv, ProbeAnsweredRInv, ProbeEndsRInv
<1>7. QED
  BY <1>1, <1>2, <1>3, <1>4, <1>5, <1>6 DEF ReadsNext

THEOREM ReadsInductive == ReadsSpec => []RInv
BY InitRInv, NextRInv, PTL DEF ReadsSpec

\* A query and the pages after it give what is active at the offset reached,
\* wherever the participant cuts them and whatever is written or pruned.
THEOREM ViewIsAlwaysOfTheLedger == ReadsSpec => []ViewIsOfTheLedger
<1>1. RInv => ViewIsOfTheLedger
  BY DEF RInv
<1>2. QED
  BY <1>1, ReadsInductive, PTL

\* probeOffset answers with the first event at or after the offset.
THEOREM ProbeIsAlwaysFirst == ReadsSpec => []ProbeIsFirst
<1>1. RInv => ProbeIsFirst
  BY DEF RInv
<1>2. QED
  BY <1>1, ReadsInductive, PTL

-----------------------------------------------------------------------------
(* The loop is a HistoryFeed.                                              *)

Window == Seen(reader.begin, reader.end)
Told == CASE reader.pc = "idle" -> "closed"
          [] reader.pc \in {"done", "failed"} -> reader.pc
          [] OTHER -> "open"

LEMMA InitIsFeed == ReadsInit => Feed!Init
<1> SUFFICES ASSUME ReadsInit PROVE Feed!Init
  OBVIOUS
<1>1. Window = {} /\ given = {} /\ reader.pc = "idle"
  BY DEF ReadsInit, Window, Seen
<1>2. QED
  BY <1>1 DEF Feed!Init, Window

\* What leaves the window, what was given and the news alone is no step of a feed.
LEMMA FeedStutters ==
  ASSUME Window' = Window, Told' = Told, given' = given
  PROVE  UNCHANGED Feed!vars
BY DEF Feed!vars, Window, Told

LEMMA FeedOpens ==
  ASSUME RInv', Told # "open", Told' = "open", given' = {}
  PROVE  Feed!Open
<1>1. Window' \in SUBSET Nat
  <2>1. DOMAIN ledger' = 1..End' /\ End' \in Nat
    BY DEF RInv, LedgerOK
  <2>2. QED
    BY <2>1 DEF Window, Seen
<1>2. QED
  BY <1>1 DEF Feed!Open, Window, Told

LEMMA FeedFails ==
  ASSUME Told = "open", Told' = "failed", Window' = Window, given' = given
  PROVE  Feed!Fail
BY DEF Feed!Fail, Window, Told

\* A page hands over what comes next in the window.
LEMMA PageDelivers ==
  ASSUME RInv, RInv', PageAnswered
  PROVE  [Feed!Next]_(Feed!vars)
<1>1. PICK page \in Pages(reader.reached, reader.end, Cap(reader.limit)) :
        reader' = [reader EXCEPT !.pc = "loop", !.reached = reachedOffset(reader.reached, reader.end, page)]
  BY DEF PageAnswered
<1>2. reader.pc = "asksPage" /\ UNCHANGED ledger
  BY DEF PageAnswered
<1>3. /\ reader'.pc = "loop" /\ reader'.begin = reader.begin /\ reader'.end = reader.end
      /\ given \subseteq given'
  BY <1>1, ReaderNow DEF Reader, PageAnswered
<1> DEFINE b == reader'.reached
<1>4. /\ given' = Seen(reader.begin, b) /\ b \in Nat /\ b <= reader.end
  BY <1>2, <1>3, SameLedger DEF RInv, ReaderOK, Reader
<1>5. Window' = Window /\ Told = "open" /\ Told' = "open"
  BY <1>2, <1>3, SameLedger DEF Window, Told
<1>6. Window \in SUBSET Nat /\ given' = {i \in Window : i <= b}
  BY <1>4, LedgerDomain, ReaderNow DEF Window, Seen, RInv, LedgerOK
<1> HIDE DEF b
<1>7. CASE given' = {}
  BY <1>3, <1>5, <1>7, FeedStutters
<1>8. CASE given' # {}
  <2>1. given' \in SUBSET Nat /\ \A i \in given' : i <= b
    BY <1>6
  <2>2. PICK n \in given' : \A i \in given' : n >= i
    BY <1>4, <1>8, <2>1, GreatestNumber
  <2>3. given' = {i \in Window : i <= n}
    <3>1. n \in Nat /\ n <= b /\ \A i \in Window : i \in Nat /\ (i <= b => i <= n)
      BY <1>6, <2>1, <2>2
    <3>2. \A i \in Window : i <= b <=> i <= n
      BY <1>4, <3>1
    <3>3. QED
      BY <1>6, <3>2
  <2>4. Feed!Deliver
    BY <1>3, <1>5, <2>3 DEF Feed!Deliver, Window, Told
  <2>5. QED
    BY <2>4 DEF Feed!Next
<1>9. QED
  BY <1>7, <1>8

\* The loop that ends has handed over the whole window.
LEMMA LoopEndIsDone ==
  ASSUME RInv, LoopEnds
  PROVE  Feed!Done
<1>1. UNCHANGED <<ledger, given>> /\ reader.pc = "loop" /\ reader.reached = reader.end
  BY ReaderNow DEF LoopEnds
<1>2. reader'.pc = "done" /\ reader'.begin = reader.begin /\ reader'.end = reader.end
  BY ReaderNow DEF LoopEnds, Reader
<1>3. given = Window
  BY <1>1 DEF RInv, ReaderOK, Window
<1>4. Window' = Window /\ Told = "open" /\ Told' = "done"
  BY <1>1, <1>2, SameLedger DEF Window, Told
<1>5. QED
  BY <1>1, <1>3, <1>4 DEF Feed!Done, Window, Told

\* Every step is one of a feed, or none.
LEMMA NextIsFeed == RInv /\ RInv' /\ [ReadsNext]_readsVars => [Feed!Next]_(Feed!vars)
<1> SUFFICES ASSUME RInv, RInv', [ReadsNext]_readsVars PROVE [Feed!Next]_(Feed!vars)
  OBVIOUS
<1>1. ASSUME UNCHANGED <<reader, given>>, UNCHANGED ledger \/ Write
      PROVE  [Feed!Next]_(Feed!vars)
  <2>1. PastStands
    BY <1>1, UnchangedStands, WriteStands DEF RInv
  <2>2. reader.begin \in 0..End /\ reader.end \in 0..End
    BY ReaderNow
  <2>3. Window' = Window /\ Told' = Told
    BY <1>1, <2>1, <2>2 DEF PastStands, Window, Told
  <2>4. QED
    BY <1>1, <2>3, FeedStutters
<1>2. CASE Write \/ Prune \/ AskNothing \/ UNCHANGED readsVars
  BY <1>1, <1>2 DEF Write, Prune, AskNothing, readsVars
<1>3. CASE ProbeHasEnd \/ ProbeAnswered \/ ProbeRefused \/ ProbeBreaks \/ \E offset : ProbeBegins(offset)
  BY <1>1, <1>3 DEF ProbeHasEnd, ProbeAnswered, ProbeRefused, ProbeBreaks, ProbeBegins
<1>4. CASE (\E offset : StartRead(offset)) \/ ReadAll \/ GoOn
  <2>1. /\ reader.pc \in {"idle", "failed", "done"} /\ reader'.pc \in {"asksContracts", "loop"}
        /\ given' = {}
    BY <1>4, ReaderNow DEF StartRead, ReadAll, GoOn, Reader
  <2>2. Told # "open" /\ Told' = "open"
    BY <2>1 DEF Told
  <2>3. QED
    BY <2>1, <2>2, FeedOpens DEF Feed!Next
<1>5. CASE QueryAnswered \/ AskPage \/ Refused \/ ReadRequestFails
  <2>1. /\ UNCHANGED <<ledger, given>> /\ reader.pc \in {"asksContracts", "loop", "asksPage"}
        /\ reader'.pc \in {"loop", "asksPage", "failed"}
        /\ reader'.begin = reader.begin /\ reader'.end = reader.end
    <3>1. CASE QueryAnswered
      BY <3>1, ReaderNow DEF QueryAnswered, Reader
    <3>2. CASE AskPage \/ Refused \/ ReadRequestFails
      BY <3>2, ReaderNow DEF AskPage, Refused, ReadRequestFails, Reader
    <3>3. QED
      BY <1>5, <3>1, <3>2
  <2>2. Window' = Window /\ Told = "open" /\ Told' \in {"open", "failed"}
    BY <2>1, SameLedger DEF Window, Told
  <2>3. QED
    BY <2>1, <2>2, FeedStutters, FeedFails DEF Feed!Next
<1>6. CASE PageAnswered \/ LoopEnds
  BY <1>6, PageDelivers, LoopEndIsDone DEF Feed!Next
<1>7. QED
  BY <1>2, <1>3, <1>4, <1>5, <1>6 DEF ReadsNext, Reading

\* getTransactionPage in a loop implements HistoryFeed: the updates of the window
\* are handed over in order, each once, and "done" means all of them.
THEOREM PagesAreAFeed == ReadsSpec => ImplementsFeed
<1>1. RInv /\ RInv' /\ [ReadsNext]_readsVars => [Feed!Next]_(Feed!vars)
  BY NextIsFeed
<1>2. ReadsInit => Feed!Init
  BY InitIsFeed
<1>3. QED
  BY <1>1, <1>2, ReadsInductive, PTL DEF ReadsSpec, ImplementsFeed, Feed!Spec

-----------------------------------------------------------------------------
\* Requests fail no oftener than the bound allows.
LEMMA FaultsAreBounded == ReadsSpec => [](faults \in 0..MaxFaults)
<1>1. ReadsInit => faults \in 0..MaxFaults
  BY ReadsAssumption DEF ReadsInit
<1>2. faults \in 0..MaxFaults /\ [ReadsNext]_readsVars => (faults \in 0..MaxFaults)'
  <2>1. [ReadsNext]_readsVars => UNCHANGED faults \/ Fault
    BY DEF ReadsNext, readsVars, Write, Prune, StartRead, ReadAll, Reading, QueryAnswered, Refused, AskPage,
           PageAnswered, LoopEnds, AskNothing, ReadRequestFails, GoOn, ProbeBegins, ProbeHasEnd,
           ProbeAnswered, ProbeRefused, ProbeBreaks
  <2>2. QED
    BY <2>1, ReadsAssumption DEF Fault
<1>3. QED
  BY <1>1, <1>2, PTL DEF ReadsSpec

\* Every reachable state is well typed.
THEOREM ReadsTypeCorrect == ReadsSpec => []ReadsTypeOK
<1>1. RInv /\ faults \in 0..MaxFaults => ReadsTypeOK
  <2> SUFFICES ASSUME RInv, faults \in 0..MaxFaults PROVE ReadsTypeOK
    OBVIOUS
  <2>1. given \subseteq 1..End
    BY LedgerDomain DEF RInv, ReaderOK, Seen
  <2>2. QED
    BY <2>1 DEF RInv, LedgerOK, ReaderOK, ProbeOK, ReadsTypeOK
<1>2. QED
  BY <1>1, ReadsInductive, FaultsAreBounded, PTL
=============================================================================
