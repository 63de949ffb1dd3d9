----------------------------- MODULE HistoryReads -----------------------------
(***************************************************************************)
(* A consumer that keeps the contracts of a template by reading: a query   *)
(* of the active contracts at an offset, then the history after it, page   *)
(* by page (Ledger.query, getTransactionPage, getLatestPrunedOffsets), and *)
(* the search for the first event after an offset (probeOffset); all of    *)
(* ledger/src/ledger.ts.  Meanwhile the ledger grows and is pruned.        *)
(*                                                                         *)
(* The participant cuts a page where it likes, the caller may lower the    *)
(* cap, and a page may hold updates that are not transactions.             *)
(***************************************************************************)
EXTENDS Naturals, FiniteSets, FiniteSetsExt

CONSTANTS
  Contracts,
  Wanted,       \* contracts of the template that the consumer reads
  Undecodable,  \* contracts that the registry does not know
  Interface,    \* the read is by interface (queryInterface), not by template
  OtherKinds,   \* what a page may hold besides transactions
  Limits,       \* what options.limit may be: {} for none, {n} for n
  ServerLimit,  \* http-list-max-elements-limit
  ScanLimit,    \* scanLimit of probeOffset
  MaxOffset,    \* bound: the end of the ledger
  MaxFaults     \* bound: requests that fail, and reads that start over

KnownKinds == {"OffsetCheckpoint", "Reassignment", "TopologyTransaction"}

ASSUME ReadsAssumption ==
  /\ Wanted \subseteq Contracts /\ Undecodable \subseteq Wanted
  /\ Interface \in BOOLEAN /\ OtherKinds \subseteq KnownKinds
  /\ Limits \subseteq SUBSET Nat /\ ServerLimit \in Nat \ {0}
  /\ ScanLimit \in Nat /\ MaxOffset \in Nat /\ MaxFaults \in Nat

VARIABLES
  ledger,   \* the updates: at each offset what its transaction does, or "hidden"
  pruned,   \* participantPrunedUpToInclusive
  known,    \* the last answer of getLedgerEnd, from its cache or not
  reader,   \* the consumer's loop over (begin, end]
  view,     \* the contracts it has
  given,    \* history: the offsets of the transactions it was handed
  probe,    \* a call of probeOffset; answer 0 is null
  faults

readsVars == <<ledger, pruned, known, reader, view, given, probe, faults>>

End == Cardinality(DOMAIN ledger)

Update == [does : {"create", "archive"}, cid : Contracts] \cup [does : {"hidden"}, cid : {"none"}]
Reader == [pc : {"idle", "asksContracts", "loop", "asksPage", "done", "failed"},
           begin : Nat, end : Nat, reached : Nat, limit : Limits \cup {{}}]
Probe == [pc : {"idle", "asksEnd", "reads", "answered", "broke", "threw"},
          begin : Nat, end : Nat, answer : Nat]

ReadsInit ==
  /\ ledger = [o \in {} |-> 0] /\ pruned = 0 /\ known = 0
  /\ reader = [pc |-> "idle", begin |-> 0, end |-> 0, reached |-> 0, limit |-> {}]
  /\ view = {} /\ given = {}
  /\ probe = [pc |-> "idle", begin |-> 0, end |-> 0, answer |-> 0]
  /\ faults = 0

Fault == faults < MaxFaults /\ faults' = faults + 1

-----------------------------------------------------------------------------
(* The ledger.                                                             *)

Offsets(what, c) == {o \in DOMAIN ledger : ledger[o].does = what /\ ledger[o].cid = c}
CreatedBy(o) == {c \in Contracts : \E i \in Offsets("create", c) : i <= o}
ArchivedBy(o) == {c \in Contracts : \E i \in Offsets("archive", c) : i <= o}
ActiveAt(o) == CreatedBy(o) \ ArchivedBy(o)

\* The transactions of (begin, end] that the parties see.
Seen(begin, end) == {o \in DOMAIN ledger : begin < o /\ o <= end /\ ledger[o].does # "hidden"}

Write ==
  /\ End < MaxOffset
  /\ \E u \in Update :
       /\ u.does = "create" => u.cid \notin CreatedBy(End)
       /\ u.does = "archive" => u.cid \in ActiveAt(End)
       /\ ledger' = [o \in DOMAIN ledger \cup {End + 1} |-> IF o = End + 1 THEN u ELSE ledger[o]]
  /\ UNCHANGED <<pruned, known, reader, view, given, probe, faults>>

Prune ==
  /\ \E o \in DOMAIN ledger : pruned < o /\ pruned' = o
  /\ UNCHANGED <<ledger, known, reader, view, given, probe, faults>>

-----------------------------------------------------------------------------
(* Offsets: "start", "end" or a number.                                    *)

LedgerOffset(is, n) == [is |-> is, number |-> n]
Start == LedgerOffset("start", 0)
AtEnd == LedgerOffset("end", 0)

\* Fresh, or as it was when it was last asked for.
getLedgerEnd(o) == known <= o /\ o <= End /\ known' = o

resolveOffset(offset, o) ==
  IF offset.is = "end" THEN getLedgerEnd(o) ELSE o = offset.number /\ UNCHANGED known

-----------------------------------------------------------------------------
(* query and queryInterface.                                               *)

\* The rows of the answer: active contracts, of other templates as well where
\* the packages overlap, and those on their way between two synchronizers.
Rows(active, moving) ==
  [entry : {"JsActiveContract"}, cid : active] \cup [entry : {"JsIncompleteAssigned"}, cid : moving]

\* Mutant: the entries that are not active contracts are kept.
MutCreateEventsFromWire(rows) == {r.cid : r \in {x \in rows : x.cid \in Wanted}}
createEventsFromWire(rows) ==
  {r.cid : r \in {x \in rows : x.entry = "JsActiveContract" /\ x.cid \in Wanted}}

\* createEvent_ throws for what the registry does not have; interfaceEvent_
\* leaves it out.
Throws(rows) == ~Interface /\ createEventsFromWire(rows) \cap Undecodable # {}
Kept(cids) == IF Interface THEN cids \ Undecodable ELSE cids

\* The loop begins: at the end of the ledger, or where pruning has left it
\* (getLatestPrunedOffsets).
StartRead(offset) ==
  /\ \/ reader.pc = "idle" /\ UNCHANGED faults
     \/ reader.pc = "failed" /\ Fault
  /\ \E o \in 0..End :
       /\ resolveOffset(offset, o)
       /\ reader' = [reader EXCEPT !.pc = "asksContracts", !.begin = o, !.end = o, !.reached = o]
  /\ given' = {}
  /\ UNCHANGED <<ledger, pruned, view, probe>>

QueryAnswered ==
  /\ reader.pc = "asksContracts" /\ pruned <= reader.begin
  /\ \E moving \in SUBSET (Contracts \ ActiveAt(reader.begin)) :
     LET rows == Rows(ActiveAt(reader.begin), moving) IN
       IF Throws(rows) \/ Cardinality(rows) > ServerLimit
       THEN reader' = [reader EXCEPT !.pc = "failed"] /\ UNCHANGED view
       ELSE reader' = [reader EXCEPT !.pc = "loop"] /\ view' = Kept(createEventsFromWire(rows))
  /\ UNCHANGED <<ledger, pruned, known, given, probe, faults>>

\* Or without a query, from the beginning of the ledger.
ReadAll ==
  /\ reader.pc = "idle" /\ view' = {} /\ given' = {}
  /\ \E o \in 0..End :
       /\ getLedgerEnd(o)
       /\ reader' = [reader EXCEPT !.pc = "loop", !.begin = 0, !.end = o, !.reached = 0]
  /\ UNCHANGED <<ledger, pruned, probe, faults>>

-----------------------------------------------------------------------------
(* getTransactionPage                                                      *)

Cap(limit) == Min({ServerLimit} \cup limit)

LimitOK(limit) == \A n \in limit : n >= 1

\* What the participant may answer: the transactions the parties see and some
\* other updates, in order, up to one of them.
Pages(begin, end, cap) ==
  LET seen == Seen(begin, end)
      Sent(all, kind, last) ==
        {[offset |-> o, kind |-> IF o \in seen THEN "Transaction" ELSE kind]
           : o \in {x \in all : x <= last}}
      For(all) ==
        IF all = {} \/ cap = 0 THEN {{}}
        ELSE {Sent(all, kind, last) : kind \in OtherKinds, last \in all}
  IN {page \in UNION {For(seen \cup more) : more \in SUBSET (((begin + 1)..end) \ seen)} :
        Cardinality(page) <= cap}

\* Mutant: an empty page says nothing of the range.
MutReachedStuck(begin, end, page) ==
  Max({begin} \cup {u.offset : u \in {x \in page : x.kind \in {"Transaction"} \cup KnownKinds}})
\* Mutant: a page is taken for the whole range.
MutReachedOffset(begin, end, page) == end
reachedOffset(begin, end, page) ==
  IF page = {} THEN end
  ELSE Max({begin} \cup {u.offset : u \in {x \in page : x.kind \in {"Transaction"} \cup KnownKinds}})

transactions(page) == {u.offset : u \in {x \in page : x.kind = "Transaction"}}

AskPage ==
  /\ reader.pc = "loop" /\ reader.reached < reader.end
  /\ \E limit \in Limits :
       LimitOK(limit) /\ reader' = [reader EXCEPT !.pc = "asksPage", !.limit = limit]
  /\ UNCHANGED <<ledger, pruned, known, view, given, probe, faults>>

\* The call throws a RangeError.
AskNothing ==
  /\ reader.pc = "loop" /\ Fault
  /\ \E limit \in Limits : ~LimitOK(limit)
  /\ UNCHANGED <<ledger, pruned, known, reader, view, given, probe>>

PageAnswered ==
  /\ reader.pc = "asksPage" /\ pruned <= reader.reached
  /\ \E page \in Pages(reader.reached, reader.end, Cap(reader.limit)) :
       LET new == transactions(page) IN
       /\ reader' = [reader EXCEPT !.pc = "loop",
                                   !.reached = reachedOffset(reader.reached, reader.end, page)]
       /\ given' = given \cup new
       /\ view' = Kept({c \in Wanted : c \in view \/ new \cap Offsets("create", c) # {}})
                    \ {c \in Wanted : new \cap Offsets("archive", c) # {}}
  /\ UNCHANGED <<ledger, pruned, known, probe, faults>>

LoopEnds ==
  /\ reader.pc = "loop" /\ reader.reached >= reader.end
  /\ reader' = [reader EXCEPT !.pc = "done"]
  /\ UNCHANGED <<ledger, pruned, known, view, given, probe, faults>>

\* What it wants to read is pruned.
Refused ==
  /\ \/ reader.pc = "asksContracts" /\ pruned > reader.begin
     \/ reader.pc = "asksPage" /\ pruned > reader.reached
  /\ reader' = [reader EXCEPT !.pc = "failed"]
  /\ UNCHANGED <<ledger, pruned, known, view, given, probe, faults>>

\* A request fails: a page can be asked for again, a query starts over.
ReadRequestFails ==
  /\ reader.pc \in {"asksContracts", "asksPage"} /\ Fault
  /\ reader' = [reader EXCEPT !.pc = IF reader.pc = "asksPage" THEN "loop" ELSE "failed"]
  /\ UNCHANGED <<ledger, pruned, known, view, given, probe>>

\* Later, the loop goes on to a new end.
GoOn ==
  /\ reader.pc = "done"
  /\ \E o \in 0..End :
       /\ getLedgerEnd(o) /\ o > reader.reached
       /\ reader' = [reader EXCEPT !.pc = "loop", !.begin = reader.reached, !.end = o]
  /\ given' = {}
  /\ UNCHANGED <<ledger, pruned, view, probe, faults>>

-----------------------------------------------------------------------------
(* probeOffset                                                             *)

ProbeBegins(offset) ==
  /\ probe.pc = "idle"
  /\ \E o \in 0..MaxOffset :
       resolveOffset(offset, o) /\ probe' = [probe EXCEPT !.pc = "asksEnd", !.begin = o]
  /\ UNCHANGED <<ledger, pruned, reader, view, given, faults>>

\* Mutant: the range begins after the offset.
MutBeginExclusive == probe.begin
BeginExclusive == IF probe.begin = 0 THEN 0 ELSE probe.begin - 1

ProbeHasEnd ==
  /\ probe.pc = "asksEnd"
  /\ \E o \in 0..End :
       LET end == Min({probe.begin + ScanLimit, o}) IN
       /\ getLedgerEnd(o)
       /\ probe' = [probe EXCEPT !.pc = IF end <= BeginExclusive THEN "answered" ELSE "reads",
                                 !.end = end]
  /\ UNCHANGED <<ledger, pruned, reader, view, given, faults>>

\* The events of the template in (begin, end]; creates that do not decode are
\* left out (streamHistoryUpdates).
Events(begin, end) ==
  {o \in Seen(begin, end) :
     /\ ledger[o].cid \in Wanted
     /\ ~(ledger[o].does = "create" /\ ledger[o].cid \in Undecodable)}

ProbeAnswered ==
  /\ probe.pc = "reads" /\ pruned <= BeginExclusive
  /\ LET events == Events(BeginExclusive, probe.end) IN
       probe' = [probe EXCEPT !.pc = "answered",
                              !.answer = IF events = {} THEN 0 ELSE Min(events)]
  /\ UNCHANGED <<ledger, pruned, known, reader, view, given, faults>>

ProbeRefused ==
  /\ probe.pc = "reads" /\ pruned > BeginExclusive
  /\ probe' = [probe EXCEPT !.pc = "threw"]
  /\ UNCHANGED <<ledger, pruned, known, reader, view, given, faults>>

\* The connection breaks, or it ends while the schemas of its events load (`finish`
\* of onclose): the iteration ends, and the answer is null.
ProbeBreaks ==
  /\ probe.pc = "reads" /\ Fault
  /\ probe' = [probe EXCEPT !.pc = "broke"]
  /\ UNCHANGED <<ledger, pruned, known, reader, view, given>>

-----------------------------------------------------------------------------
Reading == QueryAnswered \/ Refused \/ AskPage \/ PageAnswered \/ LoopEnds

ReadsNext ==
  \/ Write \/ Prune
  \/ StartRead(AtEnd) \/ StartRead(LedgerOffset("number", pruned)) \/ ReadAll \/ Reading
  \/ AskNothing \/ ReadRequestFails \/ GoOn
  \/ \E offset \in {Start, AtEnd} \cup {LedgerOffset("number", n) : n \in 1..MaxOffset} :
       ProbeBegins(offset)
  \/ ProbeHasEnd \/ ProbeAnswered \/ ProbeRefused \/ ProbeBreaks

ReadsSpec == ReadsInit /\ [][ReadsNext]_readsVars

\* Requests are answered, and the consumer loops.
FairReadsSpec == ReadsSpec /\ WF_readsVars(Reading)

-----------------------------------------------------------------------------
(* Properties.                                                             *)

ReadsTypeOK ==
  /\ ledger \in [1..End -> Update] /\ pruned \in 0..End /\ known \in 0..End
  /\ reader \in Reader /\ probe \in Probe
  /\ view \subseteq Contracts /\ given \subseteq 1..End /\ faults \in 0..MaxFaults

\* Wherever pages are cut, whatever else they hold, and whatever is written or
\* pruned meanwhile: a query and the pages after it give the contracts that are
\* active at the offset reached ("Read the next page with beginExclusive =
\* reachedOffset until it equals the end").
ViewIsOfTheLedger ==
  reader.pc \in {"loop", "asksPage", "done"} => view = Kept(ActiveAt(reader.reached) \cap Wanted)

\* The pages hand over the window's transactions as a feed does.
Feed == INSTANCE HistoryFeed WITH
  window <- Seen(reader.begin, reader.end),
  told <- CASE reader.pc = "idle" -> "closed"
            [] reader.pc \in {"done", "failed"} -> reader.pc
            [] OTHER -> "open",
  cut <- FALSE

\* Refinement: getTransactionPage in a loop implements HistoryFeed.
ImplementsFeed == Feed!Spec

\* "Read the first matching event AT OR AFTER offset, scanning up to scanLimit
\* offsets forward", of the ledger up to the end it was told.
ProbeIsFirst ==
  probe.pc = "answered" =>
    LET events == {o \in Events(0, probe.end) : o >= probe.begin} IN
    IF probe.answer = 0 THEN events = {}
    ELSE probe.answer \in events /\ \A o \in events : probe.answer <= o

\* A loop comes to the end of its window, or fails.
ReadEnds ==
  reader.pc \in {"asksContracts", "loop", "asksPage"} ~> reader.pc \in {"done", "failed"}
=============================================================================
