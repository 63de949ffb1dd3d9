-------------------------- MODULE TransactionEvents --------------------------
(***************************************************************************)
(* What a caller is given of the transaction its command became: the       *)
(* events in nodeId order, the lookups in them (ledger/src/events.ts), and *)
(* the answers of create and exerciseResult (ledger.ts,                    *)
(* exerciseResult.ts).  The participant may list the events in any order.  *)
(* A search in a list of events is the set of the positions that match.    *)
(***************************************************************************)
EXTENDS Integers, Sequences, FiniteSets, FiniteSetsExt

\* An event: "create", "archive" or "exercised" (in the LEDGER_EFFECTS shape
\* only), its place in the transaction tree, and for an exercise the choice.
NoEvent == [type |-> "none", contractId |-> "none", templateId |-> "none",
            nodeId |-> 0, choice |-> "none"]

\* The sort is stable: equal node ids keep the order in which they came.
Before(events, i, j) ==
  \/ events[i].nodeId < events[j].nodeId
  \/ events[i].nodeId = events[j].nodeId /\ i < j

Place(events, i) == Cardinality({j \in DOMAIN events : Before(events, j, i)}) + 1

sortEventsByNodeId(events) ==
  [k \in DOMAIN events |-> events[CHOOSE i \in DOMAIN events : Place(events, i) = k]]

archivedContractIds(events) ==
  {events[i].contractId : i \in {j \in DOMAIN events : events[j].type = "archive"}}

\* The loops return at the first match.
First(events, found) == IF found = {} THEN NoEvent ELSE events[Min(found)]

OfTemplate(events, type, templateId) ==
  {i \in DOMAIN events : events[i].type = type /\ events[i].templateId = templateId}

\* Mutant: a contract that the same transaction archives is found as well.
MutLookupCreatedEvents(events, templateId) == OfTemplate(events, "create", templateId)
lookupCreatedEvents(events, templateId) ==
  {i \in OfTemplate(events, "create", templateId) :
     events[i].contractId \notin archivedContractIds(events)}

lookupCreatedEvent(events, templateId) ==
  First(events, lookupCreatedEvents(events, templateId))

lookupArchivedEvent(events, templateId) ==
  First(events, OfTemplate(events, "archive", templateId))

\* The root exercise: the choice that was submitted, on its contract.
decodeExerciseResult(events, choice, contractId) ==
  First(events, {i \in DOMAIN events : /\ events[i].type = "exercised"
                                       /\ events[i].choice = choice
                                       /\ events[i].contractId = contractId})

\* create: the one event that creates a contract of the template, else an error.
TheCreated(events, templateId) ==
  LET created == OfTemplate(events, "create", templateId)
  IN IF Cardinality(created) = 1 THEN First(events, created) ELSE NoEvent
=============================================================================
