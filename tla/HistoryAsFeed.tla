---------------------------- MODULE HistoryAsFeed ----------------------------
(***************************************************************************)
(* The iterator of HistoryIterable as a HistoryFeed: what is to be read    *)
(* are the events of the window, in order; what is handed over are the     *)
(* answers of the next() calls; the consumer is told of the end or of an   *)
(* error by the first answer that says so.                                 *)
(***************************************************************************)
EXTENDS HistoryIterable

CONSTANTS
  Window,   \* the events of all the messages, in order
  Ends      \* Ends[n]: how many of them the first n messages hold

ASSUME WindowAssumption ==
  /\ Window \in Seq(Events)
  /\ Ends \in [0..Len(Messages) -> 0..Len(Window)]
  /\ Ends[0] = 0 /\ Ends[Len(Messages)] = Len(Window)
  /\ \A n \in 1..Len(Messages) :
       /\ Ends[n] = Ends[n - 1] + Len(Messages[n])
       /\ \A j \in 1..Len(Messages[n]) : Window[Ends[n - 1] + j] = Messages[n][j]
  /\ \A i, j \in 1..Len(Window) : Window[i] = Window[j] => i = j   \* an event is itself

Has(answer) == \E i \in DOMAIN answers : answers[i] = answer

\* The places in the window of the events that were given.
Yielded == {k \in DOMAIN Window : Has(Window[k])}

Told == IF Has(Failed) THEN "failed" ELSE IF Has(Done) THEN "done" ELSE "open"

Feed == INSTANCE HistoryFeed WITH
  window <- DOMAIN Window, given <- Yielded, told <- Told, cut <- cut # {}

\* Refinement: what the calls of next() are answered, in whatever order calls,
\* messages, schemas, faults and return() come, is a HistoryFeed: nothing out of
\* order, nothing after the end or an error, and no end before the last event
\* unless the replay was cut short.
ImplementsFeed == Feed!Spec
=============================================================================
