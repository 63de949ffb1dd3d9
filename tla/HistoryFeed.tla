----------------------------- MODULE HistoryFeed -----------------------------
(***************************************************************************)
(* What every read of the update history promises, whichever way it gets   *)
(* the updates: those of a fixed window are handed over in the order of    *)
(* the ledger, each once, and a consumer that is told "done" has had all   *)
(* of them, unless something it can know of cut the read short.            *)
(***************************************************************************)
EXTENDS Naturals

VARIABLES
  window,   \* the positions of the updates that are to be read
  given,    \* those that the consumer has been handed
  told,     \* "closed", "open", "done" or "failed"
  cut       \* the read was cut short, by the consumer or by the network

vars == <<window, given, told, cut>>

Init == window \subseteq Nat /\ given = {} /\ told \in {"closed", "open"} /\ cut = FALSE

\* A window is opened, the first one or the next.
Open ==
  /\ told # "open" /\ told' = "open"
  /\ window' \subseteq Nat /\ given' = {} /\ cut' = FALSE

\* What is handed over next is what comes next in the window.
Deliver ==
  /\ told = "open" /\ told' = "open"
  /\ \E n \in given' : given' = {i \in window : i <= n}
  /\ given \subseteq given'
  /\ UNCHANGED window
  /\ cut => cut'

\* The consumer is ready to begin again.
Close == told # "open" /\ told' = "closed" /\ given' = {} /\ UNCHANGED <<window, cut>>

Cut == cut' = TRUE /\ UNCHANGED <<window, given, told>>

\* The last updates of a window may come with the news that it is over.
Done ==
  /\ told = "open" /\ told' = "done"
  /\ given \subseteq given' /\ given' \subseteq window
  /\ cut' \in BOOLEAN /\ (given' = window \/ cut')
  /\ UNCHANGED window

Fail == told = "open" /\ told' = "failed" /\ UNCHANGED <<window, given>> /\ cut' \in BOOLEAN

Next == Open \/ Close \/ Deliver \/ Cut \/ Done \/ Fail

Spec == Init /\ [][Next]_vars
=============================================================================
