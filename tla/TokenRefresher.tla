---------------------------- MODULE TokenRefresher ----------------------------
(***************************************************************************)
(* TokenRefresher in ledger/src/tokenRefresher.ts: it keeps the access     *)
(* token of a service valid by minting a new one before the current one    *)
(* expires, and retries with back-off after a failure.                     *)
(*                                                                         *)
(* Times are ticks that remain: of the armed timer, of the token.  A timer *)
(* fires on time; a mint takes as long as it likes.  The hooks run inside  *)
(* the continuation that delivers the outcome, before the finally block    *)
(* clears the promise, and may themselves call refreshNow or stop.         *)
(***************************************************************************)
EXTENDS Integers

CONSTANTS
  Lifetimes,      \* what is left of a token when the source delivers it
  RefreshDelay,   \* refreshDelayMs of a token with that much left
  MinRefresh,     \* MIN_REFRESH_MS
  MaxTimerDelay,  \* MAX_TIMER_DELAY_MS
  RetryBase, RetryMax,
  MaxFailures     \* bound: failures counts up to here, where the delay is RetryMax

NoTimer == -1   \* null

ASSUME RefresherAssumption ==
  /\ Lifetimes \subseteq Nat
  /\ RefreshDelay \in [Lifetimes -> Nat]
  /\ \A l \in Lifetimes : RefreshDelay[l] < l \/ RefreshDelay[l] = 0   \* a fraction below 1
  /\ MinRefresh \in Nat \ {0}
  /\ MaxTimerDelay \in Nat /\ MinRefresh <= MaxTimerDelay
  /\ RetryBase \in Nat \ {0} /\ RetryMax \in Nat \ {0}
  /\ MaxFailures \in Nat \ {0}
  /\ \A n \in 1..MaxFailures : RetryBase * 2 ^ (n - 1) \in Nat \ {0}

VARIABLES
  state,
  timer,     \* ticks until the armed timer fires, or NoTimer
  first,     \* the mint of start() is pending
  inFlight,  \* "none", "minting", or "delivering" until the finally block
  left,      \* ticks until tokenExpiresAt
  failures,  \* lastError is set exactly when it is not 0
  hooks,     \* history: changes with every call of onToken or onFailure
  healthy    \* the source: while it is, every mint gives a usable token

refresherVars == <<state, timer, first, inFlight, left, failures, hooks, healthy>>

RefresherInit ==
  /\ state = "new" /\ timer = NoTimer /\ first = FALSE /\ inFlight = "none"
  /\ left = 0 /\ failures = 0 /\ hooks = 0
  /\ healthy \in BOOLEAN

Least(a, b) == IF a < b THEN a ELSE b
Most(a, b)  == IF a > b THEN a ELSE b

\* setTimeout of the platform: it "runs a longer delay at once" (tokenRefresher.ts:58).
SetTimeout(delay) == IF delay > MaxTimerDelay THEN 0 ELSE delay

\* Mutant: the delay is not clamped.
MutArm(delay) == SetTimeout(delay)
Arm(delay) == SetTimeout(Least(delay, MaxTimerDelay))

\* accept()'s timer.
RefreshAfter(l) == Arm(Most(MinRefresh, RefreshDelay[l]))

\* That of retryDelayMs.
Retry(n) == Arm(Least(RetryMax, RetryBase * 2 ^ (n - 1)))

\* mint() throws for a token that expires too soon to refresh it.
Refreshable(l) == RefreshDelay[l] >= MinRefresh

Tell == hooks' = 1 - hooks

Accept(l) ==
  /\ left' = l /\ failures' = 0
  /\ timer' = RefreshAfter(l)
  /\ Tell

Reject ==
  /\ failures' = Least(failures + 1, MaxFailures)
  /\ timer' = Retry(failures')
  /\ Tell
  /\ UNCHANGED left

-----------------------------------------------------------------------------
(* start() and the end of its mint.                                        *)

Start ==
  /\ state = "new" /\ state' = "starting"
  /\ first' = TRUE
  /\ UNCHANGED <<timer, inFlight, left, failures, hooks, healthy>>

FirstToken(l) ==
  /\ first /\ first' = FALSE
  /\ Refreshable(l)
  /\ IF state = "starting"
     THEN state' = "running" /\ Accept(l)
     ELSE UNCHANGED <<state, timer, left, failures, hooks>>
  /\ UNCHANGED <<inFlight, healthy>>

FirstFails ==
  /\ first /\ first' = FALSE
  /\ ~healthy
  /\ state' = IF state = "starting" THEN "new" ELSE state
  /\ UNCHANGED <<timer, inFlight, left, failures, hooks, healthy>>

-----------------------------------------------------------------------------
(* refresh(), by the timer or by refreshNow(), and the end of its mint.    *)

\* A call during a refresh joins it and changes nothing.
RefreshNow ==
  /\ state = "running"
  /\ inFlight = "none" /\ inFlight' = "minting"
  /\ UNCHANGED <<state, timer, first, left, failures, hooks, healthy>>

TimerFires ==
  /\ timer = 0 /\ timer' = NoTimer
  /\ inFlight' = IF inFlight = "none" THEN "minting" ELSE inFlight
  /\ UNCHANGED <<state, first, left, failures, hooks, healthy>>

\* Mutant: the outcome is handled whatever the state.
MutOutcomeSettled(outcome) ==
  /\ inFlight = "minting" /\ inFlight' = "delivering"
  /\ outcome
  /\ UNCHANGED <<state, first, healthy>>

\* The outcome of a mint counts only while the refresher runs.
OutcomeSettled(outcome) ==
  /\ inFlight = "minting" /\ inFlight' = "delivering"
  /\ IF state = "running" THEN outcome ELSE UNCHANGED <<timer, left, failures, hooks>>
  /\ UNCHANGED <<state, first, healthy>>

RefreshSucceeds(l) == Refreshable(l) /\ OutcomeSettled(Accept(l))

\* The source throws or rejects, or the token expires too soon.
RefreshFails == ~healthy /\ OutcomeSettled(Reject)

\* Mutant: the promise is kept.
MutFinally ==
  /\ inFlight = "delivering"
  /\ UNCHANGED refresherVars

Finally ==
  /\ inFlight = "delivering" /\ inFlight' = "none"
  /\ UNCHANGED <<state, timer, first, left, failures, hooks, healthy>>

Stop ==
  /\ state # "stopped" /\ state' = "stopped"
  /\ timer' = NoTimer
  /\ UNCHANGED <<first, inFlight, left, failures, hooks, healthy>>

-----------------------------------------------------------------------------
(* The environment.                                                        *)

\* Time passes between the events of the loop; a due timer fires first.
RefresherTick ==
  /\ inFlight # "delivering" /\ timer # 0
  /\ timer' = IF timer = NoTimer THEN NoTimer ELSE timer - 1
  /\ left' = IF left > 0 THEN left - 1 ELSE 0
  /\ UNCHANGED <<state, first, inFlight, failures, hooks, healthy>>

SourceChanges ==
  /\ healthy' = ~healthy
  /\ UNCHANGED <<state, timer, first, inFlight, left, failures, hooks>>

MintEnds == RefreshFails \/ \E l \in Lifetimes : RefreshSucceeds(l)

RefresherNext ==
  \/ Start \/ FirstFails \/ RefreshNow \/ TimerFires
  \/ \E l \in Lifetimes : FirstToken(l)
  \/ MintEnds \/ Finally \/ Stop \/ RefresherTick \/ SourceChanges

RefresherSpec == RefresherInit /\ [][RefresherNext]_refresherVars

\* Time passes, timers fire, continuations run, and a mint ends: the requests
\* of openid-client time out.
FairRefresherSpec ==
  /\ RefresherSpec
  /\ WF_refresherVars(RefresherTick) /\ WF_refresherVars(TimerFires) /\ WF_refresherVars(MintEnds) /\ WF_refresherVars(Finally)

-----------------------------------------------------------------------------
(* Properties.                                                             *)

RefresherTypeOK ==
  /\ state \in {"new", "starting", "running", "stopped"}
  /\ timer \in -1..MaxTimerDelay
  /\ first \in BOOLEAN
  /\ inFlight \in {"none", "minting", "delivering"}
  /\ left \in Nat /\ failures \in 0..MaxFailures /\ hooks \in {0, 1}
  /\ healthy \in BOOLEAN

\* The schedule never dies: a running refresher has a timer armed or a mint
\* in flight, and an idle one has neither, in whatever order timers, calls of
\* refreshNow and stop, and the ends of mints come.
RunningMeansScheduled ==
  /\ state = "running" => timer # NoTimer \/ inFlight = "minting"
  /\ state # "running" => timer = NoTimer
  /\ state \in {"new", "starting"} => inFlight = "none"

\* While nothing has failed, the armed refresh comes before the token expires
\* ("gets a new token before the current one expires"), and not before its time: no
\* more is left of the token then than the fraction of its life that was not to be
\* used, or than the longest timer leaves.  So a delay beyond the limit of setTimeout
\* neither lets a token expire nor fires at once and mints without end, whatever
\* refreshNow and slow mints come between.
RefreshOnTime ==
  failures = 0 /\ timer # NoTimer =>
    /\ timer < left
    /\ \E l \in Lifetimes : left - timer = l - Least(RefreshDelay[l], MaxTimerDelay)

\* "A refresh in flight delivers no token and arms no timer" after stop().
QuietAfterStop ==
  [][state = "stopped" =>
       state' = "stopped" /\ timer' = NoTimer /\ hooks' = hooks /\ left' <= left]_refresherVars

\* "retries with backoff until a request succeeds": when the source is good
\* from some time on, a running refresher holds a valid token again and again.
TokenRecovers ==
  <>[]healthy => []<>(state = "running" => left > 0)
=============================================================================
