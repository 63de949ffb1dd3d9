----------------------------- MODULE AppSession -----------------------------
(***************************************************************************)
(* The session of a web application: the CredentialsProvider of            *)
(* react/src/auth/AuthProvider.tsx, with oidcUserToLedgerAndCredentials    *)
(* (oidcConfig.ts), over the OIDC library, the session storage of the tab, *)
(* and a participant that knows the users.                                 *)
(*                                                                         *)
(* A render commits; the effects of the commit run later, all of them in   *)
(* order and with what was rendered, and before the next render.  Between  *)
(* the two a timer, an answer, the OIDC library or the user may be faster. *)
(* A login or a logout leaves the page, which goes on until it has left.   *)
(*                                                                         *)
(* A value that may be missing (a token, credentials, an attempt, a timer) *)
(* is a set of at most one.                                                *)
(***************************************************************************)
EXTENDS Naturals, FiniteSets

CONSTANTS
  Users, Tokens,
  Owner,       \* Owner[t]: the user that token t was issued to
  Exp,         \* Exp[t]: its exp claim
  Opaque,      \* tokens without a claim that can be read
  NoParty,     \* users that the participant knows no primary party of
  TimerMax,    \* TIMER_MAX_MS
  Careful,     \* the application offers a login only to who is not signed in,
               \* and a token login only where there is no OIDC session
  MaxTime,     \* bound: the clock
  MaxPages,    \* bound: loads of the page
  MaxFaults    \* bound: errors of the OIDC library and of the participant

ASSUME SessionAssumption ==
  /\ Owner \in [Tokens -> Users] /\ Exp \in [Tokens -> Nat] /\ Opaque \subseteq Tokens
  /\ NoParty \subseteq Users /\ TimerMax \in Nat \ {0} /\ Careful \in BOOLEAN
  /\ MaxTime \in Nat /\ MaxPages \in Nat /\ MaxFaults \in Nat

VARIABLES
  now,
  session,    \* the user store of the OIDC library: a token, or none
  oidc,       \* what useOidcAuth() returns
  state,      \* the state that the next render shows: credentials, derivationError
  deriving,   \* isDerivingCredentials
  shown,      \* what the last commit has rendered
  ran,        \* what the effects have last run with
  ref,        \* credentialsRef
  stored,     \* the credentials in sessionStorage
  attempts,   \* derivations that are in flight
  timer,      \* the watchdog's
  leaving,    \* "no", or why the page is left
  pages, faults

vars == <<now, session, oidc, state, deriving, shown, ran, ref, stored, attempts, timer,
          leaving, pages, faults>>

AtMostOne(S) == {{}} \cup {{x} : x \in S}
Credentials == [party : Users, token : Tokens, source : {"oidc", "manual"}]
Oidc == [loading : BOOLEAN, auth : BOOLEAN, user : AtMostOne(Tokens), error : BOOLEAN]

Expired(t) == t \notin Opaque /\ Exp[t] <= now
\* What the IdP issues, and the participant takes.
Usable == {t \in Tokens : Exp[t] > now}

NothingYet == [loading |-> TRUE, auth |-> FALSE, user |-> {}, error |-> FALSE]
FirstRender(creds) == [creds |-> creds, oidc |-> NothingYet, mounted |-> FALSE]

Init ==
  /\ now = 0 /\ session \in AtMostOne(Usable)
  /\ oidc = NothingYet
  /\ state = [creds |-> {}, error |-> FALSE] /\ deriving = FALSE
  /\ shown = FirstRender({}) /\ ran = shown /\ ref = {} /\ stored = {}
  /\ attempts = {} /\ timer = {}
  /\ leaving = "no" /\ pages = 0 /\ faults = 0

Fault == faults < MaxFaults /\ faults' = faults + 1

\* writeAuthState, the single writer.
writeAuthState(creds, error) ==
  state' = [creds |-> creds, error |-> error] /\ stored' = creds

-----------------------------------------------------------------------------
(* Renders and effects.                                                    *)

Current == [creds |-> state.creds, oidc |-> oidc, mounted |-> TRUE]

Render ==
  /\ shown = ran /\ shown # Current
  /\ shown' = Current
  /\ UNCHANGED <<now, session, oidc, state, deriving, ran, ref, stored, attempts, timer,
                 leaving, pages, faults>>

\* The dependencies that have changed since the effects ran.
Changed(field) == ~ran.mounted \/ ran.oidc[field] # shown.oidc[field]
CredsChanged == ~ran.mounted \/ ran.creds # shown.creds

\* Mutant: the effect does not depend on the credentials.
MutDeriveRuns == Changed("auth") \/ Changed("user") \/ Changed("error")
DeriveRuns == CredsChanged \/ Changed("auth") \/ Changed("user") \/ Changed("error")
Derives ==
  /\ DeriveRuns /\ shown.oidc.auth /\ shown.oidc.user # {} /\ shown.creds = {}
  /\ ~shown.oidc.error

\* The cleanup cancels what is in flight, and a new attempt is the latest one.
\* Mutant: a cleanup that cancels nothing.
MutCancelled(a) == a
Cancelled(a) == [a EXCEPT !.cancelled = @ \/ DeriveRuns, !.latest = @ /\ ~Derives]
NewAttempts ==
  IF Derives THEN {[token |-> t, cancelled |-> FALSE, latest |-> TRUE] : t \in shown.oidc.user}
  ELSE {}

\* The writes of the effects, in their order: what each of them sets.
Mirrors ==
  LET rotated == {t \in shown.oidc.user : \E c \in shown.creds : c.token # t} IN
  IF CredsChanged \/ Changed("user")
  THEN {{[c EXCEPT !.token = t] : c \in shown.creds} : t \in rotated} ELSE {}

\* Mutant: only the end of the session counts, not an error.
MutLost == shown.oidc.auth = FALSE
Lost == ~shown.oidc.auth \/ shown.oidc.error

Drops ==
  /\ CredsChanged \/ Changed("loading") \/ Changed("auth") \/ Changed("error")
  /\ \E c \in shown.creds : c.source = "oidc"
  /\ ~shown.oidc.loading /\ Lost

Watched == {c.token : c \in shown.creds} \ Opaque
Wipes == CredsChanged /\ \E t \in Watched : Expired(t)

Delay(t) == IF Exp[t] - now < TimerMax THEN Exp[t] - now ELSE TimerMax

\* Mutant: a token that takes the place of another goes unwatched.
MutWatchdog == IF ran.creds # {} THEN timer ELSE {[token |-> t, at |-> now + Delay(t)] : t \in Watched}
Watchdog ==
  IF ~CredsChanged THEN timer
  ELSE {[token |-> t, at |-> now + Delay(t)] : t \in {x \in Watched : ~Expired(x)}}

Effects ==
  /\ shown # ran /\ ran' = shown
  /\ ref' = shown.creds
  /\ attempts' = {Cancelled(a) : a \in attempts} \cup NewAttempts
  /\ deriving' = (deriving \/ Derives)
  /\ timer' = Watchdog
  /\ IF Drops \/ Wipes THEN writeAuthState({}, FALSE)
     ELSE IF Mirrors # {} THEN \E creds \in Mirrors : writeAuthState(creds, FALSE)
     ELSE state' = [state EXCEPT !.error = @ /\ ~Derives] /\ UNCHANGED stored
  /\ UNCHANGED <<now, session, oidc, shown, leaving, pages, faults>>

-----------------------------------------------------------------------------
(* oidcUserToLedgerAndCredentials                                          *)

\* Mutant: a cancelled attempt leaves the flag to others.
MutFinally(a) == attempts' = attempts \ {a} /\ deriving' = (deriving /\ ~(a.latest /\ ~a.cancelled))
Finally(a) == attempts' = attempts \ {a} /\ deriving' = (deriving /\ ~a.latest)

Derived ==
  \E a \in attempts :
    /\ a.token \in Usable /\ Owner[a.token] \notin NoParty
    /\ IF a.cancelled THEN UNCHANGED <<state, stored>>
       ELSE writeAuthState({[party |-> Owner[a.token], token |-> a.token, source |-> "oidc"]}, FALSE)
    /\ Finally(a)
    /\ UNCHANGED <<now, session, oidc, shown, ran, ref, timer, leaving, pages, faults>>

NotDerived ==
  \E a \in attempts :
    /\ IF a.token \in Usable /\ Owner[a.token] \notin NoParty THEN Fault ELSE UNCHANGED faults
    /\ IF a.cancelled THEN UNCHANGED <<state, stored>> ELSE writeAuthState({}, TRUE)
    /\ Finally(a)
    /\ UNCHANGED <<now, session, oidc, shown, ran, ref, timer, leaving, pages>>

-----------------------------------------------------------------------------
(* The watchdog's timer, which may be late.                                *)

InPlay(t) == \E c \in ref : c.token = t

WatchdogFires ==
  \E w \in timer :
    /\ w.at <= now
    /\ timer' = {}
    /\ IF InPlay(w.token) THEN writeAuthState({}, FALSE) ELSE UNCHANGED <<state, stored>>
    /\ UNCHANGED <<now, session, oidc, deriving, shown, ran, ref, attempts, leaving, pages, faults>>

Tick ==
  /\ now < MaxTime /\ now' = now + 1
  /\ UNCHANGED <<session, oidc, state, deriving, shown, ran, ref, stored, attempts, timer,
                 leaving, pages, faults>>

-----------------------------------------------------------------------------
(* The OIDC library.                                                       *)

SetOidc(value) ==
  /\ leaving = "no" /\ oidc' = value
  /\ UNCHANGED <<now, state, deriving, shown, ran, ref, stored, attempts, timer, leaving, pages>>

\* The redirect callback is over, or the stored user is read.
Settles ==
  /\ oidc.loading
  /\ SetOidc([loading |-> FALSE, auth |-> session \cap Usable # {}, user |-> session, error |-> FALSE])
  /\ UNCHANGED <<session, faults>>

SettlesWithError ==
  /\ oidc.loading /\ Fault
  /\ SetOidc([loading |-> FALSE, auth |-> FALSE, user |-> {}, error |-> TRUE])
  /\ UNCHANGED session

\* A silent renew: another token of the user.
Renews ==
  /\ ~oidc.loading
  /\ \E old \in session, t \in Usable :
       /\ t # old /\ Owner[t] = Owner[old] /\ session' = {t}
       /\ SetOidc([loading |-> FALSE, auth |-> TRUE, user |-> {t}, error |-> FALSE])
  /\ UNCHANGED faults

RenewFails ==
  /\ oidc.auth /\ ~oidc.error /\ Fault
  /\ SetOidc([oidc EXCEPT !.error = TRUE])
  /\ UNCHANGED session

\* The user signs out elsewhere.
SessionEnds ==
  /\ oidc.auth /\ session' = {}
  /\ SetOidc([oidc EXCEPT !.auth = FALSE, !.user = {}])
  /\ UNCHANGED faults

-----------------------------------------------------------------------------
(* The user and the application.                                           *)

Leave(why) == leaving = "no" /\ pages < MaxPages /\ leaving' = why

\* What is on the screen says that nobody is signed in, or about to be.
SignedOut ==
  shown = Current /\ shown.creds = {} /\ ~oidc.loading /\ ~oidc.auth /\ ~deriving

loginWithOidc ==
  /\ Careful => SignedOut
  /\ Leave("login")
  /\ UNCHANGED <<now, session, oidc, state, deriving, shown, ran, ref, stored, attempts, timer,
                 pages, faults>>

Reload ==
  /\ Leave("reload")
  /\ UNCHANGED <<now, session, oidc, state, deriving, shown, ran, ref, stored, attempts, timer,
                 pages, faults>>

\* A login with a token.
setCredentials ==
  /\ leaving = "no" /\ pages < MaxPages
  /\ Careful => SignedOut /\ session = {}
  /\ \E t \in Usable :
       writeAuthState({[party |-> Owner[t], token |-> t, source |-> "manual"]}, FALSE)
  /\ UNCHANGED <<now, session, oidc, deriving, shown, ran, ref, attempts, timer, leaving, pages,
                 faults>>

\* setCredentials(null), which a careful application offers to who is signed in.
dropCredentials ==
  /\ leaving = "no" /\ (Careful => shown.creds # {})
  /\ writeAuthState({}, FALSE)
  /\ UNCHANGED <<now, session, oidc, deriving, shown, ran, ref, attempts, timer, leaving, pages,
                 faults>>

\* signoutRedirect removes the user before it leaves.
logout ==
  /\ writeAuthState({}, FALSE)
  /\ IF shown.oidc.auth THEN Leave("logout") /\ session' = {}
     ELSE leaving = "no" /\ UNCHANGED <<leaving, session>>
  /\ UNCHANGED <<now, oidc, deriving, shown, ran, ref, attempts, timer, pages, faults>>

\* The next page begins with what is stored.
Mount ==
  /\ leaving # "no" /\ leaving' = "no" /\ pages' = pages + 1
  /\ IF leaving = "login" THEN \E t \in Usable : session' = {t} ELSE UNCHANGED session
  /\ oidc' = NothingYet
  /\ state' = [creds |-> stored, error |-> FALSE] /\ deriving' = FALSE
  /\ shown' = FirstRender(stored) /\ ran' = shown' /\ ref' = stored
  /\ attempts' = {} /\ timer' = {}
  /\ UNCHANGED <<now, stored, faults>>

-----------------------------------------------------------------------------
Library == Settles \/ SettlesWithError \/ Renews \/ RenewFails \/ SessionEnds

Next ==
  \/ Render \/ Effects \/ Derived \/ NotDerived \/ WatchdogFires \/ Tick
  \/ Library \/ loginWithOidc \/ Reload \/ setCredentials \/ dropCredentials \/ logout \/ Mount

Spec == Init /\ [][Next]_vars

\* React renders and runs its effects, requests are answered, timers fire, the
\* library settles, and a page that is left is followed by another.
FairSpec ==
  /\ Spec
  /\ WF_vars(Render) /\ WF_vars(Effects) /\ WF_vars(Derived \/ NotDerived)
  /\ WF_vars(WatchdogFires) /\ WF_vars(Tick) /\ WF_vars(Settles) /\ WF_vars(Mount)

-----------------------------------------------------------------------------
(* Properties.                                                             *)

TypeOK ==
  /\ now \in 0..MaxTime /\ session \in AtMostOne(Tokens) /\ oidc \in Oidc
  /\ state \in [creds : AtMostOne(Credentials), error : BOOLEAN] /\ deriving \in BOOLEAN
  /\ {shown, ran} \subseteq [creds : AtMostOne(Credentials), oidc : Oidc, mounted : BOOLEAN]
  /\ ref \in AtMostOne(Credentials) /\ stored \in AtMostOne(Credentials)
  /\ attempts \subseteq [token : Tokens, cancelled : BOOLEAN, latest : BOOLEAN]
  /\ timer \subseteq [token : Tokens, at : Nat] /\ Cardinality(timer) <= 1
  /\ leaving \in {"no", "login", "logout", "reload"}
  /\ pages \in 0..MaxPages /\ faults \in 0..MaxFaults

\* The token and the party of the credentials are of one user (Credentials: "The
\* token is the access_token issued by the IdP; party is the user's primary Daml
\* party"), whatever derivations, renewals, logins, logouts and reloads cross.
OneIdentity == \A c \in state.creds \cup stored : Owner[c.token] = c.party

\* isDerivingCredentials is set while the latest derivation is in flight and
\* never else ("leave isDerivingCredentials stuck on `true`").
DerivingIsTrue == deriving = (\E a \in attempts : a.latest)

\* Credentials of a session that the library has lost do not stay ("keep the app
\* signed in with a token the IdP no longer recognizes").
IsLost == leaving = "no" /\ ~oidc.loading /\ (~oidc.auth \/ oidc.error)
HasOidcCredentials == \E c \in state.creds : c.source = "oidc"
LostIsDropped == []<>(~(IsLost /\ HasOidcCredentials))

\* Nor do credentials whose token has expired ("a tab that misses silent-renew").
ExpiredIsDropped == []<>(\A c \in state.creds : ~Expired(c.token))

\* Who is signed in comes to have credentials, or an error that says why not.
ComesIn ==
  []<>(\/ state.creds # {} \/ state.error \/ leaving # "no"
       \/ ~oidc.auth \/ oidc.error)

\* Contradicted: the watchdog drops no token that is still good: "a stale-fire timer callback
\* does not null an already-rotated credential" (AuthProvider.test.tsx), and at
\* the clamp it "finds the token still in play, and credentialsRef-CAS skips the
\* wipe".
WatchdogSparesGoodTokens ==
  [][WatchdogFires => \A c \in state.creds : ~Expired(c.token) => state'.creds = state.creds]_vars
=============================================================================
