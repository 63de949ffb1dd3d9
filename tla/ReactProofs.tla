---------------------------- MODULE ReactProofs -----------------------------
(***************************************************************************)
(* Theorems about AppSession, for any users and tokens, any number of page *)
(* loads, ticks and faults, and about MultiStream, for any mapping, any    *)
(* contracts and any number of renders, listeners and events.              *)
(*                                                                         *)
(* Everything that can still reach the credentials of a page is a token of *)
(* one user; what carries it over to the next page is the application that *)
(* offers a login only to who is signed out.  Of the runs of MultiStream's *)
(* effect only the last can be in force, and a run in which something was  *)
(* heard is open and has its listeners.                                    *)
(***************************************************************************)
EXTENDS AppSession, MultiStream, TLAPS

-----------------------------------------------------------------------------
(* AppSession.                                                             *)

\* The tokens of what a page holds, shows, or may yet be answered.
CredsTokens == {c.token : c \in state.creds \cup shown.creds}
Pending == {a \in attempts : ~a.cancelled}
OfPage == session \cup oidc.user \cup shown.oidc.user \cup CredsTokens
            \cup {a.token : a \in Pending}

Signed(c) == Owner[c.token] = c.party

SType ==
  /\ session \in AtMostOne(Tokens) /\ oidc \in Oidc
  /\ state \in [creds : AtMostOne(Credentials), error : BOOLEAN] /\ deriving \in BOOLEAN
  /\ shown \in [creds : AtMostOne(Credentials), oidc : Oidc, mounted : BOOLEAN]
  /\ attempts \subseteq [token : Tokens, cancelled : BOOLEAN, latest : BOOLEAN]
  /\ leaving \in {"no", "login", "logout", "reload"}

\* The latest derivation is one, and the only one that is not cancelled.
DInv ==
  /\ SType
  /\ DerivingIsTrue
  /\ \A a, b \in attempts : a.latest /\ b.latest => a = b
  /\ \A a \in Pending : a.latest

\* What a login finds: nobody, and nothing on the way.
NobodyIn ==
  /\ state.creds = {} /\ shown.creds = {} /\ Pending = {}
  /\ ~oidc.auth /\ ~shown.oidc.auth

\* What is said of the tokens and credentials of the page.
OneUser ==
  /\ \A c \in state.creds \cup shown.creds : Signed(c)
  /\ \A t, u \in OfPage : Owner[t] = Owner[u]

\* A page is of one user, and a login leaves one with nothing to carry over.
OInv ==
  /\ DInv
  /\ stored = state.creds
  /\ OneUser
  /\ leaving = "no" => oidc.user \subseteq session
  /\ leaving = "login" => NobodyIn

-----------------------------------------------------------------------------
(* What the effects do to the credentials.                                 *)

CredentialsStates == [creds : AtMostOne(Credentials), error : BOOLEAN]

\* A state that replaces none of the credentials, or all of them by none, or the
\* token of those shown by the OIDC user's.
Rewritten ==
  \/ state'.creds = {} \/ state'.creds = state.creds
  \/ \E t \in shown.oidc.user : state'.creds = {[c EXCEPT !.token = t] : c \in shown.creds}

\* The effects rewrite the credentials, in the state and in the storage alike.
LEMMA EffectsWrite ==
  ASSUME SType, Effects, stored = state.creds
  PROVE  Rewritten /\ state' \in CredentialsStates /\ stored' = state'.creds
<1>1. CASE Drops \/ Wipes
  <2>1. writeAuthState({}, FALSE)
    BY <1>1 DEF Effects
  <2>2. {} \in AtMostOne(Credentials)
    BY DEF AtMostOne
  <2>3. QED
    BY <2>1, <2>2 DEF writeAuthState, Rewritten, CredentialsStates
<1>2. CASE ~(Drops \/ Wipes) /\ Mirrors # {}
  <2>1. PICK creds \in Mirrors : writeAuthState(creds, FALSE)
    BY <1>2 DEF Effects
  <2>2. PICK t \in shown.oidc.user : creds = {[c EXCEPT !.token = t] : c \in shown.creds}
    BY <1>2, <2>1 DEF Mirrors
  <2>3. t \in Tokens /\ shown.creds \in AtMostOne(Credentials)
    BY DEF SType, Oidc, AtMostOne
  <2>4. \A c \in Credentials : [c EXCEPT !.token = t] \in Credentials
    BY <2>3 DEF Credentials
  <2>5. creds \in AtMostOne(Credentials)
    <3>1. CASE shown.creds = {}
      BY <2>2, <3>1 DEF AtMostOne
    <3>2. CASE \E x \in Credentials : shown.creds = {x}
      <4>1. PICK x \in Credentials : shown.creds = {x}
        BY <3>2
      <4> DEFINE y == [x EXCEPT !.token = t]
      <4>2. y \in Credentials
        BY <2>4
      <4>3. creds = {y}
        BY <2>2, <4>1
      <4> HIDE DEF y
      <4>4. QED
        BY <4>2, <4>3 DEF AtMostOne
    <3>3. QED
      BY <2>3, <3>1, <3>2 DEF AtMostOne
  <2>6. QED
    BY <2>1, <2>2, <2>5 DEF writeAuthState, Rewritten, CredentialsStates
<1>3. CASE ~(Drops \/ Wipes) /\ ~(Mirrors # {})
  <2>1. state' = [state EXCEPT !.error = @ /\ ~Derives] /\ stored' = stored
    BY <1>3 DEF Effects
  <2>2. state \in CredentialsStates
    BY DEF SType, CredentialsStates
  <2>3. (state.error /\ ~Derives) \in BOOLEAN
    OBVIOUS
  <2>4. state'.creds = state.creds /\ state' \in CredentialsStates
    BY <2>1, <2>2, <2>3 DEF CredentialsStates
  <2>5. QED
    BY <2>1, <2>4 DEF Rewritten
<1>4. QED
  BY <1>1, <1>2, <1>3

-----------------------------------------------------------------------------
(* The derivations.                                                        *)

\* What is in flight after the effects, and what is said of it.
LEMMA EffectsDerive ==
  ASSUME DInv, Effects
  PROVE  /\ attempts' \subseteq [token : Tokens, cancelled : BOOLEAN, latest : BOOLEAN]
         /\ DerivingIsTrue'
         /\ \A a, b \in attempts' : a.latest /\ b.latest => a = b
         /\ \A a \in Pending' : /\ a.latest
                               /\ \/ a \in Pending
                                  \/ Derives /\ a.token \in shown.oidc.user
<1> DEFINE A == [token : Tokens, cancelled : BOOLEAN, latest : BOOLEAN]
<1>1. attempts \subseteq A
  BY DEF DInv, SType
<1>2. \A a \in A : /\ Cancelled(a) \in A /\ Cancelled(a).token = a.token
                   /\ Cancelled(a).cancelled = (a.cancelled \/ DeriveRuns)
                   /\ Cancelled(a).latest = (a.latest /\ ~Derives)
  <2>1. (\A x \in BOOLEAN : (x \/ DeriveRuns) \in BOOLEAN) /\ (\A x \in BOOLEAN : (x /\ ~Derives) \in BOOLEAN)
    OBVIOUS
  <2>2. QED
    BY <2>1 DEF Cancelled
<1>3. Derives => DeriveRuns
  BY DEF Derives
<1>4. attempts' = {Cancelled(a) : a \in attempts} \cup NewAttempts
  BY DEF Effects
<1>5. CASE Derives
  <2>1. PICK t \in Tokens : shown.oidc.user = {t}
    BY <1>5 DEF Derives, DInv, SType, Oidc, AtMostOne
  <2> DEFINE new == [token |-> t, cancelled |-> FALSE, latest |-> TRUE]
  <2>2. NewAttempts = {new}
    BY <1>5, <2>1 DEF NewAttempts
  <2>3. deriving'
    BY <1>5 DEF Effects
  <2>4. \A a \in attempts : Cancelled(a) \in A /\ ~Cancelled(a).latest /\ Cancelled(a).cancelled
    BY <1>1, <1>2, <1>3, <1>5
  <2>5. new \in A /\ new.latest /\ ~new.cancelled /\ new.token = t
    OBVIOUS
  <2> HIDE DEF new
  <2>6. attempts' \subseteq A /\ (\A a \in attempts' : a.latest \/ ~a.cancelled => a = new) /\ new \in attempts'
    BY <1>4, <2>2, <2>4, <2>5
  <2>7. deriving' = (\E a \in attempts' : a.latest)
    BY <2>3, <2>5, <2>6 DEF Effects
  <2>8. QED
    BY <1>5, <2>1, <2>5, <2>6, <2>7 DEF DerivingIsTrue, Pending
<1>6. CASE ~Derives
  <2>1. NewAttempts = {} /\ deriving' = deriving
    BY <1>6 DEF NewAttempts, Effects, DInv, SType
  <2>2. \A a \in attempts : Cancelled(a) \in A /\ Cancelled(a).latest = a.latest
    BY <1>1, <1>2, <1>6
  <2>3. attempts' = {Cancelled(a) : a \in attempts}
    BY <1>4, <2>1
  <2>4. \A a \in attempts' : a.latest => \E b \in attempts : b.latest /\ a = Cancelled(b)
    BY <2>2, <2>3
  <2>5. \A a, b \in attempts' : a.latest /\ b.latest => a = b
    BY <2>4 DEF DInv
  <2>6. (\E a \in attempts' : a.latest) <=> (\E a \in attempts : a.latest)
    BY <2>2, <2>3
  <2>7. \A a \in Pending' : a \in Pending
    <3> SUFFICES ASSUME NEW a \in Pending'
                 PROVE  a \in Pending
      OBVIOUS
    <3>1. PICK b \in attempts : a = Cancelled(b)
      BY <2>3 DEF Pending
    <3>2. ~b.cancelled /\ ~DeriveRuns
      BY <1>1, <1>2, <3>1 DEF Pending
    <3>3. b \in A /\ a \in A /\ a.token = b.token /\ a.cancelled = b.cancelled /\ a.latest = b.latest
      BY <1>1, <1>2, <1>6, <3>1, <3>2
    <3>4. a = b
      BY <3>3
    <3>5. QED
      BY <3>2, <3>4 DEF Pending
  <2>8. QED
    BY <2>1, <2>2, <2>3, <2>5, <2>6, <2>7 DEF DerivingIsTrue, DInv, SType
<1>7. QED
  BY <1>5, <1>6

\* A derivation that ends takes itself away, and the flag if it was the latest.
LEMMA Ends ==
  ASSUME DInv, NEW a \in attempts, Finally(a)
  PROVE  /\ attempts' \subseteq attempts /\ DerivingIsTrue' /\ deriving' \in BOOLEAN
         /\ Pending' \subseteq Pending
<1>1. attempts' = attempts \ {a} /\ deriving' = (deriving /\ ~a.latest)
  BY DEF Finally
<1>2. CASE a.latest
  <2>1. \A b \in attempts' : ~b.latest
    BY <1>1, <1>2 DEF DInv
  <2>2. QED
    BY <1>1, <1>2, <2>1 DEF DerivingIsTrue, Pending
<1>3. CASE ~a.latest
  <2>1. deriving' = deriving /\ \A b \in attempts : b.latest => b \in attempts'
    BY <1>1, <1>3 DEF DInv, SType
  <2>2. deriving' = (\E b \in attempts' : b.latest)
    BY <1>1, <2>1 DEF DInv, DerivingIsTrue
  <2>3. QED
    BY <1>1, <2>1, <2>2 DEF DerivingIsTrue, Pending, DInv, SType
<1>4. QED
  BY <1>2, <1>3

\* What is derived is a state of credentials.
LEMMA DerivedType ==
  ASSUME SessionAssumption, SType, NEW a \in attempts
  PROVE  {[party |-> Owner[a.token], token |-> a.token, source |-> "oidc"]} \in AtMostOne(Credentials)
<1>1. a.token \in Tokens
  BY DEF SType
<1>2. [party |-> Owner[a.token], token |-> a.token, source |-> "oidc"] \in Credentials
  BY <1>1 DEF SessionAssumption, Credentials
<1>3. QED
  BY <1>2 DEF AtMostOne

\* A written state has its type.
LEMMA WrittenType ==
  ASSUME NEW creds \in AtMostOne(Credentials), NEW error \in BOOLEAN, writeAuthState(creds, error)
  PROVE  state' \in CredentialsStates /\ state'.creds = creds /\ stored' = creds
BY DEF writeAuthState, CredentialsStates

\* No credentials are credentials.
LEMMA NoCredentials == {} \in AtMostOne(Credentials) /\ {} \in AtMostOne(Tokens)
BY DEF AtMostOne

\* The derivations that a step leaves alone keep what is known of them.
LEMMA SameDerivations ==
  ASSUME DInv, SType', UNCHANGED <<attempts, deriving>>
  PROVE  DInv' /\ Pending' = Pending
BY DEF DInv, DerivingIsTrue, Pending

-----------------------------------------------------------------------------
(* Every action keeps what is known of the derivations.                    *)

\* A value of the OIDC library is one.
LEMMA OidcType ==
  ASSUME NEW l \in BOOLEAN, NEW a \in BOOLEAN, NEW u \in AtMostOne(Tokens), NEW e \in BOOLEAN
  PROVE  [loading |-> l, auth |-> a, user |-> u, error |-> e] \in Oidc
BY DEF Oidc

\* What the OIDC library does leaves the derivations alone.
LEMMA LibraryDInv ==
  ASSUME SessionAssumption, DInv, Library
  PROVE  DInv' /\ Pending' = Pending
<1>1. Usable \subseteq Tokens
  BY DEF Usable
<1>2. UNCHANGED <<state, deriving, shown, attempts, leaving>>
  BY DEF Library, Settles, SettlesWithError, Renews, RenewFails, SessionEnds, SetOidc
<1>3. session' \in AtMostOne(Tokens) /\ oidc' \in Oidc
  <2>1. CASE Settles
    <3>1. (session \cap Usable # {}) \in BOOLEAN
      OBVIOUS
    <3>2. QED
      BY <2>1, <3>1, OidcType DEF Settles, SetOidc, DInv, SType
  <2>2. CASE SettlesWithError
    BY <2>2, OidcType, NoCredentials DEF SettlesWithError, SetOidc, DInv, SType
  <2>3. CASE Renews
    <3>1. PICK t \in Usable : session' = {t} /\ oidc' = [loading |-> FALSE, auth |-> TRUE, user |-> {t}, error |-> FALSE]
      BY <2>3 DEF Renews, SetOidc
    <3>2. {t} \in AtMostOne(Tokens)
      BY <1>1 DEF AtMostOne
    <3>3. QED
      BY <3>1, <3>2, OidcType
  <2>4. CASE RenewFails
    BY <2>4 DEF RenewFails, SetOidc, DInv, SType, Oidc
  <2>5. CASE SessionEnds
    BY <2>5, NoCredentials DEF SessionEnds, SetOidc, DInv, SType, Oidc
  <2>6. QED
    BY <2>1, <2>2, <2>3, <2>4, <2>5 DEF Library
<1>4. SType'
  BY <1>2, <1>3 DEF DInv, SType
<1>5. QED
  BY <1>2, <1>4, SameDerivations

\* A derivation that is answered, or that fails.
LEMMA AnswersDInv ==
  ASSUME SessionAssumption, DInv, Derived \/ NotDerived
  PROVE  DInv' /\ Pending' \subseteq Pending
<1>1. PICK a \in attempts :
        /\ Finally(a)
        /\ \/ UNCHANGED <<state, stored>>
           \/ writeAuthState({[party |-> Owner[a.token], token |-> a.token, source |-> "oidc"]}, FALSE)
           \/ writeAuthState({}, TRUE)
  BY DEF Derived, NotDerived
<1>2. UNCHANGED <<session, oidc, shown, leaving>>
  BY DEF Derived, NotDerived
<1>3. SType
  BY DEF DInv
<1>4. state' \in CredentialsStates
  BY <1>1, <1>3, DerivedType, NoCredentials, WrittenType DEF SType, CredentialsStates
<1>5. attempts' \subseteq attempts /\ DerivingIsTrue' /\ deriving' \in BOOLEAN /\ Pending' \subseteq Pending
  BY <1>1, Ends
<1>6. SType'
  BY <1>2, <1>3, <1>4, <1>5 DEF SType, CredentialsStates
<1>7. QED
  BY <1>5, <1>6 DEF DInv

\* A commit shows what there is; the other steps of the page and of the user write
\* the credentials or nothing.
LEMMA PageDInv ==
  ASSUME SessionAssumption, DInv,
         Render \/ WatchdogFires \/ Tick \/ loginWithOidc \/ Reload \/ setCredentials \/ dropCredentials \/ logout
  PROVE  DInv' /\ Pending' = Pending
<1>1. SType
  BY DEF DInv
<1>2. UNCHANGED <<attempts, deriving, oidc>>
  BY DEF Render, WatchdogFires, Tick, loginWithOidc, Reload, setCredentials, dropCredentials, logout
<1>3. state' \in CredentialsStates /\ session' \in AtMostOne(Tokens) /\ leaving' \in {"no", "login", "logout", "reload"}
  <2>1. CASE Render \/ Tick \/ loginWithOidc \/ Reload
    BY <1>1, <2>1 DEF Render, Tick, loginWithOidc, Reload, Leave, SType, CredentialsStates
  <2>2. CASE WatchdogFires
    <3>1. writeAuthState({}, FALSE) \/ UNCHANGED state
      BY <2>2 DEF WatchdogFires
    <3>2. UNCHANGED <<session, leaving>>
      BY <2>2 DEF WatchdogFires
    <3>3. QED
      BY <1>1, <3>1, <3>2, NoCredentials, WrittenType DEF SType, CredentialsStates
  <2>3. CASE setCredentials
    <3>1. PICK t \in Usable : writeAuthState({[party |-> Owner[t], token |-> t, source |-> "manual"]}, FALSE)
      BY <2>3 DEF setCredentials
    <3>2. [party |-> Owner[t], token |-> t, source |-> "manual"] \in Credentials
      BY DEF SessionAssumption, Credentials, Usable
    <3>3. {[party |-> Owner[t], token |-> t, source |-> "manual"]} \in AtMostOne(Credentials)
      BY <3>2 DEF AtMostOne
    <3>4. UNCHANGED <<session, leaving>>
      BY <2>3 DEF setCredentials
    <3>5. QED
      BY <1>1, <3>1, <3>3, <3>4, WrittenType DEF SType
  <2>4. CASE logout
    <3>1. writeAuthState({}, FALSE) /\ session' \in {{}, session} /\ leaving' \in {"logout", leaving}
      BY <2>4 DEF logout, Leave
    <3>2. QED
      BY <1>1, <3>1, NoCredentials, WrittenType DEF SType
  <2>5. CASE dropCredentials
    <3>1. writeAuthState({}, FALSE) /\ UNCHANGED <<session, leaving>>
      BY <2>5 DEF dropCredentials
    <3>2. QED
      BY <1>1, <3>1, NoCredentials, WrittenType DEF SType
  <2>6. QED
    BY <2>1, <2>2, <2>3, <2>4, <2>5
<1>4. shown' \in [creds : AtMostOne(Credentials), oidc : Oidc, mounted : BOOLEAN]
  <2>1. CASE Render
    BY <1>1, <2>1 DEF Render, Current, SType
  <2>2. CASE ~Render
    BY <1>1, <2>2 DEF WatchdogFires, Tick, loginWithOidc, Reload, setCredentials, dropCredentials, logout, SType
  <2>3. QED
    BY <2>1, <2>2
<1>5. SType'
  BY <1>1, <1>2, <1>3, <1>4 DEF SType, CredentialsStates
<1>6. QED
  BY <1>2, <1>5, SameDerivations

\* The effects.
LEMMA EffectsDInv ==
  ASSUME DInv, stored = state.creds, Effects
  PROVE  DInv'
<1>1. SType
  BY DEF DInv
<1>2. UNCHANGED <<session, oidc, shown, leaving>> /\ deriving' \in BOOLEAN
  BY DEF Effects
<1>3. state' \in CredentialsStates
  BY <1>1, EffectsWrite
<1>4. attempts' \subseteq [token : Tokens, cancelled : BOOLEAN, latest : BOOLEAN]
  BY EffectsDerive
<1>5. SType'
  BY <1>1, <1>2, <1>3, <1>4 DEF SType, CredentialsStates
<1>6. QED
  BY <1>5, EffectsDerive DEF DInv

\* A page that loads: nothing is in flight.
LEMMA MountDInv ==
  ASSUME SessionAssumption, DInv, stored = state.creds, Mount
  PROVE  DInv' /\ attempts' = {} /\ Pending' = {}
<1>1. SType
  BY DEF DInv
<1>2. attempts' = {} /\ deriving' = FALSE /\ leaving' = "no"
  BY DEF Mount
<1>3. session' \in AtMostOne(Tokens)
  <2>1. session' = session \/ \E t \in Usable : session' = {t}
    BY DEF Mount
  <2>2. QED
    BY <1>1, <2>1 DEF SType, AtMostOne, Usable
<1>4. NothingYet \in Oidc
  BY OidcType, NoCredentials DEF NothingYet
<1>5. stored \in AtMostOne(Credentials)
  BY <1>1 DEF SType
<1>6. /\ state' \in [creds : AtMostOne(Credentials), error : BOOLEAN]
      /\ shown' \in [creds : AtMostOne(Credentials), oidc : Oidc, mounted : BOOLEAN]
      /\ oidc' \in Oidc
  BY <1>4, <1>5 DEF Mount, FirstRender
<1>7. SType'
  BY <1>2, <1>3, <1>6 DEF SType
<1>8. QED
  BY <1>2, <1>7 DEF DInv, DerivingIsTrue, Pending

\* Every step keeps what the storage holds equal to what the page holds.
LEMMA StoredIs ==
  ASSUME SType, stored = state.creds, [Next]_vars
  PROVE  stored' = state'.creds
<1>1. CASE UNCHANGED <<state, stored>>
  BY <1>1
<1>2. CASE \E creds, error : writeAuthState(creds, error)
  BY <1>2 DEF writeAuthState
<1>3. CASE Effects
  BY <1>3, EffectsWrite
<1>4. CASE Mount
  BY <1>4 DEF Mount
<1>5. UNCHANGED <<state, stored>> \/ (\E creds, error : writeAuthState(creds, error)) \/ Effects \/ Mount
  <2>1. CASE UNCHANGED vars
    BY <2>1 DEF vars
  <2>2. CASE Render \/ Tick \/ loginWithOidc \/ Reload
    BY <2>2 DEF Render, Tick, loginWithOidc, Reload
  <2>3. CASE Derived \/ NotDerived \/ WatchdogFires \/ setCredentials \/ dropCredentials \/ logout
    BY <2>3 DEF Derived, NotDerived, WatchdogFires, setCredentials, dropCredentials, logout
  <2>4. CASE Library
    <3>1. UNCHANGED state
      BY <2>4 DEF Library, Settles, SettlesWithError, Renews, RenewFails, SessionEnds, SetOidc
    <3>2. UNCHANGED stored
      BY <2>4 DEF Library, Settles, SettlesWithError, Renews, RenewFails, SessionEnds, SetOidc
    <3>3. QED
      BY <3>1, <3>2
  <2>5. QED
    BY <2>1, <2>2, <2>3, <2>4 DEF Next
<1>6. QED
  BY <1>1, <1>2, <1>3, <1>4, <1>5

\* What is known of the derivations holds initially.
LEMMA InitDInv ==
  ASSUME Init
  PROVE  DInv /\ stored = state.creds
<1>1. NothingYet \in Oidc /\ {} \in AtMostOne(Credentials)
  BY OidcType, NoCredentials DEF NothingYet
<1>2. session \in AtMostOne(Tokens)
  BY DEF Init, AtMostOne, Usable
<1>3. SType
  BY <1>1, <1>2 DEF Init, SType, FirstRender
<1>4. QED
  BY <1>3 DEF Init, DInv, DerivingIsTrue, Pending

\* What is known of the derivations, with any application, careful or not.
LEMMA NextDInv ==
  ASSUME SessionAssumption, DInv, stored = state.creds, [Next]_vars
  PROVE  DInv' /\ stored' = state'.creds
<1>1. stored' = state'.creds
  BY StoredIs DEF DInv
<1>2. CASE UNCHANGED vars
  <2>1. UNCHANGED <<session, oidc, state, deriving, shown, attempts, leaving>>
    BY <1>2 DEF vars
  <2>2. SType'
    BY <2>1 DEF DInv, SType
  <2>3. QED
    BY <1>1, <2>1, <2>2, SameDerivations
<1>3. CASE Next
  BY <1>1, <1>3, LibraryDInv, AnswersDInv, PageDInv, EffectsDInv, MountDInv DEF Next
<1>4. QED
  BY <1>2, <1>3

\* DerivingIsTrue holds for every application: the flag is set by the derivation
\* that is the latest and cleared by no other, whatever cancels it.
THEOREM DerivingIsAlwaysTrue == Spec => []DerivingIsTrue
<1>1. Init => DInv /\ stored = state.creds
  BY InitDInv
<1>2. (DInv /\ stored = state.creds) /\ [Next]_vars => (DInv /\ stored = state.creds)'
  BY SessionAssumption, NextDInv
<1>3. DInv => DerivingIsTrue
  BY DEF DInv
<1>4. QED
  BY <1>1, <1>2, <1>3, PTL DEF Spec

-----------------------------------------------------------------------------
(* Every action keeps the page of one user.                                *)

\* A step that adds no token and no credentials keeps the page of one user.
LEMMA Shrinks ==
  ASSUME OneUser, OfPage' \subseteq OfPage,
         state'.creds \cup shown'.creds \subseteq state.creds \cup shown.creds
  PROVE  OneUser'
BY DEF OneUser, Signed

\* A page that shows that it is signed out has nobody in it.
LEMMA SignedOutIs ==
  ASSUME OInv, SignedOut
  PROVE  NobodyIn /\ shown.oidc = oidc
<1>1. shown.oidc = oidc /\ shown.creds = state.creds
  BY DEF SignedOut, Current
<1>2. Pending = {}
  BY DEF OInv, DInv, DerivingIsTrue, SignedOut, Pending
<1>3. QED
  BY <1>1, <1>2 DEF SignedOut, NobodyIn

\* The steps of the OIDC library: a renewal is the user's, the others bring nobody.
LEMMA LibraryOneUser ==
  ASSUME SessionAssumption, OInv, Library
  PROVE  OneUser' /\ oidc'.user \subseteq session' /\ leaving' = "no"
<1>1. UNCHANGED <<state, shown>> /\ leaving = "no" /\ leaving' = "no" /\ Pending' = Pending
  BY LibraryDInv DEF OInv, Library, Settles, SettlesWithError, Renews, RenewFails, SessionEnds, SetOidc
<1>2. OneUser /\ oidc.user \subseteq session /\ oidc \in Oidc
  BY <1>1 DEF OInv, OneUser, DInv, SType
<1>3. CredsTokens' = CredsTokens
  BY <1>1 DEF CredsTokens
<1>4. CASE Renews
  <2>1. PICK old \in session, t \in Usable :
          /\ Owner[t] = Owner[old] /\ session' = {t}
          /\ oidc' = [loading |-> FALSE, auth |-> TRUE, user |-> {t}, error |-> FALSE]
    BY <1>4 DEF Renews, SetOidc
  <2>2. old \in OfPage
    BY DEF OfPage
  <2>3. oidc'.user = {t}
    BY <2>1
  <2>4. \A x \in OfPage' : x \in OfPage \/ x = t
    BY <1>1, <1>3, <2>1, <2>3 DEF OfPage
  <2>5. \A x \in OfPage' : Owner[x] = Owner[old]
    BY <1>2, <2>1, <2>2, <2>4 DEF OneUser
  <2>6. QED
    BY <1>1, <1>2, <2>1, <2>3, <2>5 DEF OneUser, Signed
<1>5. CASE ~Renews
  <2>1. session' \subseteq session /\ oidc'.user \subseteq session' /\ oidc'.user \subseteq session
    <3>1. CASE Settles
      BY <3>1 DEF Settles, SetOidc
    <3>2. CASE SettlesWithError
      BY <3>2 DEF SettlesWithError, SetOidc
    <3>3. CASE RenewFails
      BY <1>2, <3>3 DEF RenewFails, SetOidc, Oidc
    <3>4. CASE SessionEnds
      BY <1>2, <3>4 DEF SessionEnds, SetOidc, Oidc
    <3>5. QED
      BY <1>5, <3>1, <3>2, <3>3, <3>4 DEF Library
  <2>2. OfPage' \subseteq OfPage
    BY <1>1, <1>3, <2>1 DEF OfPage
  <2>3. QED
    BY <1>1, <1>2, <2>1, <2>2, Shrinks
<1>6. QED
  BY <1>4, <1>5

\* A derivation that is taken answers for a token of the page.
LEMMA AnswersOneUser ==
  ASSUME SessionAssumption, OInv, Derived \/ NotDerived
  PROVE  /\ OneUser'
         /\ Pending = {} => state'.creds \subseteq state.creds
<1>1. UNCHANGED <<session, oidc, shown>> /\ Pending' \subseteq Pending /\ OneUser /\ SType
  BY AnswersDInv DEF Derived, NotDerived, OInv, OneUser, DInv
<1>2. CASE state'.creds \subseteq state.creds
  <2>1. CredsTokens' \subseteq CredsTokens
    BY <1>1, <1>2 DEF CredsTokens
  <2>2. OfPage' \subseteq OfPage
    BY <1>1, <2>1 DEF OfPage
  <2>3. QED
    BY <1>1, <1>2, <2>2, Shrinks
<1>3. CASE ~(state'.creds \subseteq state.creds)
  <2>1. PICK a \in Pending :
          state'.creds = {[party |-> Owner[a.token], token |-> a.token, source |-> "oidc"]}
    <3>1. CASE Derived
      <4>1. PICK a \in attempts :
              IF a.cancelled THEN UNCHANGED <<state, stored>>
              ELSE writeAuthState({[party |-> Owner[a.token], token |-> a.token, source |-> "oidc"]}, FALSE)
        BY <3>1 DEF Derived
      <4>2. ~a.cancelled
        BY <1>3, <4>1
      <4>3. QED
        BY <4>1, <4>2 DEF writeAuthState, Pending
    <3>2. CASE NotDerived
      BY <1>3, <3>2 DEF NotDerived, writeAuthState
    <3>3. QED
      BY <3>1, <3>2
  <2> DEFINE new == [party |-> Owner[a.token], token |-> a.token, source |-> "oidc"]
  <2>2. new.token = a.token /\ new.party = Owner[a.token] /\ state'.creds = {new}
    BY <2>1
  <2> HIDE DEF new
  <2>3. a.token \in OfPage
    BY DEF OfPage
  <2>4. CredsTokens' \subseteq CredsTokens \cup {a.token}
    BY <1>1, <2>2 DEF CredsTokens
  <2>5. OfPage' \subseteq OfPage
    BY <1>1, <2>3, <2>4 DEF OfPage
  <2>6. QED
    BY <1>1, <2>2, <2>5 DEF OneUser, Signed
<1>4. QED
  BY <1>2, <1>3

\* A manual login, which a careful application offers to who is signed out only:
\* the page has no other token.
LEMMA ManualOneUser ==
  ASSUME SessionAssumption, Careful, OInv, setCredentials
  PROVE  OneUser'
<1>1. NobodyIn /\ shown.oidc = oidc /\ session = {} /\ oidc.user \subseteq session
  BY SignedOutIs DEF setCredentials, OInv
<1>2. UNCHANGED <<session, oidc, shown>> /\ Pending' = Pending
  BY PageDInv DEF setCredentials, OInv
<1>3. PICK t \in Usable : state'.creds = {[party |-> Owner[t], token |-> t, source |-> "manual"]}
  BY DEF setCredentials, writeAuthState
<1> DEFINE new == [party |-> Owner[t], token |-> t, source |-> "manual"]
<1>4. new.token = t /\ new.party = Owner[t] /\ state'.creds = {new}
  BY <1>3
<1> HIDE DEF new
<1>5. CredsTokens' \subseteq {t}
  BY <1>1, <1>2, <1>4 DEF CredsTokens, NobodyIn
<1>6. OfPage' \subseteq {t}
  BY <1>1, <1>2, <1>5 DEF OfPage, NobodyIn
<1>7. \A c \in state'.creds \cup shown'.creds : c = new
  BY <1>1, <1>2, <1>4 DEF NobodyIn
<1>8. QED
  BY <1>4, <1>6, <1>7 DEF OneUser, Signed

\* The other steps of the page and of the user only show or drop what there is.
LEMMA PageOneUser ==
  ASSUME SessionAssumption, OInv,
         Render \/ WatchdogFires \/ Tick \/ loginWithOidc \/ Reload \/ dropCredentials \/ logout
  PROVE  /\ OneUser' /\ state'.creds \subseteq state.creds
         /\ shown'.creds \subseteq state.creds \cup shown.creds
         /\ shown'.oidc \in {shown.oidc, oidc} /\ oidc' = oidc
         /\ session' \subseteq session /\ Pending' = Pending
         /\ leaving' = "no" => session' = session
<1>1. OneUser /\ Pending' = Pending /\ oidc' = oidc
  BY PageDInv DEF OInv, Render, WatchdogFires, Tick, loginWithOidc, Reload, dropCredentials, logout
<1>2. /\ shown' = shown \/ (shown'.creds = state.creds /\ shown'.oidc = oidc)
      /\ state'.creds \subseteq state.creds /\ session' \subseteq session
      /\ leaving' = "no" => session' = session
  <2>1. CASE Render
    BY <2>1 DEF Render, Current
  <2>2. CASE Tick \/ loginWithOidc \/ Reload
    BY <2>2 DEF Tick, loginWithOidc, Reload
  <2>3. CASE WatchdogFires
    BY <2>3 DEF WatchdogFires, writeAuthState
  <2>4. CASE logout
    BY <2>4 DEF logout, Leave, writeAuthState
  <2>5. CASE dropCredentials
    BY <2>5 DEF dropCredentials, writeAuthState
  <2>6. QED
    BY <2>1, <2>2, <2>3, <2>4, <2>5
<1>3. state'.creds \cup shown'.creds \subseteq state.creds \cup shown.creds
  BY <1>2
<1>4. CredsTokens' \subseteq CredsTokens
  BY <1>3 DEF CredsTokens
<1>5. OfPage' \subseteq OfPage
  BY <1>1, <1>2, <1>4 DEF OfPage
<1>6. QED
  BY <1>1, <1>2, <1>3, <1>5, Shrinks

\* The effects: a derivation begins, and a token is mirrored, for the user shown.
LEMMA EffectsOneUser ==
  ASSUME OInv, Effects
  PROVE  /\ OneUser'
         /\ NobodyIn => NobodyIn'
<1>1. UNCHANGED <<session, oidc, shown>> /\ OneUser /\ SType
  BY DEF Effects, OInv, DInv
<1>2. Rewritten
  BY <1>1, EffectsWrite DEF OInv
<1>3. \A a \in Pending' : a \in Pending \/ (Derives /\ a.token \in shown.oidc.user)
  BY EffectsDerive DEF OInv
<1>4. /\ \A c \in state'.creds : c \in state.creds \/ \E d \in shown.creds, t \in shown.oidc.user : c.token = t /\ c.party = d.party
      /\ state.creds = {} /\ shown.creds = {} => state'.creds = {}
  <2>1. CASE state'.creds = {} \/ state'.creds = state.creds
    BY <2>1
  <2>2. CASE \E t \in shown.oidc.user : state'.creds = {[c EXCEPT !.token = t] : c \in shown.creds}
    <3>1. PICK t \in shown.oidc.user : state'.creds = {[c EXCEPT !.token = t] : c \in shown.creds}
      BY <2>2
    <3>2. shown.creds \subseteq Credentials
      BY <1>1 DEF SType, AtMostOne
    <3>3. \A c \in Credentials : [c EXCEPT !.token = t].token = t /\ [c EXCEPT !.token = t].party = c.party
      BY DEF Credentials
    <3>4. QED
      BY <3>1, <3>2, <3>3
  <2>3. QED
    BY <1>2, <2>1, <2>2 DEF Rewritten
<1>5. \A c \in state'.creds : Signed(c) /\ c.token \in OfPage
  <2>1. SUFFICES ASSUME NEW c \in state'.creds
                 PROVE  Signed(c) /\ c.token \in OfPage
    OBVIOUS
  <2>2. CASE c \in state.creds
    BY <1>1, <2>2 DEF OneUser, OfPage, CredsTokens
  <2>3. CASE \E d \in shown.creds, t \in shown.oidc.user : c.token = t /\ c.party = d.party
    <3>1. PICK d \in shown.creds, t \in shown.oidc.user : c.token = t /\ c.party = d.party
      BY <2>3
    <3>2. Signed(d) /\ d.token \in OfPage /\ t \in OfPage
      BY <1>1 DEF OneUser, OfPage, CredsTokens
    <3>3. QED
      BY <1>1, <3>1, <3>2 DEF OneUser, Signed
  <2>4. QED
    BY <1>4, <2>2, <2>3
<1>6. CredsTokens' \subseteq OfPage
  BY <1>1, <1>5 DEF CredsTokens, OfPage
<1>7. OfPage' \subseteq OfPage
  BY <1>1, <1>3, <1>6 DEF OfPage
<1>8. OneUser'
  BY <1>1, <1>5, <1>7 DEF OneUser, Signed
<1>9. NobodyIn => NobodyIn'
  BY <1>1, <1>3, <1>4 DEF NobodyIn, Derives
<1>10. QED
  BY <1>8, <1>9

\* A page that loads has what is stored, or a new session and nothing stored.
LEMMA MountOneUser ==
  ASSUME SessionAssumption, OInv, Mount
  PROVE  OneUser' /\ oidc'.user \subseteq session'
<1>1. /\ oidc'.user = {} /\ shown'.oidc.user = {} /\ Pending' = {}
      /\ state'.creds = state.creds /\ shown'.creds = state.creds
      /\ session' = session \/ (state.creds = {} /\ \E t \in Usable : session' = {t})
  <2>1. Pending' = {} /\ stored = state.creds
    BY MountDInv DEF OInv
  <2>2. session' = session \/ (leaving = "login" /\ \E t \in Usable : session' = {t})
    BY DEF Mount
  <2>3. QED
    BY <2>1, <2>2 DEF Mount, FirstRender, NothingYet, OInv, NobodyIn
<1>2. OneUser
  BY DEF OInv
<1>3. CredsTokens' = {c.token : c \in state.creds}
  BY <1>1 DEF CredsTokens
<1>4. OfPage' = session' \cup {c.token : c \in state.creds}
  BY <1>1, <1>3 DEF OfPage
<1>5. CASE session' = session
  <2>1. OfPage' \subseteq OfPage
    BY <1>4, <1>5 DEF OfPage, CredsTokens
  <2>2. QED
    BY <1>1, <1>2, <2>1, Shrinks
<1>6. CASE state.creds = {} /\ \E t \in Usable : session' = {t}
  <2>1. \E t \in Usable : OfPage' \subseteq {t}
    BY <1>4, <1>6
  <2>2. QED
    BY <1>1, <1>6, <2>1 DEF OneUser
<1>7. QED
  BY <1>1, <1>5, <1>6

-----------------------------------------------------------------------------
(* The invariant, and the theorem.                                         *)

\* A page of one user, initially.
LEMMA InitOInv ==
  ASSUME SessionAssumption, Init
  PROVE  OInv
<1>1. DInv /\ stored = state.creds
  BY InitDInv
<1>2. state.creds = {} /\ shown.creds = {} /\ oidc.user = {} /\ shown.oidc.user = {} /\ Pending = {}
  BY DEF Init, FirstRender, NothingYet, Pending
<1>3. OfPage = session /\ \A t, u \in session : t = u
  BY <1>2 DEF OfPage, CredsTokens, Init, AtMostOne
<1>4. OneUser
  BY <1>2, <1>3 DEF OneUser
<1>5. QED
  BY <1>1, <1>2, <1>4 DEF OInv, Init

\* A step that brings nobody keeps a page with nobody.
LEMMA NobodyStays ==
  ASSUME NobodyIn, UNCHANGED <<oidc>>, shown'.oidc \in {shown.oidc, oidc}, Pending' = {},
         state'.creds \subseteq state.creds, shown'.creds \subseteq state.creds \cup shown.creds
  PROVE  NobodyIn'
BY DEF NobodyIn

\* Every step of a careful application keeps it.
LEMMA NextOInv ==
  ASSUME SessionAssumption, Careful, OInv, [Next]_vars
  PROVE  OInv'
<1>1. DInv' /\ stored' = state'.creds
  BY NextDInv DEF OInv
<1>2. CASE UNCHANGED vars
  BY <1>1, <1>2 DEF vars, OInv, OneUser, OfPage, CredsTokens, Pending, NobodyIn
<1>3. CASE Library
  BY <1>1, <1>3, LibraryOneUser DEF OInv
<1>4. CASE Derived \/ NotDerived
  <2>1. UNCHANGED <<session, oidc, shown, leaving>> /\ Pending' \subseteq Pending
    BY <1>4, AnswersDInv DEF OInv, Derived, NotDerived
  <2>2. OneUser' /\ (Pending = {} => state'.creds \subseteq state.creds)
    BY <1>4, AnswersOneUser
  <2>3. NobodyIn => NobodyIn'
    BY <2>1, <2>2 DEF NobodyIn
  <2>4. QED
    BY <1>1, <2>1, <2>2, <2>3 DEF OInv
<1>5. CASE Render \/ WatchdogFires \/ Tick \/ loginWithOidc \/ Reload \/ dropCredentials \/ logout
  <2>1. /\ OneUser' /\ state'.creds \subseteq state.creds
        /\ shown'.creds \subseteq state.creds \cup shown.creds
        /\ shown'.oidc \in {shown.oidc, oidc} /\ oidc' = oidc
        /\ Pending' = Pending
        /\ leaving' = "no" => session' = session
    BY <1>5, PageOneUser
  <2>2. leaving' = "login" => NobodyIn
    BY <1>5, SignedOutIs DEF OInv, Render, WatchdogFires, Tick, loginWithOidc, Reload, dropCredentials, logout, Leave
  <2>3. NobodyIn => NobodyIn'
    <3>1. ASSUME NobodyIn PROVE Pending' = {}
      BY <2>1, <3>1 DEF NobodyIn
    <3>2. QED
      BY <2>1, <3>1, NobodyStays
  <2>4. leaving' = "no" => leaving = "no"
    BY <1>5 DEF Render, WatchdogFires, Tick, loginWithOidc, Reload, dropCredentials, logout, Leave
  <2>5. QED
    BY <1>1, <2>1, <2>2, <2>3, <2>4 DEF OInv
<1>6. CASE setCredentials
  BY <1>1, <1>6, ManualOneUser DEF OInv, setCredentials
<1>7. CASE Effects
  <2>1. UNCHANGED <<session, oidc, leaving>>
    BY <1>7 DEF Effects
  <2>2. QED
    BY <1>1, <1>7, <2>1, EffectsOneUser DEF OInv
<1>8. CASE Mount
  BY <1>1, <1>8, MountOneUser DEF OInv, Mount
<1>9. QED
  BY <1>2, <1>3, <1>4, <1>5, <1>6, <1>7, <1>8 DEF Next

\* OneIdentity holds of an application that offers a login only to who is signed
\* out: no renewal, derivation, login, dropCredentials, logout or reload joins a token to the party
\* of another user.
THEOREM CredentialsAreOfOneUser == Careful /\ Spec => []OneIdentity
<1>1. Careful /\ Init => OInv
  BY SessionAssumption, InitOInv
<1>2. Careful /\ OInv /\ [Next]_vars => OInv'
  BY SessionAssumption, NextOInv
<1>3. OInv => OneIdentity
  BY DEF OInv, OneUser, OneIdentity, Signed
<1>4. CASE Careful
  <2>1. Init => OInv
    BY <1>1, <1>4
  <2>2. OInv /\ [Next]_vars => OInv'
    BY <1>2, <1>4
  <2>3. QED
    BY <1>3, <2>1, <2>2, PTL DEF Spec
<1>5. QED
  BY <1>4

-----------------------------------------------------------------------------
(* MultiStream.                                                            *)

Run == [cancelled : BOOLEAN, phase : Phases, acs : SUBSET Contracts, shown : SUBSET Contracts,
        gone : SUBSET Contracts, on : [Mapping -> Nat], heard : Heard]

MType ==
  /\ interfaces \in BOOLEAN
  /\ props \in [mounted : BOOLEAN, deps : Nat] /\ done \in [ran : BOOLEAN, deps : Nat]
  /\ runs \in Seq(Run)
  /\ streamRef \in 0..Len(runs) /\ timerRef \in 0..Len(runs) /\ listening \in 0..Len(runs)
  /\ hook \in [stream : 0..Len(runs), loading : BOOLEAN, connected : BOOLEAN, error : BOOLEAN]
  /\ late \in BOOLEAN /\ reloaded \in BOOLEAN /\ events \in Nat

\* The last run of an effect that was not cleaned up is in force, and no other;
\* one that is not in force has no timer and no stream; and the references name the
\* run that has.
InForce ==
  /\ done.ran => Len(runs) > 0
  /\ \A i \in DOMAIN runs :
       /\ runs[i].cancelled = ~(done.ran /\ i = Len(runs))
       /\ runs[i].cancelled => runs[i].phase \in {"creating", "closed"}
       /\ Open(runs[i]) <=> i = streamRef
       /\ runs[i].phase = "waiting" => i = timerRef

HInv == MType /\ InForce /\ ConnectedIsTrue

\* Nothing has happened in a run yet.
Quiet(run) == run.shown = {} /\ run.gone = {} /\ run.heard = Silence

Readable(c) == \A v \in Ids : <<c, v>> \notin Unreadable

\* A run whose stream is not open, or whose emitters hold no listener, is quiet;
\* and a listener that was registered once has heard what it is due.
Hears(run) ==
  /\ (~Open(run) \/ \E id \in Mapping : run.on[id] = 0) => Quiet(run)
  /\ \A id \in Mapping, kind \in Kinds, c \in Contracts :
       run.on[id] = 1 /\ Readable(c) =>
         run.heard[<<id, kind, c>>] = IF Due(run, id, kind, c) THEN 1 ELSE 0

EInv == HInv /\ \A i \in DOMAIN runs : Hears(runs[i])

-----------------------------------------------------------------------------
(* Runs, and sequences of them.                                            *)

\* What a run can be depends on the kind of mapping alone, which never changes.
LEMMA SameRuns ==
  ASSUME interfaces' = interfaces
  PROVE  Run' = Run /\ Mapping' = Mapping /\ Heard' = Heard /\ Silence' = Silence
BY DEF Run, Mapping, Heard, Silence

LEMMA ShortSequences ==
  ASSUME NEW S, NEW a \in S, NEW b \in S
  PROVE  <<a>> \in Seq(S) /\ <<a, b>> \in Seq(S)
OBVIOUS

\* A step that updates one run leaves the others.
LEMMA RunMoved ==
  ASSUME MType, NEW i \in DOMAIN runs, NEW run \in Run, runs' = [runs EXCEPT ![i] = run]
  PROVE  /\ runs' \in Seq(Run) /\ DOMAIN runs' = DOMAIN runs /\ Len(runs') = Len(runs)
         /\ runs'[i] = run
         /\ \A j \in DOMAIN runs : j # i => runs'[j] = runs[j]
BY DEF MType

LEMMA RunsAre ==
  ASSUME MType
  PROVE  /\ Len(runs) \in Nat /\ DOMAIN runs = 1..Len(runs)
         /\ \A i \in DOMAIN runs : runs[i] \in Run
BY DEF MType

LEMMA SilenceIs == Silence \in Heard
BY DEF Silence, Heard

\* A new run, and a closed one, are quiet.
LEMMA NewRunIs ==
  ASSUME NEW b \in BOOLEAN
  PROVE  /\ NewRun(b) \in Run /\ NewRun(b).phase = "creating" /\ NewRun(b).cancelled = b
         /\ Quiet(NewRun(b))
BY SilenceIs DEF NewRun, Run, Phases, Quiet

LEMMA ClosedIs ==
  ASSUME NEW run, run.cancelled \in BOOLEAN
  PROVE  /\ Closed(run) \in Run /\ Closed(run).phase = "closed" /\ Closed(run).cancelled = run.cancelled
         /\ Quiet(Closed(run))
<1>1. NewRun(run.cancelled) \in Run /\ NewRun(run.cancelled).cancelled = run.cancelled /\ Quiet(NewRun(run.cancelled))
  BY NewRunIs
<1>2. QED
  BY <1>1 DEF Closed, Run, Phases, Quiet

\* A run in which nothing has happened has heard what it is due.
LEMMA QuietHears ==
  ASSUME NEW run, Quiet(run)
  PROVE  Hears(run)
BY DEF Quiet, Hears, Due, Silence, Kinds

LEMMA StillHears ==
  ASSUME interfaces' = interfaces, NEW i, Hears(runs'[i])
  PROVE  Hears(runs[i])'
BY DEF Hears, Quiet, Silence, Mapping, Due, Open, Readable, Heard

\* A step of a run that was not cleaned up and is not opened or closed by it.
LEMMA SameForce ==
  ASSUME MType, InForce, NEW i \in DOMAIN runs, NEW run \in Run,
         runs' = [runs EXCEPT ![i] = run], interfaces' = interfaces,
         done' = done, streamRef' = streamRef, timerRef' = timerRef,
         run.cancelled = runs[i].cancelled,
         run.phase = runs[i].phase \/ (Open(run) /\ Open(runs[i]))
  PROVE  InForce'
<1>1. /\ DOMAIN runs' = DOMAIN runs /\ Len(runs') = Len(runs) /\ runs'[i] = run
      /\ \A j \in DOMAIN runs : j # i => runs'[j] = runs[j]
  BY RunMoved
<1>2. ASSUME NEW j \in DOMAIN runs
      PROVE  /\ runs'[j].cancelled = ~(done.ran /\ j = Len(runs))
             /\ runs'[j].cancelled => runs'[j].phase \in {"creating", "closed"}
             /\ Open(runs'[j]) <=> j = streamRef
             /\ runs'[j].phase = "waiting" => j = timerRef
  <2>1. CASE j = i
    BY <1>1, <2>1 DEF InForce, Open
  <2>2. CASE j # i
    BY <1>1, <2>2 DEF InForce
  <2>3. QED
    BY <2>1, <2>2
<1>3. QED
  BY <1>1, <1>2 DEF InForce

-----------------------------------------------------------------------------
(* The effects of the hook.                                                *)

\* A run that was cleaned up.
IsOff(run) == run.cancelled /\ run.phase \in {"creating", "closed"}

\* The cleanup leaves no run in force, and none that has anything to hear.
LEMMA CleanedUpIsOff ==
  ASSUME HInv
  PROVE  /\ CleanedUp \in Seq(Run) /\ Len(CleanedUp) = Len(runs)
         /\ \A i \in DOMAIN CleanedUp : IsOff(CleanedUp[i])
         /\ (\A i \in DOMAIN runs : Hears(runs[i])) => \A i \in DOMAIN CleanedUp : Quiet(CleanedUp[i])
<1>1. /\ Len(runs) \in Nat /\ DOMAIN runs = 1..Len(runs)
      /\ \A i \in DOMAIN runs : runs[i] \in Run
  BY RunsAre DEF HInv
<1>2. ASSUME NEW i \in DOMAIN runs
      PROVE  CleanedUp[i] \in Run /\ IsOff(CleanedUp[i]) /\ (Hears(runs[i]) => Quiet(CleanedUp[i]))
  <2> DEFINE run == [runs[i] EXCEPT !.cancelled = @ \/ i = Len(runs)]
  <2>1. /\ run \in Run /\ run.cancelled /\ run.phase = runs[i].phase
        /\ run.shown = runs[i].shown /\ run.gone = runs[i].gone /\ run.heard = runs[i].heard
    <3>1. runs[i].cancelled \/ i = Len(runs)
      BY <1>2 DEF HInv, InForce
    <3>2. runs[i] \in Run
      BY <1>1
    <3>3. QED
      BY <3>1, <3>2 DEF Run
  <2>2. CleanedUp[i] = IF i = streamRef \/ (i = timerRef /\ run.phase = "waiting")
                       THEN Closed(run) ELSE run
    BY <1>2 DEF CleanedUp
  <2>3. Closed(run) \in Run /\ Closed(run).phase = "closed" /\ Closed(run).cancelled /\ Quiet(Closed(run))
    <3>1. run.cancelled = TRUE /\ run.cancelled \in BOOLEAN
      BY <2>1 DEF Run
    <3> HIDE DEF run
    <3>2. /\ Closed(run) \in Run /\ Closed(run).phase = "closed" /\ Closed(run).cancelled = run.cancelled
          /\ Quiet(Closed(run))
      BY <3>1, ClosedIs
    <3>3. QED
      BY <3>1, <3>2
  <2>4. ASSUME i # streamRef, ~(i = timerRef /\ run.phase = "waiting")
        PROVE  run.phase \in {"creating", "closed"} /\ ~Open(runs[i])
    <3>1. runs[i].phase \in Phases
      BY <1>1 DEF Run
    <3>2. ~Open(runs[i]) /\ runs[i].phase # "waiting"
      BY <2>1, <2>4 DEF HInv, InForce
    <3>3. QED
      BY <2>1, <3>1, <3>2 DEF Open, Phases
  <2> HIDE DEF run
  <2>5. QED
    BY <2>1, <2>2, <2>3, <2>4 DEF IsOff, Hears, Quiet
<1>3. CleanedUp \in [1..Len(runs) -> Run]
  BY <1>1, <1>2 DEF CleanedUp
<1>4. CleanedUp \in Seq(Run) /\ Len(CleanedUp) = Len(runs) /\ DOMAIN CleanedUp = DOMAIN runs
  BY <1>1, <1>3
<1>5. QED
  BY <1>2, <1>4

\* Effects that run again leave only the run they make in force.
LEMMA MadeAgain ==
  ASSUME HInv
  PROVE  LET r == CleanedUp \o NewRuns IN
         /\ r \in Seq(Run) /\ Len(r) \in Nat /\ Len(r) > 0
         /\ r[Len(r)] = NewRun(FALSE)
         /\ \A i \in DOMAIN r : i # Len(r) => IsOff(r[i])
         /\ (\A i \in DOMAIN runs : Hears(runs[i])) => \A i \in DOMAIN r : Quiet(r[i])
<1> DEFINE r == CleanedUp \o NewRuns
           heard == \A i \in DOMAIN runs : Hears(runs[i])
<1>1. /\ CleanedUp \in Seq(Run) /\ Len(CleanedUp) \in Nat
      /\ \A i \in 1..Len(CleanedUp) : IsOff(CleanedUp[i]) /\ (heard => Quiet(CleanedUp[i]))
  <2> HIDE DEF heard
  <2>1. CleanedUp \in Seq(Run) /\ \A i \in DOMAIN CleanedUp : IsOff(CleanedUp[i]) /\ (heard => Quiet(CleanedUp[i]))
    BY CleanedUpIsOff DEF heard
  <2>2. QED
    BY <2>1
<1> HIDE DEF heard
<1>2. \A b \in BOOLEAN : NewRun(b) \in Run /\ NewRun(b).phase = "creating" /\ NewRun(b).cancelled = b
                         /\ Quiet(NewRun(b))
  BY NewRunIs
<1>3. CASE StrictMode /\ ~done.ran
  <2> DEFINE first == NewRun(TRUE)   second == NewRun(FALSE)
  <2>1. r = CleanedUp \o <<first, second>>
    BY <1>3 DEF NewRuns
  <2>2. first \in Run /\ second \in Run /\ IsOff(first) /\ Quiet(first) /\ Quiet(second)
    BY <1>2 DEF IsOff
  <2> HIDE DEF first, second
  <2>3. /\ <<first, second>> \in Seq(Run) /\ Len(<<first, second>>) = 2
        /\ <<first, second>>[1] = first /\ <<first, second>>[2] = second
    BY <2>2
  <2>4. /\ r \in Seq(Run) /\ Len(r) = Len(CleanedUp) + 2
        /\ \A i \in 1..Len(CleanedUp) : r[i] = CleanedUp[i]
        /\ r[Len(CleanedUp) + 1] = first /\ r[Len(CleanedUp) + 2] = second
    BY <1>1, <2>1, <2>2, <2>3
  <2> HIDE DEF r
  <2>5. \A i \in DOMAIN r : i \in 1..Len(CleanedUp) \/ i = Len(CleanedUp) + 1 \/ i = Len(CleanedUp) + 2
    BY <1>1, <2>4
  <2>6. \A i \in DOMAIN r : (i # Len(r) => IsOff(r[i])) /\ (heard => Quiet(r[i]))
    BY <1>1, <2>2, <2>4, <2>5
  <2>7. Len(r) \in Nat /\ Len(r) > 0 /\ r[Len(r)] = second
    BY <1>1, <2>4
  <2>8. QED
    BY <2>4, <2>6, <2>7 DEF second, r, heard
<1>4. CASE ~(StrictMode /\ ~done.ran)
  <2> DEFINE new == NewRun(FALSE)
  <2>1. r = CleanedUp \o <<new>>
    BY <1>4 DEF NewRuns
  <2>2. new \in Run /\ Quiet(new)
    BY <1>2
  <2> HIDE DEF new
  <2>3. /\ r \in Seq(Run) /\ Len(r) = Len(CleanedUp) + 1
        /\ \A i \in 1..Len(CleanedUp) : r[i] = CleanedUp[i]
        /\ r[Len(CleanedUp) + 1] = new
    BY <1>1, <2>1, <2>2
  <2> HIDE DEF r
  <2>4. \A i \in DOMAIN r : i \in 1..Len(CleanedUp) \/ i = Len(CleanedUp) + 1
    BY <1>1, <2>3
  <2>5. \A i \in DOMAIN r : (i # Len(r) => IsOff(r[i])) /\ (heard => Quiet(r[i]))
    BY <1>1, <2>2, <2>3, <2>4
  <2>6. Len(r) \in Nat /\ Len(r) > 0 /\ r[Len(r)] = new
    BY <1>1, <2>3
  <2>7. QED
    BY <2>3, <2>5, <2>6 DEF new, r, heard
<1>5. QED
  BY <1>3, <1>4

LEMMA EffectsHInv ==
  ASSUME HInv, FlushEffects
  PROVE  HInv'
<1>1. /\ runs' \in Seq(Run) /\ Len(runs') \in Nat /\ Len(runs') > 0 /\ DOMAIN runs' = 1..Len(runs')
      /\ runs'[Len(runs')].phase = "creating" /\ ~runs'[Len(runs')].cancelled
      /\ runs'[Len(runs')].cancelled \in BOOLEAN
      /\ \A i \in DOMAIN runs' : i # Len(runs') => IsOff(runs'[i])
  <2>1. runs' = CleanedUp \o NewRuns
    BY DEF FlushEffects
  <2>2. /\ runs' \in Seq(Run) /\ Len(runs') \in Nat /\ Len(runs') > 0 /\ runs'[Len(runs')] = NewRun(FALSE)
        /\ \A i \in DOMAIN runs' : i # Len(runs') => IsOff(runs'[i])
    BY <2>1, MadeAgain
  <2>3. NewRun(FALSE).phase = "creating" /\ NewRun(FALSE).cancelled = FALSE
    BY NewRunIs
  <2>4. DOMAIN runs' = 1..Len(runs')
    BY <2>2
  <2>5. QED
    BY <2>2, <2>3, <2>4
<1>2. /\ streamRef' = 0 /\ timerRef' = 0 /\ done' = [ran |-> TRUE, deps |-> props.deps] /\ interfaces' = interfaces
      /\ hook' = [stream |-> 0, loading |-> TRUE, connected |-> FALSE, error |-> FALSE]
      /\ late' = FALSE /\ reloaded' = FALSE /\ props' = props /\ listening' = listening /\ events' = events
  BY DEF FlushEffects, NoRun
<1>3. listening \in 0..Len(runs')
  <2>1. Len(runs) \in Nat /\ listening \in 0..Len(runs)
    BY RunsAre DEF HInv, MType
  <2>2. Len(runs') >= Len(runs)
    <3>1. runs' = CleanedUp \o NewRuns /\ CleanedUp \in Seq(Run) /\ Len(CleanedUp) = Len(runs)
      BY CleanedUpIsOff DEF FlushEffects
    <3>2. NewRuns \in Seq(Run)
      <4>1. NewRun(TRUE) \in Run /\ NewRun(FALSE) \in Run
        BY NewRunIs
      <4>2. <<NewRun(TRUE), NewRun(FALSE)>> \in Seq(Run) /\ <<NewRun(FALSE)>> \in Seq(Run)
        BY <4>1, ShortSequences
      <4>3. QED
        BY <4>2 DEF NewRuns
    <3>3. QED
      BY <2>1, <3>1, <3>2
  <2>3. QED
    BY <1>1, <2>1, <2>2
<1>4. MType'
  <2>1. Run' = Run
    BY <1>2, SameRuns
  <2>2. props.deps \in Nat /\ props \in [mounted : BOOLEAN, deps : Nat] /\ interfaces \in BOOLEAN /\ events \in Nat
    BY DEF HInv, MType
  <2>3. QED
    <3>1. 0 \in 0..Len(runs')
      BY <1>1
    <3>2. hook' \in [stream : 0..Len(runs'), loading : BOOLEAN, connected : BOOLEAN, error : BOOLEAN]
      BY <1>2, <3>1
    <3>3. done' \in [ran : BOOLEAN, deps : Nat]
      BY <1>2, <2>2
    <3>4. QED
      BY <1>1, <1>2, <1>3, <2>1, <2>2, <3>1, <3>2, <3>3 DEF MType
<1>5. InForce'
  <2>1. ASSUME NEW i \in DOMAIN runs'
        PROVE  /\ runs'[i].cancelled = ~(done'.ran /\ i = Len(runs'))
               /\ runs'[i].cancelled => runs'[i].phase \in {"creating", "closed"}
               /\ Open(runs'[i]) <=> i = streamRef'
               /\ runs'[i].phase = "waiting" => i = timerRef'
    <3>1. i \in 1..Len(runs') /\ i # 0 /\ done'.ran /\ runs'[i] \in Run
      BY <1>1, <1>2
    <3>1a. runs'[i].cancelled \in BOOLEAN
      BY <3>1 DEF Run
    <3>2. CASE i = Len(runs')
      BY <1>1, <1>2, <3>1, <3>1a, <3>2 DEF Open
    <3>3. CASE i # Len(runs')
      BY <1>1, <1>2, <3>1, <3>1a, <3>3 DEF Open, IsOff
    <3>4. QED
      BY <3>2, <3>3
  <2>2. QED
    BY <1>1, <1>2, <2>1 DEF InForce
<1>6. ConnectedIsTrue'
  BY <1>2 DEF ConnectedIsTrue, NoRun
<1>7. QED
  BY <1>4, <1>5, <1>6 DEF HInv

LEMMA UnmountHInv ==
  ASSUME HInv, FlushUnmount
  PROVE  HInv'
<1>1. /\ runs' = CleanedUp /\ streamRef' = 0 /\ timerRef' = 0 /\ listening' = 0 /\ done' = [done EXCEPT !.ran = FALSE]
      /\ hook' = [hook EXCEPT !.stream = 0, !.connected = FALSE] /\ interfaces' = interfaces
      /\ late' = late /\ reloaded' = reloaded /\ props' = props /\ events' = events
  BY DEF FlushUnmount, NoRun
<1>2. /\ runs' \in Seq(Run) /\ Len(runs') \in Nat /\ DOMAIN runs' = 1..Len(runs')
      /\ \A i \in DOMAIN runs' : runs'[i] \in Run /\ IsOff(runs'[i])
  <2>1. runs' \in Seq(Run) /\ \A i \in DOMAIN runs' : IsOff(runs'[i])
    BY <1>1, CleanedUpIsOff
  <2>2. QED
    BY <2>1
<1>3. ~done'.ran /\ done' \in [ran : BOOLEAN, deps : Nat]
  BY <1>1 DEF HInv, MType
<1>4. MType'
  <2>1. Run' = Run
    BY <1>1, SameRuns
  <2>2. 0 \in 0..Len(runs')
    BY <1>2
  <2>3. hook' \in [stream : 0..Len(runs'), loading : BOOLEAN, connected : BOOLEAN, error : BOOLEAN]
    BY <1>1, <2>2 DEF HInv, MType
  <2>4. QED
    BY <1>1, <1>2, <1>3, <2>1, <2>2, <2>3 DEF HInv, MType
<1>5. InForce'
  <2>1. \A i \in DOMAIN runs' : i # 0 /\ ~Open(runs'[i]) /\ runs'[i].phase # "waiting"
                               /\ runs'[i].cancelled = TRUE
    <3>1. ASSUME NEW i \in DOMAIN runs'
          PROVE  /\ i # 0 /\ ~Open(runs'[i]) /\ runs'[i].phase # "waiting" /\ runs'[i].cancelled = TRUE
      <4>1. i # 0 /\ runs'[i] \in Run /\ IsOff(runs'[i])
        BY <1>2
      <4>2. runs'[i].cancelled \in BOOLEAN
        BY <4>1 DEF Run
      <4>3. QED
        BY <4>1, <4>2 DEF IsOff, Open
    <3>2. QED
      BY <3>1
  <2>2. QED
    BY <1>1, <1>2, <1>3, <2>1 DEF InForce, IsOff
<1>6. ConnectedIsTrue'
  <2>1. ~hook'.connected
    BY <1>1 DEF HInv, MType
  <2>2. QED
    BY <1>1, <2>1 DEF ConnectedIsTrue, NoRun
<1>7. QED
  BY <1>4, <1>5, <1>6 DEF HInv

-----------------------------------------------------------------------------
(* Steps that leave the runs and who is in force alone.                    *)

HookType == [stream : 0..Len(runs), loading : BOOLEAN, connected : BOOLEAN, error : BOOLEAN]

LEMMA CalmHInv ==
  ASSUME HInv, UNCHANGED <<interfaces, done, runs, streamRef, timerRef, late>>, listening' \in 0..Len(runs),
         props' \in [mounted : BOOLEAN, deps : Nat], hook' \in HookType, hook'.connected = hook.connected,
         reloaded' \in BOOLEAN, events' \in Nat
  PROVE  HInv'
<1>1. Run' = Run
  BY SameRuns
<1>2. MType'
  BY <1>1 DEF HInv, MType, HookType
<1>3. InForce' /\ ConnectedIsTrue'
  BY DEF HInv, InForce, ConnectedIsTrue
<1>4. QED
  BY <1>2, <1>3 DEF HInv

LEMMA OthersHInv ==
  ASSUME HInv, RenderMulti \/ Unmount \/ ReloadMulti \/ LedgerMoves \/ (\E i \in DOMAIN runs : Errors(i))
               \/ UNCHANGED multiVars
  PROVE  HInv'
<1>1. /\ props.deps \in Nat /\ props \in [mounted : BOOLEAN, deps : Nat] /\ hook \in HookType
      /\ Len(runs) \in Nat /\ reloaded \in BOOLEAN /\ events \in Nat /\ listening \in 0..Len(runs)
  BY DEF HInv, MType, HookType
<1>2. CASE RenderMulti
  BY <1>1, <1>2, CalmHInv DEF RenderMulti
<1>3. CASE Unmount
  BY <1>1, <1>3, CalmHInv DEF Unmount
<1>4. CASE ReloadMulti
  <2>1. /\ hook' = [hook EXCEPT !.stream = 0, !.loading = TRUE, !.error = FALSE] /\ reloaded' = TRUE
        /\ events' \in Nat /\ props' = props
        /\ UNCHANGED <<interfaces, done, runs, streamRef, timerRef, listening, late>>
    BY <1>1, <1>4 DEF ReloadMulti, Counted, NoRun
  <2>2. hook' \in HookType /\ hook'.connected = hook.connected
    <3>1. 0 \in 0..Len(runs)
      BY <1>1
    <3>2. QED
      BY <1>1, <2>1, <3>1 DEF HookType
  <2>3. QED
    BY <1>1, <2>1, <2>2, CalmHInv
<1>5. CASE LedgerMoves
  BY <1>1, <1>5, CalmHInv DEF LedgerMoves, hookVars
<1>6. ASSUME NEW i \in DOMAIN runs, Errors(i)  PROVE HInv'
  <2>1. /\ hook' = [hook EXCEPT !.error = TRUE] /\ reloaded' = reloaded
        /\ events' \in Nat /\ props' = props
        /\ UNCHANGED <<interfaces, done, runs, streamRef, timerRef, listening, late>>
    BY <1>1, <1>6 DEF Errors, Counted
  <2>2. hook' \in HookType /\ hook'.connected = hook.connected
    BY <1>1, <2>1 DEF HookType
  <2>3. QED
    BY <1>1, <2>1, <2>2, CalmHInv
<1>7. CASE UNCHANGED multiVars
  BY <1>1, <1>7, CalmHInv DEF multiVars
<1>8. QED
  BY <1>2, <1>3, <1>4, <1>5, <1>6, <1>7

-----------------------------------------------------------------------------
(* Steps of one run.                                                       *)

\* A step that neither opens nor closes a stream.
LEMMA RunHInv ==
  ASSUME HInv, NEW i \in DOMAIN runs, NEW run \in Run,
         runs' = [runs EXCEPT ![i] = run], UNCHANGED <<interfaces, props, done, streamRef, timerRef, reloaded>>,
         run.cancelled = runs[i].cancelled,
         run.phase = runs[i].phase \/ (Open(run) /\ Open(runs[i])),
         listening' \in 0..Len(runs), hook' \in HookType, late' \in BOOLEAN, events' \in Nat,
         \/ run.phase = runs[i].phase /\ hook'.connected = hook.connected /\ late' = late
         \/ i = streamRef /\ hook'.connected = (run.phase = "live")
  PROVE  HInv'
<1>1. Run' = Run
  BY SameRuns
<1>2. /\ runs' \in Seq(Run) /\ DOMAIN runs' = DOMAIN runs /\ Len(runs') = Len(runs) /\ runs'[i] = run
      /\ \A j \in DOMAIN runs : j # i => runs'[j] = runs[j]
  BY RunMoved DEF HInv
<1>3. MType'
  BY <1>1, <1>2 DEF HInv, MType, HookType
<1>4. InForce'
  BY SameForce DEF HInv
<1>5. ConnectedIsTrue'
  <2>1. streamRef # NoRun => streamRef \in DOMAIN runs
    BY RunsAre DEF HInv, MType, NoRun
  <2>2. CASE run.phase = runs[i].phase /\ hook'.connected = hook.connected /\ late' = late
    <3>1. streamRef # NoRun => runs'[streamRef].phase = runs[streamRef].phase
      BY <1>2, <2>1, <2>2
    <3>2. QED
      BY <2>2, <3>1 DEF HInv, ConnectedIsTrue
  <2>3. CASE i = streamRef /\ hook'.connected = (run.phase = "live")
    <3>1. i # NoRun
      BY RunsAre DEF HInv, MType, NoRun
    <3>2. QED
      BY <1>2, <2>3, <3>1 DEF ConnectedIsTrue
  <2>4. QED
    BY <2>2, <2>3
<1>6. QED
  BY <1>3, <1>4, <1>5 DEF HInv

LEMMA OnIs ==
  ASSUME NEW run \in Run
  PROVE  /\ On(run) \in Run /\ On(run).phase = run.phase /\ On(run).cancelled = run.cancelled
         /\ On(run).shown = run.shown /\ On(run).gone = run.gone /\ On(run).heard = run.heard
         /\ \A id \in Mapping : On(run).on[id] = run.on[id] + 1
<1>1. run.on \in [Mapping -> Nat]
  BY DEF Run
<1>2. [id \in Mapping |-> run.on[id] + 1] \in [Mapping -> Nat]
  BY <1>1
<1>3. QED
  BY <1>2 DEF On, Run

\* What an emitter adds to what its listeners have heard.
LEMMA EmittedIs ==
  ASSUME NEW run, run.heard \in Heard, run.on \in [Mapping -> Nat], NEW kind, NEW ids, NEW c
  PROVE  /\ Emitted(run, kind, ids, c) \in Heard
         /\ \A id \in Mapping, k \in Kinds, d \in Contracts :
              Emitted(run, kind, ids, c)[<<id, k, d>>] =
                run.heard[<<id, k, d>>] + IF k = kind /\ d = c /\ \E a \in ids : SameEmitter(a, id)
                                          THEN run.on[id] ELSE 0
<1>1. DOMAIN run.heard = Mapping \X Kinds \X Contracts /\ \A h \in DOMAIN run.heard : run.heard[h] \in Nat
  BY DEF Heard
<1>2. ASSUME NEW h \in DOMAIN run.heard
      PROVE  run.heard[h] + (IF h[2] = kind /\ h[3] = c /\ \E a \in ids : SameEmitter(a, h[1])
                             THEN run.on[h[1]] ELSE 0) \in Nat
  <2>1. h[1] \in Mapping
    BY <1>1, <1>2
  <2>2. run.on[h[1]] \in Nat /\ run.heard[h] \in Nat
    BY <1>1, <1>2, <2>1
  <2>3. QED
    BY <2>2
<1>3. Emitted(run, kind, ids, c) \in Heard
  BY <1>1, <1>2 DEF Emitted, Heard
<1>4. ASSUME NEW id \in Mapping, NEW k \in Kinds, NEW d \in Contracts
      PROVE  Emitted(run, kind, ids, c)[<<id, k, d>>] =
                run.heard[<<id, k, d>>] + IF k = kind /\ d = c /\ \E a \in ids : SameEmitter(a, id)
                                          THEN run.on[id] ELSE 0
  BY <1>1 DEF Emitted
<1>5. QED
  BY <1>3, <1>4

\* What a create event does to a run.
LEMMA HandleCreateIs ==
  ASSUME NEW run \in Run, NEW c \in Contracts
  PROVE  LET r == HandleCreate(run, c) IN
         /\ r \in Run /\ r.phase = run.phase /\ r.cancelled = run.cancelled /\ r.on = run.on
         /\ r.shown = run.shown \cup {c} /\ r.gone = run.gone
         /\ \A id \in Mapping, k \in Kinds, d \in Contracts :
              r.heard[<<id, k, d>>] =
                run.heard[<<id, k, d>>]
                + (IF k = "create" /\ d = c /\ SameEmitter(TemplateOf[c], id) THEN run.on[id] ELSE 0)
                + (IF k = "interfaceView" /\ d = c /\ \E a \in Views(c) : SameEmitter(a, id) THEN run.on[id] ELSE 0)
<1> DEFINE created == [run EXCEPT !.shown = @ \cup {c}, !.heard = Emitted(run, "create", {TemplateOf[c]}, c)]
           r == [created EXCEPT !.heard = Emitted(created, "interfaceView", Views(c), c)]
<1>1. HandleCreate(run, c) = r
  BY DEF HandleCreate
<1>2. run.heard \in Heard /\ run.on \in [Mapping -> Nat]
  BY DEF Run
<1>3. /\ Emitted(run, "create", {TemplateOf[c]}, c) \in Heard
      /\ \A id \in Mapping, k \in Kinds, d \in Contracts :
           Emitted(run, "create", {TemplateOf[c]}, c)[<<id, k, d>>] =
             run.heard[<<id, k, d>>] + IF k = "create" /\ d = c /\ \E a \in {TemplateOf[c]} : SameEmitter(a, id)
                                       THEN run.on[id] ELSE 0
  BY <1>2, EmittedIs
<1>4. /\ created \in Run /\ created.heard = Emitted(run, "create", {TemplateOf[c]}, c) /\ created.on = run.on
      /\ created.phase = run.phase /\ created.cancelled = run.cancelled /\ created.gone = run.gone
      /\ created.shown = run.shown \cup {c}
  BY <1>3 DEF Run
<1> HIDE DEF created
<1>5. /\ Emitted(created, "interfaceView", Views(c), c) \in Heard
      /\ \A id \in Mapping, k \in Kinds, d \in Contracts :
           Emitted(created, "interfaceView", Views(c), c)[<<id, k, d>>] =
             created.heard[<<id, k, d>>] + IF k = "interfaceView" /\ d = c /\ \E a \in Views(c) : SameEmitter(a, id)
                                           THEN created.on[id] ELSE 0
  <2>1. created.heard \in Heard /\ created.on \in [Mapping -> Nat]
    BY <1>2, <1>3, <1>4
  <2>2. QED
    BY <2>1, EmittedIs
<1>6. /\ r \in Run /\ r.heard = Emitted(created, "interfaceView", Views(c), c) /\ r.on = run.on
      /\ r.phase = run.phase /\ r.cancelled = run.cancelled /\ r.gone = run.gone
      /\ r.shown = run.shown \cup {c}
  BY <1>4, <1>5 DEF Run
<1> HIDE DEF r
<1>7. ASSUME NEW id \in Mapping, NEW k \in Kinds, NEW d \in Contracts
      PROVE  r.heard[<<id, k, d>>] =
                run.heard[<<id, k, d>>]
                + (IF k = "create" /\ d = c /\ SameEmitter(TemplateOf[c], id) THEN run.on[id] ELSE 0)
                + (IF k = "interfaceView" /\ d = c /\ \E a \in Views(c) : SameEmitter(a, id) THEN run.on[id] ELSE 0)
  <2>1. r.heard[<<id, k, d>>] =
          created.heard[<<id, k, d>>] + IF k = "interfaceView" /\ d = c /\ \E a \in Views(c) : SameEmitter(a, id)
                                        THEN run.on[id] ELSE 0
    BY <1>4, <1>5, <1>6
  <2>2. created.heard[<<id, k, d>>] =
          run.heard[<<id, k, d>>] + IF k = "create" /\ d = c /\ SameEmitter(TemplateOf[c], id) THEN run.on[id] ELSE 0
    BY <1>3, <1>4
  <2>3. QED
    BY <2>1, <2>2
<1>8. QED
  BY <1>1, <1>6, <1>7

LEMMA HandleArchiveIs ==
  ASSUME NEW run \in Run, NEW c \in Contracts
  PROVE  LET r == HandleArchive(run, c) IN
         /\ r \in Run /\ r.phase = run.phase /\ r.cancelled = run.cancelled /\ r.on = run.on
         /\ r.shown = run.shown /\ r.gone = run.gone \cup {c}
         /\ \A id \in Mapping, k \in Kinds, d \in Contracts :
              r.heard[<<id, k, d>>] =
                run.heard[<<id, k, d>>]
                + (IF k = "archive" /\ d = c /\ SameEmitter(TemplateOf[c], id) THEN run.on[id] ELSE 0)
<1> DEFINE r == HandleArchive(run, c)
<1>1. run.heard \in Heard /\ run.on \in [Mapping -> Nat]
  BY DEF Run
<1>2. /\ Emitted(run, "archive", {TemplateOf[c]}, c) \in Heard
      /\ \A id \in Mapping, k \in Kinds, d \in Contracts :
           Emitted(run, "archive", {TemplateOf[c]}, c)[<<id, k, d>>] =
             run.heard[<<id, k, d>>] + IF k = "archive" /\ d = c /\ \E a \in {TemplateOf[c]} : SameEmitter(a, id)
                                       THEN run.on[id] ELSE 0
  BY <1>1, EmittedIs
<1>3. /\ r \in Run /\ r.heard = Emitted(run, "archive", {TemplateOf[c]}, c) /\ r.on = run.on
      /\ r.phase = run.phase /\ r.cancelled = run.cancelled /\ r.shown = run.shown
      /\ r.gone = run.gone \cup {c}
  BY <1>2 DEF HandleArchive, Run
<1> HIDE DEF r
<1>4. \A id \in Mapping, k \in Kinds, d \in Contracts :
        r.heard[<<id, k, d>>] = run.heard[<<id, k, d>>]
          + (IF k = "archive" /\ d = c /\ SameEmitter(TemplateOf[c], id) THEN run.on[id] ELSE 0)
  BY <1>2, <1>3
<1>5. QED
  BY <1>3, <1>4 DEF r

\* Once every view of a contract can be read, all are emitted.
LEMMA AllViews ==
  ASSUME NEW c \in Contracts, Readable(c)
  PROVE  \A id : (\E a \in Views(c) : SameEmitter(a, id)) <=>
                 interfaces /\ \E k \in DOMAIN ViewsOf[c] : Name[id] = Name[ViewsOf[c][k]]
<1>1. ViewsOf[c] \in Seq(Ids) /\ DOMAIN ViewsOf[c] = 1..Len(ViewsOf[c])
  BY MultiAssumption
<1>2. ASSUME NEW n \in DOMAIN ViewsOf[c], NEW l \in 1..n
      PROVE  <<c, ViewsOf[c][l]>> \notin Unreadable
  <2>1. l \in DOMAIN ViewsOf[c] /\ ViewsOf[c][l] \in Ids
    BY <1>1
  <2>2. QED
    BY <2>1 DEF Readable
<1>3. Views(c) = IF interfaces THEN {ViewsOf[c][k] : k \in DOMAIN ViewsOf[c]} ELSE {}
  BY <1>2 DEF Views
<1>4. QED
  BY <1>3 DEF SameEmitter

LEMMA OpenRun ==
  ASSUME HInv, NEW i \in DOMAIN runs
  PROVE  Open(runs[i]) <=> i = streamRef
BY DEF HInv, InForce

\* Every step keeps who is in force, and that the hook says whether it is connected.
LEMMA ListensHInv ==
  ASSUME HInv, Listens
  PROVE  HInv'
<1>1. /\ hook.stream \in 0..Len(runs) /\ Len(runs) \in Nat /\ DOMAIN runs = 1..Len(runs)
      /\ hook \in HookType /\ late \in BOOLEAN /\ reloaded \in BOOLEAN /\ events \in Nat
      /\ props \in [mounted : BOOLEAN, deps : Nat]
  BY RunsAre DEF HInv, MType, HookType
<1>2. CASE hook.stream = NoRun
  BY <1>1, <1>2, CalmHInv DEF Listens
<1>3. CASE hook.stream # NoRun
  <2> DEFINE i == hook.stream
             run == On(runs[i])
  <2>1. i \in DOMAIN runs
    BY <1>1, <1>3 DEF NoRun
  <2>2. runs[i] \in Run
    BY <2>1, RunsAre DEF HInv
  <2>3. run \in Run /\ run.phase = runs[i].phase /\ run.cancelled = runs[i].cancelled
    BY <2>2, OnIs
  <2>4. /\ runs' = [runs EXCEPT ![i] = run] /\ listening' = i /\ hook' = hook /\ late' = late /\ events' = events
        /\ UNCHANGED <<interfaces, props, done, streamRef, timerRef, reloaded>>
    BY <1>3 DEF Listens
  <2> HIDE DEF i, run
  <2>5. i \in 0..Len(runs)
    BY <1>1, <2>1
  <2>6. QED
    BY <1>1, <2>1, <2>3, <2>4, <2>5, RunHInv
<1>4. QED
  BY <1>2, <1>3

LEMMA ListensAnewHInv ==
  ASSUME HInv, ListensAnew
  PROVE  HInv'
<1>1. /\ listening \in 0..Len(runs) /\ Len(runs) \in Nat /\ DOMAIN runs = 1..Len(runs)
      /\ hook \in HookType /\ late \in BOOLEAN /\ events \in Nat
  BY RunsAre DEF HInv, MType, HookType
<1> DEFINE run == On(runs[listening])
<1>2. listening \in DOMAIN runs /\ runs[listening] \in Run
  <2>1. listening \in DOMAIN runs
    BY <1>1 DEF ListensAnew, NoRun
  <2>2. QED
    BY <2>1, RunsAre DEF HInv
<1>3. run \in Run /\ run.phase = runs[listening].phase /\ run.cancelled = runs[listening].cancelled
  BY <1>2, OnIs
<1>4. /\ runs' = [runs EXCEPT ![listening] = run] /\ listening' = listening /\ hook' = hook /\ late' = late
      /\ events' = events /\ UNCHANGED <<interfaces, props, done, streamRef, timerRef, reloaded>>
  BY DEF ListensAnew, Off
<1> HIDE DEF run
<1>5. QED
  BY <1>1, <1>2, <1>3, <1>4, RunHInv

LEMMA ShowsHInv ==
  ASSUME HInv, NEW i \in DOMAIN runs, NEW c \in Contracts, Shows(i, c) \/ Archives(i, c)
  PROVE  HInv'
<1>1. /\ listening \in 0..Len(runs) /\ hook \in HookType /\ late \in BOOLEAN /\ events \in Nat
      /\ runs[i] \in Run
  BY RunsAre DEF HInv, MType, HookType
<1>2. UNCHANGED <<interfaces, props, done, streamRef, timerRef, reloaded, listening, hook, late, events>>
  BY DEF Shows, Archives, hookVars
<1>3. PICK run \in {HandleCreate(runs[i], c), HandleArchive(runs[i], c)} : runs' = [runs EXCEPT ![i] = run]
  BY DEF Shows, Archives
<1>4. run \in Run /\ run.phase = runs[i].phase /\ run.cancelled = runs[i].cancelled
  BY <1>1, <1>3, HandleCreateIs, HandleArchiveIs
<1>5. QED
  BY <1>1, <1>2, <1>3, <1>4, RunHInv

\* A run whose stream begins again.
AnewFrom(run) ==
  [run EXCEPT !.phase = "init", !.shown = {}, !.gone = {}, !.heard = Silence,
              !.acs = IF run.phase = "live" THEN run.shown \ run.gone ELSE run.acs]

LEMMA AnewFromIs ==
  ASSUME NEW run \in Run
  PROVE  /\ AnewFrom(run) \in Run /\ AnewFrom(run).phase = "init" /\ AnewFrom(run).cancelled = run.cancelled
         /\ Quiet(AnewFrom(run))
<1>1. (IF run.phase = "live" THEN run.shown \ run.gone ELSE run.acs) \in SUBSET Contracts
  BY DEF Run
<1>2. QED
  BY <1>1, SilenceIs DEF AnewFrom, Run, Phases, Quiet

LEMMA RestartedIs ==
  ASSUME NEW i \in DOMAIN runs, Restarts(i)
  PROVE  runs' = [runs EXCEPT ![i] = AnewFrom(runs[i])]
BY DEF Restarts, AnewFrom

LEMMA StateHInv ==
  ASSUME HInv, NEW i \in DOMAIN runs, GoesLive(i) \/ Restarts(i)
  PROVE  HInv'
<1>1. /\ listening \in 0..Len(runs) /\ hook \in HookType /\ events \in Nat
      /\ runs[i] \in Run
  BY RunsAre DEF HInv, MType, HookType
<1>2. /\ UNCHANGED <<interfaces, props, done, streamRef, timerRef, reloaded, listening>>
      /\ late' = FALSE /\ events' \in Nat
  <2>1. CASE GoesLive(i)
    BY <1>1, <2>1 DEF GoesLive
  <2>2. CASE Restarts(i)
    <3>1. events' = events + 1
      BY <2>2 DEF Restarts, Counted
    <3>2. QED
      BY <1>1, <2>2, <3>1 DEF Restarts
  <2>3. QED
    BY <2>1, <2>2
<1>3. Open(runs[i]) /\ i = streamRef
  BY OpenRun DEF GoesLive, Restarts, Open
<1>4. CASE GoesLive(i)
  <2> DEFINE run == [runs[i] EXCEPT !.phase = "live"]
  <2>1. run \in Run /\ run.phase = "live" /\ run.cancelled = runs[i].cancelled
    BY <1>1 DEF Run, Phases
  <2>2. hook' \in HookType /\ hook'.connected = TRUE
    BY <1>1, <1>4 DEF GoesLive, StateSeen, HookType
  <2>3. runs' = [runs EXCEPT ![i] = run]
    BY <1>4 DEF GoesLive
  <2> HIDE DEF run
  <2>4. Open(run)
    BY <2>1 DEF Open
  <2>5. QED
    BY <1>1, <1>2, <1>3, <2>1, <2>2, <2>3, <2>4, RunHInv
<1>5. CASE Restarts(i)
  <2> DEFINE run == AnewFrom(runs[i])
  <2>1. run \in Run /\ run.phase = "init" /\ run.cancelled = runs[i].cancelled
    BY <1>1, AnewFromIs
  <2>2. hook' \in HookType /\ hook'.connected = FALSE
    BY <1>1, <1>5 DEF Restarts, StateSeen, HookType
  <2>3. runs' = [runs EXCEPT ![i] = run]
    BY <1>5, RestartedIs
  <2> HIDE DEF run
  <2>4. Open(run)
    BY <2>1 DEF Open
  <2>5. QED
    BY <1>1, <1>2, <1>3, <2>1, <2>2, <2>3, <2>4, RunHInv
<1>6. QED
  BY <1>4, <1>5

\* Its steps before it has a stream: the run is in force exactly when it is not cancelled.
LEMMA SetupHInv ==
  ASSUME HInv, NEW i \in DOMAIN runs, Created(i) \/ CreateFails(i) \/ RetryFires(i)
  PROVE  HInv'
<1>1. /\ Len(runs) \in Nat /\ DOMAIN runs = 1..Len(runs) /\ hook \in HookType /\ late \in BOOLEAN /\ events \in Nat
      /\ runs[i] \in Run /\ runs[i].cancelled \in BOOLEAN /\ runs[i].phase \in {"creating", "waiting"}
      /\ i \in 0..Len(runs) /\ i # 0 /\ streamRef \in 0..Len(runs) /\ timerRef \in 0..Len(runs)
  <2>1. runs[i] \in Run /\ Len(runs) \in Nat /\ DOMAIN runs = 1..Len(runs)
    BY RunsAre DEF HInv
  <2>2. QED
    BY <2>1 DEF HInv, MType, HookType, Run, Created, CreateFails, RetryFires
<1>2. i # streamRef
  BY <1>1, OpenRun DEF Open
<1>3. /\ runs[i].cancelled = ~(done.ran /\ i = Len(runs))
      /\ runs[i].cancelled => runs[i].phase = "creating"
      /\ runs[i].phase = "waiting" => i = timerRef
      /\ \A j \in DOMAIN runs : /\ runs[j].cancelled = ~(done.ran /\ j = Len(runs))
                                /\ runs[j].cancelled => runs[j].phase \in {"creating", "closed"}
                                /\ Open(runs[j]) <=> j = streamRef
                                /\ runs[j].phase = "waiting" => j = timerRef
      /\ done.ran => Len(runs) > 0
  BY <1>1 DEF HInv, InForce
\* What the step makes of the run, and of the references.
<1>4. PICK run \in Run :
        /\ runs' = [runs EXCEPT ![i] = run] /\ run.cancelled = runs[i].cancelled
        /\ UNCHANGED <<interfaces, props, done, listening, reloaded>>
        /\ late' \in BOOLEAN /\ events' \in Nat /\ hook' \in HookType
        /\ run.cancelled => /\ run.phase = "closed" /\ streamRef' = streamRef /\ timerRef' = timerRef
                            /\ \/ hook' = hook /\ late' = late
                               \/ late' /\ ~hook'.connected
        /\ ~run.cancelled => \/ /\ run.phase = "init" /\ streamRef' = i /\ timerRef' = timerRef
                                /\ hook'.connected = hook.connected /\ late' = late
                             \/ /\ run.phase = "waiting" /\ streamRef' = streamRef /\ timerRef' = i
                                /\ ~hook'.connected
                             \/ /\ run.phase = "creating" /\ streamRef' = streamRef /\ timerRef' = timerRef
                                /\ hook'.connected = hook.connected /\ late' = late
  <2>1. CASE Created(i)
    <3>1. CASE runs[i].cancelled
      <4>1. Closed(runs[i]) \in Run /\ Closed(runs[i]).phase = "closed" /\ Closed(runs[i]).cancelled = runs[i].cancelled
        BY <1>1, ClosedIs
      <4>2. QED
        BY <1>1, <2>1, <3>1, <4>1 DEF Created, HInv, MType
    <3>2. CASE ~runs[i].cancelled
      <4>1. ActiveContracts \subseteq Contracts
        BY DEF ActiveContracts
      <4>2. Started(runs[i]) \in Run /\ Started(runs[i]).phase = "init" /\ Started(runs[i]).cancelled = runs[i].cancelled
        BY <1>1, <4>1 DEF Started, Run, Phases
      <4>3. hook' \in HookType /\ hook'.connected = hook.connected
        BY <1>1, <2>1, <3>2 DEF Created, HookType
      <4>4. QED
        BY <1>1, <2>1, <3>2, <4>2, <4>3 DEF Created, HInv, MType
    <3>3. QED
      BY <3>1, <3>2
  <2>2. CASE CreateFails(i)
    <3> DEFINE run == [runs[i] EXCEPT !.phase = IF Retrying(i) THEN "waiting" ELSE "closed"]
    <3>1. /\ run \in Run /\ run.cancelled = runs[i].cancelled
          /\ run.phase = IF Retrying(i) THEN "waiting" ELSE "closed"
      BY <1>1 DEF Run, Phases
    <3>2. hook' \in HookType /\ ~hook'.connected
      BY <1>1, <2>2 DEF CreateFails, HookType
    <3>3. runs' = [runs EXCEPT ![i] = run] /\ UNCHANGED <<interfaces, props, done, listening, reloaded, streamRef>>
      BY <2>2 DEF CreateFails
    <3>4. late' = (late \/ runs[i].cancelled) /\ events' = events + 1 /\ timerRef' = IF Retrying(i) THEN i ELSE timerRef
      BY <2>2 DEF CreateFails, Counted
    <3>5. late' \in BOOLEAN /\ events' \in Nat
      BY <1>1, <3>4
    <3> HIDE DEF run
    <3>6. CASE runs[i].cancelled
      BY <3>1, <3>2, <3>3, <3>4, <3>5, <3>6 DEF Retrying
    <3>7. CASE ~runs[i].cancelled
      BY <3>1, <3>2, <3>3, <3>4, <3>5, <3>7 DEF Retrying
    <3>8. QED
      BY <3>6, <3>7
  <2>3. CASE RetryFires(i)
    <3>1. ~runs[i].cancelled
      BY <1>3, <2>3 DEF RetryFires
    <3> DEFINE run == [runs[i] EXCEPT !.phase = "creating"]
    <3>2. run \in Run /\ run.cancelled = runs[i].cancelled /\ run.phase = "creating"
      BY <1>1 DEF Run, Phases
    <3>3. hook' \in HookType /\ hook'.connected = hook.connected
      BY <1>1, <2>3, <3>1 DEF RetryFires, HookType
    <3>4. /\ runs' = [runs EXCEPT ![i] = run]
          /\ UNCHANGED <<interfaces, props, done, listening, reloaded, streamRef, timerRef, late, events>>
      BY <2>3, <3>1 DEF RetryFires
    <3> HIDE DEF run
    <3>5. QED
      BY <1>1, <3>1, <3>2, <3>3, <3>4
  <2>4. QED
    BY <2>1, <2>2, <2>3
<1>5. /\ runs' \in Seq(Run) /\ DOMAIN runs' = DOMAIN runs /\ Len(runs') = Len(runs) /\ runs'[i] = run
      /\ \A j \in DOMAIN runs : j # i => runs'[j] = runs[j]
  BY <1>4, RunMoved DEF HInv
<1>6. MType'
  <2>1. Run' = Run
    BY <1>4, SameRuns
  <2>2. streamRef' \in 0..Len(runs) /\ timerRef' \in 0..Len(runs)
    BY <1>1, <1>4
  <2>3. QED
    BY <1>4, <1>5, <2>1, <2>2 DEF HInv, MType, HookType
\* While another run is in force, this one is cancelled.
<1>7. ~runs[i].cancelled => streamRef = 0 /\ ~hook.connected
  <2>1. ASSUME ~runs[i].cancelled, streamRef # 0  PROVE FALSE
    <3>1. streamRef \in DOMAIN runs
      BY <1>1, <2>1
    <3>2. Open(runs[streamRef])
      BY <1>3, <3>1
    <3>3. ~runs[streamRef].cancelled
      BY <1>3, <3>1, <3>2 DEF Open
    <3>4. streamRef = Len(runs) /\ i = Len(runs)
      BY <1>3, <2>1, <3>1, <3>3
    <3>5. QED
      BY <1>2, <3>4
  <2>2. QED
    BY <2>1 DEF HInv, ConnectedIsTrue, NoRun
<1>8. InForce'
  <2>1. ASSUME NEW j \in DOMAIN runs
        PROVE  /\ runs'[j].cancelled = ~(done'.ran /\ j = Len(runs'))
               /\ runs'[j].cancelled => runs'[j].phase \in {"creating", "closed"}
               /\ Open(runs'[j]) <=> j = streamRef'
               /\ runs'[j].phase = "waiting" => j = timerRef'
    <3>1. CASE j = i
      BY <1>2, <1>3, <1>4, <1>5, <3>1 DEF Open
    <3>2. CASE j # i
      <4>1. runs'[j] = runs[j] /\ done' = done /\ Len(runs') = Len(runs)
        BY <1>4, <1>5, <3>2
      <4>2. Open(runs[j]) <=> j = streamRef'
        BY <1>1, <1>3, <1>4, <1>7, <3>2
      <4>3. runs[j].phase = "waiting" => j = timerRef'
        <5>1. CASE timerRef' = timerRef
          BY <1>3, <5>1
        <5>2. CASE timerRef' # timerRef
          <6>1. ~runs[i].cancelled /\ i = Len(runs)
            BY <1>3, <1>4, <5>2
          <6>2. runs[j].cancelled
            BY <1>3, <3>2, <6>1
          <6>3. QED
            BY <1>3, <6>2
        <5>3. QED
          BY <5>1, <5>2
      <4>4. QED
        BY <1>3, <4>1, <4>2, <4>3
    <3>3. QED
      BY <3>1, <3>2
  <2>2. QED
    BY <1>3, <1>4, <1>5, <2>1 DEF InForce
<1>9. ConnectedIsTrue'
  <2>1. CASE run.cancelled
    <3>1. streamRef # 0 => streamRef \in DOMAIN runs /\ runs'[streamRef] = runs[streamRef]
      BY <1>1, <1>2, <1>5
    <3>2. QED
      BY <1>4, <2>1, <3>1 DEF HInv, ConnectedIsTrue, NoRun
  <2>2. CASE ~run.cancelled
    BY <1>1, <1>4, <1>5, <1>7, <2>2 DEF ConnectedIsTrue, NoRun
  <2>3. QED
    BY <2>1, <2>2
<1>10. QED
  BY <1>6, <1>8, <1>9 DEF HInv

LEMMA InitHInv ==
  ASSUME MultiInit
  PROVE  HInv /\ DOMAIN runs = {}
<1>1. runs = <<>> /\ runs \in Seq(Run) /\ Len(runs) = 0 /\ DOMAIN runs = {}
  BY DEF MultiInit
<1>2. 0 \in 0..Len(runs)
  BY <1>1
<1>3. hook \in [stream : 0..Len(runs), loading : BOOLEAN, connected : BOOLEAN, error : BOOLEAN]
  BY <1>2 DEF MultiInit, NoRun
<1>4. MType
  BY <1>1, <1>2, <1>3 DEF MultiInit, MType, NoRun
<1>5. InForce /\ ConnectedIsTrue
  BY <1>1 DEF MultiInit, InForce, ConnectedIsTrue, NoRun
<1>6. QED
  BY <1>1, <1>4, <1>5 DEF HInv

LEMMA StepHInv ==
  ASSUME HInv, [MultiNext]_multiVars
  PROVE  HInv'
<1>1. ASSUME NEW i \in DOMAIN runs, NEW c \in Contracts, Shows(i, c) \/ Archives(i, c)
      PROVE  HInv'
  BY <1>1, ShowsHInv
<1>2. ASSUME NEW i \in DOMAIN runs,
             Created(i) \/ CreateFails(i) \/ RetryFires(i) \/ GoesLive(i) \/ Restarts(i) \/ Errors(i)
      PROVE  HInv'
  BY <1>2, SetupHInv, StateHInv, OthersHInv
<1>3. QED
  BY <1>1, <1>2, EffectsHInv, UnmountHInv, ListensHInv, ListensAnewHInv, OthersHInv DEF MultiNext

\* The run in force is the last one, and an unmounted hook has none.
LEMMA InForceIsOne ==
  ASSUME HInv
  PROVE  OneStream
<1>1. Len(runs) \in Nat /\ DOMAIN runs = 1..Len(runs)
  BY RunsAre DEF HInv
<1>2. ASSUME Flushed, NEW i \in DOMAIN runs, runs[i].phase \in {"waiting", "init", "live"}
      PROVE  i \in IF props.mounted THEN {Len(runs)} ELSE {}
  <2>1. ~runs[i].cancelled
    BY <1>2 DEF HInv, InForce
  <2>2. done.ran /\ i = Len(runs)
    BY <2>1 DEF HInv, InForce
  <2>3. QED
    BY <1>2, <2>2 DEF Flushed
<1>3. \A i \in DOMAIN runs : Open(runs[i]) <=> i = streamRef
  BY DEF HInv, InForce
<1>4. QED
  BY <1>2, <1>3 DEF OneStream

-----------------------------------------------------------------------------
(* What the listeners hear.                                                *)

\* A step that updates one run.
LEMMA RunHears ==
  ASSUME HInv, \A j \in DOMAIN runs : Hears(runs[j]), interfaces' = interfaces,
         NEW i \in DOMAIN runs, NEW run \in Run, runs' = [runs EXCEPT ![i] = run], Hears(run)
  PROVE  \A j \in DOMAIN runs' : Hears(runs[j])'
<1>1. /\ DOMAIN runs' = DOMAIN runs /\ runs'[i] = run
      /\ \A j \in DOMAIN runs : j # i => runs'[j] = runs[j]
  BY RunMoved DEF HInv
<1>2. ASSUME NEW j \in DOMAIN runs'  PROVE Hears(runs'[j])
  BY <1>1
<1>3. QED
  BY <1>2, StillHears

\* A run that stays open, and one that has not been.
LEMMA SameHears ==
  ASSUME NEW run, NEW new, Hears(run), new.on = run.on, new.shown = run.shown, new.gone = run.gone,
         new.heard = run.heard, ~Open(run) \/ Open(new)
  PROVE  Hears(new)
<1>1. CASE ~Open(run)
  <2>1. Quiet(run)
    BY <1>1 DEF Hears
  <2>2. Quiet(new)
    BY <2>1 DEF Quiet
  <2>3. QED
    BY <2>2, QuietHears
<1>2. CASE Open(run)
  <2>1. \A id, kind, c : Due(new, id, kind, c) = Due(run, id, kind, c)
    BY DEF Due
  <2>2. QED
    BY <1>2, <2>1 DEF Hears, Quiet
<1>3. QED
  BY <1>1, <1>2

\* Listeners that are registered have missed nothing.
LEMMA OnHears ==
  ASSUME NEW run \in Run, Hears(run)
  PROVE  Hears(On(run))
<1>1. /\ On(run).phase = run.phase /\ On(run).shown = run.shown /\ On(run).gone = run.gone
      /\ On(run).heard = run.heard
      /\ \A id \in Mapping : run.on[id] \in Nat /\ On(run).on[id] = run.on[id] + 1
  BY OnIs DEF Run
<1>2. CASE \E id \in Mapping : run.on[id] = 0
  <2>1. Quiet(run)
    BY <1>2 DEF Hears
  <2>2. Quiet(On(run))
    BY <1>1, <2>1 DEF Quiet
  <2>3. QED
    BY <2>2, QuietHears
<1>3. CASE \A id \in Mapping : run.on[id] # 0
  <2>1. \A id \in Mapping : On(run).on[id] # 0 /\ On(run).on[id] # 1
    BY <1>1, <1>3
  <2>2. ~Open(On(run)) => Quiet(On(run))
    BY <1>1 DEF Hears, Quiet, Open
  <2>3. QED
    BY <2>1, <2>2 DEF Hears
<1>4. QED
  BY <1>2, <1>3

\* A contract that is shown is heard by the listeners it is due to.
LEMMA CreateHears ==
  ASSUME NEW run \in Run, NEW c \in Contracts, Hears(run), Open(run),
         \A id \in Mapping : run.on[id] > 0, c \notin run.shown
  PROVE  Hears(HandleCreate(run, c))
<1> DEFINE r == HandleCreate(run, c)
<1>1. /\ r.phase = run.phase /\ r.on = run.on /\ r.shown = run.shown \cup {c} /\ r.gone = run.gone
      /\ \A id \in Mapping, k \in Kinds, d \in Contracts :
           r.heard[<<id, k, d>>] =
             run.heard[<<id, k, d>>]
             + (IF k = "create" /\ d = c /\ SameEmitter(TemplateOf[c], id) THEN run.on[id] ELSE 0)
             + (IF k = "interfaceView" /\ d = c /\ \E a \in Views(c) : SameEmitter(a, id) THEN run.on[id] ELSE 0)
  BY HandleCreateIs
<1> HIDE DEF r
<1>2. Open(r) /\ \A id \in Mapping : r.on[id] # 0
  <2>1. \A id \in Mapping : run.on[id] # 0
    <3>1. ASSUME NEW id \in Mapping  PROVE run.on[id] # 0
      BY <3>1
    <3>2. QED
      BY <3>1
  <2>2. QED
    BY <1>1, <2>1 DEF Open
<1>3. ASSUME NEW id \in Mapping, NEW k \in Kinds, NEW d \in Contracts, r.on[id] = 1, Readable(d)
      PROVE  r.heard[<<id, k, d>>] = IF Due(r, id, k, d) THEN 1 ELSE 0
  <2>1. run.on[id] = 1 /\ run.heard[<<id, k, d>>] = IF Due(run, id, k, d) THEN 1 ELSE 0
    BY <1>1, <1>3 DEF Hears
  <2>2. CASE d # c
    <3>1. r.heard[<<id, k, d>>] = (IF Due(run, id, k, d) THEN 1 ELSE 0) + 0 + 0
      BY <1>1, <2>1, <2>2
    <3>2. Due(r, id, k, d) <=> Due(run, id, k, d)
      BY <1>1, <2>2 DEF Due
    <3>3. QED
      BY <3>1, <3>2
  <2>3. CASE d = c /\ k = "create"
    <3>1. ~Due(run, id, k, d) /\ (Due(r, id, k, d) <=> Name[id] = Name[TemplateOf[c]])
      BY <1>1, <2>3 DEF Due
    <3>2. r.heard[<<id, k, d>>] = 0 + (IF SameEmitter(TemplateOf[c], id) THEN 1 ELSE 0) + 0
      BY <1>1, <2>1, <2>3, <3>1
    <3>3. QED
      BY <3>1, <3>2 DEF SameEmitter
  <2>4. CASE d = c /\ k = "interfaceView"
    <3>1. /\ ~Due(run, id, k, d)
          /\ Due(r, id, k, d) <=> interfaces /\ \E n \in DOMAIN ViewsOf[c] : Name[id] = Name[ViewsOf[c][n]]
      BY <1>1, <2>4 DEF Due
    <3>2. Due(r, id, k, d) <=> \E a \in Views(c) : SameEmitter(a, id)
      <4>1. Readable(c)
        BY <1>3, <2>4
      <4>2. (\E a \in Views(c) : SameEmitter(a, id)) <=>
              interfaces /\ \E n \in DOMAIN ViewsOf[c] : Name[id] = Name[ViewsOf[c][n]]
        BY <4>1, AllViews
      <4>3. QED
        BY <3>1, <4>2
    <3>3. r.heard[<<id, k, d>>] = 0 + 0 + (IF \E a \in Views(c) : SameEmitter(a, id) THEN 1 ELSE 0)
      BY <1>1, <2>1, <2>4, <3>1
    <3>4. QED
      BY <3>2, <3>3
  <2>5. CASE d = c /\ k = "archive"
    <3>1. Due(r, id, k, d) <=> Due(run, id, k, d)
      BY <1>1, <2>5 DEF Due
    <3>2. r.heard[<<id, k, d>>] = (IF Due(run, id, k, d) THEN 1 ELSE 0) + 0 + 0
      BY <1>1, <2>1, <2>5
    <3>3. QED
      BY <3>1, <3>2
  <2>6. QED
    BY <2>2, <2>3, <2>4, <2>5 DEF Kinds
<1>4. QED
  BY <1>2, <1>3 DEF Hears, r

\* And so is its archive.
LEMMA ArchiveHears ==
  ASSUME NEW run \in Run, NEW c \in Contracts, Hears(run), Open(run), c \in run.shown \ run.gone
  PROVE  Hears(HandleArchive(run, c))
<1> DEFINE r == HandleArchive(run, c)
<1>1. /\ r.phase = run.phase /\ r.on = run.on /\ r.shown = run.shown /\ r.gone = run.gone \cup {c}
      /\ \A id \in Mapping, k \in Kinds, d \in Contracts :
           r.heard[<<id, k, d>>] =
             run.heard[<<id, k, d>>]
             + (IF k = "archive" /\ d = c /\ SameEmitter(TemplateOf[c], id) THEN run.on[id] ELSE 0)
  BY HandleArchiveIs
<1> HIDE DEF r
<1>2. Open(r) /\ \A id \in Mapping : r.on[id] # 0
  <2>1. ~Quiet(run)
    BY DEF Quiet
  <2>2. QED
    BY <1>1, <2>1 DEF Open, Hears
<1>3. ASSUME NEW id \in Mapping, NEW k \in Kinds, NEW d \in Contracts, r.on[id] = 1, Readable(d)
      PROVE  r.heard[<<id, k, d>>] = IF Due(r, id, k, d) THEN 1 ELSE 0
  <2>1. run.on[id] = 1 /\ run.heard[<<id, k, d>>] = IF Due(run, id, k, d) THEN 1 ELSE 0
    BY <1>1, <1>3 DEF Hears
  <2>2. CASE d = c /\ k = "archive"
    <3>1. ~Due(run, id, k, d) /\ (Due(r, id, k, d) <=> Name[id] = Name[TemplateOf[c]])
      BY <1>1, <2>2 DEF Due
    <3>2. r.heard[<<id, k, d>>] = 0 + (IF SameEmitter(TemplateOf[c], id) THEN 1 ELSE 0)
      BY <1>1, <2>1, <2>2, <3>1
    <3>3. QED
      BY <3>1, <3>2 DEF SameEmitter
  <2>3. CASE ~(d = c /\ k = "archive")
    <3>1. Due(r, id, k, d) <=> Due(run, id, k, d)
      BY <1>1, <2>3 DEF Due
    <3>2. r.heard[<<id, k, d>>] = (IF Due(run, id, k, d) THEN 1 ELSE 0) + 0
      BY <1>1, <2>1, <2>3
    <3>3. QED
      BY <3>1, <3>2
  <2>4. QED
    BY <2>2, <2>3
<1>4. QED
  BY <1>2, <1>3 DEF Hears, r

\* Effects leave runs that are quiet.
LEMMA EffectsHear ==
  ASSUME HInv, \A j \in DOMAIN runs : Hears(runs[j]), FlushEffects \/ FlushUnmount
  PROVE  \A j \in DOMAIN runs' : Hears(runs[j])'
<1>1. interfaces' = interfaces /\ (runs' = CleanedUp \/ runs' = CleanedUp \o NewRuns)
  BY DEF FlushEffects, FlushUnmount
<1>2. \A j \in DOMAIN runs' : Quiet(runs'[j])
  BY <1>1, CleanedUpIsOff, MadeAgain
<1>3. QED
  BY <1>1, <1>2, QuietHears, StillHears

\* A step of one run keeps what has been heard in it.
LEMMA StepHears ==
  ASSUME EInv, CommitsFirst, [MultiNext]_multiVars
  PROVE  \A j \in DOMAIN runs' : Hears(runs[j])'
<1>1. HInv /\ \A j \in DOMAIN runs : Hears(runs[j]) /\ runs[j] \in Run
  BY RunsAre DEF EInv, HInv
<1>2. /\ Len(runs) \in Nat /\ DOMAIN runs = 1..Len(runs)
      /\ hook.stream \in 0..Len(runs) /\ listening \in 0..Len(runs)
  BY RunsAre DEF EInv, HInv, MType
<1>3. CASE FlushEffects \/ FlushUnmount
  BY <1>1, <1>3, EffectsHear
<1>4. CASE UNCHANGED <<interfaces, runs>>
  BY <1>1, <1>4, StillHears
<1>5. CASE Listens /\ hook.stream # NoRun
  <2>1. hook.stream \in DOMAIN runs
    BY <1>2, <1>5 DEF NoRun
  <2>2. On(runs[hook.stream]) \in Run /\ Hears(On(runs[hook.stream]))
    BY <1>1, <2>1, OnIs, OnHears
  <2>3. runs' = [runs EXCEPT ![hook.stream] = On(runs[hook.stream])] /\ interfaces' = interfaces
    BY <1>5 DEF Listens
  <2>4. QED
    BY <1>1, <2>1, <2>2, <2>3, RunHears
<1>6. CASE ListensAnew
  <2>1. listening \in DOMAIN runs
    BY <1>2, <1>6 DEF ListensAnew, NoRun
  <2>2. On(runs[listening]) \in Run /\ Hears(On(runs[listening]))
    BY <1>1, <2>1, OnIs, OnHears
  <2>3. runs' = [runs EXCEPT ![listening] = On(runs[listening])] /\ interfaces' = interfaces
    BY <1>6 DEF ListensAnew, Off
  <2>4. QED
    BY <1>1, <2>1, <2>2, <2>3, RunHears
<1>7. ASSUME NEW i \in DOMAIN runs, NEW c \in Contracts, Shows(i, c) \/ Archives(i, c)
      PROVE  \A j \in DOMAIN runs' : Hears(runs[j])'
  <2>1. Open(runs[i]) /\ interfaces' = interfaces
    BY <1>7 DEF Shows, Archives, Open
  <2>2. CASE Shows(i, c)
    <3>1. HandleCreate(runs[i], c) \in Run
      BY <1>1, HandleCreateIs
    <3>2. Hears(HandleCreate(runs[i], c))
      BY <1>1, <2>1, <2>2, CreateHears DEF Shows, Ready
    <3>3. runs' = [runs EXCEPT ![i] = HandleCreate(runs[i], c)]
      BY <2>2 DEF Shows
    <3>4. QED
      BY <1>1, <2>1, <3>1, <3>2, <3>3, RunHears
  <2>3. CASE Archives(i, c)
    <3>1. HandleArchive(runs[i], c) \in Run
      BY <1>1, HandleArchiveIs
    <3>2. Hears(HandleArchive(runs[i], c))
      BY <1>1, <2>1, <2>3, ArchiveHears DEF Archives
    <3>3. runs' = [runs EXCEPT ![i] = HandleArchive(runs[i], c)]
      BY <2>3 DEF Archives
    <3>4. QED
      BY <1>1, <2>1, <3>1, <3>2, <3>3, RunHears
  <2>4. QED
    BY <1>7, <2>2, <2>3
<1>8. ASSUME NEW i \in DOMAIN runs, Created(i) \/ CreateFails(i) \/ RetryFires(i) \/ GoesLive(i) \/ Restarts(i)
      PROVE  \A j \in DOMAIN runs' : Hears(runs[j])'
  <2>1. runs[i] \in Run /\ Hears(runs[i]) /\ interfaces' = interfaces
    BY <1>1, <1>8 DEF Created, CreateFails, RetryFires, GoesLive, Restarts
  <2>2. PICK run \in Run : runs' = [runs EXCEPT ![i] = run] /\ Hears(run)
    <3>1. CASE Restarts(i)
      <4>1. AnewFrom(runs[i]) \in Run /\ Hears(AnewFrom(runs[i]))
        BY <2>1, AnewFromIs, QuietHears
      <4>2. QED
        BY <3>1, <4>1, RestartedIs
    <3>2. CASE Created(i) /\ runs[i].cancelled
      <4>1. runs[i].cancelled \in BOOLEAN
        BY <2>1 DEF Run
      <4>2. Closed(runs[i]) \in Run /\ Hears(Closed(runs[i]))
        BY <4>1, ClosedIs, QuietHears
      <4>3. QED
        BY <3>2, <4>2 DEF Created
    <3>3. ASSUME ~(Created(i) /\ runs[i].cancelled), ~Restarts(i)
          PROVE  \E phase \in Phases, acs \in SUBSET Contracts :
                   /\ runs' = [runs EXCEPT ![i] = [runs[i] EXCEPT !.phase = phase, !.acs = acs]]
                   /\ ~Open(runs[i]) \/ phase \in {"init", "live"}
      <4>1. runs[i].acs \in SUBSET Contracts /\ ActiveContracts \in SUBSET Contracts
            /\ \A phase : [runs[i] EXCEPT !.phase = phase, !.acs = runs[i].acs] = [runs[i] EXCEPT !.phase = phase]
        BY <2>1 DEF Run, ActiveContracts
      <4>2. CASE Created(i)
        BY <3>3, <4>1, <4>2 DEF Created, Started, Open, Phases
      <4>3. CASE CreateFails(i)
        <5>1. PICK phase \in Phases : runs' = [runs EXCEPT ![i] = [runs[i] EXCEPT !.phase = phase]]
          BY <4>3 DEF CreateFails, Phases
        <5>2. ~Open(runs[i])
          BY <4>3 DEF CreateFails, Open
        <5>3. QED
          BY <4>1, <5>1, <5>2
      <4>4. CASE RetryFires(i)
        <5>1. PICK phase \in Phases : runs' = [runs EXCEPT ![i] = [runs[i] EXCEPT !.phase = phase]]
          BY <4>4 DEF RetryFires, Phases
        <5>2. ~Open(runs[i])
          BY <4>4 DEF RetryFires, Open
        <5>3. QED
          BY <4>1, <5>1, <5>2
      <4>5. CASE GoesLive(i)
        BY <4>1, <4>5 DEF GoesLive, Phases
      <4>6. QED
        BY <1>8, <3>3, <4>2, <4>3, <4>4, <4>5
    <3>4. ASSUME NEW phase \in Phases, NEW acs \in SUBSET Contracts,
                 ~Open(runs[i]) \/ phase \in {"init", "live"}
          PROVE  /\ [runs[i] EXCEPT !.phase = phase, !.acs = acs] \in Run
                 /\ Hears([runs[i] EXCEPT !.phase = phase, !.acs = acs])
      <4> DEFINE new == [runs[i] EXCEPT !.phase = phase, !.acs = acs]
      <4>1. /\ new \in Run /\ new.on = runs[i].on /\ new.shown = runs[i].shown /\ new.gone = runs[i].gone
            /\ new.heard = runs[i].heard /\ new.phase = phase
        BY <2>1 DEF Run
      <4> HIDE DEF new
      <4>2. ~Open(runs[i]) \/ Open(new)
        BY <3>4, <4>1 DEF Open
      <4>3. Hears(new)
        BY <2>1, <4>1, <4>2, SameHears
      <4>4. QED
        BY <4>1, <4>3 DEF new
    <3>5. QED
      BY <3>1, <3>2, <3>3, <3>4
  <2>3. QED
    BY <1>1, <2>1, <2>2, RunHears
<1>9. CASE RenderMulti \/ Unmount \/ ReloadMulti \/ LedgerMoves \/ (Listens /\ hook.stream = NoRun)
           \/ (\E i \in DOMAIN runs : Errors(i)) \/ UNCHANGED multiVars
  <2>1. UNCHANGED <<interfaces, runs>>
    BY <1>9 DEF RenderMulti, Unmount, ReloadMulti, LedgerMoves, Listens, Errors, multiVars
  <2>2. QED
    BY <1>4, <2>1
<1>10. QED
  BY <1>3, <1>5, <1>6, <1>7, <1>8, <1>9 DEF MultiNext

-----------------------------------------------------------------------------
(* Theorems.                                                               *)

\* Types hold, the last run of an effect that was not cleaned up is in force, and
\* the hook knows whether its stream is live.
THEOREM RunsInForce == MultiSpec => []HInv
<1>1. MultiInit => HInv
  BY InitHInv
<1>2. HInv /\ [MultiNext]_multiVars => HInv'
  BY StepHInv
<1>3. QED
  BY <1>1, <1>2, PTL DEF MultiSpec

\* A mounted hook has one creation, timer or open stream, an unmounted one none
\* (context.ts:600-700).
THEOREM AlwaysOneStream == MultiSpec => []OneStream
<1>1. HInv => OneStream
  BY InForceIsOne
<1>2. QED
  BY <1>1, RunsInForce, PTL

\* The hook says it is connected exactly while its stream is live, except after the
\* late rejection of a run that was cleaned up (context.ts:658-663).
THEOREM ConnectedIsAlwaysTrue == MultiSpec => []ConnectedIsTrue
<1>1. HInv => ConnectedIsTrue
  BY DEF HInv
<1>2. QED
  BY <1>1, RunsInForce, PTL

\* When a stream's first event comes after the commit that returns it, a listener
\* registered once hears everything that is due to it, and nothing else.
THEOREM EachAlwaysHearsItsOwn == CommitsFirst /\ MultiSpec => []EachHearsItsOwn
<1>1. MultiInit => EInv
  BY InitHInv DEF EInv
<1>2. CommitsFirst /\ EInv /\ [MultiNext]_multiVars => EInv'
  <2>1. SUFFICES ASSUME CommitsFirst, EInv, [MultiNext]_multiVars
                 PROVE  EInv'
    OBVIOUS
  <2>2. HInv'
    BY <2>1, StepHInv DEF EInv
  <2>3. \A j \in DOMAIN runs' : Hears(runs[j])'
    BY <2>1, StepHears
  <2>4. QED
    BY <2>2, <2>3 DEF EInv
<1>3. EInv => EachHearsItsOwn
  BY DEF EInv, Hears, EachHearsItsOwn, Readable
<1>4. CASE CommitsFirst
  BY <1>1, <1>2, <1>3, <1>4, PTL DEF MultiSpec
<1>5. QED
  BY <1>4
=============================================================================
