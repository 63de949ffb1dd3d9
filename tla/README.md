# A verification project for the C7 ledger packages

This directory holds TLA+ models of the stateful parts of the `@c7-digital`
packages: the client of a Canton participant's JSON Ledger API (`ledger/`), its
React hooks and session (`react/`), the use of the Scan client in a submit
(`scan/`) and the code generator (`scribe/`). TLC checks each model on small instances; TLAPS
proves the main invariants for every value of the constants.
`PROJECT.json` is the index: components, runs, the source lines that each
definition models, mutants, hazards and theorems.

Paths below are relative to the repository's root.

## 1. The system

Single-threaded JavaScript. Nothing runs in parallel, but every `await`, timer,
socket event and React effect is a point where any other handler may run first.
That, together with the participant and the network, is what makes the code
hard to test, and what the models are about: one action is one piece of code
that runs without interruption (a handler, a continuation, a timer callback).

| Component | State | Operations | Talks to |
|---|---|---|---|
| **Contract stream** `LedgerStream`, `ledger/src/ledger.ts:709-1234` | `state_` (start, init, live, stop), resume offset, active filters, dropped packages, re-widen timer and back-off, reconnect timer, the stop function of the current socket | `start`, `close`, `updateToken`; handlers of ACS and updates messages and closes; timers | WebSocket client below, consumer's listeners above |
| **WebSocket client** `ledger/src/websocket.ts` | one socket per call of `stream`, lazily loaded schemas | `stream` and the stop function it returns | participant |
| **Ledger end cache** `ledger.ts:1340-1420` | cached offset with time, promise of the request in flight | `getLedgerEnd`, and every submit that returns | HTTP client |
| **Token user** `ledger.ts:1323-1335, 1425-1475, 1864-1900` | token, user id, cached user and rights, promise of the read in flight | `setToken`, `getTokenUserInfo`, `refreshTokenUserInfo`, submits | HTTP client |
| **Update history** `makeHistoryIterable`, `ledger.ts:288-453` | queue, parked `next()` calls, error, end | `next`, `return`, socket handlers | WebSocket client |
| **Token refresher** `ledger/src/tokenRefresher.ts` | state, timer, mint in flight, expiry, failures | `start`, `refreshNow`, `stop`, timer | token source, hooks of the service |
| **React hooks** `react/src/context.ts` | per hook: contracts map, loading, connected, error, refs to stream and timer; per provider: the `Ledger`, reload trigger | renders, effects, cleanups, listeners, `reload`, `triggerReload` | contract stream |
| **Multi-stream** `ledger/src/multistream.ts`, `useMultiStreamBase` | emitters by identifier, the hook's state | `on*`, `off*`, `start`, `close`, effects | contract stream |
| **React authentication** `react/src/auth/AuthProvider.tsx` | credentials in state and session storage, derivation attempts, watchdog timer | effects, `setCredentials`, `loginWithOidc`, `logout` | OIDC library, participant |
| **Queries and paging** `ledger.ts:1340-1357, 1493-1585, 1935-2041, 2242-2284` | none kept; the consumer's loop | `query`, `getTransactionPage`, `probeOffset` | HTTP client, ledger end, update history |
| **Submits and their errors** `ledger.ts:1595-1884`, `error.ts`, `cantonError.ts`, `submitClassify.ts`, `events.ts`, `exerciseResult.ts` | command id; the caller's conclusions | `create`, `exercise`, `exerciseResult`, `submit`, the classifiers and lookups | HTTP client, Scan client |
| **Scan client** `scan/src/client.ts` | memo of missing endpoints | `getDsoInfo` and other reads | Scan |
| **Scribe** `scribe/src` | `.scribe/` and the output directory | discover, analyze, stage, write, bundle; the generated registry | files |
| PQS and admin clients; scripts | none | one remote call each; batch | services, files |

Hard behaviours, each at its line under `hazards` in `PROJECT.json`:

- *Sockets outlive the stream's interest in them.* The stop function closes only
  an open socket (`websocket.ts:191`); messages and the close event of a socket
  that was given up still run the stream's handlers.
- *Shared promises.* The ledger end and the token's user are single-flight: a
  call may join a request made before the event it depends on.
- *Continuations meet newer state.* A `setToken` between the two requests of a
  read, a `stop()` during a mint, an unmount while `createStream()` is awaited.
- *Timers against everything:* re-widen, reconnect, refresh, retry.
- *Partial failure:* a broken ACS socket, packages the participant does not know,
  a mint that fails, a stream that fails with calls parked.
- *Answers that are lost:* a submit whose outcome is unknown and its retry.
- *Effects that run late:* what a render has committed and what its effects have
  seen differ while timers, answers and the OIDC library go on.
- *Limits:* the bounded queue of the history, 31-bit timers, age limits, the cap of
  a page.

What makes each component correct:

- stream: no filter lost, dropped packages retried, offset monotone, never deaf without
  a word, the consumer's map equal to the ledger, close final, catching up;
- ledger end: one request at a time, own writes covered, bounded staleness;
- token user: nothing of one token is answered or cached under another;
- history: the n-th call gets the n-th event, every call is answered, an end
  means the window is complete;
- refresher: a running one always has its next refresh coming, in time; a
  stopped one is silent; it recovers;
- hooks: at most one stream and none leaked, the token reaches it, the map is
  complete when the hook says so, the hook comes live;
- multi-stream: each listener hears its own identifier's contracts once, of
  whatever package version;
- authentication: token and party of one user, a lost or expired session dropped,
  a signed-in user let in;
- queries and paging: the consumer's contracts are those active at the offset it
  has reached, pages skip and repeat nothing, and the loop ends;
- submits: a command takes effect once, and what the caller concludes is true;
- scribe: the output is of one run, and the registry answers with the right package.

## 2. The modules

Every specification has constants for its bounds, an `ASSUME` that names what the
constants must satisfy, one action per handler, and its properties at the end.
Operators named `Mut...` are altered forms of the operator after them, used to
see that each property can fail; no specification refers to them.

| Module | Models | Instance | Theorems |
|---|---|---|---|
| `LedgerStream` | contract stream over its sockets, with the participant's log, known packages and the network | `MCLedgerStream` | `LedgerStreamProofs` |
| `LedgerEndCache` | `getLedgerEnd`, `cacheLedgerEnd`, returning submits | `MCLedgerEndCache` | `ReadProofs` |
| `TokenUser` | token, its user, submits that use them | `MCTokenUser` | `TokenProofs` |
| `HistoryIterable`, `HistoryAsFeed` | update history over one socket; what it is of a `HistoryFeed` | `MCHistoryIterable` | `HistoryIterableProofs` |
| `TokenRefresher` | token refresher and its source | `MCTokenRefresher` | `TokenProofs` |
| `StreamHook` | `DamlLedger` and a `useStreamQuery` hook over a `Ledger` and its streams | `MCStreamHook` | `StreamHookProofs` |
| `MultiStream` | the multi-stream adapters, `useMultiStreamBase` and a component that listens | `MCMultiStream` | `ReactProofs` |
| `HistoryReads` | query, paging loop and probe over a ledger that grows and is pruned | `MCHistoryReads` | `ReadProofs` |
| `HistoryFeed` | abstract: what any read of the history promises | by the two above it | |
| `SubmitErrors`, `TransactionEvents` | operators: errors and their classification; a transaction's events | in `Submissions` | |
| `Submissions` | submits with lost answers, Scan's part in them, a caller that retries | `MCSubmissions` | `SubmissionsProofs` |
| `AppSession` | the credentials provider over the OIDC library | `MCAppSession` | `ReactProofs` |
| `Scribe` | runs of the code generator, and the registry it generates | `MCScribe` | `ScribeProofs` |

Three modules of proofs serve two components each. They extend both, so one of each
pair has names of its own where the other has `Spec`, `Next` or `TypeOK`:
`RefresherSpec`, `MultiSpec`, `ReadsSpec` and so on.

`HistoryIterable` and `HistoryReads` both implement `HistoryFeed`; `Submissions`
is built from the operators of `SubmitErrors` and `TransactionEvents`; `HistoryReads`
takes the ledger end as `LedgerEndCache` shows it: any end between the last one and
the present one. `StreamHook` and `MultiStream` take the stream as `LedgerStream`
gives it.

### LedgerStream

`st`, `offset`, `active`, `dropped`, `backoff`, `rewidenTimer` are the fields of
the class. `reconnectTimer` is the field of that name and `timers` the callbacks
that can still fire: the two differ, since the field is overwritten while an older
callback is pending. A socket is a slot of `socks` with its ready state, the
filters and offset of its request, and what the participant has sent on it;
`stopClient` is the slot that the stored stop function closes. `view` is what a
consumer that adds creates and removes archives has, `told` the code of the last close
it saw. The position of a socket is the offset from which the participant sends next.

- Operations: `Start`, `Close`, `UpdateToken`. In other states than live,
  `updateToken` only stores the token, which no property looks at.
- Messages: `AcsContract`, `UpdatesEvent`, `PackagesDropped` (`handleMissingPackages`
  that returns true) and `RejectionSurfaced` (that returns false). They run for
  any socket that is open *or closing*.
- Closes: `ServerCloses`, `HandshakeEnds`, `ConnectionBreaks`, each with the whole
  `onclose` handler of the kind of socket (`AcsDone`, `AcsClosedLate`,
  `UpdatesClosed`). As in the code, it does not matter to the handler whether the
  socket is the current one.
- Timers: `RewidenFires`, `ReconnectFires`.
- Environment: `Commit`, `UploadDar`, the network's faults.

Abstracted: a transaction has one event, so that the offset of an event is its
place in the log; contracts are names with the filter they match. A slot is not
reused while a reconnect timer bears its number. `Delivers` handles a message at once:
that `onmessage` awaits the validator (`websocket.ts:158-170`), so that a close may
overtake a message, is modelled in `HistoryIterable` only.

### LedgerEndCache

Each call is a client with a program counter: it joins, is answered from the
cache, or leads. Between the response (`ResponseArrives`) and the continuations of
the leader and of those that joined, the promise is *settled*: all continuations of
one response run before the next response (`Quiet`), as microtasks do, but in any
order, and new calls may come between. `seen`, `base`, `floor`, `endAt` are history
variables for the properties.

### TokenUser

A read of the user is two requests; `reads` records them in order with the token
each was made under, `calls` what each call waits for and was given. The rights of
a user are counted, so that an answer shows how recent it is.

### HistoryIterable

`answers` is the fate of each call of `next()` in call order, `resolvers` the
parked ones. `ready` says that the validation schemas are loaded: `onmessage`
awaits them and `onclose` does not. A message is the list of its events that
decode. `given` and `cut` are history variables.

### TokenRefresher

Times are ticks that remain. `inFlight = "delivering"` is the span in which the
hooks run and the promise is not yet cleared, in which `refreshNow` and a timer
join it. `healthy` says whether the source mints.

### StreamHook

`props` is what is committed, `done` what the effects last ran with; the two are
equal except between a commit and its effects. `FlushEffects` runs the cleanup and
the effects of the hook, then those of the provider, in React's order. Each run of
the setup effect is an element of `runs` with its `cancelled` flag and its stream.
`ledgerTok` is the token of each `Ledger` that `useMemo` has made.

The stream is here what `LedgerStream` is shown or meant to be: it shows the
contracts of its ACS, goes live, follows the ledger, may report an error or restart
from an ACS. The early `live` of section 4's second disagreement is left to that
module. The microtask between `initClient` and the attachment of the listeners is
one step with it.

### MultiStream

As `StreamHook`, with one run of the setup effect per element of `runs`, and in each
the adapter: `on` counts the wrappers that its emitter of an identifier holds, `heard`
how often the listener of an identifier was called for a contract. `SameEmitter` is
the routing by the part of an identifier after its package. `Listens` and
`ListensAnew` are the effect of the component that uses the hook. `interfaces` tells
`InterfaceMultiStreamImpl` from the template adapter. The state setters of the catch
block run for a run that was cleaned up too, as in the code (`late`).

`CommitsFirst` says that React commits the stream that the hook returns, and runs the
component's effects, before the stream's first message: that takes a network round
trip. Without it events come before their listeners.

### HistoryReads

`ledger` is the sequence of updates, each a transaction (creates and archives) or one
the parties do not see. `reader` is the loop over one window: `begin`, `reached`,
`end`; `view` the contracts it keeps, `given` the updates it was handed. `Pages` are
the pages the participant may answer with: any prefix, within the cap, with other
kinds of update in between. A page is empty only when nothing is left. `probe` is a
call of `probeOffset`; `ProbeBreaks` stands for a connection that breaks and for
schemas that load late, after either of which it answers null.

### HistoryFeed

`window`, `given`, `told`, `cut`: what is to be read, what was handed over, what the
consumer was told, and whether something has cut the read short. A step hands over the
next updates of the window, or tells "done" when all were given (or the read was cut).
`HistoryAsFeed` maps the iterator to it: the window is a constant `Window`, of which
the messages sent are consecutive pieces; what was given is the events of the answered
calls; "done" is an answer without an event. `HistoryReads` maps its loop in the same
way, with the updates between its two offsets that the parties see as the window.

### Submissions, SubmitErrors, TransactionEvents

An error is a record of status and body, read as `readErrorBody` and the constructors
read it, and classified by the operators of `SubmitErrors`, which keep the names of the
functions. A search in a transaction's events is the set of the positions that match,
and its first match the least of them; sorting by `nodeId` puts each event at the
number of those before it. `app` is the caller of each command, `work` the requests that travel or that
the participant has accepted, independent of whether their answer was lost, `ledger`
what took effect. `Caught` is the caller's reaction as `ledger/README.md` documents it;
`Careful` adds that it remembers an open attempt across errors. The lookup of the
result in the transaction's events happens on any order of the events.

### AppSession

`state` is what the next render shows, `shown` what was committed, `ran` what the
effects last ran with: the effects of the provider run in order, with their
dependencies compared, some time after the commit. `attempts` are the derivations in
flight with their `cancelled` flag. `oidc` is what the OIDC library returns, `session`
its user store, `stored` the session storage, which outlives `Reload`. `setCredentials`
is a login with a token, `dropCredentials` the same with null; a careful application
offers the one to who is signed out, the other to who is signed in.

### Scribe

A run is `Reads` (configuration, discovery, analysis), `Cleans`, `Stages`, and a
`Writes` per file, and may fail at any step; `Regenerates` replaces the input. `Stages`
copies over what is in `.scribe/`, so that what an earlier run left there stays unless
`Cleans` has removed it. `Reads` is one step: a directory that is rewritten between its
listing (`discover.ts:62`) and the reads of its packages (`cli.ts:21`) is not explored.
`files` is, per file, the run and the plan it is of. `Registry` and `Lookup` are the
generated code.

## 3. Runs

Every run must pass, and has for each of its properties a mutant of the code that
violates it under the same configuration. Between them the runs take every action;
`stream_reconnect` knows all packages and takes none of the actions of tokens and
rejections, which `stream_packages` takes.

| Run | Question | Bounds, and why they are enough |
|---|---|---|
| `stream_packages` | Do rejections, re-widens, restarts, breaks, a token update and `close()` in any order lose a filter or a retry, move the offset back, leave a live stream deaf, or wake a closed one? | Two filters of two packages, one unknown: rejections of a part, and ones that name a package already dropped. One contract, two offsets: enough for an offset to fall back. Two faults: a reconnect timer that is late because the stream has restarted or has been closed, and one whose field the next close has overwritten. One token update. Three sockets alive at a time: the current one, the rejected one, and one a timer opened beside them. Back-off 1 to 2: it reaches its cap. |
| `stream_reconnect` | With breaking connections, is the consumer's map the ledger, and does it catch up? | Three contracts (two of one filter), five offsets, three faults: breaks in the ACS, before any update, after some, and in a row. |
| `ledger_end` | Covered writes, bounded staleness | Two readers (leader and joiner, in both roles), one submitter and other writers, age limit 2 over three ticks: cached answers that are fresh, at the limit and expired. |
| `token_user` | Is anything of one token answered or cached under another? | Two calls, two users, two `setToken`: a read overtaken twice; a change of rights; an age limit that is reached. |
| `history_iterable` | Order, bounds, failures, ends of the iterator; is it a `HistoryFeed`? | Six calls for five events; messages of zero, one and three events; a queue of two, so that one message overflows it; one fault. |
| `history_reads` | Does a query with the pages after it give what is active, does the loop end, is it a `HistoryFeed`; is the probe's answer the first? | Four updates of three contracts, one of them undecodable, one unwanted; a server cap of two and limits of none, 0 and 1: pages of each size, cut between and after updates; one fault, pruning at any time. The loop and the probe share only the ledger and are explored one at a time (`OneReader`). |
| `token_refresher` | Does a refresh come late or too soon, or outlive `stop()`, and does the token recover? | Lifetimes of 1 (too short to use), 5, 10 and 20 ticks against a timer limit of 12, beyond which `setTimeout` fires at once: unusable, ordinary, clamped. Four failures: the back-off reaches its cap. |
| `submissions` | Does a command take effect twice, are the conclusions true, is the contract found live? | A transfer that needs the mining round (three requests: the first, its retry, one more), a choice called for its result, an archive (two requests: done twice); two rounds, one failure of Scan. At most two requests under way (`FewUnderWay`): one that outlives its answer and the retry. |
| `stream_hook` | Leaks, tokens, completeness, coming live | One hook with StrictMode, two queries, two contracts, one token change, one `triggerReload`, two further events (query changes, `reload()`, rejections, errors, restarts). With three further events (a longer run, not part of the project) the result was the same. |
| `multi_stream` | Does each listener hear its own, once; leaks, the connected flag, coming live | Templates and interfaces, two identifiers of each; a contract of a second package version, one with an unreadable view; a change of mapping or Ledger, two further events. |
| `app_session` | One identity, no lost or expired session kept, no signed-in user kept out | Two users, one with two tokens (a renewal), expiry at 1 and 3 and an opaque token, a timer limit of 2 (the clamp); two page loads; one fault. |
| `scribe` | Is the output of one run, does the registry answer with the right package? | Four inputs (two versions; the newer with other contents; a library with a template of the same name; an unreadable package), seven configurations, two runs. In one of them both versions are vendor packages, read in either order, whose hashes and names overlap. |

The bounds `MaxOffset`, `MaxTokens`, `MaxFaults`, `MaxCalls`, `MaxTime`, `MaxEnd`,
`MaxClock`, `MaxChanges`, `MaxTriggers`, `MaxEvents`, `MaxDeps`, `MaxListens`,
`MaxSends`, `MaxRounds`, `MaxPages`, `MaxRuns` limit how often the environment
acts; `MaxSockets` how many sockets are alive, and an action that would open one
more is not taken; `MaxFailures` is where the count of failures saturates, at a
value where the delay is the maximum anyway. Deadlock is checked where the system
cannot stop (`ledger_end` keeps ticking readers, the refresher keeps time, the
generator's input keeps changing); the configurations that turn it off say why.

`ViewFollowsLedger` and `CatchesUp` speak of contracts created after the stream
began, because the network can end the ACS half way and the code takes that for its
end (hazard at `ledger.ts:979`).

## 4. Known disagreements

Where a comment, a type or a test of the repository promises more than the code
keeps. Each was met while modelling; the formula is in its module, next to the weaker
one that a run checks, and fails in the way described when it is added to the
configuration named.

1. **Token updates** (`LedgerStream.NoDuplicateConnections`; `MCStreamReconnect.cfg`
   with `MaxTokens = 2`, `MaxFaults = 0`, `SkipAcs = {FALSE}`). `ledger.ts:1200`: "to avoid duplicate
   connections". The stop function closes a socket only when it is open
   (`websocket.ts:190-194`): `updateToken` while the updates socket is connecting leaves
   it to open beside the new one. Both feed the stream, and `close()` reaches one.
2. **Rejected ACS** (`LiveMeansLoaded`; `MCStreamReconnect.cfg` with
   `InitialKnown <- MCKnown`, `MaxFaults = 0`).
   `types.ts:358` of the live state: "After ACS loaded (or ACS skipped)". The
   close event of a rejected ACS socket ends the init phase of the one that
   replaced it (`ledger.ts:973-997`), and the stream goes live without its contracts.
3. **Joined reads** (`LedgerEndCache.NeverMissesSeenWrite`; `MCLedgerEnd.cfg`).
   `ledger.ts:1399-1401`: "a read at \"end\" never misses a write that this instance has
   already seen". A call that joins a request (1367) gets its raw answer, which may
   be older than a submit that returned before the call.
4. **Replays** (`HistoryIterable.ReplayIsComplete`; `MCHistory.cfg`).
   `ledger.ts:2155-2157`: "the exact data needed". `onmessage` awaits the validation
   schemas, `onclose` nothing: a short window that is sent and closed before they are
   loaded ends as done with events missing and no error.
5. **`reload()`** (`StreamHook.ReloadedIsComplete`; `MCStreamHook.cfg`).
   `react/src/types.ts:65`: "manually reload the query". It empties the map and makes
   no new stream (`context.ts:362-366`): while the ACS loads, contracts are lost from a
   map that then counts as loaded; on a live stream the map stays empty and loading.
6. **Retries** (`Submissions.AppliedAtMostOnce`; `MCSubmissions.cfg` with
   `Careful = FALSE`). `ledger/README.md:174-175`: "A plain transient (429) is safe to
   retry fresh". A 429 may answer the retry of a submit whose outcome is unknown; the
   classifiers judge one error at a time. A caller must remember that an attempt is open.
7. **`off*`** (`MultiStream.HeardOnce`; `MCMultiStream.cfg`). `ledger/src/types.ts:478`:
   "Remove a create event listener". `on*` registers a wrapper (`multistream.ts:99`),
   `off*` removes the listener itself, which the emitter does not hold: a component that
   registers anew is called twice for an event.
8. **Watchdog** (`AppSession.WatchdogSparesGoodTokens`; `MCSession.cfg`, as a
   PROPERTY). `AuthProvider.tsx:311-315`: a compare-and-swap keeps a late timer from
   dropping a rotated token. The ref it compares is written by an effect of the same
   flush that clears the timer, so the comparison never tells the two apart; and at the
   clamp (324-329) it wipes the token where the comment says it skips.
9. **Mirror** (`AppSession.OneIdentity`; `MCSession.cfg` with `Careful = FALSE`).
   `Credentials.ts:4-6` says token and party belong together. The mirror effect
   (`AuthProvider.tsx:261-268`) compares only tokens, and puts the OIDC user's token into
   injected credentials, or those of an earlier user from storage, of another party.
10. **Submits** (`TokenUser.CommandIsOfOneUser`; `MCTokenUser.cfg`).
   `ledger.ts:1850`: "Defaults to the actAs parties of the user in the token". A submit
   awaits its parties and then reads the user id and the token (`ledger.ts:1864-1884`): one that
   `setToken` overtakes names the new user with the parties of the former one.
11. **Versions** (`Scribe.VersionIsOfTheCreator`; `MCScribe.cfg`).
   `ledger/VERSIONED_TEMPLATES.md:119`: "Know exactly which package version created each
   contract". The registry answers for a hash it does not know with the version of the
   first package that has the name (`registry.ts:109-117`), so a contract of an older or
   newer package is reported as of the present version.

Without a formula: `refreshTokenUserInfo` ("now") joins a read that began before it was
called; a stream whose filters are all dropped sends an empty filter, which
reads as a wildcard; the catch of `useMultiStreamBase` runs for a cleaned-up
effect too; a bounded replay, or a probe, whose connection breaks ends as if
it were complete.

## 5. Fairness

Liveness is checked under weak fairness only, and only of what the event loop,
React, the network stack or the participant owe:

- `LedgerStream.FairSpec`: armed timers fire, handshakes end, sent messages arrive,
  a close is answered. `Close`, `UpdateToken`, faults, commits and uploads have none.
  Faults are finitely many, else nothing could be promised.
- `HistoryIterable.FairSpec`: the handshake ends, messages arrive, schemas load,
  continuations run, the participant closes a bounded stream that it has sent. The
  consumer owes nothing.
- `TokenRefresher.FairRefresherSpec`: time passes, timers fire, continuations run, and a mint
  ends (the HTTP library has a timeout). The source's recovery is in the property.
- `StreamHook.FairSpec`: React runs the effects of a commit, `createStream()`
  settles, timers fire, the participant sends what was asked. Rejections are bounded
  by `MaxEvents`; `createStream()` that never settles is outside, and nothing in the
  code would notice it.
- `MultiStream.FairMultiSpec`: as `StreamHook`.
- `HistoryReads.FairReadsSpec`: requests are answered and the consumer goes on with its
  loop. Failures are bounded and end it.
- `AppSession.FairSpec`: React renders and runs its effects, derivations are answered,
  timers fire, time passes, the OIDC library settles, a page that is left is followed
  by another. Nobody has to log in.

`LedgerEndCache`, `TokenUser`, `Submissions` and `Scribe` claim no liveness: a request
that never settles blocks all that join it (`ledger.ts:1371`), and a caller may give up.

## 6. Theorems

All proofs hold for every value of the constants that satisfies the module's
`ASSUME`; TLC evaluates the assumption in each run. They are safety proofs
by an inductive invariant: it holds initially, every action keeps it (one lemma per
action), and it implies the property.

- **LedgerStream.** `TypeOK`, `DroppedIsRetried` and `EveryFilterAccounted` are
  inductive together: the ACS close may clear the dropped set only because an
  active set with as many members as all filters *is* all of them (`FullSet`, which
  needs finiteness), and a rejection drops only packages it records. `DroppedIsRetried`
  rests on the callback that re-arms its own timer. `OffsetNeverRetreats` follows from
  the maximum in `Advanced`. `NeverSilentlyDeaf` needs in addition that the re-widen
  timer runs only while something is dropped, else a callback that finds nothing to do
  could have been the last thing a live stream waited for; then only the handler of a
  close can leave it deaf, which tells the consumer before it decides to reconnect. `StopIsFinal` is shown
  action by action from `st = "stop"`.
- **LedgerEndCache.** `CInv` adds what the calls in progress know: an answer lies
  between the writes seen when its request was made and the participant's end; a
  joiner's leader has not settled. `AnswersAreFresh` has a second invariant, `FInv`:
  every offset the instance holds is at least the ledger end of the time it is
  stamped with.
- **TokenRefresher.** `RInv` adds that a delivery has armed a timer that is not due:
  otherwise it could fire, join the promise about to be cleared, and be lost.
  `RefreshOnTime` rests on the clamp of `Arm` (`RefreshAfterBounds`).
- **HistoryIterable.** `HInv`: there is a `k` such that the first `k` calls have the
  first `k` events, the queue holds those that follow, and the later calls are parked
  in order or have been told of the end; what the socket's state says of that end
  gives `CompleteWhenReady`. `IterableIsAFeed` is the refinement: the initial state is
  one of `HistoryFeed` and every step is one of its steps or changes nothing of it,
  under two more facts. The events handled are the beginning of the window (`FInv`), and
  of the answers a step changes only some: it adds one, answers parked calls with the
  next events, or with the end, or with the error (`Answering`).
- **TokenUser.** `IInv` adds what reads and calls remember of the token they were
  made under: a read with the present token's number is of the present user.
- **StreamHook.** `IInv`: only the last run is in force, and a run that was cleaned
  up is at most still creating; the open stream has the token the effects last ran
  with; a `triggerReload` always comes with a new `Ledger`, so it empties the map only
  when the stream that filled it is closed. Query, contract and event numbers are
  arbitrary, with and without StrictMode.
- **Submissions.** Per command, which requests can still take effect and under which
  id: while an attempt with an unknown outcome is open every request for an effect that
  could come twice bears that id, of which the participant commits one. Assumed of the
  caller and of what answers it (`CarefulCaller`): it remembers an open attempt; only
  503, of the answers that come from before the participant, may answer a request that
  goes on, and an archive needs no mining round (its failing would read as the archive's
  own). The classification enters by what each error means (`RejectedIs`, `PlainMeans`).
  `FoundIsLive` is about the events alone: a list of a finite set has all of it; the
  places of the sort are distinct and so are all numbers up to the length (`PlacesAre`),
  so sorting loses nothing; then the least position that matches is the first in the
  transaction tree, and what lies before it is archived. Assumed (`OwnArchives`): an
  archive is exercised or submitted, and its transaction archives no other contract of
  the template, since the lookup of an archive goes by the template.
- **AppSession.** `DInv`: of the derivations in flight at most one is the latest, and it
  alone is not cancelled; `DerivingIsTrue` follows, for any application. `OInv`: every
  token that can still reach the credentials (of the session, the OIDC user as returned
  and as shown, the derivations not cancelled, the credentials themselves) is of one user, and
  a login leaves a page on which nobody is. Assumed for `OneIdentity`: `Careful`.

- **HistoryReads.** `RInv`: the ledger is well formed (a contract is created once and
  archived once, later), the reader's window lies in it, the reader was handed the
  updates between `begin` and `reached` that the parties see, and its map is what is
  active at `reached`. A page moves `reached` to its last update, or to the end of the
  window when it is empty, and no update the parties see lies between the last one
  on the page and there (`PageIsNext`). Writes and prunes leave what is active at an
  offset of the past as it was (`PastStands`). With `RInv` on both sides each step is one
  of `HistoryFeed` or changes nothing of it (`NextIsFeed`): `PagesAreAFeed`.
- **MultiStream.** `HInv`: as in `StreamHook` only the last run is in force, its stream
  is the one held by the ref, and connected is true exactly when it is open. `EInv`
  adds `Hears` of every run: before its stream is open, or while an emitter has no
  listener, nothing was shown; a listener registered once was called once for each
  event it is due, whatever the package version. `EachHearsItsOwn` assumes
  `CommitsFirst` (section 2).
- **Scribe.** `SInv`: a plan in force is of the input that was read, what is staged is of
  the plan, and of the order of writing the first `written` files are of this run: so a
  run that ends has written all. `LookupIsOfThePackage` rests on what the generated
  registry answers (`LooksUpRight`, `AnswersRight`) for every list of packages.

Where a proof needs induction over numbers or a list (the least offset, the first
match, the flattened registry) it takes the least counterexample instead, by
`WFMin` and `NatLessThanWellFounded` of the library, since the library's induction
theorems have an operator as parameter.

`ViewFollowsLedger` holds in the environment of `stream_reconnect` only, which its
theorem `MapIsTheLedger` assumes (`SteadyEnvironment`: no token update, packages all known, some
filter, a log that creates a contract once and archives it later). There nothing is ever
rejected, so the stream has one socket in use or one timer (`OneAtATime`); the socket's position is the offset, the events between it and
the next one sent are of no filter, and the map at the offset is the ledger's (`Follows`).

Also proved, and in no run because the properties above imply more of the code or are
harder to keep: type correctness (of all but `MultiStream`, `Scribe` and `AppSession`,
whose inductive invariants contain what the proofs need of it), a single request and a covering cache (LedgerEndCache), the
schedule of the refresher, `NoStrandedCall` and sticky failures (HistoryIterable), the
cache and the sharing of reads (TokenUser).

Every safety property of every run is stated by a theorem. Only model-checked: liveness
(`CatchesUp`, `EveryCallAnswered`, `TokenRecovers`, `ComesLive` of both hooks, `ReadEnds`,
`LostIsDropped`, `ExpiredIsDropped`, `ComesIn`). It needs fairness and `ENABLED`, which
the installed provers do not reason about.

## 7. What is not modelled

Per component in `PROJECT.json`. In short:

- the PQS and admin clients, the client-credentials source and the calls of the HTTP
  and Scan clients that wrap one request: no state, nothing that interleaves;
- `useQuery` and the other one-shot hooks: one request, no guard. What that allows is
  a hazard of the list;
- schemas, type declarations, logging, the text of generated modules, the Vite plugin,
  build and release scripts;
- inside modelled components: re-entrant listeners, listeners that throw, a stream
  whose `start()` throws, malformed frames beyond the error they cause, the
  `updateToken` that a hook returns to the application.

## 8. Plan

Done: contract stream, ledger end, refresher, history, token user, streaming hook;
then submits with their errors, queries and paging, the abstract feed and its two
refinements, the session, the multi-stream, the generator; theorems for every safety
property of the runs. What would add most next:

1. **A feed of contracts**: an abstract map that moves from one ledger state to a later
   one, implemented by `LedgerStream` where packages are known, on which `StreamHook`
   and `MultiStream` would rest by refinement instead of by their environment actions.
2. **Transactions of several events** in `LedgerStream`, with listeners that throw or
   call back into the stream.
