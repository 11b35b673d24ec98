# go-pkceflow in TLA+

A verification project for `go-pkceflow`, a Go library that signs a desktop or
mobile application in with OpenID Connect (authorization code with PKCE), keeps
the tokens fresh in the background, stores them, and tells the application what
happened through events. The library is small, but every public method may be
called from any goroutine, from an event handler, or while another call is
under way; that is what this project is about.

## The system

| Part | State it keeps | Operations |
|---|---|---|
| Token-state core (`client.go`, `state.go`) | `state`, `stateRevision` (the generation), `restoreBlocked`; the store behind `TokenPersistence` | commits of Login, refresh, refusal, Logout; `RestoreSession` |
| Persistence recovery (`persistence.go`) | `persistenceRetry`, `persistenceClaimSeq` | one supervisor goroutine for each refresh-loop runner |
| Event queue (`events.go`) | `pendingEvents`, `eventDispatching` | `enqueueEvent`, `drainEvents`, `emitEventIfRevision` |
| Refresh and `AccessToken` (`refresh.go`, `accesstoken.go`) | `refreshAttempt` and its participants | lead, join, leave, perform, finish |
| Refresh loop (`pkceflow.go`) | `refreshSchedule`, `refreshRun` | claim a stage, attempt, park, announce; Start and Stop |
| Lifecycle (`lifecycle.go`, `login.go`, `logout.go`) | `lifecycleOperation`, the browser permit | `Login`, `Logout` |
| Discovery (`client.go`) | `initOperation`, provider, verifier, endpoints | `Init` |
| Desktop broker (`desktopflow`) | waiters, server, grace timer | register, handle, deregister, shut down |
| Mobile handler (`mobileflow`) | the registered flow | start, `DeliverURL`, cancel |
| Deferred bus (`eventbus`) | target, buffer | `Emit`, `SetTarget` |
| File store (`filestore`) | an encrypted file and a fallback key in a directory that processes share | `New`, `Save`, `Load`, `Delete` |
| Contracts (`interfaces.go`) | what `AuthFlowHandler`, `LogoutFlowHandler` and `TokenPersistence` promise | |

How they interact:

- Three mutexes order the Client: `lifecycleMu` before `stateCommitMu` before
  `mu`. `stateCommitMu` is held across calls of the store, `mu` never.
- A generation number ties work that is done without a lock (a token request, a
  retry, a scheduled stage) to the state it was started for; a result for
  another generation is dropped.
- One broadcast channel (`refreshWake`) wakes the refresh loops and the
  persistence supervisors after every relevant change.
- Events are queued under `stateCommitMu` and delivered without a lock, so an
  event handler may call back into the Client.
- Login and Logout call the flow handler (`desktopflow`, `mobileflow`) with a
  context that a newer operation cancels.

What is hard here: results that arrive for a generation that is gone; callers
that share one request and leave it one by one; a Save that fails after memory
has moved on; a process that ends inside a Save; requests the provider acts on
although nobody waits for the answer; timers that fire before they can be
stopped; handlers that call back. `PROJECT.json` lists these hazards line by
line with the properties that cover them.

## The modules

| Module | Models | Uses |
|---|---|---|
| `TokenState`, `Events` | the token state; the event queue | |
| `Session` | the token-state core and persistence recovery | extends both |
| `Refresh` | refresh attempts, `AccessToken`, the loop's part in them | extends `Session`, implements it |
| `Schedule` | the refresh loop's use of time | |
| `Lifecycle` | Login and Logout | |
| `Discovery` | Init | |
| `Callbacks` | URLs and callbacks between Client, browser and handler | |
| `FlowContract` | the contract of a flow handler | extends `Callbacks` |
| `DesktopBroker`, `MobileFlow` | the two handlers | extend `Callbacks`, implement `FlowContract` |
| `FlowHandlers` | an application with one of them | extends both |
| `TokenStore` | the contract of a token store | |
| `FileStore` | the file store | implements `TokenStore` |
| `EventBus` | the deferred bus | |
| `SessionProofs`, `LifecycleProofs`, `DiscoveryProofs`, `FileStoreProofs`, `EventBusProofs`, `ScheduleProofs` | proofs | each extends the module it is named after |
| `HandlerProofs` | proofs about both handlers | extends `FlowHandlers` |
| `RefreshProofs` | proofs | extends `Refresh` and `SessionProofs` |

`MC...` modules and `.cfg` files are the instances for TLC. The four
refinements are stated with `INSTANCE`: `ImplementsSession` of `Refresh` (its
variables are those of `Session`), `DesktopKeepsContract` and
`MobileKeepsContract` (the calls of a handler computed from its flows), and
`ImplementsContract` of `FileStore` (what is stored, under which key, and what a
power loss may leave, computed from directory and disk).

### TokenState, Events, Session

`Session` is the specification of the token-state core. A token is the serial
number of the grant that minted it, and so is `LastAuthAt`; 0 is Go's zero
value. `mono` says whether the times of a state still carry Go's monotonic
clock reading, because `==` on `TokenState` sees it and JSON drops it.

A commit is two steps. `LoginBegin`, `RefreshBegin`, `RefusalBegin` and
`LogoutBegin` take `stateCommitMu` (`commit` names the holder) and change
memory; `CommitSaved`, `CommitUnsaved` and `LogoutDone` are the store's answer,
the bookkeeping (`recordPersistenceSaveResult`), the event and the release.
Goroutines that need only `mu` run in between. A Save that did not succeed may
leave the old value, the new one or nothing in the store (`SaveRemains`), which
is what the contract in `interfaces.go` allows; `Restart` ends the process
anywhere, also inside such a call.

`sup[r]` is the supervisor of runner `r`: `PersistenceWait` and
`PersistenceClaim` are the two outcomes of `nextPersistenceRetryAction`,
`RetryStale`, `RetryCancelled`, `RetryBegin`, `RetrySaved` and `RetryFailed`
the paths of `retryPersistence`. The claim counter counts modulo `ClaimMod`,
so wrap-around is explored and not assumed away; the failure counter saturates
at `FailureCap`.

### Refresh

`Refresh` adds where new states come from. `attempts` are the `refreshAttempt`
records and the goroutine behind each, `actors` the goroutines in `AccessToken`
(`Callers`) or in the refresh loop (`Loops`). `BeginOutcome` is the sequence of
early returns of `beginRefreshAttempt`; `Lead`, `Join` and `Leave` are the ways
into and out of a shared attempt; `finishRefreshAttempt` publishes it. The
provider is external: it grants, rejects, rotates or loses, as far as the
chosen scenario lets it (`Scenarios` is a set of fault sets; a behaviour has one
of them), and `LateGrant`, at a provider that rotates refresh tokens, acts on a
request that the client has given up. `announced` counts the session-expired
announcements of the generation in memory. Time is the age of the access token: valid, within
`tokenExpiryBuffer`, expired, past grace. Commits are written out from
`performRefresh` and `commitCredentialRefusal` and shown to be steps of
`Session` (`ImplementsSession`).

### Lifecycle, Discovery

One member of `Operations` (`Inits`) is one call with its context. `Lifecycle`
follows a Login from admission through the browser permit, the exchange and the
two locks of `commitLoginState`, and a Logout through the local commit,
revocation and RP-Initiated Logout. `Discovery` follows Init from
`beginInitOperation` to `commitInit`, with the endpoint that Init reads before
and writes after it released the lock, and the refresh loop that parks until a
configuration is there.

### Schedule

`Refresh` leaves the clock out; `Schedule` leaves out what an attempt does. It
has the fields of `refreshLoopSchedule` with their times, and for each loop
where it stands in `runRefreshLoop`. `LoopWaits`, `LoopParks`, `LoopAnnounces`
and `LoopClaims` are the outcomes of `nextRefreshLoopAction`; `Due` and `Parks`
are its conditions. A waiting loop holds a timer and the wake channel of the
moment it looked, as a flag that `signalRefreshLoopLocked` (`Woken`) sets.
`NotStarted` is the early returns of `beginRefreshAttempt` that a loop meets,
`Recorded` the switch of `finishRefreshLoopAttempt`. `refreshStageTime` and
`persistenceRetryDelay` are recursive functions written as the loops in the code
compute them, and compared with closed forms. Time moves by `Tick`. In half of
the behaviours (`prompt`) it waits for goroutines that can run; in the others
they may be delayed at will, which is what a suspended laptop does.

Login, Logout, `RestoreSession` and refreshes by `AccessToken` are
`InstallGeneration`; blocks that `AccessToken`, or the end of an attempt that the
loop began, records are `blockRefreshIntegrity` and `blockRefreshPermanent`.

### Callbacks, FlowContract, DesktopBroker, MobileFlow, FlowHandlers

`FlowContract` is what Login and Logout rely on: a call opens its URL and
returns once, with a callback that answers this URL or with an error.
`DesktopBroker` has `runFlow` and the broker, with `time.AfterFunc` timers as
objects of their own, so that one that fired before `Stop` still runs its
callback later. Waiters are found by path and state, also where a URL carries
no state and flows collide. `MobileFlow` has the select of `runFlow` as a free
choice between its ready branches, callbacks as the triple correlation looks
at, and `SetLogoutURI` at any moment, also between `PostLogoutRedirectURI` and
`StartLogoutFlow`, and between the two critical sections of the latter, in which
it reads the redirect URI (`StartFlow`) and registers (`RegisterFlow`). A flow
that returned may be started again.

### TokenStore, FileStore

`TokenStore` is `TokenPersistence`: a Save takes effect in one step, success
means that it is what Loads return and that it survives a power loss, an error
leaves open whether it took effect. Its clients are opened with a key, and what
was saved under another key reads as nothing, as the package comment of
`filestore` has it. `FileStore` has one process for each user of the directory.
`New` asks for the machine's ID; `machineID` reads a file, asks the registry or
runs a program, so that each call may fail or answer differently, and on any
failure `New` goes on to the key file: it reads, generates, links or re-reads the
key. The contract does not tell apart which key is in that file, since there is
never a second one (`OneKey`); a state saved under a fallback key that is not in
the key file any more counts as lost, which the contract forbids. `Save`
stages, syncs, renames and syncs the directory. `directory` is what processes
see, `onDisk` the set of files each name may have after a power loss; a file
that was not synced may come back torn. `Crash` ends a process anywhere,
`PowerLoss` all of them, and `Fail` is a failing file-system call.

### EventBus

`EventBus` has both mutexes of `DeferredEventBus`; the target's `Emit` takes a
step of its own.

## The runs

| Run | Bounds | What it shows |
|---|---|---|
| `session` | 2 runners, 2 grants, claim counter of 2 values, 2 queued events | `DurableOrPending`, `ClaimHasOwner`, `NoLostWakeup`, `LastEventTellsTruth`, `SerializedEmit`, `CredentialsOnlyMoveForward` with store failures and restarts |
| `session_live` | 2 runners, 1 grant | `PersistenceRecovers`, `EventsDelivered` |
| `refresh` | 2 callers, 2 attempts, 2 grants; four scenarios: Login and Logout; lost answers, missing key sets, revocation; late grants, revocation, store errors; forged ID tokens, client, server and store errors | `NobodyElsesCancel`, `SingleFlight`, `RefusalIsGenuine`, `ImplementsSession` |
| `refresh_loop` | 1 caller, 1 loop, reentrant handlers, revocation | `ExpiredOnce`, `CallsReturn` |
| `refresh_overwrite` | 1 caller, 1 loop, forged ID tokens | `IntegrityBlockStays` is violated |
| `refresh_reload` | 1 caller, 3 grants, late grants, revocation, server and store errors, JSON store | `RefusalIsGenuine` is violated |
| `lifecycle` | 3 calls | `LatestCommits`, `CancelledLeavesNothing`, `LogoutSettles`, `OneBrowser`, `SupersededReturns` |
| `discovery` | 3 calls, 2 endpoints | `LatestInitDecides`, `MalformedKeepsEndpoint`, `LoopSeesDiscovery` |
| `schedule` | 2 loops, 2 generations after the empty one, lifetimes of 1, 2 and 4 units, 6 units of time, grace of 5 | `NoStaleSleep`, `AttemptsInWindow`, `TriedBeforeExpiry`, `ExpiredAfterGrace`, `StagesHalve`, `RetryDelayDoubles` |
| `handlers` | a login and a logout flow, started again and again, 2 timers | `DesktopKeepsContract`, `MobileKeepsContract`, `FlowsReturn`, `WaitersServed`, `NotDisplaced`, `PortCloses`, `AcceptedIsReturned` |
| `filestore` | 2 processes, 2 values, a machine ID that any `New` may fail to read, 2 generated keys | `ImplementsContract`, `OneKey` |
| `bus` | 3 events, 2 targets | `InOrder`, `NothingStuck` |

Why the bounds are enough. Two runners are a running loop and the one that
replaced it; a third would repeat the part of one of them. Two grants are a
session and its successor, which is all that the comparison of generations can
tell apart. A claim counter of two values makes every claim id the same, the
worst case of wrap-around. Three calls of Login or Logout are the smallest
number in which one operation supersedes another and a third joins or
supersedes that. A login and a logout flow are all that can collide on a key or
race for the one slot of the mobile handler, and both may be restarted, so that
callbacks and timers of earlier calls meet later ones. `MaxTimers` bounds
timers whose callbacks have not run yet: two are one that could not be stopped
and its successor. Two processes are enough for a lost race to publish the key,
each with a key of its own, and for one that has the machine's key beside one
that fell back.
A lifetime of 4 units has two stages, of 1 none; the retry delays are compared
for up to 6 failures, which reaches a cap of 30 from 1; like the code's 60, it
is no power of two. `MaxPending` bounds commits that outrun the emitter. In the
safety runs it only cuts off longer backlogs; in `refresh_loop` it is large
enough never to bind, so that liveness does not hang on it. Deadlock is checked
in `session`, `session_live`, `refresh_loop`, `filestore` and `schedule`;
elsewhere every call may simply have returned, or the bound on grants, keys or
time is reached.

`TypeOK` of `Session` is checked and proved. The type invariants of the other
modules are proved, as the first conjunct of their inductive invariants; no run
lists them, since the properties above look at the same structure and more.

### Fairness

- `Session`: the store answers, mutexes admit every waiter in the end (strong
  fairness for a runner that waits for `stateCommitMu`, since others take it
  again and again; Go's mutex hands over to a starving waiter), time passes, an
  emitter returns, and a Save that is retried for ever succeeds in the end. That
  the application starts a runner, or calls anything, is not assumed.
- `Refresh`: goroutines run and a request is answered or fails; the HTTP
  request carries a context, but `CallsReturn` does not assume that it ends. An
  event handler returns once the `AccessToken` call it makes has returned.
- `Lifecycle`: a flow handler returns once its context is done, which
  `interfaces.go` asks of it. That the user answers, or a timeout passes, is not
  assumed.
- `DesktopBroker`: timers fire and run, the browser opener returns, and a flow
  that needs the mutex gets it in the end (strong fairness: registrations and
  callbacks take it in between, and in the model the bound on timers can hold a
  step up for a moment). `MobileFlow`: goroutines that can go on do, and the
  opener returns. That the user answers is not assumed.
- `EventBus`: targets return. `Schedule` and `FileStore` have safety properties
  only.

### Divergences with a run

- `refresh_overwrite`: the refresh loop's `finishRefreshLoopAttempt` sets its
  disposition without looking at the one a concurrent attempt has recorded, so
  an integrity block can be replaced by "expired" (`pkceflow.go:462`) and the
  generation no longer fails closed, which `docs/architecture.md:245` promises.
  `OnlyLoopsUnblock` proves that no other step lifts the block. The same
  overwrite has a second consequence, found when `RefusalIsGenuine` was to be
  proved with a loop: a grant rotates the refresh token, its ID token fails the
  check, the block is overwritten, and the next attempt sends the spent token,
  whose refusal ends a session nobody revoked.
- `refresh_reload`: with a store that encodes to JSON, `RestoreSession` of the
  tokens in memory starts a new generation and drops the mark of an abandoned
  attempt; the refusal that this attempt provoked then ends the session,
  against `docs/architecture.md:240`.

### Divergences without a run

Met while the code was modelled; the model contains the behaviour, and no run
asks about it.

- `login.go:200` stamps a Login before it waits for the locks. A refresh stamped
  later may commit first; if the Save of the Login then fails, the store looks
  newer than memory, which the comment at `refresh.go:186` excludes.
- `refresh.go:340` records only cancelled attempts as inconclusive. A response
  that is lost otherwise leaves no mark, against `pkceflow.go:508`.
- `refresh.go:410` turns a failed fetch of the key set into a session-integrity
  failure; the table at `README.md:291` lets grace continue on transport errors.
- `accesstoken.go:58` returns the current token after a successful wait without
  looking at an integrity block that was set meanwhile
  (`docs/architecture.md:207`).
- `pkceflow.go:296` parks a generation whose refreshes all failed on the
  transport as expired, a disposition that never announces session-expired;
  `README.md:291` says "at grace end".
- `pkceflow.go:217`: a loop waits for the answer to an attempt although its
  generation is gone, and does not look after the new one meanwhile.
  `TriedBeforeExpiry` is stated for generations that find a free loop.
- `filestore/filestore.go:113`: Delete returns without syncing the directory, so
  that a power loss may bring the removed file back; `filestore/doc.go:28` says
  that "Unix directory namespace updates are synced before success is
  returned". `TokenStore` asks durability of Save only.
- `filestore/filestore.go:132` decides in every `New` whether the machine's ID can
  be read and falls back to the key file without an error. A process that fell
  back reads as nothing what another, or itself before a restart, saved under the
  machine's key, and the other way round, while `interfaces.go:70` says "Once
  Save returns nil, a later Load must return that state unless a newer Save or
  Delete completed"; `filestore/doc.go:31` names a changed ID and a lost key file
  only. `ImplementsContract` is therefore stated for processes with the same key,
  and `OneKeyReadsAll` proves that with one key nothing is hidden.
- `logout.go:130` checks ownership before it sends the revocation request; a
  Login may commit in between, against the comment at `logout.go:36`.
- `client.go:392` erases the endpoint when the claim is absent; the comment at
  `client.go:384` says that the previous value is kept.
- `desktopflow/desktopflow.go:320`: a timer that fired too early to be stopped
  closes the server before the next grace period is over, against the comment
  at line 250.

## The proofs

The theorems hold for every value of the constants: any number of runners,
callers, loops, operations, flows, processes or events, and every bound. The
assumptions are the named ones in the modules: constants have their types, "none"
values lie outside their sets, the sets of callers and of loops are finite (so
that participants can be counted), and in `Schedule` `0 < MinRetry <= MaxRetry`,
`MaxRetry` is even (a minute in nanoseconds) and time can pass. Two theorems of
`RefreshProofs` and `OneKeyReadsAll` have further hypotheses, named there.

None of the properties is inductive. Each proof module begins with the invariant
that is, as a conjunction of named parts; goes on with lemmas about the operators
of the model and one lemma for each action; and ends with the theorems.

| Module | Theorem | States |
|---|---|---|
| `SessionProofs` | `TypeCorrect`, `NothingLost`, `OneOwner`, `WakeupsKept`, `MovesForward`, `EmitsAreSerialized`, `EventsTellTruth` | `TypeOK`, `DurableOrPending`, `ClaimHasOwner`, `NoLostWakeup`, `CredentialsOnlyMoveForward`, `SerializedEmit`, `LastEventTellsTruth` |
| `RefreshProofs` | `RefreshTypeCorrect`, `OneRefreshInFlight`, `NobodyElseIsCancelled`, `ExpiredIsAnnouncedOnce`, `RefreshImplementsSession` | `RefreshTypeOK`, `SingleFlight`, `NobodyElsesCancel`, `ExpiredOnce`, `ImplementsSession` |
| | `RefreshKeepsSession` | the three main properties of `Session`, of `Refresh` |
| | `RefusalsAreGenuine`, `OnlyLoopsUnblock` | `RefusalIsGenuine`, `IntegrityBlockStays`, under hypotheses |
| `LifecycleProofs` | `LifecycleTypeCorrect`, `LogoutsSettle`, `CancelledLoginsLeaveNothing`, `OneBrowserAtATime`, `OnlyLatestCommits` | `LifecycleTypeOK`, `LogoutSettles`, `CancelledLeavesNothing`, `OneBrowser`, `LatestCommits` |
| `DiscoveryProofs` | `DiscoveryTypeCorrect`, `LoopWakes`, `OnlyLatestInitDecides`, `MalformedDocumentKeepsEndpoint` | `DiscoveryTypeOK`, `LoopSeesDiscovery`, `LatestInitDecides`, `MalformedKeepsEndpoint` |
| `HandlerProofs` | `HandlersTypeCorrect`, `WaitersAlwaysServed`, `NeverDisplaced`, `AcceptedIsAlwaysReturned`, `DesktopImplementsContract`, `MobileImplementsContract` | `BrokerTypeOK` and `MobileTypeOK`, `WaitersServed`, `NotDisplaced`, `AcceptedIsReturned`, `DesktopKeepsContract`, `MobileKeepsContract` |
| `FileStoreProofs` | `FileTypeCorrect`, `ProcessesAgreeOnKey`, `FileStoreImplementsContract` | `FileTypeOK`, `OneKey`, `ImplementsContract` |
| | `OneKeyReadsAll` | that nobody is refused what was saved, if all processes get one key |
| `EventBusProofs` | `BusTypeCorrect`, `EventsArriveInOrder` | `BusTypeOK` with the ownership of `sendMu` (`MutexShape`), `InOrder` |
| `ScheduleProofs` | `ScheduleTypeCorrect`, `SleepsAreNeverStale`, `GenerationsAreTried`, `AttemptsStayInWindow`, `AnnouncementsWaitForGrace`, `ThresholdsAreHalves`, `RetryDelaysDouble` | `ScheduleTypeOK`, `NoStaleSleep`, `TriedBeforeExpiry`, `AttemptsInWindow`, `ExpiredAfterGrace`, `StagesHalve`, `RetryDelayDoubles` |

### Session

`Inv` adds four things. `StoreShape`: the store holds only what a Load can
return, and an ID token beside every refresh token, so that a refused
generation, which keeps only the ID token, is never mistaken for an empty one.
`RetryShape`: a pending retry is for the current generation, and no commit but
its own is under way. `CommitShape`: what holding `stateCommitMu` for each
purpose entails; it carries `DurableOrPending` across the two halves of a commit.
`Claims`: a runner in `retryPersistence` either owns the recorded claim or
carries an older revision. This is what makes wrap-around harmless: ids may
repeat, but a runner with an old id also has an old revision, and revisions do
not repeat.

The argument goes action by action: `AdvanceInv` for all steps that install a
generation, `CommitInv` for the commits, `SupervisorInv` for the retry
protocol, `InvStep` for the whole. `MovesForward` is an action property and
needs `Inv` for `RestoreSession`, whose guard leaves exactly the cases in which
the store equals memory or memory is still empty.

`TruthInv`, on top of `Inv`, is about events: `Announced` says that a
commit under way has the state its event will describe, and that the latest event
describes memory whenever no commit is under way. Before the first commit there
is no event unless `RestoreSession` is barred, so that the one step which changes
memory without an event cannot make the latest one false.

### Refresh

`RefreshInv` holds for all scenarios and for loops and callers together.
`Stamps`, `Snapshots` and `Grants` say that a grant on its way is newer than the
generation it was requested for, and that an attempt whose generation is still
the current one works on exactly what is in memory. From these the commits of
`performRefresh` and `commitCredentialRefusal` are steps of `Session`, and all
other steps are steps of `Session` or leave its variables alone; this is
`RefreshImplementsSession`, and what is proved of `Session` holds here
(`RefreshKeepsSession`). `Flight` gives `SingleFlight`. `Participants` says that
the counter of an attempt is the number of actors that wait for it; an attempt is
cancelled by the last of them only. `Generations` and `Announcements` carry
`ExpiredOnce`: at most one loop is about to announce the generation in memory,
and the schedule remembers it through every late result.

`GenuineInv` is about the provider's view. Its core is `SpentIsKnown`: the
refresh token in memory is still good, or it is recorded, or an attempt at work
is about to record, that it may have been spent. `TokensDiffer` keeps apart the
tokens that a Login, an attempt and memory have; `RefusedIsGone` says that a
refused token does not come back; `IntegrityIsKnown` that an integrity failure
is recorded before anybody learns of it. `RefusalsAreGenuine` has two hypotheses,
and both are needed: with a loop the overwrite at `pkceflow.go:462` loses the
record, and with a JSON store `RestoreSession` does, as the two runs with
a violation show. It is about `AccessToken`, Login, Logout and restores in an
application that does not start the loop, over a store that keeps the Go value.
`OnlyLoopsUnblock` needs the first hypothesis only.

### Lifecycle, Discovery

The two arguments are alike. In `Lifecycle`, `CurrentShape` says that the current
operation is the one admitted last and has not returned, and that a current
Login was admitted after every Logout; `KindShape` ties steps to kinds, the type
invariant ties `lifecycleMu` and the browser permit to the operation inside the
section they guard, and `SessionShape` says whose tokens are in memory. In
`Discovery`, `CurrentIsLatest` is the same for Init, and `PreviousIsFresh` says
that the endpoint which Init read without the lock is still the committed one if
the call is still current: only a current call commits, and one that begins later
makes this one obsolete.

### Handlers

`DeskInv`: nothing is left of a flow that is not running, a registered flow is
running and unanswered, and a flow only ever carries its own state; a flow with a
state shares its key with no other, so a deregistration takes away only its own.
`MobileInv`: what was delivered to a flow stays in its channel until it is
received, and when the flow looks for the last time nobody can deliver any more.
Both refinements are step simulations from these.

### FileStore

`PublishedShape`: only synced files are published, and a key file is never
replaced, so a power loss may take it away only as long as nobody has synced the
directory. `StagedShape` and `KeyShape`: a process in New has its own key until
it has published it or found another, and one that New gave a key has a machine's
or the only key that can be on the disk. `TokensReadable`: whatever token file may
be left on the disk can be read with a machine's key or with the key on the disk.
The refinement maps what is stored and what a power loss may leave, each with the
name of its key, and the keys that processes hold; `Inv` makes the rename of a
Save and the power loss steps of `TokenStore`, and makes keys with one name one
key. `machineID` is assumed to answer with IDs from some set, which generated keys
are not in; that it succeeds, or gives two calls the same answer, is not assumed.
`OneKeyReadsAll` has that as its hypothesis and follows from the refinement: the
contract stores nothing under a key that no client holds.

### EventBus

`MutexShape`: `sendMu` is held exactly by the goroutine inside its section, and
only its holder has events to flush. `PlaceShape`: an
event is in one place, once, until it is delivered. `OrderShape`: the events of
each queue come after those that returned before them; until a target is set
everything is buffered, and after that nothing is.

### Schedule

`ClaimShape` and `StageShape` say which stages were attempted and that the
loop with the claim wants the next one; `EventShape` what an announcement rules
out; `RevisionShape` that loops are never ahead of memory. `PromptShape` carries
`TriedBeforeExpiry`: while a generation waits for its first attempt and
goroutines run without delay, there is still time and some loop sees to it.

The closed forms need induction over the recursive functions of the model. The
library's induction theorems take an operator, so `ScheduleProofs` proves
induction for a set instead, from the well-ordering of the natural numbers, then
that a function can be iterated, and from it that the recursive definitions have
the solutions they describe. The thresholds are then halves of what is left
(`ThresholdsAreHalves`), increasing up to the expiry, and the retry delays double
up to the cap (`RetryDelaysDouble`).

### Only model-checked

The liveness properties `PersistenceRecovers`, `EventsDelivered`, `CallsReturn`,
`SupersededReturns`, `FlowsReturn`, `PortCloses` and `NothingStuck`: they need
fairness and `ENABLED`, which the prover does not handle. All safety properties
of passing runs are proved; `RefusalIsGenuine` under the hypotheses above, which
are those of the run `refresh`.

## Not modelled

The parsing of URIs and claims, the HTML pages, signature checks (a call into
go-oidc), encryption (a key fits or not), file permissions and the Windows build
of the file store, configuration and transport. `oidctest` (a fake provider and
test doubles), the example program and the CI script are a quarter of the
repository's lines and no part of a running application. `Refresh` takes
discovery to have succeeded and leaves the supervisors of `Session` out
(`Runners` is empty there). `Session` keeps its own, weaker description of a
store (`SaveRemains`), since any `TokenPersistence` may be plugged in.

## Plan

Every safety property of a passing run is proved. What is left, in this order:
state the ownership of the revocation request (`logout.go:130`) and the choice of
the token after the last check (`accesstoken.go:58`) as properties; follow a
removed file through a power loss in `TokenStore`; find the weakest condition on
loops and stores under which refusals are genuine, in place of having neither;
share the frame lemmas of `RefreshProofs` between its two invariants.
