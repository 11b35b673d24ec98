------------------------------- MODULE Session -------------------------------
(***************************************************************************)
(* The token-state core of Client: what is in memory, what is in the store *)
(* and who may change either.  Every change of the state happens under     *)
(* stateCommitMu, which is held across the TokenPersistence call; a commit *)
(* is therefore two steps here, the change of memory and the answer of the *)
(* store, and the steps of other goroutines that need only Client.mu fall  *)
(* between them.  A Save that failed is retried by the persistence         *)
(* supervisor of each StartRefreshLoop runner (persistence.go).            *)
(*                                                                         *)
(* Where the new state comes from (Login's code exchange, the refresh      *)
(* grant, its refusal) is left open: this is the abstract specification    *)
(* that Refresh, the module with the grants, is shown to implement.        *)
(***************************************************************************)
EXTENDS TokenState, Events

CONSTANTS
    Runners,    \* the handles StartRefreshLoop may have alive at a time
    NoRunner,   \* no handle
    ClaimMod,   \* persistenceClaimSeq counts modulo this (2^64 in the code)
    FailureCap, \* persistenceRetry.failures saturates here (2^64 - 1)
    MaxMinted,  \* bound: grants the provider makes
    MaxPending  \* bound: commits that outrun the emitter

ASSUME SessionAssumption ==
    /\ NoRunner \notin Runners
    /\ ClaimMod \in Nat /\ ClaimMod > 1
    /\ FailureCap \in Nat /\ FailureCap > 0
    /\ MaxMinted \in Nat
    /\ MaxPending \in Nat

VARIABLES
    state,               \* Client.state
    stateRevision,       \* the semantic generation of state
    persistenceRetry,    \* the Save that has not returned success yet
    restoreBlocked,      \* set by Logout
    commit,              \* the operation holding stateCommitMu, or "free"
    store,               \* what TokenPersistence would load
    persistenceClaimSeq,
    refreshRun,          \* the handle StopRefreshLoop would cancel
    sup,                 \* the persistence supervisor of each runner
    minted,              \* serial number of the last grant
    loginStamp           \* the grant a Login holds and has not committed, or 0

sessionVars == <<state, stateRevision, persistenceRetry, restoreBlocked, commit,
                 store, persistenceClaimSeq, refreshRun, sup, minted, loginStamp>>

vars == <<sessionVars, eventVars>>

-----------------------------------------------------------------------------
(* State.                                                                  *)

\* due abstracts retryAt: FALSE until the retry delay has passed.
NoRetry == [valid |-> FALSE, revision |-> 0, failures |-> 0, due |-> FALSE, claimID |-> 0]

RetryStates == [valid: BOOLEAN, revision: Nat, failures: 0..FailureCap,
                due: BOOLEAN, claimID: Nat]

\* pc: "off" no goroutine; "ready" top of runPersistenceRetryLoop; "waiting"
\* in waitForRefreshLoop (timed: with a due time); "claimed" before and
\* "saving" inside retryPersistence's critical section.
OffSup == [pc |-> "off", cancelled |-> FALSE, timed |-> FALSE, revision |-> 0, claimID |-> 0]

Sups == [pc: {"off", "ready", "waiting", "claimed", "saving"}, cancelled: BOOLEAN,
         timed: BOOLEAN, revision: Nat, claimID: Nat]

TypeOK ==
    /\ state \in TokenStates
    /\ stateRevision \in Nat
    /\ persistenceRetry \in RetryStates
    /\ restoreBlocked \in BOOLEAN
    /\ commit \in {"free", "login", "refresh", "refusal", "logout", "retry"}
    /\ store \in TokenStates
    /\ persistenceClaimSeq \in 0..(ClaimMod - 1)
    /\ refreshRun \in Runners \cup {NoRunner}
    /\ sup \in [Runners -> Sups]
    /\ minted \in Nat
    /\ loginStamp \in Nat
    /\ EventsTypeOK

\* New, over an empty store.  Later processes start from what Restart leaves.
Init ==
    /\ state = ZeroState
    /\ stateRevision = 0
    /\ persistenceRetry = NoRetry
    /\ restoreBlocked = FALSE
    /\ commit = "free"
    /\ store = ZeroState
    /\ persistenceClaimSeq = 0
    /\ refreshRun = NoRunner
    /\ sup = [r \in Runners |-> OffSup]
    /\ minted = 0
    /\ loginStamp = 0
    /\ EventsInit

-----------------------------------------------------------------------------
(* Helpers of the commit paths.                                            *)

\* signalRefreshLoopLocked closes the wake channel every waiter selects on.
Signalled(s) ==
    [r \in Runners |->
        IF s[r].pc = "waiting" THEN [s[r] EXCEPT !.pc = "ready", !.timed = FALSE] ELSE s[r]]

advanceStateLocked(new) ==
    /\ state' = new
    /\ stateRevision' = stateRevision + 1
    /\ persistenceRetry' = NoRetry
    /\ restoreBlocked' = FALSE
    /\ sup' = Signalled(sup)

setStateLocked(new) ==
    IF state = new
    THEN UNCHANGED <<state, stateRevision, persistenceRetry, restoreBlocked, sup>>
    ELSE advanceStateLocked(new)

\* The retry that is pending for the generation in memory.
RetryPending == persistenceRetry.valid /\ persistenceRetry.revision = stateRevision

persistenceRetryMatchesLocked(r) ==
    /\ RetryPending
    /\ persistenceRetry.revision = sup[r].revision
    /\ persistenceRetry.claimID = sup[r].claimID

\* What the store may hold once a Save of s was begun and did not succeed: it
\* may fail before it writes, after it has published, or after it has removed
\* an old value it could not read.
SaveRemains(s) == {store, Persisted(s), ZeroState}

\* What it may hold once a Delete was begun and did not succeed.
DeleteRemains == {store, ZeroState}

-----------------------------------------------------------------------------
(* Commits.  Begin takes stateCommitMu and changes memory; Saved, Unsaved  *)
(* and the Logout steps are the store's answer, the bookkeeping and the    *)
(* release of the lock.                                                    *)

CommitFree == commit = "free" /\ Len(pendingEvents) < MaxPending

\* The state a commit builds from the token response of grant number serial.
Granted(serial, refresh, id) ==
    [access |-> serial, refresh |-> refresh, id |-> id, lastAuthAt |-> serial, mono |-> TRUE]

\* Login has exchanged its code and stamps the new state, before it waits for
\* lifecycleMu and stateCommitMu.  It supersedes a Login that waits there.
LoginExchange ==
    /\ minted < MaxMinted
    /\ minted' = minted + 1
    /\ loginStamp' = minted + 1
    /\ UNCHANGED <<state, stateRevision, persistenceRetry, restoreBlocked, commit, store,
                   persistenceClaimSeq, refreshRun, sup, eventVars>>

\* commitLoginState.  The provider may have issued no refresh token.
LoginBegin ==
    /\ CommitFree
    /\ loginStamp # 0
    /\ \E refresh \in {0, loginStamp} :
          advanceStateLocked(Granted(loginStamp, refresh, loginStamp))
    /\ loginStamp' = 0
    /\ commit' = "login"
    /\ UNCHANGED <<store, persistenceClaimSeq, refreshRun, minted, eventVars>>

\* The provider answers some refresh request with a grant.
RefreshGrant ==
    /\ minted < MaxMinted
    /\ minted' = minted + 1
    /\ UNCHANGED <<state, stateRevision, persistenceRetry, restoreBlocked, commit, store,
                   persistenceClaimSeq, refreshRun, sup, loginStamp, eventVars>>

\* performRefresh's commit of a grant made for the generation in memory, and so
\* after it.  The provider may rotate the refresh token and may return a new ID
\* token; otherwise the old ones are carried over.
RefreshBegin ==
    /\ CommitFree
    /\ state.refresh # 0
    /\ \E serial \in (state.access + 1)..minted :
          /\ serial # loginStamp
          /\ \E refresh \in {state.refresh, serial}, id \in {state.id, serial} :
                advanceStateLocked(Granted(serial, refresh, id))
    /\ commit' = "refresh"
    /\ UNCHANGED <<store, persistenceClaimSeq, refreshRun, minted, loginStamp, eventVars>>

\* commitCredentialRefusal.  A Load that fails is no evidence of rotation.
RefusalBegin ==
    /\ CommitFree
    /\ state.refresh # 0
    /\ \E loaded \in BOOLEAN : loaded => ~supersededRefreshToken(store, state)
    /\ advanceStateLocked(RefusedState(state))
    /\ commit' = "refusal"
    /\ UNCHANGED <<store, persistenceClaimSeq, refreshRun, minted, loginStamp, eventVars>>

\* The event each commit enqueues before it releases the lock.
CommitEvent == [login |-> "logged-in", refresh |-> "token-refreshed",
                refusal |-> "session-expired"]

\* Bug: the outcome of the Save is not recorded.
Bug_recordPersistenceSaveResult ==
    UNCHANGED <<persistenceRetry, sup>>

\* recordPersistenceSaveResult after an error.
recordPersistenceSaveResult ==
    /\ persistenceRetry' = [NoRetry EXCEPT !.valid = TRUE, !.revision = stateRevision,
                                           !.failures = 1]
    /\ sup' = Signalled(sup)

CommitSaved ==
    /\ commit \in DOMAIN CommitEvent
    /\ store' = Persisted(state)
    /\ enqueueEvent(CommitEvent[commit])
    /\ commit' = "free"
    /\ UNCHANGED <<state, stateRevision, persistenceRetry, restoreBlocked,
                   persistenceClaimSeq, refreshRun, sup, minted, loginStamp>>

CommitUnsaved ==
    /\ commit \in DOMAIN CommitEvent
    /\ store' \in SaveRemains(state)
    /\ recordPersistenceSaveResult
    /\ enqueueEvent(CommitEvent[commit])
    /\ commit' = "free"
    /\ UNCHANGED <<state, stateRevision, restoreBlocked, persistenceClaimSeq,
                   refreshRun, minted, loginStamp>>

\* Bug: Logout forgets to bar RestoreSession.
Bug_LogoutBegin ==
    /\ CommitFree
    /\ IF state = ZeroState
       THEN /\ UNCHANGED <<state, stateRevision>>
       ELSE /\ state' = ZeroState /\ stateRevision' = stateRevision + 1
    /\ persistenceRetry' = NoRetry
    /\ UNCHANGED restoreBlocked
    /\ sup' = Signalled(sup)
    /\ commit' = "logout"
    /\ loginStamp' = 0
    /\ UNCHANGED <<store, persistenceClaimSeq, refreshRun, minted, eventVars>>

\* Logout clears memory.  setStateLocked keeps the revision of an empty state,
\* but the pending retry is forgotten and RestoreSession barred either way.
LogoutBegin ==
    /\ CommitFree
    /\ IF state = ZeroState
       THEN /\ UNCHANGED <<state, stateRevision>>
       ELSE /\ state' = ZeroState /\ stateRevision' = stateRevision + 1
    /\ persistenceRetry' = NoRetry
    /\ restoreBlocked' = TRUE
    /\ sup' = Signalled(sup)
    /\ commit' = "logout"
    /\ loginStamp' = 0
    /\ UNCHANGED <<store, persistenceClaimSeq, refreshRun, minted, eventVars>>

\* A Delete that fails is only logged.
LogoutDone ==
    /\ commit = "logout"
    /\ store' \in DeleteRemains
    /\ enqueueEvent("logged-out")
    /\ commit' = "free"
    /\ UNCHANGED <<state, stateRevision, persistenceRetry, restoreBlocked,
                   persistenceClaimSeq, refreshRun, sup, minted, loginStamp>>

\* Bug: a Client with an unresolved Save loads the older generation.
Bug_RestoreSession ==
    /\ commit = "free"
    /\ ~restoreBlocked
    /\ ~IsZero(store)
    /\ setStateLocked(store)
    /\ UNCHANGED <<commit, store, persistenceClaimSeq, refreshRun, minted, loginStamp, eventVars>>

\* RestoreSession where it installs what it loaded; its other returns (barred,
\* Save unresolved, Load error, nothing stored) change nothing.
RestoreSession ==
    /\ commit = "free"
    /\ ~restoreBlocked
    /\ ~RetryPending
    /\ ~IsZero(store)
    /\ setStateLocked(store)
    /\ UNCHANGED <<commit, store, persistenceClaimSeq, refreshRun, minted, loginStamp, eventVars>>

\* emitEventIfRevision, which the refresh loop calls for a blocked generation.
EmitSessionExpired ==
    /\ CommitFree
    /\ state.refresh # 0
    /\ enqueueEvent("session-expired")
    /\ UNCHANGED sessionVars

-----------------------------------------------------------------------------
(* The persistence supervisors.                                            *)

Ready(r) == [OffSup EXCEPT !.pc = "ready", !.cancelled = sup[r].cancelled]

\* startRefreshLoop: a new handle replaces and cancels the previous one.
StartRefreshLoop(r) ==
    /\ sup[r].pc = "off"
    /\ refreshRun' = r
    /\ sup' = [q \in Runners |->
                  CASE q = r -> [OffSup EXCEPT !.pc = "ready"]
                    [] q = refreshRun /\ q # r -> [sup[q] EXCEPT !.cancelled = TRUE]
                    [] OTHER -> sup[q]]
    /\ UNCHANGED <<state, stateRevision, persistenceRetry, restoreBlocked, commit, store,
                   persistenceClaimSeq, minted, loginStamp, eventVars>>

\* StopRefreshLoop, or the end of the context the loop was started with.
CancelRunner(r) ==
    /\ sup[r].pc # "off"
    /\ ~sup[r].cancelled
    /\ sup' = [sup EXCEPT ![r].cancelled = TRUE]
    /\ UNCHANGED <<state, stateRevision, persistenceRetry, restoreBlocked, commit, store,
                   persistenceClaimSeq, refreshRun, minted, loginStamp, eventVars>>

\* The supervisor sees its context ended, at the top of its loop or while it
\* waits, and the handle is dropped.
SupervisorExit(r) ==
    /\ sup[r].pc \in {"ready", "waiting"}
    /\ sup[r].cancelled
    /\ sup' = [sup EXCEPT ![r] = OffSup]
    /\ refreshRun' = IF refreshRun = r THEN NoRunner ELSE refreshRun
    /\ UNCHANGED <<state, stateRevision, persistenceRetry, restoreBlocked, commit, store,
                   persistenceClaimSeq, minted, loginStamp, eventVars>>

\* nextPersistenceRetryAction where there is nothing to claim: no pending Save
\* (a stale one is dropped), one that another runner claimed, or one not due.
PersistenceWait(r) ==
    /\ sup[r].pc = "ready"
    /\ ~sup[r].cancelled
    /\ ~(RetryPending /\ persistenceRetry.claimID = 0 /\ persistenceRetry.due)
    /\ persistenceRetry' = IF RetryPending THEN persistenceRetry ELSE NoRetry
    /\ sup' = [sup EXCEPT ![r].pc = "waiting",
                          ![r].timed = RetryPending /\ persistenceRetry.claimID = 0]
    /\ UNCHANGED <<state, stateRevision, restoreBlocked, commit, store,
                   persistenceClaimSeq, refreshRun, minted, loginStamp, eventVars>>

\* Claim ids wrap around but skip 0, which means unclaimed.
NextClaim == LET next == (persistenceClaimSeq + 1) % ClaimMod
             IN  IF next = 0 THEN 1 ELSE next

Claimed(r) == [sup[r] EXCEPT !.pc = "claimed", !.revision = stateRevision,
                            !.claimID = NextClaim]

\* Bug: a due Save is claimed although another runner holds the claim.
Bug_PersistenceClaim(r) ==
    /\ sup[r].pc = "ready"
    /\ ~sup[r].cancelled
    /\ RetryPending
    /\ persistenceRetry.due
    /\ persistenceClaimSeq' = NextClaim
    /\ persistenceRetry' = [persistenceRetry EXCEPT !.claimID = NextClaim]
    /\ sup' = [Signalled(sup) EXCEPT ![r] = Claimed(r)]
    /\ UNCHANGED <<state, stateRevision, restoreBlocked, commit, store, refreshRun,
                   minted, loginStamp, eventVars>>

\* nextPersistenceRetryAction where the pending Save is due and unclaimed.
PersistenceClaim(r) ==
    /\ sup[r].pc = "ready"
    /\ ~sup[r].cancelled
    /\ RetryPending
    /\ persistenceRetry.claimID = 0
    /\ persistenceRetry.due
    /\ persistenceClaimSeq' = NextClaim
    /\ persistenceRetry' = [persistenceRetry EXCEPT !.claimID = NextClaim]
    /\ sup' = [Signalled(sup) EXCEPT ![r] = Claimed(r)]
    /\ UNCHANGED <<state, stateRevision, restoreBlocked, commit, store, refreshRun,
                   minted, loginStamp, eventVars>>

\* The retry delay of the pending Save passes.
RetryDue ==
    /\ persistenceRetry.valid
    /\ ~persistenceRetry.due
    /\ persistenceRetry' = [persistenceRetry EXCEPT !.due = TRUE]
    /\ UNCHANGED <<state, stateRevision, restoreBlocked, commit, store,
                   persistenceClaimSeq, refreshRun, sup, minted, loginStamp, eventVars>>

\* The timer of a supervisor that waits for the due time fires.
WaitTimer(r) ==
    /\ sup[r].pc = "waiting"
    /\ sup[r].timed
    /\ persistenceRetry.due
    /\ sup' = [sup EXCEPT ![r] = Ready(r)]
    /\ UNCHANGED <<state, stateRevision, persistenceRetry, restoreBlocked, commit, store,
                   persistenceClaimSeq, refreshRun, minted, loginStamp, eventVars>>

\* retryPersistence finds that its claim no longer matches.
RetryStale(r) ==
    /\ sup[r].pc = "claimed"
    /\ commit = "free"
    /\ ~persistenceRetryMatchesLocked(r)
    /\ sup' = [sup EXCEPT ![r] = Ready(r)]
    /\ UNCHANGED <<state, stateRevision, persistenceRetry, restoreBlocked, commit, store,
                   persistenceClaimSeq, refreshRun, minted, loginStamp, eventVars>>

\* Bug: a cancelled runner gives its claim back without waking the others.
Bug_RetryCancelled(r) ==
    /\ sup[r].pc = "claimed"
    /\ commit = "free"
    /\ persistenceRetryMatchesLocked(r)
    /\ sup[r].cancelled
    /\ persistenceRetry' = [persistenceRetry EXCEPT !.claimID = 0]
    /\ sup' = [sup EXCEPT ![r] = Ready(r)]
    /\ UNCHANGED <<state, stateRevision, restoreBlocked, commit, store,
                   persistenceClaimSeq, refreshRun, minted, loginStamp, eventVars>>

\* retryPersistence gives its claim back because its runner was stopped.
RetryCancelled(r) ==
    /\ sup[r].pc = "claimed"
    /\ commit = "free"
    /\ persistenceRetryMatchesLocked(r)
    /\ sup[r].cancelled
    /\ persistenceRetry' = [persistenceRetry EXCEPT !.claimID = 0]
    /\ sup' = [Signalled(sup) EXCEPT ![r] = Ready(r)]
    /\ UNCHANGED <<state, stateRevision, restoreBlocked, commit, store,
                   persistenceClaimSeq, refreshRun, minted, loginStamp, eventVars>>

RetryBegin(r) ==
    /\ sup[r].pc = "claimed"
    /\ commit = "free"
    /\ persistenceRetryMatchesLocked(r)
    /\ ~sup[r].cancelled
    /\ commit' = "retry"
    /\ sup' = [sup EXCEPT ![r].pc = "saving"]
    /\ UNCHANGED <<state, stateRevision, persistenceRetry, restoreBlocked, store,
                   persistenceClaimSeq, refreshRun, minted, loginStamp, eventVars>>

\* The retried Save returned, with stateCommitMu still held.
RetrySaved(r) ==
    /\ sup[r].pc = "saving"
    /\ store' = Persisted(state)
    /\ IF persistenceRetryMatchesLocked(r)
       THEN /\ persistenceRetry' = NoRetry
            /\ sup' = [Signalled(sup) EXCEPT ![r] = Ready(r)]
       ELSE /\ sup' = [sup EXCEPT ![r] = Ready(r)]
            /\ UNCHANGED persistenceRetry
    /\ commit' = "free"
    /\ UNCHANGED <<state, stateRevision, restoreBlocked, persistenceClaimSeq, refreshRun,
                   minted, loginStamp, eventVars>>

\* Bug: the failure count is not bounded.
Bug_CountFailure(n) == n + 1

\* The failure count saturates instead of wrapping around.
CountFailure(n) == IF n < FailureCap THEN n + 1 ELSE n

RetryFailed(r) ==
    /\ sup[r].pc = "saving"
    /\ store' \in SaveRemains(state)
    /\ IF persistenceRetryMatchesLocked(r)
       THEN /\ persistenceRetry' =
                  [persistenceRetry EXCEPT
                      !.failures = CountFailure(persistenceRetry.failures),
                      !.due = FALSE, !.claimID = 0]
            /\ sup' = [Signalled(sup) EXCEPT ![r] = Ready(r)]
       ELSE /\ sup' = [sup EXCEPT ![r] = Ready(r)]
            /\ UNCHANGED persistenceRetry
    /\ commit' = "free"
    /\ UNCHANGED <<state, stateRevision, restoreBlocked, persistenceClaimSeq, refreshRun,
                   minted, loginStamp, eventVars>>

-----------------------------------------------------------------------------
(* The process ends, in the middle of a Save or Delete if one is running,  *)
(* and a new one is started.  Only a store outside the process survives.   *)

Surviving ==
    CASE ~JSONStore -> {ZeroState}
      [] JSONStore /\ commit = "free" -> {store}
      [] JSONStore /\ commit = "logout" -> DeleteRemains
      [] OTHER -> SaveRemains(state)

Restart ==
    /\ store' \in Surviving
    /\ state' = ZeroState
    /\ stateRevision' = 0
    /\ persistenceRetry' = NoRetry
    /\ restoreBlocked' = FALSE
    /\ commit' = "free"
    /\ persistenceClaimSeq' = 0
    /\ refreshRun' = NoRunner
    /\ sup' = [r \in Runners |-> OffSup]
    /\ pendingEvents' = << >>
    /\ eventDispatching' = FALSE
    /\ drainers' = 0
    /\ emitting' = << >>
    /\ loginStamp' = 0
    /\ UNCHANGED minted

-----------------------------------------------------------------------------

Drain == DrainNext /\ UNCHANGED sessionVars

CommitNext ==
    \/ LoginExchange \/ LoginBegin \/ RefreshGrant \/ RefreshBegin \/ RefusalBegin
    \/ CommitSaved \/ CommitUnsaved \/ LogoutBegin \/ LogoutDone \/ RestoreSession \/ EmitSessionExpired

SupervisorNext(r) ==
    \/ SupervisorExit(r) \/ PersistenceWait(r) \/ PersistenceClaim(r) \/ WaitTimer(r)
    \/ RetryStale(r) \/ RetryCancelled(r) \/ RetryBegin(r)
    \/ RetrySaved(r) \/ RetryFailed(r)

Next ==
    \/ CommitNext
    \/ \E r \in Runners : StartRefreshLoop(r) \/ CancelRunner(r) \/ SupervisorNext(r)
    \/ RetryDue
    \/ Drain
    \/ Restart

Spec == Init /\ [][Next]_vars

\* Time passes, runnable goroutines run, sync.Mutex admits every waiter in the
\* end, store calls return and do not fail for ever.
Fairness ==
    /\ WF_vars(CommitSaved \/ CommitUnsaved)
    /\ WF_vars(LogoutDone)
    /\ WF_vars(RetryDue)
    /\ WF_vars(Drain)
    /\ \A r \in Runners :
          /\ WF_vars(PersistenceWait(r) \/ PersistenceClaim(r) \/ WaitTimer(r))
          /\ SF_vars(RetryStale(r) \/ RetryCancelled(r) \/ RetryBegin(r))
          /\ WF_vars(RetrySaved(r) \/ RetryFailed(r))
          /\ SF_vars(RetrySaved(r))

FairSpec == Spec /\ Fairness

-----------------------------------------------------------------------------
(* Properties.                                                             *)

(* Whenever no commit is under way, the generation in memory is the one in *)
(* the store, or a retry is pending that will save exactly this            *)
(* generation: a failed Save is never forgotten and never pins an older    *)
(* state (persistence.go).  Logout, which must not save, is the exception. *)
DurableOrPending ==
    (commit = "free" /\ stateRevision > 0 /\ ~restoreBlocked) =>
        (store = Persisted(state) \/ RetryPending)

\* r is in retryPersistence for the claim that is recorded now.
OwnsClaim(r) == sup[r].pc \in {"claimed", "saving"} /\ persistenceRetryMatchesLocked(r)

(* A claimed retry has exactly one runner that will release the claim, so  *)
(* no claim is orphaned by StopRefreshLoop or a replaced runner, and no    *)
(* two runners save at once; claim ids may wrap around.                    *)
ClaimHasOwner ==
    RetryPending /\ persistenceRetry.claimID # 0 =>
        \E r \in Runners : OwnsClaim(r) /\ \A q \in Runners : OwnsClaim(q) => q = r

(* While a retry is pending and unclaimed, every waiting supervisor has a  *)
(* timer for it: the close-and-replace broadcast of signalRefreshLoopLocked *)
(* is never missed.                                                        *)
NoLostWakeup ==
    RetryPending /\ persistenceRetry.claimID = 0 =>
        \A r \in Runners : sup[r].pc = "waiting" => sup[r].timed

\* The events the application has yet to hear of, oldest first.
Undelivered == emitting \o pendingEvents

(* The last event on its way to the application describes the session,     *)
(* however long delivery takes: logged-out means that memory is empty,     *)
(* logged-in and token-refreshed that it has a credential, also when       *)
(* RestoreSession, which emits nothing, ran since.                         *)
LastEventTellsTruth ==
    (commit = "free" /\ Undelivered # << >>) =>
        LET last == Undelivered[Len(Undelivered)]
        IN  /\ last = "logged-out" => IsZero(state)
            /\ last \in {"logged-in", "token-refreshed"} => state.access # 0

(* Within one process a credential comes into memory from a refresh of the *)
(* one it replaces, from the exchange of a Login that nothing superseded,  *)
(* or from the store into a Client that holds nothing yet:                 *)
(* RestoreSession brings back neither an older generation, nor a refused   *)
(* credential, nor what Logout failed to delete.                           *)
CredentialsOnlyMoveForward ==
    [][ state'.access \notin {0, state.access} =>
            \/ state'.access > state.access /\ state.refresh # 0
            \/ state'.access = loginStamp
            \/ stateRevision = 0 /\ ~restoreBlocked ]_vars

(* While a runner stays up, a pending Save is eventually resolved: the     *)
(* retry neither stalls on a lost wakeup nor on a claim left behind.       *)
PersistenceRecovers ==
    \A r \in Runners :
        <>[](sup[r].pc # "off" /\ ~sup[r].cancelled) => []<>(~RetryPending)

(* Every event that was enqueued reaches the emitter, or the process ends. *)
EventsDelivered == []<>(pendingEvents = << >>)
=============================================================================
