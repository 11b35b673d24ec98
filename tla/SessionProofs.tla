--------------------------- MODULE SessionProofs ---------------------------
(***************************************************************************)
(* Proofs about Session for every set of runners, every width of the claim *)
(* counter and every bound.                                                *)
(***************************************************************************)
EXTENDS Session, TLAPS

-----------------------------------------------------------------------------
(* The inductive invariant.                                                *)

\* r holds a claim, possibly one that was overtaken by a newer generation.
Active(r) == sup[r].pc \in {"claimed", "saving"}

\* The store only holds what a Load can return, and memory and store hold an
\* ID token beside every refresh token: a refused generation is never empty.
StoreShape ==
    /\ Persisted(store) = store
    /\ state.refresh # 0 => state.id # 0
    /\ store.refresh # 0 => store.id # 0

\* A pending retry is for the current generation, which is not empty.
RetryShape ==
    persistenceRetry.valid =>
        /\ persistenceRetry.revision = stateRevision
        /\ stateRevision > 0
        /\ state # ZeroState
        /\ ~restoreBlocked
        /\ commit \in {"free", "retry"}

\* What holding stateCommitMu for each purpose entails.
CommitShape ==
    /\ commit = "logout" => restoreBlocked
    /\ commit \in {"login", "refresh", "refusal"} =>
          state # ZeroState /\ stateRevision > 0 /\ ~restoreBlocked
    /\ \A r \in Runners : sup[r].pc = "saving" => commit = "retry" /\ OwnsClaim(r)

\* A claim made for the current generation is the recorded one, and one runner
\* has it.  Claims for older generations carry an older revision.
Claims ==
    /\ \A r \in Runners : Active(r) =>
          /\ sup[r].claimID # 0
          /\ sup[r].revision <= stateRevision
          /\ sup[r].revision = stateRevision => OwnsClaim(r)
    /\ \A r, q \in Runners : OwnsClaim(r) /\ OwnsClaim(q) => r = q
    /\ (persistenceRetry.valid /\ persistenceRetry.claimID # 0) =>
          \E r \in Runners : OwnsClaim(r)

Inv ==
    /\ TypeOK
    /\ StoreShape
    /\ RetryShape
    /\ CommitShape
    /\ Claims
    /\ DurableOrPending
    /\ NoLostWakeup

-----------------------------------------------------------------------------
(* Lemmas about the operators of the model.                                *)

(* Waking the waiters keeps the supervisors' records well formed, leaves   *)
(* nobody waiting and nobody timed, and touches no runner with a claim.    *)
LEMMA SignalledFacts ==
    ASSUME sup \in [Runners -> Sups]
    PROVE  /\ Signalled(sup) \in [Runners -> Sups]
           /\ \A r \in Runners :
                 /\ Signalled(sup)[r].pc # "waiting"
                 /\ sup[r].pc # "waiting" => Signalled(sup)[r] = sup[r]
                 /\ Signalled(sup)[r].pc \in {"claimed", "saving"} => Signalled(sup)[r] = sup[r]
  BY DEF Signalled, Sups

(* A claim number is never 0, the mark of an unclaimed retry, whatever the *)
(* width of the counter, and stays within that width.                      *)
LEMMA NextClaimFacts ==
    ASSUME persistenceClaimSeq \in 0..(ClaimMod - 1)
    PROVE  NextClaim \in 1..(ClaimMod - 1)
  BY SessionAssumption DEF NextClaim

(* Storing a state loses at most the monotonic reading, and storing what   *)
(* was loaded loses nothing.                                               *)
LEMMA PersistedFacts ==
    ASSUME NEW s \in TokenStates
    PROVE  /\ Persisted(s) \in TokenStates
           /\ Persisted(Persisted(s)) = Persisted(s)
           /\ Persisted(s).access = s.access
           /\ Persisted(s).refresh = s.refresh
           /\ Persisted(s).id = s.id
           /\ Persisted(s).lastAuthAt = s.lastAuthAt
  BY DEF Persisted, TokenStates

(* The empty state survives a round trip through the store.                *)
LEMMA PersistedZero ==
    /\ Persisted(ZeroState) = ZeroState
    /\ ZeroState.refresh = 0
    /\ ZeroState.lastAuthAt = 0
  BY DEF Persisted, ZeroState

(* The queue stays well typed through enqueueEvent.                        *)
LEMMA EnqueueType ==
    ASSUME EventsTypeOK, NEW e \in EventNames, enqueueEvent(e)
    PROVE  EventsTypeOK'
  BY DEF EventsTypeOK, enqueueEvent

(* An empty queue has its type.                                            *)
LEMMA EmptyQueue == << >> \in Seq(EventNames) /\ 0 \in Nat
  OBVIOUS

(* The queue stays well typed through drainEvents.                         *)
LEMMA DrainType ==
    ASSUME EventsTypeOK, DrainNext
    PROVE  EventsTypeOK'
  <1>1. CASE DrainTake
    <2>1. Head(pendingEvents) \in EventNames /\ Tail(pendingEvents) \in Seq(EventNames)
      BY <1>1 DEF EventsTypeOK, DrainTake
    <2>2. Append(emitting, Head(pendingEvents)) \in Seq(EventNames)
      BY <2>1 DEF EventsTypeOK
    <2> QED
      BY <1>1, <2>1, <2>2 DEF EventsTypeOK, DrainTake
  <1>2. CASE EmitReturns
    <2>1. Head(emitting) \in EventNames /\ Tail(emitting) \in Seq(EventNames)
      BY <1>2 DEF EventsTypeOK, EmitReturns
    <2> QED
      BY <1>2, <2>1 DEF EventsTypeOK, EmitReturns
  <1>3. CASE DrainExit
    <2>1. /\ drainers > 0
          /\ drainers' = drainers - 1
          /\ eventDispatching' = FALSE
          /\ UNCHANGED <<pendingEvents, emitting>>
      BY <1>3, Zenon DEF DrainExit
    <2>2. drainers' \in Nat
      BY <2>1 DEF EventsTypeOK
    <2> QED
      BY <2>1, <2>2, Zenon DEF EventsTypeOK
  <1> QED
    BY <1>1, <1>2, <1>3 DEF DrainNext

-----------------------------------------------------------------------------
(* Type correctness.                                                       *)

(* A commit builds a well-typed state from a grant.                        *)
LEMMA GrantedType ==
    ASSUME NEW serial \in Nat, NEW refresh \in Nat, NEW id \in Nat
    PROVE  Granted(serial, refresh, id) \in TokenStates
  BY DEF Granted, TokenStates

(* The cleared retry is a retry state.                                     *)
LEMMA NoRetryType == NoRetry \in RetryStates
  BY SessionAssumption DEF NoRetry, RetryStates

(* The empty state is a token state.                                       *)
LEMMA ZeroType == ZeroState \in TokenStates
  BY DEF ZeroState, TokenStates

(* A supervisor that is not running has its type.                          *)
LEMMA OffSupType == OffSup \in Sups
  BY DEF OffSup, Sups

(* advanceStateLocked keeps the types of what it assigns.                  *)
LEMMA AdvanceType ==
    ASSUME TypeOK, NEW new \in TokenStates, advanceStateLocked(new)
    PROVE  /\ state' \in TokenStates
           /\ stateRevision' \in Nat
           /\ persistenceRetry' \in RetryStates
           /\ restoreBlocked' \in BOOLEAN
           /\ sup' \in [Runners -> Sups]
  <1>1. stateRevision' \in Nat
    BY DEF TypeOK, advanceStateLocked
  <1> QED
    BY <1>1, SignalledFacts, NoRetryType, Zenon DEF TypeOK, advanceStateLocked

(* What recordPersistenceSaveResult records after a failed Save.           *)
LEMMA RecordedRetry ==
    ASSUME stateRevision \in Nat, recordPersistenceSaveResult
    PROVE  /\ persistenceRetry' \in RetryStates
           /\ persistenceRetry'.valid = TRUE
           /\ persistenceRetry'.revision = stateRevision
           /\ persistenceRetry'.claimID = 0
  <1>1. persistenceRetry' = [valid |-> TRUE, revision |-> stateRevision, failures |-> 1,
                             due |-> FALSE, claimID |-> 0]
    BY DEF recordPersistenceSaveResult, NoRetry
  <1> QED
    BY <1>1, SessionAssumption DEF RetryStates

(* The commit paths keep the types.                                        *)
LEMMA CommitTypeStep ==
    ASSUME TypeOK, CommitNext
    PROVE  TypeOK'
  <1>0. CASE LoginExchange \/ RefreshGrant
    BY <1>0 DEF LoginExchange, RefreshGrant, TypeOK, EventsTypeOK, eventVars
  <1>1. CASE LoginBegin
    <2>1. PICK refresh \in {0, loginStamp} :
             advanceStateLocked(Granted(loginStamp, refresh, loginStamp))
      BY <1>1 DEF LoginBegin
    <2>2. Granted(loginStamp, refresh, loginStamp) \in TokenStates
      BY GrantedType DEF TypeOK
    <2> QED
      BY <1>1, <2>1, <2>2, AdvanceType DEF LoginBegin, TypeOK, EventsTypeOK, eventVars
  <1>2. CASE RefreshBegin
    <2>a. PICK serial \in (state.access + 1)..minted :
             \E refresh \in {state.refresh, serial}, id \in {state.id, serial} :
                advanceStateLocked(Granted(serial, refresh, id))
      BY <1>2 DEF RefreshBegin
    <2>1. PICK refresh \in {state.refresh, serial}, id \in {state.id, serial} :
             advanceStateLocked(Granted(serial, refresh, id))
      BY <2>a
    <2>2. Granted(serial, refresh, id) \in TokenStates
      <3>1. serial \in Nat /\ refresh \in Nat /\ id \in Nat
        BY DEF TypeOK, TokenStates
      <3> QED
        BY <3>1, GrantedType
    <2> QED
      BY <1>2, <2>1, <2>2, AdvanceType DEF RefreshBegin, TypeOK, EventsTypeOK, eventVars
  <1>3. CASE RefusalBegin
    <2>1. RefusedState(state) \in TokenStates
      BY DEF RefusedState, ZeroState, TokenStates, TypeOK
    <2> QED
      BY <1>3, <2>1, AdvanceType DEF RefusalBegin, TypeOK, EventsTypeOK, eventVars
  <1>4. CASE CommitSaved
    <2>1. CommitEvent[commit] \in EventNames
      BY <1>4 DEF CommitSaved, CommitEvent, EventNames
    <2>2. EventsTypeOK'
      BY <1>4, <2>1, EnqueueType DEF CommitSaved, TypeOK
    <2> QED
      BY <1>4, <2>2, PersistedFacts DEF CommitSaved, TypeOK
  <1>5. CASE CommitUnsaved
    <2>1. CommitEvent[commit] \in EventNames
      BY <1>5 DEF CommitUnsaved, CommitEvent, EventNames
    <2>2. EventsTypeOK'
      BY <1>5, <2>1, EnqueueType DEF CommitUnsaved, TypeOK
    <2>3. store' \in TokenStates
      BY <1>5, ZeroType, PersistedFacts DEF CommitUnsaved, SaveRemains, TypeOK
    <2>4. persistenceRetry' \in RetryStates /\ sup' \in [Runners -> Sups]
      BY <1>5, SignalledFacts, RecordedRetry DEF CommitUnsaved, TypeOK, recordPersistenceSaveResult
    <2> QED
      BY <1>5, <2>2, <2>3, <2>4 DEF CommitUnsaved, TypeOK
  <1>6. CASE LogoutBegin
    BY <1>6, SignalledFacts, NoRetryType, ZeroType DEF LogoutBegin, TypeOK, EventsTypeOK, eventVars
  <1>7. CASE LogoutDone
    <2>1. EventsTypeOK'
      BY <1>7, EnqueueType DEF LogoutDone, TypeOK, EventNames
    <2> QED
      BY <1>7, <2>1, ZeroType DEF LogoutDone, DeleteRemains, TypeOK
  <1>8. CASE RestoreSession
    BY <1>8, AdvanceType DEF RestoreSession, setStateLocked, TypeOK, EventsTypeOK, eventVars
  <1>9. CASE EmitSessionExpired
    <2>1. EventsTypeOK'
      BY <1>9, EnqueueType DEF EmitSessionExpired, TypeOK, EventNames
    <2> QED
      BY <1>9, <2>1 DEF EmitSessionExpired, sessionVars, TypeOK
  <1> QED
    BY <1>0, <1>1, <1>2, <1>3, <1>4, <1>5, <1>6, <1>7, <1>8, <1>9 DEF CommitNext

(* A supervisor at the top of its loop has its type.                       *)
LEMMA ReadyType ==
    ASSUME sup \in [Runners -> Sups], NEW r \in Runners
    PROVE  Ready(r) \in Sups
  BY DEF Ready, OffSup, Sups

(* The steps of a persistence supervisor keep the types.                   *)
LEMMA SupervisorTypeStep ==
    ASSUME TypeOK, NEW r \in Runners, SupervisorNext(r)
    PROVE  TypeOK'
  <1> USE DEF TypeOK, EventsTypeOK, eventVars
  <1>1. CASE SupervisorExit(r)
    BY <1>1, OffSupType DEF SupervisorExit
  <1>2. CASE PersistenceWait(r)
    <2>1. PICK timed \in BOOLEAN : timed = (RetryPending /\ persistenceRetry.claimID = 0)
      BY Zenon
    <2>2. sup' = [sup EXCEPT ![r].pc = "waiting", ![r].timed = timed]
      BY <1>2, <2>1, Zenon DEF PersistenceWait
    <2>3. sup' \in [Runners -> Sups]
      BY <2>2 DEF Sups
    <2> QED
      BY <1>2, <2>3, NoRetryType, Zenon DEF PersistenceWait
  <1>3. CASE PersistenceClaim(r)
    <2>1. NextClaim \in Nat /\ NextClaim \in 0..(ClaimMod - 1)
      BY NextClaimFacts, SessionAssumption
    <2>2. sup' \in [Runners -> Sups]
      <3>1. Claimed(r) \in Sups
        BY <2>1 DEF Claimed, Sups
      <3> QED
        BY <1>3, <3>1, SignalledFacts DEF PersistenceClaim
    <2>3. persistenceRetry' \in RetryStates
      BY <1>3, <2>1 DEF PersistenceClaim, RetryStates
    <2>4. persistenceClaimSeq' \in 0..(ClaimMod - 1)
      BY <1>3, <2>1 DEF PersistenceClaim
    <2> QED
      BY <1>3, <2>2, <2>3, <2>4, Zenon DEF PersistenceClaim
  <1>4. CASE WaitTimer(r)
    BY <1>4, ReadyType DEF WaitTimer
  <1>5. CASE RetryStale(r)
    BY <1>5, ReadyType DEF RetryStale
  <1>6. CASE RetryCancelled(r)
    BY <1>6, ReadyType, SignalledFacts DEF RetryCancelled, RetryStates
  <1>7. CASE RetryBegin(r)
    BY <1>7 DEF RetryBegin, Sups
  <1>8. CASE RetrySaved(r)
    BY <1>8, ReadyType, SignalledFacts, NoRetryType, PersistedFacts DEF RetrySaved
  <1>9. CASE RetryFailed(r)
    <2>1. persistenceRetry' \in RetryStates
      <3>1. CASE persistenceRetryMatchesLocked(r)
        <4>1. CountFailure(persistenceRetry.failures) \in 0..FailureCap
          BY SessionAssumption DEF CountFailure, RetryStates
        <4>2. persistenceRetry' =
                [persistenceRetry EXCEPT !.failures = CountFailure(persistenceRetry.failures),
                                         !.due = FALSE, !.claimID = 0]
          BY <1>9, <3>1, Zenon DEF RetryFailed
        <4> QED
          BY <4>1, <4>2 DEF RetryStates
      <3>2. CASE ~persistenceRetryMatchesLocked(r)
        BY <1>9, <3>2 DEF RetryFailed
      <3> QED
        BY <3>1, <3>2
    <2>2. sup' \in [Runners -> Sups]
      BY <1>9, ReadyType, SignalledFacts DEF RetryFailed
    <2>3. store' \in TokenStates
      BY <1>9, ZeroType, PersistedFacts DEF RetryFailed, SaveRemains
    <2> QED
      BY <1>9, <2>1, <2>2, <2>3, Zenon DEF RetryFailed
  <1> QED
    BY <1>1, <1>2, <1>3, <1>4, <1>5, <1>6, <1>7, <1>8, <1>9 DEF SupervisorNext

(* Every step keeps every variable in its type.                            *)
LEMMA TypeStep ==
    ASSUME TypeOK, [Next]_vars
    PROVE  TypeOK'
  <1>1. CASE CommitNext
    BY <1>1, CommitTypeStep
  <1>2. ASSUME NEW r \in Runners, StartRefreshLoop(r)
        PROVE  TypeOK'
    <2>1. sup' \in [Runners -> Sups]
      BY <1>2, OffSupType DEF StartRefreshLoop, TypeOK, Sups, OffSup
    <2> QED
      BY <1>2, <2>1, Zenon DEF StartRefreshLoop, TypeOK, EventsTypeOK, eventVars
  <1>3. ASSUME NEW r \in Runners, CancelRunner(r)
        PROVE  TypeOK'
    BY <1>3 DEF CancelRunner, TypeOK, Sups, EventsTypeOK, eventVars
  <1>4. ASSUME NEW r \in Runners, SupervisorNext(r)
        PROVE  TypeOK'
    BY <1>4, SupervisorTypeStep
  <1>5. CASE RetryDue
    BY <1>5 DEF RetryDue, TypeOK, RetryStates, EventsTypeOK, eventVars
  <1>6. CASE Drain
    BY <1>6, DrainType DEF Drain, sessionVars, TypeOK
  <1>7. CASE Restart
    <2>1. store' \in TokenStates
      BY <1>7, ZeroType, PersistedFacts
      DEF Restart, Surviving, SaveRemains, DeleteRemains, TypeOK
    <2>2. EventsTypeOK'
      BY <1>7, EmptyQueue, Zenon DEF Restart, EventsTypeOK
    <2>3. /\ state' \in TokenStates /\ stateRevision' \in Nat
          /\ persistenceRetry' \in RetryStates
          /\ persistenceClaimSeq' \in 0..(ClaimMod - 1)
          /\ sup' \in [Runners -> Sups]
          /\ minted' \in Nat /\ loginStamp' \in Nat
      BY <1>7, ZeroType, NoRetryType, OffSupType, SessionAssumption DEF Restart, TypeOK
    <2> QED
      BY <1>7, <2>1, <2>2, <2>3, Zenon DEF Restart, TypeOK
  <1>8. CASE UNCHANGED vars
    BY <1>8 DEF vars, sessionVars, eventVars, TypeOK, EventsTypeOK
  <1> QED
    BY <1>1, <1>2, <1>3, <1>4, <1>5, <1>6, <1>7, <1>8 DEF Next

(* A new Client is well typed.                                             *)
LEMMA TypeInit == Init => TypeOK
  <1> SUFFICES ASSUME Init PROVE TypeOK
    OBVIOUS
  <1>1. EventsTypeOK
    BY EmptyQueue, Zenon DEF Init, EventsInit, EventsTypeOK
  <1>2. sup \in [Runners -> Sups] /\ persistenceClaimSeq \in 0..(ClaimMod - 1)
    BY OffSupType, SessionAssumption DEF Init
  <1>3. stateRevision \in Nat /\ minted \in Nat /\ loginStamp \in Nat
    BY DEF Init
  <1> QED
    BY <1>1, <1>2, <1>3, ZeroType, NoRetryType, Zenon DEF Init, TypeOK

(* Every variable keeps its type in every behaviour, for any number of     *)
(* runners and any width of the claim and failure counters.                *)
THEOREM TypeCorrect == Spec => []TypeOK
  BY TypeInit, TypeStep, PTL DEF Spec

-----------------------------------------------------------------------------
(* The inductive step, first for steps of the same kind.                   *)

(* A step that touches only the supervisors and the event queue, takes no  *)
(* claim and gives none up that still matches.                             *)
LEMMA SupervisorOnly ==
    ASSUME Inv, TypeOK',
           UNCHANGED <<state, stateRevision, persistenceRetry, restoreBlocked, commit,
                       store>>,
           \A r \in Runners : sup'[r].pc \in {"claimed", "saving"} \/ OwnsClaim(r) =>
               /\ sup'[r].pc = sup[r].pc
               /\ sup'[r].revision = sup[r].revision
               /\ sup'[r].claimID = sup[r].claimID,
           NoLostWakeup'
    PROVE  Inv'
  <1> USE DEF OwnsClaim, persistenceRetryMatchesLocked, RetryPending
  <1>1. StoreShape' /\ RetryShape' /\ DurableOrPending'
    BY DEF Inv, StoreShape, RetryShape, DurableOrPending
  <1>2. CommitShape'
    BY DEF Inv, CommitShape
  <1>3. Claims'
    BY DEF Inv, Claims, Active
  <1> QED
    BY <1>1, <1>2, <1>3 DEF Inv

(* The steps of Begin: a new generation, which is not empty, is installed  *)
(* with no commit under way.                                               *)
LEMMA AdvanceInv ==
    ASSUME Inv, TypeOK', NEW new \in TokenStates, advanceStateLocked(new),
           commit = "free", commit' # "logout", commit' # "retry",
           UNCHANGED store,
           new # ZeroState,
           new.refresh # 0 => new.id # 0,
           commit' = "free" => store = Persisted(new)
    PROVE  Inv'
  <1>1. /\ state' = new /\ stateRevision' = stateRevision + 1
        /\ persistenceRetry' = NoRetry /\ persistenceRetry'.valid = FALSE
        /\ sup' = Signalled(sup) /\ ~restoreBlocked'
    BY DEF advanceStateLocked, NoRetry
  <1>2. \A r \in Runners : /\ sup'[r].pc # "saving"
                           /\ sup'[r].pc = "claimed" => sup'[r] = sup[r]
    BY <1>1, SignalledFacts DEF Inv, TypeOK, CommitShape
  <1>3. StoreShape'
    BY <1>1 DEF Inv, TypeOK, TokenStates, StoreShape
  <1>4. RetryShape' /\ NoLostWakeup'
    BY <1>1 DEF RetryShape, NoLostWakeup, RetryPending
  <1>5. CommitShape'
    BY <1>1, <1>2 DEF CommitShape, Inv, TypeOK
  <1>6. Claims'
    <2>1. \A r \in Runners : ~OwnsClaim(r)'
      BY <1>1 DEF OwnsClaim, persistenceRetryMatchesLocked, RetryPending
    <2>2. \A r \in Runners : Active(r)' =>
             /\ sup'[r].claimID # 0
             /\ sup'[r].revision < stateRevision'
      BY <1>1, <1>2 DEF Inv, Claims, Active, TypeOK, Sups
    <2> QED
      BY <1>1, <2>1, <2>2 DEF Claims, Active, TypeOK, Sups
  <1>7. DurableOrPending'
    BY <1>1 DEF DurableOrPending
  <1> QED
    BY <1>3, <1>4, <1>5, <1>6, <1>7 DEF Inv

(* A commit's Save or Logout's Delete answered: memory keeps its state.    *)
LEMMA CommitDoneInv ==
    ASSUME Inv, TypeOK', CommitSaved \/ CommitUnsaved \/ LogoutDone
    PROVE  Inv'
  <1> USE DEF OwnsClaim, persistenceRetryMatchesLocked, RetryPending
  <1>0. commit # "free" /\ commit # "retry" /\ commit' = "free" /\ ~persistenceRetry.valid
    BY DEF CommitSaved, CommitUnsaved, LogoutDone, CommitEvent, Inv, RetryShape
  <1>1. \A r \in Runners : sup[r].pc # "saving"
    BY <1>0 DEF Inv, CommitShape
  <1>2. \A r \in Runners : sup[r].pc = "claimed" => sup[r].revision < stateRevision
    <2> SUFFICES ASSUME NEW r \in Runners, sup[r].pc = "claimed"
                 PROVE  sup[r].revision < stateRevision
      OBVIOUS
    <2>1. sup[r].revision \in Nat /\ stateRevision \in Nat
      BY DEF Inv, TypeOK, Sups
    <2>2. sup[r].revision <= stateRevision /\ sup[r].revision # stateRevision
      BY <1>0 DEF Inv, Claims, Active
    <2> QED
      BY <2>1, <2>2
  <1>3. CASE CommitSaved \/ LogoutDone
    <2>1. UNCHANGED <<state, stateRevision, persistenceRetry, restoreBlocked, sup>>
      BY <1>3 DEF CommitSaved, LogoutDone
    <2>2. StoreShape'
      <3>1. store' \in {store, Persisted(state), ZeroState}
        BY <1>3 DEF CommitSaved, LogoutDone, DeleteRemains
      <3> QED
        BY <2>1, <3>1, PersistedFacts, PersistedZero
        DEF Inv, TypeOK, TokenStates, StoreShape
    <2>3. DurableOrPending'
      <3>1. CASE CommitSaved
        BY <2>1, <3>1 DEF CommitSaved, DurableOrPending
      <3>2. CASE LogoutDone
        BY <2>1, <3>2 DEF LogoutDone, DurableOrPending, Inv, CommitShape
      <3> QED
        BY <1>3, <3>1, <3>2
    <2>4. RetryShape' /\ NoLostWakeup' /\ CommitShape'
      BY <1>0, <1>1, <2>1 DEF RetryShape, NoLostWakeup, CommitShape
    <2>5. Claims'
      BY <2>1 DEF Inv, Claims, Active
    <2> QED
      BY <2>2, <2>3, <2>4, <2>5 DEF Inv
  <1>4. CASE CommitUnsaved
    <2>1. /\ UNCHANGED <<state, stateRevision, restoreBlocked>>
          /\ store' \in {store, Persisted(state), ZeroState}
          /\ sup' = Signalled(sup)
      BY <1>4 DEF CommitUnsaved, SaveRemains, recordPersistenceSaveResult
    <2>2. /\ persistenceRetry'.valid = TRUE
          /\ persistenceRetry'.revision = stateRevision
          /\ persistenceRetry'.claimID = 0
      BY <1>4, RecordedRetry DEF CommitUnsaved, Inv, TypeOK
    <2>3. \A r \in Runners : /\ sup'[r].pc \notin {"saving", "waiting"}
                             /\ sup'[r].pc = "claimed" => sup'[r] = sup[r]
      BY <1>1, <2>1, SignalledFacts DEF Inv, TypeOK
    <2>4. StoreShape'
      BY <2>1, PersistedFacts, PersistedZero DEF Inv, TypeOK, TokenStates, StoreShape
    <2>5. RetryShape'
      <3>1. commit \in {"login", "refresh", "refusal"} /\ state # ZeroState
        BY <1>4 DEF CommitUnsaved, CommitEvent, Inv, CommitShape
      <3>2. stateRevision > 0 /\ ~restoreBlocked
        BY <3>1 DEF Inv, CommitShape
      <3> QED
        BY <1>0, <2>1, <2>2, <3>1, <3>2 DEF RetryShape
    <2>6. CommitShape' /\ NoLostWakeup' /\ DurableOrPending'
      BY <1>0, <2>1, <2>2, <2>3 DEF CommitShape, NoLostWakeup, DurableOrPending
    <2>7. Claims'
      BY <1>2, <2>1, <2>2, <2>3 DEF Inv, Claims, Active, TypeOK, Sups
    <2> QED
      BY <2>4, <2>5, <2>6, <2>7 DEF Inv
  <1> QED
    BY <1>3, <1>4

(* The commit paths keep the invariant.                                    *)
LEMMA CommitInv ==
    ASSUME Inv, TypeOK', CommitNext
    PROVE  Inv'
  <1>0. CASE LoginExchange \/ RefreshGrant
    BY <1>0, SupervisorOnly DEF LoginExchange, RefreshGrant, Inv, NoLostWakeup, RetryPending
  <1>1. CASE LoginBegin
    <2>1. PICK refresh \in {0, loginStamp} :
             advanceStateLocked(Granted(loginStamp, refresh, loginStamp))
      BY <1>1 DEF LoginBegin
    <2> DEFINE new == Granted(loginStamp, refresh, loginStamp)
    <2>2. new \in TokenStates /\ new # ZeroState /\ new.id # 0
      BY <1>1, GrantedType DEF LoginBegin, Inv, TypeOK, Granted, ZeroState
    <2>3. commit = "free" /\ commit' = "login" /\ UNCHANGED store
      BY <1>1 DEF LoginBegin, CommitFree
    <2> HIDE DEF new
    <2> QED
      BY <2>1, <2>2, <2>3, AdvanceInv DEF new
  <1>2. CASE RefreshBegin
    <2>a. PICK serial \in (state.access + 1)..minted :
             \E refresh \in {state.refresh, serial}, id \in {state.id, serial} :
                advanceStateLocked(Granted(serial, refresh, id))
      BY <1>2 DEF RefreshBegin
    <2>1. PICK refresh \in {state.refresh, serial}, id \in {state.id, serial} :
             advanceStateLocked(Granted(serial, refresh, id))
      BY <2>a
    <2> DEFINE new == Granted(serial, refresh, id)
    <2>2. serial \in Nat /\ refresh \in Nat /\ id \in Nat /\ serial # 0 /\ id # 0
      BY <1>2 DEF RefreshBegin, Inv, TypeOK, TokenStates, StoreShape
    <2>3. new \in TokenStates /\ new # ZeroState /\ new.id # 0
      BY <2>2, GrantedType DEF Granted, ZeroState
    <2>4. commit = "free" /\ commit' = "refresh" /\ UNCHANGED store
      BY <1>2 DEF RefreshBegin, CommitFree
    <2> HIDE DEF new
    <2> QED
      BY <2>1, <2>3, <2>4, AdvanceInv DEF new
  <1>3. CASE RefusalBegin
    <2> DEFINE new == RefusedState(state)
    <2>1. new \in TokenStates /\ new # ZeroState /\ new.refresh = 0
      BY <1>3 DEF RefusalBegin, RefusedState, ZeroState, Inv, TypeOK, TokenStates, StoreShape
    <2>2. commit = "free" /\ commit' = "refusal" /\ UNCHANGED store
      BY <1>3 DEF RefusalBegin, CommitFree
    <2>3. advanceStateLocked(new)
      BY <1>3 DEF RefusalBegin
    <2> HIDE DEF new
    <2> QED
      BY <2>1, <2>2, <2>3, AdvanceInv
  <1>4. CASE CommitSaved \/ CommitUnsaved \/ LogoutDone
    BY <1>4, CommitDoneInv
  <1>5. CASE LogoutBegin
    <2>1. /\ commit = "free" /\ commit' = "logout" /\ restoreBlocked' = TRUE
          /\ state' = ZeroState /\ UNCHANGED <<store>>
          /\ persistenceRetry' = NoRetry /\ persistenceRetry'.valid = FALSE
          /\ sup' = Signalled(sup)
      BY <1>5 DEF LogoutBegin, CommitFree, NoRetry
    <2>2. \A r \in Runners : /\ sup'[r].pc # "saving"
                             /\ sup'[r].pc = "claimed" => sup'[r] = sup[r]
      BY <2>1, SignalledFacts DEF Inv, TypeOK, CommitShape
    <2>3. StoreShape'
      BY <2>1 DEF Inv, TypeOK, StoreShape, ZeroState
    <2>4. RetryShape' /\ NoLostWakeup' /\ CommitShape' /\ DurableOrPending'
      BY <2>1, <2>2 DEF RetryShape, NoLostWakeup, RetryPending, CommitShape, DurableOrPending
    <2>5. Claims'
      <3>1. \A r \in Runners : ~OwnsClaim(r)'
        BY <2>1 DEF OwnsClaim, persistenceRetryMatchesLocked, RetryPending
      <3>2. \A r \in Runners : Active(r)' =>
               /\ sup'[r].claimID # 0
               /\ sup'[r].revision < stateRevision'
        <4> SUFFICES ASSUME NEW r \in Runners, Active(r)'
                     PROVE  /\ sup'[r].claimID # 0
                            /\ sup'[r].revision < stateRevision'
          OBVIOUS
        <4>1. Active(r) /\ sup'[r] = sup[r]
          BY <2>2 DEF Active
        <4>2. state = ZeroState => ~OwnsClaim(r)
          BY DEF Inv, RetryShape, OwnsClaim, persistenceRetryMatchesLocked, RetryPending
        <4>3. /\ sup[r].revision \in Nat /\ stateRevision \in Nat
              /\ sup[r].claimID # 0 /\ sup[r].revision <= stateRevision
              /\ state = ZeroState => sup[r].revision # stateRevision
          BY <4>1, <4>2 DEF Inv, Claims, TypeOK, Sups
        <4> QED
          BY <1>5, <4>1, <4>3 DEF LogoutBegin
      <3> QED
        BY <2>1, <3>1, <3>2 DEF Claims, Active, TypeOK, Sups
    <2> QED
      BY <2>3, <2>4, <2>5 DEF Inv
  <1>6. CASE RestoreSession
    <2>1. CASE state = store
      BY <1>6, <2>1, SupervisorOnly
      DEF RestoreSession, setStateLocked, Inv, NoLostWakeup, RetryPending
    <2>2. CASE state # store
      <3>1. /\ commit = "free" /\ commit' = "free" /\ UNCHANGED store
            /\ advanceStateLocked(store)
            /\ store \in TokenStates
        BY <1>6, <2>2 DEF RestoreSession, setStateLocked, Inv, TypeOK
      <3>2. store # ZeroState
        BY <1>6 DEF RestoreSession, IsZero, ZeroState
      <3>3. store = Persisted(store) /\ (store.refresh # 0 => store.id # 0)
        BY DEF Inv, StoreShape
      <3> QED
        BY <3>1, <3>2, <3>3, AdvanceInv
    <2> QED
      BY <2>1, <2>2
  <1>7. CASE EmitSessionExpired
    BY <1>7, SupervisorOnly DEF EmitSessionExpired, sessionVars, Inv, NoLostWakeup, RetryPending
  <1> QED
    BY <1>0, <1>1, <1>2, <1>3, <1>4, <1>5, <1>6, <1>7 DEF CommitNext

(* The steps of a persistence supervisor keep the invariant.               *)
LEMMA SupervisorInv ==
    ASSUME Inv, TypeOK', NEW r \in Runners, SupervisorNext(r)
    PROVE  Inv'
  <1> USE DEF OwnsClaim, persistenceRetryMatchesLocked, RetryPending
  <1>a. sup \in [Runners -> Sups] /\ stateRevision \in Nat
    BY DEF Inv, TypeOK
  <1>1. CASE SupervisorExit(r)
    BY <1>1, <1>a, SupervisorOnly DEF SupervisorExit, Inv, NoLostWakeup, OffSup
  <1>2. CASE PersistenceWait(r)
    <2>1. \/ persistenceRetry' = persistenceRetry
          \/ ~persistenceRetry.valid /\ persistenceRetry' = NoRetry
      <3>1. CASE RetryPending
        BY <1>2, <3>1 DEF PersistenceWait
      <3>2. CASE ~RetryPending
        BY <1>2, <3>2 DEF PersistenceWait, Inv, RetryShape
      <3> QED
        BY <3>1, <3>2
    <2>2. \A q \in Runners :
             /\ q # r => sup'[q] = sup[q]
             /\ sup'[r].pc = "waiting"
             /\ sup'[r].timed = (RetryPending /\ persistenceRetry.claimID = 0)
      BY <1>2, <1>a DEF PersistenceWait, Sups
    <2>3. ~(sup[r].pc \in {"claimed", "saving"})
      BY <1>2 DEF PersistenceWait
    <2>4. UNCHANGED <<state, stateRevision, restoreBlocked, commit, store>>
      BY <1>2 DEF PersistenceWait
    <2>5. ~NoRetry.valid
      BY DEF NoRetry
    <2>6. StoreShape' /\ RetryShape' /\ DurableOrPending'
      BY <2>1, <2>4, <2>5 DEF Inv, StoreShape, RetryShape, DurableOrPending
    <2>7. CommitShape' /\ Claims'
      BY <2>1, <2>2, <2>3, <2>4, <2>5 DEF Inv, CommitShape, Claims, Active
    <2>8. NoLostWakeup'
      BY <2>1, <2>2, <2>4, <2>5 DEF Inv, NoLostWakeup
    <2> QED
      BY <2>6, <2>7, <2>8 DEF Inv
  <1>3. CASE PersistenceClaim(r)
    <2>1. /\ UNCHANGED <<state, stateRevision, restoreBlocked, commit, store>>
          /\ persistenceRetry'.valid = persistenceRetry.valid
          /\ persistenceRetry'.revision = persistenceRetry.revision
          /\ persistenceRetry'.claimID = NextClaim
      BY <1>3 DEF PersistenceClaim, Inv, TypeOK, RetryStates
    <2>2. NextClaim # 0
      BY NextClaimFacts, SessionAssumption DEF Inv, TypeOK
    <2>3. /\ sup'[r].pc = "claimed" /\ sup'[r].revision = stateRevision
          /\ sup'[r].claimID = NextClaim
          /\ \A q \in Runners : q # r => sup'[q] = Signalled(sup)[q]
      BY <1>3, <1>a, SignalledFacts DEF PersistenceClaim, Claimed, Sups
    <2>4. \A q \in Runners : q # r /\ Active(q)' => Active(q) /\ sup'[q] = sup[q]
      BY <1>a, <2>3, SignalledFacts DEF Active
    <2>5. persistenceRetry.valid /\ persistenceRetry.claimID = 0
          /\ persistenceRetry.revision = stateRevision
      BY <1>3 DEF PersistenceClaim
    <2>6. \A q \in Runners : Active(q) => sup[q].pc # "saving" /\ sup[q].revision # stateRevision
      BY <2>5 DEF Inv, Claims, CommitShape, Active
    <2>7. StoreShape' /\ RetryShape' /\ DurableOrPending'
      BY <2>1 DEF Inv, StoreShape, RetryShape, DurableOrPending
    <2>8. CommitShape' /\ NoLostWakeup'
      BY <2>1, <2>2, <2>3, <2>4, <2>6 DEF Inv, CommitShape, NoLostWakeup, Active
    <2>9. Claims'
      BY <1>a, <2>1, <2>2, <2>3, <2>4, <2>5, <2>6 DEF Inv, Claims, Active
    <2> QED
      BY <2>7, <2>8, <2>9 DEF Inv
  <1>4. CASE WaitTimer(r)
    BY <1>4, <1>a, SupervisorOnly DEF WaitTimer, Ready, OffSup, Inv, NoLostWakeup
  <1>5. CASE RetryStale(r)
    BY <1>5, <1>a, SupervisorOnly DEF RetryStale, Ready, OffSup, Inv, NoLostWakeup
  <1>6. CASE RetryCancelled(r)
    <2>1. /\ UNCHANGED <<state, stateRevision, restoreBlocked, commit, store>>
          /\ persistenceRetry'.valid = persistenceRetry.valid
          /\ persistenceRetry'.revision = persistenceRetry.revision
          /\ persistenceRetry'.claimID = 0
          /\ commit = "free" /\ OwnsClaim(r)
      BY <1>6 DEF RetryCancelled, Inv, TypeOK, RetryStates
    <2>2. /\ sup'[r].pc = "ready"
          /\ \A q \in Runners : q # r => sup'[q] = Signalled(sup)[q]
      BY <1>6, <1>a, SignalledFacts DEF RetryCancelled, Ready, OffSup
    <2>3. \A q \in Runners : /\ sup'[q].pc # "waiting"
                             /\ Active(q)' => q # r /\ Active(q) /\ sup'[q] = sup[q]
      BY <1>a, <2>2, SignalledFacts DEF Active
    <2>4. StoreShape' /\ RetryShape' /\ DurableOrPending'
      BY <2>1 DEF Inv, StoreShape, RetryShape, DurableOrPending
    <2>5. CommitShape' /\ NoLostWakeup'
      BY <2>1, <2>3 DEF Inv, CommitShape, NoLostWakeup, Active
    <2>6. Claims'
      BY <2>1, <2>3 DEF Inv, Claims, Active
    <2> QED
      BY <2>4, <2>5, <2>6 DEF Inv
  <1>7. CASE RetryBegin(r)
    <2>1. /\ UNCHANGED <<state, stateRevision, persistenceRetry, restoreBlocked, store>>
          /\ commit = "free" /\ commit' = "retry" /\ OwnsClaim(r)
      BY <1>7 DEF RetryBegin
    <2>2. /\ sup'[r].pc = "saving" /\ sup'[r].revision = sup[r].revision
          /\ sup'[r].claimID = sup[r].claimID
          /\ \A q \in Runners : q # r => sup'[q] = sup[q] /\ sup[q].pc # "saving"
      BY <1>7, <1>a DEF RetryBegin, Sups, Inv, CommitShape
    <2>3. StoreShape' /\ RetryShape' /\ DurableOrPending'
      BY <2>1 DEF Inv, StoreShape, RetryShape, DurableOrPending
    <2>4. CommitShape' /\ NoLostWakeup'
      BY <2>1, <2>2 DEF Inv, CommitShape, NoLostWakeup
    <2>5. Claims'
      BY <2>1, <2>2 DEF Inv, Claims, Active
    <2> QED
      BY <2>3, <2>4, <2>5 DEF Inv
  <1>8. CASE RetrySaved(r) \/ RetryFailed(r)
    <2>1. OwnsClaim(r) /\ commit = "retry"
      BY <1>8 DEF RetrySaved, RetryFailed, Inv, CommitShape
    <2>2. \A q \in Runners : q # r => ~OwnsClaim(q) /\ sup[q].pc # "saving"
      BY <2>1 DEF Inv, Claims, CommitShape
    <2>3. /\ UNCHANGED <<state, stateRevision, restoreBlocked>>
          /\ commit' = "free"
          /\ store' \in {store, Persisted(state), ZeroState}
          /\ sup' = [Signalled(sup) EXCEPT ![r] = Ready(r)]
      BY <1>8, <2>1 DEF RetrySaved, RetryFailed, SaveRemains
    <2>4. \/ ~persistenceRetry'.valid /\ store' = Persisted(state)
          \/ /\ persistenceRetry'.valid
             /\ persistenceRetry'.revision = persistenceRetry.revision
             /\ persistenceRetry'.claimID = 0
      <3>1. CASE RetrySaved(r)
        BY <2>1, <3>1 DEF RetrySaved, NoRetry
      <3>2. CASE RetryFailed(r)
        BY <2>1, <3>2 DEF RetryFailed, Inv, TypeOK, RetryStates
      <3> QED
        BY <1>8, <3>1, <3>2
    <2>5. /\ sup'[r].pc = "ready"
          /\ \A q \in Runners : q # r => sup'[q] = Signalled(sup)[q]
      BY <1>a, <2>3, SignalledFacts DEF Ready, OffSup
    <2>6. \A q \in Runners : /\ sup'[q].pc # "waiting"
                             /\ Active(q)' => q # r /\ Active(q) /\ sup'[q] = sup[q]
      BY <1>a, <2>5, SignalledFacts DEF Active
    <2>7. StoreShape'
      BY <2>3, PersistedFacts, PersistedZero DEF Inv, TypeOK, TokenStates, StoreShape
    <2>8. RetryShape' /\ DurableOrPending'
      BY <2>1, <2>3, <2>4 DEF Inv, RetryShape, DurableOrPending
    <2>9. CommitShape' /\ NoLostWakeup'
      BY <2>2, <2>3, <2>6 DEF Inv, CommitShape, NoLostWakeup, Active
    <2>10. Claims'
      BY <2>2, <2>3, <2>4, <2>6 DEF Inv, Claims, Active
    <2> QED
      BY <2>7, <2>8, <2>9, <2>10 DEF Inv
  <1> QED
    BY <1>1, <1>2, <1>3, <1>4, <1>5, <1>6, <1>7, <1>8 DEF SupervisorNext

(* Every step keeps the invariant.                                         *)
LEMMA InvStep ==
    ASSUME Inv, [Next]_vars
    PROVE  Inv'
  <1>0. TypeOK'
    BY TypeStep DEF Inv
  <1>1. CASE CommitNext
    BY <1>0, <1>1, CommitInv
  <1>2. ASSUME NEW r \in Runners, StartRefreshLoop(r)
        PROVE  Inv'
    <2>1. /\ UNCHANGED <<state, stateRevision, persistenceRetry, restoreBlocked, commit,
                         store>>
          /\ sup[r].pc = "off" /\ sup'[r].pc = "ready"
      BY <1>2 DEF StartRefreshLoop, OffSup
    <2>2. \A q \in Runners : q # r => /\ sup'[q].pc = sup[q].pc
                                      /\ sup'[q].revision = sup[q].revision
                                      /\ sup'[q].claimID = sup[q].claimID
                                      /\ sup'[q].timed = sup[q].timed
      BY <1>2 DEF StartRefreshLoop, Inv, TypeOK, Sups
    <2>3. NoLostWakeup'
      BY <2>1, <2>2 DEF Inv, NoLostWakeup, RetryPending
    <2> QED
      BY <1>0, <2>1, <2>2, <2>3, SupervisorOnly DEF OwnsClaim
  <1>3. ASSUME NEW r \in Runners, CancelRunner(r)
        PROVE  Inv'
    <2>1. \A q \in Runners : /\ sup'[q].pc = sup[q].pc
                             /\ sup'[q].revision = sup[q].revision
                             /\ sup'[q].claimID = sup[q].claimID
                             /\ sup'[q].timed = sup[q].timed
      BY <1>3 DEF CancelRunner, Inv, TypeOK, Sups
    <2>2. NoLostWakeup'
      BY <1>3, <2>1 DEF CancelRunner, Inv, NoLostWakeup, RetryPending
    <2> QED
      BY <1>0, <1>3, <2>1, <2>2, SupervisorOnly DEF CancelRunner
  <1>4. ASSUME NEW r \in Runners, SupervisorNext(r)
        PROVE  Inv'
    BY <1>0, <1>4, SupervisorInv
  <1>5. CASE RetryDue
    <2>1. /\ UNCHANGED <<state, stateRevision, restoreBlocked, commit, store, sup>>
          /\ persistenceRetry'.valid = persistenceRetry.valid
          /\ persistenceRetry'.revision = persistenceRetry.revision
          /\ persistenceRetry'.claimID = persistenceRetry.claimID
      BY <1>5 DEF RetryDue, Inv, TypeOK, RetryStates
    <2> QED
      BY <1>0, <2>1
      DEF Inv, StoreShape, RetryShape, CommitShape, Claims, Active, OwnsClaim,
          persistenceRetryMatchesLocked, RetryPending, DurableOrPending, NoLostWakeup
  <1>6. CASE Drain
    BY <1>0, <1>6, SupervisorOnly DEF Drain, sessionVars, Inv, NoLostWakeup, RetryPending
  <1>7. CASE Restart
    <2>1. /\ state' = ZeroState /\ stateRevision' = 0 /\ ~persistenceRetry'.valid
          /\ commit' = "free"
          /\ \A r \in Runners : sup'[r].pc = "off"
      BY <1>7 DEF Restart, NoRetry, OffSup
    <2>2. store' \in {store, Persisted(state), ZeroState}
      BY <1>7 DEF Restart, Surviving, SaveRemains, DeleteRemains
    <2>3. StoreShape'
      BY <2>1, <2>2, PersistedFacts, PersistedZero
      DEF Inv, TypeOK, TokenStates, StoreShape
    <2>4. /\ RetryShape' /\ CommitShape' /\ Claims' /\ DurableOrPending' /\ NoLostWakeup'
      BY <2>1
      DEF RetryShape, CommitShape, Claims, Active, OwnsClaim, DurableOrPending, NoLostWakeup,
          RetryPending
    <2> QED
      BY <1>0, <2>3, <2>4 DEF Inv
  <1>8. CASE UNCHANGED vars
    BY <1>0, <1>8, SupervisorOnly DEF vars, sessionVars, Inv, NoLostWakeup, RetryPending
  <1> QED
    BY <1>1, <1>2, <1>3, <1>4, <1>5, <1>6, <1>7, <1>8 DEF Next

(* A new Client satisfies the invariant.                                   *)
LEMMA InvInit == Init => Inv
  <1> SUFFICES ASSUME Init PROVE Inv
    OBVIOUS
  <1>1. TypeOK
    BY TypeInit
  <1>2. /\ state = ZeroState /\ store = ZeroState /\ stateRevision = 0
        /\ ~persistenceRetry.valid /\ commit = "free"
        /\ \A r \in Runners : sup[r].pc = "off"
    BY DEF Init, NoRetry, OffSup
  <1>3. StoreShape
    BY <1>2, PersistedZero DEF StoreShape
  <1> QED
    BY <1>1, <1>2, <1>3
    DEF Inv, RetryShape, CommitShape, Claims, Active, OwnsClaim, DurableOrPending,
        NoLostWakeup, RetryPending

(* The inductive invariant holds in every reachable state.                 *)
LEMMA Invariant == Spec => []Inv
  BY InvInit, InvStep, PTL DEF Spec

-----------------------------------------------------------------------------
(* What the invariant gives.                                               *)

(* No Save is lost: with no commit under way the store holds the current   *)
(* generation or a retry for exactly this generation is pending.           *)
THEOREM NothingLost == Spec => []DurableOrPending
  BY Invariant, PTL DEF Inv

(* No supervisor sleeps through a retry it would have to make.             *)
THEOREM WakeupsKept == Spec => []NoLostWakeup
  BY Invariant, PTL DEF Inv

(* A claimed retry has one owner and only one, whatever the width of the   *)
(* claim counter: runners that are stopped or replaced orphan no claim.    *)
THEOREM OneOwner == Spec => []ClaimHasOwner
  <1>1. Inv => ClaimHasOwner
    BY DEF Inv, Claims, RetryShape, ClaimHasOwner, RetryPending
  <1> QED
    BY <1>1, Invariant, PTL

(* Credentials enter memory only by a grant or by the first restore of a   *)
(* process; RestoreSession never rolls memory back.                        *)
THEOREM MovesForward == Spec => CredentialsOnlyMoveForward
  <1> DEFINE Forward ==
        state'.access \notin {0, state.access} =>
            \/ state'.access > state.access /\ state.refresh # 0
            \/ state'.access = loginStamp
            \/ stateRevision = 0 /\ ~restoreBlocked
  <1>1. ASSUME Inv, [Next]_vars
        PROVE  [Forward]_vars
    <2> SUFFICES ASSUME Next, state'.access \notin {0, state.access},
                        ~(stateRevision = 0 /\ ~restoreBlocked)
                 PROVE  \/ state'.access > state.access /\ state.refresh # 0
                        \/ state'.access = loginStamp
      BY <1>1
    <2>1. minted \in Nat /\ state \in TokenStates
      BY <1>1 DEF Inv, TypeOK
    <2>2. state' # state
      OBVIOUS
    <2>3. CASE LoginBegin \/ RefreshBegin
      BY <2>1, <2>3 DEF LoginBegin, RefreshBegin, advanceStateLocked, Granted, TokenStates
    <2>4. CASE RefusalBegin \/ LogoutBegin \/ Restart
      BY <2>4
      DEF RefusalBegin, LogoutBegin, Restart, advanceStateLocked, RefusedState, ZeroState
    <2>5. CASE RestoreSession
      <3>1. state' = store /\ ~restoreBlocked /\ ~RetryPending /\ commit = "free"
        BY <2>2, <2>5 DEF RestoreSession, setStateLocked, advanceStateLocked
      <3>2. stateRevision > 0
        BY <1>1, <3>1 DEF Inv, TypeOK
      <3>3. store = Persisted(state)
        BY <1>1, <3>1, <3>2 DEF Inv, DurableOrPending
      <3> QED
        BY <2>1, <3>1, <3>3, PersistedFacts
    <2>6. CASE \/ LoginExchange \/ RefreshGrant \/ CommitSaved \/ CommitUnsaved \/ LogoutDone
               \/ EmitSessionExpired \/ RetryDue \/ Drain
      BY <2>2, <2>6
      DEF LoginExchange, RefreshGrant, CommitSaved, CommitUnsaved, LogoutDone,
          EmitSessionExpired, RetryDue, Drain, sessionVars
    <2>7. ASSUME NEW r \in Runners, StartRefreshLoop(r) \/ CancelRunner(r) \/ SupervisorNext(r)
          PROVE  FALSE
      BY <2>2, <2>7
      DEF StartRefreshLoop, CancelRunner, SupervisorNext, SupervisorExit, PersistenceWait,
          PersistenceClaim, WaitTimer, RetryStale, RetryCancelled, RetryBegin, RetrySaved,
          RetryFailed
    <2> QED
      BY <2>3, <2>4, <2>5, <2>6, <2>7 DEF Next, CommitNext
  <1> QED
    BY <1>1, Invariant, PTL DEF Spec, CredentialsOnlyMoveForward

-----------------------------------------------------------------------------
(* The event queue.  That the events on their way describe the session     *)
(* needs a second invariant, over the first one.                           *)

Quiet == pendingEvents = << >> /\ emitting = << >>

\* The event the application hears last, unless the queue is quiet.
LatestEvent ==
    IF pendingEvents # << >> THEN pendingEvents[Len(pendingEvents)] ELSE emitting[Len(emitting)]

\* Event e describes a session with state s.
Tells(e, s) ==
    /\ e = "logged-out" => IsZero(s)
    /\ e \in {"logged-in", "token-refreshed"} => s.access # 0

\* A commit under way has the state that its event will describe, and before
\* the first commit there is nothing to describe unless RestoreSession is
\* barred: the only step that changes memory without an event cannot make the
\* latest one false.
Announced ==
    /\ commit \in {"login", "refresh"} => state.access # 0
    /\ commit = "logout" => IsZero(state)
    /\ stateRevision = 0 => state = ZeroState /\ (restoreBlocked \/ Quiet)
    /\ commit \in {"free", "retry"} /\ ~Quiet => Tells(LatestEvent, state)

TruthInv == SerializedEmit /\ Announced

(* The queue before any commit is serialized and quiet.                    *)
LEMMA QuietQueue ==
    ASSUME pendingEvents = << >>, emitting = << >>, drainers = 0, eventDispatching = FALSE
    PROVE  SerializedEmit /\ Quiet
  BY DEF SerializedEmit, Quiet

(* An event that is enqueued is the latest, and has one drainer.           *)
LEMMA EnqueueLatest ==
    ASSUME EventsTypeOK, SerializedEmit, NEW e \in EventNames, enqueueEvent(e)
    PROVE  SerializedEmit' /\ ~Quiet' /\ LatestEvent' = e
  <1>1. /\ pendingEvents' \in Seq(EventNames)
        /\ Len(pendingEvents') = Len(pendingEvents) + 1
        /\ pendingEvents'[Len(pendingEvents) + 1] = e
        /\ Len(pendingEvents) \in Nat
    BY DEF EventsTypeOK, enqueueEvent
  <1>2. pendingEvents' # << >>
    BY <1>1
  <1>3. drainers' + Len(emitting) = 1
    <2>1. drainers \in Nat /\ Len(emitting) \in Nat
      BY DEF EventsTypeOK
    <2>2. CASE eventDispatching
      BY <2>1, <2>2 DEF enqueueEvent, SerializedEmit
    <2>3. CASE ~eventDispatching
      BY <2>1, <2>3 DEF enqueueEvent, SerializedEmit
    <2> QED
      BY <2>2, <2>3
  <1>4. eventDispatching' = TRUE /\ emitting' = emitting
    BY DEF enqueueEvent
  <1>5. SerializedEmit'
    BY <1>3, <1>4 DEF SerializedEmit
  <1> QED
    BY <1>1, <1>2, <1>5 DEF Quiet, LatestEvent

(* Delivery takes events from the front and keeps one drainer, so the      *)
(* latest event stays the latest until nothing is left.                    *)
LEMMA DrainLatest ==
    ASSUME EventsTypeOK, SerializedEmit, DrainNext
    PROVE  /\ SerializedEmit'
           /\ Quiet => Quiet'
           /\ ~Quiet' => LatestEvent' = LatestEvent
  <1>0. /\ drainers \in Nat /\ Len(emitting) \in Nat /\ Len(pendingEvents) \in Nat
        /\ pendingEvents \in Seq(EventNames) /\ emitting \in Seq(EventNames)
        /\ eventDispatching \in BOOLEAN
    BY DEF EventsTypeOK
  <1>a. drainers + Len(emitting) <= 1 /\ (drainers + Len(emitting) = 1 => eventDispatching)
    BY <1>0 DEF SerializedEmit
  <1>1. CASE DrainTake
    <2>1. /\ drainers = 1 /\ emitting = << >> /\ drainers' = 0 /\ eventDispatching'
      BY <1>0, <1>1, <1>a DEF DrainTake
    <2>2. /\ pendingEvents # << >>
          /\ pendingEvents' = Tail(pendingEvents)
          /\ emitting' = Append(<< >>, Head(pendingEvents))
      BY <1>1, <2>1 DEF DrainTake
    <2>3. Len(emitting') = 1 /\ emitting'[1] = pendingEvents[1] /\ emitting' # << >>
      BY <1>0, <2>2
    <2>4. SerializedEmit'
      BY <2>1, <2>3 DEF SerializedEmit
    <2>5. LatestEvent' = LatestEvent
      <3>1. CASE pendingEvents' = << >>
        <4>1. Len(pendingEvents') = Len(pendingEvents) - 1
          BY <1>0, <2>2
        <4>2. Len(pendingEvents') = 0
          BY <3>1
        <4>3. Len(pendingEvents) = 1
          BY <1>0, <4>1, <4>2
        <4> QED
          BY <2>2, <2>3, <3>1, <4>3 DEF LatestEvent
      <3>2. CASE pendingEvents' # << >>
        <4>1. /\ Len(pendingEvents') = Len(pendingEvents) - 1
              /\ Len(pendingEvents') > 0
              /\ pendingEvents'[Len(pendingEvents')] = pendingEvents[Len(pendingEvents)]
          BY <1>0, <2>2, <3>2
        <4> QED
          BY <2>2, <3>2, <4>1 DEF LatestEvent
      <3> QED
        BY <3>1, <3>2
    <2> QED
      BY <2>2, <2>4, <2>5 DEF Quiet
  <1>2. CASE EmitReturns
    <2>0. Len(emitting) > 0
      BY <1>0, <1>2 DEF EmitReturns
    <2>1. Len(emitting) = 1 /\ drainers = 0 /\ eventDispatching
      BY <1>0, <1>a, <2>0
    <2>2. emitting' = << >> /\ Len(emitting') = 0 /\ drainers' = 1
      BY <1>0, <1>2, <2>1 DEF EmitReturns
    <2>3. UNCHANGED <<pendingEvents, eventDispatching>> /\ emitting # << >>
      BY <1>2 DEF EmitReturns
    <2> QED
      BY <2>1, <2>2, <2>3 DEF SerializedEmit, Quiet, LatestEvent
  <1>3. CASE DrainExit
    <2>1. drainers = 1 /\ Len(emitting) = 0
      BY <1>0, <1>3, <1>a DEF DrainExit
    <2>2. /\ drainers' = 0 /\ eventDispatching' = FALSE
          /\ pendingEvents' = << >> /\ emitting' = emitting /\ pendingEvents = << >>
      BY <1>3, <2>1 DEF DrainExit
    <2> QED
      BY <2>1, <2>2 DEF SerializedEmit, Quiet, LatestEvent
  <1> QED
    BY <1>1, <1>2, <1>3 DEF DrainNext

(* The empty state is what logged-out announces.                           *)
LEMMA ZeroIsZero == IsZero(ZeroState) /\ ZeroState.access = 0
  BY DEF IsZero, ZeroState

(* A step that leaves memory and the queue alone, takes no commit lock     *)
(* from or for a commit, and forgets no bar on RestoreSession.             *)
LEMMA TruthUnchanged ==
    ASSUME TruthInv, UNCHANGED <<state, stateRevision, restoreBlocked>>, UNCHANGED eventVars,
           commit' = commit \/ {commit, commit'} = {"free", "retry"}
    PROVE  TruthInv'
  <1>1. SerializedEmit' /\ Quiet' = Quiet /\ LatestEvent' = LatestEvent
    BY DEF TruthInv, SerializedEmit, Quiet, LatestEvent, eventVars
  <1>2. \/ commit' = commit
        \/ commit \in {"free", "retry"} /\ commit' \in {"free", "retry"}
    OBVIOUS
  <1> QED
    BY <1>1, <1>2 DEF TruthInv, Announced, Tells

(* What makes memory and the announced events agree after a commit: the    *)
(* event enqueued is the one the state was installed for.                  *)
LEMMA CommitTells ==
    ASSUME Inv, TruthInv, CommitSaved \/ CommitUnsaved \/ LogoutDone \/ EmitSessionExpired
    PROVE  TruthInv'
  <1>1. PICK e \in EventNames : enqueueEvent(e) /\ Tells(e, state)
    <2>1. CASE CommitSaved \/ CommitUnsaved
      <3>1. commit \in {"login", "refresh", "refusal"} /\ enqueueEvent(CommitEvent[commit])
        BY <2>1 DEF CommitSaved, CommitUnsaved, CommitEvent
      <3>2. CommitEvent[commit] \in EventNames /\ Tells(CommitEvent[commit], state)
        BY <3>1 DEF CommitEvent, EventNames, Tells, TruthInv, Announced
      <3> QED
        BY <3>1, <3>2
    <2>2. CASE LogoutDone
      BY <2>2 DEF LogoutDone, EventNames, Tells, TruthInv, Announced
    <2>3. CASE EmitSessionExpired
      BY <2>3 DEF EmitSessionExpired, EventNames, Tells
    <2> QED
      BY <2>1, <2>2, <2>3
  <1>2. SerializedEmit' /\ ~Quiet' /\ LatestEvent' = e
    BY <1>1, EnqueueLatest DEF Inv, TypeOK, TruthInv
  <1>3. commit' = "free" /\ UNCHANGED <<state, stateRevision, restoreBlocked>>
    BY DEF CommitSaved, CommitUnsaved, LogoutDone, EmitSessionExpired, sessionVars, CommitFree
  <1>4. stateRevision = 0 => restoreBlocked
    <2>1. CASE CommitSaved \/ CommitUnsaved
      <3>1. commit \in {"login", "refresh", "refusal"}
        BY <2>1 DEF CommitSaved, CommitUnsaved, CommitEvent
      <3> QED
        BY <3>1 DEF Inv, CommitShape
    <2>2. CASE LogoutDone
      BY <2>2 DEF LogoutDone, Inv, CommitShape
    <2>3. CASE EmitSessionExpired
      BY <2>3 DEF EmitSessionExpired, TruthInv, Announced, ZeroState
    <2> QED
      BY <2>1, <2>2, <2>3
  <1>5. Announced'
    BY <1>1, <1>2, <1>3, <1>4 DEF TruthInv, Announced, Tells
  <1> QED
    BY <1>2, <1>5 DEF TruthInv

(* The steps that change memory: each new generation waits for its event,  *)
(* except what RestoreSession installs.                                    *)
LEMMA AdvanceTells ==
    ASSUME Inv, TruthInv, TypeOK',
           LoginBegin \/ RefreshBegin \/ RefusalBegin \/ LogoutBegin \/ RestoreSession
    PROVE  TruthInv'
  <1>0. SerializedEmit' /\ Quiet' = Quiet /\ LatestEvent' = LatestEvent
    BY DEF LoginBegin, RefreshBegin, RefusalBegin, LogoutBegin, RestoreSession, eventVars,
           TruthInv, SerializedEmit, Quiet, LatestEvent
  <1>1. CASE LoginBegin \/ RefreshBegin \/ RefusalBegin
    <2>1. stateRevision' = stateRevision + 1 /\ stateRevision' # 0
      BY <1>1 DEF LoginBegin, RefreshBegin, RefusalBegin, advanceStateLocked, Inv, TypeOK
    <2>2. commit' \in {"login", "refresh"} => state'.access # 0
      <3>1. CASE LoginBegin
        BY <3>1 DEF LoginBegin, advanceStateLocked, Granted
      <3>2. CASE RefreshBegin
        BY <3>2 DEF RefreshBegin, advanceStateLocked, Granted, Inv, TypeOK, TokenStates
      <3>3. CASE RefusalBegin
        BY <3>3 DEF RefusalBegin
      <3> QED
        BY <1>1, <3>1, <3>2, <3>3
    <2>3. commit' \in {"login", "refresh", "refusal"}
      BY <1>1 DEF LoginBegin, RefreshBegin, RefusalBegin
    <2> QED
      BY <1>0, <2>1, <2>2, <2>3 DEF TruthInv, Announced
  <1>2. CASE LogoutBegin
    <2>1. commit' = "logout" /\ state' = ZeroState /\ restoreBlocked' = TRUE
      BY <1>2 DEF LogoutBegin
    <2> QED
      BY <1>0, <2>1, ZeroIsZero DEF TruthInv, Announced
  <1>3. CASE RestoreSession
    <2>1. /\ commit = "free" /\ commit' = "free" /\ ~restoreBlocked /\ ~RetryPending
          /\ state' \in {state, store}
          /\ \/ UNCHANGED <<state, stateRevision, restoreBlocked>>
             \/ stateRevision' = stateRevision + 1
      BY <1>3 DEF RestoreSession, setStateLocked, advanceStateLocked
    <2>2. stateRevision \in Nat
      BY DEF Inv, TypeOK
    <2>3. stateRevision' = 0 => state' = ZeroState /\ (restoreBlocked' \/ Quiet')
      BY <1>0, <2>1, <2>2 DEF TruthInv, Announced
    <2>4. CASE stateRevision = 0
      BY <1>0, <2>1, <2>3, <2>4 DEF TruthInv, Announced
    <2>5. CASE stateRevision # 0
      <3>1. store = Persisted(state)
        BY <2>1, <2>2, <2>5 DEF Inv, DurableOrPending
      <3>2. /\ state'.access = state.access /\ state'.refresh = state.refresh
            /\ state'.id = state.id
        BY <2>1, <3>1, PersistedFacts DEF Inv, TypeOK
      <3>3. \A e \in EventNames : Tells(e, state)' = Tells(e, state)
        BY <3>2 DEF Tells, IsZero
      <3> QED
        BY <1>0, <2>1, <2>3, <3>2 DEF TruthInv, Announced, Tells, IsZero
    <2> QED
      BY <2>4, <2>5
  <1> QED
    BY <1>1, <1>2, <1>3

(* Every step keeps the events and the session in agreement.               *)
LEMMA TruthStep ==
    ASSUME Inv, TruthInv, [Next]_vars
    PROVE  TruthInv'
  <1>0. TypeOK'
    BY TypeStep DEF Inv
  <1>1. CASE LoginExchange \/ RefreshGrant \/ RetryDue
    BY <1>1, TruthUnchanged DEF LoginExchange, RefreshGrant, RetryDue
  <1>2. CASE LoginBegin \/ RefreshBegin \/ RefusalBegin \/ LogoutBegin \/ RestoreSession
    BY <1>0, <1>2, AdvanceTells
  <1>3. CASE CommitSaved \/ CommitUnsaved \/ LogoutDone \/ EmitSessionExpired
    BY <1>3, CommitTells
  <1>4. ASSUME NEW r \in Runners, StartRefreshLoop(r) \/ CancelRunner(r) \/ SupervisorNext(r)
        PROVE  TruthInv'
    <2>1. UNCHANGED <<state, stateRevision, restoreBlocked>> /\ UNCHANGED eventVars
      BY <1>4
      DEF StartRefreshLoop, CancelRunner, SupervisorNext, SupervisorExit, PersistenceWait,
          PersistenceClaim, WaitTimer, RetryStale, RetryCancelled, RetryBegin, RetrySaved,
          RetryFailed
    <2>2. commit' = commit \/ {commit, commit'} = {"free", "retry"}
      BY <1>4
      DEF StartRefreshLoop, CancelRunner, SupervisorNext, SupervisorExit, PersistenceWait,
          PersistenceClaim, WaitTimer, RetryStale, RetryCancelled, RetryBegin, RetrySaved,
          RetryFailed, Inv, CommitShape
    <2> QED
      BY <2>1, <2>2, TruthUnchanged
  <1>5. CASE Drain
    <2>1. /\ SerializedEmit'
          /\ Quiet => Quiet'
          /\ ~Quiet' => LatestEvent' = LatestEvent
      BY <1>5, DrainLatest DEF Drain, Inv, TypeOK, TruthInv
    <2>2. UNCHANGED <<state, stateRevision, restoreBlocked, commit>>
      BY <1>5 DEF Drain, sessionVars
    <2> QED
      BY <2>1, <2>2 DEF TruthInv, Announced, Tells
  <1>6. CASE Restart
    <2>1. SerializedEmit' /\ Quiet'
      BY <1>6 DEF Restart, SerializedEmit, Quiet
    <2>2. commit' = "free" /\ state' = ZeroState
      BY <1>6 DEF Restart
    <2> QED
      BY <2>1, <2>2 DEF TruthInv, Announced
  <1>7. CASE UNCHANGED vars
    BY <1>7, TruthUnchanged DEF vars, sessionVars
  <1> QED
    BY <1>1, <1>2, <1>3, <1>4, <1>5, <1>6, <1>7 DEF Next, CommitNext

(* Both invariants together are inductive.                                 *)
LEMMA TruthInvariant == Spec => [](Inv /\ TruthInv)
  <1>1. Init => TruthInv
    <2> SUFFICES ASSUME Init PROVE TruthInv
      OBVIOUS
    <2>1. SerializedEmit /\ Quiet
      BY QuietQueue DEF Init, EventsInit
    <2> QED
      BY <2>1 DEF Init, TruthInv, Announced
  <1> QED
    BY <1>1, InvInit, InvStep, TruthStep, PTL DEF Spec

(* Emit calls are serialized: one goroutine drains, exactly while          *)
(* eventDispatching is set, and no event is queued without it.             *)
THEOREM EmitsAreSerialized == Spec => []SerializedEmit
  BY TruthInvariant, PTL DEF TruthInv

(* The last event on its way to the application describes the session, for *)
(* any length of the queue and however late the emitter is.                *)
THEOREM EventsTellTruth == Spec => []LastEventTellsTruth
  <1>1. Inv /\ TruthInv => LastEventTellsTruth
    <2> SUFFICES ASSUME Inv, TruthInv, commit = "free", Undelivered # << >>
                 PROVE  Tells(Undelivered[Len(Undelivered)], state)
      BY DEF LastEventTellsTruth, Tells
    <2>1. /\ pendingEvents \in Seq(EventNames) /\ emitting \in Seq(EventNames)
          /\ Len(pendingEvents) \in Nat /\ Len(emitting) \in Nat
      BY DEF Inv, TypeOK, EventsTypeOK
    <2>2. /\ Len(Undelivered) = Len(emitting) + Len(pendingEvents)
          /\ \A i \in 1..Len(Undelivered) :
                Undelivered[i] = IF i <= Len(emitting) THEN emitting[i]
                                 ELSE pendingEvents[i - Len(emitting)]
      BY <2>1 DEF Undelivered
    <2>3. Len(Undelivered) \in 1..Len(Undelivered)
      <3>1. Undelivered \in Seq(EventNames)
        BY <2>1 DEF Undelivered
      <3> QED
        BY <3>1
    <2>4. Undelivered[Len(Undelivered)] = LatestEvent
      <3>1. CASE pendingEvents = << >>
        <4>1. Len(pendingEvents) = 0
          BY <3>1
        <4> QED
          BY <2>1, <2>2, <2>3, <3>1, <4>1 DEF LatestEvent
      <3>2. CASE pendingEvents # << >>
        <4>1. Len(pendingEvents) > 0
          BY <2>1, <3>2
        <4> QED
          BY <2>1, <2>2, <2>3, <3>2, <4>1 DEF LatestEvent
      <3> QED
        BY <3>1, <3>2
    <2>5. ~Quiet
      BY <2>1, <2>2, <2>3 DEF Quiet
    <2> QED
      BY <2>4, <2>5 DEF TruthInv, Announced
  <1> QED
    BY <1>1, TruthInvariant, PTL

=============================================================================
