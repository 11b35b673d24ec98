--------------------------- MODULE RefreshProofs ---------------------------
(***************************************************************************)
(* Proofs about Refresh for any number of callers, loops, attempts, stages *)
(* and grants, and for everything the world may do.                        *)
(***************************************************************************)
EXTENDS Refresh, SessionProofs, FiniteSetTheorems

-----------------------------------------------------------------------------
(* The inductive invariant.                                                *)

\* Stamps of what is in memory, in the store or on its way come from the past.
Stamps ==
    /\ state.access <= minted
    /\ store.access <= minted
    /\ loginStamp <= minted

\* The attempt that is published as refreshAttempt is the one at work.
Flight ==
    /\ SingleFlight
    /\ refreshAttempt # 0 => Unfinished(refreshAttempt)

\* An attempt works on a generation that had a refresh token, and while this
\* is the generation in memory on exactly what is there.
Snapshots ==
    \A a \in Attempts : Unfinished(a) =>
        /\ attempts[a].revision <= stateRevision
        /\ attempts[a].revision = stateRevision => attempts[a].snapshot = state
        /\ attempts[a].snapshot.refresh # 0
        /\ attempts[a].snapshot.access <= minted

\* The grant that an attempt has received is newer than the generation it was
\* made for, and is not the grant of a Login.
Grants ==
    \A a \in Attempts :
        /\ attempts[a].pc \in {"verify", "commit"} => attempts[a].err = "none"
        /\ attempts[a].pc = "request" => attempts[a].err = "none"
        /\ attempts[a].pc \in {"answered", "verify", "commit"} /\ attempts[a].err = "none" =>
              /\ attempts[a].grant > attempts[a].snapshot.access
              /\ attempts[a].grant <= minted
              /\ attempts[a].grant # loginStamp
              /\ attempts[a].refresh \in {0, attempts[a].grant}
              /\ attempts[a].id \in {0, attempts[a].grant}

\* Whoever acts for the generation in memory acts for one with a refresh token,
\* and so does a block of it.
Generations ==
    /\ \A c \in Actors : actors[c].pc # "idle" =>
          /\ actors[c].revision <= stateRevision
          /\ actors[c].revision = stateRevision => state.refresh # 0
    /\ refreshSchedule.valid => refreshSchedule.revision <= stateRevision
    /\ ScheduledFor(stateRevision) /\ refreshSchedule.disposition \in {"permanent", "integrity"} =>
          state.refresh # 0

\* The participants of an attempt are the actors that wait for it, and a free
\* attempt has none.
Participants ==
    /\ \A c \in Actors : actors[c].pc \in {"wait", "await"} => actors[c].attempt # 0
    /\ \A a \in Attempts : attempts[a].pc = "free" => attempts[a].participants = 0
    /\ NobodyElsesCancel

\* l is about to announce the generation in memory.
Announcing(l) == actors[l].pc = "emit" /\ actors[l].revision = stateRevision

\* One loop at most is about to announce the generation in memory, nobody has
\* done so yet, and the schedule remembers it; it also remembers an announcement
\* that was made.
Announcements ==
    /\ ExpiredOnce
    /\ \A l \in Actors : Announcing(l) =>
          /\ announced = 0
          /\ ScheduledFor(stateRevision) /\ refreshSchedule.eventEmitted
          /\ \A k \in Actors : Announcing(k) => k = l
    /\ announced # 0 /\ state.refresh # 0 =>
          ScheduledFor(stateRevision) /\ refreshSchedule.eventEmitted

RefreshInv ==
    /\ RefreshTypeOK
    /\ Stamps
    /\ Flight
    /\ Snapshots
    /\ Grants
    /\ Generations
    /\ Participants
    /\ Announcements

-----------------------------------------------------------------------------
(* Every step is a step of Session, or changes nothing of it.              *)

(* A grant is committed as Session lets RefreshBegin commit one.           *)
LEMMA CommitRefreshIsBegin ==
    ASSUME RefreshInv, NEW a \in Attempts, CommitRefresh(a)
    PROVE  [Next]_vars
  <1>1. CASE attempts[a].revision # stateRevision
    BY <1>1 DEF CommitRefresh, vars, sessionVars, eventVars
  <1>2. CASE attempts[a].revision = stateRevision
    <2>1. /\ attempts[a].pc = "commit" /\ CommitFree
          /\ advanceStateLocked(RefreshedState(a)) /\ commit' = "refresh"
          /\ UNCHANGED <<store, persistenceClaimSeq, refreshRun, minted, loginStamp, eventVars>>
      BY <1>2 DEF CommitRefresh
    <2>2. Unfinished(a)
      BY <2>1 DEF Unfinished
    <2>3. attempts[a].snapshot = state /\ state.refresh # 0
      BY <1>2, <2>2 DEF RefreshInv, Snapshots
    <2> DEFINE serial == attempts[a].grant
               refresh == IF attempts[a].refresh # 0 THEN attempts[a].refresh ELSE state.refresh
               id == IF attempts[a].id # 0 THEN attempts[a].id ELSE state.id
    <2>4. /\ serial > state.access /\ serial <= minted /\ serial # loginStamp
          /\ attempts[a].refresh \in {0, serial} /\ attempts[a].id \in {0, serial}
      BY <2>1, <2>3 DEF RefreshInv, Grants
    <2>5. serial \in Nat /\ state.access \in Nat /\ minted \in Nat
      BY DEF RefreshInv, RefreshTypeOK, RefreshAttempts, TypeOK, TokenStates
    <2>6. serial \in (state.access + 1)..minted
      BY <2>4, <2>5
    <2>7. refresh \in {state.refresh, serial} /\ id \in {state.id, serial}
      BY <2>4
    <2>8. advanceStateLocked(Granted(serial, refresh, id))
      BY <2>1, <2>3 DEF RefreshedState
    <2>9. RefreshBegin
      BY <2>1, <2>3, <2>4, <2>6, <2>7, <2>8 DEF RefreshBegin
    <2> QED
      BY <2>9 DEF Next, CommitNext
  <1> QED
    BY <1>1, <1>2

(* A refusal is committed as Session lets RefusalBegin commit one.         *)
LEMMA CommitRefusalIsBegin ==
    ASSUME RefreshInv, NEW a \in Attempts, CommitRefusal(a)
    PROVE  [Next]_vars
  <1>1. PICK loaded \in BOOLEAN :
           IF RefusalStands(a, loaded)
           THEN advanceStateLocked(RefusedState(attempts[a].snapshot)) /\ commit' = "refusal"
           ELSE UNCHANGED <<state, stateRevision, persistenceRetry, restoreBlocked, sup, commit>>
    BY DEF CommitRefusal
  <1>2. /\ attempts[a].pc = "refusal" /\ CommitFree
        /\ UNCHANGED <<store, persistenceClaimSeq, refreshRun, minted, loginStamp, eventVars>>
    BY DEF CommitRefusal
  <1>3. CASE RefusalStands(a, loaded)
    <2>1. attempts[a].snapshot = state /\ state.refresh # 0
      BY <1>2, <1>3 DEF RefusalStands, Unfinished, RefreshInv, Snapshots
    <2>2. \E l \in BOOLEAN : l => ~supersededRefreshToken(store, state)
      OBVIOUS
    <2>3. RefusalBegin
      BY <1>1, <1>2, <1>3, <2>1, <2>2 DEF RefusalBegin
    <2> QED
      BY <2>3 DEF Next, CommitNext
  <1>4. CASE ~RefusalStands(a, loaded)
    BY <1>1, <1>2, <1>4 DEF vars, sessionVars, eventVars
  <1> QED
    BY <1>3, <1>4

(* A loop announces as Session lets EmitSessionExpired announce.           *)
LEMMA EmitIsAnnouncement ==
    ASSUME RefreshInv, NEW l \in Actors, emitEventIfRevision(l)
    PROVE  [Next]_vars
  <1>1. CASE stateRevision = actors[l].revision
    <2>1. state.refresh # 0
      BY <1>1 DEF emitEventIfRevision, RefreshInv, Generations
    <2>2. EmitSessionExpired
      BY <1>1, <2>1 DEF emitEventIfRevision, EmitSessionExpired
    <2> QED
      BY <2>2 DEF Next, CommitNext
  <1>2. CASE stateRevision # actors[l].revision
    BY <1>2 DEF emitEventIfRevision, vars
  <1> QED
    BY <1>1, <1>2

(* Where each step of a goroutine leaves the Client's state alone.         *)
LEMMA ActorStutters ==
    ASSUME NEW c \in Actors,
           \/ AccessToken(c) \/ Leave(c) \/ ActorNext(c) \/ CallerReturns(c)
           \/ LoopClaim(c) \/ LoopParks(c) \/ LoopAnnounces(c) \/ finishRefreshLoopAttempt(c)
    PROVE  UNCHANGED vars
  BY DEF AccessToken, Leave, ActorNext, BeginReturns, Lead, Join, WaitReturns, CallerReturns,
         LoopClaim, LoopParks, LoopAnnounces, finishRefreshLoopAttempt

(* And of an attempt.                                                      *)
LEMMA AttemptStutters ==
    ASSUME NEW a \in Attempts,
           \/ ProviderRejects(a) \/ TransportFails(a) \/ ReceiveAnswer(a) \/ VerifyIDToken(a)
           \/ finishRefreshAttempt(a)
    PROVE  UNCHANGED vars
  BY DEF ProviderRejects, TransportFails, ReceiveAnswer, VerifyIDToken, finishRefreshAttempt

(* The step simulation behind ImplementsSession.                           *)
LEMMA SessionStep ==
    ASSUME RefreshInv, [RefreshNext]_allVars
    PROVE  [Next]_vars
  <1>1. ASSUME NEW c \in Callers, AccessToken(c) \/ Leave(c) \/ CallerNext(c)
        PROVE  [Next]_vars
    BY <1>1, ActorStutters DEF CallerNext, Actors
  <1>2. ASSUME NEW l \in Loops, Leave(l) \/ LoopNext(l)
        PROVE  [Next]_vars
    BY <1>2, ActorStutters, EmitIsAnnouncement DEF LoopNext, Actors
  <1>3. ASSUME NEW a \in Attempts, ProviderNext(a) \/ AttemptNext(a)
        PROVE  [Next]_vars
    <2>1. CASE ProviderGrants(a)
      <3>1. RefreshGrant
        BY <2>1 DEF ProviderGrants, RefreshGrant
      <3> QED
        BY <3>1 DEF Next, CommitNext
    <2>2. CASE CommitRefresh(a) \/ CommitRefusal(a)
      BY <2>2, CommitRefreshIsBegin, CommitRefusalIsBegin
    <2> QED
      BY <1>3, <2>1, <2>2, AttemptStutters DEF ProviderNext, AttemptNext
  <1>4. CASE Stored \/ Login \/ LoginCommits \/ Logout \/ LogoutDeletes \/ Restore
    BY <1>4
    DEF Stored, Login, LoginCommits, Logout, LogoutDeletes, Restore, Next, CommitNext
  <1>5. CASE DrainEvents
    BY <1>5 DEF DrainEvents, Next
  <1>6. CASE LateGrant \/ Tick \/ Revoke \/ UNCHANGED allVars
    BY <1>6 DEF LateGrant, Tick, Revoke, allVars
  <1> QED
    BY <1>1, <1>2, <1>3, <1>4, <1>5, <1>6 DEF RefreshNext

-----------------------------------------------------------------------------
(* Type correctness.                                                       *)

AttemptPCs == {"free", "request", "answered", "verify", "commit", "refusal", "committing",
               "finish", "draining", "complete"}

(* The updates that the steps make to an attempt keep its type.            *)
LEMMA AttemptUpdates ==
    ASSUME NEW t \in RefreshAttempts
    PROVE  /\ \A p \in AttemptPCs : [t EXCEPT !.pc = p] \in RefreshAttempts
           /\ \A p \in AttemptPCs, e \in Errors :
                 /\ [t EXCEPT !.pc = p, !.err = e] \in RefreshAttempts
                 /\ [t EXCEPT !.err = e, !.pc = p] \in RefreshAttempts
           /\ \A n \in Nat : [t EXCEPT !.participants = n] \in RefreshAttempts
           /\ \A n \in Nat, b \in BOOLEAN :
                 [t EXCEPT !.participants = n, !.cancelled = b] \in RefreshAttempts
           /\ \A b \in BOOLEAN :
                 /\ [t EXCEPT !.drain = b] \in RefreshAttempts
                 /\ [t EXCEPT !.pc = "finish", !.drain = b] \in RefreshAttempts
           /\ \A n, r, i \in Nat, f \in BOOLEAN :
                 [t EXCEPT !.pc = "answered", !.grant = n, !.refresh = r, !.id = i, !.forged = f]
                    \in RefreshAttempts
  BY Zenon DEF RefreshAttempts, AttemptPCs

(* The records that attempts begin and end with.                           *)
LEMMA FreshAttempts ==
    /\ FreeAttempt \in RefreshAttempts
    /\ \A r \in Nat, s \in TokenStates :
          [FreeAttempt EXCEPT !.pc = "request", !.revision = r, !.snapshot = s,
                              !.participants = 1] \in RefreshAttempts
    /\ \A n \in Nat, e \in Errors, b \in BOOLEAN :
          [FreeAttempt EXCEPT !.participants = n, !.err = e, !.drain = b] \in RefreshAttempts
  <1>1. FreeAttempt \in RefreshAttempts
    BY ZeroType DEF FreeAttempt, RefreshAttempts, Errors
  <1>2. \A t \in RefreshAttempts :
          /\ \A r, n \in Nat, s \in TokenStates :
                [t EXCEPT !.pc = "request", !.revision = r, !.snapshot = s, !.participants = n]
                   \in RefreshAttempts
          /\ \A n \in Nat, e \in Errors, b \in BOOLEAN :
                [t EXCEPT !.participants = n, !.err = e, !.drain = b] \in RefreshAttempts
    BY Zenon DEF RefreshAttempts
  <1>3. 1 \in Nat
    OBVIOUS
  <1> QED
    BY <1>1, <1>2, <1>3, Zenon

(* A completed attempt has its type.                                       *)
LEMMA CompletedType ==
    ASSUME NEW t \in RefreshAttempts
    PROVE  Completed(t) \in RefreshAttempts
  BY AttemptUpdates, FreshAttempts, Zenon DEF Completed, AttemptPCs

(* The updates of an actor keep its type.                                  *)
LEMMA ActorUpdates ==
    /\ IdleActor \in ActorStates
    /\ \A r \in Nat, b \in BOOLEAN :
          [IdleActor EXCEPT !.pc = "begin", !.revision = r, !.inEmit = b] \in ActorStates
    /\ \A r \in Nat :
          /\ [IdleActor EXCEPT !.pc = "begin", !.revision = r] \in ActorStates
          /\ [IdleActor EXCEPT !.pc = "emit", !.revision = r] \in ActorStates
    /\ \A x \in ActorStates :
          /\ \A a \in 0..MaxAttempts :
                /\ [x EXCEPT !.pc = "wait", !.attempt = a] \in ActorStates
                /\ [x EXCEPT !.pc = "await", !.attempt = a] \in ActorStates
                /\ [x EXCEPT !.pc = "begin", !.attempt = a] \in ActorStates
                /\ \A e \in Errors :
                      [x EXCEPT !.pc = "returned", !.attempt = a, !.err = e] \in ActorStates
  <1>1. IdleActor \in ActorStates
    BY RefreshAssumption DEF IdleActor, ActorStates, Errors
  <1>2. \A x \in ActorStates :
          /\ \A a \in 0..MaxAttempts :
                /\ [x EXCEPT !.pc = "wait", !.attempt = a] \in ActorStates
                /\ [x EXCEPT !.pc = "await", !.attempt = a] \in ActorStates
                /\ [x EXCEPT !.pc = "begin", !.attempt = a] \in ActorStates
                /\ \A e \in Errors :
                      [x EXCEPT !.pc = "returned", !.attempt = a, !.err = e] \in ActorStates
    BY Zenon DEF ActorStates
  <1>3. \A x \in ActorStates : \A r \in Nat, b \in BOOLEAN :
          /\ [x EXCEPT !.pc = "begin", !.revision = r, !.inEmit = b] \in ActorStates
          /\ [x EXCEPT !.pc = "begin", !.revision = r] \in ActorStates
          /\ [x EXCEPT !.pc = "emit", !.revision = r] \in ActorStates
    BY Zenon DEF ActorStates
  <1> QED
    BY <1>1, <1>2, <1>3, Zenon

Dispositions == {"active", "expired", "permanent", "integrity"}

(* The updates of the schedule keep its type.                              *)
LEMMA ScheduleUpdates ==
    /\ \A r \in Nat : NewSchedule(r) \in Schedules
    /\ \A s \in Schedules :
          /\ \A d \in Dispositions : [s EXCEPT !.disposition = d] \in Schedules
          /\ [s EXCEPT !.inconclusive = TRUE] \in Schedules
          /\ [s EXCEPT !.eventEmitted = TRUE] \in Schedules
          /\ [s EXCEPT !.valid = FALSE] \in Schedules
          /\ \A l \in Loops : [s EXCEPT !.claimID = l] \in Schedules
          /\ \A n \in Nat \ {0}, d \in Dispositions :
                [s EXCEPT !.claimID = NoActor, !.nextStage = n, !.disposition = d] \in Schedules
  <1>1. ASSUME NEW r \in Nat
        PROVE  NewSchedule(r) \in Schedules
    BY DEF NewSchedule, Schedules
  <1>2. \A s \in Schedules :
          /\ \A d \in Dispositions : [s EXCEPT !.disposition = d] \in Schedules
          /\ [s EXCEPT !.inconclusive = TRUE] \in Schedules
          /\ [s EXCEPT !.eventEmitted = TRUE] \in Schedules
          /\ [s EXCEPT !.valid = FALSE] \in Schedules
          /\ \A l \in Loops : [s EXCEPT !.claimID = l] \in Schedules
          /\ \A n \in Nat \ {0}, d \in Dispositions :
                [s EXCEPT !.claimID = NoActor, !.nextStage = n, !.disposition = d] \in Schedules
    BY Zenon DEF Schedules, Dispositions
  <1> QED
    BY <1>1, <1>2, Zenon

-----------------------------------------------------------------------------
(* What a step has to leave alone for each part of the invariant to stay.  *)

\* The generation in memory stays, or the next one is installed.
Moves == UNCHANGED <<state, stateRevision>> \/ stateRevision' = stateRevision + 1

\* s is a schedule for the generation in memory that forgets no announcement.
Rescheduled(s) ==
    /\ s \in Schedules
    /\ s.valid /\ s.revision = stateRevision
    /\ ScheduledFor(stateRevision) /\ refreshSchedule.eventEmitted => s.eventEmitted

(* The published attempt stays the one at work.                            *)
LEMMA FlightFrame ==
    ASSUME RefreshInv, refreshAttempt' = refreshAttempt,
           \A b \in Attempts : Unfinished(b)' <=> Unfinished(b)
    PROVE  Flight'
  <1>1. refreshAttempt # 0 => refreshAttempt \in Attempts
    BY RefreshAssumption DEF RefreshInv, RefreshTypeOK, Attempts
  <1>2. SingleFlight'
    BY DEF RefreshInv, Flight, SingleFlight
  <1>3. ASSUME refreshAttempt' # 0
        PROVE  Unfinished(refreshAttempt)'
    <2>1. PICK b \in Attempts : b = refreshAttempt
      BY <1>1, <1>3
    <2>2. attempts[b].pc \notin {"free", "draining", "complete"}
      BY <1>3, <2>1 DEF RefreshInv, Flight, Unfinished
    <2>3. attempts'[b].pc \notin {"free", "draining", "complete"}
      BY <2>2 DEF Unfinished
    <2> QED
      BY <2>1, <2>3 DEF Unfinished
  <1> QED
    BY <1>2, <1>3 DEF Flight

(* No attempt is begun, and what attempts work on stays.                   *)
LEMMA SnapshotFrame ==
    ASSUME RefreshInv, Moves, minted' \in Nat, minted' >= minted,
           \A b \in Attempts : Unfinished(b)' =>
               /\ Unfinished(b)
               /\ attempts'[b].revision = attempts[b].revision
               /\ attempts'[b].snapshot = attempts[b].snapshot
    PROVE  Snapshots'
  <1> SUFFICES ASSUME NEW b \in Attempts, Unfinished(b)'
               PROVE  /\ attempts'[b].revision <= stateRevision'
                      /\ attempts'[b].revision = stateRevision' => attempts'[b].snapshot = state'
                      /\ attempts'[b].snapshot.refresh # 0
                      /\ attempts'[b].snapshot.access <= minted'
    BY DEF Snapshots
  <1>1. /\ attempts[b].revision <= stateRevision
        /\ attempts[b].revision = stateRevision => attempts[b].snapshot = state
        /\ attempts[b].snapshot.refresh # 0
        /\ attempts[b].snapshot.access <= minted
    BY DEF RefreshInv, Snapshots
  <1>2. /\ attempts[b].revision \in Nat /\ stateRevision \in Nat /\ minted \in Nat
        /\ attempts[b].snapshot.access \in Nat
    BY DEF RefreshInv, RefreshTypeOK, RefreshAttempts, TypeOK, TokenStates
  <1> QED
    BY <1>1, <1>2 DEF Moves

(* No grant is received, and the newest grant stays the newest.            *)
LEMMA GrantFrame ==
    ASSUME RefreshInv, minted' \in Nat, minted' >= minted,
           loginStamp' \in {loginStamp, 0} \/ loginStamp' > minted, loginStamp' \in Nat,
           \A b \in Attempts :
               /\ attempts'[b].pc \in {"request", "verify", "commit"} => attempts'[b].err = "none"
               /\ attempts'[b].pc \in {"answered", "verify", "commit"}
                     /\ attempts'[b].err = "none" =>
                        /\ attempts[b].pc \in {"answered", "verify", "commit"}
                        /\ attempts'[b].err = attempts[b].err
                        /\ attempts'[b].grant = attempts[b].grant
                        /\ attempts'[b].snapshot = attempts[b].snapshot
                        /\ attempts'[b].refresh = attempts[b].refresh
                        /\ attempts'[b].id = attempts[b].id
    PROVE  Grants'
  <1> SUFFICES ASSUME NEW b \in Attempts, attempts'[b].pc \in {"answered", "verify", "commit"},
                      attempts'[b].err = "none"
               PROVE  /\ attempts'[b].grant > attempts'[b].snapshot.access
                      /\ attempts'[b].grant <= minted'
                      /\ attempts'[b].grant # loginStamp'
                      /\ attempts'[b].refresh \in {0, attempts'[b].grant}
                      /\ attempts'[b].id \in {0, attempts'[b].grant}
    BY DEF Grants
  <1>1. /\ attempts[b].grant > attempts[b].snapshot.access
        /\ attempts[b].grant <= minted
        /\ attempts[b].grant # loginStamp
        /\ attempts[b].refresh \in {0, attempts[b].grant}
        /\ attempts[b].id \in {0, attempts[b].grant}
    BY DEF RefreshInv, Grants
  <1>2. /\ attempts[b].grant \in Nat /\ minted \in Nat /\ attempts[b].snapshot.access \in Nat
        /\ loginStamp \in Nat
    BY DEF RefreshInv, RefreshTypeOK, RefreshAttempts, TypeOK, TokenStates
  <1> QED
    BY <1>1, <1>2

(* Nobody begins to act for a generation without a refresh token.          *)
LEMMA GenerationFrame ==
    ASSUME RefreshInv, Moves,
           \A c \in Actors : actors'[c].pc # "idle" =>
               \/ actors[c].pc # "idle" /\ actors'[c].revision = actors[c].revision
               \/ /\ UNCHANGED <<state, stateRevision>> /\ state.refresh # 0
                  /\ actors'[c].revision = stateRevision,
           \/ refreshSchedule' = refreshSchedule
           \/ /\ UNCHANGED <<state, stateRevision>> /\ state.refresh # 0
              /\ Rescheduled(refreshSchedule')
    PROVE  Generations'
  <1>0. stateRevision \in Nat /\ refreshSchedule \in Schedules
    BY DEF RefreshInv, RefreshTypeOK, TypeOK
  <1>1. \A c \in Actors : actors'[c].pc # "idle" =>
          /\ actors'[c].revision <= stateRevision'
          /\ actors'[c].revision = stateRevision' => state'.refresh # 0
    <2> SUFFICES ASSUME NEW c \in Actors, actors'[c].pc # "idle"
                 PROVE  /\ actors'[c].revision <= stateRevision'
                        /\ actors'[c].revision = stateRevision' => state'.refresh # 0
      OBVIOUS
    <2>1. actors[c].revision \in Nat
      BY DEF RefreshInv, RefreshTypeOK, ActorStates
    <2>2. actors[c].pc # "idle" =>
             /\ actors[c].revision <= stateRevision
             /\ actors[c].revision = stateRevision => state.refresh # 0
      BY DEF RefreshInv, Generations
    <2> QED
      BY <1>0, <2>1, <2>2 DEF Moves
  <1>2. CASE refreshSchedule' = refreshSchedule
    <2>1. /\ refreshSchedule.valid => refreshSchedule.revision <= stateRevision
          /\ refreshSchedule.revision \in Nat
      BY <1>0 DEF RefreshInv, Generations, Schedules
    <2>2. refreshSchedule'.valid => refreshSchedule'.revision <= stateRevision'
      BY <1>0, <1>2, <2>1 DEF Moves
    <2>3. (ScheduledFor(stateRevision) /\ refreshSchedule.disposition \in {"permanent", "integrity"}
              => state.refresh # 0)'
      BY <1>0, <1>2, <2>1 DEF Moves, RefreshInv, Generations, ScheduledFor
    <2> QED
      BY <1>1, <2>2, <2>3 DEF Generations
  <1>3. CASE /\ UNCHANGED <<state, stateRevision>> /\ state.refresh # 0
             /\ Rescheduled(refreshSchedule')
    BY <1>0, <1>1, <1>3 DEF Rescheduled, Generations
  <1> QED
    BY <1>2, <1>3

(* Nobody begins or ends to wait for an attempt.                           *)
LEMMA ParticipantFrame ==
    ASSUME RefreshInv,
           \A c \in Actors :
               /\ actors'[c].pc = "wait" <=> actors[c].pc = "wait"
               /\ actors[c].pc = "wait" => actors'[c].attempt = actors[c].attempt
               /\ actors'[c].pc = "await" => actors'[c].attempt # 0,
           \A b \in Attempts :
               /\ attempts'[b].participants = attempts[b].participants
               /\ Unfinished(b)' => Unfinished(b) /\ attempts'[b].cancelled = attempts[b].cancelled
               /\ attempts'[b].pc = "free" => attempts'[b].participants = 0
    PROVE  Participants'
  <1>1. \A b \in Attempts : Waiting(b)' = Waiting(b)
    BY DEF Waiting
  <1>2. NobodyElsesCancel'
    BY <1>1 DEF RefreshInv, Participants, NobodyElsesCancel
  <1> QED
    BY <1>2 DEF RefreshInv, Participants

(* Nobody decides to announce, and the schedule forgets nothing.           *)
LEMMA AnnouncementFrame ==
    ASSUME RefreshInv, UNCHANGED <<state, stateRevision, announced>>,
           \A l \in Actors : Announcing(l)' => Announcing(l),
           refreshSchedule' = refreshSchedule \/ Rescheduled(refreshSchedule')
    PROVE  Announcements'
  <1>1. ScheduledFor(stateRevision) /\ refreshSchedule.eventEmitted =>
           (ScheduledFor(stateRevision) /\ refreshSchedule.eventEmitted)'
    BY DEF Rescheduled, ScheduledFor
  <1>2. ExpiredOnce'
    BY DEF RefreshInv, Announcements, ExpiredOnce
  <1>3. \A l \in Actors : Announcing(l)' =>
          /\ announced' = 0
          /\ (ScheduledFor(stateRevision) /\ refreshSchedule.eventEmitted)'
          /\ \A k \in Actors : Announcing(k)' => k = l
    BY <1>1 DEF RefreshInv, Announcements
  <1>4. announced' # 0 /\ state'.refresh # 0 =>
           (ScheduledFor(stateRevision) /\ refreshSchedule.eventEmitted)'
    BY <1>1 DEF RefreshInv, Announcements
  <1> QED
    BY <1>2, <1>3, <1>4 DEF Announcements

(* A new generation has not been announced, except by a refusal, and no    *)
(* loop is about to.                                                       *)
LEMMA NewGenerationFrame ==
    ASSUME RefreshInv, stateRevision' = stateRevision + 1, announced' \in {0, 1},
           announced' # 0 => state'.refresh = 0,
           \A c \in Actors : actors'[c].pc # "idle" =>
               actors[c].pc # "idle" /\ actors'[c].revision = actors[c].revision
    PROVE  Announcements'
  <1>1. \A l \in Actors : ~Announcing(l)'
    <2> SUFFICES ASSUME NEW l \in Actors, Announcing(l)'
                 PROVE  FALSE
      OBVIOUS
    <2>1. actors[l].revision <= stateRevision /\ actors'[l].revision = actors[l].revision
      BY DEF Announcing, RefreshInv, Generations
    <2>2. actors[l].revision \in Nat /\ stateRevision \in Nat
      BY DEF RefreshInv, RefreshTypeOK, ActorStates, TypeOK
    <2> QED
      BY <2>1, <2>2 DEF Announcing
  <1>2. ExpiredOnce'
    BY DEF ExpiredOnce
  <1> QED
    BY <1>1, <1>2 DEF Announcements

(* Stamps keep coming from the past, in every step of Session.             *)
LEMMA StampsStep ==
    ASSUME TypeOK, Stamps, [Next]_vars
    PROVE  Stamps'
  <1>0. /\ state \in TokenStates /\ store \in TokenStates /\ minted \in Nat /\ loginStamp \in Nat
        /\ state.access \in Nat /\ store.access \in Nat
    BY DEF TypeOK, TokenStates
  <1>1. /\ Persisted(state).access = state.access
        /\ ZeroState.access = 0
    BY <1>0, PersistedFacts, ZeroIsZero
  <1>2. CASE LoginExchange \/ RefreshGrant
    BY <1>0, <1>2 DEF LoginExchange, RefreshGrant, Stamps
  <1>3. CASE LoginBegin \/ RefreshBegin
    BY <1>0, <1>3 DEF LoginBegin, RefreshBegin, advanceStateLocked, Granted, Stamps
  <1>4. CASE RefusalBegin \/ LogoutBegin
    BY <1>0, <1>1, <1>4
    DEF RefusalBegin, LogoutBegin, advanceStateLocked, RefusedState, ZeroState, Stamps
  <1>5. CASE CommitSaved \/ CommitUnsaved \/ LogoutDone
    BY <1>0, <1>1, <1>5
    DEF CommitSaved, CommitUnsaved, LogoutDone, SaveRemains, DeleteRemains, Stamps
  <1>6. CASE RestoreSession
    BY <1>6 DEF RestoreSession, setStateLocked, advanceStateLocked, Stamps
  <1>7. CASE EmitSessionExpired \/ RetryDue \/ Drain \/ UNCHANGED vars
    BY <1>7 DEF EmitSessionExpired, RetryDue, Drain, vars, sessionVars, Stamps
  <1>8. ASSUME NEW r \in Runners, StartRefreshLoop(r) \/ CancelRunner(r) \/ SupervisorNext(r)
        PROVE  Stamps'
    <2>1. UNCHANGED <<state, minted, loginStamp>>
      BY <1>8
      DEF StartRefreshLoop, CancelRunner, SupervisorNext, SupervisorExit, PersistenceWait,
          PersistenceClaim, WaitTimer, RetryStale, RetryCancelled, RetryBegin, RetrySaved,
          RetryFailed
    <2>2. store' \in {store, Persisted(state), ZeroState}
      BY <1>8
      DEF StartRefreshLoop, CancelRunner, SupervisorNext, SupervisorExit, PersistenceWait,
          PersistenceClaim, WaitTimer, RetryStale, RetryCancelled, RetryBegin, RetrySaved,
          RetryFailed, SaveRemains
    <2> QED
      BY <1>0, <1>1, <2>1, <2>2 DEF Stamps
  <1>9. CASE Restart
    <2>1. store' \in {store, Persisted(state), ZeroState}
      BY <1>9 DEF Restart, Surviving, SaveRemains, DeleteRemains
    <2> QED
      BY <1>0, <1>1, <1>9, <2>1 DEF Restart, Stamps
  <1> QED
    BY <1>2, <1>3, <1>4, <1>5, <1>6, <1>7, <1>8, <1>9 DEF Next, CommitNext

-----------------------------------------------------------------------------
(* The steps of callers and loops that touch no attempt.                   *)

(* One actor moves, without beginning or ending to wait for an attempt,    *)
(* and without deciding to announce.                                       *)
LEMMA ActorOnly ==
    ASSUME RefreshInv, TypeOK', Stamps', NEW c \in Actors, NEW x \in ActorStates,
           actors' = [actors EXCEPT ![c] = x],
           UNCHANGED <<refreshAttempt, attempts, worldVars, vars>>,
           actors[c].pc # "wait", x.pc \notin {"wait", "emit"},
           x.pc = "await" => x.attempt # 0,
           x.pc # "idle" =>
               \/ actors[c].pc # "idle" /\ x.revision = actors[c].revision
               \/ state.refresh # 0 /\ x.revision = stateRevision,
           \/ refreshSchedule' = refreshSchedule
           \/ state.refresh # 0 /\ Rescheduled(refreshSchedule')
    PROVE  RefreshInv'
  <1>0. /\ UNCHANGED <<state, stateRevision, minted, loginStamp>> /\ UNCHANGED <<attempts, refreshAttempt>>
        /\ UNCHANGED <<age, live, revoked, abandoned, announced, faults>>
    BY DEF vars, sessionVars, worldVars
  <1>1. actors \in [Actors -> ActorStates] /\ minted \in Nat /\ loginStamp \in Nat
    BY DEF RefreshInv, RefreshTypeOK, TypeOK
  <1>2. \A d \in Actors : actors'[d] = IF d = c THEN x ELSE actors[d]
    BY <1>1
  <1>3. RefreshTypeOK'
    <2>1. actors' \in [Actors -> ActorStates]
      BY <1>1
    <2>2. refreshSchedule' \in Schedules
      BY DEF RefreshInv, RefreshTypeOK, Rescheduled
    <2> QED
      BY <1>0, <2>1, <2>2 DEF RefreshInv, RefreshTypeOK
  <1>4. \A b \in Attempts : Unfinished(b)' <=> Unfinished(b)
    BY <1>0 DEF Unfinished
  <1>5. Moves /\ minted' >= minted
    BY <1>0, <1>1 DEF Moves
  <1>6. Flight'
    BY <1>0, <1>4, FlightFrame
  <1>7. Snapshots'
    BY <1>0, <1>1, <1>4, <1>5, SnapshotFrame
  <1>8. Grants'
    BY <1>0 DEF RefreshInv, Grants
  <1>9. Generations'
    BY <1>0, <1>2, <1>5, GenerationFrame
  <1>10. Participants'
    <2>1. \A d \in Actors :
             /\ actors'[d].pc = "wait" <=> actors[d].pc = "wait"
             /\ actors[d].pc = "wait" => actors'[d].attempt = actors[d].attempt
             /\ actors'[d].pc = "await" => actors'[d].attempt # 0
      BY <1>2 DEF RefreshInv, Participants
    <2>2. \A b \in Attempts : attempts'[b].pc = "free" => attempts'[b].participants = 0
      BY <1>0 DEF RefreshInv, Participants
    <2> QED
      BY <1>0, <1>4, <2>1, <2>2, ParticipantFrame
  <1>11. Announcements'
    <2>1. \A l \in Actors : Announcing(l)' => Announcing(l)
      BY <1>0, <1>2 DEF Announcing
    <2> QED
      BY <1>0, <2>1, AnnouncementFrame
  <1> QED
    BY <1>3, <1>6, <1>7, <1>8, <1>9, <1>10, <1>11 DEF RefreshInv

(* What Return makes of an actor.                                          *)
LEMMA ReturnFacts ==
    ASSUME RefreshInv, NEW c \in Actors, NEW err \in Errors
    PROVE  /\ Return(c, err) \in ActorStates
           /\ Return(c, err).pc \in {"idle", "returned"}
           /\ Return(c, err).pc = "returned" => Return(c, err).revision = actors[c].revision
  <1>1. actors[c] \in ActorStates /\ 0 \in 0..MaxAttempts
    BY RefreshAssumption DEF RefreshInv, RefreshTypeOK
  <1>2. CASE c \in Callers /\ err \notin PermanentErrors \cup {"integrity"}
    BY <1>2, ActorUpdates DEF Return, IdleActor
  <1>3. CASE ~(c \in Callers /\ err \notin PermanentErrors \cup {"integrity"})
    <2>1. Return(c, err) = [actors[c] EXCEPT !.pc = "returned", !.attempt = 0, !.err = err]
      BY <1>3 DEF Return
    <2>2. Return(c, err) \in ActorStates
      <3>1. \A x \in ActorStates, a \in 0..MaxAttempts, e \in Errors :
               [x EXCEPT !.pc = "returned", !.attempt = a, !.err = e] \in ActorStates
        BY ActorUpdates, Zenon
      <3>2. PICK zero \in 0..MaxAttempts : zero = 0
        BY <1>1
      <3>3. [actors[c] EXCEPT !.pc = "returned", !.attempt = zero, !.err = err] \in ActorStates
        BY <1>1, <3>1, Zenon
      <3> QED
        BY <2>1, <3>2, <3>3
    <2>3. Return(c, err).pc = "returned" /\ Return(c, err).revision = actors[c].revision
      BY <1>1, <2>1 DEF ActorStates
    <2> QED
      BY <2>2, <2>3
  <1> QED
    BY <1>2, <1>3

(* The three schedule updates are void, or are about the generation in     *)
(* memory and forget no announcement.                                      *)
LEMMA BlockFacts ==
    ASSUME RefreshInv, NEW revision \in Nat,
           NEW s, \/ s = blockRefreshIntegrityLocked(revision)
                  \/ s = blockRefreshPermanentLocked(revision)
                  \/ s = markRefreshInconclusiveLocked(revision)
    PROVE  s = refreshSchedule \/ (revision = stateRevision /\ Rescheduled(s))
  <1>1. refreshSchedule \in Schedules
    BY DEF RefreshInv, RefreshTypeOK
  <1> DEFINE base == refreshScheduleLocked(revision)
  <1>2. /\ base \in Schedules /\ base.valid /\ base.revision = revision
        /\ ScheduledFor(revision) => base = refreshSchedule
    BY <1>1, ScheduleUpdates DEF refreshScheduleLocked, ScheduledFor, NewSchedule
  <1> HIDE DEF base
  <1>3. \/ s = refreshSchedule
        \/ /\ revision = stateRevision
           /\ \/ s = [base EXCEPT !.disposition = "integrity"]
              \/ s = [base EXCEPT !.disposition = "permanent"]
              \/ s = [base EXCEPT !.inconclusive = TRUE]
    BY DEF base, blockRefreshIntegrityLocked, blockRefreshPermanentLocked,
           markRefreshInconclusiveLocked
  <1>4. ASSUME \/ s = [base EXCEPT !.disposition = "integrity"]
               \/ s = [base EXCEPT !.disposition = "permanent"]
               \/ s = [base EXCEPT !.inconclusive = TRUE]
        PROVE  /\ s \in Schedules /\ s.valid /\ s.revision = revision
               /\ s.eventEmitted = base.eventEmitted
    <2>1. s \in Schedules
      BY <1>2, <1>4, ScheduleUpdates, Zenon DEF Dispositions
    <2> QED
      BY <1>2, <1>4, <2>1 DEF Schedules
  <1> QED
    BY <1>2, <1>3, <1>4 DEF Rescheduled

(* AccessToken begins, and returns without an attempt.                     *)
LEMMA CallerInv ==
    ASSUME RefreshInv, TypeOK', Stamps', NEW c \in Callers,
           AccessToken(c) \/ CallerReturns(c)
    PROVE  RefreshInv'
  <1>0. /\ c \in Actors /\ stateRevision \in Nat /\ actors[c] \in ActorStates
        /\ actors[c].revision \in Nat
    BY DEF Actors, RefreshInv, RefreshTypeOK, TypeOK, ActorStates
  <1>1. CASE AccessToken(c)
    <2>1. PICK inEmit \in BOOLEAN :
             actors' = [actors EXCEPT ![c] = [IdleActor EXCEPT
                !.pc = "begin", !.revision = stateRevision, !.inEmit = inEmit]]
      BY <1>1 DEF AccessToken
    <2> DEFINE x == [IdleActor EXCEPT !.pc = "begin", !.revision = stateRevision,
                                      !.inEmit = inEmit]
    <2>2. x \in ActorStates /\ x.pc = "begin" /\ x.revision = stateRevision
      BY <1>0, ActorUpdates DEF IdleActor
    <2>3. /\ actors[c].pc = "idle" /\ state.refresh # 0
          /\ UNCHANGED <<refreshAttempt, attempts, worldVars, vars>>
          /\ refreshSchedule' = refreshSchedule
      BY <1>1 DEF AccessToken
    <2> HIDE DEF x
    <2> QED
      BY <1>0, <2>1, <2>2, <2>3, ActorOnly DEF x
  <1>2. CASE CallerReturns(c)
    <2>1. /\ actors[c].pc = "returned"
          /\ actors' = [actors EXCEPT ![c] = IdleActor]
          /\ UNCHANGED <<refreshAttempt, attempts, worldVars, vars>>
      BY <1>2 DEF CallerReturns
    <2>2. \/ refreshSchedule' = refreshSchedule
          \/ refreshSchedule' = blockRefreshIntegrityLocked(actors[c].revision)
          \/ refreshSchedule' = blockRefreshPermanentLocked(actors[c].revision)
      BY <1>2 DEF CallerReturns
    <2>3. \/ refreshSchedule' = refreshSchedule
          \/ actors[c].revision = stateRevision /\ Rescheduled(refreshSchedule')
      BY <1>0, <2>2, BlockFacts
    <2>4. actors[c].revision = stateRevision => state.refresh # 0
      BY <1>0, <2>1 DEF RefreshInv, Generations
    <2>5. IdleActor \in ActorStates /\ IdleActor.pc = "idle"
      BY ActorUpdates DEF IdleActor
    <2> QED
      BY <1>0, <2>1, <2>3, <2>4, <2>5, ActorOnly
  <1> QED
    BY <1>1, <1>2

(* The schedule a loop looks at is one for the generation in memory.       *)
LEMMA LoopSchedule ==
    ASSUME RefreshInv
    PROVE  Rescheduled(refreshScheduleLocked(stateRevision))
  BY ScheduleUpdates
  DEF RefreshInv, RefreshTypeOK, TypeOK, Rescheduled, refreshScheduleLocked, ScheduledFor,
      NewSchedule

(* A loop claims a stage, parks a generation, or records a result.         *)
LEMMA LoopInv ==
    ASSUME RefreshInv, TypeOK', Stamps', NEW l \in Loops,
           LoopClaim(l) \/ LoopParks(l) \/ finishRefreshLoopAttempt(l)
    PROVE  RefreshInv'
  <1>0. /\ l \in Actors /\ stateRevision \in Nat /\ actors \in [Actors -> ActorStates]
        /\ actors[l] \in ActorStates /\ actors[l].revision \in Nat
        /\ refreshSchedule \in Schedules
    BY DEF Actors, RefreshInv, RefreshTypeOK, TypeOK, ActorStates
  <1> DEFINE base == refreshScheduleLocked(stateRevision)
  <1>b. /\ base \in Schedules /\ base.valid /\ base.revision = stateRevision
        /\ ScheduledFor(stateRevision) /\ refreshSchedule.eventEmitted => base.eventEmitted
    BY LoopSchedule DEF Rescheduled
  <1> HIDE DEF base
  <1>1. CASE LoopClaim(l)
    <2>1. /\ actors[l].pc = "idle" /\ state.refresh # 0
          /\ refreshSchedule' = [base EXCEPT !.claimID = l]
          /\ actors' = [actors EXCEPT ![l] = [IdleActor EXCEPT
                !.pc = "begin", !.revision = stateRevision]]
          /\ UNCHANGED <<refreshAttempt, attempts, worldVars, vars>>
      BY <1>1 DEF LoopClaim, Unclaimed, base
    <2> DEFINE x == [IdleActor EXCEPT !.pc = "begin", !.revision = stateRevision]
    <2>2. x \in ActorStates /\ x.pc = "begin" /\ x.revision = stateRevision
      BY <1>0, ActorUpdates DEF IdleActor
    <2>3. Rescheduled(refreshSchedule')
      <3>1. refreshSchedule' \in Schedules
        BY <1>b, <2>1, ScheduleUpdates
      <3> QED
        BY <1>b, <2>1, <3>1 DEF Rescheduled, Schedules
    <2> HIDE DEF x
    <2> QED
      BY <1>0, <2>1, <2>2, <2>3, ActorOnly DEF x
  <1>2. CASE LoopParks(l)
    <2>1. /\ actors[l].pc = "idle" /\ state.refresh # 0
          /\ refreshSchedule' = [base EXCEPT !.disposition = "expired"]
          /\ UNCHANGED <<refreshAttempt, attempts, actors, worldVars, vars>>
      BY <1>2 DEF LoopParks, Unclaimed, base
    <2>2. Rescheduled(refreshSchedule')
      <3>1. refreshSchedule' \in Schedules
        BY <1>b, <2>1, ScheduleUpdates DEF Dispositions
      <3> QED
        BY <1>b, <2>1, <3>1 DEF Rescheduled, Schedules
    <2>3. actors' = [actors EXCEPT ![l] = actors[l]]
      BY <1>0, <2>1
    <2> QED
      BY <1>0, <2>1, <2>2, <2>3, ActorOnly
  <1>3. CASE finishRefreshLoopAttempt(l)
    <2>1. /\ actors[l].pc = "returned"
          /\ actors' = [actors EXCEPT ![l] = IdleActor]
          /\ UNCHANGED <<refreshAttempt, attempts, worldVars, vars>>
      BY <1>3 DEF finishRefreshLoopAttempt
    <2>2. actors[l].revision = stateRevision => state.refresh # 0
      BY <1>0, <2>1 DEF RefreshInv, Generations
    <2>3. \/ refreshSchedule' = refreshSchedule
          \/ actors[l].revision = stateRevision /\ Rescheduled(refreshSchedule')
      <3>1. SUFFICES ASSUME ScheduledFor(actors[l].revision), stateRevision = actors[l].revision,
                            refreshSchedule' =
                               [refreshSchedule EXCEPT !.claimID = NoActor,
                                   !.nextStage = LoopStage(actors[l].err),
                                   !.disposition = LoopDisposition(actors[l].err)]
                     PROVE  Rescheduled(refreshSchedule')
        BY <1>3 DEF finishRefreshLoopAttempt
      <3>2. LoopStage(actors[l].err) \in Nat \ {0}
        BY <1>0 DEF LoopStage, Schedules
      <3>3. LoopDisposition(actors[l].err) \in Dispositions
        BY <1>0 DEF LoopDisposition, Schedules, Dispositions
      <3>4. refreshSchedule' \in Schedules
        BY <1>0, <3>1, <3>2, <3>3, ScheduleUpdates, Zenon
      <3> QED
        BY <1>0, <3>1, <3>4 DEF Rescheduled, ScheduledFor, Schedules
    <2>4. IdleActor \in ActorStates /\ IdleActor.pc = "idle"
      BY ActorUpdates DEF IdleActor
    <2> QED
      BY <1>0, <2>1, <2>2, <2>3, <2>4, ActorOnly
  <1> QED
    BY <1>1, <1>2, <1>3

(* A loop decides to announce a blocked generation: nobody else has.       *)
LEMMA AnnouncesInv ==
    ASSUME RefreshInv, TypeOK', Stamps', NEW l \in Loops, LoopAnnounces(l)
    PROVE  RefreshInv'
  <1>0. /\ l \in Actors /\ stateRevision \in Nat /\ actors \in [Actors -> ActorStates]
        /\ refreshSchedule \in Schedules /\ minted \in Nat
    BY DEF Actors, RefreshInv, RefreshTypeOK, TypeOK
  <1>1. /\ actors[l].pc = "idle"
        /\ ScheduledFor(stateRevision) /\ ~refreshSchedule.eventEmitted
        /\ refreshSchedule.disposition \in {"integrity", "permanent"}
        /\ refreshSchedule' = [refreshSchedule EXCEPT !.eventEmitted = TRUE]
        /\ UNCHANGED <<refreshAttempt, attempts, worldVars, vars>>
    BY DEF LoopAnnounces, Unclaimed
  <1> DEFINE x == [IdleActor EXCEPT !.pc = "emit", !.revision = stateRevision]
  <1>2. x \in ActorStates /\ x.pc = "emit" /\ x.revision = stateRevision
    BY <1>0, ActorUpdates DEF IdleActor
  <1>3. actors' = [actors EXCEPT ![l] = x]
    BY DEF LoopAnnounces
  <1> HIDE DEF x
  <1>4. \A d \in Actors : actors'[d] = IF d = l THEN x ELSE actors[d]
    BY <1>0, <1>3
  <1>5. /\ refreshSchedule' \in Schedules /\ refreshSchedule'.eventEmitted
        /\ refreshSchedule'.valid /\ refreshSchedule'.revision = stateRevision
    <2>1. refreshSchedule' \in Schedules
      BY <1>0, <1>1, ScheduleUpdates
    <2> QED
      BY <1>0, <1>1, <2>1 DEF Schedules, ScheduledFor
  <1>6. state.refresh # 0
    BY <1>1 DEF RefreshInv, Generations
  <1>7. /\ UNCHANGED <<state, stateRevision, minted, loginStamp, attempts, refreshAttempt>>
        /\ UNCHANGED <<age, live, revoked, abandoned, announced, faults>>
    BY <1>1 DEF vars, sessionVars, worldVars
  <1>8. RefreshTypeOK'
    <2>1. actors' \in [Actors -> ActorStates]
      BY <1>0, <1>2, <1>3
    <2> QED
      BY <1>5, <1>7, <2>1 DEF RefreshInv, RefreshTypeOK
  <1>9. /\ \A b \in Attempts : Unfinished(b)' <=> Unfinished(b)
        /\ Moves /\ minted' >= minted
        /\ Rescheduled(refreshSchedule')
    BY <1>0, <1>5, <1>7 DEF Unfinished, Moves, Rescheduled
  <1>10. Flight' /\ Snapshots' /\ Grants'
    <2>1. Flight'
      BY <1>7, <1>9, FlightFrame
    <2>2. Snapshots'
      BY <1>0, <1>7, <1>9, SnapshotFrame
    <2>3. Grants'
      BY <1>7 DEF RefreshInv, Grants
    <2> QED
      BY <2>1, <2>2, <2>3
  <1>11. Generations'
    BY <1>2, <1>4, <1>6, <1>7, <1>9, GenerationFrame
  <1>12. Participants'
    <2>1. \A d \in Actors :
             /\ actors'[d].pc = "wait" <=> actors[d].pc = "wait"
             /\ actors[d].pc = "wait" => actors'[d].attempt = actors[d].attempt
             /\ actors'[d].pc = "await" => actors'[d].attempt # 0
      BY <1>1, <1>2, <1>4 DEF RefreshInv, Participants
    <2>2. \A b \in Attempts : attempts'[b].pc = "free" => attempts'[b].participants = 0
      BY <1>7 DEF RefreshInv, Participants
    <2> QED
      BY <1>7, <1>9, <2>1, <2>2, ParticipantFrame
  <1>13. Announcements'
    <2>1. announced = 0 /\ \A k \in Actors : ~Announcing(k)
      BY <1>1, <1>6 DEF RefreshInv, Announcements
    <2>2. \A k \in Actors : Announcing(k)' => k = l
      BY <1>4, <1>7, <2>1 DEF Announcing
    <2> QED
      BY <1>5, <1>7, <2>1, <2>2 DEF Announcements, ExpiredOnce, ScheduledFor
  <1> QED
    BY <1>8, <1>10, <1>11, <1>12, <1>13 DEF RefreshInv

(* The announcement is made, if it is about the generation in memory.      *)
LEMMA EmitInv ==
    ASSUME RefreshInv, TypeOK', Stamps', NEW l \in Loops, emitEventIfRevision(l)
    PROVE  RefreshInv'
  <1>0. /\ l \in Actors /\ stateRevision \in Nat /\ actors \in [Actors -> ActorStates]
        /\ minted \in Nat /\ announced \in Nat
    BY DEF Actors, RefreshInv, RefreshTypeOK, TypeOK
  <1>1. /\ actors[l].pc = "emit"
        /\ actors' = [actors EXCEPT ![l] = IdleActor]
        /\ UNCHANGED <<refreshAttempt, attempts, refreshSchedule, age, live, revoked, abandoned,
                       faults>>
        /\ UNCHANGED <<state, stateRevision, minted, loginStamp>>
    BY DEF emitEventIfRevision, sessionVars
  <1>2. IdleActor \in ActorStates /\ IdleActor.pc = "idle"
    BY ActorUpdates DEF IdleActor
  <1>3. \A d \in Actors : actors'[d] = IF d = l THEN IdleActor ELSE actors[d]
    BY <1>0, <1>1
  <1>4. announced' = IF Announcing(l) THEN announced + 1 ELSE announced
    BY <1>1 DEF emitEventIfRevision, Announcing
  <1>5. RefreshTypeOK'
    <2>1. actors' \in [Actors -> ActorStates] /\ announced' \in Nat
      BY <1>0, <1>1, <1>2, <1>4
    <2> QED
      BY <1>1, <2>1 DEF RefreshInv, RefreshTypeOK
  <1>6. /\ \A b \in Attempts : Unfinished(b)' <=> Unfinished(b)
        /\ Moves /\ minted' >= minted
    BY <1>0, <1>1 DEF Unfinished, Moves
  <1>7. Flight' /\ Snapshots' /\ Grants'
    <2>1. Flight'
      BY <1>1, <1>6, FlightFrame
    <2>2. Snapshots'
      BY <1>0, <1>1, <1>6, SnapshotFrame
    <2>3. Grants'
      BY <1>1 DEF RefreshInv, Grants
    <2> QED
      BY <2>1, <2>2, <2>3
  <1>8. Generations'
    BY <1>1, <1>2, <1>3, <1>6, GenerationFrame
  <1>9. Participants'
    <2>1. \A d \in Actors :
             /\ actors'[d].pc = "wait" <=> actors[d].pc = "wait"
             /\ actors[d].pc = "wait" => actors'[d].attempt = actors[d].attempt
             /\ actors'[d].pc = "await" => actors'[d].attempt # 0
      BY <1>1, <1>2, <1>3 DEF RefreshInv, Participants
    <2>2. \A b \in Attempts : attempts'[b].pc = "free" => attempts'[b].participants = 0
      BY <1>1 DEF RefreshInv, Participants
    <2> QED
      BY <1>1, <1>6, <2>1, <2>2, ParticipantFrame
  <1>10. Announcements'
    <2>1. \A k \in Actors : Announcing(k)' => Announcing(k) /\ k # l
      BY <1>1, <1>2, <1>3 DEF Announcing
    <2>2. CASE Announcing(l)
      <3>1. /\ announced = 0 /\ ScheduledFor(stateRevision) /\ refreshSchedule.eventEmitted
            /\ \A k \in Actors : Announcing(k) => k = l
        BY <1>0, <2>2 DEF RefreshInv, Announcements
      <3>2. announced' = 1 /\ \A k \in Actors : ~Announcing(k)'
        BY <1>4, <2>1, <2>2, <3>1
      <3> QED
        BY <1>1, <3>1, <3>2 DEF Announcements, ExpiredOnce, ScheduledFor
    <2>3. CASE ~Announcing(l)
      BY <1>1, <1>4, <2>1, <2>3, AnnouncementFrame
    <2> QED
      BY <2>2, <2>3
  <1> QED
    BY <1>5, <1>7, <1>8, <1>9, <1>10 DEF RefreshInv

-----------------------------------------------------------------------------
(* Who waits for an attempt.                                               *)

(* The actors that wait for an attempt can be counted.                     *)
LEMMA WaitingFinite ==
    ASSUME NEW a
    PROVE  IsFiniteSet(Waiting(a)) /\ Cardinality(Waiting(a)) \in Nat
  <1>1. IsFiniteSet(Actors)
    BY RefreshAssumption, FS_Union DEF Actors
  <1>2. IsFiniteSet(Waiting(a))
    BY <1>1, FS_Subset DEF Waiting
  <1> QED
    BY <1>2, FS_CardinalityType

(* One more actor waits for an attempt that is not cancelled.              *)
LEMMA ParticipantJoins ==
    ASSUME RefreshInv, NEW c \in Actors, NEW a \in Attempts,
           actors[c].pc # "wait", actors'[c].pc = "wait", actors'[c].attempt = a, a # 0,
           \A d \in Actors : d # c => actors'[d] = actors[d],
           \A b \in Attempts : b # a => attempts'[b] = attempts[b],
           attempts'[a].participants = attempts[a].participants + 1,
           attempts'[a].pc # "free", ~attempts'[a].cancelled
    PROVE  Participants'
  <1>1. Waiting(a)' = Waiting(a) \cup {c} /\ c \notin Waiting(a)
    BY DEF Waiting
  <1>2. \A b \in Attempts : b # a => Waiting(b)' = Waiting(b)
    BY DEF Waiting
  <1>3. attempts'[a].participants = Cardinality(Waiting(a)')
    <2>1. attempts[a].participants = Cardinality(Waiting(a))
      BY DEF RefreshInv, Participants, NobodyElsesCancel
    <2>2. Cardinality(Waiting(a) \cup {c}) = Cardinality(Waiting(a)) + 1
      BY <1>1, WaitingFinite, FS_AddElement
    <2> QED
      BY <1>1, <2>1, <2>2
  <1>4. NobodyElsesCancel'
    <2> SUFFICES ASSUME NEW b \in Attempts
                 PROVE  (/\ attempts[b].participants = Cardinality(Waiting(b))
                         /\ Unfinished(b) /\ attempts[b].cancelled => Waiting(b) = {})'
      BY DEF NobodyElsesCancel
    <2>1. CASE b = a
      BY <1>3, <2>1
    <2>2. CASE b # a
      BY <1>2, <2>2 DEF RefreshInv, Participants, NobodyElsesCancel, Unfinished
    <2> QED
      BY <2>1, <2>2
  <1> QED
    BY <1>4 DEF RefreshInv, Participants

(* What releaseRefreshParticipant does to the attempt that is left.        *)
LEMMA ReleaseFacts ==
    ASSUME RefreshInv, NEW c \in Actors, NEW a \in Attempts,
           actors[c].pc = "wait", actors[c].attempt = a,
           attempts' = releaseRefreshParticipant(a)
    PROVE  /\ attempts' \in [Attempts -> RefreshAttempts]
           /\ \A b \in Attempts : b # a => attempts'[b] = attempts[b]
           /\ attempts[a].participants \in Nat \ {0}
           /\ attempts[a].pc # "free"
           /\ Unfinished(a) => ~attempts[a].cancelled
           /\ \/ /\ attempts'[a] = FreeAttempt /\ attempts[a].pc = "complete"
                 /\ attempts[a].participants = 1
              \/ /\ attempts'[a].participants = attempts[a].participants - 1
                 /\ attempts'[a].cancelled =>
                       attempts[a].cancelled \/ attempts[a].participants = 1
                 /\ attempts'[a].pc = attempts[a].pc
                 /\ attempts'[a].revision = attempts[a].revision
                 /\ attempts'[a].snapshot = attempts[a].snapshot
                 /\ attempts'[a].err = attempts[a].err
                 /\ attempts'[a].grant = attempts[a].grant
                 /\ attempts'[a].refresh = attempts[a].refresh
                 /\ attempts'[a].id = attempts[a].id
  <1>1. c \in Waiting(a)
    BY DEF Waiting
  <1>2. /\ attempts \in [Attempts -> RefreshAttempts] /\ attempts[a] \in RefreshAttempts
        /\ attempts[a].participants \in Nat
    BY DEF RefreshInv, RefreshTypeOK, RefreshAttempts
  <1>3. attempts[a].participants # 0
    BY <1>1, WaitingFinite, FS_EmptySet DEF RefreshInv, Participants, NobodyElsesCancel
  <1>4. /\ attempts[a].pc # "free"
        /\ Unfinished(a) => ~attempts[a].cancelled
    BY <1>1, <1>3 DEF RefreshInv, Participants, NobodyElsesCancel
  <1>5. PICK left \in Nat : left = attempts[a].participants - 1
    BY <1>2, <1>3
  <1>6. PICK flag \in BOOLEAN :
           flag = (attempts[a].cancelled \/ (left = 0 /\ refreshAttempt = a))
    BY Zenon
  <1> DEFINE r == [attempts[a] EXCEPT !.participants = left, !.cancelled = flag]
  <1>7. r \in RefreshAttempts
    BY <1>2, AttemptUpdates
  <1>8. /\ r.participants = left /\ r.cancelled = flag /\ r.pc = attempts[a].pc
        /\ r.revision = attempts[a].revision /\ r.snapshot = attempts[a].snapshot
        /\ r.err = attempts[a].err /\ r.grant = attempts[a].grant
        /\ r.refresh = attempts[a].refresh /\ r.id = attempts[a].id
    BY <1>2 DEF RefreshAttempts
  <1>9. \/ /\ attempts' = [attempts EXCEPT ![a] = FreeAttempt]
           /\ left = 0 /\ attempts[a].pc = "complete"
        \/ attempts' = [attempts EXCEPT ![a] = r]
    <2>1. attempts' = [attempts EXCEPT ![a] =
              IF left = 0 /\ attempts[a].pc = "complete" THEN FreeAttempt
              ELSE [attempts[a] EXCEPT !.participants = left,
                       !.cancelled = attempts[a].cancelled \/ (left = 0 /\ refreshAttempt = a)]]
      BY <1>5, Zenon DEF releaseRefreshParticipant
    <2>2. CASE left = 0 /\ attempts[a].pc = "complete"
      BY <2>1, <2>2, Zenon
    <2>3. CASE ~(left = 0 /\ attempts[a].pc = "complete")
      BY <1>6, <2>1, <2>3, Zenon
    <2> QED
      BY <2>2, <2>3
  <1> HIDE DEF r
  <1>10. attempts' \in [Attempts -> RefreshAttempts]
    BY <1>2, <1>7, <1>9, FreshAttempts
  <1>11. \A b \in Attempts : b # a => attempts'[b] = attempts[b]
    BY <1>2, <1>9
  <1>12. \/ attempts'[a] = FreeAttempt /\ left = 0 /\ attempts[a].pc = "complete"
         \/ attempts'[a] = r
    BY <1>2, <1>9
  <1>13. flag => attempts[a].cancelled \/ left = 0
    BY <1>6, Zenon
  <1>14. left = 0 => attempts[a].participants = 1
    BY <1>2, <1>5
  <1>15. CASE attempts'[a] = FreeAttempt /\ left = 0 /\ attempts[a].pc = "complete"
    BY <1>2, <1>3, <1>4, <1>10, <1>11, <1>14, <1>15
  <1>16. CASE attempts'[a] = r
    <2>1. attempts'[a].cancelled => attempts[a].cancelled \/ attempts[a].participants = 1
      BY <1>8, <1>13, <1>14, <1>16, Zenon
    <2> QED
      BY <1>2, <1>3, <1>4, <1>5, <1>8, <1>10, <1>11, <1>16, <2>1
  <1> QED
    BY <1>12, <1>15, <1>16

(* An actor that waited for an attempt is gone: the last one to go cancels *)
(* it, and nobody else.                                                    *)
LEMMA ReleaseInv ==
    ASSUME RefreshInv, TypeOK', Stamps', NEW c \in Actors, NEW a \in Attempts,
           NEW x \in ActorStates,
           actors[c].pc = "wait", actors[c].attempt = a,
           attempts' = releaseRefreshParticipant(a),
           actors' = [actors EXCEPT ![c] = x],
           x.pc \in {"idle", "returned"},
           x.pc = "returned" => x.revision = actors[c].revision,
           UNCHANGED <<refreshAttempt, refreshSchedule, worldVars, vars>>
    PROVE  RefreshInv'
  <1>0. /\ attempts' \in [Attempts -> RefreshAttempts]
        /\ \A b \in Attempts : b # a => attempts'[b] = attempts[b]
        /\ attempts[a].participants \in Nat \ {0} /\ attempts[a].pc # "free"
        /\ Unfinished(a) => ~attempts[a].cancelled
    BY ReleaseFacts
  <1>1. \/ /\ attempts'[a] = FreeAttempt /\ attempts[a].pc = "complete"
           /\ attempts[a].participants = 1
        \/ /\ attempts'[a].participants = attempts[a].participants - 1
           /\ attempts'[a].cancelled => attempts[a].cancelled \/ attempts[a].participants = 1
           /\ attempts'[a].pc = attempts[a].pc
           /\ attempts'[a].revision = attempts[a].revision
           /\ attempts'[a].snapshot = attempts[a].snapshot
           /\ attempts'[a].err = attempts[a].err
           /\ attempts'[a].grant = attempts[a].grant
           /\ attempts'[a].refresh = attempts[a].refresh
           /\ attempts'[a].id = attempts[a].id
    BY ReleaseFacts
  <1>2. actors \in [Actors -> ActorStates] /\ minted \in Nat /\ loginStamp \in Nat
    BY DEF RefreshInv, RefreshTypeOK, TypeOK
  <1>3. \A d \in Actors : actors'[d] = IF d = c THEN x ELSE actors[d]
    BY <1>2
  <1>4. /\ UNCHANGED <<state, stateRevision, minted, loginStamp>>
        /\ UNCHANGED <<age, live, revoked, abandoned, announced, faults>>
    BY DEF vars, sessionVars, worldVars
  <1>5. RefreshTypeOK'
    <2>1. actors' \in [Actors -> ActorStates]
      BY <1>2
    <2> QED
      BY <1>0, <1>4, <2>1 DEF RefreshInv, RefreshTypeOK
  <1>6. FreeAttempt.pc = "free" /\ FreeAttempt.participants = 0
    BY DEF FreeAttempt
  <1>7. \A b \in Attempts : Unfinished(b)' <=> Unfinished(b)
    BY <1>0, <1>1, <1>6 DEF Unfinished
  <1>8. Moves /\ minted' >= minted
    BY <1>2, <1>4 DEF Moves
  <1>9. Flight'
    BY <1>7, FlightFrame
  <1>10. Snapshots'
    <2>1. \A b \in Attempts : Unfinished(b)' =>
             /\ Unfinished(b)
             /\ attempts'[b].revision = attempts[b].revision
             /\ attempts'[b].snapshot = attempts[b].snapshot
      BY <1>0, <1>1, <1>7 DEF Unfinished
    <2> QED
      BY <1>2, <1>4, <1>8, <2>1, SnapshotFrame
  <1>11. Grants'
    BY <1>0, <1>1, <1>4, <1>6 DEF RefreshInv, Grants
  <1>12. Generations'
    BY <1>3, <1>8, GenerationFrame
  <1>13. Participants'
    <2>1. Waiting(a)' = Waiting(a) \ {c} /\ c \in Waiting(a)
      BY <1>3 DEF Waiting
    <2>2. \A b \in Attempts : b # a => Waiting(b)' = Waiting(b)
      BY <1>3 DEF Waiting
    <2>3. Cardinality(Waiting(a)') = attempts[a].participants - 1
      <3>1. attempts[a].participants = Cardinality(Waiting(a))
        BY DEF RefreshInv, Participants, NobodyElsesCancel
      <3>2. Cardinality(Waiting(a) \ {c}) = Cardinality(Waiting(a)) - 1
        BY <2>1, WaitingFinite, FS_RemoveElement
      <3> QED
        BY <2>1, <3>1, <3>2
    <2>4. attempts[a].participants = 1 => Waiting(a)' = {}
      <3>1. IsFiniteSet(Waiting(a) \ {c})
        BY WaitingFinite, FS_RemoveElement
      <3> QED
        BY <1>0, <2>1, <2>3, <3>1, FS_EmptySet
    <2>5. attempts'[a].participants = attempts[a].participants - 1
      BY <1>0, <1>1, <1>6
    <2>6. Unfinished(a)' /\ attempts'[a].cancelled => Waiting(a)' = {}
      BY <1>0, <1>1, <1>6, <1>7, <2>4 DEF Unfinished
    <2>7. NobodyElsesCancel'
      <3> SUFFICES ASSUME NEW b \in Attempts
                   PROVE  (/\ attempts[b].participants = Cardinality(Waiting(b))
                           /\ Unfinished(b) /\ attempts[b].cancelled => Waiting(b) = {})'
        BY DEF NobodyElsesCancel
      <3>1. CASE b = a
        BY <2>3, <2>5, <2>6, <3>1
      <3>2. CASE b # a
        BY <1>0, <1>7, <2>2, <3>2 DEF RefreshInv, Participants, NobodyElsesCancel
      <3> QED
        BY <3>1, <3>2
    <2> QED
      BY <1>0, <1>1, <1>3, <1>6, <2>7 DEF RefreshInv, Participants
  <1>14. Announcements'
    <2>1. \A l \in Actors : Announcing(l)' => Announcing(l)
      BY <1>3, <1>4 DEF Announcing
    <2> QED
      BY <1>4, <2>1, AnnouncementFrame
  <1> QED
    BY <1>5, <1>9, <1>10, <1>11, <1>12, <1>13, <1>14 DEF RefreshInv

(* Actors wait for attempts that exist.                                    *)
LEMMA WaitsForAttempt ==
    ASSUME RefreshInv, NEW c \in Actors, actors[c].pc = "wait"
    PROVE  actors[c].attempt \in Attempts
  <1>1. actors[c].attempt \in 0..MaxAttempts
    BY DEF RefreshInv, RefreshTypeOK, ActorStates
  <1>2. actors[c].attempt # 0
    BY DEF RefreshInv, Participants
  <1> QED
    BY <1>1, <1>2, RefreshAssumption DEF Attempts

(* An actor returns with the result, or because its context has ended, or  *)
(* without an attempt.                                                     *)
LEMMA ReturnsInv ==
    ASSUME RefreshInv, TypeOK', Stamps', NEW c \in Actors,
           BeginReturns(c) \/ WaitReturns(c) \/ Leave(c)
    PROVE  RefreshInv'
  <1>1. CASE BeginReturns(c)
    <2>1. /\ actors[c].pc = "begin"
          /\ actors' = [actors EXCEPT ![c] = Return(c, BeginOutcome(c))]
          /\ UNCHANGED <<refreshAttempt, attempts, refreshSchedule, worldVars, vars>>
      BY <1>1 DEF BeginReturns
    <2>2. BeginOutcome(c) \in Errors
      BY <1>1 DEF BeginReturns, BeginOutcome, Errors
    <2> DEFINE x == Return(c, BeginOutcome(c))
    <2>3. /\ x \in ActorStates /\ x.pc \in {"idle", "returned"}
          /\ x.pc = "returned" => x.revision = actors[c].revision
      BY <2>2, ReturnFacts
    <2> HIDE DEF x
    <2> QED
      BY <2>1, <2>3, ActorOnly DEF x
  <1>2. CASE Leave(c) /\ actors[c].pc # "wait"
    <2>1. /\ actors[c].pc \in {"begin", "await"}
          /\ actors' = [actors EXCEPT ![c] = Return(c, "unstarted")]
          /\ UNCHANGED <<refreshAttempt, attempts, refreshSchedule, worldVars, vars>>
      BY <1>2 DEF Leave
    <2> DEFINE x == Return(c, "unstarted")
    <2>2. /\ x \in ActorStates /\ x.pc \in {"idle", "returned"}
          /\ x.pc = "returned" => x.revision = actors[c].revision
      BY ReturnFacts DEF Errors
    <2> HIDE DEF x
    <2> QED
      BY <2>1, <2>2, ActorOnly DEF x
  <1>3. CASE Leave(c) /\ actors[c].pc = "wait"
    <2>1. PICK a \in Attempts : a = actors[c].attempt
      BY <1>3, WaitsForAttempt
    <2> DEFINE x == Return(c, "cancelled")
    <2>2. /\ attempts' = releaseRefreshParticipant(a)
          /\ actors' = [actors EXCEPT ![c] = x]
          /\ UNCHANGED <<refreshAttempt, refreshSchedule, worldVars, vars>>
      BY <1>3, <2>1 DEF Leave
    <2>3. /\ x \in ActorStates /\ x.pc \in {"idle", "returned"}
          /\ x.pc = "returned" => x.revision = actors[c].revision
      BY ReturnFacts DEF Errors
    <2> HIDE DEF x
    <2> QED
      BY <1>3, <2>1, <2>2, <2>3, ReleaseInv
  <1>4. CASE WaitReturns(c)
    <2>0. actors[c].pc = "wait"
      BY <1>4 DEF WaitReturns
    <2>1. PICK a \in Attempts : a = actors[c].attempt
      BY <2>0, WaitsForAttempt
    <2> DEFINE x == Return(c, attempts[a].err)
    <2>2. /\ attempts' = releaseRefreshParticipant(a)
          /\ actors' = [actors EXCEPT ![c] = x]
          /\ UNCHANGED <<refreshAttempt, refreshSchedule, worldVars, vars>>
      BY <1>4, <2>1 DEF WaitReturns
    <2>3. attempts[a].err \in Errors
      BY DEF RefreshInv, RefreshTypeOK, RefreshAttempts
    <2>4. /\ x \in ActorStates /\ x.pc \in {"idle", "returned"}
          /\ x.pc = "returned" => x.revision = actors[c].revision
      BY <2>3, ReturnFacts
    <2> HIDE DEF x
    <2> QED
      BY <2>0, <2>1, <2>2, <2>4, ReleaseInv
  <1> QED
    BY <1>1, <1>2, <1>3, <1>4

-----------------------------------------------------------------------------
(* An attempt begins.                                                      *)

(* Whoever goes on acts for the generation in memory, which has a refresh  *)
(* token.                                                                  *)
LEMMA GoesOn ==
    ASSUME RefreshInv, NEW c \in Actors, actors[c].pc = "begin", BeginOutcome(c) = "go"
    PROVE  actors[c].revision = stateRevision /\ state.refresh # 0
  <1>1. actors[c].revision = stateRevision
    BY DEF BeginOutcome
  <1> QED
    BY <1>1 DEF RefreshInv, Generations

(* A leader: nobody else is at work, so its attempt is the only one, on    *)
(* what is in memory.                                                      *)
LEMMA LeadInv ==
    ASSUME RefreshInv, TypeOK', Stamps', NEW c \in Actors, Lead(c)
    PROVE  RefreshInv'
  <1>0. /\ stateRevision \in Nat /\ minted \in Nat /\ loginStamp \in Nat
        /\ state \in TokenStates /\ state.access \in Nat
        /\ actors \in [Actors -> ActorStates] /\ actors[c] \in ActorStates
        /\ attempts \in [Attempts -> RefreshAttempts]
    BY DEF RefreshInv, RefreshTypeOK, TypeOK, TokenStates
  <1>1. /\ actors[c].pc = "begin" /\ refreshAttempt = 0
        /\ actors[c].revision = stateRevision /\ state.refresh # 0
        /\ UNCHANGED <<refreshSchedule, worldVars, vars>>
    BY GoesOn DEF Lead
  <1>2. PICK a \in Attempts :
           /\ attempts[a].pc = "free"
           /\ attempts' = [attempts EXCEPT ![a] = [FreeAttempt EXCEPT
                 !.pc = "request", !.revision = stateRevision, !.snapshot = state,
                 !.participants = 1]]
           /\ refreshAttempt' = a
           /\ actors' = [actors EXCEPT ![c] = [@ EXCEPT !.pc = "wait", !.attempt = a]]
    BY DEF Lead
  <1>3. a \in 0..MaxAttempts /\ a # 0
    BY RefreshAssumption DEF Attempts
  <1> DEFINE t == [FreeAttempt EXCEPT !.pc = "request", !.revision = stateRevision,
                                      !.snapshot = state, !.participants = 1]
             x == [actors[c] EXCEPT !.pc = "wait", !.attempt = a]
  <1>4. /\ t.pc = "request" /\ t.revision = stateRevision /\ t.snapshot = state
        /\ t.participants = 1 /\ t.err = "none" /\ t.cancelled = FALSE
    BY DEF FreeAttempt
  <1>5. t \in RefreshAttempts
    BY <1>0, FreshAttempts, Zenon
  <1>6. x \in ActorStates
    BY <1>0, <1>3, ActorUpdates, Zenon
  <1>7. x.pc = "wait" /\ x.attempt = a /\ x.revision = stateRevision
    BY <1>0, <1>1 DEF ActorStates
  <1>8. attempts' = [attempts EXCEPT ![a] = t] /\ actors' = [actors EXCEPT ![c] = x]
    BY <1>2
  <1> HIDE DEF t, x
  <1>9. /\ \A b \in Attempts : attempts'[b] = IF b = a THEN t ELSE attempts[b]
        /\ \A d \in Actors : actors'[d] = IF d = c THEN x ELSE actors[d]
    BY <1>0, <1>8
  <1>10. /\ UNCHANGED <<state, stateRevision, minted, loginStamp>>
         /\ UNCHANGED <<age, live, revoked, abandoned, announced, faults>>
    BY <1>1 DEF vars, sessionVars, worldVars
  <1>11. RefreshTypeOK'
    <2>1. attempts' \in [Attempts -> RefreshAttempts] /\ actors' \in [Actors -> ActorStates]
      BY <1>0, <1>5, <1>6, <1>8
    <2> QED
      BY <1>1, <1>2, <1>3, <1>10, <2>1 DEF RefreshInv, RefreshTypeOK
  <1>12. \A b \in Attempts : ~Unfinished(b)
    BY <1>1, RefreshAssumption DEF RefreshInv, Flight, SingleFlight, Attempts
  <1>13. \A b \in Attempts : Unfinished(b)' <=> b = a
    BY <1>4, <1>9, <1>12 DEF Unfinished
  <1>14. Flight'
    BY <1>2, <1>13 DEF Flight, SingleFlight
  <1>15. Snapshots'
    BY <1>0, <1>1, <1>4, <1>9, <1>10, <1>13 DEF RefreshInv, Stamps, Snapshots
  <1>16. Grants'
    BY <1>4, <1>9, <1>10 DEF RefreshInv, Grants
  <1>17. Moves
    BY <1>10 DEF Moves
  <1>18. Generations'
    BY <1>1, <1>7, <1>9, <1>17, GenerationFrame
  <1>19. Participants'
    <2>1. attempts[a].participants = 0
      BY <1>2 DEF RefreshInv, Participants
    <2>2. attempts'[a].participants = attempts[a].participants + 1
      BY <1>4, <1>9, <2>1
    <2> QED
      BY <1>1, <1>3, <1>4, <1>7, <1>9, <2>2, ParticipantJoins
  <1>20. Announcements'
    <2>1. \A l \in Actors : Announcing(l)' => Announcing(l)
      BY <1>7, <1>9, <1>10 DEF Announcing
    <2> QED
      BY <1>1, <1>10, <2>1, AnnouncementFrame
  <1> QED
    BY <1>11, <1>14, <1>15, <1>16, <1>18, <1>19, <1>20 DEF RefreshInv

(* Another actor joins the attempt, or waits for its goroutine to end.     *)
LEMMA JoinInv ==
    ASSUME RefreshInv, TypeOK', Stamps', NEW c \in Actors, Join(c)
    PROVE  RefreshInv'
  <1>0. /\ stateRevision \in Nat /\ minted \in Nat /\ loginStamp \in Nat
        /\ actors \in [Actors -> ActorStates] /\ actors[c] \in ActorStates
        /\ attempts \in [Attempts -> RefreshAttempts] /\ refreshAttempt \in 0..MaxAttempts
    BY DEF RefreshInv, RefreshTypeOK, TypeOK
  <1>1. /\ actors[c].pc = "begin" /\ refreshAttempt # 0
        /\ UNCHANGED <<refreshAttempt, refreshSchedule, worldVars, vars>>
    BY DEF Join
  <1>2. PICK a \in Attempts : a = refreshAttempt
    BY <1>0, <1>1, RefreshAssumption DEF Attempts
  <1>3. a \in 0..MaxAttempts /\ a # 0 /\ attempts[a] \in RefreshAttempts
    BY <1>0, <1>1, <1>2
  <1>4. CASE ~Joinable(a)
    <2> DEFINE x == [actors[c] EXCEPT !.pc = "await", !.attempt = a]
    <2>1. actors' = [actors EXCEPT ![c] = x] /\ UNCHANGED attempts
      BY <1>2, <1>4 DEF Join
    <2>2. x \in ActorStates
      BY <1>0, <1>3, ActorUpdates, Zenon
    <2>3. x.pc = "await" /\ x.attempt = a /\ x.revision = actors[c].revision
      BY <1>0 DEF ActorStates
    <2> HIDE DEF x
    <2> QED
      BY <1>1, <1>3, <2>1, <2>2, <2>3, ActorOnly
  <1>5. CASE Joinable(a)
    <2> DEFINE x == [actors[c] EXCEPT !.pc = "wait", !.attempt = a]
    <2>1. attempts[a].participants \in Nat /\ attempts[a].participants > 0
      BY <1>3, <1>5 DEF Joinable, RefreshAttempts
    <2>2. PICK n \in Nat : n = attempts[a].participants + 1
      BY <2>1
    <2> DEFINE t == [attempts[a] EXCEPT !.participants = n]
    <2>3. attempts' = [attempts EXCEPT ![a] = t] /\ actors' = [actors EXCEPT ![c] = x]
      BY <1>2, <1>5, <2>2 DEF Join
    <2>4. x \in ActorStates
      BY <1>0, <1>3, ActorUpdates, Zenon
    <2>5. x.pc = "wait" /\ x.attempt = a /\ x.revision = actors[c].revision
      BY <1>0 DEF ActorStates
    <2>6. t \in RefreshAttempts
      BY <1>3, AttemptUpdates, Zenon
    <2>7. /\ t.pc = attempts[a].pc /\ t.revision = attempts[a].revision
          /\ t.snapshot = attempts[a].snapshot /\ t.err = attempts[a].err
          /\ t.grant = attempts[a].grant /\ t.refresh = attempts[a].refresh
          /\ t.id = attempts[a].id /\ t.participants = n
          /\ t.cancelled = attempts[a].cancelled
      BY <1>3 DEF RefreshAttempts
    <2> HIDE DEF t, x
    <2>8. /\ \A b \in Attempts : attempts'[b] = IF b = a THEN t ELSE attempts[b]
          /\ \A d \in Actors : actors'[d] = IF d = c THEN x ELSE actors[d]
      BY <1>0, <2>3
    <2>9. /\ UNCHANGED <<state, stateRevision, minted, loginStamp>>
          /\ UNCHANGED <<age, live, revoked, abandoned, announced, faults>>
      BY <1>1 DEF vars, sessionVars, worldVars
    <2>10. RefreshTypeOK'
      <3>1. attempts' \in [Attempts -> RefreshAttempts] /\ actors' \in [Actors -> ActorStates]
        BY <1>0, <2>3, <2>4, <2>6
      <3> QED
        BY <1>1, <2>9, <3>1 DEF RefreshInv, RefreshTypeOK
    <2>11. \A b \in Attempts : Unfinished(b)' <=> Unfinished(b)
      BY <2>7, <2>8 DEF Unfinished
    <2>12. Unfinished(a) /\ ~attempts[a].cancelled
      <3>1. Unfinished(a)
        BY <1>1, <1>2 DEF RefreshInv, Flight
      <3>2. Waiting(a) # {}
        BY <2>1, FS_EmptySet DEF RefreshInv, Participants, NobodyElsesCancel
      <3> QED
        BY <3>1, <3>2 DEF RefreshInv, Participants, NobodyElsesCancel
    <2>13. Moves /\ minted' >= minted
      BY <1>0, <2>9 DEF Moves
    <2>14. Flight'
      BY <1>1, <2>11, FlightFrame
    <2>15. Snapshots'
      BY <1>0, <2>7, <2>8, <2>9, <2>11, <2>13, SnapshotFrame
    <2>16. Grants'
      BY <2>7, <2>8, <2>9 DEF RefreshInv, Grants
    <2>17. Generations'
      BY <1>1, <2>5, <2>8, <2>13, GenerationFrame
    <2>18. Participants'
      <3>1. /\ attempts'[a].participants = attempts[a].participants + 1
            /\ attempts'[a].pc # "free" /\ ~attempts'[a].cancelled
        BY <2>2, <2>7, <2>8, <2>12 DEF Unfinished
      <3> QED
        BY <1>1, <1>3, <2>5, <2>8, <3>1, ParticipantJoins
    <2>19. Announcements'
      <3>1. \A l \in Actors : Announcing(l)' => Announcing(l)
        BY <2>5, <2>8, <2>9 DEF Announcing
      <3> QED
        BY <1>1, <2>9, <3>1, AnnouncementFrame
    <2> QED
      BY <2>10, <2>14, <2>15, <2>16, <2>17, <2>18, <2>19 DEF RefreshInv
  <1> QED
    BY <1>4, <1>5

-----------------------------------------------------------------------------
(* An attempt at work.                                                     *)

(* One attempt goes on, and stays at work on the same snapshot.  It may    *)
(* have received a grant, and it may have installed a new generation.      *)
LEMMA AttemptGoesOn ==
    ASSUME RefreshInv, TypeOK', Stamps', NEW a \in Attempts, NEW t \in RefreshAttempts,
           attempts' = [attempts EXCEPT ![a] = t],
           Unfinished(a), t.pc \notin {"free", "draining", "complete"},
           t.revision = attempts[a].revision, t.snapshot = attempts[a].snapshot,
           t.participants = attempts[a].participants, t.cancelled = attempts[a].cancelled,
           t.pc \in {"request", "verify", "commit"} => t.err = "none",
           t.pc \in {"answered", "verify", "commit"} /\ t.err = "none" =>
               /\ t.grant > t.snapshot.access /\ t.grant <= minted' /\ t.grant # loginStamp
               /\ t.refresh \in {0, t.grant} /\ t.id \in {0, t.grant},
           UNCHANGED <<refreshAttempt, actors, refreshSchedule, revoked, faults, loginStamp>>,
           minted' >= minted, age' \in AgeNames, live' \subseteq Nat, abandoned' \subseteq Nat,
           \/ UNCHANGED <<state, stateRevision, announced>>
           \/ /\ stateRevision' = stateRevision + 1 /\ announced' \in {0, 1}
              /\ announced' # 0 => state'.refresh = 0
    PROVE  RefreshInv'
  <1>0. /\ stateRevision \in Nat /\ minted \in Nat /\ loginStamp \in Nat /\ minted' \in Nat
        /\ attempts \in [Attempts -> RefreshAttempts]
    BY DEF RefreshInv, RefreshTypeOK, TypeOK
  <1>1. \A b \in Attempts : attempts'[b] = IF b = a THEN t ELSE attempts[b]
    BY <1>0
  <1>2. RefreshTypeOK'
    <2>1. attempts' \in [Attempts -> RefreshAttempts]
      BY <1>0
    <2>2. announced' \in Nat
      BY DEF RefreshInv, RefreshTypeOK
    <2> QED
      BY <2>1, <2>2 DEF RefreshInv, RefreshTypeOK
  <1>3. \A b \in Attempts : Unfinished(b)' <=> Unfinished(b)
    BY <1>1 DEF Unfinished
  <1>4. Moves
    BY DEF Moves
  <1>5. Flight'
    BY <1>3, FlightFrame
  <1>6. Snapshots'
    BY <1>0, <1>1, <1>3, <1>4, SnapshotFrame
  <1>7. Grants'
    <2> SUFFICES ASSUME NEW b \in Attempts
                 PROVE  /\ attempts'[b].pc \in {"verify", "commit"} => attempts'[b].err = "none"
                        /\ attempts'[b].pc = "request" => attempts'[b].err = "none"
                        /\ attempts'[b].pc \in {"answered", "verify", "commit"}
                              /\ attempts'[b].err = "none" =>
                           /\ attempts'[b].grant > attempts'[b].snapshot.access
                           /\ attempts'[b].grant <= minted'
                           /\ attempts'[b].grant # loginStamp'
                           /\ attempts'[b].refresh \in {0, attempts'[b].grant}
                           /\ attempts'[b].id \in {0, attempts'[b].grant}
      BY DEF Grants
    <2>1. CASE b = a
      BY <1>1, <2>1
    <2>2. CASE b # a
      <3>1. attempts'[b] = attempts[b] /\ attempts[b].grant \in Nat
        BY <1>0, <1>1, <2>2 DEF RefreshAttempts
      <3> QED
        BY <1>0, <3>1 DEF RefreshInv, Grants
    <2> QED
      BY <2>1, <2>2
  <1>8. Generations'
    BY <1>4, GenerationFrame
  <1>9. Participants'
    <2>1. \A b \in Attempts :
             /\ attempts'[b].participants = attempts[b].participants
             /\ attempts'[b].cancelled = attempts[b].cancelled
             /\ attempts'[b].pc = "free" => attempts'[b].participants = 0
      BY <1>1 DEF RefreshInv, Participants
    <2>2. \A c \in Actors :
             /\ actors'[c].pc = "wait" <=> actors[c].pc = "wait"
             /\ actors[c].pc = "wait" => actors'[c].attempt = actors[c].attempt
             /\ actors'[c].pc = "await" => actors'[c].attempt # 0
      BY DEF RefreshInv, Participants
    <2> QED
      BY <1>3, <2>1, <2>2, ParticipantFrame
  <1>10. Announcements'
    <2>1. CASE UNCHANGED <<state, stateRevision, announced>>
      <3>1. \A l \in Actors : Announcing(l)' => Announcing(l)
        BY <2>1 DEF Announcing
      <3> QED
        BY <2>1, <3>1, AnnouncementFrame
    <2>2. CASE /\ stateRevision' = stateRevision + 1 /\ announced' \in {0, 1}
               /\ announced' # 0 => state'.refresh = 0
      BY <2>2, NewGenerationFrame
    <2> QED
      BY <2>1, <2>2
  <1> QED
    BY <1>2, <1>5, <1>6, <1>7, <1>8, <1>9, <1>10 DEF RefreshInv

(* The provider grants: the grant is newer than anything there is.         *)
LEMMA GrantsInv ==
    ASSUME RefreshInv, TypeOK', Stamps', NEW a \in Attempts, ProviderGrants(a)
    PROVE  RefreshInv'
  <1>0. /\ minted \in Nat /\ loginStamp \in Nat /\ attempts[a] \in RefreshAttempts
        /\ attempts[a].snapshot.access \in Nat /\ live \subseteq Nat
        /\ age \in AgeNames /\ abandoned \subseteq Nat
    BY DEF RefreshInv, RefreshTypeOK, TypeOK, RefreshAttempts, TokenStates
  <1>1. PICK serial \in Nat : serial = minted + 1
    BY <1>0
  <1>2. PICK r \in Nat : r = IF Rotating THEN serial ELSE 0
    BY <1>1
  <1>3. PICK id \in {0, serial}, forged \in BOOLEAN :
           /\ attempts' = [attempts EXCEPT ![a] = [@ EXCEPT
                 !.pc = "answered", !.grant = serial, !.refresh = r, !.id = id, !.forged = forged]]
           /\ live' = IF Rotating THEN (live \ {attempts[a].snapshot.refresh}) \cup {serial}
                      ELSE live
    BY <1>1, <1>2 DEF ProviderGrants
  <1>4. /\ attempts[a].pc = "request" /\ minted' = serial
        /\ UNCHANGED <<refreshAttempt, actors, refreshSchedule, age, revoked, abandoned,
                       announced, state, stateRevision, loginStamp, faults>>
    BY <1>1 DEF ProviderGrants
  <1> DEFINE t == [attempts[a] EXCEPT !.pc = "answered", !.grant = serial, !.refresh = r,
                                      !.id = id, !.forged = forged]
  <1>5. id \in Nat
    BY <1>1
  <1>6. t \in RefreshAttempts
    BY <1>0, <1>5, AttemptUpdates, Zenon
  <1>7. /\ t.pc = "answered" /\ t.grant = serial /\ t.refresh = r /\ t.id = id
        /\ t.revision = attempts[a].revision /\ t.snapshot = attempts[a].snapshot
        /\ t.participants = attempts[a].participants /\ t.cancelled = attempts[a].cancelled
    BY <1>0 DEF RefreshAttempts
  <1>8. attempts' = [attempts EXCEPT ![a] = t]
    BY <1>3
  <1> HIDE DEF t
  <1>9. Unfinished(a)
    BY <1>4 DEF Unfinished
  <1>10. /\ serial > t.snapshot.access /\ serial # loginStamp
         /\ r \in {0, serial} /\ minted' >= minted /\ serial <= minted'
    <2>1. attempts[a].snapshot.access <= minted /\ loginStamp <= minted
      BY <1>9 DEF RefreshInv, Snapshots, Stamps
    <2> QED
      BY <1>0, <1>1, <1>2, <1>4, <1>7, <2>1
  <1>11. live' \subseteq Nat
    BY <1>0, <1>1, <1>3
  <1> QED
    BY <1>0, <1>3, <1>4, <1>6, <1>7, <1>8, <1>9, <1>10, <1>11, AttemptGoesOn

(* What refreshFailure makes of an attempt.                                *)
LEMMA FailureFacts ==
    ASSUME RefreshInv, NEW a \in Attempts, NEW err \in Errors, refreshFailure(a, err)
    PROVE  \E t \in RefreshAttempts :
              /\ attempts' = [attempts EXCEPT ![a] = t]
              /\ t.pc \in {"refusal", "finish"}
              /\ t.err = IF attempts[a].revision = stateRevision THEN err ELSE "none"
              /\ t.pc = "refusal" <=> t.err = "refused"
              /\ t.revision = attempts[a].revision /\ t.snapshot = attempts[a].snapshot
              /\ t.participants = attempts[a].participants
              /\ t.cancelled = attempts[a].cancelled
  <1>0. attempts[a] \in RefreshAttempts
    BY DEF RefreshInv, RefreshTypeOK
  <1>1. PICK f \in Errors : f = IF attempts[a].revision = stateRevision THEN err ELSE "none"
    BY DEF Errors
  <1>2. PICK p \in {"refusal", "finish"} : p = IF f = "refused" THEN "refusal" ELSE "finish"
    OBVIOUS
  <1> DEFINE t == [attempts[a] EXCEPT !.err = f, !.pc = p]
  <1>3. attempts' = [attempts EXCEPT ![a] = t]
    BY <1>1, <1>2 DEF refreshFailure
  <1>4. p \in AttemptPCs
    BY DEF AttemptPCs
  <1>5. t \in RefreshAttempts
    BY <1>0, <1>4, AttemptUpdates, Zenon
  <1>6. /\ t.pc = p /\ t.err = f /\ t.revision = attempts[a].revision
        /\ t.snapshot = attempts[a].snapshot
        /\ t.participants = attempts[a].participants /\ t.cancelled = attempts[a].cancelled
    BY <1>0 DEF RefreshAttempts
  <1> HIDE DEF t
  <1> QED
    BY <1>1, <1>2, <1>3, <1>5, <1>6

(* An attempt moves on with what it has, or has installed a generation.    *)
LEMMA AttemptMoves ==
    ASSUME RefreshInv, TypeOK', Stamps', NEW a \in Attempts,
           NEW p \in {"verify", "commit", "committing", "finish"},
           attempts' = [attempts EXCEPT ![a].pc = p], Unfinished(a),
           p \in {"verify", "commit"} =>
               attempts[a].pc \in {"answered", "verify"} /\ attempts[a].err = "none",
           UNCHANGED <<refreshAttempt, actors, refreshSchedule, live, revoked, abandoned, faults>>,
           UNCHANGED <<minted, loginStamp>>, age' \in AgeNames,
           \/ UNCHANGED <<state, stateRevision, announced>>
           \/ /\ stateRevision' = stateRevision + 1 /\ announced' \in {0, 1}
              /\ announced' # 0 => state'.refresh = 0
    PROVE  RefreshInv'
  <1>0. /\ minted \in Nat /\ attempts[a] \in RefreshAttempts /\ live \subseteq Nat
        /\ abandoned \subseteq Nat
    BY DEF RefreshInv, RefreshTypeOK, TypeOK
  <1> DEFINE t == [attempts[a] EXCEPT !.pc = p]
  <1>1. attempts' = [attempts EXCEPT ![a] = t]
    OBVIOUS
  <1>2. p \in AttemptPCs
    BY DEF AttemptPCs
  <1>3. t \in RefreshAttempts
    BY <1>0, <1>2, AttemptUpdates, Zenon
  <1>4. /\ t.pc = p /\ t.revision = attempts[a].revision /\ t.snapshot = attempts[a].snapshot
        /\ t.participants = attempts[a].participants /\ t.cancelled = attempts[a].cancelled
        /\ t.err = attempts[a].err /\ t.grant = attempts[a].grant
        /\ t.refresh = attempts[a].refresh /\ t.id = attempts[a].id
    BY <1>0 DEF RefreshAttempts
  <1> HIDE DEF t
  <1>5. p \in {"verify", "commit"} =>
          /\ attempts[a].grant > attempts[a].snapshot.access
          /\ attempts[a].grant <= minted
          /\ attempts[a].grant # loginStamp
          /\ attempts[a].refresh \in {0, attempts[a].grant}
          /\ attempts[a].id \in {0, attempts[a].grant}
    BY DEF RefreshInv, Grants
  <1>6. minted' >= minted
    BY <1>0
  <1>7. /\ t.pc \notin {"free", "draining", "complete"}
        /\ t.pc \in {"request", "verify", "commit"} => t.err = "none"
        /\ t.pc \in {"answered", "verify", "commit"} /\ t.err = "none" =>
               /\ t.grant > t.snapshot.access /\ t.grant <= minted' /\ t.grant # loginStamp
               /\ t.refresh \in {0, t.grant} /\ t.id \in {0, t.grant}
    BY <1>4, <1>5
  <1> QED
    BY <1>0, <1>1, <1>3, <1>4, <1>6, <1>7, AttemptGoesOn

(* An attempt fails.                                                       *)
LEMMA AttemptFails ==
    ASSUME RefreshInv, TypeOK', Stamps', NEW a \in Attempts, NEW err \in Errors,
           refreshFailure(a, err), Unfinished(a),
           UNCHANGED <<refreshAttempt, actors, refreshSchedule, age, live, revoked, announced,
                       faults>>,
           UNCHANGED <<state, stateRevision, minted, loginStamp>>, abandoned' \subseteq Nat
    PROVE  RefreshInv'
  <1>0. minted \in Nat /\ live \subseteq Nat /\ age \in AgeNames
    BY DEF RefreshInv, RefreshTypeOK, TypeOK
  <1>1. PICK t \in RefreshAttempts :
              /\ attempts' = [attempts EXCEPT ![a] = t]
              /\ t.pc \in {"refusal", "finish"}
              /\ t.revision = attempts[a].revision /\ t.snapshot = attempts[a].snapshot
              /\ t.participants = attempts[a].participants
              /\ t.cancelled = attempts[a].cancelled
    BY FailureFacts
  <1>2. /\ t.pc \notin {"free", "draining", "complete", "request", "answered", "verify", "commit"}
        /\ minted' >= minted
    BY <1>0, <1>1
  <1> QED
    BY <1>0, <1>1, <1>2, AttemptGoesOn

(* The provider rejects, the transport fails, the answer is received and   *)
(* its ID token is verified.                                               *)
LEMMA AnswerInv ==
    ASSUME RefreshInv, TypeOK', Stamps', NEW a \in Attempts,
           ProviderRejects(a) \/ TransportFails(a) \/ ReceiveAnswer(a) \/ VerifyIDToken(a)
    PROVE  RefreshInv'
  <1>0. /\ minted \in Nat /\ attempts[a] \in RefreshAttempts /\ live \subseteq Nat
        /\ abandoned \subseteq Nat /\ attempts[a].err \in Errors
        /\ attempts[a].snapshot.refresh \in Nat /\ age \in AgeNames
    BY DEF RefreshInv, RefreshTypeOK, TypeOK, RefreshAttempts, TokenStates
  <1>1. /\ UNCHANGED <<refreshAttempt, actors, refreshSchedule, age, live, revoked, announced,
                       faults>>
        /\ UNCHANGED <<state, stateRevision, minted, loginStamp>>
    BY DEF ProviderRejects, TransportFails, ReceiveAnswer, VerifyIDToken, worldVars, vars,
           sessionVars
  <1>2. Unfinished(a)
    BY DEF ProviderRejects, TransportFails, ReceiveAnswer, VerifyIDToken, Unfinished
  <1>3. abandoned' \subseteq Nat
    BY <1>0 DEF ProviderRejects, TransportFails, ReceiveAnswer, VerifyIDToken, worldVars
  <1>4. ASSUME NEW err \in Errors, refreshFailure(a, err)
        PROVE  RefreshInv'
    BY <1>1, <1>2, <1>3, <1>4, AttemptFails
  <1>5. CASE TransportFails(a)
    BY <1>4, <1>5 DEF TransportFails, Errors
  <1>6. CASE ProviderRejects(a)
    <2>1. PICK err \in {"refused", "client", "server"} :
             attempts' = [attempts EXCEPT ![a] = [@ EXCEPT !.pc = "answered", !.err = err]]
      BY <1>6 DEF ProviderRejects
    <2> DEFINE t == [attempts[a] EXCEPT !.pc = "answered", !.err = err]
    <2>2. attempts' = [attempts EXCEPT ![a] = t]
      BY <2>1
    <2>3. err \in Errors /\ "answered" \in AttemptPCs
      BY DEF Errors, AttemptPCs
    <2>4. t \in RefreshAttempts
      BY <1>0, <2>3, AttemptUpdates, Zenon
    <2>5. /\ t.pc = "answered" /\ t.err = err
          /\ t.revision = attempts[a].revision /\ t.snapshot = attempts[a].snapshot
          /\ t.participants = attempts[a].participants /\ t.cancelled = attempts[a].cancelled
      BY <1>0 DEF RefreshAttempts
    <2> HIDE DEF t
    <2>6. t.err # "none" /\ minted' >= minted
      BY <1>0, <1>1, <2>5
    <2> QED
      BY <1>0, <1>1, <1>2, <1>3, <2>2, <2>4, <2>5, <2>6, AttemptGoesOn
  <1>7. CASE ReceiveAnswer(a)
    <2>1. CASE attempts[a].err # "none"
      BY <1>0, <1>4, <1>7, <2>1 DEF ReceiveAnswer
    <2>2. CASE attempts[a].err = "none"
      <3>1. PICK p \in {"verify", "commit"} : attempts' = [attempts EXCEPT ![a].pc = p]
        BY <1>7, <2>2 DEF ReceiveAnswer
      <3>2. attempts[a].pc = "answered" /\ UNCHANGED abandoned
        BY <1>7 DEF ReceiveAnswer, worldVars
      <3> QED
        BY <1>0, <1>1, <1>2, <2>2, <3>1, <3>2, AttemptMoves
    <2> QED
      BY <2>1, <2>2
  <1>8. CASE VerifyIDToken(a)
    <2>1. attempts[a].pc = "verify" /\ attempts[a].err = "none" /\ UNCHANGED abandoned
      BY <1>8 DEF VerifyIDToken, worldVars, RefreshInv, Grants
    <2>2. CASE refreshFailure(a, "integrity")
      BY <1>4, <2>2 DEF Errors
    <2>3. CASE attempts' = [attempts EXCEPT ![a].pc = "commit"]
      <3>1. PICK p \in {"verify", "commit"} : attempts' = [attempts EXCEPT ![a].pc = p]
        BY <2>3
      <3> QED
        BY <1>0, <1>1, <1>2, <2>1, <3>1, AttemptMoves
    <2> QED
      BY <1>8, <2>2, <2>3 DEF VerifyIDToken
  <1> QED
    BY <1>5, <1>6, <1>7, <1>8

(* An attempt commits its grant or the refusal, and begins a generation;   *)
(* or its own is gone, or the refusal does not stand.                      *)
LEMMA AttemptCommitsInv ==
    ASSUME RefreshInv, TypeOK', Stamps', NEW a \in Attempts,
           CommitRefresh(a) \/ CommitRefusal(a)
    PROVE  RefreshInv'
  <1>0. age \in AgeNames
    BY DEF RefreshInv, RefreshTypeOK
  <1>1. /\ attempts[a].pc \in {"commit", "refusal"}
        /\ UNCHANGED <<refreshAttempt, actors, refreshSchedule, live, revoked, abandoned, faults>>
        /\ UNCHANGED <<minted, loginStamp>>
    BY DEF CommitRefresh, CommitRefusal
  <1>2. Unfinished(a)
    BY <1>1 DEF Unfinished
  <1>3. PICK p \in {"committing", "finish"} : attempts' = [attempts EXCEPT ![a].pc = p]
    BY DEF CommitRefresh, CommitRefusal
  <1>4. age' \in AgeNames
    BY <1>0 DEF CommitRefresh, CommitRefusal, AgeNames, Ages
  <1>5. \/ UNCHANGED <<state, stateRevision, announced>>
        \/ /\ stateRevision' = stateRevision + 1 /\ announced' \in {0, 1}
           /\ announced' # 0 => state'.refresh = 0
    <2>1. CASE CommitRefresh(a)
      BY <2>1 DEF CommitRefresh, advanceStateLocked
    <2>2. CASE CommitRefusal(a)
      <3>1. RefusedState(attempts[a].snapshot).refresh = 0
        BY DEF RefusedState, ZeroState, RefreshInv, RefreshTypeOK, RefreshAttempts, TokenStates
      <3> QED
        BY <2>2, <3>1 DEF CommitRefusal, advanceStateLocked
    <2> QED
      BY <2>1, <2>2
  <1> QED
    BY <1>1, <1>2, <1>3, <1>4, <1>5, AttemptMoves

-----------------------------------------------------------------------------
(* The rest of the Client and of the world.                                *)

(* Attempts, actors and the schedule stay as they are.                     *)
LEMMA WorldInv ==
    ASSUME RefreshInv, TypeOK', Stamps', UNCHANGED <<refreshVars, faults>>,
           age' \in AgeNames, live' \subseteq Nat, revoked' \subseteq Nat, abandoned' \subseteq Nat,
           minted' >= minted, loginStamp' \in {loginStamp, 0} \/ loginStamp' > minted,
           \/ UNCHANGED <<state, stateRevision>> /\ announced' \in {announced, 0}
           \/ stateRevision' = stateRevision + 1 /\ announced' = 0
    PROVE  RefreshInv'
  <1>0. /\ UNCHANGED <<refreshAttempt, attempts, actors, refreshSchedule>>
        /\ minted' \in Nat /\ loginStamp' \in Nat /\ announced \in Nat
    BY DEF refreshVars, RefreshInv, RefreshTypeOK, TypeOK
  <1>1. RefreshTypeOK'
    <2>1. announced' \in Nat
      BY <1>0
    <2> QED
      BY <1>0, <2>1 DEF RefreshInv, RefreshTypeOK
  <1>2. /\ \A b \in Attempts : Unfinished(b)' <=> Unfinished(b)
        /\ Moves
    BY <1>0 DEF Unfinished, Moves
  <1>3. Flight'
    BY <1>0, <1>2, FlightFrame
  <1>4. Snapshots'
    BY <1>0, <1>2, SnapshotFrame
  <1>5. Grants'
    <2>1. \A b \in Attempts :
             attempts'[b].pc \in {"request", "verify", "commit"} => attempts'[b].err = "none"
      BY <1>0 DEF RefreshInv, Grants
    <2> QED
      BY <1>0, <2>1, GrantFrame
  <1>6. Generations'
    BY <1>0, <1>2, GenerationFrame
  <1>7. Participants'
    BY <1>0, <1>2, ParticipantFrame DEF RefreshInv, Participants
  <1>8. Announcements'
    <2>1. CASE stateRevision' = stateRevision + 1 /\ announced' = 0
      BY <1>0, <2>1, NewGenerationFrame
    <2>2. CASE UNCHANGED <<state, stateRevision>> /\ announced' \in {announced, 0}
      <3>1. \A l \in Actors : Announcing(l)' => Announcing(l)
        BY <1>0, <2>2 DEF Announcing
      <3>2. CASE announced' = announced
        BY <1>0, <2>2, <3>1, <3>2, AnnouncementFrame
      <3>3. CASE announced' = 0
        <4>1. ScheduledFor(stateRevision)' = ScheduledFor(stateRevision)
          BY <1>0, <2>2 DEF ScheduledFor
        <4> QED
          BY <1>0, <2>2, <3>1, <3>3, <4>1 DEF RefreshInv, Announcements, ExpiredOnce
      <3> QED
        BY <2>2, <3>2, <3>3
    <2> QED
      BY <2>1, <2>2
  <1> QED
    BY <1>1, <1>3, <1>4, <1>5, <1>6, <1>7, <1>8 DEF RefreshInv

(* Login, Logout, RestoreSession, the clock and the provider.              *)
LEMMA OthersInv ==
    ASSUME RefreshInv, TypeOK', Stamps',
           \/ Login \/ LoginCommits \/ Logout \/ LogoutDeletes \/ Restore
           \/ LateGrant \/ Tick \/ Revoke \/ UNCHANGED allVars
    PROVE  RefreshInv'
  <1>0. /\ minted \in Nat /\ loginStamp \in Nat /\ age \in AgeNames /\ live \subseteq Nat
        /\ revoked \subseteq Nat /\ abandoned \subseteq Nat /\ minted' \in Nat
        /\ "valid" \in AgeNames
    BY DEF RefreshInv, RefreshTypeOK, TypeOK, AgeNames, Ages
  <1>1. CASE Login
    BY <1>0, <1>1, WorldInv DEF Login, LoginExchange
  <1>2. CASE LoginCommits
    BY <1>0, <1>2, WorldInv DEF LoginCommits, LoginBegin, advanceStateLocked
  <1>3. CASE Logout
    BY <1>0, <1>3, WorldInv DEF Logout, LogoutBegin
  <1>4. CASE LogoutDeletes
    BY <1>0, <1>4, WorldInv DEF LogoutDeletes, LogoutDone, worldVars
  <1>5. CASE Restore
    <2>1. \/ UNCHANGED <<state, stateRevision>> /\ announced' = announced
          \/ stateRevision' = stateRevision + 1 /\ announced' = 0
      <3>1. stateRevision \in Nat
        BY DEF RefreshInv, RefreshTypeOK, TypeOK
      <3> QED
        BY <1>5, <3>1 DEF Restore, RestoreSession, setStateLocked, advanceStateLocked
    <2>2. UNCHANGED <<minted, loginStamp>>
      BY <1>5 DEF Restore, RestoreSession
    <2> QED
      BY <1>0, <1>5, <2>1, <2>2, WorldInv DEF Restore
  <1>6. CASE LateGrant
    BY <1>0, <1>6, WorldInv DEF LateGrant, vars, sessionVars
  <1>7. CASE Tick
    <2>1. age' \in AgeNames
      BY <1>7 DEF Tick, AgeNames
    <2> QED
      BY <1>0, <1>7, <2>1, WorldInv DEF Tick, vars, sessionVars
  <1>8. CASE Revoke
    BY <1>0, <1>8, WorldInv DEF Revoke, vars, sessionVars
  <1>9. CASE UNCHANGED allVars
    BY <1>0, <1>9, WorldInv DEF allVars, worldVars, vars, sessionVars
  <1> QED
    BY <1>1, <1>2, <1>3, <1>4, <1>5, <1>6, <1>7, <1>8, <1>9

-----------------------------------------------------------------------------
(* Attempts end.                                                           *)

(* What Completed makes of an attempt.                                     *)
LEMMA CompletedFacts ==
    ASSUME NEW t \in RefreshAttempts
    PROVE  /\ Completed(t) \in RefreshAttempts
           /\ Completed(t).pc \in {"free", "draining", "complete"}
           /\ Completed(t).pc = "free" => t.participants = 0
           /\ Completed(t).participants = t.participants
  <1>1. Completed(t) \in RefreshAttempts
    BY CompletedType
  <1>2. FreeAttempt.pc = "free" /\ FreeAttempt.participants = 0
    BY DEF FreeAttempt
  <1>3. ASSUME NEW p \in {"draining", "complete"}
        PROVE  /\ [t EXCEPT !.pc = p].pc = p
               /\ [t EXCEPT !.pc = p].participants = t.participants
    BY DEF RefreshAttempts
  <1>4. \/ \E p \in {"draining", "complete"} : Completed(t) = [t EXCEPT !.pc = p]
        \/ Completed(t) = FreeAttempt /\ t.participants = 0
    BY Zenon DEF Completed
  <1> QED
    BY <1>1, <1>2, <1>3, <1>4

(* The attempts change, and nothing that the others look at.               *)
LEMMA AttemptsOnly ==
    ASSUME RefreshInv, TypeOK', Stamps', attempts' \in [Attempts -> RefreshAttempts],
           UNCHANGED <<refreshAttempt, actors, refreshSchedule, worldVars>>,
           UNCHANGED <<state, stateRevision, minted, loginStamp>>,
           \A b \in Attempts :
               \/ attempts'[b] = attempts[b]
               \/ /\ attempts'[b].participants = attempts[b].participants
                  /\ Unfinished(b)' <=> Unfinished(b)
                  /\ attempts'[b].pc \notin {"request", "answered", "verify", "commit"}
                  /\ Unfinished(b)' => /\ attempts'[b].revision = attempts[b].revision
                                       /\ attempts'[b].snapshot = attempts[b].snapshot
                                       /\ attempts'[b].cancelled = attempts[b].cancelled
                  /\ attempts'[b].pc = "free" => attempts'[b].participants = 0
    PROVE  RefreshInv'
  <1>0. /\ UNCHANGED <<age, live, revoked, abandoned, announced, faults>>
        /\ minted \in Nat /\ loginStamp \in Nat
    BY DEF worldVars, RefreshInv, RefreshTypeOK, TypeOK
  <1>1. RefreshTypeOK'
    BY <1>0 DEF RefreshInv, RefreshTypeOK
  <1>2. /\ \A b \in Attempts : Unfinished(b)' <=> Unfinished(b)
        /\ Moves /\ minted' >= minted
    BY <1>0 DEF Unfinished, Moves
  <1>3. Flight'
    BY <1>2, FlightFrame
  <1>4. Snapshots'
    BY <1>0, <1>2, SnapshotFrame
  <1>5. Grants'
    BY DEF RefreshInv, Grants
  <1>6. Generations'
    BY <1>2, GenerationFrame
  <1>7. Participants'
    <2>1. \A b \in Attempts :
             /\ attempts'[b].participants = attempts[b].participants
             /\ Unfinished(b)' => attempts'[b].cancelled = attempts[b].cancelled
             /\ attempts'[b].pc = "free" => attempts'[b].participants = 0
      BY DEF RefreshInv, Participants
    <2> QED
      BY <1>2, <2>1, ParticipantFrame DEF RefreshInv, Participants
  <1>8. Announcements'
    <2>1. \A l \in Actors : Announcing(l)' => Announcing(l)
      BY DEF Announcing
    <2> QED
      BY <1>0, <2>1, AnnouncementFrame
  <1> QED
    BY <1>1, <1>3, <1>4, <1>5, <1>6, <1>7, <1>8 DEF RefreshInv

(* The Save of an attempt's commit returns; the events are drained.        *)
LEMMA StoredInv ==
    ASSUME RefreshInv, TypeOK', Stamps', Stored \/ DrainEvents
    PROVE  RefreshInv'
  <1>0. attempts \in [Attempts -> RefreshAttempts]
    BY DEF RefreshInv, RefreshTypeOK
  <1>1. CASE Stored
    <2>1. /\ UNCHANGED <<refreshAttempt, actors, refreshSchedule, worldVars>>
          /\ UNCHANGED <<state, stateRevision, minted, loginStamp>>
      BY <1>1 DEF Stored, CommitSaved, CommitUnsaved
    <2>2. PICK drain \in BOOLEAN : drain = ~eventDispatching
      BY Zenon
    <2>3. attempts' = [b \in Attempts |->
             IF attempts[b].pc = "committing"
             THEN [attempts[b] EXCEPT !.pc = "finish", !.drain = drain] ELSE attempts[b]]
      BY <1>1, <2>2, Zenon DEF Stored
    <2>4. ASSUME NEW b \in Attempts
          PROVE  /\ attempts'[b] \in RefreshAttempts
                 /\ \/ attempts'[b] = attempts[b]
                    \/ /\ attempts[b].pc = "committing" /\ attempts'[b].pc = "finish"
                       /\ attempts'[b].participants = attempts[b].participants
                       /\ attempts'[b].revision = attempts[b].revision
                       /\ attempts'[b].snapshot = attempts[b].snapshot
                       /\ attempts'[b].cancelled = attempts[b].cancelled
      <3>1. attempts[b] \in RefreshAttempts
        BY <1>0
      <3>2. CASE attempts[b].pc = "committing"
        <4> DEFINE t == [attempts[b] EXCEPT !.pc = "finish", !.drain = drain]
        <4>1. attempts'[b] = t
          BY <2>3, <3>2
        <4>2. t \in RefreshAttempts
          BY <3>1, AttemptUpdates, Zenon
        <4>3. /\ t.pc = "finish" /\ t.participants = attempts[b].participants
              /\ t.revision = attempts[b].revision /\ t.snapshot = attempts[b].snapshot
              /\ t.cancelled = attempts[b].cancelled
          BY <3>1 DEF RefreshAttempts
        <4> HIDE DEF t
        <4> QED
          BY <3>2, <4>1, <4>2, <4>3
      <3>3. CASE attempts[b].pc # "committing"
        BY <2>3, <3>1, <3>3
      <3> QED
        BY <3>2, <3>3
    <2>5. attempts' \in [Attempts -> RefreshAttempts]
      <3>1. attempts' = [b \in Attempts |-> attempts'[b]]
        BY <2>3
      <3> QED
        BY <2>4, <3>1
    <2>6. \A b \in Attempts :
             \/ attempts'[b] = attempts[b]
             \/ /\ attempts'[b].participants = attempts[b].participants
                /\ Unfinished(b)' <=> Unfinished(b)
                /\ attempts'[b].pc \notin {"request", "answered", "verify", "commit", "free"}
                /\ attempts'[b].revision = attempts[b].revision
                /\ attempts'[b].snapshot = attempts[b].snapshot
                /\ attempts'[b].cancelled = attempts[b].cancelled
      BY <2>4 DEF Unfinished
    <2> QED
      BY <2>1, <2>5, <2>6, AttemptsOnly
  <1>2. CASE DrainEvents
    <2>1. /\ UNCHANGED <<refreshAttempt, actors, refreshSchedule, worldVars>>
          /\ UNCHANGED <<state, stateRevision, minted, loginStamp>>
      BY <1>2 DEF DrainEvents, Drain, sessionVars
    <2>2. attempts' = [b \in Attempts |->
             IF attempts[b].pc = "draining" /\ ~eventDispatching'
             THEN Completed([attempts[b] EXCEPT !.drain = FALSE]) ELSE attempts[b]]
      BY <1>2 DEF DrainEvents
    <2>3. ASSUME NEW b \in Attempts
          PROVE  /\ attempts'[b] \in RefreshAttempts
                 /\ \/ attempts'[b] = attempts[b]
                    \/ /\ attempts[b].pc = "draining"
                       /\ attempts'[b].pc \in {"free", "draining", "complete"}
                       /\ attempts'[b].participants = attempts[b].participants
                       /\ attempts'[b].pc = "free" => attempts[b].participants = 0
      <3>1. attempts[b] \in RefreshAttempts
        BY <1>0
      <3>2. CASE attempts[b].pc = "draining" /\ ~eventDispatching'
        <4> DEFINE t == [attempts[b] EXCEPT !.drain = FALSE]
        <4>1. attempts'[b] = Completed(t)
          BY <2>2, <3>2
        <4>2. t \in RefreshAttempts
          BY <3>1, AttemptUpdates, Zenon
        <4>3. t.participants = attempts[b].participants
          BY <3>1 DEF RefreshAttempts
        <4> HIDE DEF t
        <4> QED
          BY <3>2, <4>1, <4>2, <4>3, CompletedFacts
      <3>3. CASE ~(attempts[b].pc = "draining" /\ ~eventDispatching')
        BY <2>2, <3>1, <3>3
      <3> QED
        BY <3>2, <3>3
    <2>4. attempts' \in [Attempts -> RefreshAttempts]
      <3>1. attempts' = [b \in Attempts |-> attempts'[b]]
        BY <2>2
      <3> QED
        BY <2>3, <3>1
    <2>5. \A b \in Attempts :
             \/ attempts'[b] = attempts[b]
             \/ /\ attempts'[b].participants = attempts[b].participants
                /\ ~Unfinished(b)' /\ ~Unfinished(b)
                /\ attempts'[b].pc \notin {"request", "answered", "verify", "commit"}
                /\ attempts'[b].pc = "free" => attempts'[b].participants = 0
      BY <2>3 DEF Unfinished
    <2> QED
      BY <2>1, <2>4, <2>5, AttemptsOnly
  <1> QED
    BY <1>1, <1>2

(* An attempt publishes its result: whoever waits for it waits on, whoever *)
(* could not join it begins again, and the next attempt may begin.         *)
LEMMA FinishInv ==
    ASSUME RefreshInv, TypeOK', Stamps', NEW a \in Attempts, finishRefreshAttempt(a)
    PROVE  RefreshInv'
  <1>0. /\ attempts \in [Attempts -> RefreshAttempts] /\ attempts[a] \in RefreshAttempts
        /\ actors \in [Actors -> ActorStates] /\ refreshSchedule \in Schedules
        /\ attempts[a].revision \in Nat /\ attempts[a].participants \in Nat
        /\ attempts[a].err \in Errors /\ attempts[a].drain \in BOOLEAN
        /\ minted \in Nat /\ loginStamp \in Nat
    BY DEF RefreshInv, RefreshTypeOK, TypeOK, RefreshAttempts
  <1>1. /\ attempts[a].pc = "finish" /\ refreshAttempt' = 0 /\ UNCHANGED <<worldVars, vars>>
    BY DEF finishRefreshAttempt
  <1>2. Unfinished(a)
    BY <1>1 DEF Unfinished
  <1>3. /\ UNCHANGED <<state, stateRevision, minted, loginStamp>>
        /\ UNCHANGED <<age, live, revoked, abandoned, announced, faults>>
    BY <1>1 DEF vars, sessionVars, worldVars
  <1>4. \/ refreshSchedule' = refreshSchedule
        \/ state.refresh # 0 /\ Rescheduled(refreshSchedule')
    <2>1. \/ refreshSchedule' = refreshSchedule
          \/ refreshSchedule' = blockRefreshIntegrityLocked(attempts[a].revision)
          \/ refreshSchedule' = blockRefreshPermanentLocked(attempts[a].revision)
          \/ refreshSchedule' = markRefreshInconclusiveLocked(attempts[a].revision)
      <3>1. PICK gaveUp \in BOOLEAN :
               gaveUp = (attempts[a].err = "transport" /\ attempts[a].cancelled)
        BY Zenon
      <3>2. refreshSchedule' =
              CASE attempts[a].err = "integrity" ->
                      blockRefreshIntegrityLocked(attempts[a].revision)
                [] attempts[a].err \in PermanentErrors ->
                      blockRefreshPermanentLocked(attempts[a].revision)
                [] gaveUp -> markRefreshInconclusiveLocked(attempts[a].revision)
                [] OTHER -> refreshSchedule
        BY <3>1, Zenon DEF finishRefreshAttempt
      <3> QED
        BY <3>2
    <2>2. \/ refreshSchedule' = refreshSchedule
          \/ attempts[a].revision = stateRevision /\ Rescheduled(refreshSchedule')
      BY <1>0, <2>1, BlockFacts
    <2>3. attempts[a].revision = stateRevision => state.refresh # 0
      BY <1>2 DEF RefreshInv, Snapshots
    <2> QED
      BY <2>2, <2>3
  <1> DEFINE t == [FreeAttempt EXCEPT !.participants = attempts[a].participants,
                                      !.err = attempts[a].err, !.drain = attempts[a].drain]
             u == Completed(t)
  <1>5. attempts' = [attempts EXCEPT ![a] = u]
    BY DEF finishRefreshAttempt
  <1>6. t \in RefreshAttempts
    BY <1>0, FreshAttempts, Zenon
  <1>7. t.participants = attempts[a].participants
    BY DEF FreeAttempt
  <1> HIDE DEF t
  <1>8. /\ u \in RefreshAttempts /\ u.pc \in {"free", "draining", "complete"}
        /\ u.participants = attempts[a].participants
        /\ u.pc = "free" => u.participants = 0
    BY <1>6, <1>7, CompletedFacts
  <1> HIDE DEF u
  <1>9. \A b \in Attempts : attempts'[b] = IF b = a THEN u ELSE attempts[b]
    BY <1>0, <1>5
  <1>10. ASSUME NEW c \in Actors
         PROVE  /\ actors'[c] \in ActorStates
                /\ \/ actors'[c] = actors[c]
                   \/ /\ actors[c].pc = "await" /\ actors'[c].pc = "begin"
                      /\ actors'[c].revision = actors[c].revision
    <2>1. actors[c] \in ActorStates
      BY <1>0
    <2>2. PICK zero \in 0..MaxAttempts : zero = 0
      BY RefreshAssumption
    <2>3. CASE actors[c].pc = "await" /\ actors[c].attempt = a
      <3> DEFINE x == [actors[c] EXCEPT !.pc = "begin", !.attempt = zero]
      <3>1. actors'[c] = x
        BY <2>2, <2>3 DEF finishRefreshAttempt
      <3>2. x \in ActorStates
        BY <2>1, ActorUpdates, Zenon
      <3>3. x.pc = "begin" /\ x.revision = actors[c].revision
        BY <2>1 DEF ActorStates
      <3> HIDE DEF x
      <3> QED
        BY <2>3, <3>1, <3>2, <3>3
    <2>4. CASE ~(actors[c].pc = "await" /\ actors[c].attempt = a)
      BY <2>1, <2>4 DEF finishRefreshAttempt
    <2> QED
      BY <2>3, <2>4
  <1>11. RefreshTypeOK'
    <2>1. actors' \in [Actors -> ActorStates]
      <3>1. actors' = [c \in Actors |-> actors'[c]]
        BY DEF finishRefreshAttempt
      <3> QED
        BY <1>10, <3>1
    <2>2. attempts' \in [Attempts -> RefreshAttempts] /\ refreshAttempt' \in 0..MaxAttempts
      BY <1>0, <1>1, <1>5, <1>8, RefreshAssumption
    <2>3. refreshSchedule' \in Schedules
      BY <1>0, <1>4 DEF Rescheduled
    <2> QED
      BY <1>3, <2>1, <2>2, <2>3 DEF RefreshInv, RefreshTypeOK
  <1>12. \A b \in Attempts : ~Unfinished(b)'
    <2>1. \A b \in Attempts : Unfinished(b) => b = a
      BY <1>2 DEF RefreshInv, Flight, SingleFlight
    <2> QED
      BY <1>8, <1>9, <2>1 DEF Unfinished
  <1>13. Flight' /\ Snapshots'
    BY <1>1, <1>12 DEF Flight, SingleFlight, Snapshots
  <1>14. Grants'
    BY <1>3, <1>8, <1>9 DEF RefreshInv, Grants
  <1>15. Moves
    BY <1>3 DEF Moves
  <1>16. Generations'
    BY <1>3, <1>4, <1>10, <1>15, GenerationFrame
  <1>17. Participants'
    <2>1. \A c \in Actors :
             /\ actors'[c].pc = "wait" <=> actors[c].pc = "wait"
             /\ actors[c].pc = "wait" => actors'[c].attempt = actors[c].attempt
             /\ actors'[c].pc = "await" => actors'[c].attempt # 0
      BY <1>10 DEF RefreshInv, Participants
    <2>2. \A b \in Attempts :
             /\ attempts'[b].participants = attempts[b].participants
             /\ attempts'[b].pc = "free" => attempts'[b].participants = 0
      BY <1>8, <1>9 DEF RefreshInv, Participants
    <2> QED
      BY <1>12, <2>1, <2>2, ParticipantFrame
  <1>18. Announcements'
    <2>1. \A l \in Actors : Announcing(l)' => Announcing(l)
      BY <1>3, <1>10 DEF Announcing
    <2> QED
      BY <1>3, <1>4, <2>1, AnnouncementFrame
  <1> QED
    BY <1>11, <1>13, <1>14, <1>16, <1>17, <1>18 DEF RefreshInv

-----------------------------------------------------------------------------
(* The invariant and what follows from it.                                 *)

(* The inductive step, one case for each kind of action.                   *)
LEMMA RefreshInvStep ==
    ASSUME RefreshInv, [RefreshNext]_allVars
    PROVE  RefreshInv'
  <1>1. [Next]_vars
    BY SessionStep
  <1>2. TypeOK' /\ Stamps'
    BY <1>1, TypeStep, StampsStep DEF RefreshInv, RefreshTypeOK
  <1>3. ASSUME NEW c \in Actors, ActorNext(c) \/ Leave(c)
        PROVE  RefreshInv'
    BY <1>2, <1>3, ReturnsInv, LeadInv, JoinInv DEF ActorNext
  <1>4. ASSUME NEW c \in Callers, AccessToken(c) \/ Leave(c) \/ CallerNext(c)
        PROVE  RefreshInv'
    BY <1>2, <1>3, <1>4, CallerInv DEF CallerNext, Actors
  <1>5. ASSUME NEW l \in Loops, Leave(l) \/ LoopNext(l)
        PROVE  RefreshInv'
    BY <1>2, <1>3, <1>5, LoopInv, AnnouncesInv, EmitInv DEF LoopNext, Actors
  <1>6. ASSUME NEW a \in Attempts, ProviderNext(a) \/ AttemptNext(a)
        PROVE  RefreshInv'
    BY <1>2, <1>6, GrantsInv, AnswerInv, AttemptCommitsInv, FinishInv
    DEF ProviderNext, AttemptNext
  <1>7. CASE \/ Login \/ LoginCommits \/ Logout \/ LogoutDeletes \/ Restore
             \/ LateGrant \/ Tick \/ Revoke \/ UNCHANGED allVars
    BY <1>2, <1>7, OthersInv
  <1>8. CASE Stored \/ DrainEvents
    BY <1>2, <1>8, StoredInv
  <1> QED
    BY <1>4, <1>5, <1>6, <1>7, <1>8 DEF RefreshNext

(* A new Client has no attempts, and nobody waits.                         *)
LEMMA RefreshInvInit == RefreshInit => RefreshInv
  <1> SUFFICES ASSUME RefreshInit
               PROVE  RefreshInv
    OBVIOUS
  <1>1. TypeOK
    BY TypeInit DEF RefreshInit
  <1>2. \A a \in Attempts : attempts[a] = FreeAttempt
    BY DEF RefreshInit
  <1>3. \A c \in Actors : actors[c] = IdleActor
    BY DEF RefreshInit
  <1>4. /\ FreeAttempt.pc = "free" /\ FreeAttempt.participants = 0 /\ IdleActor.pc = "idle"
        /\ refreshAttempt = 0 /\ announced = 0
    BY DEF FreeAttempt, IdleActor, RefreshInit
  <1>5. refreshSchedule \in Schedules /\ ~refreshSchedule.valid
    <2>1. PICK s \in Schedules : s = NewSchedule(0)
      BY ScheduleUpdates
    <2>2. [s EXCEPT !.valid = FALSE] \in Schedules
      BY ScheduleUpdates, Zenon
    <2>3. refreshSchedule = [s EXCEPT !.valid = FALSE]
      BY <2>1 DEF RefreshInit
    <2> QED
      BY <2>2, <2>3 DEF Schedules
  <1>6. RefreshTypeOK
    <2>1. attempts \in [Attempts -> RefreshAttempts]
      BY FreshAttempts DEF RefreshInit
    <2>2. actors \in [Actors -> ActorStates]
      BY ActorUpdates DEF RefreshInit
    <2>3. /\ refreshAttempt \in 0..MaxAttempts /\ age \in AgeNames /\ announced \in Nat
          /\ live \subseteq Nat /\ revoked \subseteq Nat /\ abandoned \subseteq Nat
          /\ faults \in Scenarios
      BY RefreshAssumption DEF RefreshInit, AgeNames, Ages
    <2> QED
      BY <1>1, <1>5, <2>1, <2>2, <2>3 DEF RefreshTypeOK
  <1>7. Stamps
    BY ZeroIsZero DEF RefreshInit, Init, Stamps
  <1>8. \A a \in Attempts : ~Unfinished(a) /\ Waiting(a) = {}
    BY <1>2, <1>3, <1>4 DEF Unfinished, Waiting
  <1>9. Flight /\ Snapshots /\ Grants
    BY <1>2, <1>4, <1>8 DEF Flight, SingleFlight, Snapshots, Grants
  <1>10. Generations /\ Announcements
    BY <1>3, <1>4, <1>5 DEF Generations, Announcements, Announcing, ExpiredOnce, ScheduledFor
  <1>11. Participants
    BY <1>2, <1>3, <1>4, <1>8, FS_EmptySet DEF Participants, NobodyElsesCancel
  <1> QED
    BY <1>6, <1>7, <1>9, <1>10, <1>11 DEF RefreshInv

(* RefreshInv holds in every reachable state.                              *)
LEMMA RefreshInvariant == RefreshSpec => []RefreshInv
  <1>1. RefreshInv /\ [RefreshNext]_allVars => RefreshInv'
    BY RefreshInvStep
  <1> QED
    BY <1>1, RefreshInvInit, PTL DEF RefreshSpec

(* The variables of the refresh grant always have their types.             *)
THEOREM RefreshTypeCorrect == RefreshSpec => []RefreshTypeOK
  <1>1. RefreshInv => RefreshTypeOK
    BY DEF RefreshInv
  <1> QED
    BY <1>1, RefreshInvariant, PTL

(* However many callers and loops there are, at most one refresh token is  *)
(* on its way to the provider (beginRefreshAttempt, finishRefreshAttempt). *)
THEOREM OneRefreshInFlight == RefreshSpec => []SingleFlight
  <1>1. RefreshInv => SingleFlight
    BY DEF RefreshInv, Flight
  <1> QED
    BY <1>1, RefreshInvariant, PTL

(* Every goroutine in waitForRefreshAttempt is counted, and none waits for *)
(* an attempt that others have cancelled (releaseRefreshParticipant).      *)
THEOREM NobodyElseIsCancelled == RefreshSpec => []NobodyElsesCancel
  <1>1. RefreshInv => NobodyElsesCancel
    BY DEF RefreshInv, Participants
  <1> QED
    BY <1>1, RefreshInvariant, PTL

(* No generation is announced as expired twice, by a refusal and a loop or *)
(* by two loops (commitCredentialRefusal, emitEventIfRevision).            *)
THEOREM ExpiredIsAnnouncedOnce == RefreshSpec => []ExpiredOnce
  <1>1. RefreshInv => ExpiredOnce
    BY DEF RefreshInv, Announcements
  <1> QED
    BY <1>1, RefreshInvariant, PTL

(* The refresh grant implements the token-state core: every step is one of *)
(* Session or leaves its state alone.                                      *)
THEOREM RefreshImplementsSession == RefreshSpec => ImplementsSession
  <1>1. RefreshInit => Init
    BY DEF RefreshInit
  <1>2. RefreshInv /\ [RefreshNext]_allVars => [Next]_vars
    BY SessionStep
  <1> QED
    BY <1>1, <1>2, RefreshInvariant, PTL DEF RefreshSpec, ImplementsSession, Spec

(* So what is proved of the core holds with refreshes in flight: nothing   *)
(* that is in memory is lost, credentials never move back, and the last    *)
(* event tells the truth (pkceflow.go, events.go).                         *)
COROLLARY RefreshKeepsSession ==
    RefreshSpec => /\ []DurableOrPending
                   /\ CredentialsOnlyMoveForward
                   /\ []LastEventTellsTruth
  BY RefreshImplementsSession, NothingLost, MovesForward, EventsTellTruth, PTL
  DEF ImplementsSession

-----------------------------------------------------------------------------
(* Refusals.  A refusal is genuine as long as no loop overwrites an        *)
(* integrity block and no reload begins a new generation with a spent      *)
(* token: without loops, and with a store that keeps the Go value.         *)

\* The provider accepts the token until it is revoked: no request that was given
\* up can still spend it.
Good(token) ==
    \/ token \in revoked
    \/ token \in live /\ (Rotating => token \notin abandoned)

\* a has received a grant that it has not committed.
HasGrant(a) ==
    attempts[a].pc \in {"answered", "verify", "commit"} /\ attempts[a].err = "none"

\* a has spent the token of the generation in memory, and has a new one or is
\* about to record that it has not.
Spending(a) ==
    /\ attempts[a].revision = stateRevision
    /\ \/ HasGrant(a)
       \/ /\ attempts[a].pc = "finish"
          /\ \/ attempts[a].err = "integrity"
             \/ attempts[a].err = "transport" /\ attempts[a].cancelled

\* Tokens are minted once: those in memory, on their way and in the hands of the
\* provider differ where they should.
TokensDiffer ==
    /\ \A token \in live \cup abandoned : token <= minted
    /\ state.refresh <= minted
    /\ loginStamp # 0 =>
          /\ loginStamp \in live \cup revoked /\ loginStamp \notin abandoned
          /\ loginStamp # state.refresh
    /\ \A a \in Attempts : Unfinished(a) =>
          /\ attempts[a].snapshot.refresh <= minted
          /\ attempts[a].snapshot.refresh # loginStamp
          /\ Rotating /\ attempts[a].revision # stateRevision =>
                attempts[a].snapshot.refresh # state.refresh
    /\ \A a \in Attempts : HasGrant(a) =>
          /\ attempts[a].refresh = IF Rotating THEN attempts[a].grant ELSE 0
          /\ Rotating => /\ attempts[a].grant \in live \cup revoked
                         /\ attempts[a].grant \notin abandoned
                         /\ attempts[a].grant # state.refresh
                         /\ attempts[a].grant # attempts[a].snapshot.refresh

\* The token in memory is good, or it is known or about to be known that it may
\* have been spent.
SpentIsKnown ==
    "lost" \notin faults /\ state.refresh # 0 =>
        \/ Good(state.refresh)
        \/ /\ Rotating
           /\ \/ refreshInconclusiveLocked(stateRevision)
              \/ refreshIntegrityBlockedLocked
              \/ \E a \in Attempts : Spending(a)

\* A refused token is not accepted again.
RefusedIsGone ==
    \A a \in Attempts :
        attempts[a].pc = "refusal" \/ (attempts[a].pc = "answered" /\ attempts[a].err = "refused")
            => attempts[a].snapshot.refresh \notin live

\* A blocked generation has no attempt at work, and whoever learned of an
\* integrity failure learned of one that is recorded.
IntegrityIsKnown ==
    /\ \A a \in Attempts : Unfinished(a) /\ attempts[a].revision = stateRevision =>
          ~refreshIntegrityBlockedLocked
    /\ \A c \in Actors : actors[c].revision = stateRevision =>
          /\ actors[c].pc = "returned" /\ actors[c].err = "integrity" =>
                refreshIntegrityBlockedLocked
          /\ \A a \in Attempts : actors[c].pc = "wait" /\ actors[c].attempt = a =>
                /\ Unfinished(a) => attempts[a].revision = stateRevision
                /\ ~Unfinished(a) /\ attempts[a].err = "integrity" =>
                      refreshIntegrityBlockedLocked

GenuineInv ==
    /\ TokensDiffer
    /\ SpentIsKnown
    /\ RefusedIsGone
    /\ IntegrityIsKnown
    /\ stateRevision = 0 => store = ZeroState

(* No token is minted, moved or given up.                                  *)
LEMMA TokensFrame ==
    ASSUME TokensDiffer,
           UNCHANGED <<state, stateRevision, minted, loginStamp, live, revoked, abandoned>>,
           \A b \in Attempts : Unfinished(b)' =>
               \/ /\ Unfinished(b)
                  /\ attempts'[b].revision = attempts[b].revision
                  /\ attempts'[b].snapshot = attempts[b].snapshot
               \/ /\ attempts'[b].revision = stateRevision /\ attempts'[b].snapshot = state
                  /\ state.refresh # loginStamp,
           \A b \in Attempts : HasGrant(b)' =>
               /\ HasGrant(b)
               /\ attempts'[b].grant = attempts[b].grant
               /\ attempts'[b].refresh = attempts[b].refresh
               /\ attempts'[b].snapshot = attempts[b].snapshot
    PROVE  TokensDiffer'
  <1>1. /\ \A token \in live' \cup abandoned' : token <= minted'
        /\ state'.refresh <= minted'
        /\ loginStamp' # 0 =>
              /\ loginStamp' \in live' \cup revoked' /\ loginStamp' \notin abandoned'
              /\ loginStamp' # state'.refresh
    BY DEF TokensDiffer
  <1>2. ASSUME NEW b \in Attempts, Unfinished(b)'
        PROVE  /\ attempts'[b].snapshot.refresh <= minted'
               /\ attempts'[b].snapshot.refresh # loginStamp'
               /\ Rotating /\ attempts'[b].revision # stateRevision' =>
                     attempts'[b].snapshot.refresh # state'.refresh
    BY <1>2 DEF TokensDiffer
  <1>3. ASSUME NEW b \in Attempts, HasGrant(b)'
        PROVE  /\ attempts'[b].refresh = IF Rotating THEN attempts'[b].grant ELSE 0
               /\ Rotating => /\ attempts'[b].grant \in live' \cup revoked'
                              /\ attempts'[b].grant \notin abandoned'
                              /\ attempts'[b].grant # state'.refresh
                              /\ attempts'[b].grant # attempts'[b].snapshot.refresh
    BY <1>3 DEF TokensDiffer
  <1> QED
    BY <1>1, <1>2, <1>3 DEF TokensDiffer

(* The token in memory stays, and what is known of it.                     *)
LEMMA SpentFrame ==
    ASSUME SpentIsKnown,
           UNCHANGED <<state, stateRevision, live, revoked, abandoned, faults>>,
           refreshInconclusiveLocked(stateRevision) => refreshInconclusiveLocked(stateRevision)',
           refreshIntegrityBlockedLocked => refreshIntegrityBlockedLocked',
           \A b \in Attempts : "lost" \notin faults /\ Spending(b) =>
               \/ Spending(b)' \/ refreshInconclusiveLocked(stateRevision)'
               \/ refreshIntegrityBlockedLocked'
    PROVE  SpentIsKnown'
  <1>1. state.refresh # 0 => (Good(state.refresh) => Good(state.refresh)')
    BY DEF Good
  <1> QED
    BY <1>1 DEF SpentIsKnown

(* No token becomes acceptable again, and nothing is refused.              *)
LEMMA RefusedFrame ==
    ASSUME RefreshInv, RefusedIsGone, TokensDiffer,
           \A token \in live' : token \in live \/ token > minted,
           \A b \in Attempts :
               attempts'[b].pc = "refusal"
                  \/ (attempts'[b].pc = "answered" /\ attempts'[b].err = "refused") =>
                     /\ attempts[b].pc = "refusal"
                           \/ (attempts[b].pc = "answered" /\ attempts[b].err = "refused")
                     /\ attempts'[b].snapshot = attempts[b].snapshot
    PROVE  RefusedIsGone'
  <1> SUFFICES ASSUME NEW b \in Attempts,
                      attempts'[b].pc = "refusal"
                         \/ (attempts'[b].pc = "answered" /\ attempts'[b].err = "refused")
               PROVE  attempts'[b].snapshot.refresh \notin live'
    BY DEF RefusedIsGone
  <1>1. attempts[b].snapshot.refresh \notin live /\ Unfinished(b)
    BY DEF RefusedIsGone, Unfinished
  <1>2. attempts[b].snapshot.refresh \in Nat /\ minted \in Nat
    BY DEF RefreshInv, RefreshTypeOK, RefreshAttempts, TokenStates, TypeOK
  <1>3. attempts[b].snapshot.refresh <= minted
    BY <1>1 DEF TokensDiffer
  <1>4. attempts[b].snapshot.refresh \notin live'
    BY <1>1, <1>2, <1>3
  <1> QED
    BY <1>4

(* Nobody learns of an integrity failure, and the block stays as it is.    *)
LEMMA IntegrityFrame ==
    ASSUME IntegrityIsKnown, UNCHANGED stateRevision,
           refreshIntegrityBlockedLocked' <=> refreshIntegrityBlockedLocked,
           \A b \in Attempts :
               /\ Unfinished(b)' => /\ attempts'[b].revision = attempts[b].revision
                                    /\ Unfinished(b)
               /\ ~Unfinished(b)' /\ attempts'[b].err = "integrity" =>
                     ~Unfinished(b) /\ attempts[b].err = "integrity",
           \A c \in Actors : actors'[c].revision = stateRevision =>
               /\ actors'[c].pc = "returned" /\ actors'[c].err = "integrity" =>
                     \/ refreshIntegrityBlockedLocked
                     \/ /\ actors[c].pc = "returned" /\ actors[c].err = "integrity"
                        /\ actors[c].revision = actors'[c].revision
               /\ actors'[c].pc = "wait" =>
                     /\ actors[c].pc = "wait" /\ actors[c].attempt = actors'[c].attempt
                     /\ actors[c].revision = actors'[c].revision
    PROVE  IntegrityIsKnown'
  <1>1. \A b \in Attempts : Unfinished(b)' /\ attempts'[b].revision = stateRevision' =>
          ~refreshIntegrityBlockedLocked'
    BY DEF IntegrityIsKnown
  <1>2. ASSUME NEW c \in Actors, actors'[c].revision = stateRevision'
        PROVE  /\ actors'[c].pc = "returned" /\ actors'[c].err = "integrity" =>
                     refreshIntegrityBlockedLocked'
               /\ \A b \in Attempts : actors'[c].pc = "wait" /\ actors'[c].attempt = b =>
                     /\ Unfinished(b)' => attempts'[b].revision = stateRevision'
                     /\ ~Unfinished(b)' /\ attempts'[b].err = "integrity" =>
                           refreshIntegrityBlockedLocked'
    BY <1>2 DEF IntegrityIsKnown
  <1> QED
    BY <1>1, <1>2 DEF IntegrityIsKnown

(* Nobody knows anything of a new generation.                              *)
LEMMA NewGenerationIntegrity ==
    ASSUME RefreshInv, stateRevision' = stateRevision + 1, UNCHANGED <<actors, refreshSchedule>>,
           \A b \in Attempts : Unfinished(b)' =>
               Unfinished(b) /\ attempts'[b].revision = attempts[b].revision
    PROVE  /\ IntegrityIsKnown'
           /\ \A b \in Attempts : Unfinished(b)' => attempts'[b].revision # stateRevision'
  <1>1. stateRevision \in Nat
    BY DEF RefreshInv, RefreshTypeOK, TypeOK
  <1>2. ASSUME NEW b \in Attempts, Unfinished(b)'
        PROVE  attempts'[b].revision # stateRevision'
    <2>1. attempts[b].revision <= stateRevision /\ attempts[b].revision \in Nat
      BY <1>2 DEF RefreshInv, Snapshots, RefreshTypeOK, RefreshAttempts
    <2> QED
      BY <1>1, <1>2, <2>1
  <1>3. ASSUME NEW c \in Actors, actors[c].pc # "idle"
        PROVE  actors'[c].revision # stateRevision'
    <2>1. actors[c].revision <= stateRevision /\ actors[c].revision \in Nat
      BY <1>3 DEF RefreshInv, Generations, RefreshTypeOK, ActorStates
    <2> QED
      BY <1>1, <2>1
  <1> QED
    BY <1>2, <1>3 DEF IntegrityIsKnown

(* What the schedule updates keep.                                         *)
LEMMA BlocksRemember ==
    ASSUME RefreshInv, NEW revision \in Nat, UNCHANGED stateRevision,
           \/ refreshSchedule' = refreshSchedule
           \/ refreshSchedule' = blockRefreshIntegrityLocked(revision)
           \/ refreshSchedule' = blockRefreshPermanentLocked(revision)
           \/ refreshSchedule' = markRefreshInconclusiveLocked(revision)
    PROVE  /\ refreshInconclusiveLocked(stateRevision) => refreshInconclusiveLocked(stateRevision)'
           /\ refreshIntegrityBlockedLocked => refreshIntegrityBlockedLocked'
           /\ refreshIntegrityBlockedLocked' =>
                 \/ refreshIntegrityBlockedLocked
                 \/ /\ revision = stateRevision
                    /\ refreshSchedule' = blockRefreshIntegrityLocked(revision)
  <1>1. refreshSchedule \in Schedules
    BY DEF RefreshInv, RefreshTypeOK
  <1> DEFINE base == refreshScheduleLocked(revision)
  <1>2. /\ base \in Schedules /\ base.valid /\ base.revision = revision
        /\ ScheduledFor(revision) => base = refreshSchedule
        /\ ~ScheduledFor(revision) => base.disposition = "active" /\ ~base.inconclusive
    BY <1>1, ScheduleUpdates DEF refreshScheduleLocked, ScheduledFor, NewSchedule
  <1> HIDE DEF base
  <1>3. CASE refreshSchedule' = refreshSchedule
    BY <1>3 DEF refreshInconclusiveLocked, refreshIntegrityBlockedLocked, ScheduledFor
  <1>4. CASE revision = stateRevision /\ refreshSchedule' = [base EXCEPT !.disposition = "integrity"]
    <2>1. refreshSchedule' = blockRefreshIntegrityLocked(revision)
      BY <1>4 DEF blockRefreshIntegrityLocked, base
    <2> QED
      BY <1>2, <1>4, <2>1
      DEF refreshInconclusiveLocked, refreshIntegrityBlockedLocked, ScheduledFor, Schedules
  <1>5. CASE /\ revision = stateRevision /\ ~refreshIntegrityBlockedLocked
             /\ refreshSchedule' = [base EXCEPT !.disposition = "permanent"]
    BY <1>2, <1>5
    DEF refreshInconclusiveLocked, refreshIntegrityBlockedLocked, ScheduledFor, Schedules
  <1>6. CASE revision = stateRevision /\ refreshSchedule' = [base EXCEPT !.inconclusive = TRUE]
    BY <1>2, <1>6
    DEF refreshInconclusiveLocked, refreshIntegrityBlockedLocked, ScheduledFor, Schedules
  <1> QED
    BY <1>3, <1>4, <1>5, <1>6
    DEF base, blockRefreshIntegrityLocked, blockRefreshPermanentLocked,
        markRefreshInconclusiveLocked

(* Steps of callers and attempts that neither begin nor end an attempt,    *)
(* and move no token.                                                      *)
LEMMA GenuineStill ==
    ASSUME RefreshInv, GenuineInv,
           UNCHANGED <<state, stateRevision, minted, loginStamp, live, revoked, abandoned, faults>>,
           stateRevision' = 0 => store' = ZeroState,
           RefusedIsGone',
           refreshIntegrityBlockedLocked' <=> refreshIntegrityBlockedLocked,
           refreshInconclusiveLocked(stateRevision) => refreshInconclusiveLocked(stateRevision)',
           \A b \in Attempts :
               /\ Unfinished(b)' => /\ Unfinished(b)
                                    /\ attempts'[b].revision = attempts[b].revision
                                    /\ attempts'[b].snapshot = attempts[b].snapshot
               /\ HasGrant(b)' => /\ HasGrant(b)
                                  /\ attempts'[b].grant = attempts[b].grant
                                  /\ attempts'[b].refresh = attempts[b].refresh
                                  /\ attempts'[b].snapshot = attempts[b].snapshot
               /\ "lost" \notin faults /\ Spending(b) => Spending(b)'
               /\ ~Unfinished(b)' /\ attempts'[b].err = "integrity" =>
                     ~Unfinished(b) /\ attempts[b].err = "integrity",
           \A c \in Actors : actors'[c].revision = stateRevision =>
               /\ actors'[c].pc = "returned" /\ actors'[c].err = "integrity" =>
                     \/ refreshIntegrityBlockedLocked
                     \/ /\ actors[c].pc = "returned" /\ actors[c].err = "integrity"
                        /\ actors[c].revision = actors'[c].revision
               /\ actors'[c].pc = "wait" =>
                     /\ actors[c].pc = "wait" /\ actors[c].attempt = actors'[c].attempt
                     /\ actors[c].revision = actors'[c].revision
    PROVE  GenuineInv'
  <1>1. TokensDiffer'
    BY TokensFrame DEF GenuineInv
  <1>2. SpentIsKnown'
    BY SpentFrame DEF GenuineInv
  <1>3. IntegrityIsKnown'
    BY IntegrityFrame DEF GenuineInv
  <1> QED
    BY <1>1, <1>2, <1>3 DEF GenuineInv

(* A caller moves without an attempt.                                      *)
LEMMA GenuineActor ==
    ASSUME RefreshInv, GenuineInv, NEW c \in Actors, NEW x \in ActorStates,
           actors' = [actors EXCEPT ![c] = x], x.pc # "wait",
           x.pc = "returned" /\ x.err = "integrity" /\ x.revision = stateRevision =>
               refreshIntegrityBlockedLocked,
           UNCHANGED <<attempts, worldVars, vars>>,
           refreshIntegrityBlockedLocked' <=> refreshIntegrityBlockedLocked,
           refreshInconclusiveLocked(stateRevision) => refreshInconclusiveLocked(stateRevision)'
    PROVE  GenuineInv'
  <1>0. /\ UNCHANGED <<state, stateRevision, minted, loginStamp, live, revoked, abandoned, faults>>
        /\ UNCHANGED <<store, attempts>>
    BY DEF vars, sessionVars, worldVars
  <1>1. \A d \in Actors : actors'[d] = IF d = c THEN x ELSE actors[d]
    BY DEF RefreshInv, RefreshTypeOK
  <1>2. \A b \in Attempts : /\ Unfinished(b)' = Unfinished(b) /\ HasGrant(b)' = HasGrant(b)
                            /\ Spending(b) => Spending(b)'
    BY <1>0 DEF Unfinished, HasGrant, Spending
  <1>3. RefusedIsGone'
    BY <1>0 DEF GenuineInv, RefusedIsGone
  <1> QED
    BY <1>0, <1>1, <1>2, <1>3, GenuineStill DEF GenuineInv

(* The steps of a caller that touch no attempt.                            *)
LEMMA GenuineCaller ==
    ASSUME RefreshInv, GenuineInv, NEW c \in Callers,
           AccessToken(c) \/ CallerReturns(c) \/ BeginReturns(c)
    PROVE  GenuineInv'
  <1>0. /\ c \in Actors /\ stateRevision \in Nat /\ actors[c] \in ActorStates
        /\ actors[c].revision \in Nat /\ actors[c].err \in Errors
        /\ UNCHANGED <<attempts, worldVars, vars>> /\ UNCHANGED stateRevision
    BY DEF Actors, RefreshInv, RefreshTypeOK, TypeOK, ActorStates, AccessToken, CallerReturns,
           BeginReturns, vars, sessionVars
  <1>1. CASE AccessToken(c)
    <2>1. PICK inEmit \in BOOLEAN :
             actors' = [actors EXCEPT ![c] = [IdleActor EXCEPT
                !.pc = "begin", !.revision = stateRevision, !.inEmit = inEmit]]
      BY <1>1 DEF AccessToken
    <2> DEFINE x == [IdleActor EXCEPT !.pc = "begin", !.revision = stateRevision,
                                      !.inEmit = inEmit]
    <2>2. x \in ActorStates /\ x.pc = "begin"
      BY <1>0, ActorUpdates DEF IdleActor
    <2>3. /\ refreshIntegrityBlockedLocked' <=> refreshIntegrityBlockedLocked
          /\ refreshInconclusiveLocked(stateRevision) => refreshInconclusiveLocked(stateRevision)'
      BY <1>0, <1>1
      DEF AccessToken, refreshIntegrityBlockedLocked, refreshInconclusiveLocked, ScheduledFor
    <2> HIDE DEF x
    <2> QED
      BY <1>0, <2>1, <2>2, <2>3, GenuineActor DEF x
  <1>2. CASE CallerReturns(c)
    <2>1. /\ actors[c].pc = "returned"
          /\ actors' = [actors EXCEPT ![c] = IdleActor]
      BY <1>2 DEF CallerReturns
    <2>2. \/ refreshSchedule' = refreshSchedule
          \/ /\ refreshSchedule' = blockRefreshIntegrityLocked(actors[c].revision)
             /\ actors[c].err = "integrity"
          \/ /\ refreshSchedule' = blockRefreshPermanentLocked(actors[c].revision)
             /\ actors[c].err # "integrity"
      BY <1>2 DEF CallerReturns, PermanentErrors
    <2>3. actors[c].err = "integrity" /\ actors[c].revision = stateRevision =>
             refreshIntegrityBlockedLocked
      BY <1>0, <2>1 DEF GenuineInv, IntegrityIsKnown
    <2>4. /\ refreshInconclusiveLocked(stateRevision) => refreshInconclusiveLocked(stateRevision)'
          /\ refreshIntegrityBlockedLocked => refreshIntegrityBlockedLocked'
          /\ refreshIntegrityBlockedLocked' =>
                \/ refreshIntegrityBlockedLocked
                \/ /\ actors[c].revision = stateRevision
                   /\ refreshSchedule' = blockRefreshIntegrityLocked(actors[c].revision)
      BY <1>0, <2>2, BlocksRemember
    <2>5. refreshIntegrityBlockedLocked' => refreshIntegrityBlockedLocked
      <3>1. CASE refreshSchedule' = refreshSchedule
        BY <1>0, <3>1 DEF refreshIntegrityBlockedLocked, ScheduledFor
      <3>2. CASE actors[c].err = "integrity"
        BY <2>3, <2>4, <3>2
      <3>3. CASE /\ refreshSchedule' = blockRefreshPermanentLocked(actors[c].revision)
                 /\ refreshSchedule' # refreshSchedule
        <4>1. refreshSchedule' = [refreshScheduleLocked(actors[c].revision) EXCEPT
                                     !.disposition = "permanent"]
          BY <3>3 DEF blockRefreshPermanentLocked
        <4>2. refreshScheduleLocked(actors[c].revision) \in Schedules
          BY <1>0, ScheduleUpdates DEF refreshScheduleLocked, RefreshInv, RefreshTypeOK
        <4>3. refreshSchedule'.disposition = "permanent"
          BY <4>1, <4>2 DEF Schedules
        <4> QED
          BY <4>3 DEF refreshIntegrityBlockedLocked
      <3> QED
        BY <2>2, <3>1, <3>2, <3>3
    <2>6. IdleActor \in ActorStates /\ IdleActor.pc = "idle"
      BY ActorUpdates DEF IdleActor
    <2> QED
      BY <1>0, <2>1, <2>4, <2>5, <2>6, GenuineActor
  <1>3. CASE BeginReturns(c)
    <2> DEFINE x == Return(c, BeginOutcome(c))
    <2>1. actors' = [actors EXCEPT ![c] = x] /\ UNCHANGED refreshSchedule
      BY <1>3 DEF BeginReturns
    <2>2. BeginOutcome(c) \in Errors
      BY <1>3 DEF BeginReturns, BeginOutcome, Errors
    <2>3. x \in ActorStates /\ x.pc \in {"idle", "returned"}
      BY <1>0, <2>2, ReturnFacts
    <2>4. BeginOutcome(c) = "integrity" => refreshIntegrityBlockedLocked
      BY DEF BeginOutcome
    <2>5. x.pc = "returned" => x.err = BeginOutcome(c)
      BY <1>0, <2>2 DEF Return, IdleActor, ActorStates
    <2>6. /\ refreshIntegrityBlockedLocked' <=> refreshIntegrityBlockedLocked
          /\ refreshInconclusiveLocked(stateRevision) => refreshInconclusiveLocked(stateRevision)'
      BY <1>0, <2>1 DEF refreshIntegrityBlockedLocked, refreshInconclusiveLocked, ScheduledFor
    <2> HIDE DEF x
    <2> QED
      BY <1>0, <2>1, <2>3, <2>4, <2>5, <2>6, GenuineActor
  <1> QED
    BY <1>1, <1>2, <1>3

(* A leader begins an attempt, with the token in memory.                   *)
LEMMA GenuineLead ==
    ASSUME RefreshInv, GenuineInv, NEW c \in Actors, Lead(c)
    PROVE  GenuineInv'
  <1>0. /\ attempts \in [Attempts -> RefreshAttempts] /\ actors \in [Actors -> ActorStates]
        /\ actors[c] \in ActorStates /\ minted \in Nat
    BY DEF RefreshInv, RefreshTypeOK, TypeOK
  <1>1. /\ actors[c].pc = "begin" /\ refreshAttempt = 0
        /\ actors[c].revision = stateRevision /\ state.refresh # 0
        /\ UNCHANGED <<refreshSchedule, worldVars, vars>>
        /\ ~refreshIntegrityBlockedLocked
    BY GoesOn DEF Lead, BeginOutcome
  <1>2. PICK a \in Attempts :
           /\ attempts[a].pc = "free"
           /\ attempts' = [attempts EXCEPT ![a] = [FreeAttempt EXCEPT
                 !.pc = "request", !.revision = stateRevision, !.snapshot = state,
                 !.participants = 1]]
           /\ actors' = [actors EXCEPT ![c] = [@ EXCEPT !.pc = "wait", !.attempt = a]]
    BY DEF Lead
  <1> DEFINE t == [FreeAttempt EXCEPT !.pc = "request", !.revision = stateRevision,
                                      !.snapshot = state, !.participants = 1]
             x == [actors[c] EXCEPT !.pc = "wait", !.attempt = a]
  <1>3. t.pc = "request" /\ t.revision = stateRevision /\ t.snapshot = state
    BY DEF FreeAttempt
  <1>4. x.pc = "wait" /\ x.attempt = a /\ x.revision = stateRevision
    BY <1>0, <1>1 DEF ActorStates
  <1>5. attempts' = [attempts EXCEPT ![a] = t] /\ actors' = [actors EXCEPT ![c] = x]
    BY <1>2
  <1> HIDE DEF t, x
  <1>6. /\ \A b \in Attempts : attempts'[b] = IF b = a THEN t ELSE attempts[b]
        /\ \A d \in Actors : actors'[d] = IF d = c THEN x ELSE actors[d]
    BY <1>0, <1>5
  <1>7. /\ UNCHANGED <<state, stateRevision, minted, loginStamp, live, revoked, abandoned, faults>>
        /\ UNCHANGED <<store, refreshSchedule>>
    BY <1>1 DEF vars, sessionVars, worldVars
  <1>8. /\ \A b \in Attempts : ~Unfinished(b)
        /\ \A b \in Attempts : Unfinished(b)' <=> b = a
    <2>1. \A b \in Attempts : ~Unfinished(b)
      BY <1>1, RefreshAssumption DEF RefreshInv, Flight, SingleFlight, Attempts
    <2> QED
      BY <1>3, <1>6, <2>1 DEF Unfinished
  <1>9. \A b \in Attempts : ~HasGrant(b)' /\ ~Spending(b)
    BY <1>3, <1>6, <1>8 DEF HasGrant, Spending, Unfinished
  <1>10. state.refresh # loginStamp
    BY <1>1 DEF GenuineInv, TokensDiffer
  <1>11. TokensDiffer'
    BY <1>3, <1>6, <1>7, <1>8, <1>9, <1>10, TokensFrame DEF GenuineInv
  <1>12. /\ refreshIntegrityBlockedLocked' <=> refreshIntegrityBlockedLocked
         /\ refreshInconclusiveLocked(stateRevision) => refreshInconclusiveLocked(stateRevision)'
    BY <1>7 DEF refreshIntegrityBlockedLocked, refreshInconclusiveLocked, ScheduledFor
  <1>13. SpentIsKnown'
    BY <1>7, <1>9, <1>12, SpentFrame DEF GenuineInv
  <1>14. RefusedIsGone'
    BY <1>3, <1>6, <1>7 DEF GenuineInv, RefusedIsGone
  <1>15. IntegrityIsKnown'
    <2>1. \A b \in Attempts : Unfinished(b)' => attempts'[b].revision = stateRevision
      BY <1>3, <1>6, <1>8
    <2>2. ASSUME NEW d \in Actors, d # c, actors[d].revision = stateRevision,
                 actors[d].pc = "wait", NEW b \in Attempts, actors[d].attempt = b
          PROVE  ~Unfinished(b)' => attempts'[b].err # "integrity"
      BY <1>1, <1>6, <1>8, <2>2 DEF GenuineInv, IntegrityIsKnown
    <2>3. ASSUME NEW d \in Actors, actors'[d].revision = stateRevision'
          PROVE  /\ ~(actors'[d].pc = "returned" /\ actors'[d].err = "integrity")
                 /\ \A b \in Attempts : actors'[d].pc = "wait" /\ actors'[d].attempt = b =>
                       (~Unfinished(b)' => attempts'[b].err # "integrity")
      <3>1. CASE d = c
        BY <1>4, <1>6, <1>8, <3>1
      <3>2. CASE d # c
        <4>1. actors'[d] = actors[d] /\ actors[d].revision = stateRevision
          BY <1>6, <1>7, <2>3, <3>2
        <4>2. ~(actors[d].pc = "returned" /\ actors[d].err = "integrity")
          BY <1>1, <4>1 DEF GenuineInv, IntegrityIsKnown
        <4> QED
          BY <2>2, <3>2, <4>1, <4>2
      <3> QED
        BY <3>1, <3>2
    <2> QED
      BY <1>1, <1>7, <1>12, <2>1, <2>3 DEF IntegrityIsKnown
  <1> QED
    BY <1>7, <1>11, <1>13, <1>14, <1>15 DEF GenuineInv

(* Another caller joins the attempt for its own generation, or waits.      *)
LEMMA GenuineJoin ==
    ASSUME RefreshInv, GenuineInv, NEW c \in Actors, Join(c)
    PROVE  GenuineInv'
  <1>0. /\ attempts \in [Attempts -> RefreshAttempts] /\ actors \in [Actors -> ActorStates]
        /\ actors[c] \in ActorStates /\ refreshAttempt \in 0..MaxAttempts
    BY DEF RefreshInv, RefreshTypeOK
  <1>1. /\ actors[c].pc = "begin" /\ refreshAttempt # 0
        /\ UNCHANGED <<refreshAttempt, refreshSchedule, worldVars, vars>>
    BY DEF Join
  <1>2. PICK a \in Attempts : a = refreshAttempt
    BY <1>0, <1>1, RefreshAssumption DEF Attempts
  <1>3. a \in 0..MaxAttempts /\ attempts[a] \in RefreshAttempts /\ Unfinished(a)
    BY <1>0, <1>1, <1>2 DEF RefreshInv, Flight
  <1>4. /\ UNCHANGED <<state, stateRevision, minted, loginStamp, live, revoked, abandoned, faults>>
        /\ UNCHANGED <<store, refreshSchedule>>
    BY <1>1 DEF vars, sessionVars, worldVars
  <1>5. /\ refreshIntegrityBlockedLocked' <=> refreshIntegrityBlockedLocked
        /\ refreshInconclusiveLocked(stateRevision) => refreshInconclusiveLocked(stateRevision)'
    BY <1>4 DEF refreshIntegrityBlockedLocked, refreshInconclusiveLocked, ScheduledFor
  <1>6. CASE ~Joinable(a)
    <2> DEFINE x == [actors[c] EXCEPT !.pc = "await", !.attempt = a]
    <2>1. actors' = [actors EXCEPT ![c] = x] /\ UNCHANGED attempts
      BY <1>2, <1>6 DEF Join
    <2>2. x \in ActorStates
      BY <1>0, <1>3, ActorUpdates, Zenon
    <2>3. x.pc = "await"
      BY <1>0 DEF ActorStates
    <2> HIDE DEF x
    <2> QED
      BY <1>1, <1>5, <2>1, <2>2, <2>3, GenuineActor
  <1>7. CASE Joinable(a)
    <2> DEFINE x == [actors[c] EXCEPT !.pc = "wait", !.attempt = a]
               t == [attempts[a] EXCEPT !.participants = attempts[a].participants + 1]
    <2>1. attempts' = [attempts EXCEPT ![a] = t] /\ actors' = [actors EXCEPT ![c] = x]
      BY <1>2, <1>7 DEF Join
    <2>2. x.pc = "wait" /\ x.attempt = a
      BY <1>0 DEF ActorStates
    <2>3. /\ t.pc = attempts[a].pc /\ t.revision = attempts[a].revision
          /\ t.snapshot = attempts[a].snapshot /\ t.err = attempts[a].err
          /\ t.grant = attempts[a].grant /\ t.refresh = attempts[a].refresh
          /\ t.cancelled = attempts[a].cancelled
      BY <1>3 DEF RefreshAttempts
    <2> HIDE DEF t, x
    <2>4. /\ \A b \in Attempts : attempts'[b] = IF b = a THEN t ELSE attempts[b]
          /\ \A d \in Actors : actors'[d] = IF d = c THEN x ELSE actors[d]
      BY <1>0, <2>1
    <2>5. \A b \in Attempts :
             /\ attempts'[b].pc = attempts[b].pc /\ attempts'[b].revision = attempts[b].revision
             /\ attempts'[b].snapshot = attempts[b].snapshot
             /\ attempts'[b].err = attempts[b].err /\ attempts'[b].grant = attempts[b].grant
             /\ attempts'[b].refresh = attempts[b].refresh
             /\ attempts'[b].cancelled = attempts[b].cancelled
      BY <2>3, <2>4
    <2>6. \A b \in Attempts : /\ Unfinished(b)' <=> Unfinished(b)
                              /\ HasGrant(b)' <=> HasGrant(b)
                              /\ Spending(b)' <=> Spending(b)
      BY <1>4, <2>5 DEF Unfinished, HasGrant, Spending
    <2>7. TokensDiffer'
      BY <1>4, <2>5, <2>6, TokensFrame DEF GenuineInv
    <2>8. SpentIsKnown'
      BY <1>4, <1>5, <2>6, SpentFrame DEF GenuineInv
    <2>9. RefusedIsGone'
      BY <1>4, <2>5 DEF GenuineInv, RefusedIsGone
    <2>10. IntegrityIsKnown'
      <3>1. attempts[a].revision = stateRevision
        BY <1>7 DEF Joinable
      <3>2. \A b \in Attempts : Unfinished(b)' /\ attempts'[b].revision = stateRevision' =>
               ~refreshIntegrityBlockedLocked'
        BY <1>4, <1>5, <2>5, <2>6 DEF GenuineInv, IntegrityIsKnown
      <3>3. ASSUME NEW d \in Actors, actors'[d].revision = stateRevision'
            PROVE  /\ actors'[d].pc = "returned" /\ actors'[d].err = "integrity" =>
                         refreshIntegrityBlockedLocked'
                   /\ \A b \in Attempts : actors'[d].pc = "wait" /\ actors'[d].attempt = b =>
                         /\ Unfinished(b)' => attempts'[b].revision = stateRevision'
                         /\ ~Unfinished(b)' /\ attempts'[b].err = "integrity" =>
                               refreshIntegrityBlockedLocked'
        <4>1. CASE d = c
          BY <1>3, <1>4, <2>2, <2>4, <2>5, <2>6, <3>1, <4>1
        <4>2. CASE d # c
          <5>1. actors'[d] = actors[d] /\ actors[d].revision = stateRevision
            BY <1>4, <2>4, <3>3, <4>2
          <5> QED
            BY <1>4, <1>5, <2>5, <2>6, <5>1 DEF GenuineInv, IntegrityIsKnown
        <4> QED
          BY <4>1, <4>2
      <3> QED
        BY <3>2, <3>3 DEF IntegrityIsKnown
    <2> QED
      BY <1>4, <2>7, <2>8, <2>9, <2>10 DEF GenuineInv
  <1> QED
    BY <1>6, <1>7

(* A caller leaves an attempt, with its result or without.                 *)
LEMMA GenuineReturns ==
    ASSUME RefreshInv, GenuineInv, NEW c \in Callers, WaitReturns(c) \/ Leave(c)
    PROVE  GenuineInv'
  <1>0. /\ c \in Actors /\ actors \in [Actors -> ActorStates] /\ actors[c] \in ActorStates
    BY DEF Actors, RefreshInv, RefreshTypeOK
  <1>1. UNCHANGED <<refreshAttempt, refreshSchedule, worldVars, vars>>
    BY DEF WaitReturns, Leave
  <1>2. /\ UNCHANGED <<state, stateRevision, minted, loginStamp, live, revoked, abandoned, faults>>
        /\ UNCHANGED <<store, refreshSchedule>>
    BY <1>1 DEF vars, sessionVars, worldVars
  <1>3. /\ refreshIntegrityBlockedLocked' <=> refreshIntegrityBlockedLocked
        /\ refreshInconclusiveLocked(stateRevision) => refreshInconclusiveLocked(stateRevision)'
    BY <1>2 DEF refreshIntegrityBlockedLocked, refreshInconclusiveLocked, ScheduledFor
  <1>4. ASSUME NEW e \in Errors
        PROVE  Return(c, e).pc = "returned" => Return(c, e).err = e
    BY <1>0 DEF Return, IdleActor, ActorStates
  <1>5. CASE actors[c].pc # "wait"
    <2> DEFINE x == Return(c, "unstarted")
    <2>1. actors' = [actors EXCEPT ![c] = x] /\ UNCHANGED attempts
      BY <1>5 DEF WaitReturns, Leave
    <2>2. x \in ActorStates /\ x.pc \in {"idle", "returned"}
      BY <1>0, ReturnFacts DEF Errors
    <2>3. x.pc = "returned" => x.err # "integrity"
      BY <1>4 DEF Errors
    <2> HIDE DEF x
    <2> QED
      BY <1>0, <1>1, <1>3, <2>1, <2>2, <2>3, GenuineActor
  <1>6. CASE actors[c].pc = "wait"
    <2>1. PICK a \in Attempts : a = actors[c].attempt
      BY <1>0, <1>6, WaitsForAttempt
    <2>2. PICK e \in Errors :
             /\ actors' = [actors EXCEPT ![c] = Return(c, e)]
             /\ e = "cancelled" \/ (attempts[a].pc = "complete" /\ e = attempts[a].err)
      <3>1. attempts[a].err \in Errors /\ "cancelled" \in Errors
        BY DEF RefreshInv, RefreshTypeOK, RefreshAttempts, Errors
      <3> QED
        BY <1>6, <2>1, <3>1 DEF WaitReturns, Leave
    <2>3. attempts' = releaseRefreshParticipant(a)
      BY <1>6, <2>1 DEF WaitReturns, Leave
    <2> DEFINE x == Return(c, e)
    <2>4. /\ x \in ActorStates /\ x.pc \in {"idle", "returned"}
          /\ x.pc = "returned" => x.err = e /\ x.revision = actors[c].revision
      BY <1>0, <1>4, ReturnFacts
    <2> HIDE DEF x
    <2>5. \A d \in Actors : actors'[d] = IF d = c THEN x ELSE actors[d]
      BY <1>0, <2>2 DEF x
    <2>6. /\ \A b \in Attempts : b # a => attempts'[b] = attempts[b]
          /\ Unfinished(a) => ~attempts[a].cancelled
          /\ \/ attempts'[a] = FreeAttempt /\ attempts[a].pc = "complete"
             \/ /\ attempts'[a].pc = attempts[a].pc
                /\ attempts'[a].revision = attempts[a].revision
                /\ attempts'[a].snapshot = attempts[a].snapshot
                /\ attempts'[a].err = attempts[a].err
                /\ attempts'[a].grant = attempts[a].grant
                /\ attempts'[a].refresh = attempts[a].refresh
      BY <1>0, <1>6, <2>1, <2>3, ReleaseFacts
    <2>7. FreeAttempt.pc = "free" /\ FreeAttempt.err = "none"
      BY DEF FreeAttempt
    <2>8. \A b \in Attempts :
             /\ Unfinished(b)' => /\ Unfinished(b)
                                  /\ attempts'[b].revision = attempts[b].revision
                                  /\ attempts'[b].snapshot = attempts[b].snapshot
             /\ HasGrant(b)' => /\ HasGrant(b)
                                /\ attempts'[b].grant = attempts[b].grant
                                /\ attempts'[b].refresh = attempts[b].refresh
                                /\ attempts'[b].snapshot = attempts[b].snapshot
             /\ ~Unfinished(b)' /\ attempts'[b].err = "integrity" =>
                   ~Unfinished(b) /\ attempts[b].err = "integrity"
      BY <2>6, <2>7 DEF Unfinished, HasGrant
    <2>9. \A b \in Attempts : Spending(b) => Spending(b)'
      <3> SUFFICES ASSUME NEW b \in Attempts, Spending(b)
                   PROVE  Spending(b)'
        OBVIOUS
      <3>1. attempts[b].pc \in {"answered", "verify", "commit", "finish"}
        BY DEF Spending, HasGrant
      <3>2. CASE b # a
        <4>1. attempts'[b] = attempts[b]
          BY <2>6, <3>2
        <4> QED
          BY <1>2, <4>1 DEF Spending, HasGrant
      <3>3. CASE b = a
        <4>1. ~attempts[b].cancelled
          BY <2>6, <3>1, <3>3 DEF Unfinished
        <4>2. /\ attempts'[b].pc = attempts[b].pc /\ attempts'[b].err = attempts[b].err
              /\ attempts'[b].revision = attempts[b].revision
          BY <2>6, <3>1, <3>3
        <4> QED
          BY <1>2, <4>1, <4>2 DEF Spending, HasGrant
      <3> QED
        BY <3>2, <3>3
    <2>10. RefusedIsGone'
      BY <1>2, <2>6, <2>7 DEF GenuineInv, RefusedIsGone
    <2>11. \A d \in Actors : actors'[d].revision = stateRevision =>
             /\ actors'[d].pc = "returned" /\ actors'[d].err = "integrity" =>
                   \/ refreshIntegrityBlockedLocked
                   \/ /\ actors[d].pc = "returned" /\ actors[d].err = "integrity"
                      /\ actors[d].revision = actors'[d].revision
             /\ actors'[d].pc = "wait" =>
                   /\ actors[d].pc = "wait" /\ actors[d].attempt = actors'[d].attempt
                   /\ actors[d].revision = actors'[d].revision
      <3>1. e = "integrity" /\ actors[c].revision = stateRevision => refreshIntegrityBlockedLocked
        <4>1. e = "integrity" => attempts[a].err = "integrity" /\ ~Unfinished(a)
          BY <2>2 DEF Unfinished
        <4> QED
          BY <1>0, <1>6, <2>1, <4>1 DEF GenuineInv, IntegrityIsKnown
      <3> QED
        BY <2>4, <2>5, <3>1
    <2> QED
      BY <1>2, <1>3, <2>8, <2>9, <2>10, <2>11, GenuineStill DEF GenuineInv
  <1> QED
    BY <1>5, <1>6

(* One attempt goes on, and no token moves.                                *)
LEMMA GenuineAttempt ==
    ASSUME RefreshInv, GenuineInv, NEW a \in Attempts, NEW t \in RefreshAttempts,
           attempts' = [attempts EXCEPT ![a] = t],
           Unfinished(a), t.pc \notin {"free", "draining", "complete"},
           t.revision = attempts[a].revision, t.snapshot = attempts[a].snapshot,
           t.pc \in {"answered", "verify", "commit"} /\ t.err = "none" =>
               HasGrant(a) /\ t.grant = attempts[a].grant /\ t.refresh = attempts[a].refresh,
           t.pc = "refusal" \/ (t.pc = "answered" /\ t.err = "refused") =>
               attempts[a].snapshot.refresh \notin live,
           "lost" \notin faults /\ Spending(a) =>
               \/ t.pc \in {"answered", "verify", "commit"} /\ t.err = "none"
               \/ t.pc = "finish" /\ (t.err = "integrity" \/ (t.err = "transport" /\ t.cancelled)),
           UNCHANGED <<actors, refreshSchedule, live, revoked, abandoned, faults, vars>>
    PROVE  GenuineInv'
  <1>0. /\ UNCHANGED <<state, stateRevision, minted, loginStamp, store>>
        /\ attempts \in [Attempts -> RefreshAttempts]
    BY DEF vars, sessionVars, RefreshInv, RefreshTypeOK
  <1>1. \A b \in Attempts : attempts'[b] = IF b = a THEN t ELSE attempts[b]
    BY <1>0
  <1>2. /\ refreshIntegrityBlockedLocked' <=> refreshIntegrityBlockedLocked
        /\ refreshInconclusiveLocked(stateRevision) => refreshInconclusiveLocked(stateRevision)'
    BY <1>0 DEF refreshIntegrityBlockedLocked, refreshInconclusiveLocked, ScheduledFor
  <1>3. \A b \in Attempts : /\ Unfinished(b)' <=> Unfinished(b)
                            /\ attempts'[b].revision = attempts[b].revision
                            /\ attempts'[b].snapshot = attempts[b].snapshot
    BY <1>1 DEF Unfinished
  <1>4. \A b \in Attempts : HasGrant(b)' => /\ HasGrant(b)
                                            /\ attempts'[b].grant = attempts[b].grant
                                            /\ attempts'[b].refresh = attempts[b].refresh
    BY <1>1 DEF HasGrant
  <1>5. ASSUME NEW b \in Attempts, "lost" \notin faults, Spending(b)
        PROVE  Spending(b)'
    <2>1. CASE b = a
      <3>1. attempts'[a] = t /\ t.revision = stateRevision'
        BY <1>0, <1>1, <1>5, <2>1 DEF Spending
      <3>2. \/ t.pc \in {"answered", "verify", "commit"} /\ t.err = "none"
            \/ t.pc = "finish" /\ (t.err = "integrity" \/ (t.err = "transport" /\ t.cancelled))
        BY <1>5, <2>1
      <3> QED
        BY <2>1, <3>1, <3>2 DEF Spending, HasGrant
    <2>2. CASE b # a
      <3>1. attempts'[b] = attempts[b]
        BY <1>1, <2>2
      <3> QED
        BY <1>0, <1>5, <3>1 DEF Spending, HasGrant
    <2> QED
      BY <2>1, <2>2
  <1>6. RefusedIsGone'
    BY <1>1 DEF GenuineInv, RefusedIsGone
  <1>7. \A b \in Attempts : ~Unfinished(b)' /\ attempts'[b].err = "integrity" =>
           ~Unfinished(b) /\ attempts[b].err = "integrity"
    BY <1>1, <1>3
  <1>8. \A b \in Attempts :
               /\ Unfinished(b)' => /\ Unfinished(b)
                                    /\ attempts'[b].revision = attempts[b].revision
                                    /\ attempts'[b].snapshot = attempts[b].snapshot
               /\ HasGrant(b)' => /\ HasGrant(b)
                                  /\ attempts'[b].grant = attempts[b].grant
                                  /\ attempts'[b].refresh = attempts[b].refresh
                                  /\ attempts'[b].snapshot = attempts[b].snapshot
               /\ "lost" \notin faults /\ Spending(b) => Spending(b)'
               /\ ~Unfinished(b)' /\ attempts'[b].err = "integrity" =>
                     ~Unfinished(b) /\ attempts[b].err = "integrity"
    BY <1>3, <1>4, <1>5, <1>7
  <1> QED
    BY <1>0, <1>2, <1>6, <1>8, GenuineStill DEF GenuineInv

(* The provider rejects, and the answer is received and verified.          *)
LEMMA GenuineAnswer ==
    ASSUME RefreshInv, GenuineInv, NEW a \in Attempts,
           ProviderRejects(a) \/ ReceiveAnswer(a) \/ VerifyIDToken(a)
    PROVE  GenuineInv'
  <1>0. attempts[a] \in RefreshAttempts /\ attempts[a].err \in Errors
    BY DEF RefreshInv, RefreshTypeOK, RefreshAttempts
  <1>1. UNCHANGED <<actors, refreshSchedule, live, revoked, abandoned, faults, vars>>
    BY DEF ProviderRejects, ReceiveAnswer, VerifyIDToken, worldVars
  <1>2. Unfinished(a)
    BY DEF ProviderRejects, ReceiveAnswer, VerifyIDToken, Unfinished
  <1>3. ASSUME NEW p \in {"verify", "commit"}, attempts' = [attempts EXCEPT ![a].pc = p],
               HasGrant(a)
        PROVE  GenuineInv'
    <2> DEFINE t == [attempts[a] EXCEPT !.pc = p]
    <2>1. attempts' = [attempts EXCEPT ![a] = t]
      BY <1>3
    <2>2. p \in AttemptPCs
      BY DEF AttemptPCs
    <2>3. t \in RefreshAttempts
      BY <1>0, <2>2, AttemptUpdates, Zenon
    <2>4. /\ t.pc = p /\ t.revision = attempts[a].revision /\ t.snapshot = attempts[a].snapshot
          /\ t.err = attempts[a].err /\ t.grant = attempts[a].grant
          /\ t.refresh = attempts[a].refresh
      BY <1>0 DEF RefreshAttempts
    <2>5. attempts[a].err = "none"
      BY <1>3 DEF HasGrant
    <2> HIDE DEF t
    <2> QED
      BY <1>1, <1>2, <1>3, <2>1, <2>3, <2>4, <2>5, GenuineAttempt
  <1>4. CASE ProviderRejects(a)
    <2>1. PICK err \in {"refused", "client", "server"} :
             /\ err = "refused" => attempts[a].snapshot.refresh \notin live
             /\ attempts' = [attempts EXCEPT ![a] = [@ EXCEPT !.pc = "answered", !.err = err]]
      BY <1>4 DEF ProviderRejects
    <2> DEFINE t == [attempts[a] EXCEPT !.pc = "answered", !.err = err]
    <2>2. attempts' = [attempts EXCEPT ![a] = t]
      BY <2>1
    <2>3. err \in Errors /\ "answered" \in AttemptPCs
      BY DEF Errors, AttemptPCs
    <2>4. t \in RefreshAttempts
      BY <1>0, <2>3, AttemptUpdates, Zenon
    <2>5. /\ t.pc = "answered" /\ t.err = err
          /\ t.revision = attempts[a].revision /\ t.snapshot = attempts[a].snapshot
      BY <1>0 DEF RefreshAttempts
    <2> HIDE DEF t
    <2>6. ~Spending(a)
      BY <1>4 DEF ProviderRejects, Spending, HasGrant
    <2> QED
      BY <1>1, <1>2, <2>1, <2>2, <2>4, <2>5, <2>6, GenuineAttempt
  <1>5. CASE ReceiveAnswer(a) /\ attempts[a].err = "none"
    <2>1. PICK p \in {"verify", "commit"} : attempts' = [attempts EXCEPT ![a].pc = p]
      BY <1>5 DEF ReceiveAnswer
    <2> QED
      BY <1>3, <1>5, <2>1 DEF ReceiveAnswer, HasGrant
  <1>6. CASE ReceiveAnswer(a) /\ attempts[a].err # "none"
    <2>1. PICK t \in RefreshAttempts :
              /\ attempts' = [attempts EXCEPT ![a] = t]
              /\ t.pc \in {"refusal", "finish"}
              /\ t.err = IF attempts[a].revision = stateRevision THEN attempts[a].err ELSE "none"
              /\ t.pc = "refusal" <=> t.err = "refused"
              /\ t.revision = attempts[a].revision /\ t.snapshot = attempts[a].snapshot
      BY <1>0, <1>6, FailureFacts DEF ReceiveAnswer
    <2>2. attempts[a].pc = "answered" /\ ~Spending(a)
      BY <1>6 DEF ReceiveAnswer, Spending, HasGrant
    <2>3. t.pc = "refusal" => attempts[a].snapshot.refresh \notin live
      BY <2>1, <2>2 DEF GenuineInv, RefusedIsGone
    <2> QED
      BY <1>1, <1>2, <2>1, <2>2, <2>3, GenuineAttempt
  <1>7. CASE VerifyIDToken(a) /\ attempts' = [attempts EXCEPT ![a].pc = "commit"]
    <2>1. PICK p \in {"verify", "commit"} : attempts' = [attempts EXCEPT ![a].pc = p]
      BY <1>7
    <2>2. HasGrant(a)
      BY <1>7 DEF VerifyIDToken, HasGrant, RefreshInv, Grants
    <2> QED
      BY <1>3, <2>1, <2>2
  <1>8. CASE refreshFailure(a, "integrity") /\ VerifyIDToken(a)
    <2>1. PICK t \in RefreshAttempts :
              /\ attempts' = [attempts EXCEPT ![a] = t]
              /\ t.pc \in {"refusal", "finish"}
              /\ t.err = IF attempts[a].revision = stateRevision THEN "integrity" ELSE "none"
              /\ t.pc = "refusal" <=> t.err = "refused"
              /\ t.revision = attempts[a].revision /\ t.snapshot = attempts[a].snapshot
      <3>1. PICK err \in Errors : err = "integrity"
        BY DEF Errors
      <3> QED
        BY <1>8, <3>1, FailureFacts
    <2>2. t.pc = "finish" /\ (Spending(a) => t.err = "integrity")
      BY <2>1 DEF Spending
    <2> QED
      BY <1>1, <1>2, <2>1, <2>2, GenuineAttempt
  <1> QED
    BY <1>4, <1>5, <1>6, <1>7, <1>8 DEF VerifyIDToken

(* The transport fails.  A request that was given up may still spend its   *)
(* token, but then the attempt was cancelled and will say so.              *)
LEMMA GenuineTransport ==
    ASSUME RefreshInv, GenuineInv, NEW a \in Attempts, TransportFails(a)
    PROVE  GenuineInv'
  <1>0. /\ attempts \in [Attempts -> RefreshAttempts] /\ attempts[a] \in RefreshAttempts
    BY DEF RefreshInv, RefreshTypeOK
  <1>1. /\ UNCHANGED <<actors, refreshSchedule, live, revoked, faults, vars>>
        /\ attempts[a].pc \in {"request", "answered"}
        /\ "lost" \notin faults => attempts[a].cancelled
    BY DEF TransportFails
  <1>2. PICK t \in RefreshAttempts :
              /\ attempts' = [attempts EXCEPT ![a] = t]
              /\ t.pc \in {"refusal", "finish"}
              /\ t.err = IF attempts[a].revision = stateRevision THEN "transport" ELSE "none"
              /\ t.pc = "refusal" <=> t.err = "refused"
              /\ t.revision = attempts[a].revision /\ t.snapshot = attempts[a].snapshot
              /\ t.cancelled = attempts[a].cancelled
    <2>1. PICK err \in Errors : err = "transport"
      BY DEF Errors
    <2> QED
      BY <2>1, FailureFacts DEF TransportFails
  <1>3. Unfinished(a)
    BY <1>1 DEF Unfinished
  <1>4. /\ t.pc = "finish"
        /\ "lost" \notin faults /\ attempts[a].revision = stateRevision =>
              t.err = "transport" /\ t.cancelled
    BY <1>1, <1>2
  <1>5. CASE UNCHANGED abandoned
    <2>1. Spending(a) => attempts[a].revision = stateRevision
      BY DEF Spending
    <2> QED
      BY <1>1, <1>2, <1>3, <1>4, <1>5, <2>1, GenuineAttempt
  <1>6. CASE ~UNCHANGED abandoned
    <2> DEFINE token == attempts[a].snapshot.refresh
    <2>1. attempts[a].pc = "request" /\ abandoned' = abandoned \cup {token}
      BY <1>6 DEF TransportFails
    <2>2. /\ UNCHANGED <<state, stateRevision, minted, loginStamp, store>>
      BY <1>1 DEF vars, sessionVars
    <2>3. \A b \in Attempts : attempts'[b] = IF b = a THEN t ELSE attempts[b]
      BY <1>0, <1>2
    <2>4. /\ token <= minted /\ token # loginStamp /\ token # 0
          /\ Rotating /\ attempts[a].revision # stateRevision => token # state.refresh
      BY <1>3 DEF GenuineInv, TokensDiffer, RefreshInv, Snapshots
    <2>5. \A b \in Attempts : /\ Unfinished(b)' <=> Unfinished(b)
                              /\ attempts'[b].revision = attempts[b].revision
                              /\ attempts'[b].snapshot = attempts[b].snapshot
      BY <1>2, <1>3, <1>4, <2>3 DEF Unfinished
    <2>6. \A b \in Attempts : Unfinished(b) => b = a
      BY <1>3 DEF RefreshInv, Flight, SingleFlight
    <2>7. \A b \in Attempts : ~HasGrant(b)' /\ ~Spending(b)
      BY <1>4, <2>1, <2>3, <2>6 DEF HasGrant, Spending, Unfinished
    <2>8. /\ refreshIntegrityBlockedLocked' <=> refreshIntegrityBlockedLocked
          /\ refreshInconclusiveLocked(stateRevision) <=> refreshInconclusiveLocked(stateRevision)'
      BY <1>1, <2>2 DEF refreshIntegrityBlockedLocked, refreshInconclusiveLocked, ScheduledFor
    <2> HIDE DEF token
    <2>9. TokensDiffer'
      <3>1. \A b \in Attempts : Unfinished(b)' =>
              /\ attempts'[b].snapshot.refresh <= minted'
              /\ attempts'[b].snapshot.refresh # loginStamp'
              /\ Rotating /\ attempts'[b].revision # stateRevision' =>
                    attempts'[b].snapshot.refresh # state'.refresh
        BY <2>2, <2>5 DEF GenuineInv, TokensDiffer
      <3> QED
        BY <1>1, <2>1, <2>2, <2>4, <2>7, <3>1 DEF GenuineInv, TokensDiffer
    <2>10. SpentIsKnown'
      <3> SUFFICES ASSUME "lost" \notin faults, state.refresh # 0
                   PROVE  \/ Good(state.refresh)'
                          \/ /\ Rotating
                             /\ \/ refreshInconclusiveLocked(stateRevision)'
                                \/ refreshIntegrityBlockedLocked'
                                \/ \E b \in Attempts : Spending(b)'
        BY <1>1, <2>2 DEF SpentIsKnown
      <3>1. CASE Rotating /\ state.refresh = token
        <4>1. attempts[a].revision = stateRevision
          BY <2>4, <3>1
        <4>2. attempts'[a] = t /\ t.revision = stateRevision'
          BY <1>2, <2>2, <2>3, <4>1
        <4>3. Spending(a)'
          BY <1>4, <4>1, <4>2 DEF Spending
        <4> QED
          BY <3>1, <4>3
      <3>2. CASE ~(Rotating /\ state.refresh = token)
        <4>1. Good(state.refresh) => Good(state.refresh)'
          BY <1>1, <2>1, <2>2, <3>2 DEF Good
        <4> QED
          BY <2>7, <2>8, <4>1 DEF GenuineInv, SpentIsKnown
      <3> QED
        BY <3>1, <3>2
    <2>11. RefusedIsGone'
      BY <1>1, <1>4, <2>3 DEF GenuineInv, RefusedIsGone
    <2>12. IntegrityIsKnown'
      BY <1>1, <2>2, <2>3, <2>5, <2>8, <1>3, IntegrityFrame DEF GenuineInv
    <2> QED
      BY <2>2, <2>9, <2>10, <2>11, <2>12 DEF GenuineInv
  <1> QED
    BY <1>5, <1>6

(* The provider grants: a token that it takes back is the one of the       *)
(* attempt, and the attempt knows.                                         *)
LEMMA GenuineGrants ==
    ASSUME RefreshInv, GenuineInv, NEW a \in Attempts, ProviderGrants(a)
    PROVE  GenuineInv'
  <1>0. /\ minted \in Nat /\ loginStamp \in Nat /\ attempts[a] \in RefreshAttempts
        /\ attempts \in [Attempts -> RefreshAttempts]
        /\ \A b \in Attempts : attempts[b].snapshot.refresh \in Nat
        /\ live \subseteq Nat /\ abandoned \subseteq Nat /\ state.refresh \in Nat
    BY DEF RefreshInv, RefreshTypeOK, TypeOK, RefreshAttempts, TokenStates
  <1>1. PICK serial \in Nat : serial = minted + 1
    BY <1>0
  <1>2. PICK r \in Nat : r = IF Rotating THEN serial ELSE 0
    BY <1>1
  <1> DEFINE token == attempts[a].snapshot.refresh
  <1>3. PICK id \in {0, serial}, forged \in BOOLEAN :
           /\ attempts' = [attempts EXCEPT ![a] = [@ EXCEPT
                 !.pc = "answered", !.grant = serial, !.refresh = r, !.id = id, !.forged = forged]]
           /\ live' = IF Rotating THEN (live \ {token}) \cup {serial} ELSE live
    BY <1>1, <1>2 DEF ProviderGrants
  <1>4. /\ attempts[a].pc = "request" /\ minted' = serial
        /\ UNCHANGED <<actors, refreshSchedule, revoked, abandoned, state, stateRevision,
                       store, loginStamp, faults>>
    BY <1>1 DEF ProviderGrants
  <1> DEFINE t == [attempts[a] EXCEPT !.pc = "answered", !.grant = serial, !.refresh = r,
                                      !.id = id, !.forged = forged]
  <1>5. /\ t.pc = "answered" /\ t.grant = serial /\ t.refresh = r
        /\ t.revision = attempts[a].revision /\ t.snapshot = attempts[a].snapshot
        /\ t.err = "none"
    BY <1>0, <1>4 DEF RefreshAttempts, RefreshInv, Grants
  <1>6. attempts' = [attempts EXCEPT ![a] = t]
    BY <1>3
  <1> HIDE DEF t
  <1>7. \A b \in Attempts : attempts'[b] = IF b = a THEN t ELSE attempts[b]
    BY <1>0, <1>6
  <1>8. Unfinished(a) /\ \A b \in Attempts : Unfinished(b) => b = a
    BY <1>4 DEF RefreshInv, Flight, SingleFlight, Unfinished
  <1>9. \A b \in Attempts : /\ Unfinished(b)' <=> Unfinished(b)
                            /\ attempts'[b].revision = attempts[b].revision
                            /\ attempts'[b].snapshot = attempts[b].snapshot
    BY <1>5, <1>7, <1>8 DEF Unfinished
  <1>10. \A b \in Attempts : HasGrant(b)' => b = a
    BY <1>8, <1>9 DEF HasGrant, Unfinished
  <1>11. /\ token <= minted /\ token # loginStamp /\ token \in Nat
         /\ Rotating /\ attempts[a].revision # stateRevision => token # state.refresh
    BY <1>0, <1>8 DEF GenuineInv, TokensDiffer
  <1>12. attempts'[a] = t /\ t.snapshot.refresh = token
    BY <1>5, <1>7
  <1> HIDE DEF token
  <1>13. TokensDiffer'
    <2>1. \A x \in live' \cup abandoned' : x <= minted'
      <3>1. \A x \in live \cup abandoned : x \in Nat /\ x <= minted
        BY <1>0 DEF GenuineInv, TokensDiffer
      <3>2. \A x \in Nat : x <= minted => x <= minted'
        BY <1>0, <1>1, <1>4
      <3>3. serial <= minted'
        BY <1>4
      <3> QED
        BY <1>3, <1>4, <3>1, <3>2, <3>3
    <2>2. state'.refresh <= minted'
      BY <1>0, <1>1, <1>4 DEF GenuineInv, TokensDiffer
    <2>3. loginStamp' # 0 =>
              /\ loginStamp' \in live' \cup revoked' /\ loginStamp' \notin abandoned'
              /\ loginStamp' # state'.refresh
      BY <1>3, <1>4, <1>11 DEF GenuineInv, TokensDiffer
    <2>4. ASSUME NEW b \in Attempts, Unfinished(b)'
          PROVE  /\ attempts'[b].snapshot.refresh <= minted'
                 /\ attempts'[b].snapshot.refresh # loginStamp'
                 /\ Rotating /\ attempts'[b].revision # stateRevision' =>
                       attempts'[b].snapshot.refresh # state'.refresh
      <3>1. attempts'[b] = t /\ b = a
        BY <1>7, <1>8, <1>9, <2>4
      <3>2. token <= minted'
        BY <1>0, <1>1, <1>4, <1>11
      <3> QED
        BY <1>4, <1>5, <1>11, <1>12, <3>1, <3>2
    <2>5. ASSUME NEW b \in Attempts, HasGrant(b)'
          PROVE  /\ attempts'[b].refresh = IF Rotating THEN attempts'[b].grant ELSE 0
                 /\ Rotating => /\ attempts'[b].grant \in live' \cup revoked'
                                /\ attempts'[b].grant \notin abandoned'
                                /\ attempts'[b].grant # state'.refresh
                                /\ attempts'[b].grant # attempts'[b].snapshot.refresh
      <3>1. attempts'[b] = t
        BY <1>10, <1>12, <2>5
      <3>2. \A x \in Nat : x <= minted => x # serial
        BY <1>0, <1>1
      <3>3. serial \notin abandoned /\ serial # state.refresh /\ serial # token
        BY <1>0, <1>11, <3>2 DEF GenuineInv, TokensDiffer
      <3>4. Rotating => serial \in live'
        BY <1>3
      <3> QED
        BY <1>2, <1>4, <1>5, <1>12, <3>1, <3>3, <3>4
    <2> QED
      BY <2>1, <2>2, <2>3, <2>4, <2>5 DEF TokensDiffer
  <1>14. /\ refreshIntegrityBlockedLocked' <=> refreshIntegrityBlockedLocked
         /\ refreshInconclusiveLocked(stateRevision) <=> refreshInconclusiveLocked(stateRevision)'
    BY <1>4 DEF refreshIntegrityBlockedLocked, refreshInconclusiveLocked, ScheduledFor
  <1>15. \A b \in Attempts : ~Spending(b)
    BY <1>4, <1>8 DEF Spending, HasGrant, Unfinished
  <1>16. SpentIsKnown'
    <2> SUFFICES ASSUME "lost" \notin faults, state.refresh # 0
                 PROVE  \/ Good(state.refresh)'
                        \/ /\ Rotating
                           /\ \/ refreshInconclusiveLocked(stateRevision)'
                              \/ refreshIntegrityBlockedLocked'
                              \/ \E b \in Attempts : Spending(b)'
      BY <1>4 DEF SpentIsKnown
    <2>1. CASE Rotating /\ state.refresh = token
      <3>1. t.revision = stateRevision'
        BY <1>4, <1>5, <1>11, <2>1
      <3>2. Spending(a)'
        BY <1>5, <1>12, <3>1 DEF Spending, HasGrant
      <3> QED
        BY <2>1, <3>2
    <2>2. CASE ~(Rotating /\ state.refresh = token)
      <3>1. Good(state.refresh) => Good(state.refresh)'
        BY <1>3, <1>4, <2>2 DEF Good
      <3> QED
        BY <1>14, <1>15, <3>1 DEF GenuineInv, SpentIsKnown
    <2> QED
      BY <2>1, <2>2
  <1>17. RefusedIsGone'
    <2>1. \A x \in live' : x \in live \/ x > minted
      BY <1>0, <1>1, <1>3
    <2>2. \A b \in Attempts :
             attempts'[b].pc = "refusal"
                \/ (attempts'[b].pc = "answered" /\ attempts'[b].err = "refused") =>
                   /\ attempts[b].pc = "refusal"
                         \/ (attempts[b].pc = "answered" /\ attempts[b].err = "refused")
                   /\ attempts'[b].snapshot = attempts[b].snapshot
      BY <1>5, <1>7
    <2> QED
      BY <2>1, <2>2, RefusedFrame DEF GenuineInv
  <1>18. IntegrityIsKnown'
    <2>1. \A b \in Attempts :
               /\ Unfinished(b)' => /\ attempts'[b].revision = attempts[b].revision
                                    /\ Unfinished(b)
               /\ ~Unfinished(b)' /\ attempts'[b].err = "integrity" =>
                     ~Unfinished(b) /\ attempts[b].err = "integrity"
      BY <1>5, <1>7, <1>8, <1>9
    <2> QED
      BY <1>4, <1>14, <2>1, IntegrityFrame DEF GenuineInv
  <1> QED
    BY <1>4, <1>13, <1>16, <1>17, <1>18 DEF GenuineInv

(* A new generation begins with a good token or with none.                 *)
LEMMA GenuineGeneration ==
    ASSUME RefreshInv, GenuineInv, stateRevision' = stateRevision + 1,
           UNCHANGED <<actors, refreshSchedule, live, revoked, abandoned, minted, faults>>,
           "lost" \in faults \/ state'.refresh = 0 \/ Good(state'.refresh),
           state'.refresh <= minted,
           loginStamp' \in {0, loginStamp},
           loginStamp' # 0 => loginStamp' # state'.refresh,
           \A b \in Attempts : Unfinished(b)' =>
               /\ Unfinished(b)
               /\ attempts'[b].revision = attempts[b].revision
               /\ attempts'[b].snapshot = attempts[b].snapshot
               /\ Rotating => attempts[b].snapshot.refresh # state'.refresh,
           \A b \in Attempts : HasGrant(b)' =>
               /\ HasGrant(b)
               /\ attempts'[b].grant = attempts[b].grant
               /\ attempts'[b].refresh = attempts[b].refresh
               /\ attempts'[b].snapshot = attempts[b].snapshot
               /\ Rotating => attempts[b].grant # state'.refresh,
           \A b \in Attempts :
               attempts'[b].pc = "refusal"
                  \/ (attempts'[b].pc = "answered" /\ attempts'[b].err = "refused") =>
                     /\ attempts[b].pc = "refusal"
                           \/ (attempts[b].pc = "answered" /\ attempts[b].err = "refused")
                     /\ attempts'[b].snapshot = attempts[b].snapshot
    PROVE  GenuineInv'
  <1>1. TokensDiffer'
    <2>1. /\ \A token \in live' \cup abandoned' : token <= minted'
          /\ state'.refresh <= minted'
          /\ loginStamp' # 0 =>
                /\ loginStamp' \in live' \cup revoked' /\ loginStamp' \notin abandoned'
                /\ loginStamp' # state'.refresh
      BY DEF GenuineInv, TokensDiffer
    <2>2. ASSUME NEW b \in Attempts, Unfinished(b)'
          PROVE  /\ attempts'[b].snapshot.refresh <= minted'
                 /\ attempts'[b].snapshot.refresh # loginStamp'
                 /\ Rotating /\ attempts'[b].revision # stateRevision' =>
                       attempts'[b].snapshot.refresh # state'.refresh
      BY <2>2 DEF GenuineInv, TokensDiffer, RefreshInv, Snapshots
    <2>3. ASSUME NEW b \in Attempts, HasGrant(b)'
          PROVE  /\ attempts'[b].refresh = IF Rotating THEN attempts'[b].grant ELSE 0
                 /\ Rotating => /\ attempts'[b].grant \in live' \cup revoked'
                                /\ attempts'[b].grant \notin abandoned'
                                /\ attempts'[b].grant # state'.refresh
                                /\ attempts'[b].grant # attempts'[b].snapshot.refresh
      BY <2>3 DEF GenuineInv, TokensDiffer
    <2> QED
      BY <2>1, <2>2, <2>3 DEF TokensDiffer
  <1>2. SpentIsKnown'
    <2>1. Good(state'.refresh) => Good(state.refresh)'
      BY DEF Good
    <2> QED
      BY <2>1 DEF SpentIsKnown
  <1>3. RefusedIsGone'
    BY RefusedFrame DEF GenuineInv
  <1>4. IntegrityIsKnown'
    BY NewGenerationIntegrity
  <1>5. stateRevision' # 0
    BY DEF RefreshInv, RefreshTypeOK, TypeOK
  <1> QED
    BY <1>1, <1>2, <1>3, <1>4, <1>5 DEF GenuineInv

(* A commit of an attempt whose generation is gone, or of a refusal that   *)
(* does not stand, changes only the attempt.                               *)
LEMMA GenuineDeclined ==
    ASSUME RefreshInv, GenuineInv, NEW a \in Attempts,
           attempts[a].pc \in {"commit", "refusal"},
           attempts[a].pc = "commit" => attempts[a].revision # stateRevision,
           attempts' = [attempts EXCEPT ![a].pc = "finish"],
           UNCHANGED <<actors, refreshSchedule, live, revoked, abandoned, faults, vars>>
    PROVE  GenuineInv'
  <1>0. attempts[a] \in RefreshAttempts
    BY DEF RefreshInv, RefreshTypeOK
  <1> DEFINE t == [attempts[a] EXCEPT !.pc = "finish"]
  <1>1. attempts' = [attempts EXCEPT ![a] = t]
    OBVIOUS
  <1>2. t \in RefreshAttempts
    BY <1>0, AttemptUpdates, Zenon DEF AttemptPCs
  <1>3. /\ t.pc = "finish" /\ t.revision = attempts[a].revision
        /\ t.snapshot = attempts[a].snapshot
    BY <1>0 DEF RefreshAttempts
  <1> HIDE DEF t
  <1>4. Unfinished(a) /\ ~Spending(a)
    BY DEF Unfinished, Spending, HasGrant
  <1> QED
    BY <1>1, <1>2, <1>3, <1>4, GenuineAttempt

(* An attempt commits its grant or the refusal.                            *)
LEMMA GenuineCommits ==
    ASSUME RefreshInv, GenuineInv, NEW a \in Attempts,
           CommitRefresh(a) \/ CommitRefusal(a)
    PROVE  GenuineInv'
  <1>0. /\ attempts \in [Attempts -> RefreshAttempts] /\ attempts[a] \in RefreshAttempts
        /\ attempts[a].grant \in Nat /\ attempts[a].snapshot \in TokenStates
        /\ attempts[a].snapshot.access \in Nat /\ minted \in Nat /\ state.refresh \in Nat
    BY DEF RefreshInv, RefreshTypeOK, RefreshAttempts, TokenStates, TypeOK
  <1>1. /\ attempts[a].pc \in {"commit", "refusal"}
        /\ UNCHANGED <<actors, refreshSchedule, live, revoked, abandoned, faults>>
        /\ UNCHANGED <<minted, loginStamp>>
    BY DEF CommitRefresh, CommitRefusal
  <1>2. Unfinished(a) /\ \A b \in Attempts : Unfinished(b) => b = a
    BY <1>1 DEF Unfinished, RefreshInv, Flight, SingleFlight
  <1>3. ASSUME attempts' = [attempts EXCEPT ![a].pc = "committing"],
               stateRevision' = stateRevision + 1,
               "lost" \in faults \/ state'.refresh = 0 \/ Good(state'.refresh),
               state'.refresh <= minted,
               loginStamp # 0 => loginStamp # state'.refresh,
               Rotating => attempts[a].snapshot.refresh # state'.refresh
        PROVE  GenuineInv'
    <2> DEFINE t == [attempts[a] EXCEPT !.pc = "committing"]
    <2>1. attempts' = [attempts EXCEPT ![a] = t]
      BY <1>3
    <2>2. /\ t.pc = "committing" /\ t.revision = attempts[a].revision
          /\ t.snapshot = attempts[a].snapshot
      BY <1>0 DEF RefreshAttempts
    <2> HIDE DEF t
    <2>3. \A b \in Attempts : attempts'[b] = IF b = a THEN t ELSE attempts[b]
      BY <1>0, <2>1
    <2>4. \A b \in Attempts : Unfinished(b)' => b = a /\ attempts'[b] = t
      BY <1>2, <2>3 DEF Unfinished
    <2>5. \A b \in Attempts : ~HasGrant(b)'
      BY <2>2, <2>4 DEF HasGrant, Unfinished
    <2>6. \A b \in Attempts : ~(attempts'[b].pc = "refusal"
                  \/ (attempts'[b].pc = "answered" /\ attempts'[b].err = "refused"))
      BY <2>2, <2>4 DEF Unfinished
    <2> QED
      BY <1>1, <1>2, <1>3, <2>2, <2>4, <2>5, <2>6, GenuineGeneration
  <1>4. CASE CommitRefresh(a) /\ attempts[a].revision = stateRevision
    <2>1. /\ attempts[a].pc = "commit" /\ state' = RefreshedState(a)
          /\ stateRevision' = stateRevision + 1
          /\ attempts' = [attempts EXCEPT ![a].pc = "committing"]
      BY <1>4 DEF CommitRefresh, advanceStateLocked
    <2>2. HasGrant(a)
      BY <2>1 DEF HasGrant, RefreshInv, Grants
    <2>3. /\ attempts[a].snapshot = state /\ state.refresh # 0
          /\ attempts[a].grant # 0 /\ attempts[a].grant <= minted
          /\ attempts[a].grant # loginStamp
      <3>1. /\ attempts[a].grant > attempts[a].snapshot.access
            /\ attempts[a].grant <= minted /\ attempts[a].grant # loginStamp
        BY <2>2 DEF HasGrant, RefreshInv, Grants
      <3>2. attempts[a].grant # 0
        BY <1>0, <3>1
      <3> QED
        BY <1>2, <1>4, <3>1, <3>2 DEF RefreshInv, Snapshots
    <2>4. state'.refresh = IF attempts[a].refresh # 0 THEN attempts[a].refresh ELSE state.refresh
      BY <2>1, <2>3 DEF RefreshedState, Granted
    <2>5. CASE Rotating
      <3>1. /\ attempts[a].refresh = attempts[a].grant
            /\ attempts[a].grant \in live \cup revoked /\ attempts[a].grant \notin abandoned
            /\ attempts[a].grant # attempts[a].snapshot.refresh
        BY <2>2, <2>5 DEF GenuineInv, TokensDiffer
      <3>2. state'.refresh = attempts[a].grant
        BY <2>3, <2>4, <3>1
      <3>3. Good(state'.refresh)
        BY <3>1, <3>2 DEF Good
      <3> QED
        BY <1>3, <2>1, <2>3, <3>1, <3>2, <3>3
    <2>6. CASE ~Rotating
      <3>1. attempts[a].refresh = 0
        BY <2>2, <2>6 DEF GenuineInv, TokensDiffer
      <3>2. state'.refresh = state.refresh
        BY <2>4, <3>1
      <3>3. state.refresh <= minted /\ (loginStamp # 0 => loginStamp # state.refresh)
        BY DEF GenuineInv, TokensDiffer
      <3>4. "lost" \in faults \/ Good(state'.refresh)
        BY <2>3, <2>6, <3>2 DEF GenuineInv, SpentIsKnown
      <3> QED
        BY <1>3, <2>1, <2>6, <3>2, <3>3, <3>4
    <2> QED
      BY <2>5, <2>6
  <1>5. CASE CommitRefresh(a) /\ attempts[a].revision # stateRevision
    <2>1. /\ attempts[a].pc = "commit" /\ attempts' = [attempts EXCEPT ![a].pc = "finish"]
          /\ UNCHANGED vars
      BY <1>5 DEF CommitRefresh, vars, sessionVars, eventVars
    <2> QED
      BY <1>1, <1>5, <2>1, GenuineDeclined
  <1>6. CASE CommitRefusal(a)
    <2>1. PICK loaded \in BOOLEAN :
             IF RefusalStands(a, loaded)
             THEN /\ advanceStateLocked(RefusedState(attempts[a].snapshot))
                  /\ attempts' = [attempts EXCEPT ![a].pc = "committing"]
             ELSE /\ attempts' = [attempts EXCEPT ![a].pc = "finish"]
                  /\ UNCHANGED <<state, stateRevision, persistenceRetry, restoreBlocked, sup,
                                 commit>>
      BY <1>6 DEF CommitRefusal
    <2>2. /\ attempts[a].pc = "refusal"
          /\ UNCHANGED <<store, persistenceClaimSeq, refreshRun, minted, loginStamp, eventVars>>
      BY <1>6 DEF CommitRefusal
    <2>3. CASE RefusalStands(a, loaded)
      <3>1. /\ state'.refresh = 0 /\ stateRevision' = stateRevision + 1
            /\ attempts' = [attempts EXCEPT ![a].pc = "committing"]
        BY <1>0, <2>1, <2>3 DEF advanceStateLocked, RefusedState, ZeroState
      <3>2. attempts[a].snapshot.refresh # 0
        BY <1>2 DEF RefreshInv, Snapshots
      <3> QED
        BY <1>0, <1>3, <3>1, <3>2
    <2>4. CASE ~RefusalStands(a, loaded)
      <3>1. attempts' = [attempts EXCEPT ![a].pc = "finish"] /\ UNCHANGED vars
        BY <2>1, <2>2, <2>4 DEF vars, sessionVars
      <3> QED
        BY <1>1, <2>2, <3>1, GenuineDeclined
    <2> QED
      BY <2>3, <2>4
  <1> QED
    BY <1>4, <1>5, <1>6

(* Completing an attempt keeps its error or forgets it.                    *)
LEMMA CompletedErr ==
    ASSUME NEW t \in RefreshAttempts
    PROVE  Completed(t).err \in {t.err, "none"}
  <1>1. \/ \E p \in {"draining", "complete"} : Completed(t) = [t EXCEPT !.pc = p]
        \/ Completed(t) = FreeAttempt
    BY Zenon DEF Completed
  <1>2. FreeAttempt.err = "none"
    BY DEF FreeAttempt
  <1>3. ASSUME NEW p \in {"draining", "complete"}
        PROVE  [t EXCEPT !.pc = p].err = t.err
    BY DEF RefreshAttempts
  <1> QED
    BY <1>1, <1>2, <1>3

(* An attempt publishes its result.  What it says of the token it has      *)
(* spent is recorded first.                                                *)
LEMMA GenuineFinish ==
    ASSUME RefreshInv, GenuineInv, NEW a \in Attempts, finishRefreshAttempt(a)
    PROVE  GenuineInv'
  <1>0. /\ attempts \in [Attempts -> RefreshAttempts] /\ attempts[a] \in RefreshAttempts
        /\ actors \in [Actors -> ActorStates] /\ refreshSchedule \in Schedules
        /\ attempts[a].revision \in Nat /\ attempts[a].participants \in Nat
        /\ attempts[a].err \in Errors /\ attempts[a].drain \in BOOLEAN
    BY DEF RefreshInv, RefreshTypeOK, RefreshAttempts
  <1>1. attempts[a].pc = "finish" /\ UNCHANGED <<worldVars, vars>>
    BY DEF finishRefreshAttempt
  <1>2. /\ UNCHANGED <<state, stateRevision, minted, loginStamp, store>>
        /\ UNCHANGED <<live, revoked, abandoned, faults>>
    BY <1>1 DEF vars, sessionVars, worldVars
  <1>3. Unfinished(a) /\ \A b \in Attempts : Unfinished(b) => b = a
    BY <1>1 DEF Unfinished, RefreshInv, Flight, SingleFlight
  <1> DEFINE revision == attempts[a].revision
  <1>4. /\ \/ refreshSchedule' = refreshSchedule
           \/ refreshSchedule' = blockRefreshIntegrityLocked(revision)
           \/ refreshSchedule' = blockRefreshPermanentLocked(revision)
           \/ refreshSchedule' = markRefreshInconclusiveLocked(revision)
        /\ attempts[a].err = "integrity" =>
              refreshSchedule' = blockRefreshIntegrityLocked(revision)
        /\ attempts[a].err = "transport" /\ attempts[a].cancelled =>
              refreshSchedule' = markRefreshInconclusiveLocked(revision)
    <2>1. PICK gaveUp \in BOOLEAN :
             gaveUp = (attempts[a].err = "transport" /\ attempts[a].cancelled)
      BY Zenon
    <2>2. refreshSchedule' =
            CASE attempts[a].err = "integrity" -> blockRefreshIntegrityLocked(revision)
              [] attempts[a].err \in PermanentErrors -> blockRefreshPermanentLocked(revision)
              [] gaveUp -> markRefreshInconclusiveLocked(revision)
              [] OTHER -> refreshSchedule
      BY <2>1, Zenon DEF finishRefreshAttempt
    <2>3. gaveUp => attempts[a].err = "transport"
      BY <2>1, Zenon
    <2>4. attempts[a].err = "transport" /\ attempts[a].cancelled => gaveUp
      BY <2>1, Zenon
    <2> HIDE DEF revision
    <2>5. attempts[a].err = "integrity" =>
             refreshSchedule' = blockRefreshIntegrityLocked(revision)
      BY <2>2, <2>3 DEF PermanentErrors
    <2>6. gaveUp => refreshSchedule' = markRefreshInconclusiveLocked(revision)
      BY <2>2, <2>3 DEF PermanentErrors
    <2>7. \/ refreshSchedule' = refreshSchedule
          \/ refreshSchedule' = blockRefreshIntegrityLocked(revision)
          \/ refreshSchedule' = blockRefreshPermanentLocked(revision)
          \/ refreshSchedule' = markRefreshInconclusiveLocked(revision)
      BY <2>2
    <2> QED
      BY <2>4, <2>5, <2>6, <2>7
  <1> HIDE DEF revision
  <1>5. revision \in Nat /\ attempts[a].revision = revision
    BY <1>0 DEF revision
  <1>6. /\ refreshInconclusiveLocked(stateRevision) => refreshInconclusiveLocked(stateRevision)'
        /\ refreshIntegrityBlockedLocked => refreshIntegrityBlockedLocked'
    BY <1>2, <1>4, <1>5, BlocksRemember
  <1>7. refreshScheduleLocked(revision) \in Schedules
    BY <1>0, <1>5, ScheduleUpdates DEF refreshScheduleLocked
  <1>8. /\ refreshScheduleLocked(revision).valid
        /\ refreshScheduleLocked(revision).revision = revision
    BY DEF refreshScheduleLocked, ScheduledFor, NewSchedule
  <1>9. revision = stateRevision /\ attempts[a].err = "integrity" => refreshIntegrityBlockedLocked'
    BY <1>2, <1>4, <1>7, <1>8
    DEF blockRefreshIntegrityLocked, refreshIntegrityBlockedLocked, ScheduledFor, Schedules
  <1>10. revision = stateRevision /\ attempts[a].err = "transport" /\ attempts[a].cancelled =>
            refreshInconclusiveLocked(stateRevision)'
    BY <1>2, <1>4, <1>7, <1>8
    DEF markRefreshInconclusiveLocked, refreshInconclusiveLocked, ScheduledFor, Schedules
  <1> DEFINE t == [FreeAttempt EXCEPT !.participants = attempts[a].participants,
                                      !.err = attempts[a].err, !.drain = attempts[a].drain]
             u == Completed(t)
  <1>11. attempts' = [attempts EXCEPT ![a] = u]
    BY DEF finishRefreshAttempt
  <1>12. t \in RefreshAttempts
    BY <1>0, FreshAttempts, Zenon
  <1>13. t.err = attempts[a].err
    BY DEF FreeAttempt
  <1> HIDE DEF t
  <1>14. u.pc \in {"free", "draining", "complete"} /\ u.err \in {attempts[a].err, "none"}
    BY <1>12, <1>13, CompletedFacts, CompletedErr
  <1> HIDE DEF u
  <1>15. \A b \in Attempts : attempts'[b] = IF b = a THEN u ELSE attempts[b]
    BY <1>0, <1>11
  <1>16. \A b \in Attempts : ~Unfinished(b)' /\ ~HasGrant(b)'
    BY <1>3, <1>14, <1>15 DEF Unfinished, HasGrant
  <1>17. TokensDiffer'
    BY <1>2, <1>16, TokensFrame DEF GenuineInv
  <1>18. SpentIsKnown'
    <2>1. ASSUME NEW b \in Attempts, Spending(b)
          PROVE  refreshInconclusiveLocked(stateRevision)' \/ refreshIntegrityBlockedLocked'
      <3>1. b = a
        BY <1>3, <2>1 DEF Spending, HasGrant, Unfinished
      <3>2. /\ revision = stateRevision
            /\ attempts[a].err = "integrity" \/ (attempts[a].err = "transport" /\ attempts[a].cancelled)
        BY <1>1, <1>5, <2>1, <3>1 DEF Spending, HasGrant
      <3> QED
        BY <1>9, <1>10, <3>2
    <2> QED
      BY <1>2, <1>6, <2>1, SpentFrame DEF GenuineInv
  <1>19. RefusedIsGone'
    BY <1>2, <1>14, <1>15 DEF GenuineInv, RefusedIsGone
  <1>20. IntegrityIsKnown'
    <2>1. ASSUME NEW c \in Actors, actors'[c].pc # "begin"
          PROVE  actors'[c] = actors[c]
      <3>1. actors'[c] = IF actors[c].pc = "await" /\ actors[c].attempt = a
                         THEN [actors[c] EXCEPT !.pc = "begin", !.attempt = 0] ELSE actors[c]
        BY DEF finishRefreshAttempt
      <3>2. [actors[c] EXCEPT !.pc = "begin", !.attempt = 0].pc = "begin"
        BY <1>0 DEF ActorStates
      <3> QED
        BY <2>1, <3>1, <3>2
    <2>2. ASSUME NEW c \in Actors, actors'[c].revision = stateRevision'
          PROVE  /\ actors'[c].pc = "returned" /\ actors'[c].err = "integrity" =>
                       refreshIntegrityBlockedLocked'
                 /\ \A b \in Attempts : actors'[c].pc = "wait" /\ actors'[c].attempt = b =>
                       (attempts'[b].err = "integrity" => refreshIntegrityBlockedLocked')
      <3>1. CASE actors'[c].pc = "returned"
        BY <1>2, <1>6, <2>1, <2>2, <3>1 DEF GenuineInv, IntegrityIsKnown
      <3>2. ASSUME actors'[c].pc = "wait", NEW b \in Attempts, actors'[c].attempt = b,
                   attempts'[b].err = "integrity"
            PROVE  refreshIntegrityBlockedLocked'
        <4>1. /\ actors[c].revision = stateRevision /\ actors[c].pc = "wait"
              /\ actors[c].attempt = b
          BY <1>2, <2>1, <2>2, <3>2
        <4>2. CASE b = a
          <5>1. attempts[a].err = "integrity"
            BY <1>14, <1>15, <3>2, <4>2
          <5>2. attempts[a].revision = stateRevision
            BY <1>3, <4>1, <4>2 DEF GenuineInv, IntegrityIsKnown
          <5> QED
            BY <1>5, <1>9, <5>1, <5>2
        <4>3. CASE b # a
          <5>1. attempts[b].err = "integrity" /\ ~Unfinished(b)
            BY <1>3, <1>15, <3>2, <4>3
          <5>2. refreshIntegrityBlockedLocked
            BY <4>1, <5>1 DEF GenuineInv, IntegrityIsKnown
          <5> QED
            BY <1>6, <5>2
        <4> QED
          BY <4>2, <4>3
      <3> QED
        BY <3>1, <3>2
    <2> QED
      BY <1>16, <2>2 DEF IntegrityIsKnown
  <1> QED
    BY <1>2, <1>17, <1>18, <1>19, <1>20 DEF GenuineInv

(* The Save of a commit returns; the events are drained.                   *)
LEMMA GenuineStored ==
    ASSUME RefreshInv, Inv, GenuineInv, Stored \/ DrainEvents
    PROVE  GenuineInv'
  <1>0. attempts \in [Attempts -> RefreshAttempts]
    BY DEF RefreshInv, RefreshTypeOK
  <1>1. /\ UNCHANGED <<refreshAttempt, actors, refreshSchedule, worldVars>>
        /\ UNCHANGED <<state, stateRevision, minted, loginStamp>>
    BY DEF Stored, CommitSaved, CommitUnsaved, DrainEvents, Drain, sessionVars
  <1>2. stateRevision' = 0 => store' = ZeroState
    <2>1. CASE Stored
      <3>1. commit \in {"login", "refresh", "refusal"}
        BY <2>1 DEF Stored, CommitSaved, CommitUnsaved, CommitEvent
      <3> QED
        BY <1>1, <3>1 DEF Inv, CommitShape
    <2>2. CASE DrainEvents
      BY <1>1, <2>2 DEF DrainEvents, Drain, sessionVars, GenuineInv
    <2> QED
      BY <2>1, <2>2
  <1>3. ASSUME NEW b \in Attempts
        PROVE  \/ attempts'[b] = attempts[b]
               \/ /\ attempts[b].pc = "committing" /\ attempts'[b].pc = "finish"
                  /\ attempts'[b].revision = attempts[b].revision
                  /\ attempts'[b].snapshot = attempts[b].snapshot
               \/ /\ attempts[b].pc = "draining"
                  /\ attempts'[b].pc \in {"free", "draining", "complete"}
                  /\ attempts'[b].err \in {attempts[b].err, "none"}
    <2>1. attempts[b] \in RefreshAttempts
      BY <1>0
    <2>2. CASE Stored
      <3>1. PICK drain \in BOOLEAN : drain = ~eventDispatching
        BY Zenon
      <3>2. attempts'[b] = IF attempts[b].pc = "committing"
                           THEN [attempts[b] EXCEPT !.pc = "finish", !.drain = drain]
                           ELSE attempts[b]
        BY <2>2, <3>1, Zenon DEF Stored
      <3> DEFINE t == [attempts[b] EXCEPT !.pc = "finish", !.drain = drain]
      <3>3. /\ t.pc = "finish" /\ t.revision = attempts[b].revision
            /\ t.snapshot = attempts[b].snapshot
        BY <2>1 DEF RefreshAttempts
      <3>4. attempts'[b] = attempts[b] \/ (attempts[b].pc = "committing" /\ attempts'[b] = t)
        BY <3>2
      <3> HIDE DEF t
      <3> QED
        BY <3>3, <3>4
    <2>3. CASE DrainEvents
      <3> DEFINE t == [attempts[b] EXCEPT !.drain = FALSE]
      <3>1. attempts'[b] = attempts[b] \/ (attempts[b].pc = "draining" /\ attempts'[b] = Completed(t))
        BY <2>3 DEF DrainEvents
      <3>2. t \in RefreshAttempts
        BY <2>1, AttemptUpdates, Zenon
      <3>3. t.err = attempts[b].err
        BY <2>1 DEF RefreshAttempts
      <3> HIDE DEF t
      <3>4. Completed(t).err \in {t.err, "none"}
        BY <3>2, CompletedErr
      <3> QED
        BY <3>1, <3>2, <3>3, <3>4, CompletedFacts
    <2> QED
      BY <2>2, <2>3
  <1>4. \A b \in Attempts :
               /\ Unfinished(b)' => /\ Unfinished(b)
                                    /\ attempts'[b].revision = attempts[b].revision
                                    /\ attempts'[b].snapshot = attempts[b].snapshot
               /\ HasGrant(b)' => /\ HasGrant(b)
                                  /\ attempts'[b].grant = attempts[b].grant
                                  /\ attempts'[b].refresh = attempts[b].refresh
                                  /\ attempts'[b].snapshot = attempts[b].snapshot
               /\ ~Unfinished(b)' /\ attempts'[b].err = "integrity" =>
                     ~Unfinished(b) /\ attempts[b].err = "integrity"
    BY <1>3 DEF Unfinished, HasGrant
  <1>5. ASSUME NEW b \in Attempts, Spending(b)
        PROVE  Spending(b)'
    <2>1. attempts'[b] = attempts[b]
      BY <1>3, <1>5 DEF Spending, HasGrant
    <2> QED
      BY <1>1, <1>5, <2>1 DEF Spending, HasGrant
  <1>6. RefusedIsGone'
    BY <1>1, <1>3 DEF GenuineInv, RefusedIsGone, worldVars
  <1>7. /\ refreshIntegrityBlockedLocked' <=> refreshIntegrityBlockedLocked
        /\ refreshInconclusiveLocked(stateRevision) => refreshInconclusiveLocked(stateRevision)'
    BY <1>1 DEF refreshIntegrityBlockedLocked, refreshInconclusiveLocked, ScheduledFor
  <1>8. UNCHANGED <<live, revoked, abandoned, faults>>
    BY <1>1 DEF worldVars
  <1> QED
    BY <1>1, <1>2, <1>4, <1>5, <1>6, <1>7, <1>8, GenuineStill

(* The refresh grant stands still: Login exchanges, the store deletes,     *)
(* time passes and the provider acts on its own.                           *)
LEMMA GenuineProvider ==
    ASSUME RefreshInv, GenuineInv, UNCHANGED <<refreshVars, state, stateRevision, faults>>,
           stateRevision' = 0 => store' = ZeroState,
           TokensDiffer',
           \A token \in live' : token \in live \/ token > minted,
           Good(state.refresh) /\ state.refresh # 0 => Good(state.refresh)'
    PROVE  GenuineInv'
  <1>0. UNCHANGED <<attempts, actors, refreshSchedule>>
    BY DEF refreshVars
  <1>1. \A b \in Attempts : /\ Unfinished(b)' <=> Unfinished(b)
                            /\ Spending(b) <=> Spending(b)'
    BY <1>0 DEF Unfinished, Spending, HasGrant
  <1>2. /\ refreshIntegrityBlockedLocked' <=> refreshIntegrityBlockedLocked
        /\ refreshInconclusiveLocked(stateRevision) <=> refreshInconclusiveLocked(stateRevision)'
    BY <1>0 DEF refreshIntegrityBlockedLocked, refreshInconclusiveLocked, ScheduledFor
  <1>3. SpentIsKnown'
    BY <1>1, <1>2 DEF GenuineInv, SpentIsKnown
  <1>4. RefusedIsGone'
    BY <1>0, RefusedFrame DEF GenuineInv
  <1>5. IntegrityIsKnown'
    BY <1>0, <1>1, <1>2, IntegrityFrame DEF GenuineInv
  <1> QED
    BY <1>3, <1>4, <1>5 DEF GenuineInv

(* A store that keeps the Go value never brings a new generation back into *)
(* memory: RestoreSession finds what is there.                             *)
LEMMA RestoreFindsState ==
    ASSUME Inv, GenuineInv, JSONStore = FALSE, RestoreSession
    PROVE  UNCHANGED <<state, stateRevision>>
  <1>1. stateRevision # 0
    BY ZeroIsZero DEF GenuineInv, RestoreSession
  <1>2. store = state
    <2>1. stateRevision > 0
      BY <1>1 DEF Inv, TypeOK
    <2> QED
      BY <2>1 DEF Inv, DurableOrPending, RestoreSession, Persisted
  <1> QED
    BY <1>2 DEF RestoreSession, setStateLocked

(* Login, Logout, RestoreSession, the clock and the provider.              *)
LEMMA GenuineOthers ==
    ASSUME RefreshInv, Inv, GenuineInv, JSONStore = FALSE,
           \/ Login \/ LoginCommits \/ Logout \/ LogoutDeletes \/ Restore
           \/ LateGrant \/ Tick \/ Revoke \/ UNCHANGED allVars
    PROVE  GenuineInv'
  <1>0. /\ minted \in Nat /\ loginStamp \in Nat /\ state.refresh \in Nat
        /\ live \subseteq Nat /\ abandoned \subseteq Nat
        /\ \A b \in Attempts : /\ attempts[b].snapshot.refresh \in Nat
                               /\ attempts[b].grant \in Nat
                               /\ attempts[b].snapshot.access \in Nat
    BY DEF RefreshInv, RefreshTypeOK, TypeOK, RefreshAttempts, TokenStates
  <1>1. /\ UNCHANGED <<attempts, actors, refreshSchedule, faults>>
        /\ UNCHANGED refreshVars
    BY DEF Login, LoginCommits, Logout, LogoutDeletes, Restore, LateGrant, Tick, Revoke,
           allVars, refreshVars, worldVars
  <1>2. \A b \in Attempts : /\ Unfinished(b)' <=> Unfinished(b)
                            /\ HasGrant(b)' <=> HasGrant(b)
    BY <1>1 DEF Unfinished, HasGrant
  <1>3. ASSUME UNCHANGED <<state, stateRevision, minted, loginStamp, live, revoked, abandoned>>,
               stateRevision' = 0 => store' = ZeroState
        PROVE  GenuineInv'
    <2>1. TokensDiffer'
      BY <1>1, <1>2, <1>3, TokensFrame DEF GenuineInv
    <2>2. Good(state.refresh) => Good(state.refresh)'
      BY <1>3 DEF Good
    <2> QED
      BY <1>1, <1>3, <2>1, <2>2, GenuineProvider
  <1>4. CASE Login
    <2>1. /\ minted' = minted + 1 /\ loginStamp' = minted'
          /\ live' = live \cup {minted'}
          /\ UNCHANGED <<state, stateRevision, store, revoked, abandoned>>
      BY <1>4 DEF Login, LoginExchange
    <2>2. \A n \in Nat : n <= minted => n <= minted' /\ n # minted'
      BY <1>0, <2>1
    <2>3. minted' <= minted' /\ minted' > minted
      BY <1>0, <2>1
    <2>4. TokensDiffer'
      <3>1. /\ \A token \in live' \cup abandoned' : token <= minted'
            /\ state'.refresh <= minted'
            /\ loginStamp' \in live' \cup revoked' /\ loginStamp' \notin abandoned'
            /\ loginStamp' # state'.refresh
        BY <1>0, <2>1, <2>2, <2>3 DEF GenuineInv, TokensDiffer
      <3>2. ASSUME NEW b \in Attempts, Unfinished(b)'
            PROVE  /\ attempts'[b].snapshot.refresh <= minted'
                   /\ attempts'[b].snapshot.refresh # loginStamp'
                   /\ Rotating /\ attempts'[b].revision # stateRevision' =>
                         attempts'[b].snapshot.refresh # state'.refresh
        BY <1>0, <1>1, <1>2, <2>1, <2>2, <3>2 DEF GenuineInv, TokensDiffer
      <3>3. ASSUME NEW b \in Attempts, HasGrant(b)'
            PROVE  /\ attempts'[b].refresh = IF Rotating THEN attempts'[b].grant ELSE 0
                   /\ Rotating => /\ attempts'[b].grant \in live' \cup revoked'
                                  /\ attempts'[b].grant \notin abandoned'
                                  /\ attempts'[b].grant # state'.refresh
                                  /\ attempts'[b].grant # attempts'[b].snapshot.refresh
        BY <1>1, <1>2, <2>1, <3>3 DEF GenuineInv, TokensDiffer
      <3> QED
        BY <3>1, <3>2, <3>3 DEF TokensDiffer
    <2>5. Good(state.refresh) => Good(state.refresh)'
      BY <2>1 DEF Good
    <2>6. \A token \in live' : token \in live \/ token > minted
      BY <2>1, <2>3
    <2>7. stateRevision' = 0 => store' = ZeroState
      BY <2>1 DEF GenuineInv
    <2> QED
      BY <1>1, <2>1, <2>4, <2>5, <2>6, <2>7, GenuineProvider
  <1>5. CASE LoginCommits
    <2>1. /\ loginStamp # 0 /\ state'.refresh \in {0, loginStamp} /\ loginStamp' = 0
          /\ stateRevision' = stateRevision + 1
          /\ UNCHANGED <<minted, live, revoked, abandoned>>
      BY <1>5 DEF LoginCommits, LoginBegin, advanceStateLocked, Granted
    <2>2. /\ loginStamp \in live \cup revoked /\ loginStamp \notin abandoned
          /\ loginStamp <= minted /\ 0 <= minted
      BY <1>0, <2>1 DEF GenuineInv, TokensDiffer, RefreshInv, Stamps
    <2>3. state'.refresh = 0 \/ Good(state'.refresh)
      BY <2>1, <2>2 DEF Good
    <2>4. \A b \in Attempts : Unfinished(b) => attempts[b].snapshot.refresh # state'.refresh
      BY <2>1 DEF GenuineInv, TokensDiffer, RefreshInv, Snapshots
    <2>5. ASSUME NEW b \in Attempts, HasGrant(b)
          PROVE  attempts[b].grant # state'.refresh
      <3>1. attempts[b].grant > attempts[b].snapshot.access /\ attempts[b].grant # loginStamp
        BY <2>5 DEF HasGrant, RefreshInv, Grants
      <3>2. attempts[b].grant # 0
        BY <1>0, <3>1
      <3> QED
        BY <2>1, <3>1, <3>2
    <2> QED
      BY <1>1, <1>2, <2>1, <2>2, <2>3, <2>4, <2>5, GenuineGeneration
  <1>6. CASE Logout
    <2>1. /\ loginStamp' = 0 /\ UNCHANGED <<store, minted, live, revoked, abandoned>>
      BY <1>6 DEF Logout, LogoutBegin
    <2>2. CASE state = ZeroState
      <3>1. UNCHANGED <<state, stateRevision>>
        BY <1>6, <2>2 DEF Logout, LogoutBegin
      <3>2. TokensDiffer'
        <4>1. ASSUME NEW b \in Attempts, Unfinished(b)'
              PROVE  /\ attempts'[b].snapshot.refresh <= minted'
                     /\ attempts'[b].snapshot.refresh # loginStamp'
                     /\ Rotating /\ attempts'[b].revision # stateRevision' =>
                           attempts'[b].snapshot.refresh # state'.refresh
          BY <1>1, <1>2, <2>1, <3>1, <4>1 DEF GenuineInv, TokensDiffer, RefreshInv, Snapshots
        <4>2. ASSUME NEW b \in Attempts, HasGrant(b)'
              PROVE  /\ attempts'[b].refresh = IF Rotating THEN attempts'[b].grant ELSE 0
                     /\ Rotating => /\ attempts'[b].grant \in live' \cup revoked'
                                    /\ attempts'[b].grant \notin abandoned'
                                    /\ attempts'[b].grant # state'.refresh
                                    /\ attempts'[b].grant # attempts'[b].snapshot.refresh
          BY <1>1, <1>2, <2>1, <3>1, <4>2 DEF GenuineInv, TokensDiffer
        <4> QED
          BY <2>1, <3>1, <4>1, <4>2 DEF GenuineInv, TokensDiffer
      <3>3. Good(state.refresh) => Good(state.refresh)'
        BY <2>1, <3>1 DEF Good
      <3>4. stateRevision' = 0 => store' = ZeroState
        BY <2>1, <3>1 DEF GenuineInv
      <3> QED
        BY <1>1, <2>1, <3>1, <3>2, <3>3, <3>4, GenuineProvider
    <2>3. CASE state # ZeroState
      <3>1. state'.refresh = 0 /\ stateRevision' = stateRevision + 1 /\ 0 <= minted
        BY <1>0, <1>6, <2>3 DEF Logout, LogoutBegin, ZeroState
      <3>2. \A b \in Attempts : Unfinished(b) => attempts[b].snapshot.refresh # 0
        BY DEF RefreshInv, Snapshots
      <3>3. ASSUME NEW b \in Attempts, HasGrant(b)
            PROVE  attempts[b].grant # 0
        <4>1. attempts[b].grant > attempts[b].snapshot.access
          BY <3>3 DEF HasGrant, RefreshInv, Grants
        <4> QED
          BY <1>0, <4>1
      <3> QED
        BY <1>1, <1>2, <2>1, <3>1, <3>2, <3>3, GenuineGeneration
    <2> QED
      BY <2>2, <2>3
  <1>7. CASE LogoutDeletes
    <2>1. stateRevision' = 0 => store' = ZeroState
      BY <1>7 DEF LogoutDeletes, LogoutDone, DeleteRemains, GenuineInv
    <2> QED
      BY <1>3, <1>7, <2>1 DEF LogoutDeletes, LogoutDone, worldVars
  <1>8. CASE Restore
    <2>1. /\ UNCHANGED <<state, stateRevision, store, minted, loginStamp>>
          /\ UNCHANGED <<live, revoked, abandoned>>
      BY <1>8, RestoreFindsState DEF Restore, RestoreSession
    <2> QED
      BY <1>3, <2>1 DEF GenuineInv
  <1>9. CASE LateGrant \/ Revoke
    <2>1. /\ UNCHANGED <<state, stateRevision, store, minted, loginStamp>>
          /\ live' \subseteq live /\ abandoned' \subseteq abandoned /\ revoked \subseteq revoked'
      BY <1>9 DEF LateGrant, Revoke, vars, sessionVars
    <2>2. ASSUME NEW token, token \in live \cup revoked, Rotating => token \notin abandoned
          PROVE  token \in live' \cup revoked'
      BY <1>9, <2>2 DEF LateGrant, Revoke
    <2>3. ASSUME NEW token, token \in live \cup revoked, token \notin abandoned
          PROVE  token \in live' \cup revoked'
      BY <2>2, <2>3
    <2>4. TokensDiffer'
      <3>1. /\ \A token \in live' \cup abandoned' : token <= minted'
            /\ state'.refresh <= minted'
            /\ loginStamp' # 0 =>
                  /\ loginStamp' \in live' \cup revoked' /\ loginStamp' \notin abandoned'
                  /\ loginStamp' # state'.refresh
        BY <2>1, <2>3 DEF GenuineInv, TokensDiffer
      <3>2. ASSUME NEW b \in Attempts, Unfinished(b)'
            PROVE  /\ attempts'[b].snapshot.refresh <= minted'
                   /\ attempts'[b].snapshot.refresh # loginStamp'
                   /\ Rotating /\ attempts'[b].revision # stateRevision' =>
                         attempts'[b].snapshot.refresh # state'.refresh
        BY <1>1, <1>2, <2>1, <3>2 DEF GenuineInv, TokensDiffer
      <3>3. ASSUME NEW b \in Attempts, HasGrant(b)'
            PROVE  /\ attempts'[b].refresh = IF Rotating THEN attempts'[b].grant ELSE 0
                   /\ Rotating => /\ attempts'[b].grant \in live' \cup revoked'
                                  /\ attempts'[b].grant \notin abandoned'
                                  /\ attempts'[b].grant # state'.refresh
                                  /\ attempts'[b].grant # attempts'[b].snapshot.refresh
        BY <1>1, <1>2, <2>1, <2>3, <3>3 DEF GenuineInv, TokensDiffer
      <3> QED
        BY <3>1, <3>2, <3>3 DEF TokensDiffer
    <2>5. Good(state.refresh) => Good(state.refresh)'
      BY <2>1, <2>2 DEF Good
    <2>6. stateRevision' = 0 => store' = ZeroState
      BY <2>1 DEF GenuineInv
    <2> QED
      BY <1>1, <2>1, <2>4, <2>5, <2>6, GenuineProvider
  <1>10. CASE Tick \/ UNCHANGED allVars
    <2>1. /\ UNCHANGED <<state, stateRevision, store, minted, loginStamp>>
          /\ UNCHANGED <<live, revoked, abandoned>>
      BY <1>10 DEF Tick, allVars, worldVars, vars, sessionVars
    <2> QED
      BY <1>3, <2>1 DEF GenuineInv
  <1> QED
    BY <1>4, <1>5, <1>6, <1>7, <1>8, <1>9, <1>10

(* The inductive step, without loops and with the default store.           *)
LEMMA GenuineInvStep ==
    ASSUME Loops = {}, JSONStore = FALSE, RefreshInv, Inv, GenuineInv, [RefreshNext]_allVars
    PROVE  GenuineInv'
  <1>1. ASSUME NEW c \in Callers, AccessToken(c) \/ Leave(c) \/ CallerNext(c)
        PROVE  GenuineInv'
    BY <1>1, GenuineCaller, GenuineLead, GenuineJoin, GenuineReturns
    DEF CallerNext, ActorNext, Actors
  <1>2. ASSUME NEW a \in Attempts, ProviderNext(a) \/ AttemptNext(a)
        PROVE  GenuineInv'
    BY <1>2, GenuineGrants, GenuineAnswer, GenuineTransport, GenuineCommits, GenuineFinish
    DEF ProviderNext, AttemptNext
  <1>3. CASE \/ Login \/ LoginCommits \/ Logout \/ LogoutDeletes \/ Restore
             \/ LateGrant \/ Tick \/ Revoke \/ UNCHANGED allVars
    BY <1>3, GenuineOthers
  <1>4. CASE Stored \/ DrainEvents
    BY <1>4, GenuineStored
  <1> QED
    BY <1>1, <1>2, <1>3, <1>4 DEF RefreshNext

(* A new Client has no token.                                              *)
LEMMA GenuineInvInit == RefreshInit => GenuineInv
  <1> SUFFICES ASSUME RefreshInit
               PROVE  GenuineInv
    OBVIOUS
  <1>1. \A a \in Attempts : attempts[a] = FreeAttempt
    BY DEF RefreshInit
  <1>2. \A c \in Actors : actors[c] = IdleActor
    BY DEF RefreshInit
  <1>3. /\ FreeAttempt.pc = "free" /\ FreeAttempt.err = "none" /\ IdleActor.pc = "idle"
        /\ ZeroState.refresh = 0
    BY DEF FreeAttempt, IdleActor, ZeroState
  <1>4. \A a \in Attempts : ~Unfinished(a) /\ ~HasGrant(a)
    BY <1>1, <1>3 DEF Unfinished, HasGrant
  <1>5. /\ state = ZeroState /\ store = ZeroState /\ minted = 0 /\ loginStamp = 0
        /\ live = {} /\ abandoned = {}
    BY DEF RefreshInit, Init
  <1>6. TokensDiffer
    BY <1>3, <1>4, <1>5 DEF TokensDiffer
  <1>7. SpentIsKnown /\ RefusedIsGone
    BY <1>1, <1>3, <1>5 DEF SpentIsKnown, RefusedIsGone
  <1>8. IntegrityIsKnown
    BY <1>2, <1>3, <1>4 DEF IntegrityIsKnown
  <1> QED
    BY <1>5, <1>6, <1>7, <1>8 DEF GenuineInv

(* A session ends as refused in one kind of step, and then the token in    *)
(* memory was not spent by anybody: it was revoked.                        *)
LEMMA RefusalStep ==
    ASSUME RefreshInv, GenuineInv, Loops = {}, [RefreshNext]_allVars,
           commit # "refusal", commit' = "refusal", "lost" \notin faults
    PROVE  state.refresh \in revoked
  <1>1. PICK a \in Attempts : CommitRefusal(a)
    <2>1. \A c \in Callers : ~(AccessToken(c) \/ Leave(c) \/ CallerNext(c))
      BY ActorStutters DEF CallerNext, Actors, vars, sessionVars
    <2>2. ASSUME NEW a \in Attempts, ProviderNext(a) \/ AttemptNext(a)
          PROVE  CommitRefusal(a)
      <3>1. CASE ProviderGrants(a) \/ CommitRefresh(a)
        BY <3>1 DEF ProviderGrants, CommitRefresh
      <3> QED
        BY <2>2, <3>1, AttemptStutters DEF ProviderNext, AttemptNext, vars, sessionVars
    <2>3. ~(Stored \/ DrainEvents)
      BY DEF Stored, CommitSaved, CommitUnsaved, DrainEvents, Drain, sessionVars
    <2>4. ~(Login \/ LoginCommits \/ Logout \/ LogoutDeletes \/ Restore)
      BY DEF Login, LoginExchange, LoginCommits, LoginBegin, Logout, LogoutBegin, LogoutDeletes,
             LogoutDone, Restore, RestoreSession
    <2>5. ~(LateGrant \/ Tick \/ Revoke \/ UNCHANGED allVars)
      BY DEF LateGrant, Tick, Revoke, allVars, vars, sessionVars
    <2> QED
      BY <2>1, <2>2, <2>3, <2>4, <2>5 DEF RefreshNext
  <1>2. /\ attempts[a].pc = "refusal" /\ attempts[a].revision = stateRevision
        /\ ~refreshInconclusiveLocked(stateRevision)
    BY <1>1 DEF CommitRefusal, RefusalStands
  <1>3. Unfinished(a) /\ \A b \in Attempts : Unfinished(b) => b = a
    BY <1>2 DEF Unfinished, RefreshInv, Flight, SingleFlight
  <1>4. attempts[a].snapshot = state /\ state.refresh # 0
    BY <1>2, <1>3 DEF RefreshInv, Snapshots
  <1>5. state.refresh \notin live
    BY <1>2, <1>4 DEF GenuineInv, RefusedIsGone
  <1>6. ~refreshIntegrityBlockedLocked
    BY <1>2, <1>3 DEF GenuineInv, IntegrityIsKnown
  <1>7. \A b \in Attempts : ~Spending(b)
    BY <1>2, <1>3 DEF Spending, HasGrant, Unfinished
  <1>8. Good(state.refresh)
    BY <1>2, <1>4, <1>6, <1>7 DEF GenuineInv, SpentIsKnown
  <1> QED
    BY <1>5, <1>8 DEF Good

(* While no refresh loop runs and the store keeps the Go value, no caller  *)
(* that gives up, no late answer and no failed verification ever makes a   *)
(* session end as refused whose token the provider was not told to refuse  *)
(* (commitCredentialRefusal, markRefreshInconclusiveLocked).               *)
THEOREM RefusalsAreGenuine ==
    ASSUME Loops = {}, JSONStore = FALSE
    PROVE  RefreshSpec => RefusalIsGenuine
  <1>1. RefreshInit => GenuineInv
    BY GenuineInvInit
  <1>2. RefreshInv /\ Inv /\ GenuineInv /\ [RefreshNext]_allVars => GenuineInv'
    BY GenuineInvStep
  <1>3. RefreshSpec => []Inv
    BY RefreshImplementsSession, Invariant, PTL DEF ImplementsSession
  <1>4. RefreshInv /\ GenuineInv /\ [RefreshNext]_allVars =>
           [ commit # "refusal" /\ commit' = "refusal" /\ "lost" \notin faults
               => state.refresh \in revoked ]_allVars
    BY RefusalStep
  <1> QED
    BY <1>1, <1>2, <1>3, <1>4, RefreshInvariant, PTL DEF RefreshSpec, RefusalIsGenuine

(* Only a loop's late result can lift the block of a generation that       *)
(* failed an integrity check: AccessToken and the attempts themselves keep *)
(* it (blockRefreshIntegrityLocked, blockRefreshPermanentLocked).          *)
THEOREM OnlyLoopsUnblock ==
    ASSUME Loops = {}
    PROVE  RefreshSpec => IntegrityBlockStays
  <1>1. ASSUME RefreshInv, [RefreshNext]_allVars, refreshIntegrityBlockedLocked,
               UNCHANGED stateRevision
        PROVE  refreshIntegrityBlockedLocked'
    <2>1. CASE UNCHANGED refreshSchedule
      BY <1>1, <2>1 DEF refreshIntegrityBlockedLocked, ScheduledFor
    <2>2. ASSUME NEW c \in Callers, CallerReturns(c)
          PROVE  refreshIntegrityBlockedLocked'
      <3>1. actors[c].revision \in Nat
        BY <1>1 DEF Actors, RefreshInv, RefreshTypeOK, ActorStates
      <3>2. \/ refreshSchedule' = refreshSchedule
            \/ refreshSchedule' = blockRefreshIntegrityLocked(actors[c].revision)
            \/ refreshSchedule' = blockRefreshPermanentLocked(actors[c].revision)
        BY <2>2 DEF CallerReturns
      <3> QED
        BY <1>1, <3>1, <3>2, BlocksRemember
    <2>3. ASSUME NEW a \in Attempts, finishRefreshAttempt(a)
          PROVE  refreshIntegrityBlockedLocked'
      <3>1. attempts[a].revision \in Nat
        BY <1>1 DEF RefreshInv, RefreshTypeOK, RefreshAttempts
      <3>2. PICK gaveUp \in BOOLEAN :
               gaveUp = (attempts[a].err = "transport" /\ attempts[a].cancelled)
        BY Zenon
      <3>3. refreshSchedule' =
              CASE attempts[a].err = "integrity" ->
                      blockRefreshIntegrityLocked(attempts[a].revision)
                [] attempts[a].err \in PermanentErrors ->
                      blockRefreshPermanentLocked(attempts[a].revision)
                [] gaveUp -> markRefreshInconclusiveLocked(attempts[a].revision)
                [] OTHER -> refreshSchedule
        BY <2>3, <3>2, Zenon DEF finishRefreshAttempt
      <3>4. \/ refreshSchedule' = refreshSchedule
            \/ refreshSchedule' = blockRefreshIntegrityLocked(attempts[a].revision)
            \/ refreshSchedule' = blockRefreshPermanentLocked(attempts[a].revision)
            \/ refreshSchedule' = markRefreshInconclusiveLocked(attempts[a].revision)
        BY <3>3
      <3> QED
        BY <1>1, <3>1, <3>4, BlocksRemember
    <2>4. ASSUME NEW c \in Callers, AccessToken(c) \/ Leave(c) \/ ActorNext(c)
          PROVE  UNCHANGED refreshSchedule
      BY <2>4 DEF AccessToken, Leave, ActorNext, BeginReturns, Lead, Join, WaitReturns
    <2>5. ASSUME NEW a \in Attempts,
                 \/ ProviderNext(a) \/ ReceiveAnswer(a) \/ VerifyIDToken(a) \/ CommitRefresh(a)
                 \/ CommitRefusal(a)
          PROVE  UNCHANGED refreshSchedule
      BY <2>5 DEF ProviderNext, ProviderGrants, ProviderRejects, TransportFails, ReceiveAnswer,
                  VerifyIDToken, CommitRefresh, CommitRefusal
    <2>6. CASE \/ Stored \/ LateGrant \/ Login \/ LoginCommits \/ Logout \/ LogoutDeletes
               \/ Restore \/ DrainEvents \/ Tick \/ Revoke \/ UNCHANGED allVars
      <3>1. UNCHANGED refreshSchedule
        BY <2>6 DEF Stored, LateGrant, Login, LoginCommits, Logout, LogoutDeletes, Restore,
                    DrainEvents, Tick, Revoke, allVars, refreshVars
      <3> QED
        BY <2>1, <3>1
    <2> QED
      BY <1>1, <2>1, <2>2, <2>3, <2>4, <2>5, <2>6 DEF RefreshNext, CallerNext, AttemptNext
  <1>2. RefreshInv /\ [RefreshNext]_allVars =>
           [ refreshIntegrityBlockedLocked /\ UNCHANGED stateRevision
               => refreshIntegrityBlockedLocked' ]_allVars
    BY <1>1
  <1> QED
    BY <1>2, RefreshInvariant, PTL DEF RefreshSpec, IntegrityBlockStays

=============================================================================
