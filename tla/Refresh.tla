------------------------------ MODULE Refresh ------------------------------
(***************************************************************************)
(* The refresh grant (refresh.go), its two users, AccessToken and the      *)
(* refresh loop, and the schedule that blocks a generation (pkceflow.go).  *)
(* Concurrent users of one generation share one attempt, which runs in its *)
(* own goroutine and is cancelled when its last participant leaves.        *)
(*                                                                         *)
(* The state core is Session, without its supervisors: the commits here    *)
(* are written out from the code and shown to be commits of Session.  The  *)
(* provider and the transport are external.  Time is the age of the access *)
(* token in memory.  Discovery is taken to have succeeded.                 *)
(***************************************************************************)
EXTENDS Session, FiniteSets

CONSTANTS
    Callers,     \* goroutines that call AccessToken
    Loops,       \* refresh-loop goroutines, one for each StartRefreshLoop
    NoActor,
    MaxAttempts, \* bound: refreshAttempt records alive at a time
    Stages,      \* refresh stages that fit into the life of an access token
    Rotating,    \* the provider replaces the refresh token at every grant
    Scenarios    \* sets of what the world may do: "lost" responses, "keys" unavailable,
                 \* "forged" ID tokens, refused "client", "server" errors,
                 \* "store" errors, "late" effects of requests given up,
                 \* "revoke"d tokens, "reentrant" event handlers, a second
                 \* "login", "logout"

Actors == Callers \cup Loops
Attempts == 1..MaxAttempts

ASSUME RefreshAssumption ==
    /\ IsFiniteSet(Callers) /\ IsFiniteSet(Loops)
    /\ Callers \cap Loops = {}
    /\ NoActor \notin Actors
    /\ MaxAttempts \in Nat \ {0}
    /\ Stages \in Nat
    /\ Rotating \in BOOLEAN
    /\ UNION Scenarios \subseteq {"lost", "keys", "forged", "client", "server", "store", "late",
                                  "revoke", "reentrant", "login", "logout"}

VARIABLES
    refreshAttempt,  \* the unfinished attempt, or 0
    attempts,        \* the attempts somebody still refers to
    actors,          \* where each AccessToken call or loop is
    refreshSchedule, \* refreshLoopSchedule
    age,             \* how old the access token in memory is ("valid": none)
    live,            \* refresh tokens the provider accepts
    revoked,         \* refresh tokens it was told to refuse
    abandoned,       \* tokens of requests the client gave up on and the
                     \* provider may still act on
    announced,       \* session-expired events about the generation in memory
    faults           \* the scenario, which does not change

refreshVars == <<refreshAttempt, attempts, actors, refreshSchedule>>
worldVars == <<age, live, revoked, abandoned, announced, faults>>
allVars == <<vars, refreshVars, worldVars>>

-----------------------------------------------------------------------------
(* State.                                                                  *)

\* The access token has more than tokenExpiryBuffer left; has less; has
\* expired; and the grace period has ended too.
Ages == <<"valid", "buffer", "expired", "ended">>
AgeNames == {Ages[i] : i \in 1..4}

Errors == {"none", "integrity", "refused", "client", "server", "transport",
           "blocked", "expired", "cancelled", "unstarted"}

\* IsPermanentError, without the integrity failures that are tested first.
PermanentErrors == {"refused", "client", "blocked"}

\* pc: "request" and "answered" around the provider's step; "verify" the ID
\* token; "commit" and "refusal" before and "committing" with stateCommitMu;
\* "finish"; "draining" the events; "complete".
FreeAttempt == [pc |-> "free", revision |-> 0, snapshot |-> ZeroState, participants |-> 0,
                cancelled |-> FALSE, grant |-> 0, refresh |-> 0, id |-> 0, forged |-> FALSE,
                err |-> "none", drain |-> FALSE]

\* "begin" and "await" in beginRefreshAttempt, "wait" in waitForRefreshAttempt,
\* "returned" with err, "emit" in emitEventIfRevision.  inEmit: the call was
\* made from an event handler.
IdleActor == [pc |-> "idle", revision |-> 0, attempt |-> 0, err |-> "none", inEmit |-> FALSE]

NewSchedule(revision) ==
    [valid |-> TRUE, revision |-> revision, nextStage |-> 1, claimID |-> NoActor,
     disposition |-> "active", eventEmitted |-> FALSE, inconclusive |-> FALSE]

RefreshAttempts ==
    [pc: {"free", "request", "answered", "verify", "commit", "refusal", "committing",
          "finish", "draining", "complete"},
     revision: Nat, snapshot: TokenStates, participants: Nat, cancelled: BOOLEAN,
     grant: Nat, refresh: Nat, id: Nat, forged: BOOLEAN, err: Errors, drain: BOOLEAN]

ActorStates ==
    [pc: {"idle", "begin", "await", "wait", "returned", "emit"}, revision: Nat,
     attempt: 0..MaxAttempts, err: Errors, inEmit: BOOLEAN]

Schedules ==
    [valid: BOOLEAN, revision: Nat, nextStage: Nat \ {0}, claimID: Loops \cup {NoActor},
     disposition: {"active", "expired", "permanent", "integrity"},
     eventEmitted: BOOLEAN, inconclusive: BOOLEAN]

RefreshTypeOK ==
    /\ TypeOK
    /\ refreshAttempt \in 0..MaxAttempts
    /\ attempts \in [Attempts -> RefreshAttempts]
    /\ actors \in [Actors -> ActorStates]
    /\ refreshSchedule \in Schedules
    /\ age \in AgeNames
    /\ live \subseteq Nat /\ revoked \subseteq Nat /\ abandoned \subseteq Nat
    /\ announced \in Nat
    /\ faults \in Scenarios

RefreshInit ==
    /\ Init
    /\ refreshAttempt = 0
    /\ attempts = [a \in Attempts |-> FreeAttempt]
    /\ actors = [c \in Actors |-> IdleActor]
    /\ refreshSchedule = [NewSchedule(0) EXCEPT !.valid = FALSE]
    /\ age = "valid"
    /\ live = {} /\ revoked = {} /\ abandoned = {}
    /\ announced = 0
    /\ faults \in Scenarios

-----------------------------------------------------------------------------
(* The schedule of the current generation.                                 *)

\* advanceStateLocked also drops the schedule.  Revisions are never used again,
\* so the revision a stale schedule carries has the same effect.
ScheduledFor(revision) == refreshSchedule.valid /\ refreshSchedule.revision = revision

refreshScheduleLocked(revision) ==
    IF ScheduledFor(revision) THEN refreshSchedule ELSE NewSchedule(revision)

refreshIntegrityBlockedLocked ==
    ScheduledFor(stateRevision) /\ refreshSchedule.disposition = "integrity"

refreshPermanentlyBlockedLocked ==
    ScheduledFor(stateRevision) /\ refreshSchedule.disposition = "permanent"

refreshInconclusiveLocked(revision) == ScheduledFor(revision) /\ refreshSchedule.inconclusive

\* The three schedule updates, all void for a generation that is gone.
blockRefreshIntegrityLocked(revision) ==
    IF stateRevision # revision THEN refreshSchedule
    ELSE [refreshScheduleLocked(revision) EXCEPT !.disposition = "integrity"]

blockRefreshPermanentLocked(revision) ==
    IF stateRevision # revision \/ refreshIntegrityBlockedLocked THEN refreshSchedule
    ELSE [refreshScheduleLocked(revision) EXCEPT !.disposition = "permanent"]

markRefreshInconclusiveLocked(revision) ==
    IF stateRevision # revision THEN refreshSchedule
    ELSE [refreshScheduleLocked(revision) EXCEPT !.inconclusive = TRUE]

-----------------------------------------------------------------------------
(* beginRefreshAttempt and waitForRefreshAttempt, the same for AccessToken *)
(* and for the loop, which in addition must still hold its claim.          *)

\* AccessToken returns at once, also after a temporary error; the loop and a
\* caller with a permanent error have something to record.
Return(c, err) ==
    IF c \in Callers /\ err \notin PermanentErrors \cup {"integrity"} THEN IdleActor
    ELSE [actors[c] EXCEPT !.pc = "returned", !.attempt = 0, !.err = err]

\* AccessToken, where it neither has a usable token nor gives up at once.
AccessToken(c) ==
    /\ actors[c].pc = "idle"
    /\ ~IsZero(state) /\ ~refreshIntegrityBlockedLocked
    /\ age # "valid"
    /\ state.refresh # 0 /\ ~refreshPermanentlyBlockedLocked
    /\ \E inEmit \in BOOLEAN :
          /\ inEmit => /\ "reentrant" \in faults /\ emitting # << >>
                       /\ \A d \in Callers : ~actors[d].inEmit
          /\ actors' = [actors EXCEPT ![c] = [IdleActor EXCEPT
                !.pc = "begin", !.revision = stateRevision, !.inEmit = inEmit]]
    /\ UNCHANGED <<refreshAttempt, attempts, refreshSchedule, worldVars, vars>>

HoldsClaim(l) ==
    /\ ScheduledFor(stateRevision)
    /\ refreshSchedule.claimID = l
    /\ refreshSchedule.disposition = "active"

\* How beginRefreshAttempt returns without an attempt, or "go".  The snapshot it
\* also compares cannot differ while the revision is the same.
BeginOutcome(c) ==
    IF stateRevision # actors[c].revision THEN "none"
    ELSE IF refreshIntegrityBlockedLocked THEN "integrity"
    ELSE IF refreshPermanentlyBlockedLocked THEN "blocked"
    ELSE IF c \in Loops /\ ~HoldsClaim(c) THEN "none"
    ELSE IF c \in Loops /\ age \in {"expired", "ended"} THEN "expired"
    ELSE "go"

BeginReturns(c) ==
    /\ actors[c].pc = "begin"
    /\ BeginOutcome(c) # "go"
    /\ actors' = [actors EXCEPT ![c] = Return(c, BeginOutcome(c))]
    /\ UNCHANGED <<refreshAttempt, attempts, refreshSchedule, worldVars, vars>>

\* Bug: an attempt that everybody has left can still be joined.
Bug_Joinable(a) == attempts[a].revision = stateRevision

Joinable(a) == attempts[a].revision = stateRevision /\ attempts[a].participants > 0

\* Bug: an attempt that cannot be joined is replaced instead of waited for.
Bug_Lead(c) ==
    /\ actors[c].pc = "begin"
    /\ BeginOutcome(c) = "go"
    /\ refreshAttempt # 0 => ~Joinable(refreshAttempt)
    /\ \E a \in Attempts :
          /\ attempts[a].pc = "free"
          /\ attempts' = [attempts EXCEPT ![a] = [FreeAttempt EXCEPT
                !.pc = "request", !.revision = stateRevision, !.snapshot = state,
                !.participants = 1]]
          /\ refreshAttempt' = a
          /\ actors' = [actors EXCEPT ![c] = [@ EXCEPT !.pc = "wait", !.attempt = a]]
    /\ UNCHANGED <<refreshSchedule, worldVars, vars>>

\* A leader starts a goroutine for the attempt and becomes its participant.
Lead(c) ==
    /\ actors[c].pc = "begin"
    /\ BeginOutcome(c) = "go"
    /\ refreshAttempt = 0
    /\ \E a \in Attempts :
          /\ attempts[a].pc = "free"
          /\ \A b \in Attempts : b < a => attempts[b].pc # "free"
          /\ attempts' = [attempts EXCEPT ![a] = [FreeAttempt EXCEPT
                !.pc = "request", !.revision = stateRevision, !.snapshot = state,
                !.participants = 1]]
          /\ refreshAttempt' = a
          /\ actors' = [actors EXCEPT ![c] = [@ EXCEPT !.pc = "wait", !.attempt = a]]
    /\ UNCHANGED <<refreshSchedule, worldVars, vars>>

Join(c) ==
    /\ actors[c].pc = "begin"
    /\ BeginOutcome(c) = "go"
    /\ refreshAttempt # 0
    /\ IF Joinable(refreshAttempt)
       THEN /\ attempts' = [attempts EXCEPT ![refreshAttempt].participants = @ + 1]
            /\ actors' = [actors EXCEPT ![c] =
                  [@ EXCEPT !.pc = "wait", !.attempt = refreshAttempt]]
       ELSE /\ actors' = [actors EXCEPT ![c] =
                  [@ EXCEPT !.pc = "await", !.attempt = refreshAttempt]]
            /\ UNCHANGED attempts
    /\ UNCHANGED <<refreshAttempt, refreshSchedule, worldVars, vars>>

\* releaseRefreshParticipant.  Nobody refers to a completed attempt any more
\* once its last participant has left.
releaseRefreshParticipant(a) ==
    LET left == attempts[a].participants - 1
    IN  [attempts EXCEPT ![a] =
            IF left = 0 /\ @.pc = "complete" THEN FreeAttempt
            ELSE [@ EXCEPT !.participants = left,
                           !.cancelled = attempts[a].cancelled
                                            \/ (left = 0 /\ refreshAttempt = a)]]

WaitReturns(c) ==
    LET a == actors[c].attempt
    IN  /\ actors[c].pc = "wait"
        /\ attempts[a].pc = "complete"
        /\ actors' = [actors EXCEPT ![c] = Return(c, attempts[a].err)]
        /\ attempts' = releaseRefreshParticipant(a)
        /\ UNCHANGED <<refreshAttempt, refreshSchedule, worldVars, vars>>

\* The caller's context ends, or StopRefreshLoop ends the loop's, and it is
\* noticed: at the entry, in the select on active.done or the one on complete.
Leave(c) ==
    /\ actors[c].pc \in {"begin", "await", "wait"}
    /\ actors' = [actors EXCEPT ![c] =
          Return(c, IF actors[c].pc = "wait" THEN "cancelled" ELSE "unstarted")]
    /\ attempts' = IF actors[c].pc = "wait"
                   THEN releaseRefreshParticipant(actors[c].attempt) ELSE attempts
    /\ UNCHANGED <<refreshAttempt, refreshSchedule, worldVars, vars>>

\* AccessToken after an error: it blocks its generation and then returns what
\* usableAccessToken finds.
CallerReturns(c) ==
    /\ actors[c].pc = "returned"
    /\ refreshSchedule' =
          CASE actors[c].err = "integrity" -> blockRefreshIntegrityLocked(actors[c].revision)
            [] actors[c].err \in PermanentErrors -> blockRefreshPermanentLocked(actors[c].revision)
            [] OTHER -> refreshSchedule
    /\ actors' = [actors EXCEPT ![c] = IdleActor]
    /\ UNCHANGED <<refreshAttempt, attempts, worldVars, vars>>

-----------------------------------------------------------------------------
(* The refresh loop (runRefreshLoop).  How it waits for a stage is left    *)
(* out: it may act as soon as nextRefreshLoopAction would let it.  A loop  *)
(* that StartRefreshLoop has replaced may still be inside its last attempt *)
(* when its successor acts.                                                *)

Unclaimed(l) ==
    /\ actors[l].pc = "idle"
    /\ refreshScheduleLocked(stateRevision).claimID = NoActor

\* nextRefreshLoopAction claims a due stage.
LoopClaim(l) ==
    /\ Unclaimed(l)
    /\ refreshScheduleLocked(stateRevision).disposition = "active"
    /\ state.refresh # 0
    /\ age \in {"valid", "buffer"}
    /\ refreshScheduleLocked(stateRevision).nextStage <= Stages
    /\ refreshSchedule' = [refreshScheduleLocked(stateRevision) EXCEPT !.claimID = l]
    /\ actors' = [actors EXCEPT ![l] = [IdleActor EXCEPT
          !.pc = "begin", !.revision = stateRevision]]
    /\ UNCHANGED <<refreshAttempt, attempts, worldVars, vars>>

\* It parks a generation whose next stage is not before expiry, because there is
\* none left or because of the minimum distance to the last attempt.
LoopParks(l) ==
    /\ Unclaimed(l)
    /\ refreshScheduleLocked(stateRevision).disposition = "active"
    /\ state.refresh # 0
    /\ age # "valid" \/ refreshScheduleLocked(stateRevision).nextStage > Stages
    /\ refreshSchedule' = [refreshScheduleLocked(stateRevision) EXCEPT !.disposition = "expired"]
    /\ UNCHANGED <<refreshAttempt, attempts, actors, worldVars, vars>>

\* Bug: the announcement is not remembered.
Bug_LoopAnnounces(l) ==
    /\ Unclaimed(l)
    /\ ScheduledFor(stateRevision)
    /\ \/ refreshSchedule.disposition = "integrity"
       \/ refreshSchedule.disposition = "permanent" /\ age = "ended"
    /\ actors' = [actors EXCEPT ![l] = [IdleActor EXCEPT
          !.pc = "emit", !.revision = stateRevision]]
    /\ UNCHANGED <<refreshAttempt, attempts, refreshSchedule, worldVars, vars>>

\* It decides to announce a blocked generation: at once after an integrity
\* failure, at the end of grace after a permanent one.
LoopAnnounces(l) ==
    /\ Unclaimed(l)
    /\ ScheduledFor(stateRevision)
    /\ \/ refreshSchedule.disposition = "integrity"
       \/ refreshSchedule.disposition = "permanent" /\ age = "ended"
    /\ ~refreshSchedule.eventEmitted
    /\ refreshSchedule' = [refreshSchedule EXCEPT !.eventEmitted = TRUE]
    /\ actors' = [actors EXCEPT ![l] = [IdleActor EXCEPT
          !.pc = "emit", !.revision = stateRevision]]
    /\ UNCHANGED <<refreshAttempt, attempts, worldVars, vars>>

\* emitEventIfRevision, for the generation the decision was about.
emitEventIfRevision(l) ==
    /\ actors[l].pc = "emit"
    /\ CommitFree
    /\ IF stateRevision = actors[l].revision
       THEN enqueueEvent("session-expired") /\ announced' = announced + 1
       ELSE UNCHANGED <<announced, eventVars>>
    /\ actors' = [actors EXCEPT ![l] = IdleActor]
    /\ UNCHANGED <<refreshAttempt, attempts, refreshSchedule, age, live, revoked, abandoned,
                   sessionVars, faults>>

\* What the result of doRefresh makes of the disposition.
LoopDisposition(err) ==
    CASE err = "integrity" -> "integrity"
      [] err \in PermanentErrors -> "permanent"
      [] err = "expired" -> "expired"
      [] OTHER -> refreshSchedule.disposition

\* The stage counts once a grant was attempted.
LoopStage(err) ==
    IF err \in {"none", "server", "transport", "cancelled"} THEN refreshSchedule.nextStage + 1
    ELSE refreshSchedule.nextStage

finishRefreshLoopAttempt(l) ==
    /\ actors[l].pc = "returned"
    /\ refreshSchedule' =
          IF /\ ScheduledFor(actors[l].revision)
             /\ stateRevision = actors[l].revision
             /\ refreshSchedule.claimID = l
          THEN [refreshSchedule EXCEPT !.claimID = NoActor,
                                       !.nextStage = LoopStage(actors[l].err),
                                       !.disposition = LoopDisposition(actors[l].err)]
          ELSE refreshSchedule
    /\ actors' = [actors EXCEPT ![l] = IdleActor]
    /\ UNCHANGED <<refreshAttempt, attempts, worldVars, vars>>

-----------------------------------------------------------------------------
(* runRefreshAttempt.                                                      *)

\* refreshFailure: the error of a superseded attempt is suppressed.
refreshFailure(a, err) ==
    LET failure == IF attempts[a].revision = stateRevision THEN err ELSE "none"
    IN  attempts' = [attempts EXCEPT ![a] = [@ EXCEPT !.err = failure,
                        !.pc = IF failure = "refused" THEN "refusal" ELSE "finish"]]

\* The provider (external) grants a refresh token it accepts, and may send an
\* ID token.
ProviderGrants(a) ==
    LET token == attempts[a].snapshot.refresh
        serial == minted + 1
    IN  /\ attempts[a].pc = "request"
        /\ token \in live
        /\ minted < MaxMinted
        /\ \E id \in {0, serial}, forged \in BOOLEAN :
              /\ forged => id # 0 /\ "forged" \in faults
              /\ attempts' = [attempts EXCEPT ![a] = [@ EXCEPT
                    !.pc = "answered", !.grant = serial,
                    !.refresh = IF Rotating THEN serial ELSE 0, !.id = id, !.forged = forged]]
              /\ live' = IF Rotating THEN (live \ {token}) \cup {serial} ELSE live
        /\ minted' = serial
        /\ UNCHANGED <<refreshAttempt, actors, refreshSchedule, age, revoked, abandoned,
                       announced, state, stateRevision, persistenceRetry, restoreBlocked,
                       commit, store, persistenceClaimSeq, refreshRun, sup, loginStamp,
                       eventVars, faults>>

\* The provider refuses the token, or the client, or fails.  A provider that
\* has used up MaxMinted fails too.
ProviderRejects(a) ==
    /\ attempts[a].pc = "request"
    /\ \E err \in {"refused", "client", "server"} :
          /\ err = "refused" => attempts[a].snapshot.refresh \notin live
          /\ err = "client" => err \in faults
          /\ err = "server" => err \in faults \/ minted = MaxMinted
          /\ attempts' = [attempts EXCEPT ![a] = [@ EXCEPT !.pc = "answered", !.err = err]]
    /\ UNCHANGED <<refreshAttempt, actors, refreshSchedule, worldVars, vars>>

\* performRefresh receives the answer.  An ID token has to be verified.
ReceiveAnswer(a) ==
    /\ attempts[a].pc = "answered"
    /\ IF attempts[a].err # "none" THEN refreshFailure(a, attempts[a].err)
       ELSE attempts' = [attempts EXCEPT ![a].pc =
                            IF attempts[a].id # 0 THEN "verify" ELSE "commit"]
    /\ UNCHANGED <<refreshAttempt, actors, refreshSchedule, worldVars, vars>>

\* The request or its answer is lost, or the attempt's context has ended.
TransportFails(a) ==
    /\ attempts[a].pc \in {"request", "answered"}
    /\ "lost" \in faults \/ attempts[a].cancelled
    /\ refreshFailure(a, "transport")
    /\ abandoned' = IF attempts[a].pc = "request" /\ "late" \in faults
                    THEN abandoned \cup {attempts[a].snapshot.refresh} ELSE abandoned
    /\ UNCHANGED <<refreshAttempt, actors, refreshSchedule, age, live, revoked,
                   announced, vars, faults>>

\* The provider acts on a request that was given up.  This shows only when it
\* rotates the token.
LateGrant ==
    /\ Rotating
    /\ \E token \in abandoned \cap live :
          /\ live' = live \ {token}
          /\ abandoned' = abandoned \ {token}
    /\ UNCHANGED <<refreshVars, age, revoked, announced, vars, faults>>

\* verifyIDToken and the comparison of subjects.  The keys may have to be
\* fetched, with the context of the attempt.
VerifyIDToken(a) ==
    /\ attempts[a].pc = "verify"
    /\ \/ ~attempts[a].forged /\ attempts' = [attempts EXCEPT ![a].pc = "commit"]
       \/ attempts[a].forged /\ refreshFailure(a, "integrity")
       \/ ("keys" \in faults \/ attempts[a].cancelled) /\ refreshFailure(a, "integrity")
    /\ UNCHANGED <<refreshAttempt, actors, refreshSchedule, worldVars, vars>>

\* The new state.  What the response left out is carried over.
RefreshedState(a) ==
    LET s == attempts[a].snapshot
    IN  Granted(attempts[a].grant,
                IF attempts[a].refresh # 0 THEN attempts[a].refresh ELSE s.refresh,
                IF attempts[a].id # 0 THEN attempts[a].id ELSE s.id)

\* Bug: the revision is not checked again under stateCommitMu.
Bug_CommitRefresh(a) ==
    /\ attempts[a].pc = "commit"
    /\ CommitFree
    /\ advanceStateLocked(RefreshedState(a))
    /\ commit' = "refresh"
    /\ age' = "valid"
    /\ announced' = 0
    /\ attempts' = [attempts EXCEPT ![a].pc = "committing"]
    /\ UNCHANGED <<refreshAttempt, actors, refreshSchedule, live, revoked, abandoned,
                   store, persistenceClaimSeq, refreshRun, minted, loginStamp, eventVars, faults>>

\* performRefresh commits, unless the generation has been replaced.
CommitRefresh(a) ==
    /\ attempts[a].pc = "commit"
    /\ CommitFree
    /\ IF attempts[a].revision = stateRevision
       THEN /\ advanceStateLocked(RefreshedState(a))
            /\ commit' = "refresh"
            /\ age' = "valid"
            /\ announced' = 0
            /\ attempts' = [attempts EXCEPT ![a].pc = "committing"]
       ELSE /\ attempts' = [attempts EXCEPT ![a].pc = "finish"]
            /\ UNCHANGED <<state, stateRevision, persistenceRetry, restoreBlocked, sup, commit,
                           age, announced>>
    /\ UNCHANGED <<refreshAttempt, actors, refreshSchedule, live, revoked, abandoned,
                   store, persistenceClaimSeq, refreshRun, minted, loginStamp, eventVars, faults>>

\* Bug: a refusal counts although an earlier attempt is inconclusive.
Bug_RefusalStands(a, loaded) ==
    /\ attempts[a].revision = stateRevision
    /\ loaded => ~supersededRefreshToken(store, attempts[a].snapshot)

\* commitCredentialRefusal leaves the generation alone when it was replaced,
\* when an earlier attempt is inconclusive, or when the store is ahead.  The
\* store may fail to load.
RefusalStands(a, loaded) ==
    /\ attempts[a].revision = stateRevision
    /\ ~refreshInconclusiveLocked(attempts[a].revision)
    /\ loaded => ~supersededRefreshToken(store, attempts[a].snapshot)

CommitRefusal(a) ==
    /\ attempts[a].pc = "refusal"
    /\ CommitFree
    /\ \E loaded \in BOOLEAN :
          /\ ~loaded => "store" \in faults
          /\ IF RefusalStands(a, loaded)
             THEN /\ advanceStateLocked(RefusedState(attempts[a].snapshot))
                  /\ commit' = "refusal"
                  /\ announced' = 1
                  /\ age' = "valid"
                  /\ attempts' = [attempts EXCEPT ![a].pc = "committing"]
             ELSE /\ attempts' = [attempts EXCEPT ![a].pc = "finish"]
                  /\ UNCHANGED <<state, stateRevision, persistenceRetry, restoreBlocked, sup,
                                 commit, announced, age>>
    /\ UNCHANGED <<refreshAttempt, actors, refreshSchedule, live, revoked, abandoned, store,
                   persistenceClaimSeq, refreshRun, minted, loginStamp, eventVars, faults>>

\* The Save of a commit returns; an attempt goes on and may have to drain.
Stored ==
    /\ CommitSaved \/ ("store" \in faults /\ CommitUnsaved)
    /\ attempts' = [a \in Attempts |->
          IF attempts[a].pc = "committing"
          THEN [attempts[a] EXCEPT !.pc = "finish", !.drain = ~eventDispatching]
          ELSE attempts[a]]
    /\ UNCHANGED <<refreshAttempt, actors, refreshSchedule, worldVars>>

\* complete is closed once the events are drained, if that is the attempt's
\* duty.  A completed attempt without participants is forgotten.
Completed(t) ==
    IF t.drain THEN [t EXCEPT !.pc = "draining"]
    ELSE IF t.participants = 0 THEN FreeAttempt
    ELSE [t EXCEPT !.pc = "complete"]

\* Bug: done is not closed.
Bug_finishRefreshAttempt(a) ==
    /\ attempts[a].pc = "finish"
    /\ refreshAttempt' = 0
    /\ attempts' = [attempts EXCEPT ![a] = Completed(
          [FreeAttempt EXCEPT !.participants = attempts[a].participants,
                              !.err = attempts[a].err, !.drain = attempts[a].drain])]
    /\ UNCHANGED <<actors, refreshSchedule, worldVars, vars>>

\* finishRefreshAttempt: block the generation or mark it inconclusive, publish
\* the result, let the next attempt begin.
finishRefreshAttempt(a) ==
    LET t == attempts[a]
    IN  /\ t.pc = "finish"
        /\ refreshSchedule' =
              CASE t.err = "integrity" -> blockRefreshIntegrityLocked(t.revision)
                [] t.err \in PermanentErrors -> blockRefreshPermanentLocked(t.revision)
                [] t.err = "transport" /\ t.cancelled -> markRefreshInconclusiveLocked(t.revision)
                [] OTHER -> refreshSchedule
        /\ refreshAttempt' = 0
        /\ attempts' = [attempts EXCEPT ![a] = Completed(
              [FreeAttempt EXCEPT !.participants = t.participants, !.err = t.err,
                                  !.drain = t.drain])]
        /\ actors' = [c \in Actors |->
              IF actors[c].pc = "await" /\ actors[c].attempt = a
              THEN [actors[c] EXCEPT !.pc = "begin", !.attempt = 0] ELSE actors[c]]
        /\ UNCHANGED <<worldVars, vars>>

-----------------------------------------------------------------------------
(* The rest of the Client and of the world.                                *)

Login ==
    /\ minted = 0 \/ "login" \in faults
    /\ LoginExchange
    /\ live' = live \cup {minted'}
    /\ UNCHANGED <<refreshVars, age, revoked, abandoned, announced, faults>>

LoginCommits ==
    /\ LoginBegin
    /\ age' = "valid" /\ announced' = 0
    /\ UNCHANGED <<refreshVars, live, revoked, abandoned, faults>>

Logout ==
    /\ "logout" \in faults
    /\ LogoutBegin
    /\ age' = "valid" /\ announced' = 0
    /\ UNCHANGED <<refreshVars, live, revoked, abandoned, faults>>

LogoutDeletes == LogoutDone /\ UNCHANGED <<refreshVars, worldVars>>

Restore ==
    /\ RestoreSession
    /\ announced' = IF stateRevision' = stateRevision THEN announced ELSE 0
    /\ UNCHANGED <<refreshVars, age, live, revoked, abandoned, faults>>

\* An event handler that called AccessToken returns after that call.  An attempt
\* drains after finishRefreshAttempt, and completes when drainEvents returns.
DrainEvents ==
    /\ Drain
    /\ \A a \in Attempts : attempts[a].pc = "finish" => ~attempts[a].drain
    /\ Len(emitting') < Len(emitting) => \A c \in Callers : ~actors[c].inEmit
    /\ attempts' = [a \in Attempts |->
          IF attempts[a].pc = "draining" /\ ~eventDispatching'
          THEN Completed([attempts[a] EXCEPT !.drain = FALSE])
          ELSE attempts[a]]
    /\ UNCHANGED <<refreshAttempt, actors, refreshSchedule, worldVars>>

Tick ==
    /\ state.access # 0
    /\ \E i \in 1..3 : age = Ages[i] /\ age' = Ages[i + 1]
    /\ UNCHANGED <<refreshVars, live, revoked, abandoned, announced, vars, faults>>

\* The user or an administrator ends the session at the provider.
Revoke ==
    /\ "revoke" \in faults
    /\ \E token \in live :
          /\ live' = live \ {token}
          /\ revoked' = revoked \cup {token}
    /\ UNCHANGED <<refreshVars, age, abandoned, announced, vars, faults>>

-----------------------------------------------------------------------------

ActorNext(c) ==
    \/ BeginReturns(c) \/ Lead(c) \/ Join(c) \/ WaitReturns(c)

CallerNext(c) == ActorNext(c) \/ CallerReturns(c)

LoopNext(l) ==
    \/ LoopClaim(l) \/ LoopParks(l) \/ LoopAnnounces(l)
    \/ ActorNext(l) \/ finishRefreshLoopAttempt(l) \/ emitEventIfRevision(l)

ProviderNext(a) == ProviderGrants(a) \/ ProviderRejects(a) \/ TransportFails(a)

AttemptNext(a) ==
    \/ ReceiveAnswer(a) \/ VerifyIDToken(a) \/ CommitRefresh(a) \/ CommitRefusal(a)
    \/ finishRefreshAttempt(a)

RefreshNext ==
    \/ \E c \in Callers : AccessToken(c) \/ Leave(c) \/ CallerNext(c)
    \/ \E l \in Loops : Leave(l) \/ LoopNext(l)
    \/ \E a \in Attempts : ProviderNext(a) \/ AttemptNext(a)
    \/ Stored \/ LateGrant \/ Login \/ LoginCommits \/ Logout \/ LogoutDeletes \/ Restore
    \/ DrainEvents \/ Tick \/ Revoke

RefreshSpec == RefreshInit /\ [][RefreshNext]_allVars

\* Goroutines run, mutexes admit every waiter in the end, the store and the
\* event handlers return, and a request is answered or fails.
RefreshFairSpec ==
    /\ RefreshSpec
    /\ \A c \in Callers : WF_allVars(CallerNext(c))
    /\ \A l \in Loops : WF_allVars(LoopNext(l))
    /\ \A a \in Attempts : WF_allVars(ProviderNext(a)) /\ SF_allVars(AttemptNext(a))
    /\ WF_allVars(Stored) /\ WF_allVars(LogoutDeletes) /\ WF_allVars(DrainEvents)

-----------------------------------------------------------------------------
(* Properties.                                                             *)

\* The goroutine of a has neither published its result nor given up.
Unfinished(a) == attempts[a].pc \notin {"free", "draining", "complete"}

Waiting(a) == {c \in Actors : actors[c].pc = "wait" /\ actors[c].attempt = a}

(* A shared attempt is cancelled only when nobody waits for it any more:   *)
(* every goroutine in waitForRefreshAttempt is counted, and no caller that *)
(* joins late inherits the cancellation of those who left (refresh.go).    *)
NobodyElsesCancel ==
    \A a \in Attempts :
        /\ attempts[a].participants = Cardinality(Waiting(a))
        /\ Unfinished(a) /\ attempts[a].cancelled => Waiting(a) = {}

(* At most one refresh token is on its way to the provider: also when an   *)
(* attempt was abandoned, or its generation was replaced, the next attempt *)
(* waits until the goroutine of the previous one is through.               *)
SingleFlight ==
    \A a \in Attempts : Unfinished(a) => a = refreshAttempt

(* Every commit that a refresh makes, or declines to make, is one of the   *)
(* token-state core: a response that arrives after Login, Logout or a      *)
(* restore replaced its generation changes nothing.                        *)
ImplementsSession == Spec

(* A session is ended as refused only when its token was revoked, never    *)
(* because an abandoned attempt had already spent it at a provider that    *)
(* rotates tokens (commitCredentialRefusal).  A response that is lost      *)
(* without a cancellation leaves the client no way to tell.                *)
RefusalIsGenuine ==
    [][ commit # "refusal" /\ commit' = "refusal" /\ "lost" \notin faults
          => state.refresh \in revoked ]_allVars

(* Session-expired is announced at most once for a generation, whether by  *)
(* the commit of a refusal or by some loop, however often loops are        *)
(* stopped and started and whichever late result changes the disposition   *)
(* in between (pkceflow.go, events.go).                                    *)
ExpiredOnce == announced <= 1

(* Every AccessToken call returns, also one made from an event handler     *)
(* while the drain it blocks belongs to a refresh attempt.                 *)
CallsReturn == \A c \in Callers : []<>(actors[c].pc = "idle")

(* A generation that failed an integrity check stays blocked for as long   *)
(* as it is in memory (docs/architecture.md).                              *)
IntegrityBlockStays ==
    [][ refreshIntegrityBlockedLocked /\ UNCHANGED stateRevision
          => refreshIntegrityBlockedLocked' ]_allVars
=============================================================================
