------------------------------ MODULE Schedule ------------------------------
(***************************************************************************)
(* The refresh loop's use of time: which moment each stage of a token      *)
(* generation is due, how a loop sleeps until then, what wakes it, and     *)
(* when session-expired is announced.  Times are whole units since some    *)
(* start; 0 is Go's zero time.                                             *)
(*                                                                         *)
(* Refresh says what an attempt does and leaves the times out; here an     *)
(* attempt only takes its time and has a result.  AccessToken, Login,      *)
(* RestoreSession and Init appear through what they do to the schedule.    *)
(***************************************************************************)
EXTENDS Naturals

CONSTANTS
    Loops,          \* refresh-loop goroutines, one for each StartRefreshLoop
    NoLoop,
    Lifetimes,      \* of tokens that have one
    MinInterval,    \* minRefreshInterval
    GracePeriod,    \* Config.GracePeriod, 0 for none
    ExpiryBuffer,   \* tokenExpiryBuffer
    MinRetry, MaxRetry, \* the bounds of persistenceRetryDelay
    MaxTime, MaxRevision

ASSUME ScheduleAssumption ==
    /\ NoLoop \notin Loops
    /\ Lifetimes \subseteq Nat
    /\ {MinInterval, GracePeriod, ExpiryBuffer, MinRetry, MaxRetry, MaxTime, MaxRevision} \subseteq Nat
    /\ 0 < MinRetry /\ MinRetry <= MaxRetry
    /\ MaxRetry % 2 = 0   \* a minute in nanoseconds
    /\ 0 < MaxTime

VARIABLES
    now,
    prompt,     \* goroutines and timers run without delay
    ready,      \* Init has succeeded
    token,      \* the times of Client.state, and whether it has a refresh token
    revision,   \* stateRevision
    schedule,   \* refreshSchedule
    loops,
    started,    \* history: the stages of this generation that were attempted
    failedAt,   \* history: when the last attempt of a loop failed, or 0
    attended    \* history: a loop was free for this generation since it was installed

scheduleVars == <<now, prompt, ready, token, revision, schedule, loops, started, failedAt, attended>>

NoToken == [refresh |-> FALSE, lastAuthAt |-> 0, expiresAt |-> 0]

NewSchedule == [nextStage |-> 1, retryNotBefore |-> 0, claim |-> NoLoop, disposition |-> "active",
                eventAt |-> 0, eventEmitted |-> FALSE]

\* pc: "next" before nextRefreshLoopAction, "wait" in waitForRefreshLoop with a
\* timer for due (0: none) and the wake channel closed or not, "claimed" before
\* and "attempt" in a refresh, "finish" with its result, "emit".
NoRun == [pc |-> "off", cancelled |-> FALSE, due |-> 0, woken |-> FALSE, revision |-> 0,
          stage |-> 0, result |-> "none"]

Dispositions == {"active", "expired", "permanent", "integrity"}

Results == {"none", "succeeded", "temporary", "permanent", "integrity", "canceledBefore",
            "canceledAfter", "expiredBefore"}

PCs == {"off", "next", "wait", "claimed", "attempt", "finish", "emit"}

Tokens == [refresh: BOOLEAN, lastAuthAt: Nat, expiresAt: Nat]

Schedules == [nextStage: Nat \ {0}, retryNotBefore: Nat, claim: Loops \cup {NoLoop},
              disposition: Dispositions, eventAt: Nat, eventEmitted: BOOLEAN]

Runs == [pc: PCs, cancelled: BOOLEAN, due: Nat, woken: BOOLEAN, revision: 0..MaxRevision,
         stage: Nat, result: Results]

\* The types; a claim is held by exactly the loop that is between taking and
\* releasing it.
ScheduleTypeOK ==
    /\ now \in 1..MaxTime
    /\ prompt \in BOOLEAN /\ ready \in BOOLEAN /\ attended \in BOOLEAN
    /\ token \in Tokens
    /\ revision \in 0..MaxRevision
    /\ schedule \in Schedules
    /\ loops \in [Loops -> Runs]
    /\ started \subseteq Nat /\ failedAt \in Nat
    /\ \A l \in Loops :
          schedule.claim = l <=> /\ loops[l].pc \in {"claimed", "attempt", "finish"}
                                 /\ loops[l].revision = revision

ScheduleInit ==
    /\ now = 1
    /\ prompt \in BOOLEAN
    /\ ready = FALSE
    /\ token = NoToken
    /\ revision = 0
    /\ schedule = NewSchedule
    /\ loops = [l \in Loops |-> NoRun]
    /\ started = {}
    /\ failedAt = 0
    /\ attended = FALSE

-----------------------------------------------------------------------------
(* Times.                                                                  *)

Lifetime(t) == t.expiresAt - t.lastAuthAt

\* Bug: the division comes after the test.
Bug_remaining(lifetime) ==
    LET r[s \in Nat] == IF s <= 1 THEN lifetime ELSE r[s - 1] \div 2
    IN  r

\* What is left of a lifetime at each stage: refreshStageTime halves it in a loop.
remaining(lifetime) ==
    LET r[s \in Nat] == IF s = 0 THEN lifetime ELSE r[s - 1] \div 2
    IN  r

HasLifetime(t) == t.expiresAt # 0 /\ t.lastAuthAt # 0 /\ t.lastAuthAt < t.expiresAt

\* The first result of refreshStageTime, and the second.
refreshStageTime(t, stage) == t.expiresAt - remaining(Lifetime(t))[stage]
StageExists(t, stage) == HasLifetime(t) /\ remaining(Lifetime(t))[stage] > 0

\* Bug: the delay is doubled once more before it is capped.
Bug_persistenceRetryDelay(failures) ==
    LET delay[a \in Nat] ==
            IF a = 0 THEN MinRetry
            ELSE IF delay[a - 1] > MaxRetry THEN MaxRetry ELSE 2 * delay[a - 1]
    IN  delay[failures - 1]

\* Written as the loop in persistence.go computes it.
persistenceRetryDelay(failures) ==
    LET delay[a \in Nat] ==
            IF a = 0 THEN MinRetry
            ELSE IF delay[a - 1] >= MaxRetry \div 2 THEN MaxRetry ELSE 2 * delay[a - 1]
    IN  delay[failures - 1]

Later(t, u) == IF t > u THEN t ELSE u

GraceEnd(t) == t.lastAuthAt + GracePeriod
InGracePeriod(t) == GracePeriod > 0 /\ t.lastAuthAt # 0 /\ now < GraceEnd(t)

\* Bug: grace is not waited for.
Bug_sessionExpiredEventTime(t) == now

sessionExpiredEventTime(t) == IF InGracePeriod(t) THEN GraceEnd(t) ELSE now

\* AuthStatus and usableAccessToken.
Valid == now + ExpiryBuffer < token.expiresAt
GraceMode == /\ schedule.disposition # "integrity"
             /\ ~Valid
             /\ InGracePeriod(token)

-----------------------------------------------------------------------------
(* The wake channel and the generations.                                   *)

\* signalRefreshLoopLocked: every loop that waits holds the channel it closes.
Woken(ls) == [l \in Loops |-> IF ls[l].pc = "wait" THEN [ls[l] EXCEPT !.woken = TRUE] ELSE ls[l]]

Up(ls) == \E l \in Loops : ls[l].pc # "off" /\ ~ls[l].cancelled

\* A loop that waits for the provider notices a new generation when that is over.
Attentive(ls) == \E l \in Loops : ls[l].pc \notin {"off", "attempt"} /\ ~ls[l].cancelled

\* advanceStateLocked.  A dropped schedule and a new one behave alike.
Install(t, ls) ==
    /\ revision < MaxRevision
    /\ token' = t
    /\ revision' = revision + 1
    /\ schedule' = NewSchedule
    /\ loops' = Woken(ls)
    /\ started' = {}
    /\ failedAt' = 0
    /\ attended' = (ready /\ now < t.expiresAt /\ Attentive(ls))

\* What a token response gives, and what a Load may give at a later time.
FreshTokens == {[refresh |-> r, lastAuthAt |-> now, expiresAt |-> e] :
                   r \in BOOLEAN, e \in {0} \cup {now + n : n \in Lifetimes}}
OldTokens == {[refresh |-> TRUE, lastAuthAt |-> a, expiresAt |-> a + n] :
                 a \in 1..now, n \in Lifetimes}

\* Login, Logout, a refusal, a refresh by AccessToken, RestoreSession.
InstallGeneration ==
    /\ \E t \in FreshTokens \cup OldTokens \cup {NoToken} : Install(t, loops)
    /\ UNCHANGED <<now, prompt, ready>>

\* commitInit signals the loops.
InitSucceeds ==
    /\ ~ready
    /\ ready' = TRUE
    /\ loops' = Woken(loops)
    /\ UNCHANGED <<now, prompt, token, revision, schedule, started, failedAt, attended>>

-----------------------------------------------------------------------------
(* Blocks recorded by AccessToken and finishRefreshAttempt.                *)

\* AccessToken has refreshed this generation itself, which it does once the token
\* is no longer valid; it may have begun before another attempt was recorded.  Or
\* finishRefreshAttempt blocks for an attempt that the loop has recorded, whatever
\* the token is worth.
MayBlock == ready /\ token.refresh /\ (~Valid \/ started # {})

blockRefreshIntegrity ==
    /\ MayBlock
    /\ schedule' = [schedule EXCEPT !.disposition = "integrity",
          !.eventAt = IF schedule.disposition = "integrity" THEN @ ELSE now]
    /\ loops' = Woken(loops)
    /\ UNCHANGED <<now, prompt, ready, token, revision, started, failedAt, attended>>

\* Of two times the earlier one stays.
blockRefreshPermanent ==
    /\ MayBlock
    /\ schedule.disposition # "integrity"
    /\ schedule' = [schedule EXCEPT !.disposition = "permanent",
          !.eventAt = IF schedule.disposition = "permanent" /\ @ <= sessionExpiredEventTime(token)
                      THEN @ ELSE sessionExpiredEventTime(token)]
    /\ loops' = Woken(loops)
    /\ UNCHANGED <<now, prompt, ready, token, revision, started, failedAt, attended>>

-----------------------------------------------------------------------------
(* nextRefreshLoopAction.                                                  *)

\* Some stage is still to come for a generation that can be refreshed.
Refreshable == ready /\ token.refresh /\ HasLifetime(token)

StageDue == Later(refreshStageTime(token, schedule.nextStage), schedule.retryNotBefore)

\* Bug: the last stage of a lifetime is not used.
Bug_StageLeft == StageExists(token, schedule.nextStage + 1) /\ StageDue < token.expiresAt

StageLeft == StageExists(token, schedule.nextStage) /\ StageDue < token.expiresAt

Blocked == schedule.disposition \in {"permanent", "integrity"}

\* What a loop has to wait for, or 0 if only a signal can change anything.
Due ==
    IF schedule.claim # NoLoop THEN 0
    ELSE IF Blocked THEN IF schedule.eventEmitted THEN 0 ELSE schedule.eventAt
    ELSE IF schedule.disposition = "active" /\ Refreshable /\ StageLeft THEN StageDue
    ELSE 0

\* No attempt is possible any more.
Parks ==
    /\ schedule.claim = NoLoop
    /\ schedule.disposition = "active"
    /\ ready /\ token.refresh /\ token.expiresAt # 0
    /\ \/ now >= token.expiresAt
       \/ HasLifetime(token) /\ ~StageLeft

\* runRefreshLoop has looked at its context.  It may have been cancelled since.
AtNext(l) == loops[l].pc = "next"

LoopWaits(l) ==
    /\ AtNext(l)
    /\ ~Parks
    /\ Due = 0 \/ now < Due
    /\ loops' = [loops EXCEPT ![l].pc = "wait", ![l].due = Due, ![l].woken = FALSE]
    /\ UNCHANGED <<now, prompt, ready, token, revision, schedule, started, failedAt, attended>>

\* The wait that follows uses the channel made by the signal.
LoopParks(l) ==
    /\ AtNext(l)
    /\ Parks
    /\ schedule' = [schedule EXCEPT !.disposition = "expired"]
    /\ loops' = [Woken(loops) EXCEPT ![l].pc = "wait", ![l].due = 0, ![l].woken = FALSE]
    /\ UNCHANGED <<now, prompt, ready, token, revision, started, failedAt, attended>>

LoopAnnounces(l) ==
    /\ AtNext(l)
    /\ schedule.claim = NoLoop
    /\ Blocked /\ ~schedule.eventEmitted
    /\ now >= schedule.eventAt
    /\ schedule' = [schedule EXCEPT !.eventEmitted = TRUE]
    /\ loops' = [Woken(loops) EXCEPT ![l].pc = "emit", ![l].revision = revision]
    /\ UNCHANGED <<now, prompt, ready, token, revision, started, failedAt, attended>>

LoopClaims(l) ==
    /\ AtNext(l)
    /\ ~Blocked /\ ~Parks
    /\ Due # 0 /\ now >= Due
    /\ schedule' = [schedule EXCEPT !.claim = l]
    /\ loops' = [Woken(loops) EXCEPT ![l].pc = "claimed", ![l].revision = revision,
                                     ![l].stage = schedule.nextStage]
    /\ UNCHANGED <<now, prompt, ready, token, revision, started, failedAt, attended>>

-----------------------------------------------------------------------------
(* waitForRefreshLoop and the end of a loop.                               *)

LoopWakes(l) ==
    /\ loops[l].pc = "wait"
    /\ ~loops[l].cancelled
    /\ loops[l].woken \/ (loops[l].due # 0 /\ now >= loops[l].due)
    /\ loops' = [loops EXCEPT ![l].pc = "next", ![l].due = 0, ![l].woken = FALSE]
    /\ UNCHANGED <<now, prompt, ready, token, revision, schedule, started, failedAt, attended>>

LoopExits(l) ==
    /\ loops[l].pc \in {"next", "wait"}
    /\ loops[l].cancelled
    /\ loops' = [loops EXCEPT ![l] = NoRun]
    /\ UNCHANGED <<now, prompt, ready, token, revision, schedule, started, failedAt, attended>>

-----------------------------------------------------------------------------
(* One attempt.                                                            *)

Finishing(l, result) == [loops EXCEPT ![l].pc = "finish", ![l].result = result]

\* How beginRefreshAttempt and doRefresh end an attempt that does not start, or
\* "none".  A claim is not lost while the generation stays.
NotStarted(l) ==
    IF loops[l].cancelled THEN "canceledBefore"
    ELSE IF loops[l].revision # revision THEN "succeeded"
    ELSE IF Blocked THEN schedule.disposition
    ELSE IF schedule.disposition # "active" THEN "succeeded"
    ELSE IF now >= token.expiresAt THEN "expiredBefore"
    ELSE "none"

\* Bug: the expiry is not looked at again when the attempt begins.
Bug_AttemptBegins(l) ==
    /\ loops[l].pc = "claimed"
    /\ IF NotStarted(l) \in {"none", "expiredBefore"}
       THEN /\ loops' = [loops EXCEPT ![l].pc = "attempt"]
            /\ started' = started \cup {loops[l].stage}
       ELSE /\ loops' = Finishing(l, NotStarted(l))
            /\ UNCHANGED started
    /\ UNCHANGED <<now, prompt, ready, token, revision, schedule, failedAt, attended>>

AttemptBegins(l) ==
    /\ loops[l].pc = "claimed"
    /\ IF NotStarted(l) = "none"
       THEN /\ loops' = [loops EXCEPT ![l].pc = "attempt"]
            /\ started' = started \cup {loops[l].stage}
       ELSE /\ loops' = Finishing(l, NotStarted(l))
            /\ UNCHANGED started
    /\ UNCHANGED <<now, prompt, ready, token, revision, schedule, failedAt, attended>>

\* It fails, or it is cancelled, or its generation is gone when the answer comes.
AttemptEnds(l) ==
    /\ loops[l].pc = "attempt"
    /\ \E result \in Results \ {"none", "canceledBefore", "expiredBefore"} :
          /\ result = "succeeded" <=> loops[l].revision # revision
          /\ result = "canceledAfter" => loops[l].cancelled
          /\ result = "temporary" => ~loops[l].cancelled
          /\ loops' = Finishing(l, result)
    /\ UNCHANGED <<now, prompt, ready, token, revision, schedule, started, failedAt, attended>>

\* It commits a new generation, or the refused one.
AttemptCommits(l) ==
    /\ loops[l].pc = "attempt"
    /\ loops[l].revision = revision
    /\ \E t \in {u \in FreshTokens : u.refresh} \cup {NoToken} :
          Install(t, Finishing(l, IF t = NoToken THEN "permanent" ELSE "succeeded"))
    /\ UNCHANGED <<now, prompt, ready>>

advanceRefreshStage(l) ==
    [schedule EXCEPT !.claim = NoLoop, !.nextStage = loops[l].stage + 1,
                     !.retryNotBefore = now + MinInterval]

\* What finishRefreshLoopAttempt makes of the schedule of its own generation.
Recorded(l) ==
    CASE loops[l].result \in {"temporary", "canceledAfter", "succeeded"} -> advanceRefreshStage(l)
      [] loops[l].result = "permanent" ->
            [schedule EXCEPT !.claim = NoLoop, !.disposition = "permanent",
                             !.eventAt = sessionExpiredEventTime(token)]
      [] loops[l].result = "integrity" ->
            [schedule EXCEPT !.claim = NoLoop, !.disposition = "integrity", !.eventAt = now]
      [] loops[l].result = "expiredBefore" ->
            [schedule EXCEPT !.claim = NoLoop, !.disposition = "expired"]
      [] loops[l].result = "canceledBefore" -> [schedule EXCEPT !.claim = NoLoop]

\* The loop goes on, unless it finds its context cancelled.
Resumed(l) ==
    [loops EXCEPT ![l] = IF @.cancelled THEN NoRun ELSE [NoRun EXCEPT !.pc = "next"]]

\* Bug: the loops that waited for the claim to be released are not told.
Bug_finishRefreshLoopAttempt(l) ==
    /\ loops[l].pc = "finish"
    /\ schedule' = IF loops[l].revision = revision THEN Recorded(l) ELSE schedule
    /\ loops' = Resumed(l)
    /\ failedAt' = IF loops[l].revision = revision /\ loops[l].result \in {"temporary", "canceledAfter"}
                   THEN now ELSE failedAt
    /\ UNCHANGED <<now, prompt, ready, token, revision, started, attended>>

finishRefreshLoopAttempt(l) ==
    /\ loops[l].pc = "finish"
    /\ IF loops[l].revision = revision
       THEN /\ schedule' = Recorded(l)
            /\ loops' = Woken(Resumed(l))
            /\ failedAt' = IF loops[l].result \in {"temporary", "canceledAfter"} THEN now ELSE failedAt
       ELSE /\ loops' = Resumed(l)
            /\ UNCHANGED <<schedule, failedAt>>
    /\ UNCHANGED <<now, prompt, ready, token, revision, started, attended>>

\* emitEventIfRevision.
EmitSessionExpired(l) ==
    /\ loops[l].pc = "emit"
    /\ loops' = Resumed(l)
    /\ UNCHANGED <<now, prompt, ready, token, revision, schedule, started, failedAt, attended>>

-----------------------------------------------------------------------------
(* Start, stop, time.                                                      *)

Cancelled(ls) == [l \in Loops |-> IF ls[l].pc = "off" THEN ls[l] ELSE [ls[l] EXCEPT !.cancelled = TRUE]]

\* The runner before it is told to stop, and is not waited for.
StartRefreshLoop(l) ==
    /\ loops[l].pc = "off"
    /\ loops' = [Cancelled(loops) EXCEPT ![l] = [NoRun EXCEPT !.pc = "next"]]
    /\ UNCHANGED <<now, prompt, ready, token, revision, schedule, started, failedAt, attended>>

StopRefreshLoop ==
    /\ Up(loops)
    /\ loops' = Cancelled(loops)
    /\ attended' = FALSE
    /\ UNCHANGED <<now, prompt, ready, token, revision, schedule, started, failedAt>>

\* A goroutine other than one that waits for the provider has something to do.
Runnable(l) ==
    \/ loops[l].pc \in {"next", "claimed", "finish", "emit"}
    \/ loops[l].pc = "wait" /\ (\/ loops[l].cancelled \/ loops[l].woken
                                \/ loops[l].due # 0 /\ now >= loops[l].due)

Tick ==
    /\ now < MaxTime
    /\ prompt => \A l \in Loops : ~Runnable(l)
    /\ now' = now + 1
    /\ UNCHANGED <<prompt, ready, token, revision, schedule, loops, started, failedAt, attended>>

LoopNext(l) ==
    \/ LoopWaits(l) \/ LoopParks(l) \/ LoopAnnounces(l) \/ LoopClaims(l) \/ LoopWakes(l)
    \/ LoopExits(l) \/ AttemptBegins(l) \/ AttemptEnds(l) \/ AttemptCommits(l)
    \/ finishRefreshLoopAttempt(l) \/ EmitSessionExpired(l) \/ StartRefreshLoop(l)

ScheduleNext ==
    \/ \E l \in Loops : LoopNext(l)
    \/ InstallGeneration \/ InitSucceeds \/ blockRefreshIntegrity \/ blockRefreshPermanent
    \/ StopRefreshLoop \/ Tick

ScheduleSpec == ScheduleInit /\ [][ScheduleNext]_scheduleVars

-----------------------------------------------------------------------------
(* Properties.                                                             *)

(* A loop that sleeps, and whose wake channel is still open, sleeps until  *)
(* exactly the moment that the present schedule asks for: no change of     *)
(* tokens, blocks, claims or discovery leaves a loop behind with an old    *)
(* timer or none, also when it waits for the claim of a loop it replaced.  *)
NoStaleSleep ==
    \A l \in Loops : loops[l].pc = "wait" /\ ~loops[l].woken => loops[l].due = Due

(* A background attempt starts only between its threshold and the expiry   *)
(* of the access token, at least minRefreshInterval after the last failed  *)
(* one, and never for a stage that was attempted before, also when loops   *)
(* are stopped, replaced, delayed, or start late in a lifetime.            *)
AttemptsInWindow ==
    [][ \A l \in Loops :
          (loops[l].pc = "claimed" /\ loops'[l].pc = "attempt") =>
              /\ refreshStageTime(token, loops[l].stage) <= now /\ now < token.expiresAt
              /\ failedAt # 0 => now >= failedAt + MinInterval
              /\ loops[l].stage \notin started ]_scheduleVars

(* A generation that can be refreshed and that a loop attends to from its  *)
(* installation on does not expire without an attempt, unless AccessToken  *)
(* has recorded a block: whatever loops replace each other meanwhile, some *)
(* timer is set in time.  This is about loops that run without delay and   *)
(* none of which still waits for the answer to an older generation.        *)
TriedBeforeExpiry ==
    (/\ prompt /\ attended
     /\ token.refresh /\ HasLifetime(token) /\ Lifetime(token) > 1
     /\ now >= token.expiresAt
     /\ ~Blocked) => started # {}

(* When a loop announces session-expired, AuthStatus no longer reports     *)
(* grace for the tokens in memory: the event is not early, whoever found   *)
(* the error and at whatever time.                                         *)
ExpiredAfterGrace ==
    [][ \A l \in Loops :
          (loops[l].pc = "emit" /\ loops'[l].pc # "emit" /\ loops[l].revision = revision) =>
              ~GraceMode ]_scheduleVars

\* 2^n, as a definition that can be reasoned about.
TwoTo[n \in Nat] == IF n = 0 THEN 1 ELSE 2 * TwoTo[n - 1]

(* The stages of a lifetime are its halves: refreshStageTime is defined    *)
(* for exactly the stages whose share of the lifetime is not nothing, and  *)
(* the thresholds increase strictly up to the expiry.                      *)
StagesHalve ==
    HasLifetime(token) =>
        \A s \in 1..MaxTime :
            /\ StageExists(token, s) <=> TwoTo[s] <= Lifetime(token)
            /\ StageExists(token, s) =>
                  /\ refreshStageTime(token, s) = token.expiresAt - Lifetime(token) \div TwoTo[s]
                  /\ refreshStageTime(token, s) > Later(refreshStageTime(token, s - 1), token.lastAuthAt)
                  /\ refreshStageTime(token, s) < token.expiresAt

(* The delay before a Save is retried doubles from MinRetry with every     *)
(* failure, and is MaxRetry as soon as it would exceed that, for as many   *)
(* failures as there can have been by now.                                 *)
RetryDelayDoubles ==
    \A n \in 1..now :
        persistenceRetryDelay(n) =
            IF MinRetry * TwoTo[n - 1] > MaxRetry THEN MaxRetry ELSE MinRetry * TwoTo[n - 1]
=============================================================================
