----------------------------- MODULE Lifecycle -----------------------------
(***************************************************************************)
(* Login and Logout on one Client (lifecycle.go, login.go, logout.go): how *)
(* a newer operation supersedes an older one, who owns the browser, what   *)
(* may still commit and what Logout still does at the provider afterwards. *)
(*                                                                         *)
(* A member of Operations is one call.  The session in memory is the Login *)
(* that committed it.  Refresh attempts are only seen as holders of        *)
(* stateCommitMu.  The browser handler and the provider are external.      *)
(***************************************************************************)
EXTENDS Naturals

CONSTANTS
    Operations,
    NoOperation,
    Revocation  \* the provider advertises a revocation endpoint

ASSUME LifecycleAssumption ==
    /\ NoOperation \notin Operations
    /\ Revocation \in BOOLEAN

VARIABLES
    lifecycleOperation, \* the current operation
    lifecycleSeq,
    lifecycleMu,        \* who holds the mutex
    stateCommitMu,      \* "free", or "taken" by somebody else's commit
    lifecycleFlow,      \* who holds the browser permit
    operations,
    session             \* the Login whose tokens are in memory

lifecycleVars == <<lifecycleOperation, lifecycleSeq, lifecycleMu, stateCommitMu, lifecycleFlow,
                   operations, session>>

-----------------------------------------------------------------------------
(* State.                                                                  *)

\* pc of a Login: "new", "flow" before the permit, "permitted" with it,
\* "browser", "exchange", "commit" before and "locked" with lifecycleMu, "done",
\* "returned".  Of a Logout: "new", "clear" with lifecycleMu, "revoke",
\* "revoking", "rplogout", then "flow" to "returned".
NewOperation == [pc |-> "new", kind |-> "none", id |-> 0, cancelled |-> FALSE,
                 expired |-> FALSE, token |-> NoOperation, result |-> "none"]

Records ==
    [pc: {"new", "flow", "permitted", "browser", "exchange", "commit", "locked", "clear",
          "revoke", "revoking", "rplogout", "done", "returned"},
     kind: {"none", "login", "logout"}, id: Nat, cancelled: BOOLEAN, expired: BOOLEAN,
     token: Operations \cup {NoOperation}, result: {"none", "ok", "failed", "cancelled"}]

\* A mutex or the permit is held exactly inside its section.
HeldInside ==
    \A o \in Operations :
        /\ lifecycleMu = o <=> operations[o].pc \in {"locked", "clear"}
        /\ lifecycleFlow = o <=> operations[o].pc \in {"permitted", "browser"}

LifecycleTypeOK ==
    /\ lifecycleOperation \in Operations \cup {NoOperation}
    /\ lifecycleSeq \in Nat
    /\ lifecycleMu \in Operations \cup {NoOperation}
    /\ stateCommitMu \in {"free", "taken"}
    /\ lifecycleFlow \in Operations \cup {NoOperation}
    /\ operations \in [Operations -> Records]
    /\ session \in Operations \cup {NoOperation}
    /\ HeldInside

LifecycleInit ==
    /\ lifecycleOperation = NoOperation
    /\ lifecycleSeq = 0
    /\ lifecycleMu = NoOperation
    /\ stateCommitMu = "free"
    /\ lifecycleFlow = NoOperation
    /\ operations = [o \in Operations |-> NewOperation]
    /\ session = NoOperation

-----------------------------------------------------------------------------
(* Admission.                                                              *)

\* operation.ctx is done: superseded, or the caller's context or the timeout.
ContextDone(o) == operations[o].cancelled \/ operations[o].expired

lifecycleOperationOwned(o) == lifecycleOperation = o

\* Bug: only the caller's context is looked at.
Bug_lifecycleOperationCurrentLocked(o) == ~operations[o].expired

lifecycleOperationCurrentLocked(o) == lifecycleOperation = o /\ ~ContextDone(o)

\* Bug: the superseded operation is not told.
Bug_beginLifecycleOperationLocked(o, kind, pc) ==
    /\ lifecycleSeq' = lifecycleSeq + 1
    /\ lifecycleOperation' = o
    /\ operations' = [operations EXCEPT ![o].pc = pc, ![o].kind = kind, ![o].id = lifecycleSeq + 1]

beginLifecycleOperationLocked(o, kind, pc) ==
    /\ lifecycleSeq' = lifecycleSeq + 1
    /\ lifecycleOperation' = o
    /\ operations' = [p \in Operations |->
          CASE p = o -> [operations[o] EXCEPT !.pc = pc, !.kind = kind, !.id = lifecycleSeq + 1]
            [] p = lifecycleOperation -> [operations[p] EXCEPT !.cancelled = TRUE]
            [] OTHER -> operations[p]]

\* The operation is over with a result; finishLifecycleOperation is still to run.
Ends(o, result) == operations' = [operations EXCEPT ![o].pc = "done", ![o].result = result]

\* Login, from its entry to admission.  A context that is done supersedes nobody.
Login(o) ==
    /\ operations[o].pc = "new"
    /\ lifecycleMu = NoOperation
    /\ IF operations[o].expired
       THEN /\ operations' = [operations EXCEPT ![o].pc = "returned", ![o].kind = "login",
                                                ![o].result = "cancelled"]
            /\ UNCHANGED <<lifecycleOperation, lifecycleSeq>>
       ELSE beginLifecycleOperationLocked(o, "login", "flow")
    /\ UNCHANGED <<lifecycleMu, stateCommitMu, lifecycleFlow, session>>

\* Logout.  It joins a Logout that is under way; otherwise it keeps lifecycleMu
\* until it has cleared the state.  It does not look at its context.
Logout(o) ==
    /\ operations[o].pc = "new"
    /\ lifecycleMu = NoOperation
    /\ IF lifecycleOperation # NoOperation /\ operations[lifecycleOperation].kind = "logout"
       THEN /\ operations' = [operations EXCEPT ![o].pc = "returned", ![o].kind = "logout",
                                 ![o].id = operations[lifecycleOperation].id, ![o].result = "ok"]
            /\ UNCHANGED <<lifecycleOperation, lifecycleSeq, lifecycleMu>>
       ELSE /\ beginLifecycleOperationLocked(o, "logout", "clear")
            /\ lifecycleMu' = o
    /\ UNCHANGED <<stateCommitMu, lifecycleFlow, session>>

\* The caller gives up or LoginTimeout or LogoutTimeout passes.
Expire(o) ==
    /\ operations[o].pc # "returned"
    /\ ~operations[o].expired
    /\ operations' = [operations EXCEPT ![o].expired = TRUE]
    /\ UNCHANGED <<lifecycleOperation, lifecycleSeq, lifecycleMu, stateCommitMu, lifecycleFlow,
                   session>>

\* Some refresh, restore or Save retry takes and releases stateCommitMu.
OtherCommit ==
    /\ stateCommitMu' = IF stateCommitMu = "free" THEN "taken" ELSE "free"
    /\ UNCHANGED <<lifecycleOperation, lifecycleSeq, lifecycleMu, lifecycleFlow, operations,
                   session>>

-----------------------------------------------------------------------------
(* The browser (runLifecycleFlow), for Login and for RP-Initiated Logout.  *)

\* What a flow that ended without a callback makes of the call: Logout returns
\* nil whatever happens here.
FlowFailed(o, result) == IF operations[o].kind = "logout" THEN "ok" ELSE result

\* Bug: the permit is not taken.
Bug_AcquirePermit(o) ==
    /\ operations[o].pc = "flow"
    /\ lifecycleOperationCurrentLocked(o)
    /\ lifecycleFlow' = o
    /\ operations' = [operations EXCEPT ![o].pc = "permitted"]
    /\ UNCHANGED <<lifecycleOperation, lifecycleSeq, lifecycleMu, stateCommitMu, session>>

AcquirePermit(o) ==
    /\ operations[o].pc = "flow"
    /\ lifecycleFlow = NoOperation
    /\ lifecycleFlow' = o
    /\ operations' = [operations EXCEPT ![o].pc = "permitted"]
    /\ UNCHANGED <<lifecycleOperation, lifecycleSeq, lifecycleMu, stateCommitMu, session>>

\* Its context ends before it has the permit.
FlowCancelled(o) ==
    /\ operations[o].pc = "flow"
    /\ ContextDone(o)
    /\ Ends(o, FlowFailed(o, "cancelled"))
    /\ UNCHANGED <<lifecycleOperation, lifecycleSeq, lifecycleMu, stateCommitMu, lifecycleFlow,
                   session>>

\* StartAuthFlow or StartLogoutFlow, unless the operation was superseded while
\* it waited for the permit.
StartFlow(o) ==
    /\ operations[o].pc = "permitted"
    /\ lifecycleMu = NoOperation
    /\ IF lifecycleOperationCurrentLocked(o)
       THEN /\ operations' = [operations EXCEPT ![o].pc = "browser"]
            /\ UNCHANGED lifecycleFlow
       ELSE /\ Ends(o, FlowFailed(o, "cancelled"))
            /\ lifecycleFlow' = NoOperation
    /\ UNCHANGED <<lifecycleOperation, lifecycleSeq, lifecycleMu, stateCommitMu, session>>

\* The handler returns (external), with a callback or with an error; its result
\* counts only if the operation is still current.
FlowReturns(o) ==
    /\ operations[o].pc = "browser"
    /\ lifecycleMu = NoOperation
    /\ \/ /\ lifecycleOperationCurrentLocked(o)
          /\ operations' = [operations EXCEPT
                ![o].pc = IF operations[o].kind = "login" THEN "exchange" ELSE "done",
                ![o].result = FlowFailed(o, "none")]
       \/ Ends(o, FlowFailed(o, IF lifecycleOperationCurrentLocked(o) THEN "failed"
                                ELSE "cancelled"))
    /\ lifecycleFlow' = NoOperation
    /\ UNCHANGED <<lifecycleOperation, lifecycleSeq, lifecycleMu, stateCommitMu, session>>

\* Handlers promise to return once their context is done.
FlowAborted(o) == ContextDone(o) /\ FlowReturns(o)

-----------------------------------------------------------------------------
(* Login, from the callback to the commit.                                 *)

\* The state check, the code exchange and the checks of the ID token, with the
\* reclassification of lifecycleOperationError when one of them fails.
Exchange(o) ==
    /\ operations[o].pc = "exchange"
    /\ lifecycleMu = NoOperation
    /\ \/ /\ lifecycleOperationCurrentLocked(o)
          /\ operations' = [operations EXCEPT ![o].pc = "commit"]
       \/ Ends(o, IF lifecycleOperationCurrentLocked(o) THEN "failed" ELSE "cancelled")
    /\ UNCHANGED <<lifecycleOperation, lifecycleSeq, lifecycleMu, stateCommitMu, lifecycleFlow,
                   session>>

\* commitLoginState takes lifecycleMu and checks, then waits for stateCommitMu
\* and checks again.
CommitLock(o) ==
    /\ operations[o].pc = "commit"
    /\ lifecycleMu = NoOperation
    /\ IF lifecycleOperationCurrentLocked(o)
       THEN lifecycleMu' = o /\ operations' = [operations EXCEPT ![o].pc = "locked"]
       ELSE Ends(o, "cancelled") /\ UNCHANGED lifecycleMu
    /\ UNCHANGED <<lifecycleOperation, lifecycleSeq, stateCommitMu, lifecycleFlow, session>>

\* Bug: the second check comes after the commit.
Bug_CommitLogin(o) ==
    /\ operations[o].pc = "locked"
    /\ stateCommitMu = "free"
    /\ session' = o
    /\ Ends(o, IF lifecycleOperationCurrentLocked(o) THEN "ok" ELSE "cancelled")
    /\ lifecycleMu' = NoOperation
    /\ UNCHANGED <<lifecycleOperation, lifecycleSeq, stateCommitMu, lifecycleFlow>>

CommitLogin(o) ==
    /\ operations[o].pc = "locked"
    /\ stateCommitMu = "free"
    /\ IF lifecycleOperationCurrentLocked(o)
       THEN session' = o /\ Ends(o, "ok")
       ELSE Ends(o, "cancelled") /\ UNCHANGED session
    /\ lifecycleMu' = NoOperation
    /\ UNCHANGED <<lifecycleOperation, lifecycleSeq, stateCommitMu, lifecycleFlow>>

-----------------------------------------------------------------------------
(* Logout, after its admission.                                            *)

\* The local commit, with both mutexes.
ClearState(o) ==
    /\ operations[o].pc = "clear"
    /\ stateCommitMu = "free"
    /\ session' = NoOperation
    /\ operations' = [operations EXCEPT ![o].pc = "revoke", ![o].token = session]
    /\ lifecycleMu' = NoOperation
    /\ UNCHANGED <<lifecycleOperation, lifecycleSeq, stateCommitMu, lifecycleFlow>>

\* revokeRefreshToken decides.  Ownership counts, a cancelled caller does not.
\* It also goes on if there was no refresh token or the endpoint is refused.
RevokeDecides(o) ==
    /\ operations[o].pc = "revoke"
    /\ lifecycleMu = NoOperation
    /\ \/ /\ Revocation
          /\ operations[o].token # NoOperation
          /\ lifecycleOperationOwned(o)
          /\ operations' = [operations EXCEPT ![o].pc = "revoking"]
       \/ operations' = [operations EXCEPT ![o].pc = "rplogout"]
    /\ UNCHANGED <<lifecycleOperation, lifecycleSeq, lifecycleMu, stateCommitMu, lifecycleFlow,
                   session>>

\* The request reaches the provider, or fails; its outcome is only logged.
RevokeReturns(o) ==
    /\ operations[o].pc = "revoking"
    /\ operations' = [operations EXCEPT ![o].pc = "rplogout"]
    /\ UNCHANGED <<lifecycleOperation, lifecycleSeq, lifecycleMu, stateCommitMu, lifecycleFlow,
                   session>>

\* doRPLogout, where the provider supports it and there was an ID token.
RPLogout(o) ==
    /\ operations[o].pc = "rplogout"
    /\ lifecycleMu = NoOperation
    /\ \/ /\ lifecycleOperationCurrentLocked(o)
          /\ operations[o].token # NoOperation
          /\ operations' = [operations EXCEPT ![o].pc = "flow"]
       \/ Ends(o, "ok")
    /\ UNCHANGED <<lifecycleOperation, lifecycleSeq, lifecycleMu, stateCommitMu, lifecycleFlow,
                   session>>

finishLifecycleOperation(o) ==
    /\ operations[o].pc = "done"
    /\ lifecycleMu = NoOperation
    /\ lifecycleOperation' = IF lifecycleOperation = o THEN NoOperation ELSE lifecycleOperation
    /\ operations' = [operations EXCEPT ![o].pc = "returned", ![o].cancelled = TRUE]
    /\ UNCHANGED <<lifecycleSeq, lifecycleMu, stateCommitMu, lifecycleFlow, session>>

-----------------------------------------------------------------------------

\* The steps an operation takes by itself.
OperationNext(o) ==
    \/ AcquirePermit(o) \/ FlowCancelled(o) \/ StartFlow(o) \/ Exchange(o)
    \/ CommitLock(o) \/ CommitLogin(o) \/ ClearState(o) \/ RevokeDecides(o) \/ RevokeReturns(o)
    \/ RPLogout(o) \/ finishLifecycleOperation(o)

LifecycleNext ==
    \/ \E o \in Operations :
          Login(o) \/ Logout(o) \/ Expire(o) \/ FlowReturns(o) \/ OperationNext(o)
    \/ OtherCommit

LifecycleSpec == LifecycleInit /\ [][LifecycleNext]_lifecycleVars

\* Requests return, sync.Mutex admits every waiter in the end, other commits
\* release stateCommitMu, and a handler returns once its context is done.  That
\* the user ever answers is not assumed.
LifecycleFairSpec ==
    /\ LifecycleSpec
    /\ \A o \in Operations : SF_lifecycleVars(OperationNext(o)) /\ WF_lifecycleVars(FlowAborted(o))
    /\ WF_lifecycleVars(stateCommitMu = "taken" /\ OtherCommit)

-----------------------------------------------------------------------------
(* Properties.                                                             *)

(* Tokens come into memory only from the operation admitted last: a late   *)
(* callback or token response of a superseded Login, or of one older than  *)
(* a Logout, commits nothing (commitLoginState).                           *)
LatestCommits ==
    [][ session' \notin {session, NoOperation} =>
            operations[session'].id = lifecycleSeq ]_lifecycleVars

(* A Login that reports ErrFlowCancelled has left nothing behind, also when *)
(* its context ended while it waited for stateCommitMu.                    *)
CancelledLeavesNothing ==
    \A o \in Operations : operations[o].result = "cancelled" => session # o

(* Once a Logout has cleared the state, and also when a concurrent Logout  *)
(* returned early because of it, the session stays empty until a Login     *)
(* admitted later commits.                                                 *)
LogoutSettles ==
    \A o \in Operations :
        /\ operations[o].kind = "logout"
        /\ operations[o].pc \notin {"new", "clear"}
        /\ session # NoOperation
        => operations[session].id > operations[o].id

(* The browser handler, which need not be reentrant, is never started      *)
(* before the handler of an older operation has returned.                  *)
OneBrowser ==
    \A o, p \in Operations :
        {operations[o].pc, operations[p].pc} \subseteq {"permitted", "browser"} => o = p

(* An operation that was superseded returns, although neither the user nor *)
(* a timeout ends its browser flow.  Both are for good and the calls are   *)
(* finitely many, so it suffices that again and again none is left behind. *)
SupersededReturns ==
    []<>(\A o \in Operations :
            operations[o].id # 0 /\ lifecycleOperation # o => operations[o].pc = "returned")
=============================================================================
