----------------------------- MODULE Discovery -----------------------------
(***************************************************************************)
(* Init (client.go): OIDC discovery, how a newer call supersedes an older  *)
(* one, what a call commits and how the refresh loop, which needs the      *)
(* discovered configuration, learns of it.                                 *)
(*                                                                         *)
(* A member of Inits is one call.  The discovered provider, verifier and   *)
(* oauth2 configuration are the call that committed them.  Logout and      *)
(* revocation endpoint are read by the same code; one stands for both.     *)
(***************************************************************************)
EXTENDS Naturals

CONSTANTS
    Inits,
    NoInit,
    Endpoints,  \* what a discovery document may advertise
    NoEndpoint  \* the empty string

ASSUME DiscoveryAssumption == NoInit \notin Inits /\ NoEndpoint \notin Endpoints

VARIABLES
    initOperation,      \* the current call
    initSeq,
    inits,
    provider,           \* the call whose discovery is in use
    endSessionEndpoint,
    initFailed,         \* the calls that enqueued EventInitFailed
    loop                \* the refresh loop: "running", "parked" or "scheduled"

discoveryVars == <<initOperation, initSeq, inits, provider, endSessionEndpoint, initFailed, loop>>

-----------------------------------------------------------------------------

\* The claim of the discovery document: missing, not a string, or an endpoint.
ClaimValues == Endpoints \cup {"absent", "malformed"}

\* pc: "new", "discover", "endpoints" with the document, "commit" with the old
\* endpoint read, "failing", "done", "returned".
NewInit == [pc |-> "new", id |-> 0, cancelled |-> FALSE, expired |-> FALSE,
            claim |-> "absent", previous |-> NoEndpoint, result |-> "none"]

Records ==
    [pc: {"new", "discover", "endpoints", "commit", "failing", "done", "returned"},
     id: Nat, cancelled: BOOLEAN, expired: BOOLEAN, claim: ClaimValues,
     previous: Endpoints \cup {NoEndpoint}, result: {"none", "ok", "failed", "cancelled"}]

\* The types, and that the current call is one that has not returned.
DiscoveryTypeOK ==
    /\ initOperation \in Inits \cup {NoInit}
    /\ initSeq \in Nat
    /\ inits \in [Inits -> Records]
    /\ provider \in Inits \cup {NoInit}
    /\ endSessionEndpoint \in Endpoints \cup {NoEndpoint}
    /\ initFailed \subseteq Inits
    /\ loop \in {"running", "parked", "scheduled"}
    /\ initOperation # NoInit => inits[initOperation].pc \notin {"new", "returned"}

DiscoveryInit ==
    /\ initOperation = NoInit
    /\ initSeq = 0
    /\ inits = [o \in Inits |-> NewInit]
    /\ provider = NoInit
    /\ endSessionEndpoint = NoEndpoint
    /\ initFailed = {}
    /\ loop = "running"

-----------------------------------------------------------------------------

ContextDone(o) == inits[o].cancelled \/ inits[o].expired

\* Bug: only the caller's context is looked at.
Bug_initOperationCurrentLocked(o) == ~inits[o].expired

initOperationCurrentLocked(o) == initOperation = o /\ ~ContextDone(o)

\* beginInitOperation.  A context that is done supersedes nobody.
beginInitOperation(o) ==
    /\ inits[o].pc = "new"
    /\ IF inits[o].expired
       THEN /\ inits' = [inits EXCEPT ![o].pc = "returned", ![o].result = "cancelled"]
            /\ UNCHANGED <<initOperation, initSeq>>
       ELSE /\ initSeq' = initSeq + 1
            /\ initOperation' = o
            /\ inits' = [p \in Inits |->
                  CASE p = o -> [inits[o] EXCEPT !.pc = "discover", !.id = initSeq + 1]
                    [] p = initOperation -> [inits[p] EXCEPT !.cancelled = TRUE]
                    [] OTHER -> inits[p]]
    /\ UNCHANGED <<provider, endSessionEndpoint, initFailed, loop>>

\* The caller gives up.
Expire(o) ==
    /\ inits[o].pc # "returned"
    /\ ~inits[o].expired
    /\ inits' = [inits EXCEPT ![o].expired = TRUE]
    /\ UNCHANGED <<initOperation, initSeq, provider, endSessionEndpoint, initFailed, loop>>

\* oidc.NewProvider returns, with the document or with an error.
NewProvider(o) ==
    /\ inits[o].pc = "discover"
    /\ \/ \E claim \in ClaimValues :
             inits' = [inits EXCEPT ![o].pc = "endpoints", ![o].claim = claim]
       \/ inits' = [inits EXCEPT ![o].pc = "failing"]
    /\ UNCHANGED <<initOperation, initSeq, provider, endSessionEndpoint, initFailed, loop>>

\* Init reads the committed endpoint, and releases Client.mu again.
ReadPrevious(o) ==
    /\ inits[o].pc = "endpoints"
    /\ inits' = [inits EXCEPT ![o].pc = "commit", ![o].previous = endSessionEndpoint]
    /\ UNCHANGED <<initOperation, initSeq, provider, endSessionEndpoint, initFailed, loop>>

discoveredEndpoint(claim, previous) ==
    CASE claim = "absent" -> NoEndpoint
      [] claim = "malformed" -> previous
      [] OTHER -> claim

\* Bug: the refresh loop is not woken.
Bug_commitInit(o) ==
    /\ inits[o].pc = "commit"
    /\ IF initOperationCurrentLocked(o)
       THEN /\ provider' = o
            /\ endSessionEndpoint' = discoveredEndpoint(inits[o].claim, inits[o].previous)
            /\ inits' = [inits EXCEPT ![o].pc = "done", ![o].result = "ok"]
       ELSE /\ inits' = [inits EXCEPT ![o].pc = "done", ![o].result = "cancelled"]
            /\ UNCHANGED <<provider, endSessionEndpoint>>
    /\ UNCHANGED <<initOperation, initSeq, initFailed, loop>>

\* commitInit, with initMu and Client.mu.  Its signal wakes the loop.
commitInit(o) ==
    /\ inits[o].pc = "commit"
    /\ IF initOperationCurrentLocked(o)
       THEN /\ provider' = o
            /\ endSessionEndpoint' = discoveredEndpoint(inits[o].claim, inits[o].previous)
            /\ loop' = "running"
            /\ inits' = [inits EXCEPT ![o].pc = "done", ![o].result = "ok"]
       ELSE /\ inits' = [inits EXCEPT ![o].pc = "done", ![o].result = "cancelled"]
            /\ UNCHANGED <<provider, endSessionEndpoint, loop>>
    /\ UNCHANGED <<initOperation, initSeq, initFailed>>

\* completeInitFailure.  Only a current call tells the application.
completeInitFailure(o) ==
    /\ inits[o].pc = "failing"
    /\ IF initOperationCurrentLocked(o)
       THEN /\ initFailed' = initFailed \cup {o}
            /\ inits' = [inits EXCEPT ![o].pc = "done", ![o].result = "failed"]
       ELSE /\ inits' = [inits EXCEPT ![o].pc = "done", ![o].result = "cancelled"]
            /\ UNCHANGED initFailed
    /\ UNCHANGED <<initOperation, initSeq, provider, endSessionEndpoint, loop>>

finishInitOperation(o) ==
    /\ inits[o].pc = "done"
    /\ initOperation' = IF initOperation = o THEN NoInit ELSE initOperation
    /\ inits' = [inits EXCEPT ![o].pc = "returned", ![o].cancelled = TRUE]
    /\ UNCHANGED <<initSeq, provider, endSessionEndpoint, initFailed, loop>>

\* nextRefreshLoopAction parks a session it has no configuration for, on the
\* wake channel that it took under the same lock.
LoopLooks ==
    /\ loop = "running"
    /\ loop' = IF provider = NoInit THEN "parked" ELSE "scheduled"
    /\ UNCHANGED <<initOperation, initSeq, inits, provider, endSessionEndpoint, initFailed>>

-----------------------------------------------------------------------------

DiscoveryNext ==
    \/ \E o \in Inits :
          \/ beginInitOperation(o) \/ Expire(o) \/ NewProvider(o) \/ ReadPrevious(o)
          \/ commitInit(o) \/ completeInitFailure(o) \/ finishInitOperation(o)
    \/ LoopLooks

DiscoverySpec == DiscoveryInit /\ [][DiscoveryNext]_discoveryVars

-----------------------------------------------------------------------------
(* Properties.                                                             *)

(* Only the call admitted last replaces the configuration or announces a   *)
(* failure: a slow discovery that a newer Init superseded does neither,    *)
(* also when the newer one has long returned (Init's comment).             *)
LatestInitDecides ==
    [][ \A o \in Inits :
          \/ provider' = o /\ provider # o
          \/ o \in initFailed' \ initFailed
          => inits[o].id = initSeq ]_discoveryVars

(* A document with an unreadable endpoint leaves the committed endpoint as *)
(* it is: the value Init read earlier, without the lock, is never stale    *)
(* when it is written back.                                                *)
MalformedKeepsEndpoint ==
    [][ \A o \in Inits :
          provider' = o /\ provider # o /\ inits[o].claim = "malformed"
          => UNCHANGED endSessionEndpoint ]_discoveryVars

(* The refresh loop never stays parked for lack of configuration once a    *)
(* discovery has been committed.                                           *)
LoopSeesDiscovery == loop = "parked" => provider = NoInit
=============================================================================
