-------------------------- MODULE LifecycleProofs --------------------------
(***************************************************************************)
(* Proofs about Lifecycle for every set of Login and Logout calls, with or *)
(* without a revocation endpoint.                                          *)
(***************************************************************************)
EXTENDS Lifecycle, TLAPS

-----------------------------------------------------------------------------
(* The inductive invariant.                                                *)

\* An operation has a kind once it was admitted or turned away, and each kind
\* has its own steps besides the browser.
KindShape ==
    \A o \in Operations :
        /\ operations[o].kind = "none" <=> operations[o].pc = "new"
        /\ operations[o].pc \in {"exchange", "commit", "locked"} => operations[o].kind = "login"
        /\ operations[o].pc \in {"clear", "revoke", "revoking", "rplogout"} =>
              operations[o].kind = "logout"

\* The current operation is the one admitted last, and it has not returned.
\* When it is a Login, every Logout was admitted before it.
CurrentShape ==
    /\ \A o \in Operations : operations[o].id <= lifecycleSeq
    /\ lifecycleOperation # NoOperation =>
          /\ operations[lifecycleOperation].id = lifecycleSeq
          /\ operations[lifecycleOperation].pc \notin {"new", "returned"}
    /\ lifecycleOperation # NoOperation /\ operations[lifecycleOperation].kind = "login" =>
          \A o \in Operations :
              operations[o].kind = "logout" => operations[o].id < lifecycleSeq

\* Tokens in memory are those of a Login that has reported success.
SessionShape ==
    session # NoOperation =>
        /\ operations[session].kind = "login"
        /\ operations[session].pc \in {"done", "returned"}
        /\ operations[session].result = "ok"

Inv ==
    /\ LifecycleTypeOK
    /\ KindShape
    /\ CurrentShape
    /\ SessionShape
    /\ LogoutSettles

-----------------------------------------------------------------------------
(* Lemmas.                                                                 *)

USE LifecycleAssumption

(* Nothing has happened yet.                                               *)
LEMMA InitInv == LifecycleInit => Inv
  BY DEF LifecycleInit, NewOperation, Inv, LifecycleTypeOK, Records, HeldInside, KindShape,
         CurrentShape, SessionShape, LogoutSettles

(* The updates of an operation's record keep it well formed.               *)
LEMMA RecordUpdates ==
    ASSUME NEW r \in Records
    PROVE  /\ [r EXCEPT !.cancelled = TRUE] \in Records
           /\ [r EXCEPT !.expired = TRUE] \in Records
           /\ [r EXCEPT !.pc = "returned", !.cancelled = TRUE] \in Records
           /\ \A pc \in {"flow", "permitted", "browser", "commit", "locked", "revoking", "rplogout"} :
                 [r EXCEPT !.pc = pc] \in Records
           /\ \A pc \in {"exchange", "done"}, result \in {"none", "ok", "failed", "cancelled"} :
                 [r EXCEPT !.pc = pc, !.result = result] \in Records
           /\ \A t \in Operations \cup {NoOperation} :
                 [r EXCEPT !.pc = "revoke", !.token = t] \in Records
           /\ [r EXCEPT !.pc = "returned", !.kind = "login", !.result = "cancelled"] \in Records
           /\ \A id \in Nat :
                 [r EXCEPT !.pc = "returned", !.kind = "logout", !.id = id, !.result = "ok"]
                    \in Records
           /\ \A pc \in {"flow", "clear"}, kind \in {"login", "logout"}, id \in Nat :
                 [r EXCEPT !.pc = pc, !.kind = kind, !.id = id] \in Records
  BY Zenon DEF Records

(* So does moving on.                                                      *)
LEMMA MoveType ==
    ASSUME Inv, NEW o \in Operations,
           NEW pc \in {"flow", "permitted", "browser", "commit", "locked", "revoking", "rplogout"},
           operations' = [operations EXCEPT ![o].pc = pc]
    PROVE  operations' \in [Operations -> Records]
  BY RecordUpdates DEF Inv, LifecycleTypeOK

(* So does the end of an operation.                                        *)
LEMMA EndsType ==
    ASSUME Inv, NEW o \in Operations, NEW result \in {"none", "ok", "failed", "cancelled"},
           Ends(o, result)
    PROVE  operations' \in [Operations -> Records]
  BY RecordUpdates DEF Inv, LifecycleTypeOK, Ends

(* Admission: the operation is the one with the highest number, and the    *)
(* superseded operation changes nothing but its context.                   *)
LEMMA BeginFacts ==
    ASSUME Inv, NEW o \in Operations, operations[o].pc = "new",
           NEW kind \in {"login", "logout"}, NEW pc \in {"flow", "clear"},
           beginLifecycleOperationLocked(o, kind, pc)
    PROVE  /\ operations' \in [Operations -> Records]
           /\ lifecycleSeq' = lifecycleSeq + 1
           /\ lifecycleOperation' = o
           /\ operations'[o].pc = pc
           /\ operations'[o].kind = kind
           /\ operations'[o].id = lifecycleSeq + 1
           /\ \A p \in Operations \ {o} :
                 /\ operations'[p].pc = operations[p].pc
                 /\ operations'[p].kind = operations[p].kind
                 /\ operations'[p].id = operations[p].id
                 /\ operations'[p].result = operations[p].result
  <1>1. operations \in [Operations -> Records]
    BY DEF Inv, LifecycleTypeOK
  <1>2. lifecycleSeq + 1 \in Nat
    BY DEF Inv, LifecycleTypeOK
  <1>3. [operations[o] EXCEPT !.pc = pc, !.kind = kind, !.id = lifecycleSeq + 1] \in Records
    BY <1>1, <1>2, RecordUpdates
  <1>4. operations' \in [Operations -> Records]
    BY <1>1, <1>3, RecordUpdates DEF beginLifecycleOperationLocked
  <1>5. /\ operations'[o] = [operations[o] EXCEPT !.pc = pc, !.kind = kind, !.id = lifecycleSeq + 1]
        /\ \A p \in Operations \ {o} :
              operations'[p] \in {operations[p], [operations[p] EXCEPT !.cancelled = TRUE]}
    BY <1>1 DEF Inv, LifecycleTypeOK, CurrentShape, beginLifecycleOperationLocked
  <1>6. /\ operations'[o].pc = pc
        /\ operations'[o].kind = kind
        /\ operations'[o].id = lifecycleSeq + 1
    BY <1>1, <1>5 DEF Records
  <1>7. ASSUME NEW p \in Operations \ {o}
        PROVE  /\ operations'[p].pc = operations[p].pc
               /\ operations'[p].kind = operations[p].kind
               /\ operations'[p].id = operations[p].id
               /\ operations'[p].result = operations[p].result
    BY <1>1, <1>5 DEF Records
  <1> QED
    BY <1>4, <1>6, <1>7 DEF beginLifecycleOperationLocked

-----------------------------------------------------------------------------
(* Every step keeps the invariant.                                         *)

(* A Login is admitted, or turned away because its context is done.        *)
LEMMA LoginStep ==
    ASSUME Inv, NEW o \in Operations, Login(o)
    PROVE  Inv'
  <1>1. CASE operations[o].expired
    <2>1. [operations[o] EXCEPT !.pc = "returned", !.kind = "login", !.result = "cancelled"] \in Records
      BY RecordUpdates DEF Inv, LifecycleTypeOK
    <2>2. operations' \in [Operations -> Records]
      BY <1>1, <2>1 DEF Inv, LifecycleTypeOK, Login
    <2>3. LifecycleTypeOK'
      BY <1>1, <2>2 DEF Inv, LifecycleTypeOK, HeldInside, Records, Login
    <2>4. KindShape'
      BY <1>1, <2>2 DEF Inv, LifecycleTypeOK, KindShape, Records, Login
    <2>5. CurrentShape'
      BY <1>1, <2>2 DEF Inv, LifecycleTypeOK, CurrentShape, Records, Login
    <2>6. SessionShape'
      BY <1>1, <2>2 DEF Inv, LifecycleTypeOK, SessionShape, Records, Login
    <2>7. LogoutSettles'
      BY <1>1, <2>2 DEF Inv, LifecycleTypeOK, SessionShape, KindShape, LogoutSettles, Records,
             Login
    <2> QED
      BY <2>3, <2>4, <2>5, <2>6, <2>7 DEF Inv
  <1>2. CASE ~operations[o].expired
    <2>1. beginLifecycleOperationLocked(o, "login", "flow")
      BY <1>2 DEF Login
    <2>2. LifecycleTypeOK'
      BY <2>1, BeginFacts DEF Inv, LifecycleTypeOK, HeldInside, Login
    <2>3. KindShape'
      BY <2>1, BeginFacts DEF Inv, LifecycleTypeOK, KindShape, Login
    <2>4. CurrentShape'
      BY <2>1, BeginFacts DEF Inv, LifecycleTypeOK, KindShape, CurrentShape, Login, Records
    <2>5. SessionShape'
      BY <2>1, BeginFacts DEF Inv, LifecycleTypeOK, SessionShape, Login
    <2>6. LogoutSettles'
      BY <2>1, BeginFacts DEF Inv, LifecycleTypeOK, KindShape, SessionShape, LogoutSettles,
             Login
    <2> QED
      BY <2>2, <2>3, <2>4, <2>5, <2>6 DEF Inv
  <1> QED
    BY <1>1, <1>2

(* A Logout joins the one under way, or is admitted.                       *)
LEMMA LogoutStep ==
    ASSUME Inv, NEW o \in Operations, Logout(o)
    PROVE  Inv'
  <1>1. CASE lifecycleOperation # NoOperation /\ operations[lifecycleOperation].kind = "logout"
    <2>1. [operations[o] EXCEPT !.pc = "returned", !.kind = "logout",
                                !.id = operations[lifecycleOperation].id, !.result = "ok"]
             \in Records
      <3>1. operations[lifecycleOperation].id \in Nat
        BY <1>1 DEF Inv, LifecycleTypeOK, Records
      <3> QED
        BY <3>1, RecordUpdates DEF Inv, LifecycleTypeOK
    <2>2. operations' \in [Operations -> Records]
      BY <1>1, <2>1 DEF Inv, LifecycleTypeOK, Logout
    <2>3. LifecycleTypeOK'
      BY <1>1, <2>2 DEF Inv, LifecycleTypeOK, HeldInside, Records, Logout
    <2>4. KindShape'
      BY <1>1, <2>2 DEF Inv, LifecycleTypeOK, KindShape, Records, Logout
    <2>5. CurrentShape'
      BY <1>1, <2>2 DEF Inv, LifecycleTypeOK, CurrentShape, Records, Logout
    <2>6. SessionShape'
      BY <1>1, <2>2 DEF Inv, LifecycleTypeOK, SessionShape, Records, Logout
    \* The Logout it joins has cleared the state, or it would hold lifecycleMu.
    <2>7. session = NoOperation
      <3>1. operations[lifecycleOperation].pc \notin {"new", "clear"}
        BY <1>1 DEF Inv, LifecycleTypeOK, HeldInside, CurrentShape, Logout
      <3>2. SUFFICES ASSUME session # NoOperation
                     PROVE  FALSE
        OBVIOUS
      <3>3. operations[session].id > operations[lifecycleOperation].id
        BY <1>1, <3>1, <3>2 DEF Inv, LifecycleTypeOK, LogoutSettles
      <3>4. /\ operations[session].id \in Nat
            /\ operations[session].id <= lifecycleSeq
            /\ operations[lifecycleOperation].id = lifecycleSeq
        BY <1>1, <3>2 DEF Inv, LifecycleTypeOK, CurrentShape, Records
      <3> QED
        BY <3>3, <3>4 DEF Inv, LifecycleTypeOK
    <2>8. LogoutSettles'
      BY <2>7 DEF LogoutSettles, Logout
    <2> QED
      BY <2>3, <2>4, <2>5, <2>6, <2>8 DEF Inv
  <1>2. CASE ~(lifecycleOperation # NoOperation /\ operations[lifecycleOperation].kind = "logout")
    <2>1. beginLifecycleOperationLocked(o, "logout", "clear") /\ lifecycleMu' = o
      BY <1>2 DEF Logout
    <2>2. LifecycleTypeOK'
      BY <2>1, BeginFacts DEF Inv, LifecycleTypeOK, HeldInside, Logout
    <2>3. KindShape'
      BY <2>1, BeginFacts DEF Inv, LifecycleTypeOK, KindShape, Logout
    <2>4. CurrentShape'
      BY <2>1, BeginFacts DEF Inv, LifecycleTypeOK, KindShape, CurrentShape, Logout, Records
    <2>5. SessionShape'
      BY <2>1, BeginFacts DEF Inv, LifecycleTypeOK, SessionShape, Logout
    <2>6. LogoutSettles'
      BY <2>1, BeginFacts DEF Inv, LifecycleTypeOK, KindShape, SessionShape, LogoutSettles,
             Logout
    <2> QED
      BY <2>2, <2>3, <2>4, <2>5, <2>6 DEF Inv
  <1> QED
    BY <1>1, <1>2

(* A context ends.                                                         *)
LEMMA ExpireStep ==
    ASSUME Inv, NEW o \in Operations, Expire(o)
    PROVE  Inv'
  <1>1. operations' \in [Operations -> Records]
    BY RecordUpdates DEF Inv, LifecycleTypeOK, Expire
  <1>2. LifecycleTypeOK'
    BY <1>1 DEF Inv, LifecycleTypeOK, HeldInside, Records, Expire
  <1>3. KindShape'
    BY <1>1 DEF Inv, LifecycleTypeOK, KindShape, Records, Expire
  <1>4. CurrentShape'
    BY <1>1 DEF Inv, LifecycleTypeOK, CurrentShape, Records, Expire
  <1>5. SessionShape'
    BY <1>1 DEF Inv, LifecycleTypeOK, KindShape, SessionShape, Records, Expire
  <1>6. LogoutSettles'
    BY <1>1 DEF Inv, LifecycleTypeOK, KindShape, CurrentShape, SessionShape, LogoutSettles,
           Records, Expire
  <1> QED
    BY <1>2, <1>3, <1>4, <1>5, <1>6 DEF Inv

(* The browser permit is taken.                                            *)
LEMMA AcquirePermitStep ==
    ASSUME Inv, NEW o \in Operations, AcquirePermit(o)
    PROVE  Inv'
  <1>1. operations' \in [Operations -> Records]
    BY MoveType DEF AcquirePermit
  <1>2. LifecycleTypeOK'
    BY <1>1 DEF Inv, LifecycleTypeOK, HeldInside, Records, AcquirePermit
  <1>3. KindShape'
    BY <1>1 DEF Inv, LifecycleTypeOK, KindShape, Records, AcquirePermit
  <1>4. CurrentShape'
    BY <1>1 DEF Inv, LifecycleTypeOK, CurrentShape, Records, AcquirePermit
  <1>5. SessionShape'
    BY <1>1 DEF Inv, LifecycleTypeOK, KindShape, SessionShape, Records, AcquirePermit
  <1>6. LogoutSettles'
    BY <1>1 DEF Inv, LifecycleTypeOK, KindShape, CurrentShape, SessionShape, LogoutSettles,
           Records, AcquirePermit
  <1> QED
    BY <1>2, <1>3, <1>4, <1>5, <1>6 DEF Inv

(* The wait for the permit ends without it.                                *)
LEMMA FlowCancelledStep ==
    ASSUME Inv, NEW o \in Operations, FlowCancelled(o)
    PROVE  Inv'
  <1>1. operations' \in [Operations -> Records]
    BY EndsType DEF FlowCancelled, FlowFailed
  <1>2. LifecycleTypeOK'
    BY <1>1 DEF Inv, LifecycleTypeOK, HeldInside, Records, FlowCancelled, Ends, FlowFailed
  <1>3. KindShape'
    BY <1>1 DEF Inv, LifecycleTypeOK, KindShape, Records, FlowCancelled, Ends, FlowFailed
  <1>4. CurrentShape'
    BY <1>1 DEF Inv, LifecycleTypeOK, CurrentShape, Records, FlowCancelled, Ends, FlowFailed
  <1>5. SessionShape'
    BY <1>1 DEF Inv, LifecycleTypeOK, KindShape, SessionShape, Records, FlowCancelled, Ends,
           FlowFailed
  <1>6. LogoutSettles'
    BY <1>1 DEF Inv, LifecycleTypeOK, KindShape, CurrentShape, SessionShape, LogoutSettles,
           Records, FlowCancelled, Ends, FlowFailed
  <1> QED
    BY <1>2, <1>3, <1>4, <1>5, <1>6 DEF Inv

(* The handler is started, or the permit is given back.                    *)
LEMMA StartFlowStep ==
    ASSUME Inv, NEW o \in Operations, StartFlow(o)
    PROVE  Inv'
  <1>1. operations' \in [Operations -> Records]
    <2>1. CASE operations' = [operations EXCEPT ![o].pc = "browser"]
      BY <2>1, MoveType
    <2>2. CASE Ends(o, FlowFailed(o, "cancelled"))
      BY <2>2, EndsType DEF FlowFailed
    <2> QED
      BY <2>1, <2>2 DEF StartFlow
  <1>2. LifecycleTypeOK'
    BY <1>1 DEF Inv, LifecycleTypeOK, HeldInside, Records, StartFlow, Ends, FlowFailed
  <1>3. KindShape'
    BY <1>1 DEF Inv, LifecycleTypeOK, KindShape, Records, StartFlow, Ends, FlowFailed
  <1>4. CurrentShape'
    BY <1>1 DEF Inv, LifecycleTypeOK, CurrentShape, Records, StartFlow, Ends, FlowFailed
  <1>5. SessionShape'
    BY <1>1 DEF Inv, LifecycleTypeOK, KindShape, SessionShape, Records, StartFlow, Ends,
           FlowFailed
  <1>6. LogoutSettles'
    BY <1>1 DEF Inv, LifecycleTypeOK, KindShape, CurrentShape, SessionShape, LogoutSettles,
           Records, StartFlow, Ends, FlowFailed
  <1> QED
    BY <1>2, <1>3, <1>4, <1>5, <1>6 DEF Inv

(* The handler returns and the permit is given back.                       *)
LEMMA FlowReturnsStep ==
    ASSUME Inv, NEW o \in Operations, FlowReturns(o)
    PROVE  Inv'
  <1>1. operations' \in [Operations -> Records]
    <2>1. CASE operations' = [operations EXCEPT
                  ![o].pc = IF operations[o].kind = "login" THEN "exchange" ELSE "done",
                  ![o].result = FlowFailed(o, "none")]
      <3>1. [operations[o] EXCEPT
                !.pc = IF operations[o].kind = "login" THEN "exchange" ELSE "done",
                !.result = FlowFailed(o, "none")] \in Records
        BY RecordUpdates DEF Inv, LifecycleTypeOK, FlowFailed
      <3> QED
        BY <2>1, <3>1 DEF Inv, LifecycleTypeOK
    <2>2. ASSUME NEW result \in {"failed", "cancelled"}, Ends(o, FlowFailed(o, result))
          PROVE  operations' \in [Operations -> Records]
      BY <2>2, EndsType DEF FlowFailed
    <2> QED
      BY <2>1, <2>2 DEF FlowReturns
  <1>2. LifecycleTypeOK'
    BY <1>1 DEF Inv, LifecycleTypeOK, HeldInside, Records, FlowReturns, Ends, FlowFailed
  <1>3. KindShape'
    BY <1>1 DEF Inv, LifecycleTypeOK, KindShape, Records, FlowReturns, Ends, FlowFailed
  <1>4. CurrentShape'
    BY <1>1 DEF Inv, LifecycleTypeOK, CurrentShape, Records, FlowReturns, Ends, FlowFailed
  <1>5. SessionShape'
    BY <1>1 DEF Inv, LifecycleTypeOK, KindShape, SessionShape, Records, FlowReturns, Ends,
           FlowFailed
  <1>6. LogoutSettles'
    BY <1>1 DEF Inv, LifecycleTypeOK, KindShape, CurrentShape, SessionShape, LogoutSettles,
           Records, FlowReturns, Ends, FlowFailed
  <1> QED
    BY <1>2, <1>3, <1>4, <1>5, <1>6 DEF Inv

(* The code was exchanged, or the Login failed.                            *)
LEMMA ExchangeStep ==
    ASSUME Inv, NEW o \in Operations, Exchange(o)
    PROVE  Inv'
  <1>1. operations' \in [Operations -> Records]
    <2>1. CASE operations' = [operations EXCEPT ![o].pc = "commit"]
      BY <2>1, MoveType
    <2>2. ASSUME NEW result \in {"failed", "cancelled"}, Ends(o, result)
          PROVE  operations' \in [Operations -> Records]
      BY <2>2, EndsType
    <2> QED
      BY <2>1, <2>2 DEF Exchange
  <1>2. LifecycleTypeOK'
    BY <1>1 DEF Inv, LifecycleTypeOK, HeldInside, Records, Exchange, Ends
  <1>3. KindShape'
    BY <1>1 DEF Inv, LifecycleTypeOK, KindShape, Records, Exchange, Ends
  <1>4. CurrentShape'
    BY <1>1 DEF Inv, LifecycleTypeOK, CurrentShape, Records, Exchange, Ends
  <1>5. SessionShape'
    BY <1>1 DEF Inv, LifecycleTypeOK, KindShape, SessionShape, Records, Exchange, Ends
  <1>6. LogoutSettles'
    BY <1>1 DEF Inv, LifecycleTypeOK, KindShape, CurrentShape, SessionShape, LogoutSettles,
           Records, Exchange, Ends
  <1> QED
    BY <1>2, <1>3, <1>4, <1>5, <1>6 DEF Inv

(* A Login takes lifecycleMu to commit.                                    *)
LEMMA CommitLockStep ==
    ASSUME Inv, NEW o \in Operations, CommitLock(o)
    PROVE  Inv'
  <1>1. operations' \in [Operations -> Records]
    <2>1. CASE operations' = [operations EXCEPT ![o].pc = "locked"]
      BY <2>1, MoveType
    <2>2. CASE Ends(o, "cancelled")
      BY <2>2, EndsType
    <2> QED
      BY <2>1, <2>2 DEF CommitLock
  <1>2. LifecycleTypeOK'
    BY <1>1 DEF Inv, LifecycleTypeOK, HeldInside, Records, CommitLock, Ends
  <1>3. KindShape'
    BY <1>1 DEF Inv, LifecycleTypeOK, KindShape, Records, CommitLock, Ends
  <1>4. CurrentShape'
    BY <1>1 DEF Inv, LifecycleTypeOK, CurrentShape, Records, CommitLock, Ends
  <1>5. SessionShape'
    BY <1>1 DEF Inv, LifecycleTypeOK, KindShape, SessionShape, Records, CommitLock, Ends
  <1>6. LogoutSettles'
    BY <1>1 DEF Inv, LifecycleTypeOK, KindShape, CurrentShape, SessionShape, LogoutSettles,
           Records, CommitLock, Ends
  <1> QED
    BY <1>2, <1>3, <1>4, <1>5, <1>6 DEF Inv

(* A Login commits: it is current, so every Logout was admitted before it. *)
LEMMA CommitLoginStep ==
    ASSUME Inv, NEW o \in Operations, CommitLogin(o)
    PROVE  Inv'
  <1>1. operations' \in [Operations -> Records]
    <2>1. CASE Ends(o, "ok")
      BY <2>1, EndsType
    <2>2. CASE Ends(o, "cancelled")
      BY <2>2, EndsType
    <2> QED
      BY <2>1, <2>2 DEF CommitLogin
  <1>2. LifecycleTypeOK'
    BY <1>1 DEF Inv, LifecycleTypeOK, HeldInside, Records, CommitLogin, Ends,
           lifecycleOperationCurrentLocked
  <1>3. KindShape'
    BY <1>1 DEF Inv, LifecycleTypeOK, KindShape, Records, CommitLogin, Ends,
           lifecycleOperationCurrentLocked
  <1>4. CurrentShape'
    BY <1>1 DEF Inv, LifecycleTypeOK, CurrentShape, Records, CommitLogin, Ends,
           lifecycleOperationCurrentLocked
  <1>5. SessionShape'
    BY <1>1 DEF Inv, LifecycleTypeOK, KindShape, SessionShape, Records, CommitLogin, Ends,
           lifecycleOperationCurrentLocked
  <1>6. LogoutSettles'
    BY <1>1 DEF Inv, LifecycleTypeOK, KindShape, CurrentShape, SessionShape, LogoutSettles,
           Records, CommitLogin, Ends, lifecycleOperationCurrentLocked
  <1> QED
    BY <1>2, <1>3, <1>4, <1>5, <1>6 DEF Inv

(* A Logout empties the session.                                           *)
LEMMA ClearStateStep ==
    ASSUME Inv, NEW o \in Operations, ClearState(o)
    PROVE  Inv'
  <1>1. operations' \in [Operations -> Records]
    BY RecordUpdates DEF Inv, LifecycleTypeOK, ClearState
  <1>2. LifecycleTypeOK'
    BY <1>1 DEF Inv, LifecycleTypeOK, HeldInside, Records, ClearState
  <1>3. KindShape'
    BY <1>1 DEF Inv, LifecycleTypeOK, KindShape, Records, ClearState
  <1>4. CurrentShape'
    BY <1>1 DEF Inv, LifecycleTypeOK, CurrentShape, Records, ClearState
  <1>5. SessionShape'
    BY <1>1 DEF Inv, LifecycleTypeOK, KindShape, SessionShape, Records, ClearState
  <1>6. LogoutSettles'
    BY <1>1 DEF Inv, LifecycleTypeOK, KindShape, CurrentShape, SessionShape, LogoutSettles,
           Records, ClearState
  <1> QED
    BY <1>2, <1>3, <1>4, <1>5, <1>6 DEF Inv

(* A Logout decides whether to revoke.                                     *)
LEMMA RevokeDecidesStep ==
    ASSUME Inv, NEW o \in Operations, RevokeDecides(o)
    PROVE  Inv'
  <1>1. operations' \in [Operations -> Records]
    <2>1. CASE operations' = [operations EXCEPT ![o].pc = "revoking"]
      BY <2>1, MoveType
    <2>2. CASE operations' = [operations EXCEPT ![o].pc = "rplogout"]
      BY <2>2, MoveType
    <2> QED
      BY <2>1, <2>2 DEF RevokeDecides
  <1>2. LifecycleTypeOK'
    BY <1>1 DEF Inv, LifecycleTypeOK, HeldInside, Records, RevokeDecides
  <1>3. KindShape'
    BY <1>1 DEF Inv, LifecycleTypeOK, KindShape, Records, RevokeDecides
  <1>4. CurrentShape'
    BY <1>1 DEF Inv, LifecycleTypeOK, CurrentShape, Records, RevokeDecides
  <1>5. SessionShape'
    BY <1>1 DEF Inv, LifecycleTypeOK, KindShape, SessionShape, Records, RevokeDecides
  <1>6. LogoutSettles'
    BY <1>1 DEF Inv, LifecycleTypeOK, KindShape, CurrentShape, SessionShape, LogoutSettles,
           Records, RevokeDecides
  <1> QED
    BY <1>2, <1>3, <1>4, <1>5, <1>6 DEF Inv

(* The revocation request is over.                                         *)
LEMMA RevokeReturnsStep ==
    ASSUME Inv, NEW o \in Operations, RevokeReturns(o)
    PROVE  Inv'
  <1>1. operations' \in [Operations -> Records]
    BY MoveType DEF RevokeReturns
  <1>2. LifecycleTypeOK'
    BY <1>1 DEF Inv, LifecycleTypeOK, HeldInside, Records, RevokeReturns
  <1>3. KindShape'
    BY <1>1 DEF Inv, LifecycleTypeOK, KindShape, Records, RevokeReturns
  <1>4. CurrentShape'
    BY <1>1 DEF Inv, LifecycleTypeOK, CurrentShape, Records, RevokeReturns
  <1>5. SessionShape'
    BY <1>1 DEF Inv, LifecycleTypeOK, KindShape, SessionShape, Records, RevokeReturns
  <1>6. LogoutSettles'
    BY <1>1 DEF Inv, LifecycleTypeOK, KindShape, CurrentShape, SessionShape, LogoutSettles,
           Records, RevokeReturns
  <1> QED
    BY <1>2, <1>3, <1>4, <1>5, <1>6 DEF Inv

(* A Logout goes to the browser or ends.                                   *)
LEMMA RPLogoutStep ==
    ASSUME Inv, NEW o \in Operations, RPLogout(o)
    PROVE  Inv'
  <1>1. operations' \in [Operations -> Records]
    <2>1. CASE operations' = [operations EXCEPT ![o].pc = "flow"]
      BY <2>1, MoveType
    <2>2. CASE Ends(o, "ok")
      BY <2>2, EndsType
    <2> QED
      BY <2>1, <2>2 DEF RPLogout
  <1>2. LifecycleTypeOK'
    BY <1>1 DEF Inv, LifecycleTypeOK, HeldInside, Records, RPLogout, Ends
  <1>3. KindShape'
    BY <1>1 DEF Inv, LifecycleTypeOK, KindShape, Records, RPLogout, Ends
  <1>4. CurrentShape'
    BY <1>1 DEF Inv, LifecycleTypeOK, CurrentShape, Records, RPLogout, Ends
  <1>5. SessionShape'
    BY <1>1 DEF Inv, LifecycleTypeOK, KindShape, SessionShape, Records, RPLogout, Ends
  <1>6. LogoutSettles'
    BY <1>1 DEF Inv, LifecycleTypeOK, KindShape, CurrentShape, SessionShape, LogoutSettles,
           Records, RPLogout, Ends
  <1> QED
    BY <1>2, <1>3, <1>4, <1>5, <1>6 DEF Inv

(* An operation returns and is no longer the current one.                  *)
LEMMA finishLifecycleOperationStep ==
    ASSUME Inv, NEW o \in Operations, finishLifecycleOperation(o)
    PROVE  Inv'
  <1>1. operations' \in [Operations -> Records]
    BY RecordUpdates DEF Inv, LifecycleTypeOK, finishLifecycleOperation
  <1>2. LifecycleTypeOK'
    BY <1>1 DEF Inv, LifecycleTypeOK, HeldInside, Records, finishLifecycleOperation
  <1>3. KindShape'
    BY <1>1 DEF Inv, LifecycleTypeOK, KindShape, Records, finishLifecycleOperation
  <1>4. CurrentShape'
    BY <1>1 DEF Inv, LifecycleTypeOK, CurrentShape, Records, finishLifecycleOperation
  <1>5. SessionShape'
    BY <1>1 DEF Inv, LifecycleTypeOK, KindShape, SessionShape, Records, finishLifecycleOperation
  <1>6. LogoutSettles'
    BY <1>1 DEF Inv, LifecycleTypeOK, KindShape, CurrentShape, SessionShape, LogoutSettles,
           Records, finishLifecycleOperation
  <1> QED
    BY <1>2, <1>3, <1>4, <1>5, <1>6 DEF Inv

(* Every step of the specification, and stuttering, keeps the invariant.   *)
LEMMA NextInv ==
    ASSUME Inv, [LifecycleNext]_lifecycleVars
    PROVE  Inv'
  <1>1. CASE UNCHANGED lifecycleVars
    BY <1>1 DEF lifecycleVars, Inv, LifecycleTypeOK, HeldInside, KindShape, CurrentShape,
                SessionShape, LogoutSettles
  <1>2. CASE OtherCommit
    BY <1>2 DEF OtherCommit, Inv, LifecycleTypeOK, HeldInside, KindShape, CurrentShape,
                SessionShape, LogoutSettles
  <1>3. ASSUME NEW o \in Operations,
               Login(o) \/ Logout(o) \/ Expire(o) \/ FlowReturns(o) \/ OperationNext(o)
        PROVE  Inv'
    BY <1>3, LoginStep, LogoutStep, ExpireStep, AcquirePermitStep, FlowCancelledStep,
       StartFlowStep, FlowReturnsStep, ExchangeStep, CommitLockStep, CommitLoginStep,
       ClearStateStep, RevokeDecidesStep, RevokeReturnsStep, RPLogoutStep,
       finishLifecycleOperationStep DEF OperationNext
  <1> QED
    BY <1>1, <1>2, <1>3 DEF LifecycleNext

(* Inv is an invariant of the specification.                               *)
LEMMA Invariant == LifecycleSpec => []Inv
  BY InitInv, NextInv, PTL DEF LifecycleSpec

-----------------------------------------------------------------------------
(* The theorems.                                                           *)

(* Whatever the number of concurrent Logins and Logouts, the lifecycle     *)
(* state is well typed, and lifecycleMu and the browser permit are held    *)
(* exactly by the operation inside the section they guard.                 *)
THEOREM LifecycleTypeCorrect == LifecycleSpec => []LifecycleTypeOK
  BY Invariant, PTL DEF Inv

(* Once a Logout has cleared the state, no Login admitted before it puts   *)
(* tokens back, and a Logout that joined it returns to an empty session.   *)
THEOREM LogoutsSettle == LifecycleSpec => []LogoutSettles
  BY Invariant, PTL DEF Inv

(* A Login that reports cancellation has committed nothing.                *)
THEOREM CancelledLoginsLeaveNothing == LifecycleSpec => []CancelledLeavesNothing
  <1>1. Inv => CancelledLeavesNothing
    BY DEF Inv, SessionShape, CancelledLeavesNothing
  <1> QED
    BY <1>1, Invariant, PTL

(* At most one operation is at the browser handler.                        *)
THEOREM OneBrowserAtATime == LifecycleSpec => []OneBrowser
  <1>1. Inv => OneBrowser
    BY DEF Inv, LifecycleTypeOK, HeldInside, OneBrowser
  <1> QED
    BY <1>1, Invariant, PTL

(* Tokens enter memory only from the operation admitted last.              *)
THEOREM OnlyLatestCommits == LifecycleSpec => LatestCommits
  <1>1. Inv /\ [LifecycleNext]_lifecycleVars =>
           [session' \notin {session, NoOperation} =>
                operations[session'].id = lifecycleSeq]_lifecycleVars
    <2> SUFFICES ASSUME Inv, LifecycleNext, session' \notin {session, NoOperation}
                 PROVE  operations[session'].id = lifecycleSeq
      BY DEF lifecycleVars
    <2>1. PICK o \in Operations : CommitLogin(o)
      BY DEF LifecycleNext, OperationNext, OtherCommit, Login, Logout, Expire, AcquirePermit,
             FlowCancelled, StartFlow, FlowReturns, Exchange, CommitLock, ClearState,
             RevokeDecides, RevokeReturns, RPLogout, finishLifecycleOperation
    <2>2. session' = o /\ lifecycleOperation = o
      BY <2>1 DEF CommitLogin, lifecycleOperationCurrentLocked
    <2> QED
      BY <2>2 DEF Inv, LifecycleTypeOK, CurrentShape
  <1> QED
    BY <1>1, Invariant, PTL DEF LifecycleSpec, LatestCommits
=============================================================================
