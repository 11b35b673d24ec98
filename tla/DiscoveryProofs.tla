-------------------------- MODULE DiscoveryProofs --------------------------
(***************************************************************************)
(* Proofs about Discovery for every set of Init calls and every set of     *)
(* endpoints a provider may advertise.                                     *)
(***************************************************************************)
EXTENDS Discovery, TLAPS

-----------------------------------------------------------------------------
(* The inductive invariant.                                                *)

\* The current call is the one admitted last.
CurrentIsLatest ==
    /\ \A o \in Inits : inits[o].id <= initSeq
    /\ initOperation # NoInit => inits[initOperation].id = initSeq

\* The endpoint that the current call read is still the committed one: only a
\* current call commits, and a call that begins later makes this one obsolete.
PreviousIsFresh ==
    initOperation # NoInit /\ inits[initOperation].pc = "commit" =>
        inits[initOperation].previous = endSessionEndpoint

Inv ==
    /\ DiscoveryTypeOK
    /\ CurrentIsLatest
    /\ PreviousIsFresh
    /\ LoopSeesDiscovery

-----------------------------------------------------------------------------
(* Lemmas.                                                                 *)

USE DiscoveryAssumption

(* Nothing has been discovered yet.                                        *)
LEMMA InitInv == DiscoveryInit => Inv
  BY DEF DiscoveryInit, NewInit, Inv, DiscoveryTypeOK, Records, ClaimValues, CurrentIsLatest,
         PreviousIsFresh, LoopSeesDiscovery

(* The updates of a call's record keep it well formed.                     *)
LEMMA RecordUpdates ==
    ASSUME NEW r \in Records
    PROVE  /\ [r EXCEPT !.cancelled = TRUE] \in Records
           /\ [r EXCEPT !.expired = TRUE] \in Records
           /\ [r EXCEPT !.pc = "returned", !.cancelled = TRUE] \in Records
           /\ [r EXCEPT !.pc = "returned", !.result = "cancelled"] \in Records
           /\ [r EXCEPT !.pc = "failing"] \in Records
           /\ \A id \in Nat : [r EXCEPT !.pc = "discover", !.id = id] \in Records
           /\ \A claim \in ClaimValues : [r EXCEPT !.pc = "endpoints", !.claim = claim] \in Records
           /\ \A e \in Endpoints \cup {NoEndpoint} :
                 [r EXCEPT !.pc = "commit", !.previous = e] \in Records
           /\ \A result \in {"ok", "failed", "cancelled"} :
                 [r EXCEPT !.pc = "done", !.result = result] \in Records
  BY Zenon DEF Records

(* What commitInit writes is an endpoint, or none.                         *)
LEMMA DiscoveredType ==
    ASSUME NEW claim \in ClaimValues, NEW previous \in Endpoints \cup {NoEndpoint}
    PROVE  discoveredEndpoint(claim, previous) \in Endpoints \cup {NoEndpoint}
  BY DEF discoveredEndpoint, ClaimValues

(* An unreadable claim keeps the endpoint that was read.                   *)
LEMMA MalformedIsPrevious ==
    ASSUME NEW previous
    PROVE  discoveredEndpoint("malformed", previous) = previous
  BY DEF discoveredEndpoint

(* A call that ends with a result stays well formed.                       *)
LEMMA DoneType ==
    ASSUME Inv, NEW o \in Inits, NEW result \in {"ok", "failed", "cancelled"},
           inits' = [inits EXCEPT ![o].pc = "done", ![o].result = result]
    PROVE  inits' \in [Inits -> Records]
  BY RecordUpdates DEF Inv, DiscoveryTypeOK

-----------------------------------------------------------------------------
(* Every step keeps the invariant.                                         *)

(* A call is turned away, or is admitted and supersedes the current one.   *)
LEMMA beginInitOperationStep ==
    ASSUME Inv, NEW o \in Inits, beginInitOperation(o)
    PROVE  Inv'
  <1>1. CASE inits[o].expired
    <2>1. [inits[o] EXCEPT !.pc = "returned", !.result = "cancelled"] \in Records
      BY RecordUpdates DEF Inv, DiscoveryTypeOK
    <2>2. inits' \in [Inits -> Records]
      BY <1>1, <2>1 DEF Inv, DiscoveryTypeOK, beginInitOperation
    <2> QED
      BY <1>1, <2>2 DEF Inv, DiscoveryTypeOK, Records, CurrentIsLatest, PreviousIsFresh,
                        LoopSeesDiscovery, beginInitOperation
  <1>2. CASE ~inits[o].expired
    <2>1. initSeq + 1 \in Nat /\ initOperation # o
      BY DEF Inv, DiscoveryTypeOK, beginInitOperation
    <2>2. [inits[o] EXCEPT !.pc = "discover", !.id = initSeq + 1] \in Records
      BY <2>1, RecordUpdates DEF Inv, DiscoveryTypeOK
    <2>3. \A p \in Inits : inits[p] \in Records /\ [inits[p] EXCEPT !.cancelled = TRUE] \in Records
      BY RecordUpdates DEF Inv, DiscoveryTypeOK
    <2>4. /\ inits'[o] = [inits[o] EXCEPT !.pc = "discover", !.id = initSeq + 1]
          /\ \A p \in Inits \ {o} : inits'[p] \in {inits[p], [inits[p] EXCEPT !.cancelled = TRUE]}
          /\ inits' = [p \in Inits |-> inits'[p]]
      BY <1>2, <2>1 DEF beginInitOperation
    <2>5. inits' \in [Inits -> Records]
      BY <2>2, <2>3, <2>4
    <2>6. /\ inits'[o].pc = "discover"
          /\ inits'[o].id = initSeq + 1
          /\ \A p \in Inits \ {o} : inits'[p].id = inits[p].id
      BY <2>4 DEF Inv, DiscoveryTypeOK, Records
    <2> QED
      BY <1>2, <2>5, <2>6 DEF Inv, DiscoveryTypeOK, Records, CurrentIsLatest, PreviousIsFresh,
                              LoopSeesDiscovery, beginInitOperation
  <1> QED
    BY <1>1, <1>2

(* The caller gives up.                                                    *)
LEMMA ExpireStep ==
    ASSUME Inv, NEW o \in Inits, Expire(o)
    PROVE  Inv'
  <1>1. inits' \in [Inits -> Records]
    BY RecordUpdates DEF Inv, DiscoveryTypeOK, Expire
  <1>2. DiscoveryTypeOK'
    BY <1>1 DEF Inv, DiscoveryTypeOK, Records, Expire
  <1>3. CurrentIsLatest'
    BY <1>1 DEF Inv, DiscoveryTypeOK, Records, CurrentIsLatest, Expire
  <1>4. PreviousIsFresh'
    BY <1>1 DEF Inv, DiscoveryTypeOK, Records, PreviousIsFresh, Expire
  <1>5. LoopSeesDiscovery'
    BY DEF Inv, LoopSeesDiscovery, Expire
  <1> QED
    BY <1>2, <1>3, <1>4, <1>5 DEF Inv

(* The document arrives, or discovery fails.                               *)
LEMMA NewProviderStep ==
    ASSUME Inv, NEW o \in Inits, NewProvider(o)
    PROVE  Inv'
  <1>1. inits' \in [Inits -> Records]
    <2>1. ASSUME NEW claim \in ClaimValues,
                 inits' = [inits EXCEPT ![o].pc = "endpoints", ![o].claim = claim]
          PROVE  inits' \in [Inits -> Records]
      BY <2>1, RecordUpdates DEF Inv, DiscoveryTypeOK
    <2>2. CASE inits' = [inits EXCEPT ![o].pc = "failing"]
      BY <2>2, RecordUpdates DEF Inv, DiscoveryTypeOK
    <2> QED
      BY <2>1, <2>2 DEF NewProvider
  <1>2. DiscoveryTypeOK'
    BY <1>1 DEF Inv, DiscoveryTypeOK, Records, NewProvider
  <1>3. CurrentIsLatest'
    BY <1>1 DEF Inv, DiscoveryTypeOK, Records, CurrentIsLatest, NewProvider
  <1>4. PreviousIsFresh'
    BY <1>1 DEF Inv, DiscoveryTypeOK, Records, PreviousIsFresh, NewProvider
  <1>5. LoopSeesDiscovery'
    BY DEF Inv, LoopSeesDiscovery, NewProvider
  <1> QED
    BY <1>2, <1>3, <1>4, <1>5 DEF Inv

(* The committed endpoint is read, and is fresh.                           *)
LEMMA ReadPreviousStep ==
    ASSUME Inv, NEW o \in Inits, ReadPrevious(o)
    PROVE  Inv'
  <1>1. inits' \in [Inits -> Records]
    BY RecordUpdates DEF Inv, DiscoveryTypeOK, ReadPrevious
  <1>2. DiscoveryTypeOK'
    BY <1>1 DEF Inv, DiscoveryTypeOK, Records, ReadPrevious
  <1>3. CurrentIsLatest'
    BY <1>1 DEF Inv, DiscoveryTypeOK, Records, CurrentIsLatest, ReadPrevious
  <1>4. PreviousIsFresh'
    BY <1>1 DEF Inv, DiscoveryTypeOK, Records, PreviousIsFresh, ReadPrevious
  <1>5. LoopSeesDiscovery'
    BY DEF Inv, LoopSeesDiscovery, ReadPrevious
  <1> QED
    BY <1>2, <1>3, <1>4, <1>5 DEF Inv

(* The current call commits and wakes the loop.                            *)
LEMMA commitInitStep ==
    ASSUME Inv, NEW o \in Inits, commitInit(o)
    PROVE  Inv'
  <1>1. inits' \in [Inits -> Records]
    BY DoneType DEF commitInit
  <1>2. DiscoveryTypeOK'
    BY <1>1, DiscoveredType DEF Inv, DiscoveryTypeOK, Records, commitInit,
           initOperationCurrentLocked
  <1>3. CurrentIsLatest'
    BY <1>1 DEF Inv, DiscoveryTypeOK, Records, CurrentIsLatest, commitInit,
           initOperationCurrentLocked
  <1>4. PreviousIsFresh'
    BY <1>1 DEF Inv, DiscoveryTypeOK, Records, PreviousIsFresh, commitInit,
           initOperationCurrentLocked
  <1>5. LoopSeesDiscovery'
    BY DEF Inv, LoopSeesDiscovery, commitInit, initOperationCurrentLocked
  <1> QED
    BY <1>2, <1>3, <1>4, <1>5 DEF Inv

(* A failure is announced by the current call only.                        *)
LEMMA completeInitFailureStep ==
    ASSUME Inv, NEW o \in Inits, completeInitFailure(o)
    PROVE  Inv'
  <1>1. inits' \in [Inits -> Records]
    BY DoneType DEF completeInitFailure
  <1>2. DiscoveryTypeOK'
    BY <1>1 DEF Inv, DiscoveryTypeOK, Records, completeInitFailure, initOperationCurrentLocked
  <1>3. CurrentIsLatest'
    BY <1>1 DEF Inv, DiscoveryTypeOK, Records, CurrentIsLatest, completeInitFailure,
           initOperationCurrentLocked
  <1>4. PreviousIsFresh'
    BY <1>1 DEF Inv, DiscoveryTypeOK, Records, PreviousIsFresh, completeInitFailure,
           initOperationCurrentLocked
  <1>5. LoopSeesDiscovery'
    BY DEF Inv, LoopSeesDiscovery, completeInitFailure, initOperationCurrentLocked
  <1> QED
    BY <1>2, <1>3, <1>4, <1>5 DEF Inv

(* A call returns and is no longer the current one.                        *)
LEMMA finishInitOperationStep ==
    ASSUME Inv, NEW o \in Inits, finishInitOperation(o)
    PROVE  Inv'
  <1>1. inits' \in [Inits -> Records]
    BY RecordUpdates DEF Inv, DiscoveryTypeOK, finishInitOperation
  <1>2. DiscoveryTypeOK'
    BY <1>1 DEF Inv, DiscoveryTypeOK, Records, finishInitOperation
  <1>3. CurrentIsLatest'
    BY <1>1 DEF Inv, DiscoveryTypeOK, Records, CurrentIsLatest, finishInitOperation
  <1>4. PreviousIsFresh'
    BY <1>1 DEF Inv, DiscoveryTypeOK, Records, PreviousIsFresh, finishInitOperation
  <1>5. LoopSeesDiscovery'
    BY DEF Inv, LoopSeesDiscovery, finishInitOperation
  <1> QED
    BY <1>2, <1>3, <1>4, <1>5 DEF Inv

(* Every step of the specification, and stuttering, keeps the invariant.   *)
LEMMA NextInv ==
    ASSUME Inv, [DiscoveryNext]_discoveryVars
    PROVE  Inv'
  <1>1. CASE UNCHANGED discoveryVars
    BY <1>1 DEF discoveryVars, Inv, DiscoveryTypeOK, CurrentIsLatest, PreviousIsFresh,
                LoopSeesDiscovery
  <1>2. CASE LoopLooks
    BY <1>2 DEF LoopLooks, Inv, DiscoveryTypeOK, CurrentIsLatest, PreviousIsFresh,
                LoopSeesDiscovery
  <1> QED
    BY <1>1, <1>2, beginInitOperationStep, ExpireStep, NewProviderStep, ReadPreviousStep,
       commitInitStep, completeInitFailureStep, finishInitOperationStep DEF DiscoveryNext

(* Inv is an invariant of the specification.                               *)
LEMMA Invariant == DiscoverySpec => []Inv
  BY InitInv, NextInv, PTL DEF DiscoverySpec

-----------------------------------------------------------------------------
(* The theorems.                                                           *)

(* Whatever the number of concurrent Init calls, the discovery state is    *)
(* well typed, and the current call is one that has not returned.          *)
THEOREM DiscoveryTypeCorrect == DiscoverySpec => []DiscoveryTypeOK
  BY Invariant, PTL DEF Inv

(* The refresh loop never stays parked for lack of configuration once a    *)
(* discovery has been committed: commitInit wakes it under the same lock.  *)
THEOREM LoopWakes == DiscoverySpec => []LoopSeesDiscovery
  BY Invariant, PTL DEF Inv

(* Only the call admitted last replaces the configuration or announces a   *)
(* failure.                                                                *)
THEOREM OnlyLatestInitDecides == DiscoverySpec => LatestInitDecides
  <1>1. ASSUME Inv, DiscoveryNext, NEW o \in Inits,
               \/ provider' = o /\ provider # o
               \/ o \in initFailed' \ initFailed
        PROVE  inits[o].id = initSeq
    <2>1. \E p \in Inits : commitInit(p) \/ completeInitFailure(p)
      BY <1>1 DEF DiscoveryNext, beginInitOperation, Expire, NewProvider, ReadPrevious,
                  finishInitOperation, LoopLooks
    <2>2. initOperation = o
      BY <1>1, <2>1 DEF commitInit, completeInitFailure, initOperationCurrentLocked
    <2> QED
      BY <1>1, <2>2 DEF Inv, CurrentIsLatest
  <1>2. Inv /\ [DiscoveryNext]_discoveryVars =>
           [\A o \in Inits :
                \/ provider' = o /\ provider # o
                \/ o \in initFailed' \ initFailed
                => inits[o].id = initSeq]_discoveryVars
    BY <1>1
  <1> QED
    BY <1>2, Invariant, PTL DEF DiscoverySpec, LatestInitDecides

(* A document with an unreadable endpoint leaves the committed endpoint as *)
(* it is, although Init read it earlier without the lock.                  *)
THEOREM MalformedDocumentKeepsEndpoint == DiscoverySpec => MalformedKeepsEndpoint
  <1>1. ASSUME Inv, DiscoveryNext, NEW o \in Inits,
               provider' = o /\ provider # o /\ inits[o].claim = "malformed"
        PROVE  UNCHANGED endSessionEndpoint
    <2>1. \E p \in Inits : commitInit(p)
      BY <1>1 DEF DiscoveryNext, beginInitOperation, Expire, NewProvider, ReadPrevious,
                  completeInitFailure, finishInitOperation, LoopLooks
    <2>2. /\ initOperation = o
          /\ inits[o].pc = "commit"
          /\ endSessionEndpoint' = discoveredEndpoint("malformed", inits[o].previous)
      BY <1>1, <2>1 DEF commitInit, initOperationCurrentLocked
    <2>3. inits[o].previous = endSessionEndpoint
      BY <1>1, <2>2 DEF Inv, PreviousIsFresh
    <2> QED
      BY <2>2, <2>3, MalformedIsPrevious
  <1>2. Inv /\ [DiscoveryNext]_discoveryVars =>
           [\A o \in Inits : provider' = o /\ provider # o /\ inits[o].claim = "malformed"
                            => UNCHANGED endSessionEndpoint]_discoveryVars
    BY <1>1 DEF discoveryVars
  <1> QED
    BY <1>2, Invariant, PTL DEF DiscoverySpec, MalformedKeepsEndpoint
=============================================================================
