------------------------------ MODULE EventBus ------------------------------
(***************************************************************************)
(* DeferredEventBus (eventbus/deferred.go): events are buffered until a    *)
(* target is set, then flushed, then sent directly.  mu guards target and  *)
(* buffered for single steps; sendMu is held across calls of the target.   *)
(***************************************************************************)
EXTENDS Naturals, Sequences, FiniteSets, SequencesExt

CONSTANTS
    Emits,    \* the calls of Emit, each with its own event
    Targets,  \* the calls of SetTarget, each with its own target
    Nobody

ASSUME EventBusAssumption ==
    /\ Emits \cap Targets = {}
    /\ Nobody \notin Emits \cup Targets

VARIABLES
    target,    \* the target set last
    buffered,
    sendMu,    \* who holds it
    emits,     \* "new", "sending" to the target it read, "sent", "returned"
    setters,   \* "new", "locked", "flushing", "returned"
    flush,     \* what each SetTarget has yet to flush
    delivered, \* what reached some target, in this order
    earlier    \* for each Emit, those that had returned when it was called

busVars == <<target, buffered, sendMu, emits, setters, flush, delivered, earlier>>

\* The types, and that an event is in one place only.
BusTypeOK ==
    /\ target \in Targets \cup {Nobody}
    /\ buffered \in Seq(Emits)
    /\ sendMu \in Emits \cup Targets \cup {Nobody}
    /\ emits \in [Emits -> {"new", "sending", "sent", "returned"}]
    /\ setters \in [Targets -> {"new", "locked", "flushing", "returned"}]
    /\ flush \in [Targets -> Seq(Emits)]
    /\ delivered \in Seq(Emits)
    /\ earlier \in [Emits -> SUBSET Emits]
    /\ IsInjective(delivered) /\ IsInjective(buffered)
    /\ ToSet(delivered) \cap ToSet(buffered) = {}

BusInit ==
    /\ target = Nobody
    /\ buffered = << >>
    /\ sendMu = Nobody
    /\ emits = [e \in Emits |-> "new"]
    /\ setters = [t \in Targets |-> "new"]
    /\ flush = [t \in Targets |-> << >>]
    /\ delivered = << >>
    /\ earlier = [e \in Emits |-> {}]

-----------------------------------------------------------------------------

\* Emit under mu: it buffers, or remembers the target, which may be replaced
\* before it sends; which target an event reaches is left out.
Emit(e) ==
    /\ emits[e] = "new"
    /\ earlier' = [earlier EXCEPT ![e] = {d \in Emits : emits[d] = "returned"}]
    /\ IF target = Nobody
       THEN /\ buffered' = Append(buffered, e)
            /\ emits' = [emits EXCEPT ![e] = "returned"]
       ELSE /\ emits' = [emits EXCEPT ![e] = "sending"]
            /\ UNCHANGED buffered
    /\ UNCHANGED <<target, sendMu, setters, flush, delivered>>

\* Emit takes sendMu and calls the target, whose Emit returns in a later step.
Send(e) ==
    /\ emits[e] = "sending"
    /\ sendMu = Nobody
    /\ sendMu' = e
    /\ delivered' = Append(delivered, e)
    /\ emits' = [emits EXCEPT ![e] = "sent"]
    /\ UNCHANGED <<target, buffered, setters, flush, earlier>>

SendReturns(e) ==
    /\ emits[e] = "sent"
    /\ sendMu' = Nobody
    /\ emits' = [emits EXCEPT ![e] = "returned"]
    /\ UNCHANGED <<target, buffered, setters, flush, delivered, earlier>>

\* Bug: SetTarget does not hold sendMu while it flushes.
Bug_SetTarget(t) ==
    /\ setters[t] = "new"
    /\ setters' = [setters EXCEPT ![t] = "locked"]
    /\ UNCHANGED <<target, buffered, sendMu, emits, flush, delivered, earlier>>

SetTarget(t) ==
    /\ setters[t] = "new"
    /\ sendMu = Nobody
    /\ sendMu' = t
    /\ setters' = [setters EXCEPT ![t] = "locked"]
    /\ UNCHANGED <<target, buffered, emits, flush, delivered, earlier>>

\* SetTarget under mu.
TakeBuffer(t) ==
    /\ setters[t] = "locked"
    /\ target' = t
    /\ flush' = [flush EXCEPT ![t] = buffered]
    /\ buffered' = << >>
    /\ setters' = [setters EXCEPT ![t] = "flushing"]
    /\ UNCHANGED <<sendMu, emits, delivered, earlier>>

Flush(t) ==
    /\ setters[t] = "flushing"
    /\ flush[t] # << >>
    /\ delivered' = Append(delivered, Head(flush[t]))
    /\ flush' = [flush EXCEPT ![t] = Tail(flush[t])]
    /\ UNCHANGED <<target, buffered, sendMu, emits, setters, earlier>>

\* Bug: sendMu is not released.
Bug_SetTargetReturns(t) ==
    /\ setters[t] = "flushing"
    /\ flush[t] = << >>
    /\ setters' = [setters EXCEPT ![t] = "returned"]
    /\ UNCHANGED <<target, buffered, sendMu, emits, flush, delivered, earlier>>

SetTargetReturns(t) ==
    /\ setters[t] = "flushing"
    /\ flush[t] = << >>
    /\ sendMu' = Nobody
    /\ setters' = [setters EXCEPT ![t] = "returned"]
    /\ UNCHANGED <<target, buffered, emits, flush, delivered, earlier>>

-----------------------------------------------------------------------------

EmitNext(e) == Send(e) \/ SendReturns(e)

SetterNext(t) == TakeBuffer(t) \/ Flush(t) \/ SetTargetReturns(t)

BusNext ==
    \/ \E e \in Emits : Emit(e) \/ EmitNext(e)
    \/ \E t \in Targets : SetTarget(t) \/ SetterNext(t)

BusSpec == BusInit /\ [][BusNext]_busVars

\* Targets return and sync.Mutex admits every waiter.
BusFairSpec ==
    /\ BusSpec
    /\ \A e \in Emits : SF_busVars(EmitNext(e))
    /\ \A t \in Targets : WF_busVars(SetterNext(t))

-----------------------------------------------------------------------------
(* Properties.                                                             *)

(* Events arrive in the order in which they were emitted, also across the  *)
(* change from buffering to direct sending and a replaced target: before   *)
(* an event reaches a target, every event whose Emit had returned did.     *)
InOrder ==
    \A f \in ToSet(delivered) : earlier[f] \subseteq ToSet(delivered)

(* Once a target is set, every emitted event is delivered.                 *)
NothingStuck ==
    \A e \in Emits : (target # Nobody /\ emits[e] # "new") ~> (e \in ToSet(delivered))
=============================================================================
