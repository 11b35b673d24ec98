------------------------------- MODULE Events -------------------------------
(***************************************************************************)
(* The event queue of Client (events.go): enqueueEvent is called with      *)
(* stateCommitMu held, drainEvents after every lock is released.  Only the *)
(* goroutine that switched eventDispatching on drains, so emitter calls    *)
(* are serialized and an emitter may call back into the Client.            *)
(***************************************************************************)
EXTENDS Naturals, Sequences

VARIABLES
    pendingEvents,    \* committed, not yet handed to the emitter
    eventDispatching, \* some goroutine owns the drain
    drainers,         \* goroutines in drainEvents, not inside Emit
    emitting          \* the events whose Emit call has not returned

eventVars == <<pendingEvents, eventDispatching, drainers, emitting>>

EventNames == {"logged-in", "token-refreshed", "session-expired", "logged-out"}

EventsTypeOK ==
    /\ pendingEvents \in Seq(EventNames)
    /\ eventDispatching \in BOOLEAN
    /\ drainers \in Nat
    /\ emitting \in Seq(EventNames)

EventsInit ==
    /\ pendingEvents = << >>
    /\ eventDispatching = FALSE
    /\ drainers = 0
    /\ emitting = << >>

-----------------------------------------------------------------------------

\* Bug: every caller that enqueues also drains.
Bug_enqueueEvent(event) ==
    /\ pendingEvents' = Append(pendingEvents, event)
    /\ eventDispatching' = TRUE
    /\ drainers' = drainers + 1
    /\ UNCHANGED emitting

\* The caller that switches eventDispatching on becomes the drainer.
enqueueEvent(event) ==
    /\ pendingEvents' = Append(pendingEvents, event)
    /\ eventDispatching' = TRUE
    /\ drainers' = IF eventDispatching THEN drainers ELSE drainers + 1
    /\ UNCHANGED emitting

\* drainEvents takes the oldest event and calls the emitter without a lock.
DrainTake ==
    /\ drainers > 0
    /\ pendingEvents # << >>
    /\ pendingEvents' = Tail(pendingEvents)
    /\ emitting' = Append(emitting, Head(pendingEvents))
    /\ drainers' = drainers - 1
    /\ UNCHANGED eventDispatching

\* Bug: the drainer handles one event and leaves eventDispatching set.
Bug_EmitReturns ==
    /\ emitting # << >>
    /\ emitting' = Tail(emitting)
    /\ UNCHANGED <<pendingEvents, eventDispatching, drainers>>

\* The emitter returns and the drainer goes round its loop again.
EmitReturns ==
    /\ emitting # << >>
    /\ emitting' = Tail(emitting)
    /\ drainers' = drainers + 1
    /\ UNCHANGED <<pendingEvents, eventDispatching>>

\* drainEvents finds the queue empty and gives up the drain in the same step.
DrainExit ==
    /\ drainers > 0
    /\ pendingEvents = << >>
    /\ eventDispatching' = FALSE
    /\ drainers' = drainers - 1
    /\ UNCHANGED <<pendingEvents, emitting>>

DrainNext == DrainTake \/ EmitReturns \/ DrainExit

-----------------------------------------------------------------------------

(* interfaces.go promises that Emit calls are serialized: at any time one  *)
(* goroutine at most is in drainEvents, exactly when eventDispatching says *)
(* so, and a queued event always has a drainer that will reach it.         *)
SerializedEmit ==
    /\ drainers + Len(emitting) = IF eventDispatching THEN 1 ELSE 0
    /\ pendingEvents # << >> => eventDispatching
=============================================================================
