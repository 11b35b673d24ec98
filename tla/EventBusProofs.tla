--------------------------- MODULE EventBusProofs ---------------------------
(***************************************************************************)
(* Proofs about EventBus for every set of Emits and of SetTargets: events  *)
(* arrive in the order in which they were emitted, and none arrives twice. *)
(***************************************************************************)
EXTENDS EventBus, TLAPS

-----------------------------------------------------------------------------
(* The inductive invariant.                                                *)

\* sendMu is held exactly between these steps, and only its holder has events to
\* flush.
MutexShape ==
    /\ \A e \in Emits : emits[e] = "sent" <=> sendMu = e
    /\ \A t \in Targets : setters[t] \in {"locked", "flushing"} <=> sendMu = t
    /\ \A t \in Targets : flush[t] # << >> => setters[t] = "flushing"

\* Every event that was buffered or sent is in one place, once, until it is
\* delivered; an Emit that returned has left its event in one of them.
PlaceShape ==
    /\ \A e \in Emits : emits[e] = "sent" => e \in ToSet(delivered)
    /\ \A e \in Emits : emits[e] = "returned" =>
          \/ e \in ToSet(delivered) \cup ToSet(buffered)
          \/ \E t \in Targets : e \in ToSet(flush[t])
    /\ \A e \in ToSet(delivered) : emits[e] \in {"sent", "returned"}
    /\ \A e \in ToSet(buffered) : emits[e] = "returned"
    /\ \A t \in Targets : \A e \in ToSet(flush[t]) : emits[e] = "returned"
    /\ IsInjective(delivered) /\ IsInjective(buffered)
    /\ ToSet(delivered) \cap ToSet(buffered) = {}
    /\ \A t \in Targets :
          /\ IsInjective(flush[t])
          /\ ToSet(flush[t]) \cap (ToSet(delivered) \cup ToSet(buffered)) = {}

\* The events of a queue come after those that returned before them.
Queued(s, before) ==
    \A i \in DOMAIN s : \A d \in earlier[s[i]] : d \in before \/ \E j \in 1..(i - 1) : s[j] = d

\* Until a target is set everything is buffered, and after that nothing is.
OrderShape ==
    /\ target = Nobody =>
          /\ delivered = << >>
          /\ \A t \in Targets : flush[t] = << >>
          /\ \A e \in Emits : emits[e] \in {"new", "returned"}
    /\ target # Nobody => buffered = << >>
    /\ \A e \in Emits : \A d \in earlier[e] : emits[d] = "returned"
    /\ \A f \in ToSet(delivered) : earlier[f] \subseteq ToSet(delivered)
    /\ Queued(buffered, {})
    /\ \A t \in Targets : Queued(flush[t], ToSet(delivered))

Inv ==
    /\ BusTypeOK
    /\ MutexShape
    /\ PlaceShape
    /\ OrderShape

-----------------------------------------------------------------------------
(* Lemmas about sequences.                                                 *)

(* Append adds one event at the end.                                       *)
LEMMA AppendFacts ==
    ASSUME NEW S, NEW s \in Seq(S), NEW e \in S
    PROVE  /\ Append(s, e) \in Seq(S)
           /\ ToSet(Append(s, e)) = ToSet(s) \cup {e}
           /\ e \notin ToSet(s) /\ IsInjective(s) => IsInjective(Append(s, e))
           /\ DOMAIN Append(s, e) = 1..(Len(s) + 1)
           /\ \A i \in DOMAIN s : Append(s, e)[i] = s[i]
           /\ Append(s, e)[Len(s) + 1] = e
           /\ Append(s, e) # << >>
  BY DEF ToSet, IsInjective

(* Head and Tail take one off at the front.                                *)
LEMMA TailFacts ==
    ASSUME NEW S, NEW s \in Seq(S), s # << >>
    PROVE  /\ Head(s) \in S /\ Tail(s) \in Seq(S)
           /\ ToSet(s) = {Head(s)} \cup ToSet(Tail(s))
           /\ IsInjective(s) => IsInjective(Tail(s)) /\ Head(s) \notin ToSet(Tail(s))
           /\ DOMAIN Tail(s) = 1..(Len(s) - 1)
           /\ Head(s) = s[1]
           /\ \A i \in DOMAIN Tail(s) : Tail(s)[i] = s[i + 1]
  <1>1. /\ Head(s) \in S /\ Tail(s) \in Seq(S) /\ Head(s) = s[1]
        /\ Len(s) \in Nat /\ Len(s) > 0 /\ DOMAIN s = 1..Len(s)
        /\ Len(Tail(s)) = Len(s) - 1 /\ DOMAIN Tail(s) = 1..(Len(s) - 1)
        /\ \A i \in DOMAIN Tail(s) : Tail(s)[i] = s[i + 1]
    OBVIOUS
  <1>2. ToSet(s) = {Head(s)} \cup ToSet(Tail(s))
    <2>1. ASSUME NEW i \in DOMAIN s
          PROVE  s[i] \in {Head(s)} \cup ToSet(Tail(s))
      <3>1. CASE i = 1
        BY <1>1, <3>1
      <3>2. CASE i # 1
        <4>1. i - 1 \in DOMAIN Tail(s) /\ Tail(s)[i - 1] = s[i]
          BY <1>1, <3>2
        <4> QED
          BY <4>1 DEF ToSet
      <3> QED
        BY <3>1, <3>2
    <2>2. ASSUME NEW i \in DOMAIN Tail(s)
          PROVE  Tail(s)[i] \in ToSet(s)
      <3>1. i + 1 \in DOMAIN s /\ Tail(s)[i] = s[i + 1]
        BY <1>1
      <3> QED
        BY <3>1 DEF ToSet
    <2>3. Head(s) \in ToSet(s)
      BY <1>1 DEF ToSet
    <2> QED
      BY <2>1, <2>2, <2>3 DEF ToSet
  <1>3. ASSUME IsInjective(s)
        PROVE  IsInjective(Tail(s)) /\ Head(s) \notin ToSet(Tail(s))
    BY <1>1, <1>3 DEF ToSet, IsInjective
  <1> QED
    BY <1>1, <1>2, <1>3

(* The empty queue.                                                        *)
LEMMA EmptyFacts ==
    /\ ToSet(<< >>) = {}
    /\ IsInjective(<< >>)
    /\ \A S : << >> \in Seq(S)
    /\ DOMAIN << >> = {}
  BY DEF ToSet, IsInjective

-----------------------------------------------------------------------------
(* Every step keeps the invariant.                                         *)

USE EventBusAssumption

(* Before anything happened.                                               *)
LEMMA InitInv == BusInit => Inv
  <1> SUFFICES ASSUME BusInit
               PROVE  Inv
    OBVIOUS
  <1>1. BusTypeOK
    BY EmptyFacts DEF BusInit, BusTypeOK
  <1>2. MutexShape
    BY DEF BusInit, MutexShape
  <1>3. PlaceShape
    BY EmptyFacts DEF BusInit, PlaceShape
  <1>4. OrderShape
    BY EmptyFacts DEF BusInit, OrderShape, Queued
  <1> QED
    BY <1>1, <1>2, <1>3, <1>4 DEF Inv

(* An Emit without a target: whatever returned before it is in the buffer. *)
LEMMA BufferStep ==
    ASSUME Inv, NEW e \in Emits, Emit(e), target = Nobody
    PROVE  Inv'
  <1>1. /\ emits[e] = "new" /\ emits' = [emits EXCEPT ![e] = "returned"]
        /\ buffered' = Append(buffered, e)
        /\ earlier' = [earlier EXCEPT ![e] = {d \in Emits : emits[d] = "returned"}]
        /\ UNCHANGED <<target, sendMu, setters, flush, delivered>>
    BY DEF Emit
  <1>2. /\ delivered = << >> /\ ToSet(delivered) = {} /\ \A t \in Targets : flush[t] = << >>
        /\ \A t \in Targets : ToSet(flush[t]) = {}
    BY EmptyFacts DEF Inv, OrderShape
  <1>3. /\ buffered \in Seq(Emits) /\ e \notin ToSet(buffered) /\ IsInjective(buffered)
        /\ emits \in [Emits -> {"new", "sending", "sent", "returned"}]
        /\ earlier \in [Emits -> SUBSET Emits]
        /\ \A d \in ToSet(buffered) : emits[d] = "returned"
        /\ \A d \in Emits : emits[d] = "returned" => d \in ToSet(buffered)
    BY <1>1, <1>2 DEF Inv, BusTypeOK, PlaceShape
  <1>4. /\ buffered' \in Seq(Emits) /\ ToSet(buffered') = ToSet(buffered) \cup {e}
        /\ IsInjective(buffered')
    BY <1>1, <1>3, AppendFacts
  <1>5. /\ emits' \in [Emits -> {"new", "sending", "sent", "returned"}]
        /\ emits'[e] = "returned" /\ \A d \in Emits : d # e => emits'[d] = emits[d]
        /\ earlier' \in [Emits -> SUBSET Emits]
        /\ earlier'[e] = {d \in Emits : emits[d] = "returned"}
        /\ \A d \in Emits : d # e => earlier'[d] = earlier[d]
    BY <1>1, <1>3
  <1>6. BusTypeOK'
    BY <1>1, <1>2, <1>4, <1>5 DEF Inv, BusTypeOK
  <1>7. MutexShape'
    BY <1>1, <1>5 DEF Inv, MutexShape
  <1>8. PlaceShape'
    BY <1>1, <1>2, <1>3, <1>4, <1>5, EmptyFacts DEF Inv, PlaceShape
  <1>9. Queued(buffered, {})'
    <2>1. ASSUME NEW i \in DOMAIN buffered', NEW d \in earlier'[buffered'[i]]
          PROVE  \E j \in 1..(i - 1) : buffered'[j] = d
      <3>1. /\ DOMAIN buffered = 1..Len(buffered) /\ Len(buffered) \in Nat
            /\ DOMAIN buffered' = 1..(Len(buffered) + 1)
            /\ \A k \in DOMAIN buffered : buffered'[k] = buffered[k]
            /\ buffered'[Len(buffered) + 1] = e
        BY <1>1, <1>3, AppendFacts
      <3>2. CASE i = Len(buffered) + 1
        <4>1. d \in ToSet(buffered)
          BY <1>3, <1>5, <2>1, <3>1, <3>2
        <4>2. PICK j \in DOMAIN buffered : buffered[j] = d
          BY <4>1 DEF ToSet
        <4> QED
          BY <3>1, <3>2, <4>2
      <3>3. CASE i # Len(buffered) + 1
        <4>1. i \in DOMAIN buffered /\ buffered'[i] = buffered[i]
          BY <3>1, <3>3
        <4>2. buffered[i] \in ToSet(buffered) /\ buffered[i] \in Emits
          BY <1>3, <4>1 DEF ToSet
        <4>3. d \in earlier[buffered[i]]
          BY <1>3, <1>5, <2>1, <4>1, <4>2
        <4>4. PICK j \in 1..(i - 1) : buffered[j] = d
          BY <4>1, <4>3 DEF Inv, OrderShape, Queued
        <4> QED
          BY <3>1, <4>1, <4>4
      <3> QED
        BY <3>2, <3>3
    <2> QED
      BY <2>1 DEF Queued
  <1>10. OrderShape'
    <2>1. \A f \in ToSet(delivered') : earlier'[f] \subseteq ToSet(delivered')
      BY <1>1, <1>2
    <2>2. \A t \in Targets : Queued(flush[t], ToSet(delivered))'
      BY <1>1, <1>2, EmptyFacts DEF Queued
    <2>3. \A f \in Emits : \A d \in earlier'[f] : emits'[d] = "returned"
      BY <1>1, <1>3, <1>5 DEF Inv, OrderShape
    <2>4. \A f \in Emits : emits'[f] \in {"new", "returned"}
      BY <1>5 DEF Inv, OrderShape
    <2> QED
      BY <1>1, <1>2, <1>9, <2>1, <2>2, <2>3, <2>4 DEF OrderShape
  <1> QED
    BY <1>6, <1>7, <1>8, <1>10 DEF Inv

(* An Emit that reads a target has its event in no queue yet.              *)
LEMMA DirectStep ==
    ASSUME Inv, NEW e \in Emits, Emit(e), target # Nobody
    PROVE  Inv'
  <1>1. /\ emits[e] = "new" /\ emits' = [emits EXCEPT ![e] = "sending"]
        /\ earlier' = [earlier EXCEPT ![e] = {d \in Emits : emits[d] = "returned"}]
        /\ UNCHANGED <<target, buffered, sendMu, setters, flush, delivered>>
    BY DEF Emit
  <1>2. /\ emits \in [Emits -> {"new", "sending", "sent", "returned"}]
        /\ earlier \in [Emits -> SUBSET Emits]
    BY DEF Inv, BusTypeOK
  <1>3. /\ emits' \in [Emits -> {"new", "sending", "sent", "returned"}]
        /\ emits'[e] = "sending" /\ \A d \in Emits : d # e => emits'[d] = emits[d]
        /\ earlier' \in [Emits -> SUBSET Emits]
        /\ earlier'[e] = {d \in Emits : emits[d] = "returned"}
        /\ \A d \in Emits : d # e => earlier'[d] = earlier[d]
    BY <1>1, <1>2
  <1>4. /\ e \notin ToSet(delivered) /\ e \notin ToSet(buffered)
        /\ \A t \in Targets : e \notin ToSet(flush[t])
    BY <1>1 DEF Inv, PlaceShape
  <1>5. /\ ToSet(delivered) \subseteq Emits /\ ToSet(buffered) \subseteq Emits
        /\ \A t \in Targets : ToSet(flush[t]) \subseteq Emits
    BY DEF Inv, BusTypeOK, ToSet
  <1>6. BusTypeOK'
    BY <1>1, <1>3 DEF Inv, BusTypeOK
  <1>7. MutexShape'
    BY <1>1, <1>3 DEF Inv, MutexShape
  <1>8. PlaceShape'
    BY <1>1, <1>3, <1>4, <1>5 DEF Inv, PlaceShape
  <1>9. buffered = << >>
    BY DEF Inv, OrderShape
  <1>10. OrderShape'
    <2>1. \A f \in ToSet(delivered) : earlier'[f] \subseteq ToSet(delivered)
      BY <1>3, <1>4, <1>5 DEF Inv, OrderShape
    <2>2. ASSUME NEW t \in Targets
          PROVE  Queued(flush[t], ToSet(delivered))'
      <3>1. ASSUME NEW i \in DOMAIN flush[t]
            PROVE  earlier'[flush[t][i]] = earlier[flush[t][i]]
        <4>1. flush[t][i] \in ToSet(flush[t])
          BY DEF ToSet
        <4> QED
          BY <1>3, <1>4, <1>5, <4>1
      <3>2. Queued(flush[t], ToSet(delivered))
        BY DEF Inv, OrderShape
      <3> QED
        BY <1>1, <3>1, <3>2 DEF Queued
    <2>3. \A f \in Emits : \A d \in earlier'[f] : emits'[d] = "returned"
      BY <1>1, <1>2, <1>3 DEF Inv, OrderShape
    <2>4. Queued(buffered, {})'
      BY <1>1, <1>9, EmptyFacts DEF Queued
    <2> QED
      BY <1>1, <1>9, <2>1, <2>2, <2>3, <2>4 DEF OrderShape
  <1> QED
    BY <1>6, <1>7, <1>8, <1>10 DEF Inv

(* Who has sendMu finds nothing left to flush, so everything that returned *)
(* before it has been delivered.                                           *)
LEMMA SendStep ==
    ASSUME Inv, NEW e \in Emits, Send(e)
    PROVE  Inv'
  <1>1. /\ emits[e] = "sending" /\ sendMu = Nobody /\ sendMu' = e
        /\ delivered' = Append(delivered, e) /\ emits' = [emits EXCEPT ![e] = "sent"]
        /\ UNCHANGED <<target, buffered, setters, flush, earlier>>
    BY DEF Send
  <1>2. target # Nobody /\ buffered = << >> /\ \A t \in Targets : flush[t] = << >>
    BY <1>1 DEF Inv, OrderShape, MutexShape
  <1>3. ToSet(buffered) = {} /\ \A t \in Targets : ToSet(flush[t]) = {}
    BY <1>2, EmptyFacts
  <1>4. /\ emits \in [Emits -> {"new", "sending", "sent", "returned"}]
        /\ delivered \in Seq(Emits) /\ IsInjective(delivered) /\ e \notin ToSet(delivered)
    BY <1>1 DEF Inv, BusTypeOK, PlaceShape
  <1>5. /\ emits' \in [Emits -> {"new", "sending", "sent", "returned"}]
        /\ emits'[e] = "sent" /\ \A d \in Emits : d # e => emits'[d] = emits[d]
    BY <1>1, <1>4
  <1>6. /\ delivered' \in Seq(Emits) /\ ToSet(delivered') = ToSet(delivered) \cup {e}
        /\ IsInjective(delivered')
    BY <1>1, <1>4, AppendFacts
  <1>7. ToSet(delivered) \subseteq Emits
    BY <1>4 DEF ToSet
  <1>8. BusTypeOK'
    BY <1>1, <1>3, <1>5, <1>6 DEF Inv, BusTypeOK
  <1>9. MutexShape'
    BY <1>1, <1>5 DEF Inv, MutexShape
  <1>10. PlaceShape'
    BY <1>1, <1>3, <1>5, <1>6, <1>7 DEF Inv, PlaceShape
  <1>11. OrderShape'
    <2>1. earlier[e] \subseteq ToSet(delivered)
      BY <1>3 DEF Inv, BusTypeOK, OrderShape, PlaceShape
    <2>2. \A f \in ToSet(delivered') : earlier[f] \subseteq ToSet(delivered')
      BY <1>6, <2>1 DEF Inv, OrderShape
    <2>3. Queued(buffered, {})' /\ \A t \in Targets : Queued(flush[t], ToSet(delivered))'
      BY <1>1, <1>2, EmptyFacts DEF Queued
    <2>4. \A f \in Emits : \A d \in earlier[f] : emits'[d] = "returned"
      BY <1>1, <1>5 DEF Inv, BusTypeOK, OrderShape
    <2> QED
      BY <1>1, <1>2, <2>2, <2>3, <2>4 DEF OrderShape
  <1> QED
    BY <1>8, <1>9, <1>10, <1>11 DEF Inv

(* The target's Emit returns.                                              *)
LEMMA SendReturnsStep ==
    ASSUME Inv, NEW e \in Emits, SendReturns(e)
    PROVE  Inv'
  <1>1. /\ emits[e] = "sent" /\ sendMu = e /\ sendMu' = Nobody
        /\ emits' = [emits EXCEPT ![e] = "returned"]
        /\ UNCHANGED <<target, buffered, setters, flush, delivered, earlier>>
    BY DEF SendReturns, Inv, MutexShape
  <1>2. emits \in [Emits -> {"new", "sending", "sent", "returned"}] /\ target # Nobody
    BY <1>1 DEF Inv, BusTypeOK, OrderShape
  <1>3. /\ emits' \in [Emits -> {"new", "sending", "sent", "returned"}]
        /\ emits'[e] = "returned" /\ \A d \in Emits : d # e => emits'[d] = emits[d]
    BY <1>1, <1>2
  <1>4. /\ ToSet(delivered) \subseteq Emits /\ ToSet(buffered) \subseteq Emits
        /\ \A t \in Targets : ToSet(flush[t]) \subseteq Emits
    BY DEF Inv, BusTypeOK, ToSet
  <1>5. BusTypeOK'
    BY <1>1, <1>3 DEF Inv, BusTypeOK
  <1>6. MutexShape'
    BY <1>1, <1>3 DEF Inv, MutexShape
  <1>7. PlaceShape'
    BY <1>1, <1>3, <1>4 DEF Inv, PlaceShape
  <1>8. OrderShape'
    <2>1. Queued(buffered, {})' /\ \A t \in Targets : Queued(flush[t], ToSet(delivered))'
      BY <1>1 DEF Inv, OrderShape, Queued
    <2>2. \A f \in Emits : \A d \in earlier[f] : emits'[d] = "returned"
      BY <1>3 DEF Inv, BusTypeOK, OrderShape
    <2> QED
      BY <1>1, <1>2, <2>1, <2>2 DEF Inv, OrderShape
  <1> QED
    BY <1>5, <1>6, <1>7, <1>8 DEF Inv

(* SetTarget takes sendMu.                                                 *)
LEMMA SetTargetStep ==
    ASSUME Inv, NEW t \in Targets, SetTarget(t)
    PROVE  Inv'
  <1>1. /\ setters[t] = "new" /\ sendMu = Nobody /\ sendMu' = t
        /\ setters' = [setters EXCEPT ![t] = "locked"]
        /\ UNCHANGED <<target, buffered, emits, flush, delivered, earlier>>
    BY DEF SetTarget
  <1>2. /\ setters' \in [Targets -> {"new", "locked", "flushing", "returned"}]
        /\ setters'[t] = "locked" /\ \A u \in Targets : u # t => setters'[u] = setters[u]
    BY <1>1 DEF Inv, BusTypeOK
  <1>3. BusTypeOK'
    BY <1>1, <1>2 DEF Inv, BusTypeOK
  <1>4. MutexShape'
    BY <1>1, <1>2 DEF Inv, MutexShape
  <1>5. PlaceShape' /\ OrderShape'
    BY <1>1 DEF Inv, PlaceShape, OrderShape, Queued
  <1> QED
    BY <1>3, <1>4, <1>5 DEF Inv

(* SetTarget takes the buffer over in one step: the order stays.           *)
LEMMA TakeBufferStep ==
    ASSUME Inv, NEW t \in Targets, TakeBuffer(t)
    PROVE  Inv'
  <1>1. /\ setters[t] = "locked" /\ target' = t /\ buffered' = << >>
        /\ flush' = [flush EXCEPT ![t] = buffered]
        /\ setters' = [setters EXCEPT ![t] = "flushing"]
        /\ UNCHANGED <<sendMu, emits, delivered, earlier>>
    BY DEF TakeBuffer
  <1>2. sendMu = t /\ \A u \in Targets : flush[u] = << >> /\ ToSet(flush[u]) = {}
    BY <1>1, EmptyFacts DEF Inv, MutexShape
  <1>3. /\ setters' \in [Targets -> {"new", "locked", "flushing", "returned"}]
        /\ setters'[t] = "flushing" /\ \A u \in Targets : u # t => setters'[u] = setters[u]
        /\ flush' \in [Targets -> Seq(Emits)]
        /\ flush'[t] = buffered /\ \A u \in Targets : u # t => flush'[u] = << >>
    BY <1>1, <1>2 DEF Inv, BusTypeOK
  <1>4. ToSet(buffered') = {} /\ IsInjective(buffered')
    BY <1>1, EmptyFacts
  <1>5. BusTypeOK'
    BY <1>1, <1>3, <1>4, EmptyFacts DEF Inv, BusTypeOK
  <1>6. MutexShape'
    BY <1>1, <1>2, <1>3 DEF Inv, MutexShape
  <1>7. PlaceShape'
    <2>1. \A u \in Targets : u # t => ToSet(flush'[u]) = {} /\ IsInjective(flush'[u])
      BY <1>3, EmptyFacts
    <2> QED
      BY <1>1, <1>2, <1>3, <1>4, <2>1 DEF Inv, PlaceShape
  <1>8. OrderShape'
    <2>1. Queued(buffered, {})'
      BY <1>1, EmptyFacts DEF Queued
    <2>2. ASSUME NEW u \in Targets
          PROVE  Queued(flush[u], ToSet(delivered))'
      <3>1. CASE u = t
        BY <1>1, <1>3, <3>1 DEF Inv, OrderShape, Queued
      <3>2. CASE u # t
        BY <1>3, <3>2, EmptyFacts DEF Queued
      <3> QED
        BY <3>1, <3>2
    <2> QED
      BY <1>1, <2>1, <2>2 DEF Inv, OrderShape
  <1> QED
    BY <1>5, <1>6, <1>7, <1>8 DEF Inv

(* The first event of the queue comes after nothing that is still queued.  *)
LEMMA FlushStep ==
    ASSUME Inv, NEW t \in Targets, Flush(t)
    PROVE  Inv'
  <1> DEFINE e == Head(flush[t])
  <1>1. /\ setters[t] = "flushing" /\ flush[t] # << >> /\ delivered' = Append(delivered, e)
        /\ flush' = [flush EXCEPT ![t] = Tail(flush[t])]
        /\ UNCHANGED <<target, buffered, sendMu, emits, setters, earlier>>
    BY DEF Flush
  <1>2. sendMu = t /\ \A u \in Targets : u # t => flush[u] = << >> /\ ToSet(flush[u]) = {}
    BY <1>1, EmptyFacts DEF Inv, MutexShape
  <1>3. flush[t] \in Seq(Emits) /\ IsInjective(flush[t]) /\ delivered \in Seq(Emits)
    BY DEF Inv, BusTypeOK, PlaceShape
  <1>4. /\ e \in Emits /\ Tail(flush[t]) \in Seq(Emits)
        /\ ToSet(flush[t]) = {e} \cup ToSet(Tail(flush[t]))
        /\ IsInjective(Tail(flush[t])) /\ e \notin ToSet(Tail(flush[t]))
    BY <1>1, <1>3, TailFacts
  <1>5. /\ e \notin ToSet(delivered) /\ e \notin ToSet(buffered) /\ emits[e] = "returned"
        /\ IsInjective(delivered)
    BY <1>4 DEF Inv, PlaceShape
  <1>6. /\ delivered' \in Seq(Emits) /\ ToSet(delivered') = ToSet(delivered) \cup {e}
        /\ IsInjective(delivered')
    BY <1>1, <1>3, <1>4, <1>5, AppendFacts
  <1>7. /\ flush' \in [Targets -> Seq(Emits)] /\ flush'[t] = Tail(flush[t])
        /\ \A u \in Targets : u # t => flush'[u] = flush[u]
    BY <1>1, <1>4 DEF Inv, BusTypeOK
  <1>8. BusTypeOK'
    BY <1>1, <1>5, <1>6, <1>7 DEF Inv, BusTypeOK
  <1>9. MutexShape'
    BY <1>1, <1>7 DEF Inv, MutexShape
  <1> HIDE DEF e
  <1>10. PlaceShape'
    <2>1. \A u \in Targets : IsInjective(flush'[u])
      BY <1>4, <1>7 DEF Inv, PlaceShape
    <2>2. \A u \in Targets : ToSet(flush'[u]) \cap (ToSet(delivered') \cup ToSet(buffered')) = {}
      BY <1>1, <1>2, <1>4, <1>6, <1>7 DEF Inv, PlaceShape
    <2>3. \A u \in Targets : \A d \in ToSet(flush'[u]) : emits'[d] = "returned"
      BY <1>1, <1>4, <1>7 DEF Inv, PlaceShape
    <2>4. ASSUME NEW d \in Emits, emits'[d] = "returned"
          PROVE  \/ d \in ToSet(delivered') \cup ToSet(buffered')
                 \/ \E u \in Targets : d \in ToSet(flush'[u])
      BY <1>1, <1>2, <1>4, <1>6, <1>7, <2>4 DEF Inv, PlaceShape
    <2>5. /\ \A d \in Emits : emits'[d] = "sent" => d \in ToSet(delivered')
          /\ \A d \in ToSet(delivered') : emits'[d] \in {"sent", "returned"}
          /\ \A d \in ToSet(buffered') : emits'[d] = "returned"
          /\ IsInjective(buffered')
          /\ ToSet(delivered') \cap ToSet(buffered') = {}
      BY <1>1, <1>5, <1>6 DEF Inv, PlaceShape
    <2> QED
      BY <1>6, <2>1, <2>2, <2>3, <2>4, <2>5 DEF PlaceShape
  <1>11. earlier[e] \subseteq ToSet(delivered)
    <2>1. 1 \in DOMAIN flush[t] /\ flush[t][1] = e /\ 1..(1 - 1) = {}
      BY <1>1, <1>3 DEF e
    <2> QED
      BY <2>1 DEF Inv, OrderShape, Queued, BusTypeOK
  <1>12. ASSUME NEW i \in DOMAIN Tail(flush[t]), NEW d \in earlier[Tail(flush[t])[i]]
         PROVE  d \in ToSet(delivered') \/ \E j \in 1..(i - 1) : Tail(flush[t])[j] = d
    <2>1. /\ Len(flush[t]) \in Nat /\ DOMAIN flush[t] = 1..Len(flush[t])
          /\ DOMAIN Tail(flush[t]) = 1..(Len(flush[t]) - 1) /\ e = flush[t][1]
          /\ \A k \in DOMAIN Tail(flush[t]) : Tail(flush[t])[k] = flush[t][k + 1]
      BY <1>1, <1>3, TailFacts DEF e
    <2>2. i + 1 \in DOMAIN flush[t] /\ d \in earlier[flush[t][i + 1]]
      BY <1>12, <2>1
    <2>3. d \in ToSet(delivered) \/ \E j \in 1..i : flush[t][j] = d
      BY <2>1, <2>2 DEF Inv, OrderShape, Queued
    <2>4. ASSUME NEW j \in 1..i, flush[t][j] = d
          PROVE  d = e \/ \E k \in 1..(i - 1) : Tail(flush[t])[k] = d
      <3>1. CASE j = 1
        BY <2>1, <2>4, <3>1
      <3>2. CASE j # 1
        <4>1. j - 1 \in 1..(i - 1) /\ Tail(flush[t])[j - 1] = d
          BY <2>1, <2>4, <3>2
        <4> QED
          BY <4>1
      <3> QED
        BY <3>1, <3>2
    <2> QED
      BY <1>6, <2>3, <2>4
  <1>13. OrderShape'
    <2>1. \A f \in ToSet(delivered') : earlier[f] \subseteq ToSet(delivered')
      BY <1>6, <1>11 DEF Inv, OrderShape
    <2>2. target # Nobody /\ buffered = << >>
      BY <1>1 DEF Inv, OrderShape
    <2>3. Queued(buffered, {})'
      BY <1>1, <2>2, EmptyFacts DEF Queued
    <2>4. ASSUME NEW u \in Targets
          PROVE  Queued(flush[u], ToSet(delivered))'
      <3>1. CASE u = t
        BY <1>1, <1>7, <1>12, <3>1 DEF Queued
      <3>2. CASE u # t
        BY <1>2, <1>7, <3>2, EmptyFacts DEF Queued
      <3> QED
        BY <3>1, <3>2
    <2> QED
      BY <1>1, <2>1, <2>2, <2>3, <2>4 DEF Inv, OrderShape
  <1> QED
    BY <1>8, <1>9, <1>10, <1>13 DEF Inv

(* SetTarget returns when everything is flushed.                           *)
LEMMA SetTargetReturnsStep ==
    ASSUME Inv, NEW t \in Targets, SetTargetReturns(t)
    PROVE  Inv'
  <1>1. /\ setters[t] = "flushing" /\ sendMu = t /\ sendMu' = Nobody /\ flush[t] = << >>
        /\ setters' = [setters EXCEPT ![t] = "returned"]
        /\ UNCHANGED <<target, buffered, emits, flush, delivered, earlier>>
    BY DEF SetTargetReturns, Inv, MutexShape
  <1>2. /\ setters' \in [Targets -> {"new", "locked", "flushing", "returned"}]
        /\ setters'[t] = "returned" /\ \A u \in Targets : u # t => setters'[u] = setters[u]
    BY <1>1 DEF Inv, BusTypeOK
  <1>3. BusTypeOK'
    BY <1>1, <1>2 DEF Inv, BusTypeOK
  <1>4. MutexShape'
    BY <1>1, <1>2 DEF Inv, MutexShape
  <1>5. PlaceShape' /\ OrderShape'
    BY <1>1 DEF Inv, PlaceShape, OrderShape, Queued
  <1> QED
    BY <1>3, <1>4, <1>5 DEF Inv

-----------------------------------------------------------------------------
(* The theorems.                                                           *)

LEMMA NextInv == Inv /\ [BusNext]_busVars => Inv'
  <1> SUFFICES ASSUME Inv, [BusNext]_busVars
               PROVE  Inv'
    OBVIOUS
  <1>1. CASE UNCHANGED busVars
    BY <1>1 DEF busVars, Inv, BusTypeOK, MutexShape, PlaceShape, OrderShape, Queued
  <1>2. ASSUME NEW e \in Emits, Emit(e) \/ EmitNext(e)
        PROVE  Inv'
    BY <1>2, BufferStep, DirectStep, SendStep, SendReturnsStep DEF EmitNext
  <1>3. ASSUME NEW t \in Targets, SetTarget(t) \/ SetterNext(t)
        PROVE  Inv'
    BY <1>3, SetTargetStep, TakeBufferStep, FlushStep, SetTargetReturnsStep DEF SetterNext
  <1> QED
    BY <1>1, <1>2, <1>3 DEF BusNext

LEMMA Invariant == BusSpec => []Inv
  BY InitInv, NextInv, PTL DEF BusSpec

(* sendMu is held exactly by the goroutine inside its section, and only    *)
(* the SetTarget that holds it has events to flush; the buffer holds       *)
(* events, each at most once, and none that was delivered: no event        *)
(* reaches a target twice, however SetTargets and Emits overlap.           *)
THEOREM BusTypeCorrect == BusSpec => [](BusTypeOK /\ MutexShape)
  <1>1. Inv => BusTypeOK /\ MutexShape
    BY DEF Inv
  <1> QED
    BY <1>1, Invariant, PTL

(* Events arrive in the order in which they were emitted, across the       *)
(* change from buffering to sending and across a replaced target.          *)
THEOREM EventsArriveInOrder == BusSpec => []InOrder
  <1>1. Inv => InOrder
    BY DEF Inv, OrderShape, InOrder
  <1> QED
    BY <1>1, Invariant, PTL

=============================================================================
