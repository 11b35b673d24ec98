--------------------------- MODULE HandlerProofs ---------------------------
(***************************************************************************)
(* Proofs about the desktop and the mobile flow handler, for every set of  *)
(* login and logout flows and every number of timers: their invariants,    *)
(* and that both implement FlowContract step by step.                      *)
(***************************************************************************)
EXTENDS FlowHandlers, TLAPS

-----------------------------------------------------------------------------
(* The inductive invariant of the desktop handler.                         *)

\* Nothing is left of a flow that is not running, a registered flow is running
\* and unanswered, and a flow only ever carries its own state.
DeskShape ==
    \A f \in Flows :
        /\ deskFlows[f].url.state \in {f, NoFlow}
        /\ deskFlows[f].pc \in {"new", "returned"} =>
              deskFlows[f].url = NoURL /\ deskFlows[f].callback = NoCallback
        /\ deskFlows[f].sent => deskFlows[f].callback # NoCallback
        /\ f \in waiters =>
              /\ deskFlows[f].pc \in {"opening", "waiting"}
              /\ deskFlows[f].callback = NoCallback

DeskInv ==
    /\ BrokerTypeOK
    /\ DeskShape
    /\ WaitersServed
    /\ NotDisplaced

-----------------------------------------------------------------------------
(* The inductive invariant of the mobile handler.                          *)

\* Nothing is left of a flow that is not running.  A running flow is about its
\* own URL, and what was delivered to it stays in the channel until it is
\* received: when it looks for the last time nobody can deliver any more.
FlowShape(f) ==
    /\ mobileFlows[f].url.state \in {f, NoFlow}
    /\ ~InFlow(f) => ~mobileFlows[f].delivered
    /\ mobileFlows[f].delivered <=> mobileFlows[f].callback # NoCallback
    /\ mobileFlows[f].queued => mobileFlows[f].delivered
    /\ InFlow(f) => /\ mobileFlows[f].redirectURI = mobileFlows[f].url.redirect
                    /\ mobileFlows[f].url \in URLs
    /\ mobileFlows[f].pc \in {"opening", "waiting", "unregister", "last"} =>
          /\ mobileFlows[f].result = "none"
          /\ mobileFlows[f].delivered => mobileFlows[f].queued
    /\ mobileFlows[f].pc = "leaving" =>
          /\ mobileFlows[f].result \in {"callback", "unopened", "ended"}
          /\ mobileFlows[f].result = "callback" => mobileFlows[f].delivered
          /\ mobileFlows[f].result = "ended" => active # f /\ ~mobileFlows[f].delivered
    /\ mobileFlows[f].pc \in {"asked", "started"} => mobileFlows[f].url \in URLs
    /\ mobileFlows[f].pc = "returned" => mobileFlows[f].result # "none"

MobileInv ==
    /\ MobileTypeOK
    /\ \A f \in Flows : FlowShape(f)

Inv == DeskInv /\ MobileInv

-----------------------------------------------------------------------------
(* Lemmas about the operators of the model.                                *)

USE CallbacksAssumption, BrokerAssumption

(* A callback is never mistaken for none.                                  *)
LEMMA CallbackFacts ==
    ASSUME NEW callback \in Callbacks
    PROVE  callback # NoCallback
  <1>1. CASE callback \in [target: Targets, state: Flows, response: {TRUE}]
    BY <1>1 DEF NoCallback, Targets
  <1>2. CASE callback \in [target: Targets, state: {NoFlow}, response: BOOLEAN]
    BY <1>2 DEF NoCallback, Targets
  <1> QED
    BY <1>1, <1>2 DEF Callbacks

(* What is built for a flow carries that flow's state or none.             *)
LEMMA URLFacts ==
    ASSUME logoutURI \in Targets, NEW f \in Flows, NEW url \in URLsFor(f)
    PROVE  url \in URLs /\ url.state \in {f, NoFlow}
  BY DEF URLsFor, URLs, Targets, RedirectURI

(* The updates of a desktop flow's record keep it well formed.             *)
LEMMA DeskUpdates ==
    ASSUME NEW r \in DeskRecords
    PROVE  /\ [r EXCEPT !.sent = TRUE] \in DeskRecords
           /\ [r EXCEPT !.ended = TRUE] \in DeskRecords
           /\ [r EXCEPT !.pc = "waiting"] \in DeskRecords
           /\ \A callback \in Callbacks : [r EXCEPT !.callback = callback] \in DeskRecords
  BY Zenon DEF DeskRecords

(* A new flow, one that opens its URL and one that returned are records.   *)
LEMMA DeskValues ==
    /\ NewDeskFlow \in DeskRecords
    /\ \A url \in URLs : [NewDeskFlow EXCEPT !.pc = "opening", !.url = url] \in DeskRecords
    /\ \A result \in {"callback", "error"} : ReturnedDesk(result) \in DeskRecords
  BY Zenon DEF DeskRecords, NewDeskFlow, ReturnedDesk

(* Nothing is left of a flow that returned but its result.                 *)
LEMMA ReturnedFields ==
    ASSUME NEW result \in {"callback", "error"}
    PROVE  /\ ReturnedDesk(result).pc = "returned"
           /\ ReturnedDesk(result).url = NoURL
           /\ ReturnedDesk(result).url.state = NoFlow
           /\ ReturnedDesk(result).callback = NoCallback
           /\ ~ReturnedDesk(result).sent
           /\ ReturnedDesk(result).result = result
  BY DEF NewDeskFlow, ReturnedDesk, NoURL

(* scheduleShutdownLocked records only a timer it has armed.               *)
LEMMA ScheduleFacts ==
    ASSUME BrokerTypeOK, NEW removed, scheduleShutdownLocked(removed)
    PROVE  /\ graceTimer' \in {0} \cup Timers
           /\ timers' \in [Timers -> {"unused", "armed", "fired"}]
           /\ graceTimer' # 0 => serverUp /\ timers'[graceTimer'] \in {"armed", "fired"}
  BY DEF BrokerTypeOK, scheduleShutdownLocked

(* deregister takes away every flow with the key of f, so f itself too.    *)
LEMMA DeregisterFacts ==
    ASSUME BrokerTypeOK, NEW f \in Flows, deregister(f)
    PROVE  /\ waiters' = waiters \ Registered(Key(deskFlows[f].url))
           /\ graceTimer' \in {0} \cup Timers
           /\ timers' \in [Timers -> {"unused", "armed", "fired"}]
           /\ graceTimer' # 0 => serverUp /\ timers'[graceTimer'] \in {"armed", "fired"}
  BY ScheduleFacts DEF BrokerTypeOK, deregister

(* A flow with a state of its own shares its key with no other flow.       *)
LEMMA OwnKey ==
    ASSUME DeskShape, NEW f \in Flows, NEW g \in Flows, deskFlows[f].url.state = f,
           Key(deskFlows[f].url) = Key(deskFlows[g].url)
    PROVE  f = g
  BY DEF DeskShape, Key, callbackKey

-----------------------------------------------------------------------------
(* Every step of the desktop handler keeps its invariant.                  *)

(* A flow registers, finds its key taken, or cannot bind the port.         *)
LEMMA StartDeskFlowStep ==
    ASSUME DeskInv, NEW f \in Flows, StartDeskFlow(f)
    PROVE  DeskInv'
  <1>1. PICK url \in URLsFor(f) : register(f, url) \/ RefuseDuplicate(f, url)
    BY DEF StartDeskFlow
  <1>2. url \in URLs /\ url.state \in {f, NoFlow}
    BY URLFacts DEF DeskInv, BrokerTypeOK
  <1>3. f \notin waiters
    BY DEF DeskInv, DeskShape, StartDeskFlow
  <1>4. \/ /\ deskFlows' = [deskFlows EXCEPT ![f] = [NewDeskFlow EXCEPT !.pc = "opening", !.url = url]]
           /\ waiters' = waiters \cup {f}
           /\ serverUp' = TRUE
        \/ /\ deskFlows' = [deskFlows EXCEPT ![f] = ReturnedDesk("error")]
           /\ waiters' = waiters
           /\ serverUp' = serverUp
    BY <1>1 DEF register, startLocked, RefuseDuplicate, DeskInv, BrokerTypeOK
  <1>5. BrokerTypeOK'
    <2>1. deskFlows' \in [Flows -> DeskRecords]
      BY <1>2, <1>4, DeskValues DEF DeskInv, BrokerTypeOK
    <2>2. /\ timers' \in [Timers -> {"unused", "armed", "fired"}]
          /\ graceTimer' \in {0, graceTimer}
          /\ graceTimer' # 0 => UNCHANGED <<timers, serverUp>>
      BY <1>1 DEF DeskInv, BrokerTypeOK, register, RefuseDuplicate, Stopped
    <2> QED
      <3>1. /\ logoutURI' \in Targets
            /\ waiters' \subseteq Flows
            /\ serverUp' \in BOOLEAN
        BY <1>4 DEF DeskInv, BrokerTypeOK, StartDeskFlow
      <3>2. graceTimer' \in {0} \cup Timers
        BY <2>2 DEF DeskInv, BrokerTypeOK
      <3>3. graceTimer' # 0 => serverUp' /\ timers'[graceTimer'] \in {"armed", "fired"}
        BY <2>2 DEF DeskInv, BrokerTypeOK
      <3> QED
        BY <2>1, <2>2, <3>1, <3>2, <3>3 DEF BrokerTypeOK
  <1>6. /\ deskFlows'[f].url.state \in {f, NoFlow}
        /\ deskFlows'[f].callback = NoCallback
        /\ ~deskFlows'[f].sent
        /\ \/ deskFlows'[f].pc = "opening" /\ waiters' = waiters \cup {f}
           \/ deskFlows'[f].pc = "returned" /\ deskFlows'[f].url = NoURL /\ waiters' = waiters
        /\ \A g \in Flows : g # f => deskFlows'[g] = deskFlows[g]
    <2>1. CASE /\ deskFlows' = [deskFlows EXCEPT
                      ![f] = [NewDeskFlow EXCEPT !.pc = "opening", !.url = url]]
               /\ waiters' = waiters \cup {f}
      <3>1. deskFlows'[f] = [NewDeskFlow EXCEPT !.pc = "opening", !.url = url]
        BY <2>1 DEF DeskInv, BrokerTypeOK
      <3>2. /\ deskFlows'[f].pc = "opening"
            /\ deskFlows'[f].url = url
            /\ deskFlows'[f].callback = NoCallback
            /\ ~deskFlows'[f].sent
        BY <3>1 DEF NewDeskFlow
      <3> QED
        BY <1>2, <2>1, <3>2
    <2>2. CASE /\ deskFlows' = [deskFlows EXCEPT ![f] = ReturnedDesk("error")]
               /\ waiters' = waiters
      <3>1. deskFlows'[f] = ReturnedDesk("error")
        BY <2>2 DEF DeskInv, BrokerTypeOK
      <3> QED
        BY <2>2, <3>1, ReturnedFields
    <2> QED
      BY <1>4, <2>1, <2>2
  <1>7. DeskShape'
    BY <1>3, <1>6 DEF DeskInv, DeskShape
  <1>8. WaitersServed'
    BY <1>4 DEF DeskInv, WaitersServed
  <1>9. NotDisplaced'
    BY <1>6 DEF DeskInv, NotDisplaced
  <1> QED
    BY <1>5, <1>7, <1>8, <1>9 DEF DeskInv

(* A request is matched with its flow.                                     *)
LEMMA handleStep ==
    ASSUME DeskInv, NEW callback \in Callbacks, handle(callback)
    PROVE  DeskInv'
  <1>1. PICK f \in Registered(callbackKey(callback.target, callback.state)) :
           /\ waiters' = waiters \ {f}
           /\ scheduleShutdownLocked({f})
           /\ deskFlows' = [deskFlows EXCEPT ![f].callback = callback]
    BY DEF handle
  <1>2. f \in waiters /\ f \in Flows /\ callback # NoCallback
    BY CallbackFacts DEF Registered, DeskInv, BrokerTypeOK
  <1>3. deskFlows' \in [Flows -> DeskRecords]
    BY <1>1, <1>2, DeskUpdates DEF DeskInv, BrokerTypeOK
  <1>4. BrokerTypeOK'
    BY <1>1, <1>3, ScheduleFacts DEF DeskInv, BrokerTypeOK, handle
  <1>5. DeskShape'
    BY <1>1, <1>2, <1>3 DEF DeskInv, BrokerTypeOK, DeskShape, DeskRecords
  <1>6. WaitersServed'
    BY <1>1 DEF handle, WaitersServed
  <1>7. NotDisplaced'
    BY <1>1, <1>2, <1>3 DEF DeskInv, BrokerTypeOK, NotDisplaced, DeskRecords
  <1> QED
    BY <1>4, <1>5, <1>6, <1>7 DEF DeskInv

(* A flow returns and deregisters its key: no other flow with a state of   *)
(* its own has that key.                                                   *)
LEMMA ReturnDesk ==
    ASSUME DeskInv, NEW f \in Flows, deskFlows[f].pc \in {"opening", "waiting"},
           NEW result \in {"callback", "error"},
           deskFlows' = [deskFlows EXCEPT ![f] = ReturnedDesk(result)],
           deregister(f), UNCHANGED <<logoutURI, serverUp>>
    PROVE  DeskInv'
  <1>1. BrokerTypeOK'
    BY DeskValues, DeregisterFacts DEF DeskInv, BrokerTypeOK
  <1>2. waiters' = waiters \ Registered(Key(deskFlows[f].url))
    BY DeregisterFacts DEF DeskInv
  <1>3. f \notin waiters'
    BY <1>2 DEF Registered
  <1>4. DeskShape'
    BY <1>2, <1>3 DEF DeskInv, BrokerTypeOK, DeskShape, NewDeskFlow, ReturnedDesk, NoURL
  <1>5. WaitersServed'
    BY <1>2 DEF DeskInv, WaitersServed
  <1>6. ASSUME NEW g \in Flows, deskFlows'[g].pc \in {"opening", "waiting"},
               deskFlows'[g].url.state = g, deskFlows'[g].callback = NoCallback
        PROVE  g \in waiters'
    <2>1. g # f /\ deskFlows'[g] = deskFlows[g]
      BY <1>6 DEF DeskInv, BrokerTypeOK, NewDeskFlow, ReturnedDesk
    <2>2. g \in waiters
      BY <1>6, <2>1 DEF DeskInv, NotDisplaced
    <2>3. g \notin Registered(Key(deskFlows[f].url))
      BY <1>6, <2>1, OwnKey DEF DeskInv, Registered
    <2> QED
      BY <1>2, <2>2, <2>3
  <1>7. NotDisplaced'
    BY <1>6 DEF NotDisplaced
  <1> QED
    BY <1>1, <1>4, <1>5, <1>7 DEF DeskInv

(* A step that only marks a flow, without moving it or its registration.   *)
LEMMA MarkDesk ==
    ASSUME DeskInv, NEW f \in Flows, deskFlows[f].pc \in {"opening", "waiting"},
           NEW r \in DeskRecords, deskFlows' = [deskFlows EXCEPT ![f] = r],
           r.pc \in {"opening", "waiting"}, r.url = deskFlows[f].url,
           r.callback = deskFlows[f].callback, r.sent => r.callback # NoCallback,
           UNCHANGED <<logoutURI, waiters, serverUp, graceTimer, timers>>
    PROVE  DeskInv'
  <1>1. BrokerTypeOK'
    BY DEF DeskInv, BrokerTypeOK
  <1>2. DeskShape'
    BY DEF DeskInv, BrokerTypeOK, DeskShape
  <1>3. WaitersServed'
    BY DEF DeskInv, WaitersServed
  <1>4. NotDisplaced'
    BY DEF DeskInv, BrokerTypeOK, NotDisplaced
  <1> QED
    BY <1>1, <1>2, <1>3, <1>4 DEF DeskInv

(* The callback is sent.                                                   *)
LEMMA SendCallbackStep ==
    ASSUME DeskInv, NEW f \in Flows, SendCallback(f)
    PROVE  DeskInv'
  <1> DEFINE r == [deskFlows[f] EXCEPT !.sent = TRUE]
  <1>1. deskFlows[f] \in DeskRecords /\ r \in DeskRecords
    BY DeskUpdates DEF DeskInv, BrokerTypeOK
  <1>2. /\ r.pc = deskFlows[f].pc
        /\ r.url = deskFlows[f].url
        /\ r.callback = deskFlows[f].callback
    BY <1>1 DEF DeskRecords
  <1>3. deskFlows[f].pc \in {"opening", "waiting"}
    BY <1>1 DEF DeskInv, DeskShape, DeskRecords, SendCallback
  <1>4. deskFlows' = [deskFlows EXCEPT ![f] = r]
    BY DEF SendCallback
  <1> HIDE DEF r
  <1> QED
    BY <1>1, <1>2, <1>3, <1>4, MarkDesk DEF SendCallback

(* A context ends.                                                         *)
LEMMA EndDeskContextStep ==
    ASSUME DeskInv, NEW f \in Flows, EndDeskContext(f)
    PROVE  DeskInv'
  <1> DEFINE r == [deskFlows[f] EXCEPT !.ended = TRUE]
  <1>1. deskFlows[f] \in DeskRecords /\ r \in DeskRecords
    BY DeskUpdates DEF DeskInv, BrokerTypeOK
  <1>2. /\ r.pc = deskFlows[f].pc
        /\ r.url = deskFlows[f].url
        /\ r.callback = deskFlows[f].callback
        /\ r.sent => r.callback # NoCallback
    BY <1>1 DEF DeskRecords, DeskInv, DeskShape
  <1>3. deskFlows' = [deskFlows EXCEPT ![f] = r]
    BY DEF EndDeskContext
  <1> HIDE DEF r
  <1> QED
    BY <1>1, <1>2, <1>3, MarkDesk DEF EndDeskContext

(* The browser opens, or the flow returns.                                 *)
LEMMA OpenBrowserStep ==
    ASSUME DeskInv, NEW f \in Flows, OpenBrowser(f)
    PROVE  DeskInv'
  <1>1. CASE /\ deskFlows' = [deskFlows EXCEPT ![f].pc = "waiting"]
             /\ UNCHANGED <<waiters, graceTimer, timers>>
    <2> DEFINE r == [deskFlows[f] EXCEPT !.pc = "waiting"]
    <2>1. deskFlows[f] \in DeskRecords /\ r \in DeskRecords
      BY DeskUpdates DEF DeskInv, BrokerTypeOK
    <2>2. /\ r.pc = "waiting"
          /\ r.url = deskFlows[f].url
          /\ r.callback = deskFlows[f].callback
          /\ r.sent => r.callback # NoCallback
      BY <2>1 DEF DeskRecords, DeskInv, DeskShape
    <2>3. deskFlows' = [deskFlows EXCEPT ![f] = r]
      BY <1>1
    <2> HIDE DEF r
    <2> QED
      BY <1>1, <2>1, <2>2, <2>3, MarkDesk DEF OpenBrowser
  <1>2. CASE deskFlows' = [deskFlows EXCEPT ![f] = ReturnedDesk("error")] /\ deregister(f)
    BY <1>2, ReturnDesk DEF OpenBrowser
  <1> QED
    BY <1>1, <1>2 DEF OpenBrowser

(* A flow returns with its callback or because its context ended.          *)
LEMMA ReturnDeskFlowStep ==
    ASSUME DeskInv, NEW f \in Flows, ReturnDeskFlow(f)
    PROVE  DeskInv'
  BY ReturnDesk DEF ReturnDeskFlow

(* A timer fires, or its callback has the mutex and closes an idle server. *)
LEMMA TimerStep ==
    ASSUME DeskInv, NEW t \in Timers, TimerNext(t)
    PROVE  DeskInv'
  <1>1. UNCHANGED <<logoutURI, waiters, deskFlows>>
    BY DEF TimerNext, TimerFires, graceShutdown
  <1>2. BrokerTypeOK'
    <2>1. CASE TimerFires(t)
      BY <2>1 DEF DeskInv, BrokerTypeOK, TimerFires
    <2>2. CASE graceShutdown(t)
      BY <2>2 DEF DeskInv, BrokerTypeOK, graceShutdown
    <2> QED
      BY <2>1, <2>2 DEF TimerNext
  <1>3. WaitersServed'
    BY DEF DeskInv, WaitersServed, TimerNext, TimerFires, graceShutdown
  <1> QED
    BY <1>1, <1>2, <1>3 DEF DeskInv, DeskShape, NotDisplaced

(* Every step of the desktop handler.                                      *)
LEMMA BrokerStep ==
    ASSUME DeskInv, BrokerNext
    PROVE  DeskInv'
  BY StartDeskFlowStep, EndDeskContextStep, OpenBrowserStep, SendCallbackStep,
     ReturnDeskFlowStep, handleStep, TimerStep DEF BrokerNext, DeskFlowNext

-----------------------------------------------------------------------------
(* Every step of the mobile handler keeps its invariant.                   *)

(* The updates of a mobile flow's record keep it well formed.              *)
LEMMA MobileUpdates ==
    ASSUME NEW r \in MobileRecords
    PROVE  /\ [r EXCEPT !.ended = TRUE] \in MobileRecords
           /\ \A url \in URLs : [r EXCEPT !.pc = "asked", !.url = url] \in MobileRecords
           /\ \A uri \in Targets :
                 [r EXCEPT !.pc = "started", !.redirectURI = uri] \in MobileRecords
           /\ [r EXCEPT !.pc = "opening", !.result = "none"] \in MobileRecords
           /\ \A pc \in {"waiting", "unregister", "last"} : [r EXCEPT !.pc = pc] \in MobileRecords
           /\ \A result \in {"unopened", "ended"} :
                 [r EXCEPT !.pc = "leaving", !.result = result] \in MobileRecords
           /\ [r EXCEPT !.pc = "leaving", !.result = "callback", !.queued = FALSE] \in MobileRecords
           /\ \A callback \in Callbacks :
                 [r EXCEPT !.callback = callback, !.delivered = TRUE, !.queued = TRUE]
                    \in MobileRecords
  BY Zenon DEF MobileRecords

(* A new flow and one that returned are records.                           *)
LEMMA MobileValues ==
    /\ NewMobileFlow \in MobileRecords
    /\ \A result \in {"callback", "invalid", "busy", "unopened", "ended"} :
          ReturnedMobile(result) \in MobileRecords
  BY Zenon DEF MobileRecords, NewMobileFlow, ReturnedMobile

(* Nothing is left of a flow that returned but its result.                 *)
LEMMA ReturnedMobileFields ==
    ASSUME NEW result
    PROVE  /\ ReturnedMobile(result).pc = "returned"
           /\ ReturnedMobile(result).url.state = NoFlow
           /\ ReturnedMobile(result).callback = NoCallback
           /\ ~ReturnedMobile(result).delivered
           /\ ~ReturnedMobile(result).queued
           /\ ReturnedMobile(result).result = result
  BY DEF NewMobileFlow, ReturnedMobile, NoURL

(* A step that concerns one flow keeps the invariant if it keeps that      *)
(* flow's part of it and registers no other flow.                          *)
LEMMA OneFlow ==
    ASSUME MobileInv, NEW f \in Flows, NEW r \in MobileRecords,
           mobileFlows' = [mobileFlows EXCEPT ![f] = r],
           active' \in {active, f, NoFlow}, logoutURI' \in Targets,
           active' = f => r.pc \in {"opening", "waiting", "unregister", "leaving"},
           FlowShape(f)'
    PROVE  MobileInv'
  <1>1. \A g \in Flows : g # f => mobileFlows'[g] = mobileFlows[g]
    BY DEF MobileInv, MobileTypeOK
  <1>2. MobileTypeOK'
    BY <1>1 DEF MobileInv, MobileTypeOK
  <1>3. ASSUME NEW g \in Flows, g # f
        PROVE  FlowShape(g)'
    BY <1>1, <1>3 DEF MobileInv, FlowShape, InFlow
  <1> QED
    BY <1>2, <1>3 DEF MobileInv

(* The URL of a flow is built.                                             *)
LEMMA BuildURLStep ==
    ASSUME MobileInv, NEW f \in Flows, BuildURL(f)
    PROVE  MobileInv'
  <1>1. PICK url \in URLsFor(f) :
           mobileFlows' = [mobileFlows EXCEPT ![f].pc = "asked", ![f].url = url]
    BY DEF BuildURL
  <1>2. url \in URLs /\ url.state \in {f, NoFlow}
    BY URLFacts DEF MobileInv, MobileTypeOK
  <1>3. MobileInv'
    <2> DEFINE r == [mobileFlows[f] EXCEPT !.pc = "asked", !.url = url]
    <2>1. mobileFlows[f] \in MobileRecords /\ r \in MobileRecords
      BY <1>2, MobileUpdates DEF MobileInv, MobileTypeOK
    <2>2. mobileFlows' = [mobileFlows EXCEPT ![f] = r] /\ mobileFlows'[f] = r
      BY <1>1 DEF MobileInv, MobileTypeOK, BuildURL
    <2>3. /\ r.pc = "asked"
          /\ r.url = url
          /\ r.redirectURI = mobileFlows[f].redirectURI
          /\ r.callback = mobileFlows[f].callback
          /\ r.delivered = mobileFlows[f].delivered
          /\ r.queued = mobileFlows[f].queued
          /\ r.result = mobileFlows[f].result
      BY <2>1 DEF MobileRecords
    <2> HIDE DEF r
    <2>4. FlowShape(f)'
      BY <1>2, <2>1, <2>2, <2>3 DEF MobileInv, MobileTypeOK, FlowShape, InFlow, BuildURL
    <2> QED
      BY <1>2, <2>1, <2>2, <2>3, <2>4, OneFlow DEF BuildURL, MobileInv, MobileTypeOK
  <1> QED
    BY <1>3

(* A context ends.                                                         *)
LEMMA EndContextStep ==
    ASSUME MobileInv, NEW f \in Flows, EndContext(f)
    PROVE  MobileInv'
  <1> DEFINE r == [mobileFlows[f] EXCEPT !.ended = TRUE]
  <1>1. mobileFlows[f] \in MobileRecords /\ r \in MobileRecords
    BY MobileUpdates DEF MobileInv, MobileTypeOK
  <1>2. mobileFlows' = [mobileFlows EXCEPT ![f] = r] /\ mobileFlows'[f] = r
    BY DEF MobileInv, MobileTypeOK, EndContext
  <1>3. /\ r.pc = mobileFlows[f].pc
        /\ r.url = mobileFlows[f].url
        /\ r.redirectURI = mobileFlows[f].redirectURI
        /\ r.callback = mobileFlows[f].callback
        /\ r.delivered = mobileFlows[f].delivered
        /\ r.queued = mobileFlows[f].queued
        /\ r.result = mobileFlows[f].result
    BY <1>1 DEF MobileRecords
  <1> HIDE DEF r
  <1>4. FlowShape(f)'
    BY <1>1, <1>2, <1>3 DEF MobileInv, MobileTypeOK, FlowShape, InFlow, EndContext
  <1> QED
    BY <1>1, <1>2, <1>3, <1>4, OneFlow DEF EndContext, MobileInv, MobileTypeOK

(* A flow reads the redirect URI.                                          *)
LEMMA StartFlowStep ==
    ASSUME MobileInv, NEW f \in Flows, StartFlow(f)
    PROVE  MobileInv'
  <1> DEFINE r == [mobileFlows[f] EXCEPT !.pc = "started", !.redirectURI = RedirectURI(f)]
  <1>1. RedirectURI(f) \in Targets
    BY DEF RedirectURI, MobileInv, MobileTypeOK, Targets
  <1>2. mobileFlows[f] \in MobileRecords /\ r \in MobileRecords
    BY <1>1, MobileUpdates DEF MobileInv, MobileTypeOK
  <1>3. mobileFlows' = [mobileFlows EXCEPT ![f] = r] /\ mobileFlows'[f] = r
    BY DEF MobileInv, MobileTypeOK, StartFlow
  <1>4. /\ r.pc = "started"
        /\ r.url = mobileFlows[f].url
        /\ r.callback = mobileFlows[f].callback
        /\ r.delivered = mobileFlows[f].delivered
        /\ r.queued = mobileFlows[f].queued
        /\ r.result = mobileFlows[f].result
    BY <1>2 DEF MobileRecords
  <1> HIDE DEF r
  <1>5. FlowShape(f)'
    BY <1>2, <1>3, <1>4 DEF MobileInv, MobileTypeOK, FlowShape, InFlow, StartFlow
  <1> QED
    BY <1>2, <1>3, <1>4, <1>5, OneFlow DEF StartFlow, MobileInv, MobileTypeOK

(* A flow is refused, or registers.                                        *)
LEMMA RegisterFlowStep ==
    ASSUME MobileInv, NEW f \in Flows, RegisterFlow(f)
    PROVE  MobileInv'
  <1>1. ASSUME NEW result \in {"invalid", "busy", "ended"}, Refused(f, result)
        PROVE  MobileInv'
    <2>1. ReturnedMobile(result) \in MobileRecords
      BY MobileValues
    <2>2. mobileFlows'[f] = ReturnedMobile(result)
      BY <1>1 DEF Refused, MobileInv, MobileTypeOK
    <2>3. FlowShape(f)'
      BY <1>1, <2>2, ReturnedMobileFields DEF FlowShape, InFlow
    <2>4. active # f
      BY DEF MobileInv, MobileTypeOK, RegisterFlow
    <2> QED
      BY <1>1, <2>1, <2>3, <2>4, OneFlow DEF Refused, RegisterFlow, MobileInv, MobileTypeOK
  <1>2. CASE /\ validURL(f) /\ active' = f
             /\ mobileFlows' = [mobileFlows EXCEPT ![f].pc = "opening", ![f].result = "none"]
    <2> DEFINE r == [mobileFlows[f] EXCEPT !.pc = "opening", !.result = "none"]
    <2>1. mobileFlows[f] \in MobileRecords /\ r \in MobileRecords
      BY MobileUpdates DEF MobileInv, MobileTypeOK
    <2>2. mobileFlows' = [mobileFlows EXCEPT ![f] = r] /\ mobileFlows'[f] = r
      BY <1>2 DEF MobileInv, MobileTypeOK, RegisterFlow
    <2>3. /\ r.pc = "opening"
          /\ r.url = mobileFlows[f].url
          /\ r.redirectURI = mobileFlows[f].redirectURI
          /\ r.callback = mobileFlows[f].callback
          /\ r.delivered = mobileFlows[f].delivered
          /\ r.queued = mobileFlows[f].queued
          /\ r.result = "none"
      BY <2>1 DEF MobileRecords
    <2> HIDE DEF r
    <2>4. FlowShape(f)'
      BY <1>2, <2>1, <2>2, <2>3 DEF MobileInv, MobileTypeOK, FlowShape, InFlow, validURL,
             RegisterFlow
    <2> QED
      BY <1>2, <2>1, <2>2, <2>3, <2>4, OneFlow DEF RegisterFlow, MobileInv, MobileTypeOK
  <1> QED
    BY <1>1, <1>2 DEF RegisterFlow

(* The browser opens, or the flow leaves.                                  *)
LEMMA OpenURLStep ==
    ASSUME MobileInv, NEW f \in Flows, OpenURL(f)
    PROVE  MobileInv'
  <1>1. CASE mobileFlows' = [mobileFlows EXCEPT ![f].pc = "waiting"]
    <2> DEFINE r == [mobileFlows[f] EXCEPT !.pc = "waiting"]
    <2>1. mobileFlows[f] \in MobileRecords /\ r \in MobileRecords
      BY MobileUpdates DEF MobileInv, MobileTypeOK
    <2>2. mobileFlows' = [mobileFlows EXCEPT ![f] = r] /\ mobileFlows'[f] = r
      BY <1>1 DEF MobileInv, MobileTypeOK, OpenURL
    <2>3. /\ r.pc = "waiting"
          /\ r.url = mobileFlows[f].url
          /\ r.redirectURI = mobileFlows[f].redirectURI
          /\ r.callback = mobileFlows[f].callback
          /\ r.delivered = mobileFlows[f].delivered
          /\ r.queued = mobileFlows[f].queued
          /\ r.result = mobileFlows[f].result
      BY <2>1 DEF MobileRecords
    <2> HIDE DEF r
    <2>4. FlowShape(f)'
      BY <2>1, <2>2, <2>3 DEF MobileInv, MobileTypeOK, FlowShape, InFlow, OpenURL
    <2> QED
      BY <2>1, <2>2, <2>3, <2>4, OneFlow DEF OpenURL, MobileInv, MobileTypeOK
  <1>2. CASE mobileFlows' = [mobileFlows EXCEPT ![f].pc = "leaving", ![f].result = "unopened"]
    <2> DEFINE r == [mobileFlows[f] EXCEPT !.pc = "leaving", !.result = "unopened"]
    <2>1. mobileFlows[f] \in MobileRecords /\ r \in MobileRecords
      BY MobileUpdates DEF MobileInv, MobileTypeOK
    <2>2. mobileFlows' = [mobileFlows EXCEPT ![f] = r] /\ mobileFlows'[f] = r
      BY <1>2 DEF MobileInv, MobileTypeOK, OpenURL
    <2>3. /\ r.pc = "leaving"
          /\ r.url = mobileFlows[f].url
          /\ r.redirectURI = mobileFlows[f].redirectURI
          /\ r.callback = mobileFlows[f].callback
          /\ r.delivered = mobileFlows[f].delivered
          /\ r.queued = mobileFlows[f].queued
          /\ r.result = "unopened"
      BY <2>1 DEF MobileRecords
    <2> HIDE DEF r
    <2>4. FlowShape(f)'
      BY <2>1, <2>2, <2>3 DEF MobileInv, MobileTypeOK, FlowShape, InFlow, OpenURL
    <2> QED
      BY <2>1, <2>2, <2>3, <2>4, OneFlow DEF OpenURL, MobileInv, MobileTypeOK
  <1> QED
    BY <1>1, <1>2 DEF OpenURL

(* The callback is received.                                               *)
LEMMA ReceiveStep ==
    ASSUME MobileInv, NEW f \in Flows, Receive(f)
    PROVE  MobileInv'
  <1> DEFINE r == [mobileFlows[f] EXCEPT !.pc = "leaving", !.result = "callback", !.queued = FALSE]
  <1>1. mobileFlows[f] \in MobileRecords /\ r \in MobileRecords
    BY MobileUpdates DEF MobileInv, MobileTypeOK
  <1>2. mobileFlows' = [mobileFlows EXCEPT ![f] = r] /\ mobileFlows'[f] = r
    BY DEF MobileInv, MobileTypeOK, Receive
  <1>3. /\ r.pc = "leaving"
        /\ r.url = mobileFlows[f].url
        /\ r.redirectURI = mobileFlows[f].redirectURI
        /\ r.callback = mobileFlows[f].callback
        /\ r.delivered = mobileFlows[f].delivered
        /\ ~r.queued
        /\ r.result = "callback"
    BY <1>1 DEF MobileRecords
  <1> HIDE DEF r
  <1>4. FlowShape(f)'
    BY <1>1, <1>2, <1>3 DEF MobileInv, MobileTypeOK, FlowShape, InFlow, Receive
  <1> QED
    BY <1>1, <1>2, <1>3, <1>4, OneFlow DEF Receive, MobileInv, MobileTypeOK

(* The flow sees the end of its context.                                   *)
LEMMA ChooseDoneStep ==
    ASSUME MobileInv, NEW f \in Flows, ChooseDone(f)
    PROVE  MobileInv'
  <1> DEFINE r == [mobileFlows[f] EXCEPT !.pc = "unregister"]
  <1>1. mobileFlows[f] \in MobileRecords /\ r \in MobileRecords
    BY MobileUpdates DEF MobileInv, MobileTypeOK
  <1>2. mobileFlows' = [mobileFlows EXCEPT ![f] = r] /\ mobileFlows'[f] = r
    BY DEF MobileInv, MobileTypeOK, ChooseDone
  <1>3. /\ r.pc = "unregister"
        /\ r.url = mobileFlows[f].url
        /\ r.redirectURI = mobileFlows[f].redirectURI
        /\ r.callback = mobileFlows[f].callback
        /\ r.delivered = mobileFlows[f].delivered
        /\ r.queued = mobileFlows[f].queued
        /\ r.result = mobileFlows[f].result
    BY <1>1 DEF MobileRecords
  <1> HIDE DEF r
  <1>4. FlowShape(f)'
    BY <1>1, <1>2, <1>3 DEF MobileInv, MobileTypeOK, FlowShape, InFlow, ChooseDone
  <1> QED
    BY <1>1, <1>2, <1>3, <1>4, OneFlow DEF ChooseDone, MobileInv, MobileTypeOK

(* The flow unregisters: nothing is delivered to it from here on.          *)
LEMMA UnregisterStep ==
    ASSUME MobileInv, NEW f \in Flows, Unregister(f)
    PROVE  MobileInv'
  <1> DEFINE r == [mobileFlows[f] EXCEPT !.pc = "last"]
  <1>1. mobileFlows[f] \in MobileRecords /\ r \in MobileRecords
    BY MobileUpdates DEF MobileInv, MobileTypeOK
  <1>2. mobileFlows' = [mobileFlows EXCEPT ![f] = r] /\ mobileFlows'[f] = r
    BY DEF MobileInv, MobileTypeOK, Unregister
  <1>3. /\ r.pc = "last"
        /\ r.url = mobileFlows[f].url
        /\ r.redirectURI = mobileFlows[f].redirectURI
        /\ r.callback = mobileFlows[f].callback
        /\ r.delivered = mobileFlows[f].delivered
        /\ r.queued = mobileFlows[f].queued
        /\ r.result = mobileFlows[f].result
    BY <1>1 DEF MobileRecords
  <1> HIDE DEF r
  <1>4. FlowShape(f)'
    BY <1>1, <1>2, <1>3 DEF MobileInv, MobileTypeOK, FlowShape, InFlow, Unregister
  <1> QED
    BY <1>1, <1>2, <1>3, <1>4, OneFlow DEF Unregister, MobileInv, MobileTypeOK

(* The last look finds nothing.                                            *)
LEMMA GiveUpStep ==
    ASSUME MobileInv, NEW f \in Flows, GiveUp(f)
    PROVE  MobileInv'
  <1> DEFINE r == [mobileFlows[f] EXCEPT !.pc = "leaving", !.result = "ended"]
  <1>1. mobileFlows[f] \in MobileRecords /\ r \in MobileRecords
    BY MobileUpdates DEF MobileInv, MobileTypeOK
  <1>2. mobileFlows' = [mobileFlows EXCEPT ![f] = r] /\ mobileFlows'[f] = r
    BY DEF MobileInv, MobileTypeOK, GiveUp
  <1>3. /\ r.pc = "leaving"
        /\ r.url = mobileFlows[f].url
        /\ r.redirectURI = mobileFlows[f].redirectURI
        /\ r.callback = mobileFlows[f].callback
        /\ r.delivered = mobileFlows[f].delivered
        /\ r.queued = mobileFlows[f].queued
        /\ r.result = "ended"
    BY <1>1 DEF MobileRecords
  <1> HIDE DEF r
  <1>4. FlowShape(f)'
    BY <1>1, <1>2, <1>3 DEF MobileInv, MobileTypeOK, FlowShape, InFlow, GiveUp
  <1> QED
    BY <1>1, <1>2, <1>3, <1>4, OneFlow DEF GiveUp, MobileInv, MobileTypeOK

(* The flow returns.                                                       *)
LEMMA ReturnFlowStep ==
    ASSUME MobileInv, NEW f \in Flows, ReturnFlow(f)
    PROVE  MobileInv'
  <1>1. mobileFlows[f].result \in {"callback", "unopened", "ended"}
    BY DEF MobileInv, FlowShape, ReturnFlow
  <1>2. ReturnedMobile(mobileFlows[f].result) \in MobileRecords
    BY <1>1, MobileValues
  <1>3. /\ mobileFlows' = [mobileFlows EXCEPT ![f] = ReturnedMobile(mobileFlows[f].result)]
        /\ mobileFlows'[f] = ReturnedMobile(mobileFlows[f].result)
    BY DEF ReturnFlow, MobileInv, MobileTypeOK
  <1>4. FlowShape(f)'
    BY <1>1, <1>3, ReturnedMobileFields DEF FlowShape, InFlow
  <1>5. active' # f
    BY DEF ReturnFlow
  <1> QED
    BY <1>2, <1>3, <1>4, <1>5, OneFlow DEF ReturnFlow, MobileInv, MobileTypeOK

(* A callback is delivered to the registered flow.                         *)
LEMMA DeliverURLStep ==
    ASSUME MobileInv, NEW callback \in Callbacks, DeliverURL(callback)
    PROVE  MobileInv'
  <1>1. PICK f \in Flows : f = active
    BY DEF MobileInv, MobileTypeOK, DeliverURL
  <1>2. MobileInv'
    <2> DEFINE r == [mobileFlows[f] EXCEPT !.callback = callback, !.delivered = TRUE, !.queued = TRUE]
    <2>1. mobileFlows[f] \in MobileRecords /\ r \in MobileRecords
      BY MobileUpdates DEF MobileInv, MobileTypeOK
    <2>2. mobileFlows' = [mobileFlows EXCEPT ![f] = r] /\ mobileFlows'[f] = r
      BY <1>1 DEF MobileInv, MobileTypeOK, DeliverURL
    <2>3. /\ r.pc = mobileFlows[f].pc
          /\ r.url = mobileFlows[f].url
          /\ r.redirectURI = mobileFlows[f].redirectURI
          /\ r.callback = callback
          /\ r.delivered
          /\ r.queued
          /\ r.result = mobileFlows[f].result
      BY <2>1 DEF MobileRecords
    <2> HIDE DEF r
    <2>4. FlowShape(f)'
      BY <1>1, CallbackFacts, <2>1, <2>2, <2>3 DEF MobileInv, MobileTypeOK, FlowShape, InFlow,
             DeliverURL
    <2> QED
      BY <1>1, CallbackFacts, <2>1, <2>2, <2>3, <2>4, OneFlow DEF DeliverURL, MobileInv,
             MobileTypeOK
  <1> QED
    BY <1>2

(* Every step of the mobile handler.                                       *)
LEMMA MobileStep ==
    ASSUME MobileInv, MobileNext
    PROVE  MobileInv'
  <1>1. CASE SetLogoutURI
    BY <1>1 DEF SetLogoutURI, MobileInv, MobileTypeOK, FlowShape, InFlow
  <1> QED
    BY <1>1, BuildURLStep, StartFlowStep, RegisterFlowStep, EndContextStep, OpenURLStep, ReceiveStep,
       ChooseDoneStep, UnregisterStep, GiveUpStep, ReturnFlowStep, DeliverURLStep
       DEF MobileNext, FlowNext

-----------------------------------------------------------------------------
(* The invariant of the composed specification.                            *)

(* No flow has been started.                                               *)
LEMMA InitInv == HandlersInit => Inv
  <1> SUFFICES ASSUME HandlersInit
               PROVE  Inv
    OBVIOUS
  <1>1. BrokerTypeOK
    BY DeskValues DEF HandlersInit, BrokerInit, BrokerTypeOK
  <1>2. DeskShape /\ WaitersServed /\ NotDisplaced
    BY DEF HandlersInit, BrokerInit, NewDeskFlow, NoURL, DeskShape, WaitersServed, NotDisplaced
  <1>3. MobileTypeOK
    BY MobileValues DEF HandlersInit, BrokerInit, MobileTypeOK
  <1>4. ASSUME NEW f \in Flows
        PROVE  FlowShape(f)
    BY DEF HandlersInit, NewMobileFlow, NoURL, FlowShape, InFlow
  <1> QED
    BY <1>1, <1>2, <1>3, <1>4 DEF Inv, DeskInv, MobileInv

(* Every step of either handler, and stuttering, keeps the invariant.      *)
LEMMA NextInv ==
    ASSUME Inv, [HandlersNext]_handlerVars
    PROVE  Inv'
  <1>1. CASE Desktop
    <2>1. DeskInv'
      BY <1>1, BrokerStep DEF Desktop, Inv
    <2>2. MobileInv'
      BY <1>1, <2>1 DEF Desktop, Inv, DeskInv, BrokerTypeOK, MobileInv, MobileTypeOK, FlowShape,
                        InFlow
    <2> QED
      BY <2>1, <2>2 DEF Inv
  <1>2. CASE Mobile
    <2>1. MobileInv'
      BY <1>2, MobileStep DEF Mobile, Inv
    <2>2. DeskInv'
      BY <1>2, <2>1 DEF Mobile, Inv, MobileInv, MobileTypeOK, DeskInv, BrokerTypeOK, DeskShape,
                        WaitersServed, NotDisplaced
    <2> QED
      BY <2>1, <2>2 DEF Inv
  <1>3. CASE UNCHANGED handlerVars
    BY <1>3 DEF handlerVars, Inv, DeskInv, BrokerTypeOK, DeskShape, WaitersServed, NotDisplaced,
                MobileInv, MobileTypeOK, FlowShape, InFlow
  <1> QED
    BY <1>1, <1>2, <1>3 DEF HandlersNext

(* Inv is an invariant of the specification.                               *)
LEMMA Invariant == HandlersSpec => []Inv
  BY InitInv, NextInv, PTL DEF HandlersSpec

-----------------------------------------------------------------------------
(* The refinement.                                                         *)

(* What a change of one desktop flow is in the contract.                   *)
LEMMA DesktopCall ==
    ASSUME DeskInv, NEW f \in Flows, NEW r, deskFlows' = [deskFlows EXCEPT ![f] = r]
    PROVE  DesktopCalls' = [DesktopCalls EXCEPT ![f] =
              [running |-> r.pc \in {"opening", "waiting"}, url |-> r.url,
               answer |-> r.callback, result |-> r.result]]
  BY DEF DeskInv, BrokerTypeOK, DesktopCalls

(* The instance of the contract speaks of the same flows, URLs, callbacks  *)
(* and records.                                                            *)
LEMMA DesktopNames ==
    /\ DesktopContract!Flows = Flows
    /\ DesktopContract!URLs = URLs
    /\ DesktopContract!Callbacks = Callbacks
    /\ DesktopContract!NoCallback = NoCallback
    /\ \A result : DesktopContract!Idle(result) =
          [running |-> FALSE, url |-> NoURL, answer |-> NoCallback, result |-> result]
    /\ \A url : DesktopContract!Running(url) =
          [running |-> TRUE, url |-> url, answer |-> NoCallback, result |-> "none"]
  <1>1. DesktopContract!Flows = Flows
    BY DEF DesktopContract!Flows, Flows
  <1>2. DesktopContract!URLs = URLs
    BY <1>1 DEF DesktopContract!URLs, DesktopContract!Targets, URLs, Targets
  <1>3. DesktopContract!Callbacks = Callbacks
    BY <1>1 DEF DesktopContract!Callbacks, DesktopContract!Targets, Callbacks, Targets
  <1>4. DesktopContract!NoCallback = NoCallback /\ DesktopContract!NoURL = NoURL
    BY DEF DesktopContract!NoCallback, DesktopContract!NoURL, NoCallback, NoURL
  <1> QED
    BY <1>1, <1>2, <1>3, <1>4 DEF DesktopContract!Idle, DesktopContract!Running

(* A desktop call that returns does so in the contract.                    *)
LEMMA DesktopReturns ==
    ASSUME DeskInv, NEW f \in Flows, NEW result \in {"callback", "error"},
           deskFlows' = [deskFlows EXCEPT ![f] = ReturnedDesk(result)]
    PROVE  DesktopContract!Return(f, result)
  <1> DEFINE r == ReturnedDesk(result)
  <1>1. [running |-> r.pc \in {"opening", "waiting"}, url |-> r.url, answer |-> r.callback,
         result |-> r.result] =
        [running |-> FALSE, url |-> NoURL, answer |-> NoCallback, result |-> result]
    <2>1. /\ (r.pc \in {"opening", "waiting"}) = FALSE
          /\ r.url = NoURL /\ r.callback = NoCallback /\ r.result = result
      BY ReturnedFields
    <2> QED
      BY <2>1, Zenon
  <1>2. DesktopCalls' = [DesktopCalls EXCEPT ![f] =
           [running |-> r.pc \in {"opening", "waiting"}, url |-> r.url, answer |-> r.callback,
            result |-> r.result]]
    BY DesktopCall
  <1> QED
    BY <1>1, <1>2, DesktopNames DEF DesktopContract!Return

(* Starting a desktop flow starts a call, or fails it at once.             *)
LEMMA StartDeskFlowContract ==
    ASSUME DeskInv, NEW f \in Flows, StartDeskFlow(f)
    PROVE  DesktopContract!Start(f) \/ DesktopContract!ReturnError(f)
  <1>1. PICK url \in URLsFor(f) : register(f, url) \/ RefuseDuplicate(f, url)
    BY DEF StartDeskFlow
  <1>2. url \in URLs
    BY URLFacts DEF DeskInv, BrokerTypeOK
  <1>3. CASE deskFlows' = [deskFlows EXCEPT ![f] = ReturnedDesk("error")]
    BY <1>3, DesktopReturns DEF DesktopContract!ReturnError
  <1>4. CASE deskFlows' = [deskFlows EXCEPT ![f] = [NewDeskFlow EXCEPT !.pc = "opening", !.url = url]]
    <2> DEFINE r == [NewDeskFlow EXCEPT !.pc = "opening", !.url = url]
    <2>1. /\ (r.pc \in {"opening", "waiting"}) = TRUE
          /\ r.url = url /\ r.callback = NoCallback /\ r.result = "none"
      BY DEF NewDeskFlow
    <2>2. [running |-> r.pc \in {"opening", "waiting"}, url |-> r.url, answer |-> r.callback,
           result |-> r.result] =
          [running |-> TRUE, url |-> url, answer |-> NoCallback, result |-> "none"]
      BY <2>1, Zenon
    <2>3. DesktopCalls' = [DesktopCalls EXCEPT ![f] =
             [running |-> r.pc \in {"opening", "waiting"}, url |-> r.url, answer |-> r.callback,
              result |-> r.result]]
      BY <1>4, DesktopCall
    <2>4. DesktopCalls' = [DesktopCalls EXCEPT ![f] = DesktopContract!Running(url)]
      BY <2>2, <2>3, DesktopNames
    <2>5. ~DesktopCalls[f].running
      BY DEF DesktopCalls, StartDeskFlow
    <2> QED
      BY <1>2, <2>4, <2>5, DesktopNames DEF DesktopContract!Start
  <1> QED
    BY <1>1, <1>3, <1>4 DEF register, RefuseDuplicate

(* A matched request is the answer to the call it was sent for.            *)
LEMMA handleContract ==
    ASSUME DeskInv, NEW callback \in Callbacks, handle(callback)
    PROVE  \E f \in Flows : DesktopContract!Accept(f)
  <1>1. PICK f \in Registered(callbackKey(callback.target, callback.state)) :
           deskFlows' = [deskFlows EXCEPT ![f].callback = callback]
    BY DEF handle
  <1>2. f \in Flows /\ f \in waiters
    BY DEF Registered, DeskInv, BrokerTypeOK
  <1>3. DesktopContract!Answers(f, callback)
    BY <1>2 DEF DesktopContract!Answers, DesktopCalls, Registered, Key, callbackKey
  <1>4. DesktopCalls[f].running /\ DesktopCalls[f].answer = NoCallback
    BY <1>2 DEF DesktopCalls, DeskInv, DeskShape
  <1>5. DesktopCalls' = [DesktopCalls EXCEPT ![f].answer = callback]
    BY <1>1, <1>2 DEF DesktopCalls, DeskInv, BrokerTypeOK, DeskRecords
  <1> QED
    BY <1>2, <1>3, <1>4, <1>5, DesktopNames DEF DesktopContract!Accept

(* A flow returns its callback only after it was answered.                 *)
LEMMA ReturnDeskFlowContract ==
    ASSUME DeskInv, NEW f \in Flows, ReturnDeskFlow(f)
    PROVE  DesktopContract!ReturnCallback(f) \/ DesktopContract!ReturnError(f)
  <1>1. CASE /\ deskFlows[f].sent
             /\ deskFlows' = [deskFlows EXCEPT ![f] = ReturnedDesk("callback")]
    <2>1. DesktopCalls[f].running /\ DesktopCalls[f].answer # NoCallback
      BY <1>1 DEF DesktopCalls, DeskInv, DeskShape, ReturnDeskFlow
    <2> QED
      BY <1>1, <2>1, DesktopReturns, DesktopNames DEF DesktopContract!ReturnCallback
  <1>2. CASE deskFlows' = [deskFlows EXCEPT ![f] = ReturnedDesk("error")]
    BY <1>2, DesktopReturns DEF DesktopContract!ReturnError
  <1> QED
    BY <1>1, <1>2 DEF ReturnDeskFlow

(* Opening the browser changes nothing for the caller, unless it fails.    *)
LEMMA OpenBrowserContract ==
    ASSUME DeskInv, NEW f \in Flows, OpenBrowser(f)
    PROVE  DesktopContract!ReturnError(f) \/ UNCHANGED DesktopCalls
  <1>1. CASE deskFlows' = [deskFlows EXCEPT ![f].pc = "waiting"]
    BY <1>1 DEF DesktopCalls, DeskInv, BrokerTypeOK, DeskRecords, OpenBrowser
  <1>2. CASE deskFlows' = [deskFlows EXCEPT ![f] = ReturnedDesk("error")]
    BY <1>2, DesktopReturns DEF DesktopContract!ReturnError
  <1> QED
    BY <1>1, <1>2 DEF OpenBrowser

(* Neither does sending to the channel, nor the end of a context as such.  *)
LEMMA MarkDeskContract ==
    ASSUME DeskInv, NEW f \in Flows, SendCallback(f) \/ EndDeskContext(f)
    PROVE  UNCHANGED DesktopCalls
  BY DEF DesktopCalls, DeskInv, BrokerTypeOK, DeskRecords, SendCallback, EndDeskContext

(* Every step is a step of the contract or changes nothing for callers.    *)
LEMMA DesktopContractStep ==
    ASSUME Inv, [HandlersNext]_handlerVars
    PROVE  [DesktopContract!ContractNext]_DesktopCalls
  <1>1. CASE UNCHANGED deskFlows
    BY <1>1 DEF DesktopCalls
  <1>2. CASE Desktop
    <2>1. CASE \E callback \in Callbacks : handle(callback)
      BY <2>1, handleContract, DesktopNames DEF Inv, DesktopContract!ContractNext
    <2>2. CASE \E t \in Timers : TimerNext(t)
      BY <1>1, <2>2 DEF TimerNext, TimerFires, graceShutdown
    <2>3. ASSUME NEW f \in Flows, StartDeskFlow(f) \/ EndDeskContext(f) \/ DeskFlowNext(f)
          PROVE  \/ DesktopContract!Start(f)
                 \/ DesktopContract!ReturnCallback(f)
                 \/ DesktopContract!ReturnError(f)
                 \/ UNCHANGED DesktopCalls
      BY <2>3, StartDeskFlowContract, MarkDeskContract, OpenBrowserContract,
         ReturnDeskFlowContract DEF Inv, DeskFlowNext
    <2>4. CASE \E f \in Flows : StartDeskFlow(f) \/ EndDeskContext(f) \/ DeskFlowNext(f)
      BY <2>3, <2>4, DesktopNames DEF DesktopContract!ContractNext
    <2> QED
      BY <1>2, <2>1, <2>2, <2>4 DEF Desktop, BrokerNext
  <1> QED
    BY <1>1, <1>2 DEF HandlersNext, Mobile, handlerVars

(* No call has been made.                                                  *)
LEMMA DesktopContractInit ==
    ASSUME HandlersInit
    PROVE  DesktopContract!ContractInit
  <1>1. ASSUME NEW f \in Flows
        PROVE  [running |-> deskFlows[f].pc \in {"opening", "waiting"}, url |-> deskFlows[f].url,
                answer |-> deskFlows[f].callback, result |-> deskFlows[f].result] =
               [running |-> FALSE, url |-> NoURL, answer |-> NoCallback, result |-> "none"]
    <2>1. /\ (deskFlows[f].pc \in {"opening", "waiting"}) = FALSE
          /\ deskFlows[f].url = NoURL
          /\ deskFlows[f].callback = NoCallback
          /\ deskFlows[f].result = "none"
      BY DEF HandlersInit, BrokerInit, NewDeskFlow
    <2> QED
      BY <2>1, Zenon
  <1> QED
    BY <1>1, DesktopNames DEF DesktopContract!ContractInit, DesktopCalls

(* The instance of the contract for the mobile handler.                    *)
LEMMA MobileNames ==
    /\ MobileContract!Flows = Flows
    /\ MobileContract!URLs = URLs
    /\ MobileContract!Callbacks = Callbacks
    /\ MobileContract!NoCallback = NoCallback
    /\ \A result : MobileContract!Idle(result) =
          [running |-> FALSE, url |-> NoURL, answer |-> NoCallback, result |-> result]
    /\ \A url : MobileContract!Running(url) =
          [running |-> TRUE, url |-> url, answer |-> NoCallback, result |-> "none"]
  <1>1. MobileContract!Flows = Flows
    BY DEF MobileContract!Flows, Flows
  <1>2. MobileContract!URLs = URLs
    BY <1>1 DEF MobileContract!URLs, MobileContract!Targets, URLs, Targets
  <1>3. MobileContract!Callbacks = Callbacks
    BY <1>1 DEF MobileContract!Callbacks, MobileContract!Targets, Callbacks, Targets
  <1>4. MobileContract!NoCallback = NoCallback /\ MobileContract!NoURL = NoURL
    BY DEF MobileContract!NoCallback, MobileContract!NoURL, NoCallback, NoURL
  <1> QED
    BY <1>1, <1>2, <1>3, <1>4 DEF MobileContract!Idle, MobileContract!Running

(* A step that concerns one mobile flow concerns one call.                 *)
LEMMA MobileCall ==
    ASSUME MobileInv, NEW f \in Flows, NEW r, mobileFlows' = [mobileFlows EXCEPT ![f] = r],
           NEW c, MobileCalls'[f] = c
    PROVE  MobileCalls' = [MobileCalls EXCEPT ![f] = c]
  BY DEF MobileInv, MobileTypeOK, MobileCalls, InFlow

(* A mobile call that returns, or is refused, does so in the contract.     *)
LEMMA MobileReturns ==
    ASSUME MobileInv, NEW f \in Flows,
           NEW result \in {"callback", "invalid", "busy", "unopened", "ended"},
           mobileFlows' = [mobileFlows EXCEPT ![f] = ReturnedMobile(result)]
    PROVE  MobileContract!Return(f, IF result = "callback" THEN "callback" ELSE "error")
  <1>1. mobileFlows'[f] = ReturnedMobile(result)
    BY DEF MobileInv, MobileTypeOK
  <1>2. MobileCalls'[f].running = FALSE /\ ~InFlow(f)'
    BY <1>1, ReturnedMobileFields DEF MobileCalls, InFlow
  <1>3. MobileCalls'[f] = [running |-> FALSE, url |-> NoURL, answer |-> NoCallback,
                           result |-> IF result = "callback" THEN "callback" ELSE "error"]
    BY <1>1, <1>2, ReturnedMobileFields DEF MobileCalls
  <1> QED
    BY <1>3, MobileCall, MobileNames DEF MobileContract!Return

(* Registering a mobile flow starts a call, or fails it at once.           *)
LEMMA RegisterFlowContract ==
    ASSUME MobileInv, NEW f \in Flows, RegisterFlow(f)
    PROVE  MobileContract!Start(f) \/ MobileContract!ReturnError(f)
  <1>1. ASSUME NEW result \in {"invalid", "busy", "ended"}, Refused(f, result)
        PROVE  MobileContract!ReturnError(f)
    BY <1>1, MobileReturns DEF Refused, MobileContract!ReturnError
  <1>2. CASE mobileFlows' = [mobileFlows EXCEPT ![f].pc = "opening", ![f].result = "none"]
    <2> DEFINE r == [mobileFlows[f] EXCEPT !.pc = "opening", !.result = "none"]
    <2>1. mobileFlows[f] \in MobileRecords
      BY DEF MobileInv, MobileTypeOK
    <2>2. r.pc = "opening" /\ r.url = mobileFlows[f].url /\ r.callback = mobileFlows[f].callback
      BY <2>1 DEF MobileRecords
    <2>3. mobileFlows' = [mobileFlows EXCEPT ![f] = r] /\ mobileFlows'[f] = r
      BY <1>2 DEF MobileInv, MobileTypeOK
    <2>4. mobileFlows[f].url \in URLs /\ mobileFlows[f].callback = NoCallback
      BY DEF MobileInv, FlowShape, InFlow, RegisterFlow
    <2> HIDE DEF r
    <2>5. InFlow(f)' = TRUE /\ MobileCalls[f].running = FALSE
      BY <2>2, <2>3 DEF InFlow, MobileCalls, RegisterFlow
    <2>6. MobileCalls'[f] = [running |-> InFlow(f)', url |-> mobileFlows[f].url, answer |-> NoCallback,
                             result |-> "none"]
      BY <2>2, <2>3, <2>4, <2>5 DEF MobileCalls
    <2>7. MobileCalls'[f] = MobileContract!Running(mobileFlows[f].url)
      BY <2>5, <2>6, MobileNames
    <2> QED
      BY <2>3, <2>4, <2>5, <2>7, MobileCall, MobileNames DEF MobileContract!Start
  <1> QED
    BY <1>1, <1>2 DEF RegisterFlow

(* A delivered callback is the answer to the call it was sent for.         *)
LEMMA DeliverURLContract ==
    ASSUME MobileInv, NEW callback \in Callbacks, DeliverURL(callback)
    PROVE  \E f \in Flows : MobileContract!Accept(f)
  <1>1. PICK f \in Flows : f = active
    BY DEF MobileInv, MobileTypeOK, DeliverURL
  <1>2. InFlow(f)
    BY <1>1 DEF MobileInv, MobileTypeOK, InFlow, DeliverURL
  <1>3. MobileContract!Answers(f, callback)
    BY <1>1, <1>2 DEF MobileContract!Answers, MobileCalls, MobileInv, FlowShape, DeliverURL,
           matches,
       sameCallbackTarget
  <1>4. MobileCalls[f].running /\ MobileCalls[f].answer = NoCallback
    BY <1>1, <1>2 DEF MobileCalls, MobileInv, FlowShape, DeliverURL
  <1>5. MobileCalls' = [MobileCalls EXCEPT ![f].answer = callback]
    <2> DEFINE r == [mobileFlows[f] EXCEPT !.callback = callback, !.delivered = TRUE,
                                           !.queued = TRUE]
    <2>1. mobileFlows[f] \in MobileRecords
      BY DEF MobileInv, MobileTypeOK
    <2>2. /\ r.pc = mobileFlows[f].pc /\ r.url = mobileFlows[f].url
          /\ r.result = mobileFlows[f].result /\ r.callback = callback
      BY <2>1 DEF MobileRecords
    <2>3. mobileFlows' = [mobileFlows EXCEPT ![f] = r] /\ mobileFlows'[f] = r
      BY <1>1 DEF MobileInv, MobileTypeOK, DeliverURL
    <2> HIDE DEF r
    <2>4. InFlow(f)' = InFlow(f)
      BY <2>2, <2>3 DEF InFlow
    <2>5. MobileCalls'[f] = [MobileCalls[f] EXCEPT !.answer = callback]
      BY <2>2, <2>3, <2>4 DEF MobileCalls
    <2> QED
      BY <2>3, <2>5, MobileCall
  <1> QED
    BY <1>3, <1>4, <1>5, MobileNames DEF MobileContract!Accept

(* A flow returns its callback only after it was answered.                 *)
LEMMA ReturnFlowContract ==
    ASSUME MobileInv, NEW f \in Flows, ReturnFlow(f)
    PROVE  MobileContract!ReturnCallback(f) \/ MobileContract!ReturnError(f)
  <1>1. mobileFlows[f].result \in {"callback", "unopened", "ended"}
    BY DEF MobileInv, FlowShape, ReturnFlow
  <1>2. MobileContract!Return(f, IF mobileFlows[f].result = "callback" THEN "callback" ELSE "error")
    BY <1>1, MobileReturns DEF ReturnFlow
  <1>3. CASE mobileFlows[f].result = "callback"
    <2>1. MobileCalls[f].running /\ MobileCalls[f].answer # NoCallback
      BY <1>3 DEF MobileCalls, InFlow, MobileInv, FlowShape, ReturnFlow
    <2> QED
      BY <1>2, <1>3, <2>1, MobileNames DEF MobileContract!ReturnCallback
  <1>4. CASE mobileFlows[f].result # "callback"
    BY <1>2, <1>4 DEF MobileContract!ReturnError
  <1> QED
    BY <1>3, <1>4

(* What happens inside the handler is not seen by callers.                 *)
LEMMA InsideContract ==
    ASSUME MobileInv, NEW f \in Flows,
           \/ BuildURL(f) \/ StartFlow(f) \/ EndContext(f) \/ OpenURL(f) \/ Receive(f) \/ ChooseDone(f)
           \/ Unregister(f) \/ GiveUp(f)
    PROVE  UNCHANGED MobileCalls
  <1> USE DEF MobileCalls, MobileInv, MobileTypeOK, MobileRecords, InFlow
  <1>1. CASE BuildURL(f)
    <2>1. PICK url \in URLsFor(f) :
             mobileFlows' = [mobileFlows EXCEPT ![f].pc = "asked", ![f].url = url]
      BY <1>1 DEF BuildURL
    <2> DEFINE r == [mobileFlows[f] EXCEPT !.pc = "asked", !.url = url]
    <2>2. /\ r.pc = "asked"
          /\ r.callback = mobileFlows[f].callback
          /\ r.result = mobileFlows[f].result
      OBVIOUS
    <2>3. \A g \in Flows : mobileFlows'[g] = IF g = f THEN r ELSE mobileFlows[g]
      BY <2>1
    <2>4. mobileFlows[f].pc \in {"new", "returned"}
      BY <1>1 DEF BuildURL
    <2> HIDE DEF r, MobileInv, MobileTypeOK, MobileRecords
    <2>5. ~InFlow(f) /\ ~InFlow(f)'
      BY <2>2, <2>3, <2>4
    <2>6. ASSUME NEW g \in Flows
          PROVE  MobileCalls'[g] = MobileCalls[g]
      BY <2>2, <2>3, <2>5
    <2>7. MobileCalls = [g \in Flows |-> MobileCalls[g]] /\ MobileCalls' = [g \in Flows |-> MobileCalls'[g]]
      OBVIOUS
    <2> QED
      BY <2>6, <2>7, Zenon
  <1>2. CASE EndContext(f)
    BY <1>2 DEF EndContext
  <1>3. CASE OpenURL(f)
    BY <1>3 DEF OpenURL
  <1>4. CASE Receive(f)
    BY <1>4 DEF Receive
  <1>5. CASE ChooseDone(f)
    BY <1>5 DEF ChooseDone
  <1>6. CASE Unregister(f)
    BY <1>6 DEF Unregister
  <1>7. CASE GiveUp(f)
    BY <1>7 DEF GiveUp
  <1>8. CASE StartFlow(f)
    BY <1>8 DEF StartFlow
  <1> QED
    BY <1>1, <1>2, <1>3, <1>4, <1>5, <1>6, <1>7, <1>8

(* Every step is a step of the contract or changes nothing for callers.    *)
LEMMA MobileContractStep ==
    ASSUME Inv, [HandlersNext]_handlerVars
    PROVE  [MobileContract!ContractNext]_MobileCalls
  <1>1. CASE UNCHANGED mobileFlows
    BY <1>1 DEF MobileCalls, InFlow
  <1>2. CASE Mobile
    <2>1. CASE \E callback \in Callbacks : DeliverURL(callback)
      BY <2>1, DeliverURLContract, MobileNames DEF Inv, MobileContract!ContractNext
    <2>2. CASE SetLogoutURI
      BY <1>1, <2>2 DEF SetLogoutURI
    <2>3. ASSUME NEW f \in Flows,
                 BuildURL(f) \/ StartFlow(f) \/ RegisterFlow(f) \/ EndContext(f) \/ FlowNext(f)
          PROVE  \/ MobileContract!Start(f)
                 \/ MobileContract!ReturnCallback(f)
                 \/ MobileContract!ReturnError(f)
                 \/ UNCHANGED MobileCalls
      BY <2>3, RegisterFlowContract, ReturnFlowContract, InsideContract DEF Inv, FlowNext
    <2>4. CASE \E f \in Flows :
                 BuildURL(f) \/ StartFlow(f) \/ RegisterFlow(f) \/ EndContext(f) \/ FlowNext(f)
      BY <2>3, <2>4, MobileNames DEF MobileContract!ContractNext
    <2> QED
      BY <1>2, <2>1, <2>2, <2>4 DEF Mobile, MobileNext
  <1> QED
    BY <1>1, <1>2 DEF HandlersNext, Desktop, handlerVars

(* No call has been made.                                                  *)
LEMMA MobileContractInit ==
    ASSUME HandlersInit
    PROVE  MobileContract!ContractInit
  <1>1. ASSUME NEW f \in Flows
        PROVE  MobileCalls[f] =
               [running |-> FALSE, url |-> NoURL, answer |-> NoCallback, result |-> "none"]
    <2>1. /\ InFlow(f) = FALSE
          /\ mobileFlows[f].callback = NoCallback
          /\ mobileFlows[f].result = "none"
      BY DEF HandlersInit, NewMobileFlow, InFlow
    <2> QED
      BY <2>1 DEF MobileCalls
  <1>2. MobileCalls = [f \in Flows |-> MobileCalls[f]]
    BY DEF MobileCalls
  <1> QED
    BY <1>1, <1>2, MobileNames DEF MobileContract!ContractInit

-----------------------------------------------------------------------------
(* The theorems.                                                           *)

(* The state of both handlers is well typed; the broker knows only timers  *)
(* that have not run yet, and the registered mobile flow has not returned. *)
THEOREM HandlersTypeCorrect == HandlersSpec => [](BrokerTypeOK /\ MobileTypeOK)
  <1>1. Inv => BrokerTypeOK /\ MobileTypeOK
    BY DEF Inv, DeskInv, MobileInv
  <1> QED
    BY <1>1, Invariant, PTL

(* A registered desktop flow always has a server for its callback,         *)
(* whatever timers register was too late to stop.                          *)
THEOREM WaitersAlwaysServed == HandlersSpec => []WaitersServed
  <1>1. Inv => WaitersServed
    BY DEF Inv, DeskInv
  <1> QED
    BY <1>1, Invariant, PTL

(* No late deregister takes away the registration of another desktop flow. *)
THEOREM NeverDisplaced == HandlersSpec => []NotDisplaced
  <1>1. Inv => NotDisplaced
    BY DEF Inv, DeskInv
  <1> QED
    BY <1>1, Invariant, PTL

(* A mobile flow that reports the end of its context accepted no callback. *)
THEOREM AcceptedIsAlwaysReturned == HandlersSpec => []AcceptedIsReturned
  <1>1. Inv => AcceptedIsReturned
    BY DEF Inv, MobileInv, MobileTypeOK, MobileRecords, FlowShape, InFlow, AcceptedIsReturned
  <1> QED
    BY <1>1, Invariant, PTL

(* The desktop handler implements the contract of the flow handlers.       *)
THEOREM DesktopImplementsContract == HandlersSpec => DesktopKeepsContract
  BY Invariant, DesktopContractInit, DesktopContractStep, PTL
     DEF HandlersSpec, DesktopKeepsContract, DesktopContract!ContractSpec

(* So does the mobile handler.                                             *)
THEOREM MobileImplementsContract == HandlersSpec => MobileKeepsContract
  BY Invariant, MobileContractInit, MobileContractStep, PTL
     DEF HandlersSpec, MobileKeepsContract, MobileContract!ContractSpec
=============================================================================
