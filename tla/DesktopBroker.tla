--------------------------- MODULE DesktopBroker ---------------------------
(***************************************************************************)
(* The desktop handler and its callback broker: one localhost server for   *)
(* all flows, opened by the first and closed a grace period after the      *)
(* last, by a time.AfterFunc timer whose callback takes the same mutex as  *)
(* everybody else.  Requests find their flow by path and state.            *)
(*                                                                         *)
(* The port, the browser and the requests it makes are external.           *)
(* SetLogoutURI and SetLogoutPath are not synchronized with anything, so   *)
(* they come before the first flow.                                        *)
(***************************************************************************)
EXTENDS Callbacks, Naturals

CONSTANT MaxTimers  \* bound: timers that are armed or whose callbacks wait

ASSUME BrokerAssumption == MaxTimers \in Nat \ {0}

Timers == 1..MaxTimers

VARIABLES
    waiters,    \* the registered flows
    serverUp,
    graceTimer, \* the timer the broker knows of, or 0
    timers,     \* "unused", "armed" or "fired": the callback waits for the mutex
    deskFlows

brokerVars == <<logoutURI, waiters, serverUp, graceTimer, timers, deskFlows>>

\* pc: "new", "opening" the browser, "waiting", "returned".  callback is the
\* request that handle matched, sent is TRUE once it is in the flow's channel.
NewDeskFlow == [pc |-> "new", url |-> NoURL, callback |-> NoCallback, sent |-> FALSE,
                ended |-> FALSE, result |-> "none"]

ReturnedDesk(result) == [NewDeskFlow EXCEPT !.pc = "returned", !.result = result]

DeskRecords ==
    [pc: {"new", "opening", "waiting", "returned"}, url: URLs \cup {NoURL},
     callback: Callbacks \cup {NoCallback}, sent: BOOLEAN, ended: BOOLEAN,
     result: {"none", "callback", "error"}]

\* The types, and that the broker knows only timers that have not run yet.
BrokerTypeOK ==
    /\ logoutURI \in Targets
    /\ waiters \subseteq Flows
    /\ serverUp \in BOOLEAN
    /\ graceTimer \in {0} \cup Timers
    /\ timers \in [Timers -> {"unused", "armed", "fired"}]
    /\ deskFlows \in [Flows -> DeskRecords]
    /\ graceTimer # 0 => serverUp /\ timers[graceTimer] \in {"armed", "fired"}

\* New, NewWithURI, SetLogoutURI and newBroker.
BrokerInit ==
    /\ logoutURI \in Targets
    /\ waiters = {}
    /\ serverUp = FALSE
    /\ graceTimer = 0
    /\ timers = [t \in Timers |-> "unused"]
    /\ deskFlows = [f \in Flows |-> NewDeskFlow]

-----------------------------------------------------------------------------
(* The broker.                                                             *)

\* Timer.Stop prevents a callback only if the timer has not fired.
Stopped(t) ==
    [u \in Timers |-> IF u = t /\ timers[u] = "armed" THEN "unused" ELSE timers[u]]

\* startLocked, where there is no server yet.  Binding the port may fail.
startLocked(bound) ==
    /\ serverUp => bound
    /\ serverUp' = bound

\* Bug: the state is left out of the key.
Bug_callbackKey(path, state) == <<path, NoFlow>>

callbackKey(path, state) == <<path, state>>

\* The path of a handler's flow is that of the redirect URI.
Key(url) == callbackKey(url.redirect, url.state)

Registered(key) == {f \in waiters : Key(deskFlows[f].url) = key}

\* Bug: the timer is stopped and stays recorded.
Bug_register(f, url) ==
    /\ Registered(Key(url)) = {}
    /\ timers' = Stopped(graceTimer)
    /\ serverUp' = TRUE
    /\ waiters' = waiters \cup {f}
    /\ deskFlows' = [deskFlows EXCEPT ![f] = [NewDeskFlow EXCEPT !.pc = "opening", !.url = url]]
    /\ UNCHANGED graceTimer

\* register, where the key is not taken.
register(f, url) ==
    /\ Registered(Key(url)) = {}
    /\ timers' = Stopped(graceTimer)
    /\ graceTimer' = 0
    /\ \E bound \in BOOLEAN :
          /\ startLocked(bound)
          /\ waiters' = IF bound THEN waiters \cup {f} ELSE waiters
          /\ deskFlows' = [deskFlows EXCEPT ![f] =
                IF bound THEN [NewDeskFlow EXCEPT !.pc = "opening", !.url = url] ELSE ReturnedDesk("error")]

\* register, where it is.
RefuseDuplicate(f, url) ==
    /\ Registered(Key(url)) # {}
    /\ deskFlows' = [deskFlows EXCEPT ![f] = ReturnedDesk("error")]
    /\ UNCHANGED <<waiters, serverUp, graceTimer, timers>>

\* scheduleShutdownLocked, after the flows in removed left the waiters.
scheduleShutdownLocked(removed) ==
    IF waiters \subseteq removed /\ serverUp /\ graceTimer = 0
    THEN \E t \in Timers :
            /\ timers[t] = "unused"
            /\ \A u \in Timers : u < t => timers[u] # "unused"
            /\ timers' = [timers EXCEPT ![t] = "armed"]
            /\ graceTimer' = t
    ELSE UNCHANGED <<timers, graceTimer>>

\* Bug: a callback that matches nothing goes to the only flow there is.
Bug_handle(callback) ==
    \E f \in waiters :
        /\ serverUp
        /\ f \in Registered(callbackKey(callback.target, callback.state)) \/ waiters = {f}
        /\ waiters' = waiters \ {f}
        /\ scheduleShutdownLocked({f})
        /\ deskFlows' = [deskFlows EXCEPT ![f].callback = callback]
        /\ UNCHANGED <<logoutURI, serverUp>>

\* handle matches a request with a flow.  It only answers an unmatched one.
handle(callback) ==
    \E f \in Registered(callbackKey(callback.target, callback.state)) :
        /\ serverUp
        /\ waiters' = waiters \ {f}
        /\ scheduleShutdownLocked({f})
        /\ deskFlows' = [deskFlows EXCEPT ![f].callback = callback]
        /\ UNCHANGED <<logoutURI, serverUp>>

\* handle has written its page and sends to the flow's channel of capacity 1.
SendCallback(f) ==
    /\ deskFlows[f].callback # NoCallback
    /\ ~deskFlows[f].sent
    /\ deskFlows' = [deskFlows EXCEPT ![f].sent = TRUE]
    /\ UNCHANGED <<logoutURI, waiters, serverUp, graceTimer, timers>>

\* deregister removes whoever is registered under the key of f.
deregister(f) ==
    LET removed == Registered(Key(deskFlows[f].url))
    IN  IF removed # {}
        THEN waiters' = waiters \ removed /\ scheduleShutdownLocked(removed)
        ELSE UNCHANGED <<waiters, timers, graceTimer>>

TimerFires(t) ==
    /\ timers[t] = "armed"
    /\ timers' = [timers EXCEPT ![t] = "fired"]
    /\ UNCHANGED <<logoutURI, waiters, serverUp, graceTimer, deskFlows>>

\* Bug: a flow that registered during the grace window is not noticed.
Bug_graceShutdown(t) ==
    /\ timers[t] = "fired"
    /\ timers' = [timers EXCEPT ![t] = "unused"]
    /\ graceTimer' = 0
    /\ serverUp' = FALSE
    /\ UNCHANGED <<logoutURI, waiters, deskFlows>>

graceShutdown(t) ==
    /\ timers[t] = "fired"
    /\ timers' = [timers EXCEPT ![t] = "unused"]
    /\ graceTimer' = 0
    /\ serverUp' = (serverUp /\ waiters # {})
    /\ UNCHANGED <<logoutURI, waiters, deskFlows>>

-----------------------------------------------------------------------------
(* runFlow.                                                                *)

StartDeskFlow(f) ==
    /\ deskFlows[f].pc \in {"new", "returned"}
    /\ \E url \in URLsFor(f) : register(f, url) \/ RefuseDuplicate(f, url)
    /\ UNCHANGED logoutURI

EndDeskContext(f) ==
    /\ deskFlows[f].pc \in {"opening", "waiting"}
    /\ ~deskFlows[f].ended
    /\ deskFlows' = [deskFlows EXCEPT ![f].ended = TRUE]
    /\ UNCHANGED <<logoutURI, waiters, serverUp, graceTimer, timers>>

\* DefaultBrowserOpener starts a command and does not wait for it.
OpenBrowser(f) ==
    /\ deskFlows[f].pc = "opening"
    /\ \/ /\ deskFlows' = [deskFlows EXCEPT ![f].pc = "waiting"]
          /\ UNCHANGED <<waiters, graceTimer, timers>>
       \/ /\ deskFlows' = [deskFlows EXCEPT ![f] = ReturnedDesk("error")]
          /\ deregister(f)
    /\ UNCHANGED <<logoutURI, serverUp>>

\* The select, which may choose an ended context over a callback, and the
\* deferred deregister.
ReturnDeskFlow(f) ==
    /\ deskFlows[f].pc = "waiting"
    /\ \/ /\ deskFlows[f].sent
          /\ deskFlows' = [deskFlows EXCEPT ![f] = ReturnedDesk("callback")]
       \/ /\ deskFlows[f].ended
          /\ deskFlows' = [deskFlows EXCEPT ![f] = ReturnedDesk("error")]
    /\ deregister(f)
    /\ UNCHANGED <<logoutURI, serverUp>>

-----------------------------------------------------------------------------

TimerNext(t) == TimerFires(t) \/ graceShutdown(t)

DeskFlowNext(f) == OpenBrowser(f) \/ SendCallback(f) \/ ReturnDeskFlow(f)

BrokerNext ==
    \/ \E f \in Flows : StartDeskFlow(f) \/ EndDeskContext(f) \/ DeskFlowNext(f)
    \/ \E callback \in Callbacks : handle(callback)
    \/ \E t \in Timers : TimerNext(t)

\* Timers fire, the opener returns, and a mutex admits every waiter in the end.
BrokerFairness ==
    /\ \A t \in Timers : WF_brokerVars(TimerNext(t))
    /\ \A f \in Flows : SF_brokerVars(DeskFlowNext(f))

-----------------------------------------------------------------------------
(* Properties.                                                             *)

(* A registered flow has a server for its callback, although a timer that  *)
(* register was too late to stop may still run graceShutdown.              *)
WaitersServed == waiters # {} => serverUp

(* A flow that carries a state of its own stays reachable until its        *)
(* callback comes: no other flow that returns late, and whose deregister   *)
(* goes by key, takes its registration away.                               *)
NotDisplaced ==
    \A f \in Flows :
        (/\ deskFlows[f].pc \in {"opening", "waiting"}
         /\ deskFlows[f].url.state = f
         /\ deskFlows[f].callback = NoCallback) => f \in waiters

(* The port does not stay open when no flow needs it: whenever the broker  *)
(* is idle it closes, however stops, late callbacks and registrations      *)
(* interleave.                                                             *)
PortCloses == (waiters = {} /\ serverUp) ~> (waiters # {} \/ ~serverUp)

DesktopCalls ==
    [f \in Flows |->
        [running |-> deskFlows[f].pc \in {"opening", "waiting"},
         url |-> deskFlows[f].url, answer |-> deskFlows[f].callback,
         result |-> deskFlows[f].result]]

DesktopContract == INSTANCE FlowContract WITH calls <- DesktopCalls

(* The desktop handler keeps the contract of AuthFlowHandler: a callback   *)
(* resolves only the flow that started it, whatever requests arrive late,  *)
(* twice or for nobody.                                                    *)
DesktopKeepsContract == DesktopContract!ContractSpec
=============================================================================
