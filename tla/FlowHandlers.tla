---------------------------- MODULE FlowHandlers ----------------------------
(***************************************************************************)
(* An application gives its Client one flow handler, the desktop or the    *)
(* mobile one.  Both are implementations of FlowContract.                  *)
(***************************************************************************)
EXTENDS DesktopBroker, MobileFlow

VARIABLE handler

handlerVars == <<handler, logoutURI, waiters, serverUp, graceTimer, timers, deskFlows, active, mobileFlows>>

HandlersInit ==
    /\ handler \in {"desktop", "mobile"}
    /\ BrokerInit
    /\ active = NoFlow
    /\ mobileFlows = [f \in Flows |-> NewMobileFlow]
    /\ handler = "mobile" => logoutURI = "login"

Desktop ==
    /\ handler = "desktop"
    /\ BrokerNext
    /\ UNCHANGED <<handler, active, mobileFlows>>

Mobile ==
    /\ handler = "mobile"
    /\ MobileNext
    /\ UNCHANGED <<handler, waiters, serverUp, graceTimer, timers, deskFlows>>

HandlersNext == Desktop \/ Mobile

HandlersSpec ==
    /\ HandlersInit /\ [][HandlersNext]_handlerVars
    /\ BrokerFairness /\ MobileFairness

-----------------------------------------------------------------------------
(* Properties.                                                             *)

(* Handlers "must stop waiting and return promptly" when the context is    *)
(* cancelled (interfaces.go), and they return when they are answered,      *)
(* whatever other flows, timers and callbacks do meanwhile.                *)
FlowsReturn ==
    \A f \in Flows :
        /\ (deskFlows[f].ended \/ deskFlows[f].callback # NoCallback) ~> deskFlows[f].pc = "returned"
        /\ (InFlow(f) /\ (mobileFlows[f].ended \/ mobileFlows[f].delivered))
              ~> mobileFlows[f].pc = "returned"
=============================================================================
