----------------------------- MODULE MobileFlow -----------------------------
(***************************************************************************)
(* The mobile handler (mobileflow): one browser flow at a time, resolved   *)
(* by a deep link that the platform hands to DeliverURL at any moment,     *)
(* while the flow's context may end, and SetLogoutURI may be called, at    *)
(* any moment too.                                                         *)
(***************************************************************************)
EXTENDS Callbacks

VARIABLES
    active, \* the registered flow
    mobileFlows

mobileVars == <<logoutURI, active, mobileFlows>>

-----------------------------------------------------------------------------

\* pc: "new", "asked" with a URL, "started" with the redirect URI of the moment,
\* "opening" the browser, "waiting", "unregister"
\* in the branch of the ended context, "last" look at the channel after it,
\* "leaving" with a result, "returned".  callback is what was put into the
\* channel, queued is TRUE while it is there.
NewMobileFlow ==
    [pc |-> "new", url |-> NoURL, redirectURI |-> "none", callback |-> NoCallback,
     delivered |-> FALSE, queued |-> FALSE, ended |-> FALSE, result |-> "none"]

ReturnedMobile(result) == [NewMobileFlow EXCEPT !.pc = "returned", !.result = result]

MobileRecords ==
    [pc: {"new", "asked", "started", "opening", "waiting", "unregister", "last", "leaving", "returned"},
     url: URLs \cup {NoURL}, redirectURI: Targets \cup {"none"},
     callback: Callbacks \cup {NoCallback}, delivered: BOOLEAN, queued: BOOLEAN,
     ended: BOOLEAN, result: {"none", "callback", "invalid", "busy", "unopened", "ended"}]

\* The types, and that the registered flow is one that has not returned.
MobileTypeOK ==
    /\ logoutURI \in Targets
    /\ active \in Flows \cup {NoFlow}
    /\ mobileFlows \in [Flows -> MobileRecords]
    /\ active # NoFlow =>
          mobileFlows[active].pc \in {"opening", "waiting", "unregister", "leaving"}

MobileInit ==
    /\ logoutURI = "login"
    /\ active = NoFlow
    /\ mobileFlows = [f \in Flows |-> NewMobileFlow]

-----------------------------------------------------------------------------

SetLogoutURI ==
    /\ logoutURI' \in Targets \ {logoutURI}
    /\ UNCHANGED <<active, mobileFlows>>

\* Logout asks for the redirect URI and builds its URL before it starts the flow.
BuildURL(f) ==
    /\ mobileFlows[f].pc \in {"new", "returned"}
    /\ \E url \in URLsFor(f) :
          mobileFlows' = [mobileFlows EXCEPT ![f].pc = "asked", ![f].url = url]
    /\ UNCHANGED <<logoutURI, active>>

\* Scheme, host, port, path and the fixed part of the query agree.
sameCallbackTarget(f, callback) == callback.target = mobileFlows[f].redirectURI

\* A callback without state is taken for a logout, unless it answers a login.
matches(f, callback) ==
    /\ sameCallbackTarget(f, callback)
    /\ IF callback.state = NoFlow THEN f \in LogoutFlows /\ ~callback.response
       ELSE callback.state = mobileFlows[f].url.state

\* DeliverURL where it accepts; it drops every other callback.
DeliverURL(callback) ==
    /\ active # NoFlow
    /\ ~mobileFlows[active].delivered
    /\ matches(active, callback)
    /\ mobileFlows' = [mobileFlows EXCEPT ![active].callback = callback,
                          ![active].delivered = TRUE, ![active].queued = TRUE]
    /\ UNCHANGED <<logoutURI, active>>

EndContext(f) ==
    /\ mobileFlows[f].pc \notin {"new", "returned"}
    /\ ~mobileFlows[f].ended
    /\ mobileFlows' = [mobileFlows EXCEPT ![f].ended = TRUE]
    /\ UNCHANGED <<logoutURI, active>>

\* Bug: the redirect URI in the URL is not compared.
Bug_validURL(f) == mobileFlows[f].url.state # NoFlow

\* The URL has one state, and names the redirect URI that was read.
validURL(f) ==
    /\ mobileFlows[f].url.state # NoFlow
    /\ mobileFlows[f].url.redirect = mobileFlows[f].redirectURI

Refused(f, result) ==
    /\ mobileFlows' = [mobileFlows EXCEPT ![f] = ReturnedMobile(result)]
    /\ UNCHANGED active

\* StartLogin- or StartLogoutFlow reads the redirect URI.  What SetLogoutURI does
\* from here on is for later flows.
StartFlow(f) ==
    /\ mobileFlows[f].pc = "asked"
    /\ mobileFlows' = [mobileFlows EXCEPT ![f].pc = "started", ![f].redirectURI = RedirectURI(f)]
    /\ UNCHANGED <<logoutURI, active>>

\* runFlow up to register, which fails while another flow is active.
RegisterFlow(f) ==
    /\ mobileFlows[f].pc = "started"
    /\ \/ mobileFlows[f].ended /\ Refused(f, "ended")
       \/ ~validURL(f) /\ Refused(f, "invalid")
       \/ validURL(f) /\ active # NoFlow /\ Refused(f, "busy")
       \/ /\ validURL(f) /\ active = NoFlow
          /\ active' = f
          /\ mobileFlows' = [mobileFlows EXCEPT ![f].pc = "opening", ![f].result = "none"]
    /\ UNCHANGED logoutURI

OpenURL(f) ==
    /\ mobileFlows[f].pc = "opening"
    /\ \/ mobileFlows' = [mobileFlows EXCEPT ![f].pc = "waiting"]
       \/ mobileFlows' = [mobileFlows EXCEPT ![f].pc = "leaving", ![f].result = "unopened"]
    /\ UNCHANGED <<logoutURI, active>>

\* A select finds the callback in the channel.
Receive(f) ==
    /\ mobileFlows[f].pc \in {"waiting", "last"}
    /\ mobileFlows[f].queued
    /\ mobileFlows' = [mobileFlows EXCEPT ![f].pc = "leaving", ![f].result = "callback",
                                          ![f].queued = FALSE]
    /\ UNCHANGED <<logoutURI, active>>

\* The select of a flow whose context has ended may take this branch even if a
\* callback is waiting.
ChooseDone(f) ==
    /\ mobileFlows[f].pc = "waiting"
    /\ mobileFlows[f].ended
    /\ mobileFlows' = [mobileFlows EXCEPT ![f].pc = "unregister"]
    /\ UNCHANGED <<logoutURI, active>>

\* Bug: the flow gives up at once, without a last look.
Bug_Unregister(f) ==
    /\ mobileFlows[f].pc = "unregister"
    /\ active' = NoFlow
    /\ mobileFlows' = [mobileFlows EXCEPT ![f].pc = "leaving", ![f].result = "ended"]
    /\ UNCHANGED logoutURI

Unregister(f) ==
    /\ mobileFlows[f].pc = "unregister"
    /\ active' = IF active = f THEN NoFlow ELSE active
    /\ mobileFlows' = [mobileFlows EXCEPT ![f].pc = "last"]
    /\ UNCHANGED logoutURI

\* Bug: the last look waits for a callback.
Bug_GiveUp(f) ==
    /\ mobileFlows[f].pc = "last"
    /\ mobileFlows[f].queued
    /\ UNCHANGED mobileVars

GiveUp(f) ==
    /\ mobileFlows[f].pc = "last"
    /\ ~mobileFlows[f].queued
    /\ mobileFlows' = [mobileFlows EXCEPT ![f].pc = "leaving", ![f].result = "ended"]
    /\ UNCHANGED <<logoutURI, active>>

\* The deferred unregister.  Another flow may be registered by now.
ReturnFlow(f) ==
    /\ mobileFlows[f].pc = "leaving"
    /\ active' = IF active = f THEN NoFlow ELSE active
    /\ mobileFlows' = [mobileFlows EXCEPT ![f] = ReturnedMobile(@.result)]
    /\ UNCHANGED logoutURI

-----------------------------------------------------------------------------

InFlow(f) == mobileFlows[f].pc \notin {"new", "asked", "started", "returned"}

FlowNext(f) ==
    OpenURL(f) \/ Receive(f) \/ ChooseDone(f) \/ Unregister(f) \/ GiveUp(f) \/ ReturnFlow(f)

MobileNext ==
    \/ \E f \in Flows : BuildURL(f) \/ StartFlow(f) \/ RegisterFlow(f) \/ EndContext(f) \/ FlowNext(f)
    \/ \E callback \in Callbacks : DeliverURL(callback)
    \/ SetLogoutURI

\* The opener returns, and a goroutine that can go on does.
MobileFairness == \A f \in Flows : WF_mobileVars(FlowNext(f))

-----------------------------------------------------------------------------
(* Properties.                                                             *)

(* A flow that reports the end of its context had accepted no callback:    *)
(* cancellation and delivery are decided by the same mutex, so DeliverURL  *)
(* never accepts a callback that is then thrown away (runFlow's comment).  *)
AcceptedIsReturned ==
    \A f \in Flows : mobileFlows[f].result = "ended" => ~mobileFlows[f].delivered

MobileCalls ==
    [f \in Flows |->
        [running |-> InFlow(f),
         url |-> IF InFlow(f) THEN mobileFlows[f].url ELSE NoURL,
         answer |-> mobileFlows[f].callback,
         result |-> IF InFlow(f) \/ mobileFlows[f].result = "none" THEN "none"
                    ELSE IF mobileFlows[f].result = "callback" THEN "callback" ELSE "error"]]

MobileContract == INSTANCE FlowContract WITH calls <- MobileCalls

(* The mobile handler keeps the contract of AuthFlowHandler: a flow is     *)
(* resolved once, by a callback to the redirect URI its own URL names,     *)
(* never by an authorization response meant for a login or by links of     *)
(* earlier flows, although SetLogoutURI may come between the building of   *)
(* the URL and the flow.                                                   *)
MobileKeepsContract == MobileContract!ContractSpec
=============================================================================
