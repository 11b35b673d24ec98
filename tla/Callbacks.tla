----------------------------- MODULE Callbacks -----------------------------
(***************************************************************************)
(* What the Client and its flow handler exchange: the URL that is opened,  *)
(* reduced to the redirect URI and the state it carries, and the callback, *)
(* reduced to what correlation looks at.                                   *)
(***************************************************************************)
CONSTANTS
    LoginFlows,     \* calls of StartAuthFlow
    LogoutFlows,    \* calls of StartLogoutFlow
    NoFlow

Flows == LoginFlows \cup LogoutFlows

ASSUME CallbacksAssumption ==
    /\ LoginFlows \cap LogoutFlows = {}
    /\ NoFlow \notin Flows

VARIABLE logoutURI  \* the post-logout redirect URI; by default the login one

\* States are random, so the state of a flow is the flow itself.  The Client puts
\* a state into every URL; another user of a handler may leave it out.
Targets == {"login", "logout"}
URLs == [redirect: Targets, state: Flows \cup {NoFlow}]
NoURL == [redirect |-> "none", state |-> NoFlow]

\* response: the callback carries a code or an error, which is looked at only
\* where it has no state.
Callbacks ==
    [target: Targets, state: Flows, response: {TRUE}] \cup
    [target: Targets, state: {NoFlow}, response: BOOLEAN]
NoCallback == [target |-> "none", state |-> NoFlow, response |-> FALSE]

\* RedirectURI and PostLogoutRedirectURI.
RedirectURI(f) == IF f \in LogoutFlows THEN logoutURI ELSE "login"

\* What Login or Logout, or another user, builds for f now.
URLsFor(f) == [redirect: {RedirectURI(f)}, state: {f, NoFlow}]
=============================================================================
