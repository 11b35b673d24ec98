---------------------------- MODULE FlowContract ----------------------------
(***************************************************************************)
(* What AuthFlowHandler and LogoutFlowHandler ask of a handler             *)
(* (interfaces.go): a call opens its URL and returns once, with a callback *)
(* that answers this URL or with an error.  A callback answers at most one *)
(* call.  That calls return promptly is a property of each handler.        *)
(***************************************************************************)
EXTENDS Callbacks

VARIABLE calls

\* Nothing is left of a call that returned but its result.
Idle(result) == [running |-> FALSE, url |-> NoURL, answer |-> NoCallback, result |-> result]

Running(url) == [running |-> TRUE, url |-> url, answer |-> NoCallback, result |-> "none"]

ContractInit == calls = [f \in Flows |-> Idle("none")]

\* A call may be made again, for a URL with the same state.
Start(f) ==
    /\ ~calls[f].running
    /\ \E url \in URLs : calls' = [calls EXCEPT ![f] = Running(url)]

\* The state that comes back is the one that was sent.  Some providers leave it
\* out of the answer to a logout, which then must not look like one to a login.
Answers(f, callback) ==
    /\ callback.target = calls[f].url.redirect
    /\ \/ callback.state = calls[f].url.state
       \/ f \in LogoutFlows /\ callback.state = NoFlow /\ ~callback.response

Accept(f) ==
    /\ calls[f].running
    /\ calls[f].answer = NoCallback
    /\ \E callback \in Callbacks :
          /\ Answers(f, callback)
          /\ calls' = [calls EXCEPT ![f].answer = callback]

Return(f, result) == calls' = [calls EXCEPT ![f] = Idle(result)]

ReturnCallback(f) ==
    /\ calls[f].running
    /\ calls[f].answer # NoCallback
    /\ Return(f, "callback")

\* Possible at any time: a busy port, a browser that does not open, an ended
\* context.
ReturnError(f) == Return(f, "error")

ContractNext ==
    \E f \in Flows :
        Start(f) \/ Accept(f) \/ ReturnCallback(f) \/ ReturnError(f)

ContractSpec == ContractInit /\ [][ContractNext]_calls
=============================================================================
