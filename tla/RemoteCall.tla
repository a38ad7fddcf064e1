----------------------------- MODULE RemoteCall -----------------------------
(***************************************************************************)
(* What the HTTP client promises to the rest of the bridge, without saying *)
(* how: calls are made one at a time, a handler on the Ghidra side runs    *)
(* only for a call that was made, a POST handler runs at most once, an     *)
(* answer means the handler ran and that a POST will not run again, and a  *)
(* POST reported as never sent has not run and never will.  A call that    *)
(* failed in any other way may have run, may still run, or may never run.  *)
(* GhidraClient implements this.                                           *)
(***************************************************************************)
EXTENDS Naturals

CONSTANTS
    Requests,   \* every call the bridge makes
    Post        \* the calls that write: POST requests

VARIABLES
    status,     \* what the caller knows about each call
    runs        \* how often Ghidra has run the handler of each call

callVars == <<status, runs>>

Init ==
    /\ status = [r \in Requests |-> "new"]
    /\ runs   = [r \in Requests |-> 0]

Invoke(r) ==
    /\ status[r] = "new"
    /\ \A q \in Requests : status[q] # "open"
    /\ status' = [status EXCEPT ![r] = "open"]
    /\ UNCHANGED runs

\* The handler may run while the caller waits or after it gave up.
Run(r) ==
    /\ status[r] # "new"
    /\ r \in Post => runs[r] = 0 /\ status[r] \in {"open", "failed"}
    /\ runs' = [runs EXCEPT ![r] = @ + 1]
    /\ UNCHANGED status

Answer(r) ==
    /\ status[r] = "open"
    /\ runs[r] > 0
    /\ status' = [status EXCEPT ![r] = "answered"]
    /\ UNCHANGED runs

Fail(r) ==
    /\ status[r] = "open"
    /\ status' = [status EXCEPT ![r] = "failed"]
    /\ UNCHANGED runs

Unsent(r) ==
    /\ r \in Post
    /\ status[r] = "open"
    /\ runs[r] = 0
    /\ status' = [status EXCEPT ![r] = "unsent"]
    /\ UNCHANGED runs

Next ==
    \E r \in Requests : Invoke(r) \/ Run(r) \/ Answer(r) \/ Fail(r) \/ Unsent(r)

Spec == Init /\ [][Next]_callVars
=============================================================================
