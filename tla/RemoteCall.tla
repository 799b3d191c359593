----------------------------- MODULE RemoteCall -----------------------------
(***************************************************************************)
(* What send_and_wait promises to the action node and to the scheduler: a  *)
(* call returns only after the execution service has handled it at least   *)
(* once.  A call that fails or is cancelled promises nothing: it may have  *)
(* been handled, or be handled later.                                      *)
(***************************************************************************)
EXTENDS Naturals

CONSTANT Req   \* the requests

VARIABLES
    outcome,   \* of a call: "none", "open", "returned" or "failed"
    handled    \* how often the execution service has handled the request

vars == <<outcome, handled>>

Init ==
    /\ outcome = [r \in Req |-> "none"]
    /\ handled = [r \in Req |-> 0]

Issue(r) ==
    /\ outcome[r] = "none"
    /\ outcome' = [outcome EXCEPT ![r] = "open"]
    /\ UNCHANGED handled

Handle(r) ==
    /\ outcome[r] # "none"
    /\ handled' = [handled EXCEPT ![r] = @ + 1]
    /\ UNCHANGED outcome

Return(r) ==
    /\ outcome[r] = "open"
    /\ handled[r] > 0
    /\ outcome' = [outcome EXCEPT ![r] = "returned"]
    /\ UNCHANGED handled

\* Calls fail one by one, or together when the engine stops.  One that fails
\* before anything is awaited was never open.
Fail(S) ==
    /\ \A r \in S : outcome[r] \in {"none", "open"}
    /\ outcome' = [r \in Req |-> IF r \in S THEN "failed" ELSE outcome[r]]
    /\ UNCHANGED handled

Next ==
    \/ \E r \in Req : Issue(r) \/ Handle(r) \/ Return(r)
    \/ \E S \in SUBSET Req : Fail(S)

Spec == Init /\ [][Next]_vars
=============================================================================
