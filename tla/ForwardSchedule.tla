-------------------------- MODULE ForwardSchedule --------------------------
(***************************************************************************)
(* What the task scheduler promises (ADR-011, "strictly forward-looking"), *)
(* with nothing of how it keeps the promise.                               *)
(*                                                                         *)
(* A task is armed with at most one instant.  A task is only ever armed    *)
(* with an instant of the future, it is fired only when that instant has   *)
(* come, while the scheduler is on, and never while its previous firing is *)
(* still being served.  A boot discards every instant that was missed      *)
(* while the scheduler was off.                                            *)
(***************************************************************************)
EXTENDS Integers

CONSTANTS Task,    \* the tasks
          NoTime   \* "not armed": no instant

VARIABLES clock,   \* the present instant
          on,      \* is the scheduler evaluating tasks?
          armed,   \* the instant each task is armed with, or NoTime
          busy     \* the tasks whose last firing is still being served

vars == <<clock, on, armed, busy>>

\* What a task may be armed with at the present instant.
Later(x) == x = NoTime \/ (x \in Nat /\ x > clock)

Due(t) == t \notin busy /\ armed[t] # NoTime /\ armed[t] <= clock

Init ==
    /\ clock = 0
    /\ on = FALSE
    /\ armed = [t \in Task |-> NoTime]
    /\ busy = {}

Advance ==
    /\ clock' \in Nat /\ clock' > clock
    /\ UNCHANGED <<on, armed, busy>>

\* No instant at or before the boot survives it.
Boot ==
    /\ ~on
    /\ on' = TRUE
    /\ DOMAIN armed' = Task
    /\ \A t \in Task : Later(armed'[t])
    /\ UNCHANGED <<clock, busy>>

Rearm(t) ==
    /\ on
    /\ \E x \in {armed'[t]} :
          /\ Later(x)
          /\ armed' = [armed EXCEPT ![t] = x]
    /\ UNCHANGED <<clock, on, busy>>

Fire ==
    /\ on
    /\ \A t \in busy' \ busy : t \in Task /\ Due(t)
    /\ busy \subseteq busy'
    /\ UNCHANGED <<clock, on, armed>>

Release(t) ==
    /\ busy' = busy \ {t}
    /\ UNCHANGED <<clock, on, armed>>

Halt ==
    /\ on' = FALSE
    /\ busy' \in {busy, {}}
    /\ UNCHANGED <<clock, armed>>

Next ==
    \/ Advance
    \/ Boot
    \/ Fire
    \/ Halt
    \/ \E t \in Task : Rearm(t) \/ Release(t)

Spec == Init /\ [][Next]_vars
=============================================================================
