----------------------------- MODULE TurnIntake -----------------------------
(* What long-term memory promises of the turns of a conversation: a turn is  *)
(* received once, taken from the buffer with everything that waits there,    *)
(* and after that either settled (analysed, or put aside as trivial) or      *)
(* lost, never both and never twice.                                         *)
CONSTANT Turn

VARIABLES
    pending,    \* turns that wait in the buffer
    held,       \* turns in a batch that is being analysed
    settled,    \* turns that were analysed, or put aside as trivial
    lost        \* turns nobody will analyse any more

vars == <<pending, held, settled, lost>>

Init == pending = {} /\ held = {} /\ settled = {} /\ lost = {}

\* A turn arrives; the batches it interrupts are lost.
Receive(t, L) ==
    /\ t \notin pending \cup held \cup settled \cup lost
    /\ L \subseteq held
    /\ pending' = pending \cup {t}
    /\ held' = held \ L
    /\ lost' = lost \cup L
    /\ UNCHANGED settled

\* The whole buffer becomes a batch, or is settled at once.
Take(L) ==
    /\ L \subseteq held
    /\ pending' = {}
    /\ \/ held' = (held \ L) \cup pending /\ settled' = settled
       \/ held' = held \ L /\ settled' = settled \cup pending
    /\ lost' = lost \cup L

Settle(S) ==
    /\ S \subseteq held
    /\ held' = held \ S
    /\ settled' = settled \cup S
    /\ UNCHANGED <<pending, lost>>

Lose(S) ==
    /\ S \subseteq held
    /\ held' = held \ S
    /\ lost' = lost \cup S
    /\ UNCHANGED <<pending, settled>>

\* The process ends, and with it everything that was only in its memory.
End ==
    /\ pending' = {} /\ held' = {}
    /\ lost' = lost \cup pending \cup held
    /\ UNCHANGED settled

Next ==
    \/ \E t \in Turn, L \in SUBSET held : Receive(t, L)
    \/ \E L \in SUBSET held : Take(L)
    \/ \E S \in SUBSET held : Settle(S) \/ Lose(S)
    \/ End

Spec == Init /\ [][Next]_vars
=============================================================================
