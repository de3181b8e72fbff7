--------------------------- MODULE OneTimeSigner ---------------------------
(***************************************************************************)
(* What the command line owes to a wallet's one-time keys.  A position is  *)
(* reserved for one message, durably, before a signature made with it can  *)
(* be seen by anyone.  Positions are given out in order and never again: a *)
(* reservation that is lost burns its position.                            *)
(***************************************************************************)
EXTENDS Integers

CONSTANTS Message, Position

VARIABLES
    next,       \* the first position not reserved yet
    reserved,   \* reserved[q]: the message a live reservation of q is for
    exposed     \* exposed[q]: the messages whose signature under q left the host

vars == <<next, reserved, exposed>>

Init ==
    /\ next = 0
    /\ reserved = [q \in Position |-> {}]
    /\ exposed = [q \in Position |-> {}]

\* A position not given out before is given to m; those in front of it are given
\* up.
Reserve(q, m) ==
    /\ q >= next
    /\ reserved' = [reserved EXCEPT ![q] = {m}]
    /\ next' = q + 1
    /\ UNCHANGED exposed

\* The signature of the reserved message is shown, the reservation used up.
Expose(q, m) ==
    /\ m \in reserved[q]
    /\ reserved' = [reserved EXCEPT ![q] = {}]
    /\ exposed' = [exposed EXCEPT ![q] = @ \cup {m}]
    /\ UNCHANGED next

\* Positions and reservations are given up: the holder of a reservation ends
\* without showing anything.
Burn ==
    /\ next' >= next
    /\ \A q \in Position : reserved'[q] \subseteq reserved[q]
    /\ UNCHANGED exposed

Next ==
    \/ \E q \in Position, m \in Message : Reserve(q, m) \/ Expose(q, m)
    \/ Burn

Spec == Init /\ [][Next]_vars
=============================================================================
