-------------------------- MODULE DurablePosition --------------------------
(***************************************************************************)
(* What the state store owes to the command line: a position that is       *)
(* replaced at once or not at all.  A replacement that was not confirmed   *)
(* may be undone by a power loss; a confirmed one is there for good.  Only *)
(* a register that never went through a power loss may vanish in one.      *)
(***************************************************************************)
CONSTANTS Position, Absent

VARIABLES
    value,      \* what a load returns
    survivors,  \* what a load may return after a power loss
    settled     \* TRUE once the register itself cannot vanish

vars == <<value, survivors, settled>>

Init == value = Absent /\ survivors = {Absent} /\ settled \in BOOLEAN

Replace(q) ==
    /\ value' = q
    /\ survivors' = survivors \cup {q}
    /\ UNCHANGED settled

Confirm ==
    /\ survivors' = {value}
    /\ UNCHANGED <<value, settled>>

Lose ==
    /\ value' \in survivors
    /\ survivors' = {value'}
    /\ settled' = TRUE

Vanish ==
    /\ ~settled
    /\ value' = Absent
    /\ survivors' = {Absent}
    /\ UNCHANGED settled

Next == (\E q \in Position : Replace(q)) \/ Confirm \/ Lose \/ Vanish

Spec == Init /\ [][Next]_vars
=============================================================================
