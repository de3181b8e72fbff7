-------------------------- MODULE SigningPosition --------------------------
(***************************************************************************)
(* Positions (wallet, parent, child) of the one-time keys: how a           *)
(* WinternitzKeypair moves through them as it signs, how the client        *)
(* predicts the move (SigningPosition::next), and which key a position     *)
(* stands for.  HMAC-SHA512 is taken as injective, so a key is the path of *)
(* the hardened indexes it is derived along.                               *)
(***************************************************************************)
EXTENDS Integers

CONSTANTS
    Half,       \* 2^31: indexes are unsigned words below 2 * Half
    Wallet,     \* the wallet index of the key pair
    Message

ASSUME PositionAssumption ==
    /\ Half \in Nat \ {0}
    /\ Wallet \in 0..(2 * Half - 1)

Index == 0..(2 * Half - 1)
Position == [wallet : Index, parent : Index, child : Index]

VARIABLES
    held,       \* the position the key pair signs next with
    signatures, \* history: the signatures returned, [pos, msg]
    panicked    \* TRUE once parent overflowed and the key pair is gone

vars == <<held, signatures, panicked>>

-----------------------------------------------------------------------------
At(parent, child) == [wallet |-> Wallet, parent |-> parent, child |-> child]

\* index | 0x8000_0000
Hardened(index) == IF index < Half THEN index + Half ELSE index

\* derive: master, then the three hardened levels.
KeyWithoutParent(pos) ==                \* mutant: one level is left out
    <<Hardened(pos.wallet), Hardened(pos.child)>>
KeyAt(pos) == <<Hardened(pos.wallet), Hardened(pos.parent), Hardened(pos.child)>>

\* checked_add(1)
Wraps(index) == FALSE                   \* mutant: the sum is not checked
Overflows(index) == index + 1 \notin Index

\* increment_child, short of the panic of increment_parent.
StayInParent(pos) ==                    \* mutant: child restarts, parent stays
    At(pos.parent, IF Overflows(pos.child) THEN 0 ELSE pos.child + 1)
IncrementChild(pos) ==
    IF Overflows(pos.child) THEN At(pos.parent + 1, 0)
                            ELSE At(pos.parent, pos.child + 1)
LastPosition(pos) == Overflows(pos.child) /\ Overflows(pos.parent)

\* SigningPosition::next, and when it returns PositionOverflow.
NextInParent(pos) == At(pos.parent, pos.child + 1)  \* mutant: no carry
NextPosition(pos) ==
    IF ~Overflows(pos.child) THEN At(pos.parent, pos.child + 1)
                             ELSE At(pos.parent + 1, 0)
PositionOverflow(pos) == Overflows(pos.child) /\ Overflows(pos.parent)

-----------------------------------------------------------------------------
\* from_mnemonic starts at the first position, from_mnemonic_at resumes at any.
Init ==
    /\ \E parent, child \in Index : held = At(parent, child)
    /\ signatures = {}
    /\ panicked = FALSE

\* sign_and_increment: the signature is returned only if the increment is.
SignAndIncrement(m) ==
    /\ ~panicked
    /\ ~LastPosition(held)
    /\ signatures' = signatures \cup {[pos |-> held, msg |-> m]}
    /\ held' = IncrementChild(held)
    /\ UNCHANGED panicked

\* increment_parent, called by the key pair's owner.
IncrementParent ==
    /\ ~panicked
    /\ ~Overflows(held.parent)
    /\ held' = At(held.parent + 1, 0)
    /\ UNCHANGED <<signatures, panicked>>

\* "parent overflow", from either of the two.
Panic ==
    /\ ~panicked
    /\ Overflows(held.parent)
    /\ panicked' = TRUE
    /\ UNCHANGED <<held, signatures>>

Next == (\E m \in Message : SignAndIncrement(m)) \/ IncrementParent \/ Panic

Spec == Init /\ [][Next]_vars

-----------------------------------------------------------------------------
\* Every position the key pair is at, or signed with, fits its words.
TypeOK ==
    /\ held \in Position /\ held.wallet = Wallet
    /\ signatures \subseteq [pos : Position, msg : Message]
    /\ panicked \in BOOLEAN

\* keypair.rs: a position is consumed by the signature made with it; no later
\* signature of the key pair is at the same position, also after child rolled
\* over into parent or parent was incremented by its owner.
PositionOnce ==
    \A s1, s2 \in signatures : s1.pos = s2.pos => s1 = s2

\* Behind PositionOnce: the key pair is past every position it signed with.
Before(p, q) ==
    \/ p.parent < q.parent
    \/ p.parent = q.parent /\ p.child < q.child
Passed == \A s \in signatures : Before(s.pos, held)

\* The position the client is about to persist is the one the key pair moves
\* to, and it refuses exactly where the key pair would panic.
NextAgrees ==
    /\ PositionOverflow(held) <=> LastPosition(held)
    /\ ~LastPosition(held) => NextPosition(held) = IncrementChild(held)

\* privkey.rs: no key signs two messages, as far as indexes below 2^31 go; from
\* there on hardening leads back to the keys of lower indexes.
Low(pos) == pos.wallet < Half /\ pos.parent < Half /\ pos.child < Half
KeyOnceBelowHalf ==
    \A s1, s2 \in signatures :
        Low(s1.pos) /\ Low(s2.pos) /\ KeyAt(s1.pos) = KeyAt(s2.pos) => s1 = s2
=============================================================================
