------------------------------ MODULE Merklize ------------------------------
(***************************************************************************)
(* WinternitzPubkey::merklize (core/src/pubkey.rs): the Merkle root of the *)
(* scalars of a public key, computed in one pass over them with a stack of *)
(* at most MaxDepth subtrees.  A hash is the tree it was computed from.    *)
(***************************************************************************)
EXTENDS Integers, Sequences, SequencesExt

CONSTANT MaxDepth   \* slots of the stack

ASSUME MerklizeAssumption == MaxDepth \in Nat

\* So many scalars never need more: no number up to theirs has more than MaxDepth
\* bits set.
Power[n \in Nat] == IF n = 0 THEN 1 ELSE 2 * Power[n - 1]
Merklizable(n) == n + 1 < Power[MaxDepth + 1]

VARIABLES
    leaves,     \* the scalars, << >> when no key is merklized
    taken,      \* scalars read
    carry,      \* the subtree in hand, << >> for none
    stack,      \* subtrees waiting for a right neighbour, with their levels
    root        \* the result, << >> before

merkleVars == <<leaves, taken, carry, stack, root>>

-----------------------------------------------------------------------------
Leaf(scalar) == <<"leaf", scalar>>
Node(left, right) == <<"node", left, right>>
Subtree(hash, level) == [hash |-> hash, level |-> level]

Top == stack[Len(stack)]
Below == stack[Len(stack) - 1]

\* while len > 0 && levels[len - 1] == level
LeavesPair == Len(stack) > 0 /\ Top.level = 0 /\ carry[1].level = 0  \* mutant: one level only
SameLevel == Len(stack) > 0 /\ Top.level = carry[1].level

Merklizing(scalars) ==
    leaves = scalars /\ taken = 0 /\ carry = <<>> /\ stack = <<>> /\ root = <<>>
Idle == Merklizing(<<>>)

\* The next scalar is hashed.
Take ==
    /\ carry = <<>> /\ taken < Len(leaves)
    /\ carry' = << Subtree(Leaf(leaves[taken + 1]), 0) >>
    /\ taken' = taken + 1
    /\ UNCHANGED <<leaves, stack, root>>

Combine ==
    /\ carry # <<>> /\ SameLevel
    /\ carry' = << Subtree(Node(Top.hash, carry[1].hash), Top.level + 1) >>
    /\ stack' = Front(stack)
    /\ UNCHANGED <<leaves, taken, root>>

Push ==
    /\ carry # <<>> /\ ~SameLevel
    /\ stack' = stack \o carry
    /\ carry' = <<>>
    /\ UNCHANGED <<leaves, taken, root>>

\* The drain: the top is lifted to the level below it by pairing it with itself,
\* then joined.
Draining == carry = <<>> /\ taken = Len(leaves) /\ Len(stack) > 1

JoinsAnyway == TRUE                     \* mutant: the top is not lifted
Level == Top.level >= Below.level
Lift ==
    /\ Draining /\ ~Level
    /\ stack' = Front(stack) \o << Subtree(Node(Top.hash, Top.hash), Top.level + 1) >>
    /\ UNCHANGED <<leaves, taken, carry, root>>
Join ==
    /\ Draining /\ Level
    /\ stack' = Front(Front(stack))
                   \o << Subtree(Node(Below.hash, Top.hash), Top.level + 1) >>
    /\ UNCHANGED <<leaves, taken, carry, root>>

Finish ==
    /\ carry = <<>> /\ taken = Len(leaves) /\ Len(stack) = 1
    /\ root = <<>>
    /\ root' = stack[1].hash
    /\ UNCHANGED <<leaves, taken, carry, stack>>

Merklize == Take \/ Combine \/ Push \/ Lift \/ Join \/ Finish

-----------------------------------------------------------------------------
\* The tree of the comment: level by level, the last node of an odd level paired
\* with itself.
Parents(level) ==
    [k \in 1..((Len(level) + 1) \div 2) |->
        Node(level[2 * k - 1], IF 2 * k <= Len(level) THEN level[2 * k] ELSE level[2 * k - 1])]
NextLevel(level) == IF Len(level) = 1 THEN level ELSE Parents(level)
RootOf(scalars) ==
    LET level[n \in 0..Len(scalars)] ==
            IF n = 0 THEN [k \in DOMAIN scalars |-> Leaf(scalars[k])]
            ELSE NextLevel(level[n - 1])
    IN  level[Len(scalars)][1]

\* The one pass computes the root of the level-by-level tree.
RootAsDocumented == root # <<>> => root = RootOf(leaves)

\* The stack never needs more slots than it has: all writes are in bounds.
StackFits == Len(stack) <= MaxDepth
=============================================================================
