------------------------------ MODULE MCKeypair ------------------------------
(***************************************************************************)
(* Indexes of two bits, so that child rolls over into parent, parent       *)
(* overflows, and both cross the bit that hardening sets.  Words of five   *)
(* bits and bytes of two, so that a checksum is a part of a byte or all of *)
(* it, and words of different lists end inside a byte.                     *)
(***************************************************************************)
EXTENDS Keypair, SequencesExt, TLC

CONSTANTS m1, m2

\* The code never looks into a message.
MessageSymmetry == Permutations({m1, m2})

MCDigest(entropy) ==
    [j \in 1..2 |-> FoldLeft(LAMBDA sum, b : (3 * sum + j * b + j) % 7, j, entropy) % 2]

Words == 0..31
Unknown == 32
MCEntered ==
    BoundedSeq(Words, 1)
    \cup { <<first, second>> : first \in {0, 1, 2, 5, 10, 16, 21, 31}, second \in Words }
    \cup { <<Unknown, 1>>, <<1, Unknown>>, <<1, 1, 1>> }
=============================================================================
