--------------------------- MODULE MCVerification ---------------------------
(***************************************************************************)
(* Every digest of three digits, through a tree of five leaves; and alone, *)
(* the trees of every N the code compiles for: even, from 16 to 32.        *)
(***************************************************************************)
EXTENDS WinternitzSignature

MCKeys == {n + 2 : n \in {k \in 16..32 : k % 2 = 0}}
=============================================================================
