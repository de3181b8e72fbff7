---------------------------- MODULE MCStateStore ----------------------------
(***************************************************************************)
(* Two processes and three positions: an old file, a replacement and one   *)
(* more after a failure.                                                   *)
(***************************************************************************)
EXTENDS StateStore

CONSTANTS p1, p2, q1, q2, q3
=============================================================================
