-------------------------- MODULE MCWinterWalletCli --------------------------
(***************************************************************************)
(* Small instances of the command line: two processes on one host, or one  *)
(* process on each of two hosts, two payments and a close, four positions. *)
(***************************************************************************)
EXTENDS WinterWalletCli, TLC

CONSTANTS h1, h2, p1, p2, pay, swap, close

OneHost == [p \in {p1, p2} |-> h1]
OneHost1 == [p \in {p1} |-> h1]
TwoHosts == [p \in {p1, p2} |-> IF p = p1 THEN h1 ELSE h2]

\* The two payments differ in nothing.
Payments == Permutations({pay, swap})

\* Without power loss and without a question about signatures, disk and exposed
\* decide nothing.
LedgerView == <<file, lock, procVars, chainVars>>
=============================================================================
