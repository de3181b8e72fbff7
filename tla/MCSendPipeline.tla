--------------------------- MODULE MCSendPipeline ---------------------------
(***************************************************************************)
(* One or two instructions over four keys beside the budget program, sizes *)
(* on both sides of the compact-u16 boundaries, keys and bytes on both     *)
(* sides of their limits; simulations that answer nothing, little, the     *)
(* ceiling and close to the end of a u64; lists of up to two lookup tables *)
(* with a key in both, a program and a signer.                             *)
(***************************************************************************)
EXTENDS VersionedTransaction

CONSTANTS payer, budget, alice, bob, program

MCMetas ==
    { Meta(payer, TRUE, TRUE), Meta(payer, TRUE, FALSE), Meta(alice, FALSE, TRUE),
      Meta(alice, FALSE, FALSE), Meta(alice, TRUE, FALSE), Meta(bob, FALSE, TRUE) }
MCInstructions ==
    [program : {program, bob}, accounts : BoundedSeq(MCMetas, 2), size : {4, 40},
     limit : {0}]
MCRequests ==
    { <<ix>> : ix \in MCInstructions }
    \cup { <<ix, jx>> : ix \in {i \in MCInstructions : i.program = program /\ i.size = 4},
                        jx \in {i \in MCInstructions : i.program = bob /\ i.size = 40
                                                         /\ Len(i.accounts) < 2} }

MCTables ==
    { <<>>, << <<alice>> >>, << <<program, payer, bob>> >>,
      << <<bob, alice, bob>>, <<alice>> >>, << <<program>>, <<bob, alice>> >> }
=============================================================================
