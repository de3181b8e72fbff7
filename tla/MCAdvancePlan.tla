--------------------------- MODULE MCAdvancePlan ---------------------------
(***************************************************************************)
(* Bytes of four values, so that four instructions, an instruction of four *)
(* accounts or of sixteen bytes and six accounts in all are over a limit,  *)
(* and four bytes of data need both digits of their length.  Plans of the  *)
(* three commands, and of instructions with the flags a builder of         *)
(* another program may set.                                                *)
(***************************************************************************)
EXTENDS AdvancePlan

CONSTANTS program, winterwallet, budget, alice, wallet, payer, tokens1, tokens2

MCAddress == {program, winterwallet, budget, alice, wallet, payer,
              tokens1, tokens2}
MCTokenPrograms == {program, alice}
MCAta ==
    [t \in MCTokenPrograms |->
        [a \in {alice, wallet, payer} |-> IF a = alice THEN tokens1 ELSE tokens2]]
MCSpelled ==
    [a \in MCAddress |->
        CASE a = program -> <<0, 0>> [] a = alice -> <<0, 1>> [] a = wallet -> <<1, 0>>
          [] a = payer -> <<1, 1>> [] a = winterwallet -> <<2, 0>> [] a = budget -> <<0, 2>>
          [] a = tokens1 -> <<3, 1>> [] a = tokens2 -> <<3, 2>>]
MCExecutable == {program, winterwallet, budget}

MCAmounts == {<<0, 0>>, <<1, 2>>}

MCMetas == { Meta(wallet, TRUE, FALSE), Meta(alice, TRUE, TRUE),
             Meta(alice, FALSE, FALSE), Meta(payer, FALSE, FALSE) }
MCData == {<<>>, <<2, 0, 1, 1>>, [k \in 1..16 |-> 1]}
MCInstructions ==
    { Inner(program, metas, data) : metas \in BoundedSeq(MCMetas, 2), data \in MCData }
    \cup { Inner(program, [k \in 1..4 |-> Readonly(alice)], <<>>) }
MCShort == {ix \in MCInstructions : Len(ix.accounts) <= 1 /\ Len(ix.data) < 16}
               \cup { Withdraw(alice, <<1>>), Close(alice), Inner(alice, <<>>, <<>>) }
MCRequests ==
    { <<>> } \cup { <<ix>> : ix \in MCInstructions } \cup { <<ix, jx>> : ix, jx \in MCShort }
    \cup { [k \in 1..n |-> Inner(program, <<>>, <<>>)] : n \in 3..4 }
MCChanges == { Withdraw(payer, <<2>>), Withdraw(alice, <<1>>), Inner(program, <<>>, <<1>>) }

MCPayloads == BoundedSeq(0..2, 5) \cup { <<1, 0, 0, 1, 0, 1, 2>>, <<1, 0, 1, 0, 1>> }
MCAccountLists == BoundedSeq({program, alice}, 3)
                      \cup { [k \in 1..6 |-> program] }
=============================================================================
