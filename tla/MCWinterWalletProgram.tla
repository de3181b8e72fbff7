----------------------- MODULE MCWinterWalletProgram -----------------------
(***************************************************************************)
(* A small ledger for TLC: two wallets, a payer and a receiver, the        *)
(* instructions clients build, and some they would not: a tampered         *)
(* payload, a replayed root, a nested Advance, a call without signature.   *)
(* An encoding is represented by the instructions it was made from, three  *)
(* accounts each; one of them has a second reading with fewer accounts.    *)
(***************************************************************************)
EXTENDS WinterWalletProgram, TLC

CONSTANTS alice, bob, w1, w2

MCPda == [i \in {w1, w2} |-> <<"pda", i>>]
MCFunds == (alice :> 5) @@ (bob :> 1)

Open(id, at, r) ==
    [op |-> "initialize", payer |-> alice, wallet |-> MCPda[at], id |-> id, root |-> r]
Send(from, to, n) == [op |-> "transfer", from |-> from, to |-> to, lamports |-> n]
Pay(id, to, n) ==
    [op |-> "withdraw", wallet |-> MCPda[id], receiver |-> to, lamports |-> n]
CloseTo(id, to) == [op |-> "close", wallet |-> MCPda[id], receiver |-> to]
Counted(list) == 3 * Len(list)
Adv(id, cur, list) ==
    [op |-> "advance", wallet |-> MCPda[id], new |-> cur + 1,
     accounts |-> Counted(list), bytes |-> list,
     signed |-> [id |-> id, cur |-> cur, new |-> cur + 1,
                 accounts |-> Counted(list), bytes |-> list]]

Leaves ==
    {Open(w1, w2, 1), CloseTo(w1, bob), CloseTo(w1, MCPda[w1]),
     CloseTo(w1, MCPda[w2]), Pay(w1, bob, 1),
     Pay(w1, MCPda[w1], 1), Pay(w1, MCPda[w2], 1), Pay(w2, bob, 1), Pay(w1, bob, 4),
     Send(alice, bob, 1), Send(MCPda[w1], bob, 1)}
    \cup {Open(i, i, 1) : i \in {w1, w2}}
    \cup {Send(alice, MCPda[i], 1) : i \in {w1, w2}}

Payloads ==
    { <<>>, <<Pay(w1, bob, 4)>>, <<Pay(w1, bob, 1)>>, <<Pay(w1, MCPda[w1], 1)>>, <<Pay(w1, MCPda[w2], 1)>>,
      <<Pay(w1, bob, 1), Pay(w1, bob, 1)>>,
      <<CloseTo(w1, bob)>>, <<CloseTo(w1, MCPda[w2])>>, <<CloseTo(w1, MCPda[w1])>>,
      <<CloseTo(w1, bob), Send(alice, MCPda[w1], 1)>>,
      <<CloseTo(w1, bob), Send(alice, MCPda[w1], 1), Send(MCPda[w1], bob, 1)>>,
      <<CloseTo(w1, bob), Pay(w1, bob, 1)>>,
      <<CloseTo(w1, bob), Open(w1, w1, 1)>> }
Advances == {Adv(w1, r, p) : r \in 1..2, p \in Payloads}
Second == {Adv(w2, 1, <<Pay(w2, bob, 1)>>), Adv(w2, 1, <<Pay(w1, bob, 1)>>)}
Nested ==
    {Adv(w1, 1, <<Adv(w1, r, <<Pay(w1, bob, 1)>>), Pay(w1, bob, 1)>>) : r \in 1..2}
    \cup {Adv(w1, 1, <<Adv(w1, 2, <<CloseTo(w1, bob)>>), Send(alice, MCPda[w1], 1)>>),
          Adv(w2, 1, <<Adv(w1, 1, <<Pay(w1, bob, 1)>>), Pay(w2, bob, 1)>>),
          Adv(w1, 2, <<Adv(w2, 1, <<Pay(w1, bob, 1)>>), Pay(w1, bob, 1)>>)}
Twice == <<Pay(w1, bob, 1), Pay(w1, bob, 1)>>
\* An Advance that is not as it was signed: other bytes, another root, another number
\* of accounts (as many as has a reading, as has none, as is refused), another wallet.
Altered ==
    {[Adv(w1, 1, <<Pay(w1, bob, 1)>>) EXCEPT !.bytes = <<CloseTo(w1, bob)>>],
     [Adv(w1, 1, <<Pay(w1, bob, 1)>>) EXCEPT !.new = 3],
     [Adv(w1, 1, Twice) EXCEPT !.accounts = 3], [Adv(w1, 1, Twice) EXCEPT !.accounts = 2],
     [Adv(w1, 1, Twice) EXCEPT !.accounts = 10],
     [Adv(w2, 1, <<Pay(w1, bob, 1)>>) EXCEPT !.wallet = MCPda[w1]]}

MCEncoding == {ix.bytes : ix \in Advances \cup Second \cup Nested \cup Altered}
MCDecoded(n, b) ==
    IF n = Counted(b) THEN b
    ELSE IF b = Twice /\ n = 3 THEN <<Pay(w1, bob, 4)>>
    ELSE <<>>

MCInstruction == Leaves \cup Advances \cup Second \cup Nested \cup Altered
MCTransaction ==
    {<<ix>> : ix \in MCInstruction}
    \cup {<<Adv(w1, 1, <<CloseTo(w1, bob)>>), Send(alice, MCPda[w1], 1)>>,
          <<Adv(w1, 1, <<Pay(w1, bob, 1)>>), Adv(w1, 1, <<CloseTo(w1, bob)>>)>>,
          <<Adv(w1, 1, <<CloseTo(w1, bob)>>), Open(w1, w1, 1)>>}
=============================================================================
