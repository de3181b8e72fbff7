------------------------- MODULE TransactionMessage -------------------------
(***************************************************************************)
(* The legacy message and its size: how the client collects the account    *)
(* keys and estimates the size (client/src/transaction.rs), and how the    *)
(* command line builds the message (cli/src/helpers.rs).  An instruction is*)
(* its program, its account metas, the size of its data and, for           *)
(* SetComputeUnitLimit, the limit.                                         *)
(***************************************************************************)
EXTENDS AccountMetas

CONSTANTS
    Payer, BudgetProgram,
    KeySize, SignatureSize, HashSize,
    Radix,      \* 128: seven bits per byte of a compact-u16
    Byte,       \* 256: account indexes are bytes
    Word,       \* 65536: lengths are cast to u16
    SizeLimit   \* LEGACY_TRANSACTION_SIZE_LIMIT

ASSUME MessageAssumption ==
    /\ {KeySize, SignatureSize, HashSize} \subseteq Nat
    /\ Radix \in Nat \ {0, 1} /\ Byte \in Nat \ {0} /\ Word \in Nat \ {0}
    /\ Byte < Word /\ SizeLimit \in Nat /\ SizeLimit < Word

Unbuilt == [header |-> <<0, 0, 0>>, keys |-> <<>>, body |-> <<>>]

-----------------------------------------------------------------------------
\* with_compute_budget: SetComputeUnitLimit and SetComputeUnitPrice.
WithComputeBudget(ixs, limit) ==
    << [program |-> BudgetProgram, accounts |-> <<>>, size |-> 5, limit |-> limit],
       [program |-> BudgetProgram, accounts |-> <<>>, size |-> 9, limit |-> 0] >> \o ixs

\* The order in which both builders meet the accounts: the payer, then of each
\* instruction the program and its metas.
MetasOf(ix) == <<Meta(ix.program, FALSE, FALSE)>> \o ix.accounts
AllMetas(ixs) ==
    <<Meta(Payer, TRUE, TRUE)>> \o FlattenSeq([k \in DOMAIN ixs |-> MetasOf(ixs[k])])

Total(sizes) == FoldSeq(+, 0, sizes)

\* compact_u16_len
LenByBits(n) ==                         \* mutant: a full last group is not counted
    LET len[v \in Nat] == IF v > Radix THEN 1 + len[v \div Radix] ELSE 1 IN len[n]
CompactLen(n) ==
    LET len[v \in Nat] == IF v >= Radix THEN 1 + len[v \div Radix] ELSE 1 IN len[n]

\* estimate_legacy_transaction_size
Estimate(accs, ixs) ==
    LET signatures == Len(Signers(accs))
        Size(ix) == 1 + CompactLen(Len(ix.accounts)) + Len(ix.accounts)
                      + CompactLen(ix.size) + ix.size
    IN  CompactLen(signatures) + signatures * SignatureSize
        + 3 + CompactLen(Len(accs)) + Len(accs) * KeySize + HashSize
        + CompactLen(Len(ixs)) + Total([k \in DOMAIN ixs |-> Size(ixs[k])])

\* encode_compact_u16: the bytes of a length cast to u16.
EncodeCompact(n) ==
    LET bytes[v \in Nat] == IF v < Radix THEN <<v>>
                            ELSE <<(v % Radix) + Radix>> \o bytes[v \div Radix]
    IN  bytes[n % Word]

\* position(..) as u8
Index(accs, key) == ((CHOOSE k \in DOMAIN accs : accs[k].key = key) - 1) % Byte

\* build_message
Built(accs, ixs) ==
    [header |-> << Len(Signers(accs)),
                   Len(Having(accs, TRUE, FALSE)),
                   Len(Having(accs, FALSE, FALSE)) >>,
     keys   |-> [k \in DOMAIN accs |-> accs[k].key],
     body   |-> [k \in DOMAIN ixs |->
                    [program  |-> Index(accs, ixs[k].program),
                     accounts |-> [j \in DOMAIN ixs[k].accounts |->
                                      Index(accs, ixs[k].accounts[j].key)],
                     size     |-> ixs[k].size,
                     limit    |-> ixs[k].limit]]]

\* The length of build_signed_wire_tx, with its one signature.
WireSize(msg) ==
    LET Size(ix) == 1 + Len(EncodeCompact(Len(ix.accounts))) + Len(ix.accounts)
                      + Len(EncodeCompact(ix.size)) + ix.size
    IN  Len(EncodeCompact(1)) + SignatureSize
        + 3 + Len(EncodeCompact(Len(msg.keys))) + Len(msg.keys) * KeySize + HashSize
        + Len(EncodeCompact(Len(msg.body)))
        + Total([k \in DOMAIN msg.body |-> Size(msg.body[k])])

-----------------------------------------------------------------------------
\* validate_payer_only_signers
PayerOnlySigns(ixs) ==
    \A k \in DOMAIN ixs : \A j \in DOMAIN ixs[k].accounts :
        LET m == ixs[k].accounts[j] IN m.signer => m.key = Payer

\* accounts.len() > u8::MAX + 1
Indexable(accs) == Len(accs) <= Byte

\* validate_legacy_transaction_size
Sendable(accs, ixs) == Indexable(accs) /\ Estimate(accs, ixs) <= SizeLimit

-----------------------------------------------------------------------------
\* What a reader of the message makes of key number k: the privileges the header
\* gives it.
SignerAt(msg, k) == k <= msg.header[1]
WritableAt(msg, k) ==
    IF SignerAt(msg, k) THEN k <= msg.header[1] - msg.header[2]
    ELSE k <= Len(msg.keys) - msg.header[3]
=============================================================================
