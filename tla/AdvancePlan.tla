---------------------------- MODULE AdvancePlan ----------------------------
(***************************************************************************)
(* An Advance from its plan to the program: a plan is made from inner      *)
(* instructions (client/src/plan.rs, sdk/ts/src/plan.ts), its payload and  *)
(* accounts are signed, an instruction is created from it and put into a   *)
(* message (TransactionMessage), and the program verifies what arrives and *)
(* invokes the inner instructions (AdvancePayload).  Between these steps   *)
(* callers go on using the instruction objects they passed.                *)
(*                                                                         *)
(* The tag, the wallet's id and the roots come first in the preimage, with *)
(* fixed widths; they are copied into the plan and WinterWalletCli follows *)
(* them.                                                                   *)
(***************************************************************************)
EXTENDS AdvancePayload, AccountMetas

CONSTANTS
    Wallet,         \* the wallet's address
    Payer,
    WinterWallet,   \* the program's own address
    Budget,         \* the compute budget program
    Sdk,            \* the client libraries
    Receivers,      \* addresses a user names
    Amounts,        \* amounts, as the bytes they are encoded in
    TokenPrograms,  \* what a user may name as --token-program: any address
    Ata,            \* Ata[t][a]: the token account of a under t, a derived address
    AddressLen,     \* bytes of an address: 32
    Spelled,        \* Spelled[a]: those bytes
    Careless,       \* libraries whose callers change instructions they passed
    Requests,       \* lists of inner instructions, their accounts with privileges
    Changes         \* what a caller may turn an instruction into

AccountMeta == [key : Address, signer : BOOLEAN, writable : BOOLEAN]
InnerInstruction == [program : Address, accounts : Seq(AccountMeta), data : Seq(Byte)]

ASSUME PlanAssumption ==
    /\ 3 \in Byte
    /\ Sdk \subseteq {"rust", "typescript"} /\ Careless \subseteq Sdk
    /\ {Wallet, Payer} \cup Receivers \cup TokenPrograms \subseteq Address
    /\ WinterWallet \in Executable
    /\ Amounts \subseteq Seq(Byte)
    /\ Ata \in [TokenPrograms -> [Receivers \cup {Wallet} -> Address]]
    /\ Requests \subseteq Seq(InnerInstruction) /\ Changes \subseteq InnerInstruction
ASSUME SpellingAssumption ==
    /\ AddressLen \in Nat \ {0} /\ Spelled \in [Address -> Seq(Byte)]
    /\ \A a \in Address : Len(Spelled[a]) = AddressLen
    /\ \A a, b \in Address : Spelled[a] = Spelled[b] => a = b

M == INSTANCE TransactionMessage WITH
        BudgetProgram <- Budget, KeySize <- 32, SignatureSize <- 64, HashSize <- 32,
        Radix <- 128, Byte <- 256, Word <- 65536, SizeLimit <- 1232

VARIABLES
    sdk,            \* the library in use
    asked,          \* the instructions the plan was made from
    objects,        \* the same instructions in the caller's hands
    owned,          \* the payload and the accounts the plan keeps
    signed,         \* the payload and the accounts whose preimage was signed
    created,        \* the payload and the accounts of the instruction
    message         \* the message that carries it

planVars == <<sdk, asked, objects, owned, signed, created, message>>
allVars == <<vars, planVars>>

Nothing == [payload |-> <<>>, accounts |-> <<>>]

-----------------------------------------------------------------------------
\* The instructions for use inside an Advance.
Inner(program, accounts, data) == [program |-> program, accounts |-> accounts, data |-> data]
Writable(a) == Meta(a, FALSE, TRUE)
Readonly(a) == Meta(a, FALSE, FALSE)

Withdraw(receiver, lamports) ==
    Inner(WinterWallet, <<Writable(Wallet), Writable(receiver)>>, <<2>> \o lamports)
Close(receiver) == Inner(WinterWallet, <<Writable(Wallet), Writable(receiver)>>, <<3>>)
TokenTransfer(source, destination, tokenProgram, amount) ==
    Inner(tokenProgram, <<Writable(source), Writable(destination), Readonly(Wallet)>>,
          <<3>> \o amount)

\* What the commands make plans from; an amount of zero is refused.
Positive(amount) == \E k \in DOMAIN amount : amount[k] # 0
WithdrawCommand == {<< Withdraw(to, n) >> : to \in Receivers, n \in {a \in Amounts : Positive(a)}}
CloseCommand == {<< Close(to) >> : to \in Receivers}
TransferCommand ==
    {<< TokenTransfer(Ata[t][Wallet], Ata[t][to], t, n) >> :
        t \in TokenPrograms, to \in Receivers, n \in {a \in Amounts : Positive(a)}}
Commands == WithdrawCommand \cup CloseCommand \cup TransferCommand

\* encode_advance: no account of the outer instruction is a signer.
KeepSigner(m) == m                      \* mutant: the flag is passed on
Scrubbed(m) == [m EXCEPT !.signer = FALSE]

Keys(metas) == [k \in DOMAIN metas |-> metas[k].key]
Plain(ixs) == [k \in DOMAIN ixs |-> [ixs[k] EXCEPT !.accounts = Keys(@)]]
MetasOf(ix) == <<Readonly(ix.program)>> \o [k \in DOMAIN ix.accounts |-> Scrubbed(ix.accounts[k])]
Encoded(ixs) ==
    [payload  |-> EncodedData(Plain(ixs)),
     accounts |-> FlattenSeq([k \in DOMAIN ixs |-> MetasOf(ixs[k])])]

Parts(from) == [payload |-> from.payload, accounts |-> Keys(from.accounts)]

\* advance_preimage, verify_signature: the bytes of the addresses in order, and those of
\* the payload.  The hash is taken as injective; where the payload begins is not in it.
Spelling(addresses) == FlattenSeq([k \in DOMAIN addresses |-> Spelled[addresses[k]]])
PreimageNoPayload(parts) == Spelling(parts.accounts)   \* mutant: the last part forgotten
Preimage(parts) == Spelling(parts.accounts) \o parts.payload

\* advance
Advance(from) ==
    Inner(WinterWallet, <<Writable(Wallet)>> \o from.accounts, from.payload)

-----------------------------------------------------------------------------
\* What a handmade Advance may carry a signature of: nothing, its accounts with another
\* payload, itself, and itself with a boundary drawn elsewhere through the same bytes.
Divided(in, n) ==
    [payload  |-> Spelling(SubSeq(in.accounts, n + 1, Len(in.accounts))) \o in.payload,
     accounts |-> SubSeq(in.accounts, 1, n)]
Joined(in, a) ==
    [payload  |-> SubSeq(in.payload, AddressLen + 1, Len(in.payload)),
     accounts |-> Append(in.accounts, a)]
SignedFor(in) ==
    {Nothing, [in EXCEPT !.payload = <<>>]}
    \cup {Divided(in, n) : n \in 0..Len(in.accounts)}
    \cup {Joined(in, a) : a \in {b \in Address : IsPrefix(Spelled[b], in.payload)}}

ComposeInit ==
    /\ plan = <<>> /\ Arrived(Nothing)
    /\ status = "composing"
PlanInit ==
    /\ \/ ComposeInit /\ sdk \in Sdk /\ signed = Nothing
       \/ Init /\ sdk = "none" /\ signed \in SignedFor(input)
    /\ asked = <<>> /\ objects = <<>> /\ owned = Nothing
    /\ created = Nothing /\ message = M!Unbuilt

\* AdvancePlan::new, the constructor of plan.ts
NewPlan(ixs) ==
    /\ status = "composing" /\ owned = Nothing
    /\ Fits(Plain(ixs))
    /\ plan' = Plain(ixs) /\ asked' = ixs /\ objects' = ixs
    /\ owned' = Encoded(ixs)
    /\ UNCHANGED <<input, payload, cursor, left, invoked, status, sdk, signed, created,
                   message>>

\* The caller changes an instruction it passed.
Change(k, ix) ==
    /\ status = "composing" /\ owned # Nothing
    /\ sdk \in Careless
    /\ k \in DOMAIN objects
    /\ objects' = [objects EXCEPT ![k] = ix]
    /\ UNCHANGED <<vars, sdk, asked, owned, signed, created, message>>

Sign ==
    /\ status = "composing" /\ owned # Nothing /\ signed = Nothing
    /\ signed' = Parts(owned)
    /\ UNCHANGED <<vars, sdk, asked, objects, owned, created, message>>

\* AdvancePlan::instruction takes what the plan owns; createInstruction encodes the
\* instructions again, whose list it copied, but not they.
Reencoded == Encoded(objects)
Instruction == IF sdk = "rust" THEN owned ELSE Reencoded
Create ==
    /\ status = "composing" /\ signed # Nothing /\ created = Nothing
    /\ sdk = "typescript" => Fits(Plain(objects))
    /\ created' = Instruction
    /\ UNCHANGED <<vars, sdk, asked, objects, owned, signed, message>>

\* The message is built and executed; only the payer signs it.
Submitted == M!WithComputeBudget(<< [program |-> WinterWallet,
                                     accounts |-> Advance(created).accounts,
                                     size |-> Len(created.payload), limit |-> 0] >>, 0)
Deliver ==
    /\ status = "composing" /\ created # Nothing
    /\ message' = M!Built(Sorted(Collection(M!AllMetas(Submitted))), Submitted)
    /\ input' = Parts(created)
    /\ payload' = created.payload
    /\ status' = "received"
    /\ UNCHANGED <<plan, cursor, left, invoked, sdk, asked, objects, owned, signed, created>>

\* verify_signature
Verified == signed # Nothing /\ Preimage(input) = Preimage(signed)
MissingSignature == status = "received" /\ ~Verified /\ Reject

Decode ==
    /\ \/ Verified /\ Start
       \/ MissingSignature
       \/ StartRejects \/ InvokeNext \/ InvokeRejects \/ Finish \/ FinishRejects \/ InnerFails
    /\ UNCHANGED planVars

PlanNext ==
    \/ \E ixs \in Requests \cup Commands : NewPlan(ixs)
    \/ \E k \in 1..2, ix \in Changes : Change(k, ix)
    \/ Sign \/ Create \/ Deliver \/ Decode

PlanSpec == PlanInit /\ [][PlanNext]_allVars

-----------------------------------------------------------------------------
\* The instruction created from a plan is the one that was signed, whatever became of
\* the instructions it was made from: "you can't accidentally sign one ordering and
\* submit another".
SubmittedIsSigned == created # Nothing => Parts(created) = signed

\* The program accepts only the encoding of what it invoked (AcceptedIsEncoding), from
\* bytes that were signed; and passed as many accounts as were signed, it accepts
\* nothing but the accounts and the payload that were signed.
AcceptedIsSigned ==
    status = "accepted" =>
        /\ AcceptedIsEncoding
        /\ Preimage(input) = Preimage(signed)
        /\ Len(input.accounts) = Len(signed.accounts) => input = signed

\* An Advance needs no signature but the payer's, whoever is a signer of the inner
\* instructions: the pipeline refuses any other after the position is burned.
OnlyPayerSigns == created # Nothing => M!PayerOnlySigns(Submitted)

\* The privileges an account has in the message, and those it has in an inner
\* instruction: there the wallet signs (invoke_next).
At(a) == CHOOSE k \in DOMAIN message.keys : message.keys[k] = a
NotPromoted(a) == M!SignerAt(message, At(a))    \* mutant: the wallet is not promoted
SignsInner(a) == M!SignerAt(message, At(a)) \/ a = Wallet
WritesInner(a) == M!WritableAt(message, At(a))

\* The privileges of an inner instruction's accounts: the wallet and the payer sign
\* wherever the plan lists them and nobody else does, also where the plan wanted it, and
\* an account is writable where it was planned so, or because another part of the same
\* transaction wants it so.
InnerPrivileges ==
    plan # Handmade =>
        \A k \in DOMAIN invoked : \A j \in DOMAIN asked[k].accounts :
            LET m == asked[k].accounts[j]
                wanted == UNION {ToSet(asked[i].accounts) : i \in DOMAIN asked}
            IN  /\ invoked[k].accounts[j] = m.key
                /\ SignsInner(m.key) <=> m.key \in {Wallet, Payer}
                /\ WritesInner(m.key) <=>
                      \/ m.key \in {Wallet, Payer}
                      \/ \E o \in wanted : o.key = m.key /\ o.writable
=============================================================================
