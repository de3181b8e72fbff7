--------------------------- MODULE AdvancePayload ---------------------------
(***************************************************************************)
(* The inner instructions of an Advance: how the client encodes them       *)
(* (encode_advance) and how the program takes them apart (execute,         *)
(* invoke_next).  Counts, lengths and data are in the payload, accounts in *)
(* a list beside it, and the program reads both with two cursors that      *)
(* nothing but their lengths keeps together.  AdvancePlan has what happens *)
(* between encoder and decoder.                                            *)
(***************************************************************************)
EXTENDS Integers, Sequences, SequencesExt, FiniteSets

CONSTANTS
    Base,           \* values of a byte: 256
    Address,
    Executable,     \* the addresses that are programs
    MaxPassthrough, \* MAX_PASSTHROUGH_ACCOUNTS: 128
    MaxCpi,         \* MAX_CPI_INSTRUCTION_ACCOUNTS: 16
    Payloads,       \* payloads and account lists from anywhere
    AccountLists

Byte == 0..(Base - 1)

ASSUME PayloadAssumption ==
    /\ Base \in Nat \ {0, 1}
    /\ Executable \subseteq Address
    /\ MaxPassthrough \in Nat /\ MaxCpi \in 0..(Base - 1)
    /\ Payloads \subseteq Seq(Byte) /\ AccountLists \subseteq Seq(Address)

VARIABLES
    plan,       \* what the client was asked for, or Handmade
    input,      \* payload and accounts of the Advance
    payload,    \* the part of the payload not read yet
    cursor,     \* the accounts consumed
    left,       \* the inner instructions still announced
    invoked,    \* the inner instructions invoked
    status

vars == <<plan, input, payload, cursor, left, invoked, status>>

-----------------------------------------------------------------------------
\* The client.
Handmade == << [program |-> "none", accounts |-> <<>>, data |-> <<>>] >>

AccountsOf(ix) == <<ix.program>> \o ix.accounts
EncodedAccounts(ixs) == FlattenSeq([k \in DOMAIN ixs |-> AccountsOf(ixs[k])])

DataOf(ix) ==
    <<Len(ix.accounts), Len(ix.data) % Base, Len(ix.data) \div Base>> \o ix.data
EncodedData(ixs) ==
    <<Len(ixs)>> \o FlattenSeq([k \in DOMAIN ixs |-> DataOf(ixs[k])])

\* The limits encode_advance enforces.
FitsMostly(ixs) ==                      \* mutant: the accounts of an inner instruction
    /\ Len(ixs) <= Base - 1
    /\ Len(EncodedAccounts(ixs)) <= MaxPassthrough
    /\ \A k \in DOMAIN ixs : Len(ixs[k].data) <= Base * Base - 1
Fits(ixs) ==
    /\ Len(ixs) <= Base - 1
    /\ Len(EncodedAccounts(ixs)) <= MaxPassthrough
    /\ \A k \in DOMAIN ixs :
          /\ Len(ixs[k].accounts) <= MaxCpi
          /\ Len(ixs[k].data) <= Base * Base - 1

Arrived(in) ==
    /\ input = in
    /\ payload = in.payload
    /\ cursor = 0 /\ left = 0 /\ invoked = <<>>

Init ==
    /\ plan = Handmade
    /\ \E in \in [payload : Payloads, accounts : AccountLists] : Arrived(in)
    /\ status = "received"

-----------------------------------------------------------------------------
\* The program.
Reject ==
    /\ status' = "rejected"
    /\ UNCHANGED <<plan, input, payload, cursor, left, invoked>>

\* verify_signature bounds the accounts; execute reads the number of
\* instructions.
Start ==
    /\ status = "received"
    /\ Len(input.accounts) <= MaxPassthrough
    /\ payload # <<>>
    /\ left' = Head(payload)
    /\ payload' = Tail(payload)
    /\ status' = "running"
    /\ UNCHANGED <<plan, input, cursor, invoked>>
StartRejects ==
    /\ status = "received"
    /\ Len(input.accounts) > MaxPassthrough \/ payload = <<>>
    /\ Reject

\* The head of the next instruction: read_u8, then read_u16 in little endian.
NumAccounts == payload[1]
DataLen == payload[2] + payload[3] * Base
Body == SubSeq(payload, 4, Len(payload))

\* The accounts are there.
EndInRange == cursor + 1 + NumAccounts <= Len(input.accounts)

InvocableAny ==                         \* mutant: data accounts taken for programs
    /\ Len(payload) >= 3
    /\ NumAccounts <= MaxCpi
    /\ DataLen <= Len(Body)
    /\ EndInRange
Invocable ==
    /\ Len(payload) >= 3
    /\ NumAccounts <= MaxCpi
    /\ DataLen <= Len(Body)
    /\ EndInRange
    /\ input.accounts[cursor + 1] \in Executable

\* invoke_next
InvokeNext ==
    /\ status = "running" /\ left > 0
    /\ Invocable
    /\ payload' = SubSeq(Body, DataLen + 1, Len(Body))
    /\ cursor' = cursor + 1 + NumAccounts
    /\ invoked' = Append(invoked,
          [program |-> input.accounts[cursor + 1],
           accounts |-> SubSeq(input.accounts, cursor + 2, cursor + 1 + NumAccounts),
           data |-> SubSeq(Body, 1, DataLen)])
    /\ left' = left - 1
    /\ UNCHANGED <<plan, input, status>>
InvokeRejects ==
    /\ status = "running" /\ left > 0
    /\ ~Invocable
    /\ Reject

\* The end of execute: nothing is left over.
PayloadRead == payload = <<>>           \* mutant: accounts left over are ignored
AllConsumed == payload = <<>> /\ cursor = Len(input.accounts)
Finish ==
    /\ status = "running" /\ left = 0
    /\ AllConsumed
    /\ status' = "accepted"
    /\ UNCHANGED <<plan, input, payload, cursor, left, invoked>>
FinishRejects ==
    /\ status = "running" /\ left = 0
    /\ ~AllConsumed
    /\ Reject

\* An inner instruction returns an error, and with it the transaction.
InnerFails ==
    /\ status = "running" /\ invoked # <<>>
    /\ status' = "failed"
    /\ UNCHANGED <<plan, input, payload, cursor, left, invoked>>

Next ==
    \/ Start \/ StartRejects \/ InvokeNext \/ InvokeRejects
    \/ Finish \/ FinishRejects \/ InnerFails

Spec == Init /\ [][Next]_vars

-----------------------------------------------------------------------------
\* The cursors stay inside the payload and the account list, and only programs are
\* invoked.
TypeOK ==
    /\ payload \in Seq(Byte) /\ left \in Byte
    /\ cursor \in 0..Len(input.accounts)
    /\ invoked \in Seq([program : Executable, accounts : Seq(Address), data : Seq(Byte)])
    /\ status \in {"composing", "received", "running", "accepted", "rejected", "failed"}

\* The program invokes the instructions the client encoded: in order, each with its
\* own accounts and data, and all of them when it accepts.  Encoder and decoder have the
\* same limits: of what encode_advance lets through the decoder turns down one thing,
\* an instruction of what is no program, and that after the position is burned.
EncodedIsInvoked ==
    plan # Handmade =>
        /\ IsPrefix(invoked, plan)
        /\ status = "accepted" => invoked = plan
        /\ status = "rejected" =>
              /\ Len(invoked) < Len(plan)
              /\ plan[Len(invoked) + 1].program \notin Executable

\* Wherever payload and accounts come from, the program accepts them only as the
\* encoding of what it invoked: every byte and every account that was signed has
\* its place, none is skipped and none used twice.
AcceptedIsEncoding ==
    status = "accepted" =>
        /\ input.payload = EncodedData(invoked)
        /\ input.accounts = EncodedAccounts(invoked)
=============================================================================
