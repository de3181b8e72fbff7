------------------------ MODULE WinterWalletProgram ------------------------
(***************************************************************************)
(* The on-chain program (program/src): Initialize, Advance, Withdraw and   *)
(* Close over the accounts of the ledger, executed inside transactions of  *)
(* the Solana runtime.  A transaction runs its instructions one after the  *)
(* other; Advance calls its inner instructions (CPI), which may enter the  *)
(* program again.  The call stack is explicit, so the states between two   *)
(* inner instructions are states of the model, and a transaction that      *)
(* fails anywhere is rolled back as a whole.                               *)
(*                                                                         *)
(* A Winternitz signature is idealised: it is the preimage its holder      *)
(* signed, and it verifies under a stored root exactly when it is the      *)
(* preimage the program rebuilds.  A preimage is the id and two roots, of  *)
(* fixed width, and behind them one string of bytes: the addresses of the  *)
(* accounts and the payload, with no sign of where the payload begins.     *)
(* The program takes that from the number of accounts it is passed.        *)
(* A root is the position of its key in the wallet's sequence of keys, so  *)
(* 1 is the root after the one whose hash names the wallet.                *)
(***************************************************************************)
EXTENDS Integers, Sequences, FiniteSets, SequencesExt

CONSTANTS
    Id,             \* wallet ids: the roots of the keys at position 0
    User,           \* accounts of the system program, held by key pairs
    Pda,            \* Pda[i]: the address derived for id i
    Rent,           \* rent-exempt minimum of a wallet account, in lamports
    Funds,          \* Funds[u]: lamports user u starts with
    Instruction,    \* the instructions that circulate, nested ones included
    Transaction,    \* sequences of instructions a payer may submit
    Encoding,       \* addresses of accounts and payload, one behind the other
    Decoded(_, _),  \* the instructions invoked for n accounts and an encoding
    MaxPassthrough, \* MAX_PASSTHROUGH_ACCOUNTS: 128
    MaxDepth        \* the runtime's bound on the height of the call stack

Address == User \cup {Pda[i] : i \in Id}

\* An account without data; a wallet account holds [id, root].
NoData == [id |-> "none", root |-> 0]

ASSUME PdaAssumption ==
    /\ "none" \notin Id
    /\ \A i, j \in Id : Pda[i] = Pda[j] => i = j
    /\ \A i \in Id : Pda[i] \notin User
\* Ids and addresses are 32 bytes.
ASSUME FiniteAssumption == IsFiniteSet(Address)
ASSUME AmountAssumption ==
    /\ Rent \in Nat \ {0}
    /\ Funds \in [User -> Nat]
\* Addresses and amounts are of their types.  A user pays for an Initialize (of an
\* address that pays for itself the runtime would refuse the missing rent).  Every
\* signed preimage moves its wallet to a later key: clients sign with the key of
\* the current root and commit to the root of the next position.  What a client signs
\* has a number of accounts, of which the preimage says nothing.
WellFormed(ix) ==
    /\ ix.op \in {"initialize", "advance", "withdraw", "close", "transfer"}
    /\ ix.op = "initialize" =>
          /\ ix.payer \in User /\ ix.wallet \in Address
          /\ ix.id \in Id /\ ix.root \in Nat
    /\ ix.op = "advance" =>
          /\ ix.wallet \in Address
          /\ ix.bytes \in Encoding /\ ix.signed.bytes \in Encoding
          /\ ix.accounts \in Nat /\ ix.signed.accounts \in 0..MaxPassthrough
          /\ ix.signed.cur \in Nat /\ ix.signed.new \in Nat
          /\ ix.signed.cur < ix.signed.new
    /\ ix.op \in {"withdraw", "close"} => ix.wallet \in Address /\ ix.receiver \in Address
    /\ ix.op = "transfer" => ix.from \in Address /\ ix.to \in Address
    /\ ix.op \in {"withdraw", "transfer"} => ix.lamports \in Nat
ASSUME InstructionAssumption ==
    /\ Transaction \subseteq Seq(Instruction)
    /\ \A ix \in Instruction : WellFormed(ix)
\* AdvancePayload has the decoder.  Of bytes it refuses halfway, Decoded has the
\* instructions invoked before that.
ASSUME DecodedAssumption ==
    /\ MaxPassthrough \in Nat
    /\ \A n \in 0..MaxPassthrough, b \in Encoding : Decoded(n, b) \in Seq(Instruction)

VARIABLES
    accounts,   \* the ledger: lamports, owner and data of every address
    frames,     \* the call stack of the running transaction, <<>> between two
    spent,      \* history: spent[i], roots of i accepted since its Initialize
    closed,     \* history: wallets closed and not initialized again
    advanced,   \* history: wallets that accepted an Advance in this transaction
    saved       \* the ledger, spent and closed when the transaction began

vars == <<accounts, frames, spent, closed, advanced, saved>>

-----------------------------------------------------------------------------
Top == frames[Len(frames)]
Rest == [frames EXCEPT ![Len(frames)].todo = Tail(@)]

\* The next instruction of the running frame is ix.
Runs(ix) == frames # <<>> /\ Top.todo # <<>> /\ ix = Head(Top.todo)

\* The account is long enough to be read as a wallet record.
IsWallet(a) == accounts[a].data # NoData

\* Debit, then credit what the receiver holds after the debit: the two may be
\* the same account.
MoveReadingFirst(from, to, n) ==        \* mutant: both balances read up front
    [accounts EXCEPT ![from].lamports = @ - n,
                     ![to].lamports = accounts[to].lamports + n]
Move(from, to, n) ==
    LET debited == [accounts EXCEPT ![from].lamports = @ - n]
    IN  [debited EXCEPT ![to].lamports = @ + n]

\* The wallet's account is a signer of the instruction.
AnyoneSigns(a) == TRUE                  \* mutant: is_signer not checked
Signs(a) == a \in Top.signers

\* balance.saturating_sub(n) is not below the rent-exempt minimum (Rent > 0).
HeldRent(a, n) == accounts[a].lamports >= Rent  \* mutant: balance before the debit
KeepsRent(a, n) == accounts[a].lamports - n >= Rent

\* verify_signature: recovered and stored root agree iff the concatenated parts do.
VerifyNoPayload(ix, rec) ==             \* mutant: the payload left out of the parts
    /\ ix.accounts <= MaxPassthrough
    /\ ix.signed.id = rec.id
    /\ ix.signed.cur = rec.root
    /\ ix.signed.new = ix.new
VerifySignature(ix, rec) ==
    /\ ix.accounts <= MaxPassthrough
    /\ ix.signed.id = rec.id
    /\ ix.signed.cur = rec.root
    /\ ix.signed.new = ix.new
    /\ ix.signed.bytes = ix.bytes

\* What a signature stands for: the instructions its holder meant, and to a program
\* passed another number of accounts, any reading of the same bytes.
SignedLists(ix) ==
    {Decoded(n, ix.signed.bytes) :
        n \in IF ix.accounts = ix.signed.accounts THEN {ix.signed.accounts}
              ELSE 0..MaxPassthrough}

\* The root written before verification and CPI.
KeepRoot(a, new) == accounts            \* mutant: the new root is not stored
StoreRoot(a, new) == [accounts EXCEPT ![a].data.root = new]

\* What create_account takes from the payer: the whole rent for an empty
\* account, the missing part for one that was funded before.
TopUpEmpty(a) ==                        \* mutant: a funded account is taken as it is
    IF accounts[a].lamports = 0 THEN Rent ELSE 0
TopUp(a) ==
    IF accounts[a].lamports < Rent THEN Rent - accounts[a].lamports ELSE 0

\* The address the record of id is stored at.
AnyAddress(a, id) == TRUE               \* mutant: the address is not compared
AtDerivedAddress(a, id) == a = Pda[id]

\* AccountView::close, after the receiver got the balance.
DrainOnly(ledger, a) == ledger          \* mutant: only the lamports are moved out
Reset(ledger, a) == [ledger EXCEPT ![a].owner = "system", ![a].data = NoData]

-----------------------------------------------------------------------------
Init ==
    /\ accounts = [a \in Address |->
                      [lamports |-> IF a \in User THEN Funds[a] ELSE 0,
                       owner |-> "system", data |-> NoData]]
    /\ frames = <<>>
    /\ spent = [i \in Id |-> {}]
    /\ closed = {}
    /\ advanced = {}
    /\ saved = [accounts |-> accounts, spent |-> spent, closed |-> closed]

\* The runtime starts a transaction signed by payer.
BeginTransaction(payer, tx) ==
    /\ frames = <<>>
    /\ frames' = << [wallet |-> payer, todo |-> tx, signers |-> {payer},
                     signed |-> {tx}] >>
    /\ advanced' = {}
    /\ saved' = [accounts |-> accounts, spent |-> spent, closed |-> closed]
    /\ UNCHANGED <<accounts, spent, closed>>

\* initialize.rs: the signature over the constant tag yields the id, the id
\* the only address the record may be stored at.
Initialize(ix) ==
    /\ ix.op = "initialize" /\ Runs(ix)
    /\ accounts[ix.wallet].owner = "system"
    /\ AtDerivedAddress(ix.wallet, ix.id)
    /\ TopUp(ix.wallet) > 0 =>
          /\ ix.payer \in Top.signers /\ accounts[ix.payer].owner = "system"
          /\ accounts[ix.payer].lamports >= TopUp(ix.wallet)
    /\ accounts' = [Move(ix.payer, ix.wallet, TopUp(ix.wallet)) EXCEPT
                       ![ix.wallet].owner = "winterwallet",
                       ![ix.wallet].data = [id |-> ix.id, root |-> ix.root]]
    /\ frames' = Rest
    /\ spent' = [spent EXCEPT ![ix.id] = {}]
    /\ closed' = closed \ {ix.wallet}
    /\ UNCHANGED <<advanced, saved>>

\* advance.rs, execute up to the CPI loop: the record is read and the new root
\* stored before the signature is verified and before any inner instruction.
Advance(ix) ==
    /\ ix.op = "advance" /\ Runs(ix)
    /\ IsWallet(ix.wallet)
    /\ Len(frames) < MaxDepth
    /\ LET rec == accounts[ix.wallet].data
       IN  /\ VerifySignature(ix, rec)
           /\ accounts' = StoreRoot(ix.wallet, ix.new)
           /\ spent' = [spent EXCEPT ![rec.id] = @ \cup {rec.root}]
    /\ frames' = Append(Rest, [wallet |-> ix.wallet,
                               todo |-> Decoded(ix.accounts, ix.bytes),
                               signers |-> Top.signers \cup {ix.wallet},
                               signed |-> SignedLists(ix)])
    /\ advanced' = advanced \cup {ix.wallet}
    /\ UNCHANGED <<closed, saved>>

\* advance.rs, the end of execute: every instruction was invoked.
FinishAdvance ==
    /\ Len(frames) > 1 /\ Top.todo = <<>>
    /\ frames' = Front(frames)
    /\ UNCHANGED <<accounts, spent, closed, advanced, saved>>

\* withdraw.rs: the wallet must sign, and keeps its rent.
Withdraw(ix) ==
    /\ ix.op = "withdraw" /\ Runs(ix)
    /\ Signs(ix.wallet)
    /\ IsWallet(ix.wallet)
    /\ KeepsRent(ix.wallet, ix.lamports)
    /\ accounts' = Move(ix.wallet, ix.receiver, ix.lamports)
    /\ frames' = Rest
    /\ UNCHANGED <<spent, closed, advanced, saved>>

\* close.rs: the receiver gets the balance; data, lamports and owner are reset.
Close(ix) ==
    /\ ix.op = "close" /\ Runs(ix)
    /\ Signs(ix.wallet)
    /\ ix.wallet # ix.receiver
    /\ IsWallet(ix.wallet)
    /\ accounts' = Reset(Move(ix.wallet, ix.receiver, accounts[ix.wallet].lamports),
                         ix.wallet)
    /\ frames' = Rest
    /\ closed' = closed \cup {ix.wallet}
    /\ UNCHANGED <<spent, advanced, saved>>

\* The system program's transfer, the inner instruction every wallet pays with
\* and the way a user funds a wallet address.
Transfer(ix) ==
    /\ ix.op = "transfer" /\ Runs(ix)
    /\ Signs(ix.from)
    /\ accounts[ix.from].owner = "system"
    /\ accounts[ix.from].lamports >= ix.lamports
    /\ accounts' = Move(ix.from, ix.to, ix.lamports)
    /\ frames' = Rest
    /\ UNCHANGED <<spent, closed, advanced, saved>>

\* The runtime commits; an account left without lamports is dropped.
Commit ==
    /\ Len(frames) = 1 /\ Top.todo = <<>>
    /\ accounts' = [a \in Address |->
                       IF accounts[a].lamports = 0
                       THEN [lamports |-> 0, owner |-> "system", data |-> NoData]
                       ELSE accounts[a]]
    /\ frames' = <<>>
    /\ UNCHANGED <<spent, closed, advanced, saved>>

\* An instruction returned an error or the compute budget ran out: nothing of
\* the transaction remains.
Abort ==
    /\ frames # <<>>
    /\ accounts' = saved.accounts
    /\ spent' = saved.spent
    /\ closed' = saved.closed
    /\ frames' = <<>>
    /\ UNCHANGED <<advanced, saved>>

Step(ix) ==
    \/ Initialize(ix) \/ Advance(ix) \/ Withdraw(ix) \/ Close(ix) \/ Transfer(ix)

Next ==
    \/ \E payer \in User, tx \in Transaction : BeginTransaction(payer, tx)
    \/ \E ix \in Instruction : Step(ix)
    \/ FinishAdvance \/ Commit \/ Abort

Spec == Init /\ [][Next]_vars

-----------------------------------------------------------------------------
Record == [id : Id \cup {"none"}, root : Nat]
Ledger == [Address -> [lamports : Nat, owner : {"system", "winterwallet"},
                       data : Record]]
Frame == [wallet : Address, todo : Seq(Instruction),
          signers : SUBSET Address, signed : SUBSET Seq(Instruction)]

\* The ledger, the call stack and the histories are of their types.
TypeOK ==
    /\ accounts \in Ledger
    /\ frames \in Seq(Frame)
    /\ spent \in [Id -> SUBSET Nat]
    /\ closed \subseteq Address
    /\ advanced \subseteq Address
    /\ saved.accounts \in Ledger
    /\ saved.spent \in [Id -> SUBSET Nat]
    /\ saved.closed \subseteq Address

\* No instruction creates or destroys lamports, in the middle of a transaction
\* either: also a Withdraw to the wallet itself, an Initialize of an address
\* that was funded before, a Close.
LamportsConserved ==
    SumFunction([a \in Address |-> accounts[a].lamports]) = SumFunction(Funds)

\* A live wallet keeps its rent, whatever Withdraws its Advances ran and however
\* its address was funded before Initialize.
WalletRentExempt ==
    \A a \in Address : IsWallet(a) => accounts[a].lamports >= Rent

\* A wallet record lives at the address derived from its id, and exactly the
\* accounts with a record belong to the program.
RecordAtOwnAddress ==
    \A a \in Address :
        /\ IsWallet(a) => accounts[a].data.id \in Id /\ Pda[accounts[a].data.id] = a
        /\ IsWallet(a) <=> accounts[a].owner = "winterwallet"

\* Every root accepted since Initialize is behind the stored one, so that none
\* of their signatures verifies again.
SpentBehindRoot ==
    \A i \in Id : IsWallet(Pda[i]) =>
        \A r \in spent[i] : r < accounts[Pda[i]].data.root

\* An Advance is never accepted under a root accepted before (since the wallet
\* was initialized): not in a later transaction, and not by re-entering the
\* program from an inner instruction of the Advance that used it.
RootAcceptedOnce ==
    [][Len(frames') > Len(frames) /\ frames # <<>> =>
          LET rec == accounts[frames'[Len(frames')].wallet].data
          IN  rec.root \notin spent[rec.id]]_vars

\* A wallet that was closed is gone: no later instruction of the same
\* transaction that funds its address makes it a wallet again.
ClosedStaysClosed ==
    frames = <<>> =>
        \A a \in closed : ~IsWallet(a) /\ accounts[a].owner = "system"

\* In a transaction that has not passed a signature check of wallet a, the
\* record of a stands and its balance does not go down.
UntouchedWithoutAdvance ==
    \A a \in Address \ advanced :
        saved.accounts[a].data # NoData =>
            /\ accounts[a].data = saved.accounts[a].data
            /\ accounts[a].lamports >= saved.accounts[a].lamports

\* Whatever frame is open, what it still has to run is the end of a list its holder's
\* signature stands for: the payer's the transaction, the wallet's the bytes behind
\* the roots.  Passed as many accounts as the holder signed, the program runs exactly
\* the list that was signed; the number itself is not in the preimage.
OnlySignedRuns ==
    \A k \in 1..Len(frames) : \E list \in frames[k].signed : IsSuffix(frames[k].todo, list)
=============================================================================
