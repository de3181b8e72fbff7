--------------------- MODULE WinterWalletProgramProofs ---------------------
(***************************************************************************)
(* Theorems about the on-chain program, for any wallets, users, balances   *)
(* and instructions.  A transaction that aborts restores the ledger, so    *)
(* the invariant holds of the saved ledger as well as of the running one.  *)
(***************************************************************************)
EXTENDS WinterWalletProgram, FoldFacts

\* A record lives where it belongs, with its rent.
GoodLedger(ledger) ==
    /\ ledger \in Ledger
    /\ \A a \in Address :
          /\ ledger[a].data # NoData =>
                /\ ledger[a].data.id \in Id /\ Pda[ledger[a].data.id] = a
                /\ ledger[a].lamports >= Rent
          /\ ledger[a].data # NoData <=> ledger[a].owner = "winterwallet"

\* The roots accepted are behind the stored ones.
Behind(ledger, roots) ==
    \A i \in Id : ledger[Pda[i]].data # NoData =>
        \A r \in roots[i] : r < ledger[Pda[i]].data.root

\* Nothing is left of a closed wallet.
Gone(ledger, wallets) == \A a \in wallets : ledger[a].data = NoData

LedgerInv ==
    /\ GoodLedger(accounts) /\ Behind(accounts, spent) /\ Gone(accounts, closed)
    /\ GoodLedger(saved.accounts) /\ Behind(saved.accounts, saved.spent)
    /\ Gone(saved.accounts, saved.closed)

Inv == TypeOK /\ LedgerInv

-----------------------------------------------------------------------------
\* Derived addresses are accounts of nobody.
LEMMA PdaInAddress == \A i \in Id : Pda[i] \in Address /\ Pda[i] \notin User
BY PdaAssumption DEF Address

\* Another owner and another record in the place of an account's own.
Overwritten(after, moved, w, o, d) ==
    /\ moved \in Ledger /\ w \in Address
    /\ o \in {"system", "winterwallet"} /\ d \in Record
    /\ after = [moved EXCEPT ![w].owner = o, ![w].data = d]

LEMMA OverwriteKeeps ==
    ASSUME NEW after, NEW moved, NEW w, NEW o, NEW d, Overwritten(after, moved, w, o, d)
    PROVE  /\ after \in Ledger
           /\ \A a \in Address \ {w} : after[a] = moved[a]
           /\ after[w].data = d /\ after[w].owner = o
           /\ after[w].lamports = moved[w].lamports
<1>0. /\ moved \in Ledger /\ w \in Address
      /\ o \in {"system", "winterwallet"} /\ d \in Record
      /\ after = [moved EXCEPT ![w].owner = o, ![w].data = d]
  BY DEF Overwritten
<1>1. /\ DOMAIN moved = Address
      /\ \A a \in Address : moved[a] \in [lamports : Nat, owner : {"system", "winterwallet"},
                                          data : Record]
  BY <1>0 DEF Ledger
<1>2. PICK one : one = [[moved[w] EXCEPT !.owner = o] EXCEPT !.data = d]
  OBVIOUS
<1>3. /\ one \in [lamports : Nat, owner : {"system", "winterwallet"}, data : Record]
      /\ one.data = d /\ one.owner = o /\ one.lamports = moved[w].lamports
  BY <1>0, <1>1, <1>2
<1>4. after = [moved EXCEPT ![w] = one]
  BY <1>0, <1>1, <1>2
<1>5. after[w] = one /\ \A a \in Address \ {w} : after[a] = moved[a]
  BY <1>0, <1>1, <1>4
<1>6. after \in Ledger
  BY <1>0, <1>1, <1>3, <1>4 DEF Ledger
<1> QED
  BY <1>3, <1>5, <1>6

\* A move of lamports that its source can pay leaves owners and data alone, and no
\* other balance goes down.
LEMMA MoveKeeps ==
    ASSUME accounts \in Ledger, NEW from \in Address, NEW to \in Address, NEW n \in Nat,
           n <= accounts[from].lamports
    PROVE  /\ Move(from, to, n) \in Ledger
           /\ \A a \in Address :
                 /\ Move(from, to, n)[a].data = accounts[a].data
                 /\ Move(from, to, n)[a].owner = accounts[a].owner
                 /\ a # from => Move(from, to, n)[a].lamports >= accounts[a].lamports
                 /\ a = from => Move(from, to, n)[a].lamports >= accounts[a].lamports - n
           /\ from # to => /\ Move(from, to, n)[from].lamports = accounts[from].lamports - n
                           /\ Move(from, to, n)[to].lamports = accounts[to].lamports + n
<1> DEFINE debited == [accounts EXCEPT ![from].lamports = accounts[from].lamports - n]
<1>1. debited \in Ledger
  BY DEF Ledger
<1>2. Move(from, to, n) = [debited EXCEPT ![to].lamports = debited[to].lamports + n]
  BY DEF Move
<1>3. \A a \in Address : /\ debited[a].data = accounts[a].data
                         /\ debited[a].owner = accounts[a].owner
                         /\ a # from => debited[a].lamports = accounts[a].lamports
                         /\ a = from => debited[a].lamports = accounts[a].lamports - n
  BY DEF Ledger
<1> HIDE DEF debited
<1>4. Move(from, to, n) \in Ledger
  BY <1>1, <1>2 DEF Ledger
<1>5. \A a \in Address :
         /\ Move(from, to, n)[a].data = debited[a].data
         /\ Move(from, to, n)[a].owner = debited[a].owner
         /\ a # to => Move(from, to, n)[a].lamports = debited[a].lamports
         /\ a = to => Move(from, to, n)[a].lamports = debited[a].lamports + n
  BY <1>1, <1>2 DEF Ledger
<1>6. \A a \in Address : accounts[a].lamports \in Nat /\ debited[a].lamports \in Nat
  BY <1>1 DEF Ledger
<1> QED
  BY <1>3, <1>4, <1>5, <1>6

\* The running frame, and the call stack once its next instruction is taken.
LEMMA TopFrame ==
    ASSUME frames \in Seq(Frame), frames # <<>>
    PROVE  Len(frames) \in 1..Len(frames) /\ Top \in Frame
BY DEF Top

LEMMA RestKeeps ==
    ASSUME frames \in Seq(Frame), NEW ix, Runs(ix)
    PROVE  /\ Rest \in Seq(Frame) /\ Len(Rest) = Len(frames)
           /\ ix \in Instruction /\ Top \in Frame
<1>1. frames # <<>> /\ Top.todo # <<>> /\ ix = Head(Top.todo)
  BY DEF Runs
<1>2. Top \in Frame /\ Len(frames) \in 1..Len(frames)
  BY <1>1, TopFrame
<1>3. Top.todo \in Seq(Instruction)
  BY <1>2 DEF Frame
<1>4. ix \in Instruction /\ Tail(Top.todo) \in Seq(Instruction)
  BY <1>1, <1>3
<1>5. Rest = [frames EXCEPT ![Len(frames)] = [Top EXCEPT !.todo = Tail(Top.todo)]]
  BY DEF Rest, Top
<1>6. [Top EXCEPT !.todo = Tail(Top.todo)] \in Frame
  BY <1>2, <1>4 DEF Frame
<1>7. Rest \in Seq(Frame) /\ Len(Rest) = Len(frames)
  BY <1>2, <1>5, <1>6
<1> QED
  BY <1>2, <1>4, <1>7

-----------------------------------------------------------------------------
\* The empty ledger is good.
LEMMA InitInv == Init => Inv
<1> SUFFICES ASSUME Init PROVE Inv
  OBVIOUS
<1>1. accounts \in Ledger
  BY AmountAssumption DEF Init, Ledger, Record, NoData
<1>2. \A a \in Address : accounts[a].data = NoData /\ accounts[a].owner = "system"
  BY DEF Init
<1>3. saved.accounts = accounts /\ saved.spent = spent /\ saved.closed = closed
  BY DEF Init
<1>4. TypeOK
  BY <1>1, <1>3 DEF Init, TypeOK
<1>5. GoodLedger(accounts) /\ Behind(accounts, spent) /\ Gone(accounts, closed)
  BY <1>1, <1>2, PdaInAddress DEF GoodLedger, Behind, Gone, Init
<1> QED
  BY <1>3, <1>4, <1>5 DEF Inv, LedgerInv

\* An action that keeps the saved ledger has the running one to account for.
LEMMA SavedKept ==
    ASSUME Inv, UNCHANGED saved,
           accounts' \in Ledger, frames' \in Seq(Frame), spent' \in [Id -> SUBSET Nat],
           closed' \subseteq Address, advanced' \subseteq Address,
           GoodLedger(accounts'), Behind(accounts', spent'), Gone(accounts', closed')
    PROVE  Inv'
BY DEF Inv, TypeOK, LedgerInv, GoodLedger, Behind, Gone

\* A ledger whose records are those of the running one, with their rent still
\* paid, is as good.
LEMMA SameRecords ==
    ASSUME Inv, NEW ledger \in Ledger,
           \A a \in Address :
              /\ ledger[a].data = accounts[a].data /\ ledger[a].owner = accounts[a].owner
              /\ accounts[a].data # NoData => ledger[a].lamports >= Rent
    PROVE  GoodLedger(ledger) /\ Behind(ledger, spent) /\ Gone(ledger, closed)
<1>1. GoodLedger(ledger)
  BY DEF Inv, LedgerInv, GoodLedger
<1>2. Behind(ledger, spent)
  BY PdaInAddress DEF Inv, LedgerInv, Behind
<1>3. Gone(ledger, closed)
  BY DEF Inv, TypeOK, LedgerInv, Gone
<1> QED
  BY <1>1, <1>2, <1>3

\* Initialize makes one record, with its rent and nothing spent.
LEMMA InitializeInv ==
    ASSUME Inv, NEW ix \in Instruction, Initialize(ix)
    PROVE  Inv'
<1> DEFINE w == ix.wallet
           moved == Move(ix.payer, w, TopUp(w))
<1>1. /\ ix.op = "initialize" /\ Runs(ix) /\ accounts[w].owner = "system"
      /\ w = Pda[ix.id] /\ frames' = Rest
      /\ TopUp(w) > 0 => /\ accounts[ix.payer].owner = "system"
                         /\ accounts[ix.payer].lamports >= TopUp(w)
      /\ spent' = [spent EXCEPT ![ix.id] = {}] /\ closed' = closed \ {w}
      /\ UNCHANGED <<advanced, saved>>
  BY DEF Initialize, AtDerivedAddress
<1>2. /\ ix.payer \in User /\ ix.payer \in Address /\ w \in Address
      /\ ix.id \in Id /\ ix.root \in Nat /\ ix.payer # w
  BY <1>1, InstructionAssumption, PdaInAddress DEF WellFormed, Address
<1>3. accounts \in Ledger /\ accounts[w].lamports \in Nat /\ accounts[ix.payer].lamports \in Nat
  BY <1>2 DEF Inv, TypeOK, Ledger
<1>4. TopUp(w) \in Nat /\ accounts[w].lamports + TopUp(w) >= Rent
  BY <1>3, AmountAssumption DEF TopUp
<1>5. TopUp(w) <= accounts[ix.payer].lamports
  BY <1>1, <1>3, <1>4
<1>6. /\ moved \in Ledger
      /\ \A a \in Address :
            /\ moved[a].data = accounts[a].data /\ moved[a].owner = accounts[a].owner
            /\ a # ix.payer => moved[a].lamports >= accounts[a].lamports
      /\ moved[w].lamports >= Rent
  BY <1>2, <1>3, <1>4, <1>5, MoveKeeps
<1>7. accounts' = [moved EXCEPT ![w].owner = "winterwallet",
                               ![w].data = [id |-> ix.id, root |-> ix.root]]
  BY DEF Initialize
<1> HIDE DEF moved, w
<1>8. /\ accounts' \in Ledger
      /\ \A a \in Address \ {w} : accounts'[a] = moved[a]
      /\ accounts'[w].data = [id |-> ix.id, root |-> ix.root]
      /\ accounts'[w].owner = "winterwallet"
      /\ accounts'[w].lamports = moved[w].lamports
  <2>1. PICK d \in Record : d = [id |-> ix.id, root |-> ix.root]
    BY <1>2 DEF Record
  <2> QED
    <3>1. Overwritten(accounts', moved, w, "winterwallet", d)
      BY <1>2, <1>6, <1>7, <2>1 DEF Overwritten
    <3> QED
      BY <2>1, <3>1, OverwriteKeeps
<1>9. accounts'[w].data # NoData
  BY <1>2, <1>8, PdaAssumption DEF NoData
<1>10. accounts[ix.payer].data = NoData
  BY <1>2, PdaInAddress DEF Inv, LedgerInv, GoodLedger
<1>11. GoodLedger(accounts')
  <2>1. ASSUME NEW a \in Address
        PROVE  /\ accounts'[a].data # NoData =>
                     /\ accounts'[a].data.id \in Id /\ Pda[accounts'[a].data.id] = a
                     /\ accounts'[a].lamports >= Rent
               /\ accounts'[a].data # NoData <=> accounts'[a].owner = "winterwallet"
    <3>1. CASE a = w
      BY <3>1, <1>1, <1>2, <1>6, <1>8, <1>9 DEF w
    <3>2. CASE a # w
      <4>1. accounts'[a].data = accounts[a].data /\ accounts'[a].owner = accounts[a].owner
        BY <3>2, <1>6, <1>8
      <4>2. accounts[a].data # NoData => accounts'[a].lamports >= accounts[a].lamports
        BY <3>2, <1>6, <1>8, <1>10
      <4>3. accounts[a].lamports \in Nat /\ accounts'[a].lamports \in Nat
        BY <1>3, <1>8 DEF Ledger
      <4> QED
        BY <4>1, <4>2, <4>3, AmountAssumption DEF Inv, LedgerInv, GoodLedger
    <3> QED
      BY <3>1, <3>2
  <2> QED
    BY <2>1, <1>8 DEF GoodLedger
<1>12. spent \in [Id -> SUBSET Nat]
  BY DEF Inv, TypeOK
<1>13. Behind(accounts', spent')
  <2>1. SUFFICES ASSUME NEW i \in Id, accounts'[Pda[i]].data # NoData, NEW r \in spent'[i]
                 PROVE  r < accounts'[Pda[i]].data.root
    BY DEF Behind
  <2>2. i # ix.id
    BY <2>1, <1>1, <1>2, <1>12
  <2>3. Pda[i] # w /\ Pda[i] \in Address
    BY <2>2, <1>1, <1>2, PdaAssumption, PdaInAddress DEF w
  <2>4. accounts'[Pda[i]].data = accounts[Pda[i]].data /\ spent'[i] = spent[i]
    BY <2>2, <2>3, <1>1, <1>6, <1>8, <1>12
  <2> QED
    BY <2>1, <2>4 DEF Inv, LedgerInv, Behind
<1>14. Gone(accounts', closed')
  <2>1. \A a \in closed' : a \in closed /\ a # w /\ a \in Address
    BY <1>1 DEF Inv, TypeOK, w
  <2> QED
    BY <2>1, <1>6, <1>8 DEF Inv, LedgerInv, Gone
<1>15. frames' \in Seq(Frame)
  BY <1>1, RestKeeps DEF Inv, TypeOK
<1>16. /\ spent' \in [Id -> SUBSET Nat] /\ closed' \subseteq Address
       /\ advanced' \subseteq Address /\ UNCHANGED saved
  BY <1>1, <1>2, <1>12 DEF Inv, TypeOK
<1> QED
  BY <1>8, <1>11, <1>13, <1>14, <1>15, <1>16, SavedKept

\* The bytes an accepted Advance runs are those that were signed, and what it runs is
\* one of the lists its signature stands for.
LEMMA SignedFacts ==
    ASSUME NEW ix \in Instruction, Advance(ix)
    PROVE  /\ SignedLists(ix) \subseteq Seq(Instruction)
           /\ Decoded(ix.accounts, ix.bytes) \in SignedLists(ix)
<1>1. ix.op = "advance" /\ ix.signed.bytes = ix.bytes /\ ix.accounts <= MaxPassthrough
  BY DEF Advance, VerifySignature
<1>2. /\ ix.bytes \in Encoding /\ ix.accounts \in Nat
      /\ ix.signed.accounts \in 0..MaxPassthrough
  BY <1>1, InstructionAssumption DEF WellFormed
<1>3. ix.accounts \in 0..MaxPassthrough
  BY <1>1, <1>2, DecodedAssumption
<1>4. \A list \in SignedLists(ix) :
         \E n \in 0..MaxPassthrough : list = Decoded(n, ix.bytes)
  BY <1>1, <1>2 DEF SignedLists
<1>5. SignedLists(ix) \subseteq Seq(Instruction)
  BY <1>2, <1>4, DecodedAssumption
<1>6. Decoded(ix.accounts, ix.bytes) \in SignedLists(ix)
  <2>1. CASE ix.accounts = ix.signed.accounts
    BY <2>1, <1>1 DEF SignedLists
  <2>2. CASE ix.accounts # ix.signed.accounts
    BY <2>2, <1>1, <1>3 DEF SignedLists
  <2> QED
    BY <2>1, <2>2
<1> QED
  BY <1>5, <1>6

\* What an accepted Advance knows of its wallet: the stored root was never spent,
\* and the new one is ahead of it.
LEMMA AdvanceFacts ==
    ASSUME Inv, NEW ix \in Instruction, Advance(ix)
    PROVE  /\ ix.wallet \in Address /\ ix.new \in Nat
           /\ accounts[ix.wallet].data # NoData
           /\ accounts[ix.wallet].data.id \in Id
           /\ Pda[accounts[ix.wallet].data.id] = ix.wallet
           /\ accounts[ix.wallet].data.root \in Nat
           /\ accounts[ix.wallet].data.root < ix.new
           /\ \A r \in spent[accounts[ix.wallet].data.id] : r < accounts[ix.wallet].data.root
<1>1. /\ ix.op = "advance" /\ accounts[ix.wallet].data # NoData
      /\ ix.signed.cur = accounts[ix.wallet].data.root /\ ix.signed.new = ix.new
  BY DEF Advance, IsWallet, VerifySignature
<1>2. /\ ix.wallet \in Address
      /\ ix.signed.cur \in Nat /\ ix.signed.new \in Nat /\ ix.signed.cur < ix.signed.new
  BY <1>1, InstructionAssumption DEF WellFormed
<1>3. accounts[ix.wallet].data.id \in Id /\ Pda[accounts[ix.wallet].data.id] = ix.wallet
  BY <1>1, <1>2 DEF Inv, LedgerInv, GoodLedger
<1>4. \A r \in spent[accounts[ix.wallet].data.id] : r < accounts[ix.wallet].data.root
  BY <1>1, <1>3 DEF Inv, LedgerInv, Behind
<1> QED
  BY <1>1, <1>2, <1>3, <1>4

\* Advance moves a root behind the stored one to the spent ones.
LEMMA AdvanceInv ==
    ASSUME Inv, NEW ix \in Instruction, Advance(ix)
    PROVE  Inv'
<1> DEFINE w == ix.wallet
           rec == accounts[w].data
<1>1. /\ w \in Address /\ ix.new \in Nat /\ rec # NoData /\ rec.id \in Id
      /\ Pda[rec.id] = w /\ rec.root \in Nat /\ rec.root < ix.new
      /\ \A r \in spent[rec.id] : r < rec.root
  BY AdvanceFacts
<1>2. /\ Runs(ix)
      /\ accounts' = [accounts EXCEPT ![w].data.root = ix.new]
      /\ spent' = [spent EXCEPT ![rec.id] = spent[rec.id] \cup {rec.root}]
      /\ advanced' = advanced \cup {w} /\ UNCHANGED <<closed, saved>>
      /\ frames' = Append(Rest, [wallet |-> w, todo |-> Decoded(ix.accounts, ix.bytes),
                                 signers |-> Top.signers \cup {w},
                                 signed |-> SignedLists(ix)])
  BY DEF Advance, StoreRoot
<1>3. accounts \in Ledger /\ spent \in [Id -> SUBSET Nat] /\ rec \in Record
  BY <1>1 DEF Inv, TypeOK, Ledger
<1>4. /\ accounts' \in Ledger
      /\ \A a \in Address \ {w} : accounts'[a] = accounts[a]
      /\ accounts'[w].data = [rec EXCEPT !.root = ix.new]
      /\ accounts'[w].owner = accounts[w].owner
      /\ accounts'[w].lamports = accounts[w].lamports
  BY <1>1, <1>2, <1>3 DEF Ledger, Record
<1>5. /\ accounts'[w].data.id = rec.id /\ accounts'[w].data.root = ix.new
      /\ accounts'[w].data # NoData
  BY <1>1, <1>3, <1>4, PdaAssumption DEF Record, NoData
<1>6. GoodLedger(accounts')
  <2>1. ASSUME NEW a \in Address
        PROVE  /\ accounts'[a].data # NoData =>
                     /\ accounts'[a].data.id \in Id /\ Pda[accounts'[a].data.id] = a
                     /\ accounts'[a].lamports >= Rent
               /\ accounts'[a].data # NoData <=> accounts'[a].owner = "winterwallet"
    <3>1. CASE a = w
      BY <3>1, <1>1, <1>4, <1>5 DEF Inv, LedgerInv, GoodLedger
    <3>2. CASE a # w
      BY <3>2, <1>4 DEF Inv, LedgerInv, GoodLedger
    <3> QED
      BY <3>1, <3>2
  <2> QED
    BY <2>1, <1>4 DEF GoodLedger
<1>7. Behind(accounts', spent')
  <2>1. SUFFICES ASSUME NEW i \in Id, accounts'[Pda[i]].data # NoData, NEW r \in spent'[i]
                 PROVE  r < accounts'[Pda[i]].data.root
    BY DEF Behind
  <2>2. CASE i = rec.id
    <3>1. r \in spent[rec.id] \/ r = rec.root
      BY <2>2, <1>2, <1>3
    <3>2. r \in Nat /\ r <= rec.root
      BY <3>1, <1>1, <1>3
    <3> QED
      BY <2>2, <3>2, <1>1, <1>5
  <2>3. CASE i # rec.id
    <3>1. Pda[i] # w /\ Pda[i] \in Address
      BY <2>3, <1>1, PdaAssumption, PdaInAddress
    <3>2. spent'[i] = spent[i] /\ accounts'[Pda[i]] = accounts[Pda[i]]
      BY <2>3, <3>1, <1>2, <1>3, <1>4
    <3> QED
      BY <2>1, <3>2 DEF Inv, LedgerInv, Behind
  <2> QED
    BY <2>2, <2>3
<1>8. Gone(accounts', closed')
  <2>1. \A a \in closed : a # w /\ a \in Address
    BY <1>1 DEF Inv, TypeOK, LedgerInv, Gone
  <2> QED
    BY <2>1, <1>2, <1>4 DEF Inv, LedgerInv, Gone
<1>9. frames' \in Seq(Frame)
  <2>1. Rest \in Seq(Frame) /\ Top \in Frame
    BY <1>2, RestKeeps DEF Inv, TypeOK
  <2> DEFINE todo == Decoded(ix.accounts, ix.bytes)
             lists == SignedLists(ix)
  <2>2. todo \in Seq(Instruction) /\ lists \subseteq Seq(Instruction)
    BY SignedFacts
  <2>3. frames' = Append(Rest, [wallet |-> w, todo |-> todo,
                                signers |-> Top.signers \cup {w}, signed |-> lists])
    BY <1>2
  <2> HIDE DEF todo, lists
  <2>4. [wallet |-> w, todo |-> todo, signers |-> Top.signers \cup {w},
         signed |-> lists] \in Frame
    BY <2>1, <2>2, <1>1 DEF Frame
  <2> QED
    BY <2>1, <2>3, <2>4
<1>10. /\ spent' \in [Id -> SUBSET Nat] /\ closed' \subseteq Address
       /\ advanced' \subseteq Address /\ UNCHANGED saved
  BY <1>1, <1>2, <1>3 DEF Inv, TypeOK
<1> QED
  BY <1>4, <1>6, <1>7, <1>8, <1>9, <1>10, SavedKept

\* Withdraw and Transfer move lamports out of an account that can spare them.
LEMMA PaymentInv ==
    ASSUME Inv, NEW ix \in Instruction, Runs(ix), frames' = Rest,
           NEW from \in Address, NEW to \in Address, NEW n \in Nat,
           n <= accounts[from].lamports,
           accounts[from].data # NoData => accounts[from].lamports - n >= Rent,
           accounts' = Move(from, to, n), UNCHANGED <<spent, closed, advanced, saved>>
    PROVE  Inv'
<1>1. accounts \in Ledger /\ \A a \in Address : accounts[a].lamports \in Nat
  BY DEF Inv, TypeOK, Ledger
<1>2. /\ accounts' \in Ledger
      /\ \A a \in Address :
            /\ accounts'[a].data = accounts[a].data /\ accounts'[a].owner = accounts[a].owner
            /\ a # from => accounts'[a].lamports >= accounts[a].lamports
            /\ a = from => accounts'[a].lamports >= accounts[a].lamports - n
  BY <1>1, MoveKeeps
<1>3. \A a \in Address : accounts'[a].lamports \in Nat
  BY <1>2 DEF Ledger
<1>4. \A a \in Address : accounts[a].data # NoData => accounts'[a].lamports >= Rent
  <2>1. SUFFICES ASSUME NEW a \in Address, accounts[a].data # NoData
                 PROVE  accounts'[a].lamports >= Rent
    OBVIOUS
  <2>2. accounts[a].lamports >= Rent
    BY <2>1 DEF Inv, LedgerInv, GoodLedger
  <2> QED
    BY <2>1, <2>2, <1>1, <1>2, <1>3, AmountAssumption
<1>5. GoodLedger(accounts') /\ Behind(accounts', spent') /\ Gone(accounts', closed')
  BY <1>2, <1>4, SameRecords
<1>6. frames' \in Seq(Frame)
  BY RestKeeps DEF Inv, TypeOK
<1> QED
  BY <1>2, <1>5, <1>6, SavedKept DEF Inv, TypeOK

\* A Withdraw leaves the rent.
LEMMA WithdrawInv ==
    ASSUME Inv, NEW ix \in Instruction, Withdraw(ix)
    PROVE  Inv'
<1>1. /\ Runs(ix) /\ ix.wallet \in Address /\ ix.receiver \in Address /\ ix.lamports \in Nat
  BY InstructionAssumption DEF Withdraw, WellFormed
<1>2. accounts[ix.wallet].lamports \in Nat
  BY <1>1 DEF Inv, TypeOK, Ledger
<1>3. /\ accounts[ix.wallet].lamports - ix.lamports >= Rent
      /\ ix.lamports <= accounts[ix.wallet].lamports
  BY <1>1, <1>2, AmountAssumption DEF Withdraw, KeepsRent
<1> QED
  BY <1>1, <1>3, PaymentInv DEF Withdraw

\* A Transfer is not out of a wallet.
LEMMA TransferInv ==
    ASSUME Inv, NEW ix \in Instruction, Transfer(ix)
    PROVE  Inv'
<1>1. /\ Runs(ix) /\ ix.from \in Address /\ ix.to \in Address /\ ix.lamports \in Nat
  BY InstructionAssumption DEF Transfer, WellFormed
<1>2. accounts[ix.from].data = NoData
  BY <1>1 DEF Transfer, Inv, LedgerInv, GoodLedger
<1>3. accounts[ix.from].lamports \in Nat /\ ix.lamports <= accounts[ix.from].lamports
  BY <1>1 DEF Transfer, Inv, TypeOK, Ledger
<1> QED
  BY <1>1, <1>2, <1>3, PaymentInv DEF Transfer

\* Close takes one record away.
LEMMA CloseInv ==
    ASSUME Inv, NEW ix \in Instruction, Close(ix)
    PROVE  Inv'
<1> DEFINE w == ix.wallet
           moved == Move(w, ix.receiver, accounts[w].lamports)
<1>1. /\ Runs(ix) /\ frames' = Rest /\ w \in Address /\ ix.receiver \in Address
      /\ w # ix.receiver /\ closed' = closed \cup {w}
      /\ UNCHANGED <<spent, advanced, saved>>
      /\ accounts' = [moved EXCEPT ![w].owner = "system", ![w].data = NoData]
  BY InstructionAssumption DEF Close, Reset, WellFormed
<1>2. accounts \in Ledger /\ \A a \in Address : accounts[a].lamports \in Nat
  BY DEF Inv, TypeOK, Ledger
<1>3. /\ moved \in Ledger
      /\ \A a \in Address :
            /\ moved[a].data = accounts[a].data /\ moved[a].owner = accounts[a].owner
            /\ a # w => moved[a].lamports >= accounts[a].lamports
  <2>1. PICK n \in Nat, to \in Address : n = accounts[w].lamports /\ to = ix.receiver
    BY <1>1, <1>2
  <2> DEFINE m == Move(w, to, n)
  <2>2. n <= accounts[w].lamports
    BY <2>1
  <2>5. moved = m
    BY <2>1
  <2> HIDE DEF moved, w
  <2>3. m \in Ledger
    BY <1>1, <1>2, <2>1, <2>2, MoveKeeps
  <2>4. ASSUME NEW a \in Address
        PROVE  /\ m[a].data = accounts[a].data /\ m[a].owner = accounts[a].owner
               /\ a # w => m[a].lamports >= accounts[a].lamports
    BY <1>1, <1>2, <2>1, <2>2, MoveKeeps
  <2> QED
    BY <2>3, <2>4, <2>5
<1> HIDE DEF moved, w
<1>4. /\ accounts' \in Ledger
      /\ \A a \in Address \ {w} : accounts'[a] = moved[a]
      /\ accounts'[w].data = NoData /\ accounts'[w].owner = "system"
  <2>1. PICK d \in Record : d = NoData
    BY DEF Record, NoData
  <2> QED
    <3>1. Overwritten(accounts', moved, w, "system", d)
      BY <1>1, <1>3, <2>1 DEF Overwritten
    <3> QED
      BY <2>1, <3>1, OverwriteKeeps
<1>5. GoodLedger(accounts')
  <2>1. ASSUME NEW a \in Address
        PROVE  /\ accounts'[a].data # NoData =>
                     /\ accounts'[a].data.id \in Id /\ Pda[accounts'[a].data.id] = a
                     /\ accounts'[a].lamports >= Rent
               /\ accounts'[a].data # NoData <=> accounts'[a].owner = "winterwallet"
    <3>1. CASE a = w
      BY <3>1, <1>4
    <3>2. CASE a # w
      <4>1. /\ accounts'[a].data = accounts[a].data /\ accounts'[a].owner = accounts[a].owner
            /\ accounts'[a].lamports >= accounts[a].lamports
        BY <3>2, <1>3, <1>4
      <4>2. accounts[a].lamports \in Nat /\ accounts'[a].lamports \in Nat
        BY <1>2, <1>4 DEF Ledger
      <4> QED
        BY <4>1, <4>2, AmountAssumption DEF Inv, LedgerInv, GoodLedger
    <3> QED
      BY <3>1, <3>2
  <2> QED
    BY <2>1, <1>4 DEF GoodLedger
<1>6. Behind(accounts', spent')
  <2>1. SUFFICES ASSUME NEW i \in Id, accounts'[Pda[i]].data # NoData, NEW r \in spent'[i]
                 PROVE  r < accounts'[Pda[i]].data.root
    BY DEF Behind
  <2>2. Pda[i] # w /\ Pda[i] \in Address
    BY <2>1, <1>4, PdaInAddress
  <2>3. accounts'[Pda[i]].data = accounts[Pda[i]].data
    BY <2>2, <1>3, <1>4
  <2> QED
    BY <2>1, <2>3, <1>1 DEF Inv, LedgerInv, Behind
<1>7. Gone(accounts', closed')
  <2>1. ASSUME NEW a \in closed' PROVE accounts'[a].data = NoData
    <3>1. CASE a = w
      BY <3>1, <1>4
    <3>2. CASE a # w
      <4>1. a \in closed /\ a \in Address
        BY <3>2, <2>1, <1>1 DEF Inv, TypeOK
      <4> QED
        BY <3>2, <4>1, <1>3, <1>4 DEF Inv, LedgerInv, Gone
    <3> QED
      BY <3>1, <3>2
  <2> QED
    BY <2>1 DEF Gone
<1>8. frames' \in Seq(Frame)
  BY <1>1, RestKeeps DEF Inv, TypeOK
<1>9. /\ spent' \in [Id -> SUBSET Nat] /\ closed' \subseteq Address
      /\ advanced' \subseteq Address
  BY <1>1 DEF Inv, TypeOK
<1> QED
  BY <1>1, <1>4, <1>5, <1>6, <1>7, <1>8, <1>9, SavedKept

\* What Commit drops was no wallet, which has its rent.
LEMMA CommitInv == ASSUME Inv, Commit PROVE Inv'
<1>1. /\ accounts' = [a \in Address |->
                         IF accounts[a].lamports = 0
                         THEN [lamports |-> 0, owner |-> "system", data |-> NoData]
                         ELSE accounts[a]]
      /\ frames' = <<>> /\ UNCHANGED <<spent, closed, advanced, saved>>
  BY DEF Commit
<1>2. accounts \in Ledger
  BY DEF Inv, TypeOK
<1>3. \A a \in Address : accounts'[a].data # NoData => accounts'[a] = accounts[a]
  BY <1>1
<1>4. accounts' \in Ledger
  BY <1>1, <1>2 DEF Ledger, Record, NoData
<1>5. GoodLedger(accounts')
  BY <1>1, <1>4 DEF Inv, LedgerInv, GoodLedger
<1>6. Behind(accounts', spent')
  BY <1>1, <1>3, PdaInAddress DEF Inv, LedgerInv, Behind
<1>7. Gone(accounts', closed')
  BY <1>1, <1>3 DEF Inv, TypeOK, LedgerInv, Gone
<1> QED
  BY <1>1, <1>4, <1>5, <1>6, <1>7, SavedKept DEF Inv, TypeOK

\* Abort goes back to a good ledger.
LEMMA AbortInv == ASSUME Inv, Abort PROVE Inv'
BY DEF Abort, Inv, TypeOK, LedgerInv, GoodLedger, Behind, Gone

\* A transaction begins by saving a good ledger.
LEMMA BeginInv ==
    ASSUME Inv, NEW payer \in User, NEW tx \in Transaction, BeginTransaction(payer, tx)
    PROVE  Inv'
<1>1. tx \in Seq(Instruction) /\ payer \in Address
  BY InstructionAssumption DEF Address
<1>2. [wallet |-> payer, todo |-> tx, signers |-> {payer}, signed |-> {tx}] \in Frame
  BY <1>1 DEF Frame
<1>3. frames' \in Seq(Frame)
  BY <1>2 DEF BeginTransaction
<1>4. /\ saved'.accounts = accounts /\ saved'.spent = spent /\ saved'.closed = closed
      /\ advanced' = {} /\ UNCHANGED <<accounts, spent, closed>>
  BY DEF BeginTransaction
<1>5. TypeOK'
  BY <1>3, <1>4 DEF Inv, TypeOK
<1>6. LedgerInv'
  BY <1>4 DEF Inv, LedgerInv, GoodLedger, Behind, Gone
<1> QED
  BY <1>5, <1>6 DEF Inv

\* The end of an Advance touches the call stack only.
LEMMA FinishInv == ASSUME Inv, FinishAdvance PROVE Inv'
<1>1. /\ frames' = SubSeq(frames, 1, Len(frames) - 1) /\ Len(frames) > 1
      /\ UNCHANGED <<accounts, spent, closed, advanced, saved>>
  BY DEF FinishAdvance, Front
<1>2. frames' \in Seq(Frame)
  BY <1>1 DEF Inv, TypeOK
<1> QED
  BY <1>1, <1>2 DEF Inv, TypeOK, LedgerInv, GoodLedger, Behind, Gone

\* Every step keeps the invariant.
LEMMA NextInv == Inv /\ [Next]_vars => Inv'
<1> SUFFICES ASSUME Inv, [Next]_vars PROVE Inv'
  OBVIOUS
<1>1. CASE UNCHANGED vars
  BY <1>1 DEF vars, Inv, TypeOK, LedgerInv, GoodLedger, Behind, Gone
<1>2. ASSUME NEW ix \in Instruction, Step(ix) PROVE Inv'
  BY <1>2, InitializeInv, AdvanceInv, WithdrawInv, CloseInv, TransferInv DEF Step
<1> QED
  BY <1>1, <1>2, BeginInv, FinishInv, CommitInv, AbortInv DEF Next

-----------------------------------------------------------------------------
\* The ledger, the call stack and the histories are of their types; no balance
\* goes below zero.
THEOREM ProgramType == Spec => []TypeOK
<1>1. Inv => TypeOK
  BY DEF Inv
<1> QED
  BY <1>1, InitInv, NextInv, PTL DEF Spec

\* Whatever instructions run, in whatever nesting, a live wallet keeps its rent.
THEOREM WalletsKeepRent == Spec => []WalletRentExempt
<1>1. Inv => WalletRentExempt
  BY DEF Inv, LedgerInv, GoodLedger, WalletRentExempt, IsWallet
<1> QED
  BY <1>1, InitInv, NextInv, PTL DEF Spec

\* A wallet record is at the address of its id, and only the program's accounts
\* hold one.
THEOREM RecordsAtHome == Spec => []RecordAtOwnAddress
<1>1. Inv => RecordAtOwnAddress
  BY DEF Inv, LedgerInv, GoodLedger, RecordAtOwnAddress, IsWallet
<1> QED
  BY <1>1, InitInv, NextInv, PTL DEF Spec

\* A closed wallet is gone until it is initialized again, in the middle of a
\* transaction too.
THEOREM ClosedGone == Spec => []ClosedStaysClosed
<1>1. ASSUME Inv PROVE ClosedStaysClosed
  <2>1. \A a \in closed : a \in Address /\ accounts[a].data = NoData
    BY <1>1 DEF Inv, TypeOK, LedgerInv, Gone
  <2>2. \A a \in Address : accounts[a].owner \in {"system", "winterwallet"}
    BY <1>1 DEF Inv, TypeOK, Ledger
  <2> QED
    BY <1>1, <2>1, <2>2 DEF Inv, LedgerInv, GoodLedger, ClosedStaysClosed, IsWallet
<1> QED
  BY <1>1, InitInv, NextInv, PTL DEF Spec

\* Only an Advance makes the call stack of a running transaction higher.
LEMMA StackGrowth ==
    ASSUME Inv, [Next]_vars, Len(frames') > Len(frames), frames # <<>>
    PROVE  \E ix \in Instruction : Advance(ix)
<1>1. frames \in Seq(Frame)
  BY DEF Inv, TypeOK
<1>2. ASSUME NEW ix \in Instruction,
             Initialize(ix) \/ Withdraw(ix) \/ Close(ix) \/ Transfer(ix)
      PROVE  FALSE
  <2>1. Runs(ix) /\ frames' = Rest
    BY <1>2 DEF Initialize, Withdraw, Close, Transfer
  <2> QED
    BY <1>1, <2>1, RestKeeps
<1>3. ASSUME FinishAdvance PROVE FALSE
  <2>1. frames' = SubSeq(frames, 1, Len(frames) - 1) /\ Len(frames) > 1
    BY <1>3 DEF FinishAdvance, Front
  <2> QED
    BY <1>1, <2>1
<1>4. ASSUME Commit \/ Abort PROVE FALSE
  BY <1>1, <1>4 DEF Commit, Abort
<1>5. ASSUME UNCHANGED vars PROVE FALSE
  BY <1>1, <1>5 DEF vars
<1> QED
  BY <1>2, <1>3, <1>4, <1>5 DEF Next, Step, BeginTransaction

\* An Advance is never accepted under a root accepted before: not replayed in a later
\* transaction, and not by an inner instruction that re-enters the program.
THEOREM RootsOnce == Spec => RootAcceptedOnce
<1> DEFINE Fresh ==
        Len(frames') > Len(frames) /\ frames # <<>> =>
            LET rec == accounts[frames'[Len(frames')].wallet].data
            IN  rec.root \notin spent[rec.id]
<1>1. ASSUME Inv, [Next]_vars PROVE Fresh
  <2>1. SUFFICES ASSUME Len(frames') > Len(frames), frames # <<>>
                 PROVE  LET rec == accounts[frames'[Len(frames')].wallet].data
                        IN  rec.root \notin spent[rec.id]
    OBVIOUS
  <2>2. PICK ix \in Instruction : Advance(ix)
    BY <1>1, <2>1, StackGrowth
  <2>3. Runs(ix) /\ \E frame : frame.wallet = ix.wallet /\ frames' = Append(Rest, frame)
    <3> DEFINE frame == [wallet |-> ix.wallet, todo |-> Decoded(ix.accounts, ix.bytes),
                         signers |-> Top.signers \cup {ix.wallet},
                         signed |-> SignedLists(ix)]
    <3>1. Runs(ix) /\ frames' = Append(Rest, frame)
      BY <2>2 DEF Advance
    <3>2. frame.wallet = ix.wallet
      OBVIOUS
    <3> HIDE DEF frame
    <3> QED
      BY <3>1, <3>2
  <2>4. Rest \in Seq(Frame)
    BY <1>1, <2>3, RestKeeps DEF Inv, TypeOK
  <2>5. frames'[Len(frames')].wallet = ix.wallet
    BY <2>3, <2>4
  <2>6. /\ accounts[ix.wallet].data.root \in Nat
        /\ \A r \in spent[accounts[ix.wallet].data.id] : r < accounts[ix.wallet].data.root
    BY <1>1, <2>2, AdvanceFacts
  <2> QED
    BY <2>5, <2>6
<1> QED
  BY <1>1, InitInv, NextInv, PTL DEF Spec, RootAcceptedOnce

-----------------------------------------------------------------------------
\* What each frame has left is the end of a list it stands for, element by element.
EndOf(todo, signed) ==
    /\ Len(todo) <= Len(signed)
    /\ \A i \in 1..Len(todo) : todo[i] = signed[i + Len(signed) - Len(todo)]
EndOfOne(todo, lists) == \E list \in lists : list \in Seq(Instruction) /\ EndOf(todo, list)
EndsOfSigned == \A k \in 1..Len(frames) : EndOfOne(frames[k].todo, frames[k].signed)

\* A frame acts for key pairs, and for wallets whose signature was accepted.
SignersKnown == \A k \in 1..Len(frames) : frames[k].signers \subseteq User \cup advanced

StackInv == EndsOfSigned /\ SignersKnown

\* Taking the next instruction changes one list, by its head.
LEMMA RestFrames ==
    ASSUME frames \in Seq(Frame), NEW ix, Runs(ix)
    PROVE  \A k \in 1..Len(frames) :
              /\ Rest[k].signers = frames[k].signers
              /\ Rest[k].signed = frames[k].signed
              /\ Rest[k].todo = frames[k].todo
                    \/ /\ frames[k].todo # <<>>
                       /\ Rest[k].todo = Tail(frames[k].todo)
<1>1. frames # <<>> /\ Top.todo # <<>>
  BY DEF Runs
<1>2. Top \in Frame /\ Len(frames) \in 1..Len(frames)
  BY <1>1, TopFrame
<1>3. Rest = [frames EXCEPT ![Len(frames)] = [Top EXCEPT !.todo = Tail(Top.todo)]]
  BY DEF Rest, Top
<1> SUFFICES ASSUME NEW k \in 1..Len(frames)
             PROVE  /\ Rest[k].signers = frames[k].signers
                    /\ Rest[k].signed = frames[k].signed
                    /\ Rest[k].todo = frames[k].todo
                          \/ /\ frames[k].todo # <<>>
                             /\ Rest[k].todo = Tail(frames[k].todo)
  OBVIOUS
<1>4. CASE k = Len(frames)
  <2> DEFINE new == [Top EXCEPT !.todo = Tail(Top.todo)]
  <2>1. new.signers = Top.signers /\ new.signed = Top.signed /\ new.todo = Tail(Top.todo)
    BY <1>2 DEF Frame
  <2>2. frames[k] = Top
    BY <1>4 DEF Top
  <2>3. Rest[k] = new
    <3> HIDE DEF new
    <3>1. Rest = [frames EXCEPT ![Len(frames)] = new]
      BY <1>3 DEF new
    <3> QED
      BY <1>4, <3>1
  <2> HIDE DEF new
  <2> QED
    BY <1>1, <2>1, <2>2, <2>3
<1>5. CASE k # Len(frames)
  <2>1. Rest[k] = frames[k]
    BY <1>3, <1>5
  <2> QED
    BY <2>1
<1> QED
  BY <1>4, <1>5

LEMMA TailEnds ==
    ASSUME NEW t \in Seq(Instruction), NEW s \in Seq(Instruction), EndOf(t, s), t # <<>>
    PROVE  EndOf(Tail(t), s)
<1>1. Len(t) \in Nat /\ Len(s) \in Nat /\ Len(t) > 0 /\ Len(t) <= Len(s)
  BY DEF EndOf
<1>2. Len(Tail(t)) = Len(t) - 1 /\ \A i \in 1..(Len(t) - 1) : Tail(t)[i] = t[i + 1]
  BY <1>1
<1>3. ASSUME NEW i \in 1..(Len(t) - 1)
      PROVE  Tail(t)[i] = s[i + Len(s) - (Len(t) - 1)]
  <2>1. i + 1 \in 1..Len(t)
    BY <1>1
  <2>2. t[i + 1] = s[(i + 1) + Len(s) - Len(t)]
    BY <2>1 DEF EndOf
  <2>3. (i + 1) + Len(s) - Len(t) = i + Len(s) - (Len(t) - 1)
    BY <1>1
  <2> QED
    BY <1>2, <2>2, <2>3
<1> QED
  BY <1>1, <1>2, <1>3 DEF EndOf

\* The stack, once an instruction is taken and no wallet has left "advanced".
LEMMA RestStack ==
    ASSUME Inv, StackInv, NEW ix, Runs(ix), NEW more, advanced \subseteq more
    PROVE  \A k \in 1..Len(Rest) :
              /\ EndOfOne(Rest[k].todo, Rest[k].signed)
              /\ Rest[k].signers \subseteq User \cup more
<1>1. frames \in Seq(Frame) /\ Len(Rest) = Len(frames)
  BY RestKeeps DEF Inv, TypeOK
<1> SUFFICES ASSUME NEW k \in 1..Len(frames)
             PROVE  /\ EndOfOne(Rest[k].todo, Rest[k].signed)
                    /\ Rest[k].signers \subseteq User \cup more
  BY <1>1
<1>2. frames[k] \in Frame
  BY <1>1
<1>3. frames[k].todo \in Seq(Instruction)
  BY <1>2 DEF Frame
<1>4. /\ EndOfOne(frames[k].todo, frames[k].signed)
      /\ frames[k].signers \subseteq User \cup advanced
  BY DEF StackInv, EndsOfSigned, SignersKnown
<1>5. /\ Rest[k].signers = frames[k].signers /\ Rest[k].signed = frames[k].signed
      /\ \/ Rest[k].todo = frames[k].todo
         \/ frames[k].todo # <<>> /\ Rest[k].todo = Tail(frames[k].todo)
  BY <1>1, RestFrames
<1>6. PICK list \in frames[k].signed :
         list \in Seq(Instruction) /\ EndOf(frames[k].todo, list)
  BY <1>4 DEF EndOfOne
<1>7. EndOf(Rest[k].todo, list)
  BY <1>3, <1>5, <1>6, TailEnds
<1> QED
  BY <1>4, <1>5, <1>6, <1>7 DEF EndOfOne

\* Every step keeps the lists and the signers of the stack.
LEMMA StackStep == Inv /\ StackInv /\ [Next]_vars => StackInv'
<1> SUFFICES ASSUME Inv, StackInv, [Next]_vars PROVE StackInv'
  OBVIOUS
<1>1. frames \in Seq(Frame)
  BY DEF Inv, TypeOK
<1>2. ASSUME NEW payer \in User, NEW tx \in Transaction, BeginTransaction(payer, tx)
      PROVE  StackInv'
  <2>1. tx \in Seq(Instruction) /\ EndOf(tx, tx)
    BY InstructionAssumption DEF EndOf
  <2>2. /\ Len(frames') = 1
        /\ frames'[1] = [wallet |-> payer, todo |-> tx, signers |-> {payer}, signed |-> {tx}]
    BY <1>2 DEF BeginTransaction
  <2> QED
    BY <2>1, <2>2 DEF StackInv, EndsOfSigned, EndOfOne, SignersKnown
<1>3. ASSUME NEW ix \in Instruction,
             Initialize(ix) \/ Withdraw(ix) \/ Close(ix) \/ Transfer(ix)
      PROVE  StackInv'
  <2>1. Runs(ix) /\ frames' = Rest /\ advanced' = advanced
    BY <1>3 DEF Initialize, Withdraw, Close, Transfer
  <2> QED
    BY <2>1, RestStack DEF StackInv, EndsOfSigned, SignersKnown
<1>4. ASSUME NEW ix \in Instruction, Advance(ix) PROVE StackInv'
  <2> DEFINE todo == Decoded(ix.accounts, ix.bytes)
             new == [wallet |-> ix.wallet, todo |-> todo,
                     signers |-> Top.signers \cup {ix.wallet},
                     signed |-> SignedLists(ix)]
  <2>1. /\ Runs(ix) /\ frames' = Append(Rest, new)
        /\ advanced' = advanced \cup {ix.wallet}
    BY <1>4 DEF Advance
  <2>2. Rest \in Seq(Frame) /\ Len(Rest) = Len(frames)
    BY <1>1, <2>1, RestKeeps
  <2>3. todo \in SignedLists(ix) /\ todo \in Seq(Instruction)
    BY <1>4, SignedFacts
  <2>4. EndOfOne(new.todo, new.signed)
    <3>1. EndOf(todo, todo)
      BY <2>3 DEF EndOf
    <3>2. new.todo = todo /\ new.signed = SignedLists(ix)
      OBVIOUS
    <3> HIDE DEF todo, new
    <3> QED
      BY <3>1, <3>2, <2>3 DEF EndOfOne
  <2>5. new.signers \subseteq User \cup advanced'
    <3>1. Len(frames) \in 1..Len(frames)
      BY <1>1, <2>1, TopFrame DEF Runs
    <3>2. Top.signers \subseteq User \cup advanced
      BY <3>1 DEF StackInv, SignersKnown, Top
    <3> QED
      BY <3>2, <2>1
  <2>6. \A k \in 1..Len(Rest) : /\ EndOfOne(Rest[k].todo, Rest[k].signed)
                                /\ Rest[k].signers \subseteq User \cup advanced'
    BY <2>1, RestStack
  <2> HIDE DEF new
  <2>7. \A k \in 1..Len(frames') : \/ k \in 1..Len(Rest) /\ frames'[k] = Rest[k]
                                   \/ frames'[k] = new
    BY <2>1, <2>2
  <2> QED
    BY <2>4, <2>5, <2>6, <2>7 DEF StackInv, EndsOfSigned, SignersKnown
<1>5. ASSUME FinishAdvance PROVE StackInv'
  <2>1. /\ frames' = SubSeq(frames, 1, Len(frames) - 1) /\ Len(frames) > 1
        /\ advanced' = advanced
    BY <1>5 DEF FinishAdvance, Front
  <2>2. \A k \in 1..Len(frames') : k \in 1..Len(frames) /\ frames'[k] = frames[k]
    BY <1>1, <2>1
  <2> QED
    BY <2>1, <2>2 DEF StackInv, EndsOfSigned, SignersKnown
<1>6. ASSUME Commit \/ Abort PROVE StackInv'
  <2>1. frames' = <<>>
    BY <1>6 DEF Commit, Abort
  <2> QED
    BY <2>1 DEF StackInv, EndsOfSigned, SignersKnown
<1>7. ASSUME UNCHANGED vars PROVE StackInv'
  BY <1>7 DEF vars, StackInv, EndsOfSigned, SignersKnown
<1> QED
  BY <1>2, <1>3, <1>4, <1>5, <1>6, <1>7 DEF Next, Step

LEMMA InitStack == Init => StackInv
BY DEF Init, StackInv, EndsOfSigned, SignersKnown

\* Whatever frame is open, what it has left to run is the end of a list its holder's
\* signature stands for: the bytes behind the roots are never extended, reordered or
\* replaced between the signature check and the calls it authorises.
THEOREM SignedListsOnly == Spec => []OnlySignedRuns
<1>1. ASSUME Inv, StackInv PROVE OnlySignedRuns
  <2> SUFFICES ASSUME NEW k \in 1..Len(frames)
               PROVE  \E list \in frames[k].signed : IsSuffix(frames[k].todo, list)
    BY DEF OnlySignedRuns
  <2>1. frames[k] \in Frame
    BY <1>1 DEF Inv, TypeOK
  <2>2. frames[k].todo \in Seq(Instruction)
    BY <2>1 DEF Frame
  <2>3. PICK list \in frames[k].signed :
           list \in Seq(Instruction) /\ EndOf(frames[k].todo, list)
    BY <1>1 DEF StackInv, EndsOfSigned, EndOfOne
  <2>4. IsSuffix(frames[k].todo, list)
    BY <2>2, <2>3, SuffixElements DEF EndOf
  <2> QED
    BY <2>3, <2>4
<1> QED
  BY <1>1, InitInv, NextInv, InitStack, StackStep, PTL DEF Spec

-----------------------------------------------------------------------------
\* A wallet of the saved ledger that passed no check since is no key pair's account,
\* signs for no frame, and still has its record, its owner and its rent.
LEMMA UntouchedFacts ==
    ASSUME Inv, StackInv, UntouchedWithoutAdvance,
           NEW a \in Address \ advanced, saved.accounts[a].data # NoData
    PROVE  /\ a \notin User
           /\ frames # <<>> => a \notin Top.signers
           /\ accounts[a].data = saved.accounts[a].data /\ accounts[a].data # NoData
           /\ accounts[a].owner = "winterwallet"
           /\ accounts[a].lamports \in Nat /\ saved.accounts[a].lamports \in Nat
           /\ accounts[a].lamports >= saved.accounts[a].lamports
           /\ accounts[a].lamports # 0
<1>1. accounts[a].data = saved.accounts[a].data
      /\ accounts[a].lamports >= saved.accounts[a].lamports
  BY DEF UntouchedWithoutAdvance
<1>2. accounts[a].lamports \in Nat /\ saved.accounts[a].lamports \in Nat
  BY DEF Inv, TypeOK, Ledger
<1>3. /\ accounts[a].owner = "winterwallet" /\ accounts[a].lamports >= Rent
      /\ accounts[a].data.id \in Id /\ Pda[accounts[a].data.id] = a
  BY <1>1 DEF Inv, LedgerInv, GoodLedger
<1>4. a \notin User
  BY <1>3, PdaAssumption
<1>5. frames # <<>> => a \notin Top.signers
  <2>1. frames # <<>> => Len(frames) \in 1..Len(frames)
    BY TopFrame DEF Inv, TypeOK
  <2> QED
    BY <2>1, <1>4 DEF StackInv, SignersKnown, Top
<1> QED
  BY <1>1, <1>2, <1>3, <1>4, <1>5, AmountAssumption

\* An action that leaves the untouched wallets alone keeps them untouched.
LEMMA UntouchedKept ==
    ASSUME Inv, StackInv, UntouchedWithoutAdvance, UNCHANGED saved,
           advanced \subseteq advanced', Inv',
           \A a \in Address \ advanced' : saved.accounts[a].data # NoData =>
              /\ accounts'[a].data = accounts[a].data
              /\ accounts'[a].lamports >= accounts[a].lamports
    PROVE  UntouchedWithoutAdvance'
<1> SUFFICES ASSUME NEW a \in Address \ advanced', saved.accounts[a].data # NoData
             PROVE  /\ accounts'[a].data = saved.accounts[a].data
                    /\ accounts'[a].lamports >= saved.accounts[a].lamports
  BY DEF UntouchedWithoutAdvance
<1>1. a \in Address \ advanced
  OBVIOUS
<1>2. accounts'[a].lamports \in Nat
  BY DEF Inv, TypeOK, Ledger
<1> QED
  BY <1>1, <1>2, UntouchedFacts

LEMMA UntouchedStep == Inv /\ StackInv /\ UntouchedWithoutAdvance /\ [Next]_vars
                          => UntouchedWithoutAdvance'
<1> SUFFICES ASSUME Inv, StackInv, UntouchedWithoutAdvance, [Next]_vars
             PROVE  UntouchedWithoutAdvance'
  OBVIOUS
<1> DEFINE Wallet(a) == a \in Address \ advanced' /\ saved.accounts[a].data # NoData
<1>0. Inv' /\ accounts \in Ledger /\ frames \in Seq(Frame)
      /\ \A a \in Address : accounts[a].lamports \in Nat
  BY NextInv DEF Inv, TypeOK, Ledger
<1>1. ASSUME NEW payer \in User, NEW tx \in Transaction, BeginTransaction(payer, tx)
      PROVE  UntouchedWithoutAdvance'
  <2>1. saved'.accounts = accounts /\ accounts' = accounts
    BY <1>1 DEF BeginTransaction
  <2> QED
    BY <1>0, <2>1 DEF UntouchedWithoutAdvance
<1>2. ASSUME NEW ix \in Instruction, Initialize(ix) PROVE UntouchedWithoutAdvance'
  <2> DEFINE w == ix.wallet
             moved == Move(ix.payer, w, TopUp(w))
  <2>1. /\ ix.op = "initialize" /\ accounts[w].owner = "system"
        /\ TopUp(w) > 0 => accounts[ix.payer].lamports >= TopUp(w)
        /\ UNCHANGED <<advanced, saved>>
        /\ accounts' = [moved EXCEPT ![w].owner = "winterwallet",
                                     ![w].data = [id |-> ix.id, root |-> ix.root]]
    BY <1>2 DEF Initialize
  <2>2. ix.payer \in User /\ ix.payer \in Address /\ w \in Address
    BY <2>1, InstructionAssumption DEF WellFormed, Address
  <2>3. TopUp(w) \in Nat /\ TopUp(w) <= accounts[ix.payer].lamports
    <3>1. PICK t : t = TopUp(w)
      OBVIOUS
    <3>2. PICK have \in Nat, lamports \in Nat :
              have = accounts[w].lamports /\ lamports = accounts[ix.payer].lamports
      BY <1>0, <2>2 DEF Ledger
    <3>3. t = IF have < Rent THEN Rent - have ELSE 0
      BY <3>1, <3>2, Zenon DEF TopUp
    <3>4. Rent \in Nat /\ (t > 0 => lamports >= t)
      BY <2>1, <3>1, <3>2, AmountAssumption
    <3> QED
      BY <3>1, <3>2, <3>3, <3>4
  <2>4. /\ moved \in Ledger
        /\ \A a \in Address :
              /\ moved[a].data = accounts[a].data
              /\ a # ix.payer => moved[a].lamports >= accounts[a].lamports
    BY <1>0, <2>2, <2>3, MoveKeeps
  <2>5. ASSUME NEW a \in Address, Wallet(a)
        PROVE  accounts'[a].data = accounts[a].data
               /\ accounts'[a].lamports >= accounts[a].lamports
    <3>1. a \in Address \ advanced
      BY <2>1, <2>5
    <3>2. a \notin User /\ accounts[a].owner = "winterwallet"
      BY <2>5, <3>1, UntouchedFacts
    <3>3. a # w /\ a # ix.payer
      BY <2>1, <2>2, <3>2
    <3> HIDE DEF moved, w
    <3>4. accounts'[a] = moved[a]
      BY <2>1, <2>4, <3>1, <3>3 DEF Ledger
    <3> QED
      BY <2>4, <3>3, <3>4
  <2> QED
    BY <1>0, <2>1, <2>5, UntouchedKept
<1>3. ASSUME NEW ix \in Instruction, Advance(ix) PROVE UntouchedWithoutAdvance'
  <2>1. /\ accounts' = [accounts EXCEPT ![ix.wallet].data.root = ix.new]
        /\ advanced' = advanced \cup {ix.wallet} /\ UNCHANGED saved
    BY <1>3 DEF Advance, StoreRoot
  <2>2. ASSUME NEW a \in Address, Wallet(a) PROVE accounts'[a] = accounts[a]
    BY <1>0, <2>1, <2>2 DEF Ledger
  <2> QED
    BY <1>0, <2>1, <2>2, UntouchedKept
<1>4. ASSUME NEW from \in Address, NEW to \in Address, NEW n \in Nat,
             n <= accounts[from].lamports,
             \A a \in Address : Wallet(a) => a # from,
             UNCHANGED <<advanced, saved>>,
             \A a \in Address : Wallet(a) => accounts'[a] = Move(from, to, n)[a]
      PROVE  UntouchedWithoutAdvance'
  <2>1. ASSUME NEW a \in Address, Wallet(a)
        PROVE  accounts'[a].data = accounts[a].data
               /\ accounts'[a].lamports >= accounts[a].lamports
    <3>1. a # from /\ accounts'[a] = Move(from, to, n)[a]
      BY <1>4, <2>1
    <3>2. /\ Move(from, to, n)[a].data = accounts[a].data
          /\ Move(from, to, n)[a].lamports >= accounts[a].lamports
      BY <1>0, <1>4, <3>1, MoveKeeps
    <3> QED
      BY <3>1, <3>2
  <2> QED
    BY <1>0, <1>4, <2>1, UntouchedKept
<1>5. ASSUME NEW ix \in Instruction, Withdraw(ix) PROVE UntouchedWithoutAdvance'
  <2>1. /\ ix.wallet \in Address /\ ix.receiver \in Address /\ ix.lamports \in Nat
        /\ frames # <<>> /\ ix.wallet \in Top.signers
        /\ accounts' = Move(ix.wallet, ix.receiver, ix.lamports)
        /\ UNCHANGED <<advanced, saved>>
    BY <1>5, InstructionAssumption DEF Withdraw, WellFormed, Runs, Signs
  <2>2. ix.lamports <= accounts[ix.wallet].lamports
    BY <1>0, <1>5, <2>1, AmountAssumption DEF Withdraw, KeepsRent
  <2>3. \A a \in Address : Wallet(a) => a # ix.wallet
    BY <2>1, UntouchedFacts
  <2> QED
    BY <1>4, <2>1, <2>2, <2>3
<1>6. ASSUME NEW ix \in Instruction, Close(ix) PROVE UntouchedWithoutAdvance'
  <2> DEFINE w == ix.wallet
             n == accounts[w].lamports
             moved == Move(w, ix.receiver, n)
  <2>1. /\ w \in Address /\ ix.receiver \in Address
        /\ frames # <<>> /\ w \in Top.signers
        /\ accounts' = [moved EXCEPT ![w].owner = "system", ![w].data = NoData]
        /\ UNCHANGED <<advanced, saved>>
    BY <1>6, InstructionAssumption DEF Close, Reset, WellFormed, Runs, Signs
  <2>2. \A a \in Address : Wallet(a) => a # w
    BY <2>1, UntouchedFacts
  <2>3. n \in Nat /\ n <= accounts[w].lamports
    BY <1>0, <2>1
  <2>4. moved \in Ledger
    BY <1>0, <2>1, <2>3, MoveKeeps
  <2>5. \A a \in Address : Wallet(a) => accounts'[a] = moved[a]
    <3> HIDE DEF moved, w
    <3>1. PICK d \in Record : d = NoData
      BY DEF Record, NoData
    <3>2. \A a \in Address \ {w} : accounts'[a] = moved[a]
      <4>1. Overwritten(accounts', moved, w, "system", d)
        BY <2>1, <2>4, <3>1 DEF Overwritten
      <4> QED
        BY <4>1, OverwriteKeeps
    <3> QED
      BY <2>2, <3>2, Zenon
  <2>6. /\ w \in Address /\ ix.receiver \in Address /\ UNCHANGED <<advanced, saved>>
        /\ \A a \in Address : Wallet(a) => accounts'[a] = Move(w, ix.receiver, n)[a]
    BY <2>1, <2>5, Zenon
  <2> HIDE DEF w, n, moved, Wallet
  <2> QED
    BY <1>4, <2>2, <2>3, <2>6
<1>7. ASSUME NEW ix \in Instruction, Transfer(ix) PROVE UntouchedWithoutAdvance'
  <2>1. /\ ix.from \in Address /\ ix.to \in Address /\ ix.lamports \in Nat
        /\ accounts[ix.from].owner = "system"
        /\ ix.lamports <= accounts[ix.from].lamports
        /\ accounts' = Move(ix.from, ix.to, ix.lamports)
        /\ UNCHANGED <<advanced, saved>>
    <3>1. ix.from \in Address /\ ix.to \in Address /\ ix.lamports \in Nat
      BY <1>7, InstructionAssumption DEF Transfer, WellFormed
    <3> QED
      BY <3>1, <1>0, <1>7 DEF Transfer
  <2>2. \A a \in Address : Wallet(a) => a # ix.from
    BY <2>1, UntouchedFacts
  <2> QED
    BY <1>4, <2>1, <2>2
<1>8. ASSUME FinishAdvance \/ UNCHANGED vars PROVE UntouchedWithoutAdvance'
  BY <1>8 DEF FinishAdvance, vars, UntouchedWithoutAdvance
<1>9. ASSUME Commit PROVE UntouchedWithoutAdvance'
  <2>1. /\ \A a \in Address : accounts[a].lamports # 0 => accounts'[a] = accounts[a]
        /\ UNCHANGED <<advanced, saved>>
    BY <1>9 DEF Commit
  <2>2. \A a \in Address : Wallet(a) => accounts'[a] = accounts[a]
    BY <2>1, UntouchedFacts
  <2> QED
    BY <1>0, <2>1, <2>2, UntouchedKept
<1>10. ASSUME Abort PROVE UntouchedWithoutAdvance'
  <2>1. accounts' = saved.accounts /\ UNCHANGED <<advanced, saved>>
    BY <1>10 DEF Abort
  <2>2. \A a \in Address : saved.accounts[a].lamports \in Nat
    BY DEF Inv, TypeOK, Ledger
  <2> QED
    BY <2>1, <2>2 DEF UntouchedWithoutAdvance
<1> HIDE DEF Wallet
<1> QED
  BY <1>1, <1>2, <1>3, <1>5, <1>6, <1>7, <1>8, <1>9, <1>10 DEF Next, Step

LEMMA InitUntouched == Init => UntouchedWithoutAdvance
BY DEF Init, UntouchedWithoutAdvance

\* A wallet that accepted no signature in the running transaction keeps its record
\* and at least its balance, whoever pays it, whatever other wallets do.
THEOREM NothingWithoutAdvance == Spec => []UntouchedWithoutAdvance
BY InitInv, NextInv, InitStack, StackStep, InitUntouched, UntouchedStep, PTL DEF Spec

-----------------------------------------------------------------------------
Lamports(ledger) == [a \in Address |-> ledger[a].lamports]
Total(ledger) == SumFunction(Lamports(ledger))

\* What was in the ledgers is in them.
TotalInv == Total(accounts) = SumFunction(Funds) /\ Total(saved.accounts) = SumFunction(Funds)

\* One balance changes: so does the total.
LEMMA TotalChange ==
    ASSUME NEW one, NEW two, NEW x \in Address,
           \A a \in Address : one[a].lamports \in Int /\ two[a].lamports \in Int,
           \A a \in Address \ {x} : one[a].lamports = two[a].lamports
    PROVE  /\ Total(one) \in Int
           /\ Total(two) = Total(one) + two[x].lamports - one[x].lamports
<1> DEFINE f == Lamports(one)
           g == Lamports(two)
<1>1. \A a \in Address : f[a] = one[a].lamports /\ g[a] = two[a].lamports
  BY DEF Lamports
<1>2. DOMAIN f = Address /\ DOMAIN g = Address
  BY DEF Lamports
<1>3. /\ \A a \in Address : f[a] \in Int /\ g[a] \in Int
      /\ \A a \in Address \ {x} : f[a] = g[a]
  BY <1>1
<1> HIDE DEF f, g
<1>4. SumFunctionOnSet(g, Address) = SumFunctionOnSet(f, Address) + g[x] - f[x]
  BY <1>3, FiniteAssumption, SumChange
<1>5. SumFunctionOnSet(f, Address) \in Int
  BY <1>3, FiniteAssumption, SumType
<1>6. Total(one) = SumFunctionOnSet(f, Address) /\ Total(two) = SumFunctionOnSet(g, Address)
  BY <1>2 DEF Total, SumFunction, f, g
<1> QED
  BY <1>1, <1>4, <1>5, <1>6

\* A move takes from the total what it adds to it, also from an account to itself.
LEMMA MoveConserves ==
    ASSUME NEW from \in Address, NEW to \in Address, NEW n \in Int,
           accounts \in Ledger
    PROVE  Total(Move(from, to, n)) = Total(accounts)
<1> DEFINE Balances == [Address -> [lamports : Int, owner : {"system", "winterwallet"},
                                    data : Record]]
<1>1. PICK debited : debited = [accounts EXCEPT ![from].lamports = @ - n]
  OBVIOUS
<1>2. PICK moved : moved = [debited EXCEPT ![to].lamports = @ + n]
  OBVIOUS
<1>3. /\ debited \in Balances
      /\ debited[from].lamports = accounts[from].lamports - n
      /\ \A a \in Address \ {from} : accounts[a].lamports = debited[a].lamports
      /\ \A a \in Address : accounts[a].lamports \in Int /\ debited[a].lamports \in Int
  BY <1>1 DEF Ledger
<1>4. /\ moved[to].lamports = debited[to].lamports + n
      /\ \A a \in Address \ {to} : debited[a].lamports = moved[a].lamports
      /\ \A a \in Address : moved[a].lamports \in Int
  BY <1>2, <1>3
<1>5. /\ Total(accounts) \in Int
      /\ Total(debited) = Total(accounts) + debited[from].lamports - accounts[from].lamports
  BY <1>3, TotalChange
<1>6. Total(moved) = Total(debited) + moved[to].lamports - debited[to].lamports
  BY <1>3, <1>4, TotalChange
<1>7. Total(moved) = Total(accounts)
  BY <1>3, <1>4, <1>5, <1>6
<1> QED
  BY <1>1, <1>2, <1>7 DEF Move

\* Ledgers with the same balances have the same total.
LEMMA SameTotal ==
    ASSUME NEW one, NEW two, \A a \in Address : one[a].lamports = two[a].lamports
    PROVE  Total(one) = Total(two)
BY DEF Total, Lamports

\* The users hold everything at first.
LEMMA InitTotal == Init => TotalInv
<1> SUFFICES ASSUME Init PROVE TotalInv
  OBVIOUS
<1> DEFINE f == Lamports(accounts)
<1>1. /\ DOMAIN f = Address /\ DOMAIN Funds = User
      /\ \A a \in User : f[a] = Funds[a] /\ f[a] \in Int
      /\ \A a \in Address \ User : f[a] = 0
      /\ User \in SUBSET Address
  BY AmountAssumption DEF Init, Lamports, Address
<1>2. \A a \in Address : f[a] \in Int
  BY <1>1
<1>3. Total(accounts) = SumFunctionOnSet(f, Address)
  BY <1>1 DEF Total, SumFunction
<1>4. saved.accounts = accounts
  BY DEF Init
<1> HIDE DEF f
<1>5. SumFunctionOnSet(f, Address) = SumFunctionOnSet(f, User)
  BY <1>1, <1>2, FiniteAssumption, SumOfRest
<1>6. SumFunctionOnSet(f, User) = SumFunctionOnSet(Funds, User)
  <2>1. IsFiniteSet(User)
    BY <1>1, FiniteAssumption, FS_Subset
  <2> QED
    BY <1>1, <2>1, SumSame
<1>7. SumFunction(Funds) = SumFunctionOnSet(Funds, User)
  BY <1>1 DEF SumFunction
<1> QED
  BY <1>3, <1>4, <1>5, <1>6, <1>7 DEF TotalInv

LEMMA TotalStep == Inv /\ TotalInv /\ [Next]_vars => TotalInv'
<1> SUFFICES ASSUME Inv, TotalInv, [Next]_vars PROVE TotalInv'
  OBVIOUS
<1>0. accounts \in Ledger /\ \A a \in Address : accounts[a].lamports \in Int
  BY DEF Inv, TypeOK, Ledger
<1>1. ASSUME Total(accounts') = Total(accounts), UNCHANGED saved PROVE TotalInv'
  BY <1>1 DEF TotalInv, Total, Lamports
<1>2. ASSUME NEW payer \in User, NEW tx \in Transaction, BeginTransaction(payer, tx)
      PROVE  TotalInv'
  <2>1. saved'.accounts = accounts /\ accounts' = accounts
    BY <1>2 DEF BeginTransaction
  <2> QED
    BY <2>1 DEF TotalInv, Total, Lamports
<1>3. ASSUME NEW ix \in Instruction, Initialize(ix) PROVE TotalInv'
  <2> DEFINE w == ix.wallet
             moved == Move(ix.payer, w, TopUp(w))
  <2>1. /\ ix.op = "initialize" /\ UNCHANGED saved
        /\ TopUp(w) > 0 => accounts[ix.payer].lamports >= TopUp(w)
        /\ accounts' = [moved EXCEPT ![w].owner = "winterwallet",
                                     ![w].data = [id |-> ix.id, root |-> ix.root]]
    BY <1>3 DEF Initialize
  <2>2. ix.payer \in Address /\ w \in Address
    BY <2>1, InstructionAssumption DEF WellFormed, Address
  <2>3. TopUp(w) \in Nat /\ TopUp(w) <= accounts[ix.payer].lamports
    <3>1. PICK t : t = TopUp(w)
      OBVIOUS
    <3>2. PICK have \in Nat, lamports \in Nat :
              have = accounts[w].lamports /\ lamports = accounts[ix.payer].lamports
      BY <1>0, <2>2 DEF Ledger
    <3>3. t = IF have < Rent THEN Rent - have ELSE 0
      BY <3>1, <3>2, Zenon DEF TopUp
    <3>4. Rent \in Nat /\ (t > 0 => lamports >= t)
      BY <2>1, <3>1, <3>2, AmountAssumption
    <3> QED
      BY <3>1, <3>2, <3>3, <3>4
  <2>4. Total(moved) = Total(accounts) /\ moved \in Ledger
    BY <1>0, <2>2, <2>3, MoveConserves, MoveKeeps
  <2> HIDE DEF moved, w
  <2>5. \A a \in Address : accounts'[a].lamports = moved[a].lamports
    BY <2>1, <2>2, <2>4 DEF Ledger
  <2> QED
    BY <1>1, <2>1, <2>4, <2>5, SameTotal
<1>4. ASSUME NEW ix \in Instruction, Advance(ix) PROVE TotalInv'
  <2>1. accounts' = [accounts EXCEPT ![ix.wallet].data.root = ix.new] /\ UNCHANGED saved
    BY <1>4 DEF Advance, StoreRoot
  <2>2. \A a \in Address : accounts'[a].lamports = accounts[a].lamports
    BY <1>0, <2>1 DEF Ledger
  <2> QED
    BY <1>1, <2>1, <2>2, SameTotal
<1>5. ASSUME NEW ix \in Instruction, Withdraw(ix) PROVE TotalInv'
  <2>1. /\ ix.wallet \in Address /\ ix.receiver \in Address /\ ix.lamports \in Int
        /\ accounts' = Move(ix.wallet, ix.receiver, ix.lamports) /\ UNCHANGED saved
    BY <1>5, InstructionAssumption DEF Withdraw, WellFormed
  <2> QED
    BY <1>0, <1>1, <2>1, MoveConserves
<1>6. ASSUME NEW ix \in Instruction, Close(ix) PROVE TotalInv'
  <2> DEFINE w == ix.wallet
             moved == Move(w, ix.receiver, accounts[w].lamports)
  <2>1. /\ w \in Address /\ ix.receiver \in Address /\ UNCHANGED saved
        /\ accounts' = [moved EXCEPT ![w].owner = "system", ![w].data = NoData]
    BY <1>6, InstructionAssumption DEF Close, Reset, WellFormed
  <2>2. Total(moved) = Total(accounts) /\ moved \in Ledger
    <3>1. accounts[w].lamports \in Nat /\ accounts[w].lamports <= accounts[w].lamports
      BY <1>0, <2>1 DEF Ledger
    <3> QED
      BY <1>0, <2>1, <3>1, MoveConserves, MoveKeeps
  <2> HIDE DEF moved, w
  <2>3. \A a \in Address : accounts'[a].lamports = moved[a].lamports
    BY <2>1, <2>2 DEF Ledger
  <2> QED
    BY <1>1, <2>1, <2>2, <2>3, SameTotal
<1>7. ASSUME NEW ix \in Instruction, Transfer(ix) PROVE TotalInv'
  <2>1. /\ ix.from \in Address /\ ix.to \in Address /\ ix.lamports \in Int
        /\ accounts' = Move(ix.from, ix.to, ix.lamports) /\ UNCHANGED saved
    BY <1>7, InstructionAssumption DEF Transfer, WellFormed
  <2> QED
    BY <1>0, <1>1, <2>1, MoveConserves
<1>8. ASSUME FinishAdvance \/ UNCHANGED vars PROVE TotalInv'
  BY <1>8 DEF FinishAdvance, vars, TotalInv, Total, Lamports
<1>9. ASSUME Commit PROVE TotalInv'
  <2>1. /\ UNCHANGED saved
        /\ \A a \in Address : accounts'[a].lamports = accounts[a].lamports
    BY <1>9 DEF Commit
  <2> QED
    BY <1>1, <2>1, SameTotal
<1>10. ASSUME Abort PROVE TotalInv'
  BY <1>10 DEF Abort, TotalInv, Total, Lamports
<1> QED
  BY <1>2, <1>3, <1>4, <1>5, <1>6, <1>7, <1>8, <1>9, <1>10 DEF Next, Step

\* No instruction, and no rollback, creates or destroys lamports: the balances of
\* the whole ledger always add up to what the users began with.
THEOREM NoLamportsMadeOrLost == Spec => []LamportsConserved
<1>1. TotalInv => LamportsConserved
  BY DEF TotalInv, LamportsConserved, Total, Lamports
<1> QED
  BY <1>1, InitInv, NextInv, InitTotal, TotalStep, PTL DEF Spec
=============================================================================
