SPECIFICATION Spec
CONSTANTS
    alice = alice
    bob = bob
    w1 = w1
    w2 = w2
    Id = {w1, w2}
    User = {alice, bob}
    Pda <- MCPda
    Rent = 2
    Funds <- MCFunds
    Instruction <- MCInstruction
    Transaction <- MCTransaction
    Encoding <- MCEncoding
    Decoded <- MCDecoded
    MaxPassthrough = 9
    MaxDepth = 4
INVARIANTS
    TypeOK
    LamportsConserved
    WalletRentExempt
    RecordAtOwnAddress
    ClosedStaysClosed
    UntouchedWithoutAdvance
    OnlySignedRuns
PROPERTIES
    RootAcceptedOnce
