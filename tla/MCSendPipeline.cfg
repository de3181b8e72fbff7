SPECIFICATION Spec
CONSTANTS
    payer = payer
    budget = budget
    alice = alice
    bob = bob
    program = program
    Payer = payer
    BudgetProgram = budget
    Key = {payer, budget, alice, bob, program}
    Requests <- MCRequests
    KeySize = 32
    SignatureSize = 64
    HashSize = 32
    Radix = 4
    Byte = 4
    Word = 1024
    SizeLimit = 300
    DefaultLimit = 20
    Ceiling = 40
    MinLimit = 3
    MaxU32 = 63
    MaxU64 = 1000
    Units = {0, 15, 38, 999}
    Costs = {0, 16, 40}
    MaxPolls = 2
    Tables <- MCTables
CHECK_DEADLOCK FALSE
INVARIANTS
    EstimateIsExact
    PreviewDecides
    MessageMeansInstructions
    NeverStarved
    ConfirmedIsExecuted
    V0IsExact
