SPECIFICATION PlanSpec
CONSTANTS
    program = program
    winterwallet = winterwallet
    budget = budget
    alice = alice
    wallet = wallet
    payer = payer
    tokens1 = tokens1
    tokens2 = tokens2
    Base = 4
    Address <- MCAddress
    Executable <- MCExecutable
    MaxPassthrough = 5
    MaxCpi = 3
    Payloads <- MCPayloads
    AccountLists <- MCAccountLists
    Wallet = wallet
    Payer = payer
    WinterWallet = winterwallet
    Budget = budget
    Sdk = {"rust", "typescript"}
    Receivers = {alice, wallet, payer}
    Amounts <- MCAmounts
    TokenPrograms <- MCTokenPrograms
    Ata <- MCAta
    AddressLen = 2
    Spelled <- MCSpelled
    Careless = {"rust"}
    Requests <- MCRequests
    Changes <- MCChanges
CHECK_DEADLOCK FALSE
INVARIANTS
    TypeOK
    EncodedIsInvoked
    AcceptedIsSigned
    SubmittedIsSigned
    OnlyPayerSigns
    InnerPrivileges
