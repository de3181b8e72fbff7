SPECIFICATION FairSpec
CONSTANTS
    h1 = h1
    h2 = h2
    p1 = p1
    p2 = p2
    MaxPosition = 4
    Host = {h1}
    Process = {p1, p2}
    HostOf <- OneHost
    pay = pay
    swap = swap
    close = close
    Message = {pay, swap, close}
    Closing = {close}
    InitTag = InitTag
    Command = {"init", "advance"}
    MaxDepth = 4
    Lagging = TRUE
    StateLoss = FALSE
    PowerFails = TRUE
CHECK_DEADLOCK FALSE
INVARIANTS
    TypeOK
    OneTimeSignature
    BurnedBeforeExposed
    LedgerNotAhead
PROPERTIES
    ImplementsSigner
    LockReleased
