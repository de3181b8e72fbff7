SPECIFICATION Spec
CONSTANTS
    h1 = h1
    h2 = h2
    p1 = p1
    p2 = p2
    MaxPosition = 3
    Host = {h1, h2}
    Process = {p1, p2}
    HostOf <- TwoHosts
    pay = pay
    swap = swap
    close = close
    Message = {pay, swap}
    Closing = {}
    InitTag = InitTag
    Command = {"init", "advance", "recover"}
    MaxDepth = 3
    Lagging = TRUE
    StateLoss = TRUE
    PowerFails = FALSE
VIEW LedgerView
SYMMETRY Payments
CHECK_DEADLOCK FALSE
INVARIANTS
    ExecutedOnce
