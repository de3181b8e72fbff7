SPECIFICATION Spec
CONSTANTS
    h1 = h1
    h2 = h2
    p1 = p1
    p2 = p2
    MaxPosition = 3
    Host = {h1}
    Process = {p1, p2}
    HostOf <- OneHost
    pay = pay
    swap = swap
    close = close
    Message = {pay}
    Closing = {}
    InitTag = InitTag
    Command = {"init", "advance", "recover"}
    MaxDepth = 3
    Lagging = FALSE
    StateLoss = FALSE
    PowerFails = FALSE
CHECK_DEADLOCK FALSE
INVARIANTS
    RefusedInitIsInitialized
