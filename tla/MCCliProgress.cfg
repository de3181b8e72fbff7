SPECIFICATION PersistentOperator
CONSTANTS
    h1 = h1
    h2 = h2
    p1 = p1
    p2 = p2
    MaxPosition = 2
    Host = {h1}
    Process = {p1}
    HostOf <- OneHost1
    pay = pay
    swap = swap
    close = close
    Message = {pay}
    Closing = {}
    InitTag = InitTag
    Command = {"init", "advance", "recover"}
    MaxDepth = 2
    Lagging = TRUE
    StateLoss = FALSE
    PowerFails = TRUE
CHECK_DEADLOCK FALSE
PROPERTIES
    KeepsMoving
