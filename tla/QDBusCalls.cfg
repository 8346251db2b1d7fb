SPECIFICATION FairSpec
CONSTANTS
    c1 = c1
    p1 = p1
    p2 = p2
    i1 = i1
    Call = {c1}
    Proxy = {p1, p2}
    Receiver <- MCReceiver
    Aim <- MCAim
    UniqueName <- MCUniqueName
    Signal <- MCSignal
    Invocation = {i1}
    Path = {"/"}
    Target <- MCTarget
INVARIANTS
    NotForgotten
    ReceiversAlive
    NothingStranded
    HeardOnce
PROPERTIES
    ArrivalsAreHandled
    ImplementsAsyncCalls
CHECK_DEADLOCK FALSE
