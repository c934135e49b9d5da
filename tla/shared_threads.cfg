\* Two threads in the receiving process.
CONSTANTS
    Size = 2
    LazyFree = 2
    Items = {d1, d2}
    Unused = Unused
    Reserved = Reserved
    Messages <- MCMessages
    FragDescs = {f1, f2, f3}
    MaxOutstanding = 2
    Threads = {t1, t2}
    Poster = t1
    Receives <- MCReceives
    MaxRecvs = 3
    AnyTag <- MCAnyTag
SPECIFICATION SmpSpec
INVARIANT SmpInOrder
CHECK_DEADLOCK FALSE
