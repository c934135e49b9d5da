\* One thread in the receiving process.
CONSTANTS
    Size = 2
    LazyFree = 2
    Items = {d1, d2}
    Unused = Unused
    Reserved = Reserved
    Messages <- MCMessages
    FragDescs = {f1, f2, f3}
    MaxOutstanding = 2
    Threads = {t1}
    Poster = t1
    Receives <- MCReceives
    MaxRecvs = 3
    AnyTag <- MCAnyTag
SPECIFICATION SmpFairSpec
INVARIANTS SmpInOrder SmpDoneIsTrue ReturnedIsUnreferenced
PROPERTIES ImplementsFifo SmpMessagesArrive
CHECK_DEADLOCK FALSE
