CONSTANTS
    Blocks = {1, 2, 3}
    Requests = {"d1", "d2", "d3"}
    Threads = {t1}
    MsgSizes = {1, 2}
    BufferLength = 4
    MaxComms = 5
    MaxGroups = 5
    AttributesOnInter = FALSE
    NProcs = 4
    BlockSize = 1
    FirstID = 3
    Calls <- MCCalls
SPECIFICATION ProcessSpec
CHECK_DEADLOCK FALSE
INVARIANTS RangesApart CountedSendKeepsRange DetachWaitsForSends CommCountsExact UsedCommsKept ContextsDistinct CallsAgree
