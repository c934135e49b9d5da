\* One synchronous message of four fragments in a window of two; early-send buffers may be missing.
SPECIFICATION Spec
CONSTANTS
  m1 = m1
  m2 = m2
  d1 = d1
  d2 = d2
  d3 = d3
  None = None
  Msgs <- OneMsg
  Descs <- ThreeDescs
  NumFrags <- Frags4
  Kind <- KindSync
  Data <- DataContig
  MaxOutstanding = 2
  EarlyMayFail = TRUE
  CopyOutcomes <- Copied
  MaxSeq = 4
  MaxInFlight = 1
  MaxUnsent = 0
SYMMETRY DescSymmetry
CHECK_DEADLOCK FALSE
INVARIANTS IInv CountersAgree SyncMeansDelivered
