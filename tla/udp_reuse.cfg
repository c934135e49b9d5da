\* Two messages share one descriptor, so late acks name a descriptor in use again.
SPECIFICATION Spec
CONSTANTS
  m1 = m1
  m2 = m2
  d1 = d1
  d2 = d2
  d3 = d3
  None = None
  Msgs <- TwoMsgs
  Descs <- OneDesc
  NumFrags <- Frags11
  Kind <- KindBufSync
  Data <- DataPackedEmpty
  MaxOutstanding = 1
  EarlyMayFail = FALSE
  CopyOutcomes <- Copied
  MaxSeq = 2
  MaxInFlight = 2
  MaxUnsent = 1
CHECK_DEADLOCK FALSE
INVARIANTS AcksAreTrue ReturnedIsEmpty
PROPERTIES ImplementsReliableLink
