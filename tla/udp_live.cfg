\* One message of three fragments in a window of two: what losses can not stop.
SPECIFICATION FairSpec
CONSTANTS
  m1 = m1
  m2 = m2
  d1 = d1
  d2 = d2
  d3 = d3
  None = None
  Msgs <- OneMsg
  Descs <- TwoDescs
  NumFrags <- Frags3
  Kind <- KindSync
  Data <- DataContig
  MaxOutstanding = 2
  EarlyMayFail = FALSE
  CopyOutcomes <- Copied
  MaxSeq = 3
  MaxInFlight = 1
  MaxUnsent = 0
CHECK_DEADLOCK FALSE
PROPERTIES IntactSendsComplete FreedIsReturned
