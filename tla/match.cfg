\* Two sources; three receives of any kind, or two and a damaged fragment.
SPECIFICATION MCSpec
CONSTANTS
  GroupSize = 2
  Sends <- Sends21
  Parts <- Parts21
  Tags <- TwoTags
  AnyTag = AnyTag
  AnyProc = AnyProc
  NoMsg = NoMsg
  MaxRecvs = 3
  MaxCorrupt = 1
CHECK_DEADLOCK FALSE
INVARIANTS NonOvertaking OldestReceiveFirst NothingStranded FragmentsConserved DoneIsComplete
PROPERTIES ProbeFindsReceived MatchedCompletes
