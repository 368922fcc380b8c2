SPECIFICATION FairChannelSpec
CONSTANTS
  Chunks = 2
  Requests = 2
INVARIANTS ChannelInv
PROPERTIES NothingTruncated  NoneLeftBehind
CHECK_DEADLOCK FALSE
