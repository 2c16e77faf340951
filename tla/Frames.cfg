SPECIFICATION FairSpec
CONSTANTS
  ReadMax = 17
  BodyMax = 17
  BodyLengths <- Lengths
  MaxPackets = 3
INVARIANTS HandledInOrder BodyTerminated NothingGarbled
PROPERTIES FramedConversation EachHandled
CHECK_DEADLOCK FALSE
