SPECIFICATION FairSpec
CONSTANTS
  zero = zero
  u1 = u1
  u2 = u2
  Uid = {zero, u1, u2}
  StoredUid = {u1, u2}
  ZeroUid = zero
  UnsetUid = {u1}
  StoredRows <- NoRows
  Client = {c1, c2}
  NoClient = NoClient
  Worker = {w1}
  Bodies <- LiveBodies
  MaxPackets = 2
  Leaving = {c1}
PROPERTIES ReadResumes PeerGoneCloses AnswerDelivered
CHECK_DEADLOCK FALSE
