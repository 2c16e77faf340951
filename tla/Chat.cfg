SPECIFICATION Spec
CONSTANTS
  zero = zero
  u1 = u1
  u2 = u2
  Uid = {zero, u1, u2}
  StoredUid = {u1, u2}
  ZeroUid = zero
  UnsetUid = {zero, u1, u2}
  StoredRows <- NoRows
  Client = {c1, c2}
  NoClient = NoClient
  Worker = {w1, w2}
  Bodies <- ChatBodies
  MaxPackets = 3
  Leaving = {}
SYMMETRY Symmetry
INVARIANTS TypeOK ReadToken AddressedToLoggedIn ChatSettledOnce
CHECK_DEADLOCK FALSE
