SPECIFICATION Spec
CONSTANTS
  zero = zero
  u1 = u1
  u2 = u2
  Uid = {zero, u1, u2}
  StoredUid = {u1, u2}
  ZeroUid = zero
  UnsetUid = {u2}
  StoredRows <- OldRows
  Client = {c1, c2}
  NoClient = NoClient
  Worker = {w1, w2}
  Bodies <- PairBodies
  MaxPackets = 3
  Leaving = {}
SYMMETRY Symmetry
INVARIANTS ListedFriendsConfirmed
PROPERTIES FriendPairsSpec
CHECK_DEADLOCK FALSE
