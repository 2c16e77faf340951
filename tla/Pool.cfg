SPECIFICATION TimedSpec
CONSTANTS
  d1 = d1
  d2 = d2
  d3 = d3
  Dao = {d1, d2, d3}
  MaxConnect = 2
  MaxConstructions = 8
INVARIANTS PoolTypeOK OneOwner NoLostWakeup EntriesConserved ServesAll
PROPERTIES LendingSpec CallsReturn
CHECK_DEADLOCK FALSE
