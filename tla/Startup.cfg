SPECIFICATION FairSpec
CONSTANTS
  main = main
  w1 = w1
  w2 = w2
  w3 = w3
  Worker = {w1, w2, w3}
  Main = main
  MaxFails = 2
  MaxCalls = 4
INVARIANTS PoolSeesConfig NobodyStuck
PROPERTIES CallsEnd
CHECK_DEADLOCK FALSE
