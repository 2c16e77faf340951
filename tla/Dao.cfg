SPECIFICATION Spec
CONSTANTS
  w1 = w1
  w2 = w2
  Record <- Records
  Condition <- Conditions
  StoredRows <- OldRows
  Caller = {w1, w2}
  MaxCalls = 4
SYMMETRY Symmetry
INVARIANTS TrueMeansDone LookupIsRow
PROPERTIES TableSpec UsersUnchanged
CHECK_DEADLOCK FALSE
