SPECIFICATION Spec
CONSTANT Val <- Values
INVARIANTS LoginAnswerReadable
CHECK_DEADLOCK FALSE
