SPECIFICATION Spec
CONSTANT Val <- Values
INVARIANTS NoticeCarriesApplicant
CHECK_DEADLOCK FALSE
