SPECIFICATION Spec
CONSTANT Val <- Values
INVARIANTS RequestsRoundTrip ReadsAllOrNothing FriendBodiesDistinct
CHECK_DEADLOCK FALSE
