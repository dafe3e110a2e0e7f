SPECIFICATION Spec
CONSTANTS Effects = {"email.send"}
CHECK_DEADLOCK FALSE
INVARIANTS ParkedAsDocumented
