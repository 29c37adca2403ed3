CONSTANTS
  Thread = {"t1"}
  User = {"Joe", "Jack"}
  HasTan = {"Joe"}
  Requests <- MCRequests
  MaxServed = 4
SPECIFICATION Spec
INVARIANT TanUsedOnce
CHECK_DEADLOCK FALSE
