CONSTANTS
  Thread = {"t1", "t2"}
  User = {"Joe", "Jack"}
  HasTan = {"Joe"}
  Requests <- MCRequests
  MaxServed = 4
SPECIFICATION Spec
INVARIANTS
  TypeOK
  PageNeedsBoth
  LoneIsExact
CHECK_DEADLOCK FALSE
