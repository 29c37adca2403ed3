CONSTANTS
  hr = hr
  tom = tom
  t1 = t1
  t2 = t2
  other = other
  NoOne = NoOne
  Thread = {t1, t2}
  Other = other
  Lessons = {"css", "role", "sql"}
  Employee = {hr, tom}
  Scripted = {hr}
  Prize = hr
  RoleOf <- MCRoleOf
  Auth <- MCAuth
  Ownership <- MCOwnership
  LoginFunction = TRUE
  Requests <- MCRequests
  MaxServed = 3
  MaxOthers = 1
SPECIFICATION Spec
INVARIANTS
  PageNeedsLogin
  ShownIsAsked
PROPERTIES
  CompletedFromOutside
  RoleAllows
  ErrorNeedsLogin
VIEW Reachable
CHECK_DEADLOCK FALSE
SYMMETRY Symmetry
