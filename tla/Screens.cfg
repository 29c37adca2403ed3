CONSTANTS
  t1 = t1
  t2 = t2
  basics = basics
  lab = lab
  users = users
  WELCOME = WELCOME
  ERROR = ERROR
  Unknown = Unknown
  Absent = Absent
  Thread = {t1, t2}
  Lesson = {basics, lab, users}
  Role <- MCRole
  Challenge = {lab}
  Staged = {lab}
  N = 2
  First = basics
  UserInRole = FALSE
  Requests <- MCRequests
SPECIFICATION Spec
INVARIANTS
  NotStuckOnError
PROPERTIES
  AloneIsExact
  HackTakesOneRequest
VIEW Reachable
SYMMETRY Threads
