CONSTANTS
  t1 = t1
  t2 = t2
  basics = basics
  lab = lab
  WELCOME = WELCOME
  ERROR = ERROR
  Unknown = Unknown
  Absent = Absent
  Thread = {t1, t2}
  Lesson = {basics, lab}
  Role <- MCRole
  Challenge = {}
  Staged = {lab}
  N = 1
  First = basics
  UserInRole = FALSE
  Requests <- MCRequests
  Links <- MCLinks
  MaxActs = 3
SPECIFICATION FrontendSpec
INVARIANTS
  FrontendTypeOK
  RestingPageAgrees
PROPERTIES
  
  ClickIsShown
VIEW Reachable
CHECK_DEADLOCK FALSE
