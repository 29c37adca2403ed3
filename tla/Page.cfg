CONSTANTS
  Module <- MCModule
  Call <- MCCall
  Needs <- MCNeeds
  Gate <- MCGate
  Start = "start"
  Main = "main"
  Entry = "entry"
  Wait = 1
  Router = "GoatRouter"
  Lesson = {"l1", "l2"}
  Lab = {"l1"}
  Opened = {"none", "welcome", "l1"}
  MaxActs = 2
SPECIFICATION PageSpec
INVARIANTS
  PageTypeOK
  NothingForgotten
  RestingMenuAgrees
PROPERTIES
  ImplementsGraph
  StartsOrReports
  MarkIsShown
VIEW Reachable
CHECK_DEADLOCK FALSE
