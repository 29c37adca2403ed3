CONSTANTS
  Tracker = {k1, k2, k3}
  Thread = {t1}
  Lesson = {l1}
  Requests = {"page", "catcher"}
  NumStages = 1
  None = None
SPECIFICATION Spec
INVARIANTS
  CustomPropertyKept
VIEW Reachable
CONSTRAINT AccidentFree
