CONSTANTS
  Tracker = {k1, k2, k3, k4}
  Thread = {t1, t2}
  Lesson = {l1}
  Requests = {"page", "look", "restart", "catcher"}
  NumStages = 2
  None = None
SPECIFICATION Spec
INVARIANTS
  NoForgedProgress
  MemoryIsExact
  AckedIsDurable
PROPERTIES
  AnsweredPageReloads
  KeepsProgress
SYMMETRY Symmetry
VIEW Told
CONSTRAINT LastOnly
