CONSTANTS
  MaxBytes = 2
  Capacity = 1
SPECIFICATION Spec
INVARIANTS
  OutputIsWhole
  NoOrphan
  OnlyPipesHang
PROPERTIES
  TimeoutEndsTheCall
CHECK_DEADLOCK FALSE
