CONSTANTS
  Jar = {j1, j2}
  LessonJar = {j1, j2}
  LabelJar = {j1}
  Thread = {t1, t2}
  MaxChanges = 2
  None = None
SPECIFICATION Spec
INVARIANTS
  TypeOK
  LoneLoadIsExact
  LoneLoadRepairs
  AllOrNothing
SYMMETRY ThreadSymmetry
VIEW Reachable
CONSTRAINT LoadsOverlapBeforeChanges
