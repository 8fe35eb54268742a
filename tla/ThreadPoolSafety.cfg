SPECIFICATION Spec
CONSTANTS
  Tasks = {t1, t2, t3}
  Workers = {w1, w2, w3, w4}
  Sizes = {0, 1, 2, 3}
  CreateModes = {TRUE, FALSE}
  ThreadErrors = TRUE
  NoTask = NoTask
  NoThread = NoThread
SYMMETRY Symmetry
INVARIANTS
  TypeOK
  CountersExact
  OnePlace
  DestroyOnce
  AssertionsHold
  AllJoined
PROPERTIES
  ClosedWindsDown
CHECK_DEADLOCK FALSE
