SPECIFICATION Spec
CONSTANTS
  Tasks = {t1}
  Workers = {w1, w2}
  Sizes = {0, 1, 2}
  CreateModes = {TRUE, FALSE}
  ThreadErrors = FALSE
  NoTask = NoTask
  NoThread = NoThread
SYMMETRY Symmetry
INVARIANTS
  DestroyAsserted
CHECK_DEADLOCK FALSE
