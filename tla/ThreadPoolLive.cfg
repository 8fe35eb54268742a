SPECIFICATION FairSpec
CONSTANTS
  Tasks = {t1, t2}
  Workers = {w1, w2, w3}
  Sizes = {0, 1, 2}
  CreateModes = {TRUE, FALSE}
  ThreadErrors = FALSE
  NoTask = NoTask
  NoThread = NoThread
PROPERTIES
  CloseCompletes
  PendingServed
  ClosedReleased
CHECK_DEADLOCK FALSE
