SPECIFICATION Spec
CONSTANTS
  Coros = {c1, c2}
  None = None
  HandleKinds = {"stream"}
  Reentrant = TRUE
  Reclose = FALSE
  MaxConns = 1
  MaxActive = 5
INVARIANT ClosesOpenHandle
CHECK_DEADLOCK FALSE
