SPECIFICATION Spec
CONSTANTS
  Threads = {c1, c2}
  Kinds = {"request", "idle", "timer", "signal", "process", "async"}
  InTask = TRUE
  Main = Main
  Loop = Loop
  None = None
SYMMETRY Symmetry
INVARIANTS
  TypeOK
  DocumentedStates
  AssertionsHold
  Accounted
  MatchedIsOpen
CHECK_DEADLOCK FALSE
