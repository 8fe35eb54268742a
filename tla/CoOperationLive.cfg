SPECIFICATION FairSpec
CONSTANTS
  Threads = {c1, c2}
  Kinds = {"request", "async"}
  InTask = FALSE
  Main = Main
  Loop = Loop
  None = None
PROPERTIES
  ResetServed
  Released
CHECK_DEADLOCK FALSE
