SPECIFICATION FairSpec
CONSTANTS
  m1 = m1
  a1 = a1
  b1 = b1
  t1 = t1
  t2 = t2
  Main = Main
  None = None
  Tasks = {t1}
  Chans = {m1, a1}
  Home <- TwoHomes
  CloseCoros = TRUE
  MaxThreads = 2
  MaxLeaks = 1
PROPERTIES
  Delivered
CHECK_DEADLOCK FALSE
