SPECIFICATION Spec
CONSTANTS
  m1 = m1
  a1 = a1
  b1 = b1
  t1 = t1
  t2 = t2
  Main = Main
  None = None
  Tasks = {t1, t2}
  Chans = {m1, a1}
  Home <- TwoHomes
  CloseCoros = TRUE
  MaxThreads = 2
  MaxLeaks = 0
INVARIANTS
  TypeOK
  RefcountExact
  NoMissedMatch
  WaitersKept
  TaskWakes
PROPERTIES
  ImplementsRendezvous
CHECK_DEADLOCK FALSE
