SPECIFICATION Spec
CONSTANTS
  Coros = {c1, c2, c3}
  None = None
  Plain = {e1, e2}
  Mutexes = {m}
  Promises = {p}
  Queues = {q1, q2}
  Events = {e1, e2, m, p, q1, q2}
  MaxStored = 1
SYMMETRY Symmetry
INVARIANTS
  TypeOK
  ListsHoldWaiters
  LockHandedOver
  NoMissedEvent
CHECK_DEADLOCK FALSE
PROPERTIES
  ImplementsQueues
