SPECIFICATION FairSpec
CONSTANTS
  Coros = {c1, c2}
  None = None
  HandleKinds = {"stream", "datagram", "passive"}
  Reentrant = FALSE
  Reclose = FALSE
  MaxConns = 2
  MaxActive = 5
INVARIANTS
  TypeOK
  DocumentedHandle
  SavedWhileUsed
  ActiveNotMissed
  NoConnectionLost
  StateExclusive
PROPERTIES
  ResumeServed
CHECK_DEADLOCK FALSE
