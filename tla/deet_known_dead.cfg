SPECIFICATION Safety
CONSTANTS
  p1 = p1  p2 = p2
  Pids = {p1}
  NoPid = NoPid
  WaitStates = {}
CHECK_DEADLOCK FALSE
INVARIANTS
  KnownDeadIsDead
