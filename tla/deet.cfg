SPECIFICATION FairSpec
CONSTANTS
  p1 = p1  p2 = p2
  Pids = {p1, p2}
  NoPid = NoPid
  WaitStates = {"dead"}
CHECK_DEADLOCK FALSE
INVARIANTS
  
  StoppedIsStopped
  EventsAreReported
PROPERTIES
  DrainEnds
VIEW MCView
