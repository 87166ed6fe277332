SPECIFICATION Safety
CONSTANTS
  c1 = c1  c2 = c2  c3 = c3
  Conns = {c1, c2, c3}
  Main = Main  Handler = Handler
  NoConn = NoConn  NoFd = NoFd  NoThread = NoThread
  Threads <- MCThreads
  Fds = {4, 5}
  MaxHup = 0
  Requests = {"get", "commit"}
CHECK_DEADLOCK FALSE
SYMMETRY MCSymmetry
VIEW MCView
INVARIANTS
  NoAbortAfterEnd
  ListMatchesThreads
  UsesOwnConnection
