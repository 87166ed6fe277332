SPECIFICATION HangupSpec
CONSTANTS
  c1 = c1  c2 = c2  c3 = c3
  Conns = {c1, c2}
  Main = Main  Handler = Handler
  NoConn = NoConn  NoFd = NoFd  NoThread = NoThread
  Threads <- MCThreads
  Fds = {4, 5, 6}
  MaxHup = 1
  Requests = {}
CHECK_DEADLOCK FALSE
PROPERTIES
  
  GoneClientsAreDropped
  WaitKeepsPromise
