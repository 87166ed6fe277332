SPECIFICATION Spec
CONSTANTS
  w1 = w1  w2 = w2  w3 = w3
  v1 = v1  c1 = c1
  fd4 = fd4  fd5 = fd5
  Fds = {fd4, fd5}
  NoThread = NoThread
  Workers = {w1, w2, w3}
  Waiters = {v1}
  Closers = {c1}
  Threads <- MCThreads
  FdOf <- MCSharedFds
INVARIANTS
  EveryHolderHasAnEntry
  NoLostWakeup

  
