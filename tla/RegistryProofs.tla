--------------------------- MODULE RegistryProofs ---------------------------
(***************************************************************************)
(* Proofs about RegistryUsers, for any sets of workers, waiters and        *)
(* closers and any assignment of descriptors to workers.                   *)
(***************************************************************************)
EXTENDS RegistryUsers, RegistryLemmas

-----------------------------------------------------------------------------
(* Type correctness: every reachable state of the threads and of the       *)
(* registry object is of the expected type; in particular the semaphore    *)
(* never goes below zero.                                                  *)
THEOREM TypeCorrect == Safety => []TypeOK
<1> USE DEF TypeOK, RegistryTypeOK, WorkerPC, WaiterPC, CloserPC
<1>1. Init => TypeOK
  BY ThreadsAssumption, EmptySeq DEF Init, creg_init
<1>2. TypeOK /\ [Next]_vars => TypeOK'
  <2> SUFFICES ASSUME TypeOK, [Next]_vars
               PROVE  TypeOK'
    OBVIOUS
  <2> USE ThreadsAssumption, FdOfAssumption DEF GoTo, Unlock
  <2>1. ASSUME NEW w \in Workers, LockToRegister(w)
        PROVE  TypeOK'
    BY <2>1 DEF LockToRegister, Lock
  <2>2. ASSUME NEW w \in Workers, Register(w)
        PROVE  TypeOK'
    <3>1. FdOf[w] \in Fds
      OBVIOUS
    <3>2. clients' \in Seq(Fds)
      BY <2>2, <3>1 DEF Register, creg_register
    <3> QED
      BY <2>2, <3>2 DEF Register, creg_register
  <2>3. ASSUME NEW w \in Workers, RegisterRefused(w)
        PROVE  TypeOK'
    BY <2>3 DEF RegisterRefused, creg_register_dup
  <2>4. ASSUME NEW w \in Workers, LockToUnregister(w)
        PROVE  TypeOK'
    BY <2>4 DEF LockToUnregister, Lock
  <2>5. ASSUME NEW w \in Workers, Unregister(w)
        PROVE  TypeOK'
    <3>1. FdOf[w] \in Fds /\ w \in Threads
      OBVIOUS
    <3>2. RegistryTypeOK'
      BY <2>5, <3>1, OperationsKeepTypes DEF Unregister
    <3> QED
      BY <2>5, <3>2 DEF Unregister
  <2>6. ASSUME NEW v \in Waiters, Wake(v)
        PROVE  TypeOK'
    BY <2>6 DEF Wake, SemWait
  <2>7. ASSUME NEW v \in Waiters, LockToCheck(v)
        PROVE  TypeOK'
    BY <2>7 DEF LockToCheck, Lock
  <2>8. ASSUME NEW v \in Waiters, WaitReturns(v)
        PROVE  TypeOK'
    BY <2>8 DEF WaitReturns, creg_wait_for_empty
  <2>9. ASSUME NEW v \in Waiters, WaitAgain(v)
        PROVE  TypeOK'
    BY <2>9 DEF WaitAgain, creg_wait_again
  <2>10. ASSUME NEW c \in Closers, LockToClose(c)
         PROVE  TypeOK'
    BY <2>10 DEF LockToClose, Lock
  <2>11. ASSUME NEW c \in Closers, ShutdownAll(c)
         PROVE  TypeOK'
    <3>1. RegistryTypeOK'
      BY <2>11, OperationsKeepTypes DEF ShutdownAll
    <3> QED
      BY <2>11, <3>1 DEF ShutdownAll
  <2>12. CASE UNCHANGED vars
    BY <2>12 DEF vars
  <2> QED
    BY <2>1, <2>2, <2>3, <2>4, <2>5, <2>6, <2>7, <2>8, <2>9, <2>10, <2>11,
       <2>12
    DEF Next, WorkerStep, WaiterStep, CloserStep, Terminated
<1> QED
  BY <1>1, <1>2, PTL DEF Safety

-----------------------------------------------------------------------------
(* A thread is inside a critical section exactly when it holds the mutex.  *)
(* The invariant is inductive by itself, given the types: Lock is the only *)
(* way in and needs a free mutex, every other action of a section releases *)
(* it and leaves.                                                          *)
THEOREM Exclusion == Safety => []MutualExclusion
<1> USE DEF InCriticalSection
<1>1. Init => MutualExclusion
  BY ThreadsAssumption, NoThreadAssumption DEF Init, creg_init, MutualExclusion
<1>2. TypeOK /\ MutualExclusion /\ [Next]_vars => MutualExclusion'
  <2> SUFFICES ASSUME TypeOK, MutualExclusion, [Next]_vars,
                      NEW t \in Threads
               PROVE  (InCriticalSection(t) <=> mutex = t)'
    BY DEF MutualExclusion
  <2>0. pc \in [Threads -> WorkerPC \cup WaiterPC \cup CloserPC]
    BY DEF TypeOK
  <2> USE ThreadsAssumption, NoThreadAssumption
      DEF GoTo, Unlock, MutualExclusion
  <2>1. ASSUME NEW w \in Workers, WorkerStep(w)
        PROVE  (InCriticalSection(t) <=> mutex = t)'
    <3>1. CASE LockToRegister(w)
      BY <2>0, <3>1 DEF LockToRegister, Lock
    <3>2. CASE Register(w)
      BY <2>0, <3>2 DEF Register, creg_register
    <3>3. CASE RegisterRefused(w)
      BY <2>0, <3>3 DEF RegisterRefused, creg_register_dup
    <3>4. CASE LockToUnregister(w)
      BY <2>0, <3>4 DEF LockToUnregister, Lock
    <3>5. CASE Unregister(w)
      BY <2>0, <3>5 DEF Unregister, creg_unregister
    <3> QED
      BY <2>1, <3>1, <3>2, <3>3, <3>4, <3>5 DEF WorkerStep
  <2>2. ASSUME NEW v \in Waiters, WaiterStep(v)
        PROVE  (InCriticalSection(t) <=> mutex = t)'
    <3>1. CASE Wake(v)
      BY <2>0, <3>1 DEF Wake, SemWait
    <3>2. CASE LockToCheck(v)
      BY <2>0, <3>2 DEF LockToCheck, Lock
    <3>3. CASE WaitReturns(v)
      BY <2>0, <3>3 DEF WaitReturns, creg_wait_for_empty
    <3>4. CASE WaitAgain(v)
      BY <2>0, <3>4 DEF WaitAgain, creg_wait_again
    <3> QED
      BY <2>2, <3>1, <3>2, <3>3, <3>4 DEF WaiterStep
  <2>3. ASSUME NEW c \in Closers, CloserStep(c)
        PROVE  (InCriticalSection(t) <=> mutex = t)'
    <3>1. CASE LockToClose(c)
      BY <2>0, <3>1 DEF LockToClose, Lock
    <3>2. CASE ShutdownAll(c)
      BY <2>0, <3>2 DEF ShutdownAll, creg_shutdown_all
    <3> QED
      BY <2>3, <3>1, <3>2 DEF CloserStep
  <2>4. CASE UNCHANGED vars
    BY <2>4 DEF vars
  <2> QED
    BY <2>1, <2>2, <2>3, <2>4 DEF Next, Terminated
<1> QED
  BY <1>1, <1>2, TypeCorrect, PTL DEF Safety

-----------------------------------------------------------------------------
(* A waiter or a closer that moves leaves the holders and the list alone.  *)
LEMMA OthersKeepHolders ==
  ASSUME TypeOK,
         \/ \E v \in Waiters : WaiterStep(v)
         \/ \E c \in Closers : CloserStep(c)
  PROVE  UNCHANGED <<Holders, clients>>
<1> USE ThreadsAssumption DEF TypeOK, GoTo, Holders
<1>1. ASSUME NEW v \in Waiters, WaiterStep(v)
      PROVE  UNCHANGED <<Holders, clients>>
  <2>1. UNCHANGED clients
    BY <1>1 DEF WaiterStep, Wake, SemWait, LockToCheck, Lock, WaitReturns,
       creg_wait_for_empty, WaitAgain, creg_wait_again
  <2>2. \A w \in Workers : pc'[w] = pc[w]
    BY <1>1 DEF WaiterStep, Wake, LockToCheck, WaitReturns, WaitAgain
  <2> QED
    BY <2>1, <2>2
<1>2. ASSUME NEW c \in Closers, CloserStep(c)
      PROVE  UNCHANGED <<Holders, clients>>
  <2>1. UNCHANGED clients
    BY <1>2 DEF CloserStep, LockToClose, Lock, ShutdownAll, creg_shutdown_all
  <2>2. \A w \in Workers : pc'[w] = pc[w]
    BY <1>2 DEF CloserStep, LockToClose, ShutdownAll
  <2> QED
    BY <2>1, <2>2
<1> QED
  BY <1>1, <1>2

(* What a worker's step does to the holders: registering makes it one,     *)
(* unregistering ends that, the other steps change nothing.                *)
LEMMA WorkerHolders ==
  ASSUME TypeOK, NEW w \in Workers
  PROVE  /\ Register(w) => w \notin Holders /\ Holders' = Holders \cup {w}
         /\ Unregister(w) => w \in Holders /\ Holders' = Holders \ {w}
         /\ LockToRegister(w) \/ RegisterRefused(w) \/ LockToUnregister(w)
              => UNCHANGED <<Holders, clients>>
<1> USE ThreadsAssumption DEF TypeOK, GoTo, Holders
<1>1. Register(w) => w \notin Holders /\ Holders' = Holders \cup {w}
  BY DEF Register
<1>2. Unregister(w) => w \in Holders /\ Holders' = Holders \ {w}
  BY DEF Unregister
<1>3. LockToRegister(w) => UNCHANGED <<Holders, clients>>
  BY DEF LockToRegister, Lock
<1>4. RegisterRefused(w) => UNCHANGED <<Holders, clients>>
  BY DEF RegisterRefused, creg_register_dup
<1>5. LockToUnregister(w) => UNCHANGED <<Holders, clients>>
  BY DEF LockToUnregister, Lock
<1> QED
  BY <1>1, <1>2, <1>3, <1>4, <1>5

-----------------------------------------------------------------------------
(* Registering a client extends the matching with the new last node.       *)
LEMMA MatchingAfterRegister ==
  ASSUME TypeOK, EveryHolderHasAnEntry, NEW w \in Workers, Register(w)
  PROVE  EveryHolderHasAnEntry'
<1>1. PICK f \in [Holders -> 1 .. Len(clients)] : IsMatching(f)
  BY DEF EveryHolderHasAnEntry
<1>2. w \notin Holders /\ Holders' = Holders \cup {w}
  BY WorkerHolders
<1>3. /\ Len(clients) \in Nat
      /\ Len(clients') = Len(clients) + 1
      /\ clients'[Len(clients) + 1] = FdOf[w]
      /\ \A i \in 1 .. Len(clients) : clients'[i] = clients[i]
  <2>1. clients \in Seq(Fds) /\ FdOf[w] \in Fds
    BY FdOfAssumption DEF TypeOK, RegistryTypeOK
  <2>2. clients' = Append(clients, FdOf[w])
    BY DEF Register, creg_register
  <2> QED
    BY <2>1, <2>2
<1> DEFINE g == [x \in Holders' |-> IF x = w THEN Len(clients) + 1 ELSE f[x]]
<1>4. g \in [Holders' -> 1 .. Len(clients')]
  BY <1>1, <1>2, <1>3
<1>5. \A x \in Holders' : clients'[g[x]] = FdOf[x]
  BY <1>1, <1>2, <1>3 DEF IsMatching
<1>6. \A x, y \in Holders' : g[x] = g[y] => x = y
  BY <1>1, <1>2, <1>3 DEF IsMatching
<1>7. \A i \in 1 .. Len(clients') : \E x \in Holders' : g[x] = i
  <2> SUFFICES ASSUME NEW i \in 1 .. Len(clients')
               PROVE  \E x \in Holders' : g[x] = i
    OBVIOUS
  <2>1. CASE i = Len(clients) + 1
    BY <2>1, <1>2
  <2>2. CASE i \in 1 .. Len(clients)
    <3>1. PICK x \in Holders : f[x] = i
      BY <2>2, <1>1 DEF IsMatching
    <3> QED
      BY <3>1, <1>2
  <2> QED
    BY <2>1, <2>2, <1>3
<1> QED
  BY <1>4, <1>5, <1>6, <1>7 DEF EveryHolderHasAnEntry, IsMatching

(* Unregistering unlinks some node with the worker's descriptor, which may *)
(* stand for another holder u of the same descriptor; u then takes over    *)
(* the node that stood for the worker, and the nodes behind move up.       *)
LEMMA MatchingAfterUnregister ==
  ASSUME TypeOK, EveryHolderHasAnEntry, NEW w \in Workers, Unregister(w)
  PROVE  EveryHolderHasAnEntry'
<1>1. PICK f \in [Holders -> 1 .. Len(clients)] : IsMatching(f)
  BY DEF EveryHolderHasAnEntry
<1>2. w \in Holders /\ Holders' = Holders \ {w}
  BY WorkerHolders
<1>3. PICK i \in 1 .. Len(clients) :
        clients[i] = FdOf[w] /\ clients' = RemoveAt(clients, i)
  BY DEF Unregister, creg_unregister, PositionsOf
<1>4. /\ Len(clients) \in Nat
      /\ Len(clients') = Len(clients) - 1
      /\ \A j \in 1 .. Len(clients) - 1 :
           clients'[j] = IF j < i THEN clients[j] ELSE clients[j + 1]
  <2>1. clients \in Seq(Fds) /\ Len(clients) \in Nat
    BY LenProperties DEF TypeOK, RegistryTypeOK
  <2> DEFINE r == RemoveAt(clients, i)
  <2>2. /\ Len(r) = Len(clients) - 1
        /\ \A j \in 1 .. Len(clients) - 1 :
             r[j] = IF j < i THEN clients[j] ELSE clients[j + 1]
    BY <2>1, RemoveAtProperties
  <2>3. clients' = r
    BY <1>3
  <2> QED
    BY <2>1, <2>2, <2>3
<1>5. PICK u \in Holders : f[u] = i
  BY <1>1 DEF IsMatching
<1> DEFINE h == [x \in Holders' |-> IF x = u THEN f[w] ELSE f[x]]
           g == [x \in Holders' |-> IF h[x] < i THEN h[x] ELSE h[x] - 1]
<1>6. \A x \in Holders' : h[x] \in 1 .. Len(clients) /\ h[x] # i
  BY <1>1, <1>2, <1>5 DEF IsMatching
<1>7. \A x \in Holders' : clients[h[x]] = FdOf[x]
  BY <1>1, <1>2, <1>3, <1>5 DEF IsMatching
<1>8. \A x, y \in Holders' : h[x] = h[y] => x = y
  BY <1>1, <1>2, <1>5 DEF IsMatching
<1>9. \A j \in 1 .. Len(clients) : j # i => \E x \in Holders' : h[x] = j
  <2> SUFFICES ASSUME NEW j \in 1 .. Len(clients), j # i
               PROVE  \E x \in Holders' : h[x] = j
    OBVIOUS
  <2>1. PICK y \in Holders : f[y] = j
    BY <1>1 DEF IsMatching
  <2>2. CASE y = w
    BY <2>1, <2>2, <1>2, <1>5
  <2>3. CASE y # w
    BY <2>1, <2>3, <1>2, <1>5
  <2> QED
    BY <2>2, <2>3
<1> HIDE DEF h
<1>10. g \in [Holders' -> 1 .. Len(clients')]
  BY <1>4, <1>6
<1>11. \A x \in Holders' : clients'[g[x]] = FdOf[x]
  BY <1>4, <1>6, <1>7
<1>12. \A x, y \in Holders' : g[x] = g[y] => x = y
  BY <1>4, <1>6, <1>8
<1>13. \A j \in 1 .. Len(clients') : \E x \in Holders' : g[x] = j
  <2> SUFFICES ASSUME NEW j \in 1 .. Len(clients')
               PROVE  \E x \in Holders' : g[x] = j
    OBVIOUS
  <2>1. CASE j < i
    <3>0. j \in 1 .. Len(clients) /\ j # i
      BY <2>1, <1>4
    <3>1. PICK x \in Holders' : h[x] = j
      BY <3>0, <1>9
    <3> QED
      BY <3>1, <2>1
  <2>2. CASE ~ (j < i)
    <3>1. j + 1 \in 1 .. Len(clients) /\ j + 1 # i
      BY <2>2, <1>4
    <3>2. PICK x \in Holders' : h[x] = j + 1
      BY <3>1, <1>9
    <3>3. j \in Int /\ i \in Int /\ ~ (j + 1 < i) /\ (j + 1) - 1 = j
      BY <3>1, <2>2, <1>4
    <3>4. g[x] = j
      BY <3>2, <3>3
    <3> QED
      BY <3>4
  <2> QED
    BY <2>1, <2>2
<1> QED
  BY <1>10, <1>11, <1>12, <1>13 DEF EveryHolderHasAnEntry, IsMatching

(* The list always holds exactly one node for each worker that holds a     *)
(* registration, with that worker's descriptor: nobody else's registration *)
(* is lost and creg_unregister always finds a node.                        *)
THEOREM ListMatchesHolders == Safety => []EveryHolderHasAnEntry
<1>1. Init => EveryHolderHasAnEntry
  <2> SUFFICES ASSUME Init
               PROVE  EveryHolderHasAnEntry
    OBVIOUS
  <2>1. Holders = {} /\ clients = <<>>
    BY ThreadsAssumption DEF Init, creg_init, Holders
  <2> DEFINE f == [x \in {} |-> 1]
  <2>2. f \in [Holders -> 1 .. Len(clients)]
    BY <2>1
  <2>3. IsMatching(f)
    BY <2>1 DEF IsMatching
  <2> QED
    BY <2>2, <2>3 DEF EveryHolderHasAnEntry
<1>2. TypeOK /\ EveryHolderHasAnEntry /\ [Next]_vars
        => EveryHolderHasAnEntry'
  <2> SUFFICES ASSUME TypeOK, EveryHolderHasAnEntry, [Next]_vars
               PROVE  EveryHolderHasAnEntry'
    OBVIOUS
  <2>1. ASSUME UNCHANGED <<Holders, clients>>
        PROVE  EveryHolderHasAnEntry'
    BY <2>1 DEF EveryHolderHasAnEntry, IsMatching
  <2>2. ASSUME NEW w \in Workers, WorkerStep(w)
        PROVE  EveryHolderHasAnEntry'
    <3>1. CASE Register(w)
      BY <3>1, MatchingAfterRegister
    <3>2. CASE Unregister(w)
      BY <3>2, MatchingAfterUnregister
    <3>3. CASE LockToRegister(w) \/ RegisterRefused(w) \/ LockToUnregister(w)
      BY <3>3, <2>1, WorkerHolders
    <3> QED
      BY <2>2, <3>1, <3>2, <3>3 DEF WorkerStep
  <2>3. CASE \/ \E v \in Waiters : WaiterStep(v)
             \/ \E c \in Closers : CloserStep(c)
    BY <2>3, <2>1, OthersKeepHolders
  <2>4. CASE UNCHANGED vars
    BY <2>4, <2>1 DEF vars, Holders
  <2> QED
    BY <2>2, <2>3, <2>4 DEF Next, Terminated
<1> QED
  BY <1>1, <1>2, TypeCorrect, PTL DEF Safety

-----------------------------------------------------------------------------
(* No wakeup is lost: when the used registry is empty, a post is pending   *)
(* or some waiter has been released from its sem_wait or has returned.     *)
THEOREM WakeupsAreKept == Safety => []NoLostWakeup
<1> DEFINE Awake(v) == pc[v] \in {"woken", "checking", "returned"}
<1>1. Init => NoLostWakeup
  <2> SUFFICES ASSUME Init
               PROVE  ~ Posted
    BY DEF NoLostWakeup
  <2> QED
    BY ThreadsAssumption DEF Init, Posted
<1>2. TypeOK /\ NoLostWakeup /\ [Next]_vars => NoLostWakeup'
  <2> SUFFICES ASSUME TypeOK, NoLostWakeup, [Next]_vars,
                      clients' = <<>>, Posted', Waiters # {}
               PROVE  sem' > 0 \/ \E v \in Waiters : Awake(v)'
    BY DEF NoLostWakeup
  <2>0. sem \in Nat /\ pc \in [Threads -> WorkerPC \cup WaiterPC \cup CloserPC]
    BY DEF TypeOK, RegistryTypeOK
  <2> USE ThreadsAssumption DEF GoTo
  <2>1. ASSUME NEW w \in Workers, WorkerStep(w)
        PROVE  sem' > 0 \/ \E v \in Waiters : Awake(v)'
    <3>0. \A v \in Waiters : pc'[v] = pc[v]
      BY <2>0, <2>1 DEF WorkerStep, LockToRegister, Register, RegisterRefused,
         LockToUnregister, Unregister
    <3>1. CASE LockToRegister(w) \/ RegisterRefused(w) \/ LockToUnregister(w)
      <4>1. UNCHANGED <<clients, sem>>
        BY <3>1 DEF LockToRegister, RegisterRefused, LockToUnregister, Lock,
           creg_register_dup
      <4>2. Posted
        BY <2>0, <3>1 DEF Posted, LockToRegister, RegisterRefused,
           LockToUnregister
      <4> QED
        BY <3>0, <4>1, <4>2 DEF NoLostWakeup
    <3>2. CASE Register(w)
      BY <2>0, <3>2 DEF Register, creg_register
    <3>3. CASE Unregister(w)
      BY <2>0, <3>3 DEF Unregister, creg_unregister
    <3> QED
      BY <2>1, <3>1, <3>2, <3>3 DEF WorkerStep
  <2>2. ASSUME NEW v \in Waiters, WaiterStep(v)
        PROVE  sem' > 0 \/ \E u \in Waiters : Awake(u)'
    <3>1. CASE Wake(v)
      BY <2>0, <3>1 DEF Wake
    <3>2. CASE LockToCheck(v)
      BY <2>0, <3>2 DEF LockToCheck
    <3>3. CASE WaitReturns(v)
      BY <2>0, <3>3 DEF WaitReturns
    <3>4. CASE WaitAgain(v)
      BY <3>4 DEF WaitAgain, creg_wait_again
    <3> QED
      BY <2>2, <3>1, <3>2, <3>3, <3>4 DEF WaiterStep
  <2>3. ASSUME NEW c \in Closers, CloserStep(c)
        PROVE  sem' > 0 \/ \E v \in Waiters : Awake(v)'
    <3>1. CASE LockToClose(c)
      <4>1. UNCHANGED <<clients, sem>> /\ \A v \in Waiters : pc'[v] = pc[v]
        BY <2>0, <3>1 DEF LockToClose, Lock
      <4>2. Posted
        BY <2>0, <3>1 DEF Posted, LockToClose
      <4> QED
        BY <4>1, <4>2 DEF NoLostWakeup
    <3>2. CASE ShutdownAll(c)
      BY <2>0, <3>2 DEF ShutdownAll, creg_shutdown_all
    <3> QED
      BY <2>3, <3>1, <3>2 DEF CloserStep
  <2>4. CASE UNCHANGED vars
    BY <2>4 DEF vars, NoLostWakeup, Posted
  <2> QED
    BY <2>1, <2>2, <2>3, <2>4 DEF Next, Terminated
<1> QED
  BY <1>1, <1>2, TypeCorrect, PTL DEF Safety

-----------------------------------------------------------------------------
(* The registry with its list, mutex and semaphore implements EmptyWait:   *)
(* every step is a client joining, a client leaving, a waiter returning    *)
(* while no client is registered, or invisible.                            *)
THEOREM Refinement == Safety => KeepsPromise
<1> USE DEF Promise!absVars
<1>1. Init => Promise!Init
  BY ThreadsAssumption DEF Init, Promise!Init, Holders
<1>2. TypeOK /\ EveryHolderHasAnEntry /\ [Next]_vars
        => [Promise!Next]_Promise!absVars
  <2> SUFFICES ASSUME TypeOK, EveryHolderHasAnEntry, [Next]_vars
               PROVE  [Promise!Next]_Promise!absVars
    OBVIOUS
  <2> DEFINE gone == {v \in Waiters : pc[v] = "returned"}
  <2>0. pc \in [Threads -> WorkerPC \cup WaiterPC \cup CloserPC]
    BY DEF TypeOK
  <2> USE ThreadsAssumption
  <2>1. ASSUME NEW w \in Workers, WorkerStep(w)
        PROVE  [Promise!Next]_Promise!absVars
    <3>0. gone' = gone
      BY <2>0, <2>1 DEF WorkerStep, LockToRegister, Register, RegisterRefused,
         LockToUnregister, Unregister, GoTo
    <3>1. CASE Register(w)
      BY <3>0, <3>1, WorkerHolders DEF Promise!Next, Promise!Join
    <3>2. CASE Unregister(w)
      BY <3>0, <3>2, WorkerHolders DEF Promise!Next, Promise!Leave
    <3>3. CASE LockToRegister(w) \/ RegisterRefused(w) \/ LockToUnregister(w)
      BY <3>0, <3>3, WorkerHolders
    <3> QED
      BY <2>1, <3>1, <3>2, <3>3 DEF WorkerStep
  <2>2. ASSUME NEW v \in Waiters, WaiterStep(v)
        PROVE  [Promise!Next]_Promise!absVars
    <3>0. Holders' = Holders
      BY <2>2, OthersKeepHolders
    <3>1. CASE WaitReturns(v)
      <4>1. Holders = {}
        <5>1. PICK f \in [Holders -> 1 .. Len(clients)] : IsMatching(f)
          BY DEF EveryHolderHasAnEntry
        <5>2. Len(clients) = 0
          BY <3>1 DEF WaitReturns, creg_wait_for_empty
        <5> QED
          BY <5>1, <5>2
      <4>2. v \notin gone /\ gone' = gone \cup {v}
        BY <2>0, <3>1 DEF WaitReturns, GoTo
      <4> QED
        BY <3>0, <4>1, <4>2 DEF Promise!Next, Promise!Return
    <3>2. CASE Wake(v) \/ LockToCheck(v) \/ WaitAgain(v)
      <4>1. gone' = gone
        BY <2>0, <3>2 DEF Wake, LockToCheck, WaitAgain, GoTo
      <4> QED
        BY <3>0, <4>1
    <3> QED
      BY <2>2, <3>1, <3>2 DEF WaiterStep
  <2>3. ASSUME NEW c \in Closers, CloserStep(c)
        PROVE  [Promise!Next]_Promise!absVars
    <3>1. Holders' = Holders
      BY <2>3, OthersKeepHolders
    <3>2. gone' = gone
      BY <2>0, <2>3 DEF CloserStep, LockToClose, ShutdownAll, GoTo
    <3> QED
      BY <3>1, <3>2
  <2>4. CASE UNCHANGED vars
    BY <2>4 DEF vars, Holders
  <2> QED
    BY <2>1, <2>2, <2>3, <2>4 DEF Next, Terminated
<1> QED
  BY <1>1, <1>2, TypeCorrect, ListMatchesHolders, PTL
  DEF Safety, KeepsPromise, Promise!Spec

=============================================================================
