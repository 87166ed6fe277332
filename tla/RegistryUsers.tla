---------------------------- MODULE RegistryUsers ----------------------------
(***************************************************************************)
(* Threads that use one client registry concurrently, the way              *)
(* test_client_registry and create_client (src/hw5/src/server_ops.c) and   *)
(* the server do: workers register a descriptor, serve it for a while and  *)
(* unregister it; waiters call creg_wait_for_empty; closers call           *)
(* creg_shutdown_all.  Every thread makes its calls once.                  *)
(***************************************************************************)
EXTENDS ClientRegistry, FiniteSets

CONSTANTS Workers,  \* threads that register and unregister a client
          Waiters,  \* threads that call creg_wait_for_empty
          Closers,  \* threads that call creg_shutdown_all
          FdOf      \* the descriptor each worker serves

ASSUME ThreadsAssumption ==
  /\ Threads = Workers \cup Waiters \cup Closers
  /\ Workers \cap Waiters = {}
  /\ Workers \cap Closers = {}
  /\ Waiters \cap Closers = {}

ASSUME FdOfAssumption == FdOf \in [Workers -> Fds]

VARIABLE pc  \* what each thread does next

vars == <<clients, total_clients, sem, mutex, shut, pc>>

WorkerPC == {"start", "registering", "serving", "unregistering", "refused",
             "done"}
WaiterPC == {"sem_wait", "woken", "checking", "returned"}
CloserPC == {"start", "closing", "done"}

TypeOK ==
  /\ RegistryTypeOK
  /\ pc \in [Threads -> WorkerPC \cup WaiterPC \cup CloserPC]
  /\ \A w \in Workers : pc[w] \in WorkerPC
  /\ \A v \in Waiters : pc[v] \in WaiterPC
  /\ \A c \in Closers : pc[c] \in CloserPC

Init ==
  /\ creg_init
  /\ pc = [t \in Threads |-> IF t \in Waiters THEN "sem_wait" ELSE "start"]

-----------------------------------------------------------------------------
GoTo(t, from, to) ==
  /\ pc[t] = from
  /\ pc' = [pc EXCEPT ![t] = to]

(* A worker enters creg_register, which ends one of two ways.              *)
LockToRegister(w) == GoTo(w, "start", "registering") /\ Lock(w)
Register(w) == GoTo(w, "registering", "serving") /\ creg_register(w, FdOf[w])
RegisterRefused(w) ==
  GoTo(w, "registering", "refused") /\ creg_register_dup(w, FdOf[w])

(* A worker that has served its client enters creg_unregister.             *)
LockToUnregister(w) == GoTo(w, "serving", "unregistering") /\ Lock(w)
Unregister(w) ==
  GoTo(w, "unregistering", "done") /\ creg_unregister(w, FdOf[w])

(* A waiter's loop: sem_wait, lock, look at the list, return or go again.  *)
Wake(v) == GoTo(v, "sem_wait", "woken") /\ SemWait
LockToCheck(v) == GoTo(v, "woken", "checking") /\ Lock(v)
WaitReturns(v) == GoTo(v, "checking", "returned") /\ creg_wait_for_empty(v)
WaitAgain(v) == GoTo(v, "checking", "sem_wait") /\ creg_wait_again(v)

(* A closer's single call.                                                 *)
LockToClose(c) == GoTo(c, "start", "closing") /\ Lock(c)
ShutdownAll(c) == GoTo(c, "closing", "done") /\ creg_shutdown_all(c)

WorkerStep(w) ==
  \/ LockToRegister(w)
  \/ Register(w)
  \/ RegisterRefused(w)
  \/ LockToUnregister(w)
  \/ Unregister(w)

WaiterStep(v) ==
  \/ Wake(v)
  \/ LockToCheck(v)
  \/ WaitReturns(v)
  \/ WaitAgain(v)

CloserStep(c) ==
  \/ LockToClose(c)
  \/ ShutdownAll(c)

(* Every thread has made its calls.                                        *)
AllDone ==
  /\ \A w \in Workers : pc[w] \in {"refused", "done"}
  /\ \A v \in Waiters : pc[v] = "returned"
  /\ \A c \in Closers : pc[c] = "done"

Terminated == AllDone /\ UNCHANGED vars

Next ==
  \/ \E w \in Workers : WorkerStep(w)
  \/ \E v \in Waiters : WaiterStep(v)
  \/ \E c \in Closers : CloserStep(c)
  \/ Terminated

(* Threads run until their calls have returned: the scheduler runs every   *)
(* thread that can run, a client's service (sleep(1) in create_client)     *)
(* ends, and a mutex that is free again and again is obtained, because     *)
(* only finitely many critical sections are left to execute.               *)
Fairness ==
  /\ \A w \in Workers : WF_vars(WorkerStep(w))
  /\ \A v \in Waiters : WF_vars(WaiterStep(v))
  /\ \A c \in Closers : WF_vars(CloserStep(c))

Safety == Init /\ [][Next]_vars
Spec == Safety /\ Fairness

-----------------------------------------------------------------------------
(* The workers whose client is registered: their call of creg_register has *)
(* returned 0 and their call of creg_unregister has not done its work.     *)
Holders == {w \in Workers : pc[w] \in {"serving", "unregistering"}}

InCriticalSection(t) ==
  pc[t] \in {"registering", "unregistering", "checking", "closing"}

(* Mutual exclusion: a thread is inside a critical section of              *)
(* client_registry.c exactly when it holds the mutex, so no operation runs *)
(* while another is walking or relinking the list.                         *)
MutualExclusion == \A t \in Threads : InCriticalSection(t) <=> mutex = t

(* f says which node of the list stands for which holder.                  *)
IsMatching(f) ==
  /\ \A w \in Holders : clients[f[w]] = FdOf[w]
  /\ \A w, u \in Holders : f[w] = f[u] => w = u
  /\ \A i \in 1 .. Len(clients) : \E w \in Holders : f[w] = i

(* The nodes of the list and the workers that hold a registration match    *)
(* one to one, each node with the descriptor of its holder: whatever the   *)
(* interleaving, and also when two workers serve the same descriptor       *)
(* number, creg_unregister of one never removes the registration of        *)
(* another for good and never fails to find a node.                        *)
EveryHolderHasAnEntry ==
  \E f \in [Holders -> 1 .. Len(clients)] : IsMatching(f)

(* Some call has posted the semaphore since creg_init.                     *)
Posted ==
  \/ \E w \in Workers : pc[w] \in {"serving", "unregistering", "done"}
  \/ \E c \in Closers : pc[c] = "done"

(* No lost wakeup: the registry is never empty, after having been used,    *)
(* with all waiters asleep in sem_wait, no post pending and nobody         *)
(* released yet: a post made before the sem_wait is not lost, and a waiter *)
(* that found clients and went back to sleep is woken by the unregister    *)
(* that empties the list.                                                  *)
NoLostWakeup ==
  clients = <<>> /\ Posted /\ Waiters # {} =>
    \/ sem > 0
    \/ \E v \in Waiters : pc[v] \in {"woken", "checking", "returned"}

-----------------------------------------------------------------------------
(* What the registry promises, without list, mutex and semaphore.          *)
Promise ==
  INSTANCE EmptyWait WITH Members <- Workers,
                          members <- Holders,
                          returned <- {v \in Waiters : pc[v] = "returned"}

(* The registry keeps that promise: clients come and go one at a time, and *)
(* creg_wait_for_empty returns only while no client is registered.         *)
KeepsPromise == Promise!Spec

(* ... and a waiter that finds the registry empty for good does return     *)
(* (client_registry.h: "A thread calling this function will block in the   *)
(* call until the number of registered clients has reached zero, at which  *)
(* point the function will return").                                       *)
KeepsPromiseLive == Promise!FairSpec
=============================================================================
