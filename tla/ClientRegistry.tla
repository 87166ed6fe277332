--------------------------- MODULE ClientRegistry ---------------------------
(***************************************************************************)
(* The client registry of hw5 (src/hw5/src/client_registry.c): a linked    *)
(* list of client file descriptors protected by a mutex, a counter, and a  *)
(* semaphore on which creg_wait_for_empty blocks.                          *)
(*                                                                         *)
(* Every operation takes the mutex, works on the list and releases the     *)
(* mutex.  It is modelled as two steps of the calling thread t: Lock(t),   *)
(* then one action for what the critical section does, which includes the  *)
(* release.  The module describes the object only; the modules that extend *)
(* it say which threads call it and in which order.                        *)
(***************************************************************************)
EXTENDS Integers, SequencesExt

CONSTANTS Fds,      \* file descriptors
          Threads,  \* threads (and signal handlers) that call the registry
          NoThread  \* value of mutex when nobody holds it

ASSUME NoThreadAssumption == NoThread \notin Threads

VARIABLES clients,        \* the list from cr->head: a sequence of descriptors
          total_clients,  \* cr->total_clients
          sem,            \* value of cr->sem
          mutex,          \* holder of cr->mutex, or NoThread
          shut            \* sockets on which shutdown(2) has been called

cregVars == <<clients, total_clients, sem, mutex, shut>>

RegistryTypeOK ==
  /\ clients \in Seq(Fds)
  /\ total_clients \in Int
  /\ sem \in Nat
  /\ mutex \in Threads \cup {NoThread}
  /\ shut \subseteq Fds

creg_init ==
  /\ clients = <<>>
  /\ total_clients = 0
  /\ sem = 0
  /\ mutex = NoThread
  /\ shut = {}

-----------------------------------------------------------------------------
(* pthread_mutex_lock(&cr->mutex): enabled when the mutex is free.         *)
Lock(t) ==
  /\ mutex = NoThread
  /\ mutex' = t
  /\ UNCHANGED <<clients, total_clients, sem, shut>>

(* pthread_mutex_unlock, the last thing every critical section does.       *)
Unlock(t) ==
  /\ mutex = t
  /\ mutex' = NoThread

(* The scan of creg_register stops at the node whose next is NULL without  *)
(* looking at its descriptor.                                              *)
AlreadyRegistered(fd) ==
  \E i \in 1 .. Len(clients) - 1 : clients[i] = fd

(* Positions of the list that hold fd.                                     *)
PositionsOf(fd) == {i \in 1 .. Len(clients) : clients[i] = fd}

(* Mutant: creg_register returns without unlocking the mutex.              *)
RegisterKeepsMutex(t, fd) ==
  /\ mutex = t
  /\ ~ AlreadyRegistered(fd)
  /\ clients' = Append(clients, fd)
  /\ total_clients' = total_clients + 1
  /\ sem' = sem + 1
  /\ UNCHANGED <<mutex, shut>>

(* creg_register, no duplicate seen: append, count, post; returns 0.       *)
creg_register(t, fd) ==
  /\ Unlock(t)
  /\ ~ AlreadyRegistered(fd)
  /\ clients' = Append(clients, fd)
  /\ total_clients' = total_clients + 1
  /\ sem' = sem + 1
  /\ UNCHANGED shut

(* creg_register, duplicate seen: the registry is left alone; returns -1.  *)
creg_register_dup(t, fd) ==
  /\ Unlock(t)
  /\ AlreadyRegistered(fd)
  /\ UNCHANGED <<clients, total_clients, sem, shut>>

(* Mutant: creg_unregister forgets sem_post.                               *)
UnregisterWithoutPost(t, fd) ==
  /\ Unlock(t)
  /\ \E i \in PositionsOf(fd) :
       /\ \A j \in PositionsOf(fd) : i <= j
       /\ clients' = RemoveAt(clients, i)
  /\ total_clients' = total_clients - 1
  /\ UNCHANGED <<sem, shut>>

(* Mutant: creg_unregister unlinks every node that holds fd.               *)
UnregisterAll(t, fd) ==
  /\ Unlock(t)
  /\ clients' = SelectSeq(clients, LAMBDA x : x # fd)
  /\ total_clients' = total_clients - 1
  /\ sem' = sem + 1
  /\ UNCHANGED shut

(* creg_unregister: the first node that holds fd is unlinked; returns 0.   *)
(* (Its callers never meet the branch that finds no node: the invariant     *)
(* EveryHolderHasAnEntry of RegistryUsers.)                                *)
creg_unregister(t, fd) ==
  /\ Unlock(t)
  /\ \E i \in PositionsOf(fd) :
       /\ \A j \in PositionsOf(fd) : i <= j
       /\ clients' = RemoveAt(clients, i)
  /\ total_clients' = total_clients - 1
  /\ sem' = sem + 1
  /\ UNCHANGED shut

(* creg_wait_for_empty, sem_wait before the mutex is taken.                *)
SemWait ==
  /\ sem > 0
  /\ sem' = sem - 1
  /\ UNCHANGED <<clients, total_clients, mutex, shut>>

(* Mutant: creg_wait_for_empty looks at the counter and not at the list.   *)
WaitForCountZero(t) ==
  /\ Unlock(t)
  /\ total_clients <= 0
  /\ UNCHANGED <<clients, total_clients, sem, shut>>

(* creg_wait_for_empty, the list is empty: the call returns.               *)
creg_wait_for_empty(t) ==
  /\ Unlock(t)
  /\ clients = <<>>
  /\ UNCHANGED <<clients, total_clients, sem, shut>>

(* creg_wait_for_empty, clients remain: back to sem_wait.                  *)
creg_wait_again(t) ==
  /\ Unlock(t)
  /\ clients # <<>>
  /\ UNCHANGED <<clients, total_clients, sem, shut>>

(* creg_shutdown_all: every registered socket is shut down and the counter *)
(* decremented for it, then one post.  The list keeps its nodes.           *)
creg_shutdown_all(t) ==
  /\ Unlock(t)
  /\ shut' = shut \cup ToSet(clients)
  /\ total_clients' = total_clients - Len(clients)
  /\ sem' = sem + 1
  /\ UNCHANGED clients
=============================================================================
