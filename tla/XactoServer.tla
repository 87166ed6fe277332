---------------------------- MODULE XactoServer ----------------------------
(***************************************************************************)
(* The server process of hw5: the main thread that accepts connections     *)
(* until SIGHUP and then terminates (main.c, server_ops.c), the SIGHUP     *)
(* handler, and one detached service thread per connection (server.c),     *)
(* around the client registry.  Connections are opened, used and dropped   *)
(* by their clients at any moment, and the descriptor numbers the kernel   *)
(* hands out are reused.                                                   *)
(*                                                                         *)
(* The store and the transaction manager are libraries: here a transaction *)
(* operation only succeeds or aborts.  A request is a PUT, a GET or a      *)
(* COMMIT; whether its key and value are longer than proto_recv_packet     *)
(* lets through is left open.                                              *)
(***************************************************************************)
EXTENDS ClientRegistry, FiniteSets

CONSTANTS Conns,    \* connections; the service thread of c is called c
          Main,     \* the main thread
          Handler,  \* the SIGHUP handler, which runs on the main thread
          NoConn,   \* owner of a descriptor that is not open
          NoFd,     \* descriptor of a connection not accepted yet
          MaxHup,   \* how many times SIGHUP is sent
          Requests  \* kinds of request the clients send

ASSUME ServerAssumption ==
  /\ Threads = Conns \cup {Main, Handler}
  /\ {Main, Handler} \cap Conns = {}
  /\ Main # Handler
  /\ NoConn \notin Conns
  /\ Fds \subseteq Nat
  /\ NoFd \notin Fds
  /\ MaxHup \in Nat
  /\ Requests \subseteq {"put", "get", "commit"}

VARIABLES
  main,     \* where the main thread is
  handler,  \* where the SIGHUP handler is
  sent,     \* number of SIGHUPs sent so far
  pending,  \* whether a SIGHUP is pending
  proc,     \* the process: running, or how it ended
  freed,    \* what creg_fini and store_fini have freed
  pc,       \* where each service thread is
  next,     \* what a service thread does once it has unregistered
  trans,    \* status of its transaction, as returned to the thread
  fdOf,     \* the descriptor a connection was accepted on
  owner,    \* the connection each open descriptor belongs to
  client,   \* what each client is doing
  request   \* the request a client has sent and got no reply to

mainVars == <<main, handler, sent, pending, proc, freed>>
threadVars == <<pc, next, trans>>
netVars == <<fdOf, owner, client, request>>
vars == <<cregVars, mainVars, threadVars, netVars>>

TypeOK ==
  /\ RegistryTypeOK
  /\ main \in {"calling", "accepting", "spawning", "accept_failed",
               "terminating", "closing_all", "wait_sem", "woken", "checking",
               "finalizing", "freeing", "emptied", "exiting"}
  /\ handler \in {"idle", "entered", "closing_all"}
  /\ sent \in 0 .. MaxHup
  /\ pending \in BOOLEAN
  /\ proc \in {"running", "exited", "failed", "sigpipe", "crashed"}
  /\ freed \subseteq {"registry", "store"}
  /\ pc \in [Conns -> {"none", "created", "registering", "begin", "recv",
                       "recv_data", "operate", "commit", "reply",
                       "unregister", "unregistering", "abort", "close",
                       "returned"}]
  /\ next \in [Conns -> {"abort", "close", "returned"}]
  /\ trans \in [Conns -> {"none", "pending", "committed", "aborted"}]
  /\ fdOf \in [Conns -> Fds \cup {NoFd}]
  /\ owner \in [Fds -> Conns \cup {NoConn}]
  /\ client \in [Conns -> {"away", "connected", "waiting", "gone"}]
  /\ request \in [Conns -> {"none", "put", "get", "commit"}]

(* main() when it first calls listen_for_connections: the registry is      *)
(* initialised and the handler installed.                                  *)
Init ==
  /\ creg_init
  /\ main = "calling"
  /\ handler = "idle"
  /\ sent = 0
  /\ pending = FALSE
  /\ proc = "running"
  /\ freed = {}
  /\ pc = [c \in Conns |-> "none"]
  /\ next = [c \in Conns |-> "returned"]
  /\ trans = [c \in Conns |-> "none"]
  /\ fdOf = [c \in Conns |-> NoFd]
  /\ owner = [f \in Fds |-> NoConn]
  /\ client = [c \in Conns |-> "away"]
  /\ request = [c \in Conns |-> "none"]

-----------------------------------------------------------------------------
(* The main thread: accept loop.                                           *)

(* The main thread makes a step of its own: the process is alive and the   *)
(* signal handler is not running on top of it.                             *)
MainStep(from, to) ==
  /\ proc = "running"
  /\ handler = "idle"
  /\ main = from
  /\ main' = to
  /\ UNCHANGED <<handler, sent, pending, proc>>

FreeFds == {f \in Fds : owner[f] = NoConn}

(* The lowest-numbered descriptor that is not open.                        *)
LowestFree(f) == f \in FreeFds /\ \A g \in FreeFds : f <= g

(* The main thread goes into accept(2).                                    *)
CallAccept ==
  /\ MainStep("calling", "accepting")
  /\ UNCHANGED <<cregVars, threadVars, netVars, freed>>

(* accept returns a descriptor for a connection from the backlog, whose    *)
(* client may already have gone.                                           *)
Accept(c) ==
  /\ MainStep("accepting", "spawning")
  /\ client[c] # "away" /\ fdOf[c] = NoFd
  /\ \E f \in Fds :
       /\ LowestFree(f)
       /\ fdOf' = [fdOf EXCEPT ![c] = f]
       /\ owner' = [owner EXCEPT ![f] = c]
       /\ shut' = shut \ {f}
  /\ UNCHANGED <<clients, total_clients, sem, mutex, threadVars, freed,
                 client, request>>

(* accept fails because every descriptor is in use.                        *)
AcceptFails ==
  /\ MainStep("accepting", "accept_failed")
  /\ FreeFds = {}
  /\ UNCHANGED <<cregVars, threadVars, netVars, freed>>

(* pthread_create for the connection just accepted; its result is ignored. *)
Spawn(c) ==
  /\ MainStep("spawning", "calling")
  /\ fdOf[c] # NoFd /\ pc[c] = "none"
  /\ pc' = [pc EXCEPT ![c] = "created"]
  /\ UNCHANGED <<cregVars, next, trans, netVars, freed>>

(* The loop is left and the listening socket closed.                       *)
LeaveLoop ==
  /\ MainStep("accept_failed", "terminating")
  /\ UNCHANGED <<cregVars, threadVars, netVars, freed>>

-----------------------------------------------------------------------------
(* The main thread: terminate().                                           *)

TerminateLock ==
  /\ MainStep("terminating", "closing_all")
  /\ Lock(Main)
  /\ UNCHANGED <<threadVars, netVars, freed>>

TerminateShutdown ==
  /\ MainStep("closing_all", "wait_sem")
  /\ creg_shutdown_all(Main)
  /\ UNCHANGED <<threadVars, netVars, freed>>

WaitSem ==
  /\ MainStep("wait_sem", "woken")
  /\ SemWait
  /\ UNCHANGED <<threadVars, netVars, freed>>

WaitLock ==
  /\ MainStep("woken", "checking")
  /\ Lock(Main)
  /\ UNCHANGED <<threadVars, netVars, freed>>

WaitDone ==
  /\ MainStep("checking", "finalizing")
  /\ creg_wait_for_empty(Main)
  /\ UNCHANGED <<threadVars, netVars, freed>>

WaitMore ==
  /\ MainStep("checking", "wait_sem")
  /\ creg_wait_again(Main)
  /\ UNCHANGED <<threadVars, netVars, freed>>

(* creg_fini: takes the mutex, looks at the list, and frees the registry   *)
(* only if the list is empty.                                              *)
FiniLock ==
  /\ MainStep("finalizing", "freeing")
  /\ Lock(Main)
  /\ UNCHANGED <<threadVars, netVars, freed>>

creg_fini ==
  /\ MainStep("freeing", "emptied")
  /\ Unlock(Main)
  /\ freed' = IF clients = <<>> THEN freed \cup {"registry"} ELSE freed
  /\ UNCHANGED <<clients, total_clients, sem, shut, threadVars, netVars>>

(* trans_fini, which does nothing, and store_fini.                         *)
StoreFini ==
  /\ MainStep("emptied", "exiting")
  /\ freed' = freed \cup {"store"}
  /\ UNCHANGED <<cregVars, threadVars, netVars>>

(* exit(status): every thread is gone.                                     *)
Exit ==
  /\ proc = "running" /\ handler = "idle" /\ main = "exiting"
  /\ proc' = "exited"
  /\ UNCHANGED <<cregVars, main, handler, sent, pending, freed, threadVars,
                 netVars>>

-----------------------------------------------------------------------------
(* SIGHUP.                                                                 *)

(* kill -HUP: a SIGHUP already pending absorbs another one.                *)
SendHup ==
  /\ proc = "running"
  /\ sent < MaxHup
  /\ sent' = sent + 1
  /\ pending' = TRUE
  /\ UNCHANGED <<cregVars, main, handler, proc, freed, threadVars, netVars>>

(* The handler starts on the main thread, SIGHUP being blocked while it    *)
(* runs.  The handler is installed without SA_RESTART: an accept or a      *)
(* sem_wait in which the main thread is blocked fails with EINTR, and the  *)
(* result of sem_wait is not looked at.                                    *)
DeliverHup ==
  /\ proc = "running"
  /\ handler = "idle" /\ pending
  /\ handler' = "entered"
  /\ pending' = FALSE
  /\ main' = CASE main = "accepting" -> "accept_failed"
               [] main = "wait_sem" /\ sem = 0 -> "woken"
               [] OTHER -> main
  /\ UNCHANGED <<cregVars, sent, proc, freed, threadVars, netVars>>

(* sighup_handler: creg_shutdown_all on the registry.                      *)
HandlerLock ==
  /\ proc = "running"
  /\ handler = "entered"
  /\ handler' = "closing_all"
  /\ Lock(Handler)
  /\ UNCHANGED <<main, sent, pending, proc, freed, threadVars, netVars>>

HandlerShutdown ==
  /\ proc = "running"
  /\ handler = "closing_all"
  /\ handler' = "idle"
  /\ creg_shutdown_all(Handler)
  /\ UNCHANGED <<main, sent, pending, proc, freed, threadVars, netVars>>

-----------------------------------------------------------------------------
(* xacto_client_service: the service thread of connection c.               *)

Goes(c, from, to) ==
  /\ proc = "running"
  /\ pc[c] = from
  /\ pc' = [pc EXCEPT ![c] = to]
  /\ UNCHANGED mainVars

(* The thread is done with its client: it will unregister and then abort   *)
(* its transaction, close its descriptor, or just return.                  *)
Leaves(c, from, how) ==
  /\ Goes(c, from, "unregister")
  /\ next' = [next EXCEPT ![c] = how]

RegisterLock(c) ==
  /\ Goes(c, "created", "registering")
  /\ Lock(c)
  /\ UNCHANGED <<next, trans, netVars>>

Register(c) ==
  /\ Goes(c, "registering", "begin")
  /\ creg_register(c, fdOf[c])
  /\ UNCHANGED <<next, trans, netVars>>

(* The thread returns and leaves the descriptor open.                      *)
RegisterRefused(c) ==
  /\ Goes(c, "registering", "returned")
  /\ creg_register_dup(c, fdOf[c])
  /\ UNCHANGED <<next, trans, netVars>>

(* trans_create.                                                           *)
TransCreate(c) ==
  /\ Goes(c, "begin", "recv")
  /\ trans' = [trans EXCEPT ![c] = "pending"]
  /\ UNCHANGED <<cregVars, next, netVars>>

(* trans_create has no memory: unregister and return.                      *)
TransCreateFails(c) ==
  /\ Leaves(c, "begin", "returned")
  /\ UNCHANGED <<cregVars, trans, netVars>>

(* proto_recv_packet returns the header of a PUT or GET; its data packets  *)
(* follow.                                                                 *)
RecvRequest(c) ==
  /\ Goes(c, "recv", "recv_data")
  /\ request[c] \in {"put", "get"}
  /\ UNCHANGED <<cregVars, next, trans, netVars>>

RecvCommit(c) ==
  /\ Goes(c, "recv", "commit")
  /\ request[c] = "commit"
  /\ UNCHANGED <<cregVars, next, trans, netVars>>

(* The key, and for a PUT the value, arrive and are made into blobs.       *)
RecvData(c) ==
  /\ Goes(c, "recv_data", "operate")
  /\ UNCHANGED <<cregVars, next, trans, netVars>>

(* The size in the header of a data packet is more than                    *)
(* sizeof(XACTO_PACKET), 20 bytes: proto_recv_packet returns -1 as for a   *)
(* timeout, and the descriptor stays open.                                 *)
RecvTooLong(c) ==
  /\ Leaves(c, "recv_data", "abort")
  /\ UNCHANGED <<cregVars, trans, netVars>>

(* Mutant: the descriptor is closed again on the way out.                  *)
RecvEOFThenClose(c) ==
  /\ \E from \in {"recv", "recv_data"} : Leaves(c, from, "close")
  /\ client[c] = "gone" \/ fdOf[c] \in shut
  /\ owner' = [owner EXCEPT ![fdOf[c]] = NoConn]
  /\ UNCHANGED <<cregVars, trans, fdOf, client, request>>

(* read() returns 0, because the client has closed its end or the server   *)
(* has shut the socket down: proto_recv_packet closes the descriptor and   *)
(* returns -1.                                                             *)
RecvEOF(c) ==
  /\ \E from \in {"recv", "recv_data"} : Leaves(c, from, "abort")
  /\ client[c] = "gone" \/ fdOf[c] \in shut
  /\ owner' = [owner EXCEPT ![fdOf[c]] = NoConn]
  /\ UNCHANGED <<cregVars, trans, fdOf, client, request>>

(* read() fails, because the client has reset the connection:              *)
(* proto_recv_packet returns -1 and the descriptor stays open.             *)
RecvReset(c) ==
  /\ \E from \in {"recv", "recv_data"} : Leaves(c, from, "abort")
  /\ client[c] = "gone"
  /\ UNCHANGED <<cregVars, trans, netVars>>

(* store_put or store_get succeeds.                                        *)
OperateOk(c) ==
  /\ Goes(c, "operate", "reply")
  /\ UNCHANGED <<cregVars, next, trans, netVars>>

(* store_put or store_get aborts the transaction: the thread unregisters   *)
(* and returns, without a reply and without closing the descriptor.        *)
OperateAborts(c) ==
  /\ Leaves(c, "operate", "returned")
  /\ trans' = [trans EXCEPT ![c] = "aborted"]
  /\ UNCHANGED <<cregVars, netVars>>

(* store_get refuses the access: it leaves NULL in value2, and             *)
(* blob_unref(value2) dereferences it.                                     *)
GetAbortsOnNull(c) ==
  /\ proc = "running"
  /\ pc[c] = "operate" /\ request[c] = "get"
  /\ trans' = [trans EXCEPT ![c] = "aborted"]
  /\ proc' = "crashed"
  /\ UNCHANGED <<cregVars, main, handler, sent, pending, freed, pc, next,
                 netVars>>

(* trans_commit returns TRANS_COMMITTED, or TRANS_ABORTED.                 *)
CommitOk(c) ==
  /\ Goes(c, "commit", "reply")
  /\ trans' = [trans EXCEPT ![c] = "committed"]
  /\ UNCHANGED <<cregVars, next, netVars>>

(* Mutant: a commit that aborted is followed by trans_abort.               *)
CommitAbortsTwice(c) ==
  /\ Leaves(c, "commit", "abort")
  /\ trans' = [trans EXCEPT ![c] = "aborted"]
  /\ UNCHANGED <<cregVars, netVars>>

CommitAborts(c) ==
  /\ Leaves(c, "commit", "returned")
  /\ trans' = [trans EXCEPT ![c] = "aborted"]
  /\ UNCHANGED <<cregVars, netVars>>

(* After the reply the thread waits for the next request, or after a       *)
(* COMMIT it unregisters and closes the connection.                        *)
AfterReply(c) ==
  IF trans[c] = "committed"
    THEN Leaves(c, "reply", "close")
    ELSE Goes(c, "reply", "recv") /\ UNCHANGED next

(* The reply reaches the client, or is lost because the client has gone.   *)
SendReply(c) ==
  /\ AfterReply(c)
  /\ fdOf[c] \notin shut
  /\ request' = [request EXCEPT ![c] = "none"]
  /\ client' = [client EXCEPT ![c] = IF @ = "waiting" THEN "connected" ELSE @]
  /\ UNCHANGED <<cregVars, trans, fdOf, owner>>

(* A write to a connection that the client has reset, or that the server   *)
(* has itself shut down, raises SIGPIPE, which is neither ignored nor      *)
(* handled: the process is killed.                                         *)
ReplyRaisesSigpipe(c) ==
  /\ proc = "running"
  /\ pc[c] = "reply"
  /\ client[c] = "gone" \/ fdOf[c] \in shut
  /\ proc' = "sigpipe"
  /\ UNCHANGED <<cregVars, main, handler, sent, pending, freed, threadVars,
                 netVars>>

UnregisterLock(c) ==
  /\ Goes(c, "unregister", "unregistering")
  /\ Lock(c)
  /\ UNCHANGED <<next, trans, netVars>>

Unregister(c) ==
  /\ Goes(c, "unregistering", next[c])
  /\ creg_unregister(c, fdOf[c])
  /\ next' = [next EXCEPT ![c] = "returned"]
  /\ UNCHANGED <<trans, netVars>>

(* trans_abort, the last thing the thread does on an error.                *)
TransAbort(c) ==
  /\ Goes(c, "abort", "returned")
  /\ trans' = [trans EXCEPT ![c] = "aborted"]
  /\ UNCHANGED <<cregVars, next, netVars>>

(* Close(fd) after a commit; Close ends the process if close fails, which  *)
(* it does when the descriptor is not open.                                *)
CloseAfterCommit(c) ==
  /\ Goes(c, "close", "returned")
  /\ owner' = [owner EXCEPT ![fdOf[c]] = NoConn]
  /\ UNCHANGED <<cregVars, next, trans, fdOf, client, request>>

(* A thread, or the handler, that calls the registry after creg_fini has   *)
(* freed it may crash (it may also find the memory as it was).             *)
TouchFreedRegistry ==
  /\ proc = "running"
  /\ "registry" \in freed
  /\ \/ \E c \in Conns : pc[c] \in {"created", "unregister"}
     \/ handler = "entered"
  /\ proc' = "crashed"
  /\ UNCHANGED <<cregVars, main, handler, sent, pending, freed, threadVars,
                 netVars>>

-----------------------------------------------------------------------------
(* Clients (util/client is a binary; a client may stop at any moment).     *)

ClientStep(c, from, to) ==
  /\ proc = "running"
  /\ client[c] \in from
  /\ client' = [client EXCEPT ![c] = to]
  /\ UNCHANGED <<cregVars, mainVars, threadVars, fdOf, owner>>

(* The listening socket takes connections until LeaveLoop closes it.       *)
Listening == main \in {"calling", "accepting", "spawning", "accept_failed"}

Connect(c) ==
  /\ ClientStep(c, {"away"}, "connected")
  /\ Listening
  /\ UNCHANGED request

(* One request is outstanding at a time.                                   *)
Send(c, kind) ==
  /\ ClientStep(c, {"connected"}, "waiting")
  /\ request' = [request EXCEPT ![c] = kind]

Hangup(c) ==
  /\ ClientStep(c, {"connected", "waiting"}, "gone")
  /\ UNCHANGED request

-----------------------------------------------------------------------------
MainThread ==
  \/ CallAccept
  \/ \E c \in Conns : Accept(c)
  \/ AcceptFails
  \/ \E c \in Conns : Spawn(c)
  \/ LeaveLoop
  \/ TerminateLock
  \/ TerminateShutdown
  \/ WaitSem
  \/ WaitLock
  \/ WaitDone
  \/ WaitMore
  \/ FiniLock
  \/ creg_fini
  \/ StoreFini
  \/ Exit

SignalHandler == HandlerLock \/ HandlerShutdown

ServiceThread(c) ==
  \/ RegisterLock(c)
  \/ Register(c)
  \/ RegisterRefused(c)
  \/ TransCreate(c)
  \/ TransCreateFails(c)
  \/ RecvRequest(c)
  \/ RecvCommit(c)
  \/ RecvData(c)
  \/ RecvTooLong(c)
  \/ RecvEOF(c)
  \/ RecvReset(c)
  \/ OperateOk(c)
  \/ OperateAborts(c)
  \/ GetAbortsOnNull(c)
  \/ CommitOk(c)
  \/ CommitAborts(c)
  \/ SendReply(c)
  \/ ReplyRaisesSigpipe(c)
  \/ UnregisterLock(c)
  \/ Unregister(c)
  \/ TransAbort(c)
  \/ CloseAfterCommit(c)

Client(c) ==
  \/ Connect(c)
  \/ \E kind \in Requests : Send(c, kind)
  \/ Hangup(c)

Next ==
  \/ MainThread
  \/ SignalHandler
  \/ SendHup
  \/ DeliverHup
  \/ TouchFreedRegistry
  \/ \E c \in Conns : ServiceThread(c)
  \/ \E c \in Conns : Client(c)

Safety == Init /\ [][Next]_vars

(* The scheduler runs every thread that can run and a signal that is       *)
(* pending is delivered.  Nothing obliges a client to do anything.  A      *)
(* commit waits for the transactions of other service threads, and so for  *)
(* their clients, which fairness of ServiceThread leaves out: the runs of  *)
(* liveness properties send no requests.                                   *)
ServerFairness ==
  /\ WF_vars(MainThread)
  /\ WF_vars(SignalHandler)
  /\ WF_vars(DeliverHup)
  /\ \A c \in Conns : WF_vars(ServiceThread(c))

FairSpec == Safety /\ ServerFairness

(* ... and clients that hang up sooner or later.                           *)
HangupSpec == FairSpec /\ \A c \in Conns : WF_vars(Hangup(c))

-----------------------------------------------------------------------------
(* Service threads between the return of creg_register and the work of     *)
(* creg_unregister.                                                        *)
Registered == {c \in Conns : pc[c] \in {"begin", "recv", "recv_data",
                 "operate", "commit", "reply", "unregister", "unregistering"}}

(* The registry counts, for every descriptor number, exactly the service   *)
(* threads that have registered it and not unregistered it, although a     *)
(* thread closes its descriptor before it unregisters (protocol.c:100),    *)
(* accept hands the number out again, and a second thread registers it.    *)
ListMatchesThreads ==
  \A f \in Fds : Cardinality(PositionsOf(f)) =
                 Cardinality({c \in Registered : fdOf[c] = f})

(* A service thread that may still read, write or close its descriptor     *)
(* number owns the connection behind it: however numbers are reused, a     *)
(* reply never goes to another client's connection, no thread closes       *)
(* another thread's connection, and Close never ends the process by        *)
(* closing what is not open.                                               *)
UsesOwnConnection ==
  \A c \in Conns :
    \/ pc[c] \in {"recv", "recv_data", "operate", "commit", "reply", "close"}
    \/ pc[c] \in {"unregister", "unregistering"} /\ next[c] = "close"
    => owner[fdOf[c]] = c

(* trans_abort, which ends the program when its transaction has committed  *)
(* and which consumes the thread's reference, is only on the way for a     *)
(* transaction whose end the thread has not been told.                     *)
NoAbortAfterEnd ==
  \A c \in Conns :
    \/ pc[c] = "abort"
    \/ pc[c] \in {"unregister", "unregistering"} /\ next[c] = "abort"
    => trans[c] = "pending"

(* The mutex of the registry is held exactly by the thread, or the         *)
(* handler, that is in a critical section.                                 *)
RegistryExclusion ==
  mutex # NoThread <=>
    \/ main \in {"closing_all", "checking", "freeing"}
    \/ handler = "closing_all"
    \/ \E c \in Conns : pc[c] \in {"registering", "unregistering"}

(* The promise of the registry holds in the server: terminate() gets past  *)
(* creg_wait_for_empty only while no service thread is registered, also    *)
(* when a signal ends its sem_wait and when descriptors are reused.        *)
Promise ==
  INSTANCE EmptyWait WITH
    Members <- Conns, Waiters <- {Main}, members <- Registered,
    returned <- IF main \in {"finalizing", "freeing", "emptied", "exiting"}
                THEN {Main} ELSE {}

WaitKeepsPromise == Promise!Spec

(* Once terminate() is called, the process ends, provided the clients that *)
(* are still connected hang up some day: the wait for the registry to      *)
(* become empty is never left asleep and no thread keeps its registration. *)
TerminateCompletes == main = "terminating" ~> proc # "running"

(* The service thread of a client that has gone ends, and with it the      *)
(* registration.                                                           *)
GoneClientsAreDropped ==
  \A c \in Conns :
    client[c] = "gone" /\ pc[c] # "none"
      ~> pc[c] = "returned" \/ proc # "running"

-----------------------------------------------------------------------------
(* What documentation, tests and comments say of the server.               *)

(* The process ends after SIGHUP (tests/xacto_tests.c:61: "Server did not  *)
(* terminate after SIGHUP"), also when no client hangs up.                 *)
SighupEndsServer == sent > 0 ~> proc # "running"
=============================================================================
