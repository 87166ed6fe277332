---------------------------- MODULE ServerProofs ----------------------------
(***************************************************************************)
(* Proofs about XactoServer, for any number of connections, descriptors    *)
(* and signals.                                                            *)
(***************************************************************************)
EXTENDS XactoServer, RegistryLemmas

(* A service thread exists only for a connection that was accepted.        *)
StartedHasFd == \A c \in Conns : pc[c] # "none" => fdOf[c] # NoFd

TypeInv == TypeOK /\ StartedHasFd

-----------------------------------------------------------------------------
LEMMA TypeInit == Init => TypeInv
<1> SUFFICES ASSUME Init
             PROVE  TypeInv
  OBVIOUS
<1>1. RegistryTypeOK
  BY EmptySeq DEF Init, creg_init, RegistryTypeOK
<1>2. StartedHasFd
  BY DEF Init, StartedHasFd
<1>3. TypeOK
  <2>1. sent \in 0 .. MaxHup
    BY ServerAssumption DEF Init
  <2>3. pending \in BOOLEAN
    BY DEF Init
  <2>2. /\ fdOf \in [Conns -> Fds \cup {NoFd}]
        /\ owner \in [Fds -> Conns \cup {NoConn}]
    BY DEF Init
  <2> QED
    BY <1>1, <2>1, <2>2, <2>3 DEF Init, TypeOK
<1> QED
  BY <1>2, <1>3 DEF TypeInv

(* The main thread.                                                        *)
LEMMA TypeMain == TypeInv /\ MainThread => TypeInv'
<1> SUFFICES ASSUME TypeInv, MainThread
             PROVE  TypeInv'
  OBVIOUS
<1> USE DEF TypeInv, TypeOK, StartedHasFd, MainStep, threadVars, netVars
<1>0. Main \in Threads /\ RegistryTypeOK
  BY ServerAssumption
<1>1. CASE CallAccept
  BY <1>1 DEF CallAccept, cregVars, RegistryTypeOK
<1>2. CASE AcceptFails
  BY <1>2 DEF AcceptFails, cregVars, RegistryTypeOK
<1>3. CASE LeaveLoop
  BY <1>3 DEF LeaveLoop, cregVars, RegistryTypeOK
<1>4. CASE StoreFini
  BY <1>4 DEF StoreFini, cregVars, RegistryTypeOK
<1>5. CASE Exit
  BY <1>5 DEF Exit, cregVars, RegistryTypeOK
<1>6. CASE TerminateLock
  <2>1. RegistryTypeOK'
    BY <1>0, <1>6, OperationsKeepTypes DEF TerminateLock
  <2> QED
    BY <1>6, <2>1 DEF TerminateLock
<1>7. CASE TerminateShutdown
  <2>1. RegistryTypeOK'
    BY <1>0, <1>7, OperationsKeepTypes DEF TerminateShutdown
  <2> QED
    BY <1>7, <2>1 DEF TerminateShutdown
<1>8. CASE WaitSem
  <2>1. RegistryTypeOK'
    BY <1>0, <1>8, OperationsKeepTypes DEF WaitSem
  <2> QED
    BY <1>8, <2>1 DEF WaitSem
<1>9. CASE WaitLock
  <2>1. RegistryTypeOK'
    BY <1>0, <1>9, OperationsKeepTypes DEF WaitLock
  <2> QED
    BY <1>9, <2>1 DEF WaitLock
<1>10. CASE WaitDone
  <2>1. RegistryTypeOK'
    BY <1>0, <1>10, OperationsKeepTypes DEF WaitDone
  <2> QED
    BY <1>10, <2>1 DEF WaitDone
<1>11. CASE WaitMore
  <2>1. RegistryTypeOK'
    BY <1>0, <1>11, OperationsKeepTypes DEF WaitMore
  <2> QED
    BY <1>11, <2>1 DEF WaitMore
<1>12. CASE FiniLock
  <2>1. RegistryTypeOK'
    BY <1>0, <1>12, OperationsKeepTypes DEF FiniLock
  <2> QED
    BY <1>12, <2>1 DEF FiniLock
<1>13. CASE creg_fini
  BY <1>13 DEF creg_fini, Unlock, RegistryTypeOK
<1>14. ASSUME NEW c \in Conns, Accept(c)
       PROVE  TypeInv'
  BY <1>14 DEF Accept, RegistryTypeOK, LowestFree, FreeFds
<1>15. ASSUME NEW c \in Conns, Spawn(c)
       PROVE  TypeInv'
  BY <1>15 DEF Spawn, cregVars, RegistryTypeOK
<1> QED
  BY <1>1, <1>2, <1>3, <1>4, <1>5, <1>6, <1>7, <1>8, <1>9, <1>10, <1>11,
     <1>12, <1>13, <1>14, <1>15 DEF MainThread

(* SIGHUP and its handler.                                                 *)
LEMMA TypeSignals ==
  TypeInv /\ (SignalHandler \/ SendHup \/ DeliverHup \/ TouchFreedRegistry)
    => TypeInv'
<1> SUFFICES ASSUME TypeInv,
                    SignalHandler \/ SendHup \/ DeliverHup \/ TouchFreedRegistry
             PROVE  TypeInv'
  OBVIOUS
<1> USE DEF TypeInv, TypeOK, StartedHasFd, threadVars, netVars
<1>0. Handler \in Threads /\ RegistryTypeOK
  BY ServerAssumption
<1>1. CASE HandlerLock
  <2>1. RegistryTypeOK'
    BY <1>0, <1>1, OperationsKeepTypes DEF HandlerLock
  <2> QED
    BY <1>1, <2>1 DEF HandlerLock
<1>2. CASE HandlerShutdown
  <2>1. RegistryTypeOK'
    BY <1>0, <1>2, OperationsKeepTypes DEF HandlerShutdown
  <2> QED
    BY <1>2, <2>1 DEF HandlerShutdown
<1>3. CASE SendHup
  BY <1>3, ServerAssumption DEF SendHup, cregVars, RegistryTypeOK
<1>4. CASE DeliverHup
  BY <1>4 DEF DeliverHup, cregVars, RegistryTypeOK
<1>5. CASE TouchFreedRegistry
  BY <1>5 DEF TouchFreedRegistry, cregVars, RegistryTypeOK
<1> QED
  BY <1>1, <1>2, <1>3, <1>4, <1>5 DEF SignalHandler

(* A service thread.                                                       *)
LEMMA TypeService ==
  ASSUME TypeInv, NEW c \in Conns, ServiceThread(c)
  PROVE  TypeInv'
<1> USE DEF TypeInv, TypeOK, StartedHasFd, Goes, Leaves, mainVars, threadVars,
            netVars
<1>0. c \in Threads /\ RegistryTypeOK
  BY ServerAssumption
<1>00. pc[c] # "none" => fdOf[c] \in Fds
  BY ServerAssumption
<1>1. CASE RegisterLock(c)
  <2>1. RegistryTypeOK'
    BY <1>0, <1>00, <1>1, OperationsKeepTypes DEF RegisterLock
  <2> QED
    BY <1>1, <2>1 DEF RegisterLock
<1>2. CASE Register(c)
  <2>1. RegistryTypeOK'
    BY <1>0, <1>00, <1>2, OperationsKeepTypes DEF Register
  <2> QED
    BY <1>2, <2>1 DEF Register
<1>3. CASE RegisterRefused(c)
  <2>1. RegistryTypeOK'
    BY <1>0, <1>00, <1>3, OperationsKeepTypes DEF RegisterRefused
  <2> QED
    BY <1>3, <2>1 DEF RegisterRefused
<1>4. CASE UnregisterLock(c)
  <2>1. RegistryTypeOK'
    BY <1>0, <1>00, <1>4, OperationsKeepTypes DEF UnregisterLock
  <2> QED
    BY <1>4, <2>1 DEF UnregisterLock
<1>5. CASE Unregister(c)
  <2>1. RegistryTypeOK'
    BY <1>0, <1>00, <1>5, OperationsKeepTypes DEF Unregister
  <2> QED
    BY <1>5, <2>1 DEF Unregister
<1>6. CASE TransCreate(c)
  BY <1>6 DEF TransCreate, cregVars, RegistryTypeOK
<1>7. CASE TransCreateFails(c)
  BY <1>7 DEF TransCreateFails, cregVars, RegistryTypeOK
<1>8. CASE RecvRequest(c)
  BY <1>8 DEF RecvRequest, cregVars, RegistryTypeOK
<1>9. CASE RecvCommit(c)
  BY <1>9 DEF RecvCommit, cregVars, RegistryTypeOK
<1>10. CASE RecvData(c)
  BY <1>10 DEF RecvData, cregVars, RegistryTypeOK
<1>11. CASE RecvTooLong(c)
  BY <1>11 DEF RecvTooLong, cregVars, RegistryTypeOK
<1>12. CASE RecvEOF(c)
  BY <1>12 DEF RecvEOF, cregVars, RegistryTypeOK
<1>13. CASE RecvReset(c)
  BY <1>13 DEF RecvReset, cregVars, RegistryTypeOK
<1>14. CASE OperateOk(c)
  BY <1>14 DEF OperateOk, cregVars, RegistryTypeOK
<1>15. CASE OperateAborts(c)
  BY <1>15 DEF OperateAborts, cregVars, RegistryTypeOK
<1>16. CASE GetAbortsOnNull(c)
  BY <1>16 DEF GetAbortsOnNull, cregVars, RegistryTypeOK
<1>17. CASE CommitOk(c)
  BY <1>17 DEF CommitOk, cregVars, RegistryTypeOK
<1>18. CASE CommitAborts(c)
  BY <1>18 DEF CommitAborts, cregVars, RegistryTypeOK
<1>19. CASE SendReply(c)
  BY <1>19 DEF SendReply, cregVars, RegistryTypeOK, AfterReply
<1>20. CASE ReplyRaisesSigpipe(c)
  BY <1>20 DEF ReplyRaisesSigpipe, cregVars, RegistryTypeOK
<1>21. CASE TransAbort(c)
  BY <1>21 DEF TransAbort, cregVars, RegistryTypeOK
<1>22. CASE CloseAfterCommit(c)
  BY <1>22 DEF CloseAfterCommit, cregVars, RegistryTypeOK
<1> QED
  BY <1>1, <1>2, <1>3, <1>4, <1>5, <1>6, <1>7, <1>8, <1>9, <1>10, <1>11,
     <1>12, <1>13, <1>14, <1>15, <1>16, <1>17, <1>18, <1>19, <1>20, <1>21,
     <1>22 DEF ServiceThread

(* A client.                                                               *)
LEMMA TypeClient ==
  ASSUME TypeInv, NEW c \in Conns, Client(c)
  PROVE  TypeInv'
<1> USE DEF TypeInv, TypeOK, StartedHasFd, ClientStep, mainVars, threadVars,
            cregVars, RegistryTypeOK
<1>1. CASE Connect(c)
  BY <1>1 DEF Connect
<1>2. ASSUME NEW kind \in Requests, Send(c, kind)
      PROVE  TypeInv'
  BY <1>2, ServerAssumption DEF Send
<1>3. CASE Hangup(c)
  BY <1>3 DEF Hangup
<1> QED
  BY <1>1, <1>2, <1>3 DEF Client

LEMMA InvType == Safety => []TypeInv
<1>1. TypeInv /\ [Next]_vars => TypeInv'
  <2> SUFFICES ASSUME TypeInv, [Next]_vars
               PROVE  TypeInv'
    OBVIOUS
  <2>1. CASE UNCHANGED vars
    BY <2>1
    DEF vars, cregVars, mainVars, threadVars, netVars, TypeInv, TypeOK,
        RegistryTypeOK, StartedHasFd
  <2> QED
    BY <2>1, TypeMain, TypeSignals, TypeService, TypeClient DEF Next
<1> QED
  BY <1>1, TypeInit, PTL DEF Safety

(* Every reachable state of the server is of the expected type.            *)
THEOREM TypeCorrect == Safety => []TypeOK
<1>1. TypeInv => TypeOK
  BY DEF TypeInv
<1> QED
  BY <1>1, InvType, PTL

-----------------------------------------------------------------------------
(* Steps that start no service thread and are not made by one.             *)
Elsewhere ==
  \/ MainThread /\ ~ (\E c \in Conns : Accept(c) \/ Spawn(c))
  \/ SignalHandler \/ SendHup \/ DeliverHup \/ TouchFreedRegistry
  \/ \E c \in Conns : Client(c)
  \/ UNCHANGED vars

LEMMA StepsElsewhere ==
  Elsewhere => /\ UNCHANGED <<threadVars, fdOf, owner>>
               /\ proc' = "running" => proc = "running"
BY DEF Elsewhere, MainThread, CallAccept, AcceptFails, LeaveLoop,
       TerminateLock, TerminateShutdown, WaitSem, WaitLock, WaitDone, WaitMore,
       FiniLock, creg_fini, StoreFini, Exit, SignalHandler, HandlerLock,
       HandlerShutdown, SendHup, DeliverHup, TouchFreedRegistry, Client,
       ClientStep, Connect, Send, Hangup, vars, threadVars, netVars,
       MainStep, mainVars

LEMMA NextSplit ==
  [Next]_vars => \/ Elsewhere
                 \/ \E c \in Conns : Accept(c) \/ Spawn(c) \/ ServiceThread(c)
BY DEF Next, Elsewhere

(* An action of one service thread; of the others it leaves pc, next and   *)
(* trans alone.                                                            *)
LEMMA ServiceOfOne ==
  ASSUME TypeInv, NEW c \in Conns, ServiceThread(c), NEW d \in Conns, d # c
  PROVE  pc'[d] = pc[d] /\ next'[d] = next[d] /\ trans'[d] = trans[d]
BY DEF TypeInv, TypeOK, ServiceThread, Goes, Leaves, AfterReply, threadVars,
       RegisterLock, Register, RegisterRefused, UnregisterLock,
       Unregister, TransCreate, TransCreateFails, RecvRequest,
       RecvCommit, RecvData, RecvTooLong, RecvEOF, RecvReset,
       OperateOk, OperateAborts, GetAbortsOnNull, CommitOk,
       CommitAborts, SendReply, ReplyRaisesSigpipe, TransAbort,
       CloseAfterCommit

-----------------------------------------------------------------------------
(* What a thread knows of its transaction at each place.                   *)
TransInv ==
  \A c \in Conns :
    /\ proc = "running" /\ pc[c] \in {"recv", "recv_data", "operate", "commit"}
         => trans[c] = "pending"
    /\ pc[c] = "abort" => trans[c] = "pending"
    /\ pc[c] = "reply" => trans[c] \in {"pending", "committed"}
    /\ pc[c] \in {"unregister", "unregistering"} /\ next[c] = "abort"
         => trans[c] = "pending"

LEMMA TransStep ==
  ASSUME TypeInv, TransInv, NEW c \in Conns, ServiceThread(c)
  PROVE  TransInv'
<1> USE DEF TransInv, TypeInv, TypeOK, Goes, Leaves, mainVars
<1>1. CASE RegisterLock(c)
  BY <1>1 DEF RegisterLock
<1>2. CASE Register(c)
  BY <1>2 DEF Register
<1>3. CASE RegisterRefused(c)
  BY <1>3 DEF RegisterRefused
<1>4. CASE UnregisterLock(c)
  BY <1>4 DEF UnregisterLock
<1>5. CASE Unregister(c)
  BY <1>5 DEF Unregister
<1>6. CASE TransCreate(c)
  BY <1>6 DEF TransCreate
<1>7. CASE TransCreateFails(c)
  BY <1>7 DEF TransCreateFails
<1>8. CASE RecvRequest(c)
  BY <1>8 DEF RecvRequest
<1>9. CASE RecvCommit(c)
  BY <1>9 DEF RecvCommit
<1>10. CASE RecvData(c)
  BY <1>10 DEF RecvData
<1>11. CASE RecvTooLong(c)
  BY <1>11 DEF RecvTooLong
<1>12. CASE RecvEOF(c)
  BY <1>12 DEF RecvEOF
<1>13. CASE RecvReset(c)
  BY <1>13 DEF RecvReset
<1>14. CASE OperateOk(c)
  BY <1>14 DEF OperateOk
<1>15. CASE OperateAborts(c)
  BY <1>15 DEF OperateAborts
<1>16. CASE GetAbortsOnNull(c)
  BY <1>16 DEF GetAbortsOnNull
<1>17. CASE CommitOk(c)
  BY <1>17 DEF CommitOk
<1>18. CASE CommitAborts(c)
  BY <1>18 DEF CommitAborts
<1>19. CASE SendReply(c)
  BY <1>19 DEF SendReply, AfterReply
<1>20. CASE ReplyRaisesSigpipe(c)
  BY <1>20 DEF ReplyRaisesSigpipe, threadVars
<1>21. CASE TransAbort(c)
  BY <1>21 DEF TransAbort
<1>22. CASE CloseAfterCommit(c)
  BY <1>22 DEF CloseAfterCommit
<1> QED
  BY <1>1, <1>2, <1>3, <1>4, <1>5, <1>6, <1>7, <1>8, <1>9,
     <1>10, <1>11, <1>12, <1>13, <1>14, <1>15, <1>16, <1>17, <1>18,
     <1>19, <1>20, <1>21, <1>22 DEF ServiceThread

(* trans_abort is never called for a transaction that has committed or     *)
(* aborted, at which it would end the program.                             *)
THEOREM NoAbortAfterTheEnd == Safety => []NoAbortAfterEnd
<1>1. Init => TransInv
  BY DEF Init, TransInv
<1>2. TypeInv /\ TransInv /\ [Next]_vars => TransInv'
  <2> SUFFICES ASSUME TypeInv, TransInv, [Next]_vars
               PROVE  TransInv'
    OBVIOUS
  <2>1. CASE Elsewhere
    BY <2>1, StepsElsewhere DEF TransInv, threadVars
  <2>2. ASSUME NEW c \in Conns, Accept(c)
        PROVE  TransInv'
    BY <2>2 DEF Accept, MainStep, TransInv, threadVars
  <2>3. ASSUME NEW c \in Conns, Spawn(c)
        PROVE  TransInv'
    BY <2>3 DEF Spawn, MainStep, TransInv, TypeInv, TypeOK
  <2> QED
    BY <2>1, <2>2, <2>3, TransStep, NextSplit
<1>3. TransInv => NoAbortAfterEnd
  BY DEF TransInv, NoAbortAfterEnd
<1> QED
  BY <1>1, <1>2, <1>3, InvType, PTL DEF Safety

-----------------------------------------------------------------------------
(* A connection that has been accepted and whose thread has not begun to   *)
(* leave, or leaves after a commit, still has its descriptor open.         *)
HoldsFd(c) ==
  /\ fdOf[c] # NoFd
  /\ \/ pc[c] \in {"none", "created", "registering", "begin", "recv",
                    "recv_data", "operate", "commit", "reply", "close"}
     \/ pc[c] \in {"unregister", "unregistering"} /\ next[c] = "close"

OwnerInv ==
  /\ \A f \in Fds : owner[f] # NoConn => fdOf[owner[f]] = f
  /\ \A c \in Conns : HoldsFd(c) => owner[fdOf[c]] = c
  /\ \A c \in Conns : fdOf[c] = NoFd => pc[c] = "none"

(* accept hands out a number that nobody holds.                            *)
LEMMA OwnerAccept ==
  ASSUME TypeInv, OwnerInv, NEW c \in Conns, Accept(c)
  PROVE  OwnerInv'
<1> USE DEF OwnerInv, TypeInv, TypeOK
<1>1. PICK f \in Fds : /\ owner[f] = NoConn
                       /\ fdOf' = [fdOf EXCEPT ![c] = f]
                       /\ owner' = [owner EXCEPT ![f] = c]
  BY DEF Accept, LowestFree, FreeFds
<1>2. fdOf[c] = NoFd /\ UNCHANGED threadVars
  BY DEF Accept
<1>3. \A g \in Fds : owner'[g] # NoConn => fdOf'[owner'[g]] = g
  BY <1>1, <1>2, ServerAssumption
<1>4. \A d \in Conns : HoldsFd(d)' => owner'[fdOf'[d]] = d
  BY <1>1, <1>2, ServerAssumption DEF HoldsFd, threadVars
<1>5. \A d \in Conns : fdOf'[d] = NoFd => pc'[d] = "none"
  BY <1>1, <1>2, ServerAssumption DEF threadVars
<1> QED
  BY <1>3, <1>4, <1>5

(* The number is given back by a thread that holds it, once.               *)
LEMMA OwnerClose ==
  ASSUME TypeInv, OwnerInv, NEW c \in Conns, HoldsFd(c), ~ HoldsFd(c)',
         ServiceThread(c), UNCHANGED fdOf,
         owner' = [owner EXCEPT ![fdOf[c]] = NoConn]
  PROVE  OwnerInv'
<1> USE DEF OwnerInv, TypeInv, TypeOK
<1>1. fdOf[c] \in Fds /\ owner[fdOf[c]] = c
  BY DEF HoldsFd
<1>2. \A g \in Fds : owner'[g] # NoConn => fdOf'[owner'[g]] = g
  OBVIOUS
<1>3. ASSUME NEW d \in Conns, d # c, HoldsFd(d)'
      PROVE  owner'[fdOf'[d]] = d
  <2>1. HoldsFd(d)
    BY <1>3, ServiceOfOne DEF HoldsFd
  <2> QED
    BY <1>1, <1>3, <2>1 DEF HoldsFd
<1>4. \A d \in Conns : fdOf'[d] = NoFd => pc'[d] = "none"
  BY <1>1, ServiceOfOne, ServerAssumption
<1> QED
  BY <1>2, <1>3, <1>4

(* Any other step of a service thread does not gain a hold.                *)
LEMMA OwnerKeep ==
  ASSUME TypeInv, OwnerInv, NEW c \in Conns, ServiceThread(c),
         UNCHANGED <<fdOf, owner>>, HoldsFd(c)' => HoldsFd(c),
         pc[c] # "none"
  PROVE  OwnerInv'
<1>1. \A d \in Conns : HoldsFd(d)' => HoldsFd(d)
  BY ServiceOfOne DEF HoldsFd
<1>2. \A d \in Conns : fdOf'[d] = NoFd => pc'[d] = "none"
  BY ServiceOfOne DEF OwnerInv
<1> QED
  BY <1>1, <1>2 DEF OwnerInv

LEMMA OwnerStep ==
  ASSUME TypeInv, OwnerInv, NEW c \in Conns, ServiceThread(c)
  PROVE  OwnerInv'
<1> USE DEF TypeInv, TypeOK, Goes, Leaves, netVars
<1>0. pc[c] # "none" => fdOf[c] # NoFd
  BY DEF StartedHasFd
<1>1. CASE RegisterLock(c)
  <2>1. (HoldsFd(c)' => HoldsFd(c)) /\ pc[c] # "none"
    BY <1>0, <1>1 DEF RegisterLock, HoldsFd
  <2> QED
    BY <1>1, <2>1, OwnerKeep DEF RegisterLock
<1>2. CASE Register(c)
  <2>1. (HoldsFd(c)' => HoldsFd(c)) /\ pc[c] # "none"
    BY <1>0, <1>2 DEF Register, HoldsFd
  <2> QED
    BY <1>2, <2>1, OwnerKeep DEF Register
<1>3. CASE RegisterRefused(c)
  <2>1. (HoldsFd(c)' => HoldsFd(c)) /\ pc[c] # "none"
    BY <1>0, <1>3 DEF RegisterRefused, HoldsFd
  <2> QED
    BY <1>3, <2>1, OwnerKeep DEF RegisterRefused
<1>4. CASE UnregisterLock(c)
  <2>1. (HoldsFd(c)' => HoldsFd(c)) /\ pc[c] # "none"
    BY <1>0, <1>4 DEF UnregisterLock, HoldsFd
  <2> QED
    BY <1>4, <2>1, OwnerKeep DEF UnregisterLock
<1>5. CASE Unregister(c)
  <2>1. (HoldsFd(c)' => HoldsFd(c)) /\ pc[c] # "none"
    BY <1>0, <1>5 DEF Unregister, HoldsFd
  <2> QED
    BY <1>5, <2>1, OwnerKeep DEF Unregister
<1>6. CASE TransCreate(c)
  <2>1. (HoldsFd(c)' => HoldsFd(c)) /\ pc[c] # "none"
    BY <1>0, <1>6 DEF TransCreate, HoldsFd
  <2> QED
    BY <1>6, <2>1, OwnerKeep DEF TransCreate
<1>7. CASE TransCreateFails(c)
  <2>1. (HoldsFd(c)' => HoldsFd(c)) /\ pc[c] # "none"
    BY <1>0, <1>7 DEF TransCreateFails, HoldsFd
  <2> QED
    BY <1>7, <2>1, OwnerKeep DEF TransCreateFails
<1>8. CASE RecvRequest(c)
  <2>1. (HoldsFd(c)' => HoldsFd(c)) /\ pc[c] # "none"
    BY <1>0, <1>8 DEF RecvRequest, HoldsFd
  <2> QED
    BY <1>8, <2>1, OwnerKeep DEF RecvRequest
<1>9. CASE RecvCommit(c)
  <2>1. (HoldsFd(c)' => HoldsFd(c)) /\ pc[c] # "none"
    BY <1>0, <1>9 DEF RecvCommit, HoldsFd
  <2> QED
    BY <1>9, <2>1, OwnerKeep DEF RecvCommit
<1>10. CASE RecvData(c)
  <2>1. (HoldsFd(c)' => HoldsFd(c)) /\ pc[c] # "none"
    BY <1>0, <1>10 DEF RecvData, HoldsFd
  <2> QED
    BY <1>10, <2>1, OwnerKeep DEF RecvData
<1>11. CASE RecvTooLong(c)
  <2>1. (HoldsFd(c)' => HoldsFd(c)) /\ pc[c] # "none"
    BY <1>0, <1>11 DEF RecvTooLong, HoldsFd
  <2> QED
    BY <1>11, <2>1, OwnerKeep DEF RecvTooLong
<1>12. CASE RecvEOF(c)
  <2>1. HoldsFd(c) /\ ~ HoldsFd(c)'
    BY <1>0, <1>12 DEF RecvEOF, HoldsFd
  <2> QED
    BY <1>12, <2>1, OwnerClose DEF RecvEOF
<1>13. CASE RecvReset(c)
  <2>1. (HoldsFd(c)' => HoldsFd(c)) /\ pc[c] # "none"
    BY <1>0, <1>13 DEF RecvReset, HoldsFd
  <2> QED
    BY <1>13, <2>1, OwnerKeep DEF RecvReset
<1>14. CASE OperateOk(c)
  <2>1. (HoldsFd(c)' => HoldsFd(c)) /\ pc[c] # "none"
    BY <1>0, <1>14 DEF OperateOk, HoldsFd
  <2> QED
    BY <1>14, <2>1, OwnerKeep DEF OperateOk
<1>15. CASE OperateAborts(c)
  <2>1. (HoldsFd(c)' => HoldsFd(c)) /\ pc[c] # "none"
    BY <1>0, <1>15 DEF OperateAborts, HoldsFd
  <2> QED
    BY <1>15, <2>1, OwnerKeep DEF OperateAborts
<1>16. CASE GetAbortsOnNull(c)
  <2>1. (HoldsFd(c)' => HoldsFd(c)) /\ pc[c] # "none"
    BY <1>0, <1>16 DEF GetAbortsOnNull, HoldsFd
  <2> QED
    BY <1>16, <2>1, OwnerKeep DEF GetAbortsOnNull
<1>17. CASE CommitOk(c)
  <2>1. (HoldsFd(c)' => HoldsFd(c)) /\ pc[c] # "none"
    BY <1>0, <1>17 DEF CommitOk, HoldsFd
  <2> QED
    BY <1>17, <2>1, OwnerKeep DEF CommitOk
<1>18. CASE CommitAborts(c)
  <2>1. (HoldsFd(c)' => HoldsFd(c)) /\ pc[c] # "none"
    BY <1>0, <1>18 DEF CommitAborts, HoldsFd
  <2> QED
    BY <1>18, <2>1, OwnerKeep DEF CommitAborts
<1>19. CASE SendReply(c)
  <2>1. (HoldsFd(c)' => HoldsFd(c)) /\ pc[c] # "none"
    BY <1>0, <1>19 DEF SendReply, HoldsFd, AfterReply
  <2> QED
    BY <1>19, <2>1, OwnerKeep DEF SendReply, AfterReply
<1>20. CASE ReplyRaisesSigpipe(c)
  <2>1. (HoldsFd(c)' => HoldsFd(c)) /\ pc[c] # "none"
    BY <1>0, <1>20 DEF ReplyRaisesSigpipe, HoldsFd, threadVars
  <2> QED
    BY <1>20, <2>1, OwnerKeep DEF ReplyRaisesSigpipe
<1>21. CASE TransAbort(c)
  <2>1. (HoldsFd(c)' => HoldsFd(c)) /\ pc[c] # "none"
    BY <1>0, <1>21 DEF TransAbort, HoldsFd
  <2> QED
    BY <1>21, <2>1, OwnerKeep DEF TransAbort
<1>22. CASE CloseAfterCommit(c)
  <2>1. HoldsFd(c) /\ ~ HoldsFd(c)'
    BY <1>0, <1>22 DEF CloseAfterCommit, HoldsFd
  <2> QED
    BY <1>22, <2>1, OwnerClose DEF CloseAfterCommit
<1> QED
  BY <1>1, <1>2, <1>3, <1>4, <1>5, <1>6, <1>7, <1>8, <1>9,
     <1>10, <1>11, <1>12, <1>13, <1>14, <1>15, <1>16, <1>17, <1>18,
     <1>19, <1>20, <1>21, <1>22 DEF ServiceThread

(* However descriptor numbers are closed and handed out again, a service   *)
(* thread reads, writes and closes only its own connection.                *)
THEOREM OwnConnection == Safety => []UsesOwnConnection
<1>1. Init => OwnerInv
  BY ServerAssumption DEF Init, OwnerInv, HoldsFd
<1>2. TypeInv /\ OwnerInv /\ [Next]_vars => OwnerInv'
  <2> SUFFICES ASSUME TypeInv, OwnerInv, [Next]_vars
               PROVE  OwnerInv'
    OBVIOUS
  <2>1. CASE Elsewhere
    BY <2>1, StepsElsewhere DEF OwnerInv, HoldsFd, threadVars
  <2>2. ASSUME NEW c \in Conns, Spawn(c)
        PROVE  OwnerInv'
    BY <2>2 DEF Spawn, OwnerInv, HoldsFd, TypeInv, TypeOK, netVars
  <2> QED
    BY <2>1, <2>2, OwnerAccept, OwnerStep, NextSplit
<1>3. TypeInv /\ OwnerInv => UsesOwnConnection
  BY DEF TypeInv, StartedHasFd, OwnerInv, HoldsFd, UsesOwnConnection
<1> QED
  BY <1>1, <1>2, <1>3, InvType, PTL DEF Safety

-----------------------------------------------------------------------------
(* Who holds the mutex.                                                    *)
MainSections == {"closing_all", "checking", "freeing"}
ThreadSections == {"registering", "unregistering"}

HolderInv ==
  /\ mutex = Main <=> main \in MainSections
  /\ mutex = Handler <=> handler = "closing_all"
  /\ \A c \in Conns : mutex = c <=> pc[c] \in ThreadSections

LEMMA HolderMain == TypeInv /\ HolderInv /\ MainThread => HolderInv'
<1> SUFFICES ASSUME TypeInv, HolderInv, MainThread
             PROVE  HolderInv'
  OBVIOUS
<1> USE ServerAssumption, NoThreadAssumption
    DEF HolderInv, MainSections, ThreadSections, MainStep, threadVars, Unlock
<1>1. CASE CallAccept
  BY <1>1 DEF CallAccept, cregVars
<1>2. CASE AcceptFails
  BY <1>2 DEF AcceptFails, cregVars
<1>3. CASE LeaveLoop
  BY <1>3 DEF LeaveLoop, cregVars
<1>4. CASE TerminateLock
  BY <1>4 DEF TerminateLock, Lock
<1>5. CASE TerminateShutdown
  BY <1>5 DEF TerminateShutdown, creg_shutdown_all
<1>6. CASE WaitSem
  BY <1>6 DEF WaitSem, SemWait
<1>7. CASE WaitLock
  BY <1>7 DEF WaitLock, Lock
<1>8. CASE WaitDone
  BY <1>8 DEF WaitDone, creg_wait_for_empty
<1>9. CASE WaitMore
  BY <1>9 DEF WaitMore, creg_wait_again
<1>10. CASE FiniLock
  BY <1>10 DEF FiniLock, Lock
<1>11. CASE creg_fini
  BY <1>11 DEF creg_fini
<1>12. CASE StoreFini
  BY <1>12 DEF StoreFini, cregVars
<1>13. CASE Exit
  BY <1>13 DEF Exit, cregVars
<1>14. ASSUME NEW c \in Conns, Accept(c)
       PROVE  HolderInv'
  BY <1>14 DEF Accept
<1>15. ASSUME NEW c \in Conns, Spawn(c)
       PROVE  HolderInv'
  BY <1>15 DEF Spawn, cregVars, TypeInv, TypeOK
<1> QED
  BY <1>1, <1>2, <1>3, <1>4, <1>5, <1>6, <1>7, <1>8, <1>9,
     <1>10, <1>11, <1>12, <1>13, <1>14, <1>15 DEF MainThread

LEMMA HolderService ==
  ASSUME TypeInv, HolderInv, NEW c \in Conns, ServiceThread(c)
  PROVE  HolderInv'
<1> USE ServerAssumption, NoThreadAssumption
    DEF TypeInv, TypeOK, HolderInv, MainSections, ThreadSections, mainVars,
        threadVars, Goes, Leaves, Unlock
<1>1. CASE RegisterLock(c)
  BY <1>1 DEF RegisterLock, Lock
<1>2. CASE Register(c)
  BY <1>2 DEF Register, creg_register
<1>3. CASE RegisterRefused(c)
  BY <1>3 DEF RegisterRefused, creg_register_dup
<1>4. CASE UnregisterLock(c)
  BY <1>4 DEF UnregisterLock, Lock
<1>5. CASE Unregister(c)
  BY <1>5 DEF Unregister, creg_unregister
<1>6. CASE TransCreate(c)
  BY <1>6 DEF TransCreate, cregVars
<1>7. CASE TransCreateFails(c)
  BY <1>7 DEF TransCreateFails, cregVars
<1>8. CASE RecvRequest(c)
  BY <1>8 DEF RecvRequest, cregVars
<1>9. CASE RecvCommit(c)
  BY <1>9 DEF RecvCommit, cregVars
<1>10. CASE RecvData(c)
  BY <1>10 DEF RecvData, cregVars
<1>11. CASE RecvTooLong(c)
  BY <1>11 DEF RecvTooLong, cregVars
<1>12. CASE RecvEOF(c)
  BY <1>12 DEF RecvEOF, cregVars
<1>13. CASE RecvReset(c)
  BY <1>13 DEF RecvReset, cregVars
<1>14. CASE OperateOk(c)
  BY <1>14 DEF OperateOk, cregVars
<1>15. CASE OperateAborts(c)
  BY <1>15 DEF OperateAborts, cregVars
<1>16. CASE GetAbortsOnNull(c)
  BY <1>16 DEF GetAbortsOnNull, cregVars
<1>17. CASE CommitOk(c)
  BY <1>17 DEF CommitOk, cregVars
<1>18. CASE CommitAborts(c)
  BY <1>18 DEF CommitAborts, cregVars
<1>19. CASE SendReply(c)
  BY <1>19 DEF SendReply, AfterReply, cregVars
<1>20. CASE ReplyRaisesSigpipe(c)
  BY <1>20 DEF ReplyRaisesSigpipe, cregVars
<1>21. CASE TransAbort(c)
  BY <1>21 DEF TransAbort, cregVars
<1>22. CASE CloseAfterCommit(c)
  BY <1>22 DEF CloseAfterCommit, cregVars
<1> QED
  BY <1>1, <1>2, <1>3, <1>4, <1>5, <1>6, <1>7, <1>8, <1>9,
     <1>10, <1>11, <1>12, <1>13, <1>14, <1>15, <1>16, <1>17, <1>18,
     <1>19, <1>20, <1>21, <1>22 DEF ServiceThread

(* The mutex is held exactly by the thread, or the handler, that is in a   *)
(* critical section of the registry.                                       *)
THEOREM Exclusion == Safety => []RegistryExclusion
<1>1. Init => HolderInv
  BY ServerAssumption, NoThreadAssumption
  DEF Init, creg_init, HolderInv, MainSections, ThreadSections
<1>2. TypeInv /\ HolderInv /\ [Next]_vars => HolderInv'
  <2> SUFFICES ASSUME TypeInv, HolderInv, [Next]_vars
               PROVE  HolderInv'
    OBVIOUS
  <2> USE ServerAssumption, NoThreadAssumption
      DEF HolderInv, MainSections, ThreadSections
  <2>1. CASE HandlerLock
    BY <2>1 DEF HandlerLock, Lock, threadVars
  <2>2. CASE HandlerShutdown
    BY <2>2 DEF HandlerShutdown, creg_shutdown_all, Unlock, threadVars
  <2>3. CASE SendHup
    BY <2>3 DEF SendHup, cregVars, threadVars
  <2>4. CASE DeliverHup
    BY <2>4 DEF DeliverHup, cregVars, threadVars
  <2>5. CASE TouchFreedRegistry
    BY <2>5 DEF TouchFreedRegistry, cregVars, threadVars
  <2>6. ASSUME NEW c \in Conns, Client(c)
        PROVE  HolderInv'
    BY <2>6
    DEF Client, Connect, Send, Hangup, ClientStep, cregVars, mainVars,
        threadVars
  <2>7. CASE UNCHANGED vars
    BY <2>7 DEF vars, cregVars, mainVars, threadVars
  <2> QED
    BY <2>1, <2>2, <2>3, <2>4, <2>5, <2>6, <2>7, HolderMain, HolderService
    DEF Next, SignalHandler
<1>3. TypeInv /\ HolderInv => RegistryExclusion
  BY ServerAssumption, NoThreadAssumption
  DEF TypeInv, TypeOK, RegistryTypeOK, HolderInv, RegistryExclusion,
      MainSections, ThreadSections
<1> QED
  BY <1>1, <1>2, <1>3, InvType, PTL DEF Safety

-----------------------------------------------------------------------------
(* The threads that stand for the nodes of the list with descriptor f.     *)
RegisteredOn(f) == {c \in Registered : fdOf[c] = f}

(* The connections accepted so far are finitely many, so they can be       *)
(* counted also when Conns is infinite.                                    *)
Started == {c \in Conns : pc[c] # "none"}

ListInv == IsFiniteSet(Started) /\ ListMatchesThreads

LEMMA RegisteredFinite ==
  ASSUME ListInv, NEW f
  PROVE  /\ IsFiniteSet(RegisteredOn(f))
         /\ Cardinality(RegisteredOn(f)) \in Nat
BY FS_Subset, FS_CardinalityType
DEF ListInv, Started, RegisteredOn, Registered

(* A step that changes neither the list nor who is registered.             *)
LEMMA ListKept ==
  ASSUME ListInv, UNCHANGED <<clients, fdOf, Registered>>, Started' = Started
  PROVE  ListInv'
BY DEF ListInv, ListMatchesThreads, PositionsOf

LEMMA ListRegister ==
  ASSUME TypeInv, ListInv, NEW c \in Conns, Register(c)
  PROVE  ListInv'
<1> USE DEF TypeInv, TypeOK
<1>1. /\ fdOf[c] \in Fds
      /\ UNCHANGED fdOf
      /\ clients' = Append(clients, fdOf[c])
  BY ServerAssumption
  DEF Register, Goes, creg_register, netVars, StartedHasFd
<1>2. Started' = Started
  BY DEF Register, Goes, Started
<1>3. c \notin Registered /\ Registered' = Registered \cup {c}
  BY DEF Register, Goes, Registered
<1>4. ASSUME NEW f \in Fds
      PROVE  Cardinality(PositionsOf(f)') = Cardinality(RegisteredOn(f)')
  <2>1. RegisteredOn(f)' =
          IF f = fdOf[c] THEN RegisteredOn(f) \cup {c} ELSE RegisteredOn(f)
    BY <1>1, <1>3 DEF RegisteredOn
  <2>2. c \notin RegisteredOn(f)
    BY <1>3 DEF RegisteredOn
  <2>3. Cardinality(PositionsOf(f)) = Cardinality(RegisteredOn(f))
    BY DEF ListInv, ListMatchesThreads, RegisteredOn
  <2>4. Cardinality(PositionsOf(f)') =
          Cardinality(PositionsOf(f)) + IF f = fdOf[c] THEN 1 ELSE 0
    BY <1>1, PositionsAfterAppend
  <2>5. CASE f = fdOf[c]
    <3>1. Cardinality(RegisteredOn(f) \cup {c}) =
            Cardinality(RegisteredOn(f)) + 1
      BY <2>2, RegisteredFinite, FS_AddElement
    <3> QED
      BY <2>1, <2>3, <2>4, <2>5, <3>1
  <2>6. CASE f # fdOf[c]
    BY <2>1, <2>3, <2>4, <2>6, RegisteredFinite
  <2> QED
    BY <2>5, <2>6
<1> QED
  BY <1>2, <1>4 DEF ListInv, ListMatchesThreads, RegisteredOn

LEMMA ListUnregister ==
  ASSUME TypeInv, ListInv, NEW c \in Conns, Unregister(c)
  PROVE  ListInv'
<1> USE DEF TypeInv, TypeOK
<1>1. /\ fdOf[c] \in Fds
      /\ UNCHANGED fdOf
  BY ServerAssumption DEF Unregister, Goes, netVars, StartedHasFd
<1>2. PICK i \in PositionsOf(fdOf[c]) : clients' = RemoveAt(clients, i)
  BY DEF Unregister, creg_unregister
<1>3. next[c] \in {"abort", "close", "returned"}
  OBVIOUS
<1>4. Started' = Started
  BY <1>3 DEF Unregister, Goes, Started
<1>5. c \in Registered /\ Registered' = Registered \ {c}
  BY <1>3 DEF Unregister, Goes, Registered
<1>6. ASSUME NEW f \in Fds
      PROVE  Cardinality(PositionsOf(f)') = Cardinality(RegisteredOn(f)')
  <2>1. RegisteredOn(f)' =
          IF f = fdOf[c] THEN RegisteredOn(f) \ {c} ELSE RegisteredOn(f)
    BY <1>1, <1>5 DEF RegisteredOn
  <2>2. f = fdOf[c] => c \in RegisteredOn(f)
    BY <1>5 DEF RegisteredOn
  <2>3. Cardinality(PositionsOf(f)) = Cardinality(RegisteredOn(f))
    BY DEF ListInv, ListMatchesThreads, RegisteredOn
  <2>4. Cardinality(PositionsOf(f)') =
          Cardinality(PositionsOf(f)) - IF f = fdOf[c] THEN 1 ELSE 0
    BY <1>1, <1>2, PositionsAfterRemove
  <2>5. CASE f = fdOf[c]
    BY <2>1, <2>2, <2>3, <2>4, <2>5, RegisteredFinite, FS_RemoveElement
  <2>6. CASE f # fdOf[c]
    BY <2>1, <2>3, <2>4, <2>6, RegisteredFinite
  <2> QED
    BY <2>5, <2>6
<1> QED
  BY <1>4, <1>6 DEF ListInv, ListMatchesThreads, RegisteredOn

(* The other actions of a service thread.                                  *)
LEMMA ListService ==
  ASSUME TypeInv, ListInv, NEW c \in Conns, ServiceThread(c),
         ~ Register(c), ~ Unregister(c)
  PROVE  ListInv' /\ Registered' = Registered
<1> SUFFICES UNCHANGED <<clients, fdOf, Registered, Started>>
  BY ListKept
<1> USE DEF TypeInv, TypeOK, Goes, Leaves, Registered, Started, netVars,
            threadVars, cregVars
<1>1. CASE RegisterLock(c)
  BY <1>1 DEF RegisterLock, Lock
<1>2. CASE RegisterRefused(c)
  BY <1>2 DEF RegisterRefused, creg_register_dup
<1>3. CASE UnregisterLock(c)
  BY <1>3 DEF UnregisterLock, Lock
<1>4. CASE TransCreate(c)
  BY <1>4 DEF TransCreate
<1>5. CASE TransCreateFails(c)
  BY <1>5 DEF TransCreateFails
<1>6. CASE RecvRequest(c)
  BY <1>6 DEF RecvRequest
<1>7. CASE RecvCommit(c)
  BY <1>7 DEF RecvCommit
<1>8. CASE RecvData(c)
  BY <1>8 DEF RecvData
<1>9. CASE RecvTooLong(c)
  BY <1>9 DEF RecvTooLong
<1>10. CASE RecvEOF(c)
  BY <1>10 DEF RecvEOF
<1>11. CASE RecvReset(c)
  BY <1>11 DEF RecvReset
<1>12. CASE OperateOk(c)
  BY <1>12 DEF OperateOk
<1>13. CASE OperateAborts(c)
  BY <1>13 DEF OperateAborts
<1>14. CASE GetAbortsOnNull(c)
  BY <1>14 DEF GetAbortsOnNull
<1>15. CASE CommitOk(c)
  BY <1>15 DEF CommitOk
<1>16. CASE CommitAborts(c)
  BY <1>16 DEF CommitAborts
<1>17. CASE SendReply(c)
  BY <1>17 DEF SendReply, AfterReply
<1>18. CASE ReplyRaisesSigpipe(c)
  BY <1>18 DEF ReplyRaisesSigpipe
<1>19. CASE TransAbort(c)
  BY <1>19 DEF TransAbort
<1>20. CASE CloseAfterCommit(c)
  BY <1>20 DEF CloseAfterCommit
<1> QED
  BY <1>1, <1>2, <1>3, <1>4, <1>5, <1>6, <1>7, <1>8, <1>9,
     <1>10, <1>11, <1>12, <1>13, <1>14, <1>15, <1>16, <1>17, <1>18,
     <1>19, <1>20 DEF ServiceThread

LEMMA ListElsewhere == Elsewhere => UNCHANGED <<clients, Registered>>
<1> SUFFICES ASSUME Elsewhere
             PROVE  UNCHANGED <<clients, Registered>>
  OBVIOUS
<1>1. UNCHANGED Registered
  BY StepsElsewhere DEF Registered, threadVars
<1>2. UNCHANGED clients
  BY DEF Elsewhere, MainThread, CallAccept, AcceptFails, LeaveLoop,
         TerminateLock, TerminateShutdown, WaitSem, WaitLock, WaitDone,
         WaitMore, FiniLock, creg_fini, StoreFini, Exit, SignalHandler,
         HandlerLock, HandlerShutdown, SendHup, DeliverHup,
         TouchFreedRegistry, Client, ClientStep, Connect, Send, Hangup, vars,
         cregVars, Lock, SemWait, creg_wait_for_empty, creg_wait_again,
         creg_shutdown_all
<1> QED
  BY <1>1, <1>2

LEMMA AcceptAndSpawn ==
  ASSUME TypeInv, NEW c \in Conns, Accept(c) \/ Spawn(c)
  PROVE  /\ UNCHANGED <<clients, Registered>>
         /\ ListInv => ListInv'
<1> USE DEF TypeInv, TypeOK
<1>1. CASE Accept(c)
  <2>1. UNCHANGED <<clients, Registered, Started>>
    BY <1>1 DEF Accept, Registered, Started, threadVars
  <2>2. c \notin Registered
    BY <1>1 DEF Accept, Registered, StartedHasFd
  <2>3. \A f \in Fds : RegisteredOn(f)' = RegisteredOn(f)
    BY <1>1, <2>1, <2>2 DEF Accept, RegisteredOn
  <2> QED
    BY <2>1, <2>3 DEF ListInv, ListMatchesThreads, RegisteredOn, PositionsOf
<1>2. CASE Spawn(c)
  <2>1. UNCHANGED <<clients, fdOf, Registered>>
    BY <1>2 DEF Spawn, Registered, cregVars, netVars
  <2>2. Started' = Started \cup {c}
    BY <1>2 DEF Spawn, Started
  <2> QED
    BY <2>1, <2>2, FS_AddElement
    DEF ListInv, ListMatchesThreads, PositionsOf
<1> QED
  BY <1>1, <1>2

LEMMA InvList == Safety => []ListInv
<1>1. Init => ListInv
  <2> SUFFICES ASSUME Init
               PROVE  ListInv
    OBVIOUS
  <2>1. Started = {} /\ Registered = {}
    BY DEF Init, Started, Registered
  <2>2. \A f \in Fds : PositionsOf(f) = {}
    BY DEF Init, creg_init, PositionsOf
  <2> QED
    BY <2>1, <2>2, FS_EmptySet DEF ListInv, ListMatchesThreads
<1>2. TypeInv /\ ListInv /\ [Next]_vars => ListInv'
  <2> SUFFICES ASSUME TypeInv, ListInv, [Next]_vars
               PROVE  ListInv'
    OBVIOUS
  <2>1. CASE Elsewhere
    BY <2>1, StepsElsewhere, ListElsewhere, ListKept DEF Started, threadVars
  <2> QED
    BY <2>1, NextSplit, AcceptAndSpawn, ListRegister, ListUnregister,
       ListService
<1> QED
  BY <1>1, <1>2, InvType, PTL DEF Safety

(* The registry counts, for every descriptor number, exactly the threads   *)
(* that have registered it and not unregistered it.                        *)
THEOREM ListIsExact == Safety => []ListMatchesThreads
<1>1. ListInv => ListMatchesThreads
  BY DEF ListInv
<1> QED
  BY <1>1, InvList, PTL

-----------------------------------------------------------------------------
LEMMA EmptyMeansNobody ==
  ASSUME TypeInv, ListInv, clients = <<>>
  PROVE  Registered = {}
<1>1. ASSUME NEW c \in Registered
      PROVE  FALSE
  <2>1. fdOf[c] \in Fds
    BY DEF Registered, TypeInv, TypeOK, StartedHasFd
  <2>2. PositionsOf(fdOf[c]) = {}
    BY DEF PositionsOf
  <2>3. Cardinality(RegisteredOn(fdOf[c])) = Cardinality(PositionsOf(fdOf[c]))
    BY <2>1 DEF ListInv, ListMatchesThreads, RegisteredOn
  <2>4. RegisteredOn(fdOf[c]) = {}
    BY <2>2, <2>3, RegisteredFinite, FS_EmptySet
  <2> QED
    BY <2>4 DEF RegisteredOn
<1> QED
  BY <1>1

(* Where terminate() has got past creg_wait_for_empty.                     *)
Past == main \in {"finalizing", "freeing", "emptied", "exiting"}

(* Only the return of creg_wait_for_empty brings main there, and nothing   *)
(* brings it back.                                                         *)
LEMMA PastSteps ==
  ASSUME [Next]_vars
  PROVE  Past' = Past \/ (WaitDone /\ ~ Past /\ Past')
<1> USE DEF Past, MainStep, mainVars
<1>1. CASE MainThread
  BY <1>1
  DEF MainThread, CallAccept, Accept, AcceptFails, Spawn, LeaveLoop,
      TerminateLock, TerminateShutdown, WaitSem, WaitLock, WaitDone, WaitMore,
      FiniLock, creg_fini, StoreFini, Exit
<1>2. CASE SignalHandler \/ SendHup \/ DeliverHup \/ TouchFreedRegistry
  BY <1>2
  DEF SignalHandler, HandlerLock, HandlerShutdown, SendHup, DeliverHup,
      TouchFreedRegistry
<1>3. ASSUME NEW c \in Conns, ServiceThread(c) \/ Client(c)
      PROVE  main' = main
  BY <1>3
  DEF ServiceThread, Client, ClientStep, Connect, Send, Hangup, Goes, Leaves,
      AfterReply,
      RegisterLock, Register, RegisterRefused, UnregisterLock,
      Unregister, TransCreate, TransCreateFails, RecvRequest,
      RecvCommit, RecvData, RecvTooLong, RecvEOF, RecvReset,
      OperateOk, OperateAborts, GetAbortsOnNull, CommitOk,
      CommitAborts, SendReply, ReplyRaisesSigpipe, TransAbort,
      CloseAfterCommit
<1>4. CASE UNCHANGED vars
  BY <1>4 DEF vars
<1> QED
  BY <1>1, <1>2, <1>3, <1>4 DEF Next

(* The promise of the registry holds in the server: terminate() gets past  *)
(* creg_wait_for_empty only while no service thread is registered.         *)
THEOREM Refinement == Safety => WaitKeepsPromise
<1> USE DEF Promise!absVars
<1>1. Init => Promise!Init
  BY DEF Init, Promise!Init, Registered
<1>2. TypeInv /\ ListInv /\ [Next]_vars => [Promise!Next]_(Promise!absVars)
  <2> SUFFICES ASSUME TypeInv, ListInv, [Next]_vars
               PROVE  [Promise!Next]_(Promise!absVars)
    OBVIOUS
  <2>1. CASE Past' = Past
    <3>1. (main' \in {"finalizing", "freeing", "emptied", "exiting"}) =
            (main \in {"finalizing", "freeing", "emptied", "exiting"})
      BY <2>1 DEF Past
    <3>2. CASE Registered' = Registered
      BY <3>1, <3>2
    <3>3. ASSUME NEW c \in Conns, Register(c)
          PROVE  Promise!Join(c)
      BY <3>1, <3>3
      DEF Promise!Join, Register, Goes, Registered, TypeInv, TypeOK
    <3>4. ASSUME NEW c \in Conns, Unregister(c)
          PROVE  Promise!Leave(c)
      BY <3>1, <3>4
      DEF Promise!Leave, Unregister, Goes, Registered, TypeInv, TypeOK
    <3> QED
      BY <3>2, <3>3, <3>4, NextSplit, ListElsewhere, AcceptAndSpawn, ListService
      DEF Promise!Next
  <2>2. CASE WaitDone /\ ~ Past /\ Past'
    <3>1. clients = <<>>
      BY <2>2 DEF WaitDone, creg_wait_for_empty
    <3>2. Registered = {} /\ Registered' = Registered
      BY <2>2, <3>1, EmptyMeansNobody DEF WaitDone, Registered, threadVars
    <3>3. Promise!Return(Main)
      BY <2>2, <3>2 DEF Promise!Return, Past
    <3> QED
      BY <3>3 DEF Promise!Next
  <2> QED
    BY <2>1, <2>2, PastSteps
<1> QED
  BY <1>1, <1>2, InvType, InvList, PTL DEF Safety, WaitKeepsPromise,
     Promise!Spec
=============================================================================
