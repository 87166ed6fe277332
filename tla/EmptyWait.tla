------------------------------ MODULE EmptyWait ------------------------------
(***************************************************************************)
(* What src/hw5/include/client_registry.h promises: a set of registered    *)
(* clients and threads that wait until the set is empty.                   *)
(***************************************************************************)
CONSTANTS Members,  \* clients
          Waiters   \* threads that wait

VARIABLES members,  \* the clients registered now
          returned  \* the waiters that have been let go

absVars == <<members, returned>>

Init == members = {} /\ returned = {}

(* A client is registered, or unregistered.                                *)
Join(m) == m \notin members /\ members' = members \cup {m} /\ UNCHANGED returned
Leave(m) == m \in members /\ members' = members \ {m} /\ UNCHANGED returned

(* A waiter is let go, which may only happen while nobody is registered.   *)
Return(v) ==
  /\ members = {}
  /\ v \notin returned
  /\ returned' = returned \cup {v}
  /\ UNCHANGED members

Next ==
  \/ \E m \in Members : Join(m) \/ Leave(m)
  \/ \E v \in Waiters : Return(v)

Spec == Init /\ [][Next]_absVars

(* A waiter is not kept for ever once the set stays empty.                 *)
FairSpec == Spec /\ \A v \in Waiters : WF_absVars(Return(v))
=============================================================================
