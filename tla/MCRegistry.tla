------------------------------ MODULE MCRegistry ------------------------------
(* Small instances of RegistryUsers.                                       *)
EXTENDS RegistryUsers

CONSTANTS w1, w2, w3, v1, c1, fd4, fd5

MCThreads == Workers \cup Waiters \cup Closers

(* w1 and w2 serve the same descriptor number: the descriptor was closed   *)
(* by w1 and given to w2 by accept before w1 unregistered it.              *)
MCSharedFds == w1 :> fd4 @@ w2 :> fd4 @@ w3 :> fd5
=============================================================================
