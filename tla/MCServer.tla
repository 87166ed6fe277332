------------------------------- MODULE MCServer -------------------------------
(* Small instances of XactoServer.                                         *)
EXTENDS XactoServer

CONSTANTS c1, c2, c3

MCThreads == Conns \cup {Main, Handler}

(* Connections are interchangeable.                                        *)
MCSymmetry == Permutations(Conns)

(* What no action of a service thread reads any more is not told apart:    *)
(* the client and the request of a thread that is leaving, the descriptor  *)
(* number and the transaction of one that has returned, and everything     *)
(* once the process has ended.  The properties of the run that uses this   *)
(* view do not tell these states apart either.                             *)
Seen(f, done) == [c \in Conns |-> IF pc[c] \in done THEN "any" ELSE f[c]]

Leaving == {"unregister", "unregistering", "abort", "close", "returned"}

MCView ==
  IF proc # "running" THEN <<proc>>
  ELSE <<cregVars, mainVars, pc, next, owner, Seen(fdOf, {"returned"}),
         Seen(trans, {"returned"}), Seen(client, Leaving),
         Seen(request, Leaving)>>
=============================================================================
