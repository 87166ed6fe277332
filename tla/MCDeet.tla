------------------------------- MODULE MCDeet -------------------------------
(* Small instances of Deet.                                                *)
EXTENDS Deet

CONSTANTS p1, p2

(* Of the command that handle_shutdown has interrupted, only a fork that   *)
(* is not in the list yet still matters, and of the table, only the list,  *)
(* the states and the traces; once deet has ended, only what the children  *)
(* still do and what NoOrphans reads is told apart.                        *)
Unlisted == IF pc = "forked" THEN arg ELSE NoPid

MCView ==
  IF deet # "running" THEN <<deet, proc, Unlisted>>
  ELSE IF drain THEN <<kernelVars, list, status, trace, handler, Unlisted>>
  ELSE vars
=============================================================================
