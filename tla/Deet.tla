-------------------------------- MODULE Deet --------------------------------
(***************************************************************************)
(* The debugger of hw4: the table of children (track_children.c), the      *)
(* commands that change it (child_processes.c, main.c), the SIGCHLD and    *)
(* SIGINT handlers (signaling.c) that interrupt the commands, and the      *)
(* kernel's view of the children: what runs, what is stopped, what can be  *)
(* waited for, and the one pending SIGCHLD that stands for any number of   *)
(* events.                                                                 *)
(*                                                                         *)
(* Commands that only read memory or print (help, peek, poke, bt) change   *)
(* neither the table nor the state of a child and are left out, and so are *)
(* signals sent to the children from elsewhere, except one that makes a    *)
(* child fault.                                                            *)
(***************************************************************************)
EXTENDS Integers, SequencesExt

CONSTANTS Pids,       \* processes that may be forked, each at most once
          NoPid,      \* no process
          WaitStates  \* states the user waits for

ASSUME DeetAssumption ==
  /\ NoPid \notin Pids
  /\ WaitStates \subseteq {"none", "running", "stopped", "continuing", "dead",
                           "stopping", "killed"}

VARIABLES
  \* the kernel
  proc,       \* state of each process
  event,      \* what waitpid will say of it, death apart
  execd,      \* whether it has executed its command
  ktraced,    \* whether it is traced
  stopsig,    \* whether a SIGSTOP is pending for it
  sigchld,    \* whether SIGCHLD is pending for deet
  \* the table of children
  list,       \* the children from sentinel.next
  status, deetId, trace,
  exited,     \* whether exit_status is other than -1
  \* control
  pc, arg,    \* where main is, and the child it works on
  until,      \* the state that the command wait waits for
  can_print,
  handler,    \* whether handle_sigchild is in its loop
  drain,      \* whether handle_shutdown waits for the killed children
  deet,       \* the process deet itself
  lost        \* history: processes reaped before they were in the list

kernelVars == <<proc, event, execd, ktraced, stopsig, sigchld>>
tableVars == <<list, status, deetId, trace, exited>>
mainVars == <<pc, arg, until, can_print>>
vars == <<kernelVars, tableVars, mainVars, handler, drain, deet, lost>>

PState == {"none", "running", "stopping", "stopped", "continuing", "killed",
           "dead"}
Zombie == {"exited", "killed", "signaled"}

(* main() when it first calls get_input.                                   *)
Init ==
  /\ proc = [p \in Pids |-> "unborn"]
  /\ event = [p \in Pids |-> "none"]
  /\ execd = [p \in Pids |-> FALSE]
  /\ ktraced = [p \in Pids |-> FALSE]
  /\ stopsig = [p \in Pids |-> FALSE]
  /\ sigchld = FALSE
  /\ list = <<>>
  /\ status = [p \in Pids |-> "none"]
  /\ deetId = [p \in Pids |-> -1]
  /\ trace = [p \in Pids |-> FALSE]
  /\ exited = [p \in Pids |-> FALSE]
  /\ pc = "spin" /\ arg = NoPid /\ until = "none" /\ can_print = TRUE
  /\ handler = "idle" /\ drain = FALSE /\ deet = "running"
  /\ lost = {}

-----------------------------------------------------------------------------
(* The kernel: what deet's system calls do.                                *)

(* kill(p, SIGKILL) for all p of S.  Stops and continuations that have not *)
(* been waited for are forgotten.  A zombie or a reaped pid is not hit.    *)
SendKill(S) ==
  LET hit == {p \in S : proc[p] \in {"running", "stopped"}}
  IN  /\ proc' = [p \in Pids |-> IF p \in hit THEN "dying" ELSE proc[p]]
      /\ event' = [p \in Pids |-> IF p \in hit THEN "none" ELSE event[p]]
      /\ UNCHANGED <<execd, ktraced, stopsig>>

(* kill(p, SIGSTOP).                                                       *)
SendStop(p) ==
  /\ stopsig' = [stopsig EXCEPT ![p] = proc[p] \in {"running", "stopped"}]
  /\ UNCHANGED <<proc, event, execd, ktraced, sigchld>>

(* kill(p, SIGCONT): it does not resume a process in a ptrace stop.        *)
SendCont(p) ==
  LET resumed == proc[p] = "stopped" /\ ~ ktraced[p]
  IN  /\ proc' = [proc EXCEPT ![p] = IF resumed THEN "running" ELSE @]
      /\ event' = [event EXCEPT ![p] = IF resumed THEN "continued" ELSE @]
      /\ stopsig' = [stopsig EXCEPT ![p] = FALSE]
      /\ sigchld' = (sigchld \/ resumed)
      /\ UNCHANGED <<execd, ktraced>>

(* ptrace(PTRACE_CONT) and ptrace(PTRACE_DETACH) fail unless p is in a     *)
(* ptrace stop.                                                            *)
PtraceResume(p, detach) ==
  LET ok == ktraced[p] /\ proc[p] = "stopped"
  IN  /\ proc' = [proc EXCEPT ![p] = IF ok THEN "running" ELSE @]
      /\ event' = [event EXCEPT ![p] = IF ok THEN "none" ELSE @]
      /\ ktraced' = [ktraced EXCEPT ![p] = @ /\ ~ (ok /\ detach)]
      /\ UNCHANGED <<execd, stopsig, sigchld>>

(* The kernel: what the children do.                                       *)

ChildStep(p) ==
  /\ proc[p] = "running"
  /\ UNCHANGED <<ktraced, tableVars, mainVars, handler, drain, deet, lost>>

EntersStop(p) ==
  /\ proc' = [proc EXCEPT ![p] = "stopped"]
  /\ event' = [event EXCEPT ![p] = "stopped"]
  /\ sigchld' = TRUE

BecomesZombie(p, how) ==
  /\ proc' = [proc EXCEPT ![p] = how]
  /\ event' = [event EXCEPT ![p] = "none"]
  /\ stopsig' = [stopsig EXCEPT ![p] = FALSE]
  /\ sigchld' = TRUE

(* execvp succeeds; a traced process stops with SIGTRAP.                   *)
Exec(p) ==
  /\ ChildStep(p)
  /\ ~ execd[p]
  /\ execd' = [execd EXCEPT ![p] = TRUE]
  /\ IF ktraced[p] THEN EntersStop(p) ELSE UNCHANGED <<proc, event, sigchld>>
  /\ UNCHANGED stopsig

(* execvp fails and the child calls exit, or the command ends.             *)
Exits(p) == ChildStep(p) /\ BecomesZombie(p, "exited") /\ UNCHANGED execd

(* The SIGSTOP that was sent takes effect.                                 *)
Stops(p) ==
  /\ ChildStep(p)
  /\ stopsig[p]
  /\ EntersStop(p)
  /\ stopsig' = [stopsig EXCEPT ![p] = FALSE]
  /\ UNCHANGED execd

(* The command gets a fatal signal other than SIGKILL: the tracer sees a   *)
(* stop (PTRACE_CONT will suppress the signal), an untraced process dies.  *)
Faults(p) ==
  /\ ChildStep(p)
  /\ execd[p]
  /\ IF ktraced[p] THEN EntersStop(p) /\ UNCHANGED stopsig
                   ELSE BecomesZombie(p, "signaled")
  /\ UNCHANGED execd

(* A process that has been sent SIGKILL ends.                              *)
Dies(p) ==
  /\ proc[p] = "dying"
  /\ BecomesZombie(p, "killed")
  /\ UNCHANGED <<execd, ktraced, tableVars, mainVars, handler, drain, deet,
                 lost>>

-----------------------------------------------------------------------------
(* The command loop.                                                       *)

MainStep(from, to) ==
  /\ deet = "running" /\ handler = "idle" /\ ~ drain
  /\ pc = from
  /\ pc' = to
  /\ UNCHANGED <<handler, drain, lost>>

SetStatus(p, s) ==
  /\ status' = [status EXCEPT ![p] = s]
  /\ exited' = [exited EXCEPT ![p] = FALSE]

(* get_input spins until can_print before it prompts.                      *)
Prompt ==
  /\ MainStep("spin", "read")
  /\ can_print
  /\ UNCHANGED <<kernelVars, tableVars, arg, until, can_print, deet>>

(* get_child_by_deet_id: the first child of that number that is not dead;  *)
(* get_child_by_deet_id_ig: the first one, dead or not.                    *)
ByDeetId(id, alive) ==
  {list[i] : i \in {j \in 1 .. Len(list) :
     LET match(k) == deetId[list[k]] = id /\ (alive => ~ exited[list[k]])
     IN  match(j) /\ \A k \in 1 .. j - 1 : ~ match(k)}}

Ids == {deetId[p] : p \in ToSet(list)}

(* A command with a bad argument, or one that only prints.                 *)
NoChange ==
  /\ MainStep("read", "spin")
  /\ UNCHANGED <<kernelVars, tableVars, arg, until, can_print, deet>>

(* show_all_child_processes.                                               *)
ShowAll ==
  /\ MainStep("read", "spin")
  /\ can_print' = TRUE
  /\ UNCHANGED <<kernelVars, tableVars, arg, until, deet>>

(* run_child_process: fork comes before signals are blocked.               *)
Fork(p) ==
  /\ MainStep("read", "forked")
  /\ proc[p] = "unborn"
  /\ proc' = [proc EXCEPT ![p] = "running"]
  /\ ktraced' = [ktraced EXCEPT ![p] = TRUE]
  /\ arg' = p
  /\ UNCHANGED <<event, execd, stopsig, sigchld, tableVars, until, can_print,
                 deet>>

ForkFails ==
  /\ MainStep("read", "quit")
  /\ deet' = "failed"
  /\ UNCHANGED <<kernelVars, tableVars, arg, until, can_print>>

IsLive(p) == status[p] # "dead"
DeadOnes == {p \in ToSet(list) : ~ IsLive(p)}

(* The children of l that are left when the dead ones are freed.           *)
LiveOnes(l) ==
  LET among[n \in 0 .. Len(l)] ==
        IF n = 0 THEN <<>>
        ELSE IF IsLive(l[n]) THEN Append(among[n - 1], l[n])
        ELSE among[n - 1]
  IN  among[Len(l)]

(* connect_child: after the first child with a lower number whose          *)
(* successor, if any, has a higher number; in front when there is none.    *)
connect_child(l, p, id) ==
  LET fits == {i \in 1 .. Len(l) :
                 /\ deetId[l[i]] < id
                 /\ i = Len(l) \/ deetId[l[i + 1]] > id}
  IN  IF fits = {} THEN <<p>> \o l
      ELSE InsertAt(l, 1 + CHOOSE i \in fits : \A j \in fits : i <= j, p)

(* find_next_deet_id: the number of the first dead child, or else the      *)
(* number of children.                                                     *)
find_next_deet_id ==
  IF DeadOnes # {} THEN deetId[SelectSeq(list, LAMBDA p : ~ IsLive(p))[1]]
                   ELSE Len(list)

(* spawn_child, all signals blocked: the dead children are freed, and the  *)
(* new one enters the list.                                                *)
SpawnChild ==
  /\ MainStep("forked", "spin")
  /\ list' = connect_child(LiveOnes(list), arg, find_next_deet_id)
  /\ status' = [p \in Pids |-> IF p \in DeadOnes THEN "none"
                               ELSE IF p = arg THEN "running" ELSE status[p]]
  /\ deetId' = [p \in Pids |-> IF p \in DeadOnes THEN -1
                               ELSE IF p = arg THEN find_next_deet_id
                               ELSE deetId[p]]
  /\ trace' = [trace EXCEPT ![arg] = TRUE]
  /\ exited' = [p \in Pids |-> exited[p] /\ p \notin DeadOnes]
  /\ can_print' = FALSE
  /\ arg' = NoPid
  /\ UNCHANGED <<kernelVars, until, deet>>

(* A command looks its child up and checks what its code checks; handlers  *)
(* may run before the next step.                                           *)
Starts(p, to, alive) ==
  /\ MainStep("read", to)
  /\ \E id \in Ids : p \in ByDeetId(id, alive)
  /\ arg' = p
  /\ UNCHANGED <<kernelVars, tableVars, can_print, deet>>

Ends(from) ==
  /\ MainStep(from, "spin")
  /\ arg' = NoPid
  /\ UNCHANGED <<until, deet>>

(* continue_child_process.                                                 *)
Cont(p) ==
  /\ Starts(p, "cont_set", TRUE)
  /\ status[p] = "stopped"
  /\ UNCHANGED until

(* Mutant: only an untraced child changes its state.                       *)
ContSetUntraced ==
  /\ MainStep("cont_set", "cont_resume")
  /\ IF trace[arg] THEN UNCHANGED <<status, exited>>
                   ELSE SetStatus(arg, "continuing")
  /\ UNCHANGED <<kernelVars, list, deetId, trace, arg, until, can_print, deet>>

ContSet ==
  /\ MainStep("cont_set", "cont_resume")
  /\ SetStatus(arg, IF trace[arg] THEN "running" ELSE "continuing")
  /\ UNCHANGED <<kernelVars, list, deetId, trace, arg, until, can_print, deet>>

ContResume ==
  /\ Ends("cont_resume")
  /\ IF trace[arg] THEN PtraceResume(arg, FALSE) ELSE SendCont(arg)
  /\ can_print' = TRUE
  /\ UNCHANGED tableVars

(* kill_child_process: state and signal with all signals blocked.          *)
KillCommand(p) == Starts(p, "kill_do", TRUE) /\ UNCHANGED until

KillChild ==
  /\ Ends("kill_do")
  /\ SetStatus(arg, "killed")
  /\ SendKill({arg})
  /\ can_print' = FALSE
  /\ UNCHANGED <<sigchld, list, deetId, trace>>

(* stop_child_process.                                                     *)
Stop(p) ==
  /\ Starts(p, "stop_set", FALSE)
  /\ status[p] \notin {"stopped", "stopping", "dead"}
  /\ UNCHANGED until

StopSet ==
  /\ MainStep("stop_set", "stop_send")
  /\ SetStatus(arg, "stopping")
  /\ UNCHANGED <<kernelVars, list, deetId, trace, arg, until, can_print, deet>>

StopSend ==
  /\ Ends("stop_send")
  /\ SendStop(arg)
  /\ UNCHANGED <<tableVars, can_print>>

(* release_child_process.                                                  *)
Release(p) ==
  /\ Starts(p, "release_set", FALSE)
  /\ status[p] # "dead" /\ trace[p]
  /\ UNCHANGED until

ReleaseSet ==
  /\ MainStep("release_set", "release_detach")
  /\ trace' = [trace EXCEPT ![arg] = FALSE]
  /\ SetStatus(arg, "running")
  /\ UNCHANGED <<kernelVars, list, deetId, arg, until, can_print, deet>>

ReleaseDetach ==
  /\ Ends("release_detach")
  /\ PtraceResume(arg, TRUE)
  /\ UNCHANGED <<tableVars, can_print>>

(* wait_for_child_process and suspend_until_state: the state is looked at  *)
(* with SIGCHLD unblocked, and then sigsuspend waits for a signal.         *)
Wait(p, s) ==
  /\ Starts(p, "wait_check", TRUE)
  /\ until' = s

WaitReached ==
  /\ MainStep("wait_check", "spin")
  /\ status[arg] = until
  /\ arg' = NoPid /\ until' = "none" /\ can_print' = TRUE
  /\ UNCHANGED <<kernelVars, tableVars, deet>>

WaitNotReached ==
  /\ MainStep("wait_check", "wait_suspend")
  /\ status[arg] # until
  /\ UNCHANGED <<kernelVars, tableVars, arg, until, can_print, deet>>

Sigsuspend ==
  /\ MainStep("wait_suspend", "suspended")
  /\ UNCHANGED <<kernelVars, tableVars, arg, until, can_print, deet>>

-----------------------------------------------------------------------------
(* Shutting down.                                                          *)

(* Mutant: only running children are killed.                               *)
RunningOnes == {p \in ToSet(list) : status[p] = "running"}

(* The children handle_shutdown kills.                                     *)
Doomed == {p \in ToSet(list) : status[p] # "dead"}

(* handle_shutdown up to its wait: every child that is not dead is sent    *)
(* SIGKILL.  The SIGCHLD that has started the handler is no longer         *)
(* pending, and stands for every event until now.                          *)
handle_shutdown ==
  /\ SendKill(Doomed)
  /\ status' = [p \in Pids |-> IF p \in Doomed THEN "killed" ELSE status[p]]
  /\ exited' = [p \in Pids |-> exited[p] /\ p \notin Doomed]
  /\ sigchld' = FALSE
  /\ handler' = "idle"
  /\ drain' = TRUE
  /\ UNCHANGED <<list, deetId, trace>>

(* The command quit, or the end of the input: deet sends itself SIGCHLD.   *)
Quit ==
  /\ deet = "running" /\ handler = "idle" /\ ~ drain
  /\ pc = "read"
  /\ pc' = "quit"
  /\ handle_shutdown
  /\ UNCHANGED <<arg, until, can_print, deet, lost>>

(* handle_sigint frees the input buffer, unless a wait is in progress, and *)
(* then shuts down.                                                        *)
Sigint ==
  /\ deet = "running" /\ ~ drain
  /\ handle_shutdown
  /\ UNCHANGED <<mainVars, deet, lost>>

(* The buffer has been freed already when a command is being executed; the *)
(* second free may abort the program.                                      *)
SigintFreesTwice ==
  /\ deet = "running" /\ ~ drain
  /\ pc \notin {"spin", "read", "wait_check", "wait_suspend", "suspended"}
  /\ deet' = "crashed"
  /\ UNCHANGED <<kernelVars, tableVars, mainVars, handler, drain, lost>>

KilledOnes == {p \in ToSet(list) : status[p] = "killed"}

(* No child is left in the killed state: the table is freed, deet exits.   *)
DrainDone ==
  /\ deet = "running" /\ drain /\ handler = "idle"
  /\ KilledOnes = {}
  /\ deet' = "exited"
  /\ list' = <<>>
  /\ UNCHANGED <<kernelVars, status, deetId, trace, exited, mainVars, handler,
                 drain, lost>>

-----------------------------------------------------------------------------
(* handle_sigchild.                                                        *)

(* Mutant: the sigsuspend of handle_shutdown blocks SIGCHLD.               *)
EnterUnlessDraining ==
  /\ deet = "running" /\ handler = "idle" /\ sigchld /\ ~ drain
  /\ handler' = "reaping"
  /\ sigchld' = FALSE
  /\ UNCHANGED <<proc, event, execd, ktraced, stopsig, tableVars, mainVars,
                 drain, deet, lost>>

(* The handler starts, on top of a command or of the sigsuspend of         *)
(* handle_shutdown.                                                        *)
EnterSigchld ==
  /\ deet = "running" /\ handler = "idle" /\ sigchld
  /\ drain => KilledOnes # {}
  /\ handler' = "reaping"
  /\ sigchld' = FALSE
  /\ UNCHANGED <<proc, event, execd, ktraced, stopsig, tableVars, mainVars,
                 drain, deet, lost>>

(* sigsuspend returns when the handler does.                               *)
HandlerReturns ==
  /\ handler' = "idle"
  /\ pc' = IF pc = "suspended" /\ ~ drain THEN "wait_check" ELSE pc

(* waitpid has nothing to report.                                          *)
NothingToReap ==
  /\ deet = "running" /\ handler = "reaping"
  /\ \A p \in Pids : proc[p] \notin Zombie /\ event[p] = "none"
  /\ HandlerReturns
  /\ UNCHANGED <<kernelVars, tableVars, arg, until, can_print, drain, deet,
                 lost>>

(* Mutant: waitpid is called once per signal.                              *)
HandleOnce == handler' = "idle" /\ UNCHANGED pc

(* The loop goes on with the next waitpid.                                 *)
KeepReaping == UNCHANGED <<handler, pc>>

(* waitpid reports on p.                                                   *)
Reaps(p) ==
  /\ deet = "running" /\ handler = "reaping"
  /\ proc' = [proc EXCEPT ![p] = IF @ \in Zombie THEN "reaped" ELSE @]
  /\ event' = [event EXCEPT ![p] = "none"]
  /\ UNCHANGED <<execd, ktraced, stopsig, arg, until, drain, deet>>

(* ... which is not in the list: the handler returns.                      *)
ReapUnknown(p) ==
  /\ Reaps(p)
  /\ p \notin ToSet(list)
  /\ proc[p] \in Zombie \/ event[p] # "none"
  /\ HandlerReturns
  /\ can_print' = FALSE
  /\ lost' = lost \cup {p}
  /\ UNCHANGED <<sigchld, tableVars>>

ReapKnown(p) ==
  /\ Reaps(p)
  /\ p \in ToSet(list)
  /\ KeepReaping
  /\ can_print' = TRUE
  /\ UNCHANGED <<list, deetId, trace, lost>>

(* ... has exited, or was killed by SIGKILL: deet sends itself SIGCHLD.    *)
ReapDead(p) ==
  /\ proc[p] \in {"exited", "killed"}
  /\ ReapKnown(p)
  /\ status' = [status EXCEPT ![p] = "dead"]
  /\ exited' = [exited EXCEPT ![p] = TRUE]
  /\ sigchld' = TRUE

(* ... was ended by another signal: no branch of the handler takes it.     *)
ReapSignaled(p) ==
  /\ proc[p] = "signaled"
  /\ ReapKnown(p)
  /\ UNCHANGED <<status, exited, sigchld>>

(* ... is stopped, or has been continued.                                  *)
ReapEvent(p) ==
  /\ event[p] # "none"
  /\ ReapKnown(p)
  /\ SetStatus(p, IF event[p] = "stopped" THEN "stopped" ELSE "running")
  /\ UNCHANGED sigchld

-----------------------------------------------------------------------------
Command(p) ==
  \/ Fork(p)
  \/ Cont(p)
  \/ KillCommand(p)
  \/ Stop(p)
  \/ Release(p)
  \/ \E s \in WaitStates : Wait(p, s)

User ==
  \/ \E p \in Pids : Command(p)
  \/ ForkFails
  \/ NoChange
  \/ ShowAll
  \/ Quit
  \/ Sigint
  \/ SigintFreesTwice

Main ==
  \/ Prompt
  \/ SpawnChild
  \/ ContSet
  \/ ContResume
  \/ KillChild
  \/ StopSet
  \/ StopSend
  \/ ReleaseSet
  \/ ReleaseDetach
  \/ WaitReached
  \/ WaitNotReached
  \/ Sigsuspend
  \/ DrainDone

Reap(p) ==
  \/ ReapUnknown(p)
  \/ ReapDead(p)
  \/ ReapSignaled(p)
  \/ ReapEvent(p)

Handler ==
  \/ EnterSigchld
  \/ NothingToReap
  \/ \E p \in Pids : Reap(p)

Child(p) ==
  \/ Exec(p)
  \/ Exits(p)
  \/ Stops(p)
  \/ Faults(p)
  \/ Dies(p)

Next ==
  \/ User
  \/ Main
  \/ Handler
  \/ \E p \in Pids : Child(p)

Safety == Init /\ [][Next]_vars

(* deet gets to run, a pending SIGCHLD is delivered, and a process that    *)
(* has been sent SIGKILL ends.  The user and the commands that are run     *)
(* need not do anything.                                                   *)
FairSpec ==
  /\ Safety
  /\ WF_vars(Main)
  /\ WF_vars(Handler)
  /\ \A p \in Pids : WF_vars(Dies(p))

-----------------------------------------------------------------------------
(* deet does not exit while a process it has forked exists, except one     *)
(* that SIGINT kept it from entering in the list.                          *)
NoOrphans ==
  deet = "exited" =>
    \A p \in Pids : \/ proc[p] \in {"unborn", "reaped"}
                    \/ pc = "forked" /\ arg = p

(* A child that the table shows as traced and stopped is not running:      *)
(* however the handler interrupts cont, stop and release, its late report  *)
(* of a stop never hides that the child was continued.                     *)
StoppedIsStopped ==
  \A p \in ToSet(list) :
    status[p] = "stopped" /\ trace[p] => proc[p] # "running"

(* One pending SIGCHLD may stand for several events.  When the handler has *)
(* returned and no SIGCHLD is pending, nothing is left to wait for; an     *)
(* event of a child that is not in the list yet, which makes the handler   *)
(* return early, is the only exception.                                    *)
EventsAreReported ==
  deet = "running" /\ ~ drain /\ handler = "idle" /\ ~ sigchld /\ lost = {} =>
    \A p \in Pids : proc[p] \notin Zombie /\ event[p] = "none"

(* handle_shutdown does not sleep for ever: when every child it waits for  *)
(* is still to die of its SIGKILL, and no child is missing from the list,  *)
(* deet exits.                                                             *)
DrainEnds ==
  (/\ drain /\ pc # "forked"
   /\ \A p \in KilledOnes : proc[p] = "dying")
    ~> deet # "running"

(* include/deet.h:25: PSTATE_DEAD is the "State of the process once it is  *)
(* known to be terminated": a child that has been waited for is dead in    *)
(* the table.                                                              *)
KnownDeadIsDead ==
  deet = "running" /\ handler = "idle" =>
    \A p \in ToSet(list) : proc[p] = "reaped" => status[p] = "dead"
=============================================================================
