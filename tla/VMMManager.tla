----------------------------- MODULE VMMManager -----------------------------
(***************************************************************************)
(* The Firecracker process manager of a SwarmCracker node, direct mode     *)
(* (pkg/swarmkit/vmm.go without the jailer).                               *)
(*                                                                         *)
(* The manager keeps one map, processes, from task IDs to the child it     *)
(* spawned for the task, behind processMutex.  Beside the map the module   *)
(* keeps the part of the operating system the manager acts on: which       *)
(* children are alive, and which child bound the API socket file of a      *)
(* task.  A dead child stays in the map until somebody removes it.         *)
(*                                                                         *)
(* The operators below are the steps of the manager's methods.  Module     *)
(* SwarmExecutor composes them with the controllers that call them.        *)
(***************************************************************************)
EXTENDS Integers

CONSTANTS
  Task,     \* task IDs
  Pid,      \* Firecracker processes, one for every spawn (never reused)
  Ctl,      \* the callers of the manager: task controllers
  NoTask, NoPid, NoCtl

ASSUME DistinctNulls ==
  /\ NoTask \notin Task
  /\ NoPid \notin Pid
  /\ NoCtl \notin Ctl

VARIABLES
  processes,     \* VMMManager.processes: the child tracked for each task
  processMutex,  \* the controller whose Stop holds processMutex while it waits
  alive,         \* children that have not exited
  owner,         \* the task each child was spawned for (NoTask: not spawned yet)
  sock,          \* the child that bound the task's API socket file (NoPid: no file)
  booted         \* children that were configured and sent InstanceStart

vmmVars == <<processes, processMutex, alive, owner, sock, booted>>

VMMTypeOK ==
  /\ processes \in [Task -> Pid \cup {NoPid}]
  /\ processMutex \in Ctl \cup {NoCtl}
  /\ alive \subseteq Pid
  /\ owner \in [Pid -> Task \cup {NoTask}]
  /\ sock \in [Task -> Pid \cup {NoPid}]
  /\ booted \subseteq Pid

\* NewVMMManagerWithConfig: an empty process map; nothing spawned before.
VMMInit ==
  /\ processes = [t \in Task |-> NoPid]
  /\ processMutex = NoCtl
  /\ alive = {}
  /\ owner = [p \in Pid |-> NoTask]
  /\ sock = [t \in Task |-> NoPid]
  /\ booted = {}

\* Every method but Stop takes processMutex for one atomic section.
MutexFree == processMutex = NoCtl

(***************************************************************************)
(* The firecracker binary.  It binds --api-sock when it comes up and exits *)
(* if the file is already there.  It may exit at any time: the guest shuts *)
(* down, SIGTERM takes effect, or the context given to CommandContext is   *)
(* cancelled.                                                              *)
(***************************************************************************)
Bind(t, p) ==
  IF sock[t] = NoPid
    THEN /\ alive' = alive \cup {p}
         /\ sock' = [sock EXCEPT ![t] = p]
    ELSE UNCHANGED <<alive, sock>>

VMExit(p) ==
  /\ p \in alive
  /\ alive' = alive \ {p}
  /\ UNCHANGED <<processes, processMutex, owner, sock, booted>>

(***************************************************************************)
(* startDirect.  The child runs from cmd.Start on; it is stored in the map *)
(* in a critical section of its own, before its socket is awaited and      *)
(* before it is configured.                                                *)
(***************************************************************************)
SpawnFail(t) ==
  /\ sock' = [sock EXCEPT ![t] = NoPid]
  /\ UNCHANGED <<processes, processMutex, alive, owner, booted>>

Spawn(t, p) ==
  /\ owner[p] = NoTask
  /\ owner' = [owner EXCEPT ![p] = t]
  /\ Bind(t, p)
  /\ UNCHANGED <<processes, processMutex, booted>>

\* Mutant: an entry that is there already, of a child that died, is kept.
Track_KeepsEntry(t, p) ==
  /\ MutexFree
  /\ processes' = [processes EXCEPT ![t] = IF @ = NoPid THEN p ELSE @]
  /\ UNCHANGED <<processMutex, alive, owner, sock, booted>>

\* The store waits for processMutex, which the Stop of another task may hold
\* for ten seconds.
Track(t, p) ==
  /\ MutexFree
  /\ processes' = [processes EXCEPT ![t] = p]
  /\ UNCHANGED <<processMutex, alive, owner, sock, booted>>

\* waitForSocket and configureVM succeed when the process behind the socket
\* file answers and has not booted yet (a booted one refuses the requests).
\* Nothing ties that process to the child that was just spawned.
ConfigureVM(t) ==
  /\ sock[t] \in alive \ booted
  /\ booted' = booted \cup {sock[t]}
  /\ UNCHANGED <<processes, processMutex, alive, owner, sock>>

\* Mutant: the failed child is left running.
StartFail_KeepsChild(t, p) ==
  /\ sock' = [sock EXCEPT ![t] = NoPid]
  /\ UNCHANGED <<processes, processMutex, alive, owner, booted>>

\* waitForSocket timed out or a PUT failed: kill the child, drop the socket
\* file, leave the map as it is.
StartFail(t, p) ==
  /\ alive' = alive \ {p}
  /\ sock' = [sock EXCEPT ![t] = NoPid]
  /\ UNCHANGED <<processes, processMutex, owner, booted>>

(***************************************************************************)
(* Stop.  processMutex is held from the lookup to the deletion, across the *)
(* wait of up to ten seconds for the child to honour SIGTERM.              *)
(***************************************************************************)
StopBegin(c, t) ==
  /\ MutexFree
  /\ processes[t] # NoPid
  /\ processMutex' = c
  /\ UNCHANGED <<processes, alive, owner, sock, booted>>

\* Mutant: the timeout does not kill.
StopEnd_NoKill(c, t, p) ==
  /\ processMutex = c
  /\ processes' = [processes EXCEPT ![t] = NoPid]
  /\ processMutex' = NoCtl
  /\ UNCHANGED <<alive, owner, sock, booted>>

\* The child exited, or the timeout fired and it was killed.
StopEnd(c, t, p) ==
  /\ processMutex = c
  /\ alive' = alive \ {p}
  /\ processes' = [processes EXCEPT ![t] = NoPid]
  /\ processMutex' = NoCtl
  /\ UNCHANGED <<owner, sock, booted>>

(***************************************************************************)
(* Remove.  Lookup and deletion are two critical sections; the kill and    *)
(* the wait are between them.                                              *)
(***************************************************************************)
\* Mutant: the child is not killed before it is forgotten.
RemoveKill_Skipped(t) ==
  /\ MutexFree
  /\ UNCHANGED vmmVars

RemoveKill(t) ==
  /\ MutexFree
  /\ alive' = alive \ {processes[t]}
  /\ UNCHANGED <<processes, processMutex, owner, sock, booted>>

RemoveUntrack(t) ==
  /\ MutexFree
  /\ sock' = [sock EXCEPT ![t] = NoPid]
  /\ processes' = [processes EXCEPT ![t] = NoPid]
  /\ UNCHANGED <<processMutex, alive, owner, booted>>

\* GetRunningProcesses: a copy of the map.
GetRunningProcesses == processes

\* RemoveProcess deletes the entry of a task whatever child it holds.
RemoveProcess(t) ==
  /\ MutexFree
  /\ processes' = [processes EXCEPT ![t] = NoPid]

\* The children of task t that run.
LiveOf(t) == {p \in alive : owner[p] = t}
=============================================================================
