--------------------------- MODULE SwarmExecutor ----------------------------
(***************************************************************************)
(* The SwarmKit executor of a SwarmCracker node and its task controllers   *)
(* (pkg/swarmkit/executor.go) on top of the process manager.               *)
(*                                                                         *)
(* Actors: the SwarmKit agent, which asks the executor for a controller    *)
(* and calls its methods; the children, which exit when they like; the     *)
(* goroutine that sweeps orphaned VMs; and the node process itself, which  *)
(* may stop and start again.  Controller.mu serialises the methods of one  *)
(* controller (Wait excepted), so pc[c] is the method of c that runs; the  *)
(* methods of different controllers, the sweep and the exits interleave.   *)
(***************************************************************************)
EXTENDS VMMManager

CONSTANTS
  MaxVersion,    \* bound: task definitions an Update may deliver, 1..MaxVersion
  MaxRestarts,   \* bound: how often the node process may stop and start again
  Reassign       \* may the agent ask again for a task whose removal has begun?

ASSUME ExecutorAssumptions ==
  /\ MaxVersion \in Nat \ {0}
  /\ MaxRestarts \in Nat
  /\ Reassign \in BOOLEAN

VARIABLES
  controllers,  \* Executor.controllers: task -> registered controller
  held,         \* controllers the agent got from Controller() and still uses
  task,         \* Controller.task: the task of each controller (NoTask: not created)
  spec,         \* the version of the definition in Controller.task
  internal,     \* the version in Controller.internalTask (0: nil)
  prepared,     \* Controller.prepared
  started,      \* Controller.started
  pc,           \* the method of the controller that is running
  target,       \* the child that method works on (cmd in startDirect and in Stop)
  waiting,      \* the child a Wait of the controller is blocked on
  net,          \* tasks with TAP devices recorded in the network manager
  unsynced,     \* tasks whose guest wrote volume data not copied back yet
  sweep,        \* the sweep: "idle", "snapped", "sweeping" or "untracking"
  snap,         \* its copy of the process map
  orphans,      \* tasks it found without a controller and has not handled yet
  current,      \* the orphan it is handling
  removed,      \* history: tasks whose Remove has begun since the last restart
  lost,         \* history: children that were alive when the node process stopped
  restarts      \* how often that has happened

ctlVars   == <<controllers, held, task, spec, internal, prepared, started, pc,
               target, waiting, removed>>
sweepVars == <<sweep, snap, orphans, current>>
hostVars  == <<net, unsynced>>
histVars  == <<lost, restarts>>
vars      == <<vmmVars, ctlVars, sweepVars, hostVars, histVars>>

Version == 1..MaxVersion

PC == {"idle", "spawned", "starting", "stopping", "terminating",
       "rm_kill", "rm_untrack", "rm_finish"}

\* The type of every variable.
TypeOK ==
  /\ VMMTypeOK
  /\ controllers \in [Task -> Ctl \cup {NoCtl}]
  /\ held \subseteq Ctl
  /\ task \in [Ctl -> Task \cup {NoTask}]
  /\ spec \in [Ctl -> Version]
  /\ internal \in [Ctl -> Version \cup {0}]
  /\ prepared \in [Ctl -> BOOLEAN]
  /\ started \in [Ctl -> BOOLEAN]
  /\ pc \in [Ctl -> PC]
  /\ target \in [Ctl -> Pid \cup {NoPid}]
  /\ waiting \in [Ctl -> Pid \cup {NoPid}]
  /\ net \subseteq Task
  /\ unsynced \subseteq Task
  /\ sweep \in {"idle", "snapped", "sweeping", "untracking"}
  /\ snap \in [Task -> Pid \cup {NoPid}]
  /\ orphans \subseteq Task
  /\ current \in Task \cup {NoTask}
  /\ removed \subseteq Task
  /\ lost \subseteq Pid
  /\ restarts \in 0..MaxRestarts

Init ==
  /\ VMMInit
  /\ controllers = [t \in Task |-> NoCtl]
  /\ held = {}
  /\ task = [c \in Ctl |-> NoTask]
  /\ spec = [c \in Ctl |-> 1]
  /\ internal = [c \in Ctl |-> 0]
  /\ prepared = [c \in Ctl |-> FALSE]
  /\ started = [c \in Ctl |-> FALSE]
  /\ pc = [c \in Ctl |-> "idle"]
  /\ target = [c \in Ctl |-> NoPid]
  /\ waiting = [c \in Ctl |-> NoPid]
  /\ net = {}
  /\ unsynced = {}
  /\ sweep = "idle"
  /\ snap = [t \in Task |-> NoPid]
  /\ orphans = {}
  /\ current = NoTask
  /\ removed = {}
  /\ lost = {}
  /\ restarts = 0

-----------------------------------------------------------------------------
(***************************************************************************)
(* Executor.Controller: hand out the registered controller of a task, or   *)
(* create and register one.  Whether the controller is being removed is    *)
(* not looked at.                                                          *)
(***************************************************************************)
MayAssign(t) == Reassign \/ t \notin removed

ControllerExisting(t) ==
  /\ MayAssign(t)
  /\ controllers[t] # NoCtl
  /\ held' = held \cup {controllers[t]}
  /\ UNCHANGED <<vmmVars, controllers, task, spec, internal, prepared, started,
                 pc, target, waiting, removed, sweepVars, hostVars, histVars>>

\* NewController: flags down, no prepared task.
NewController(t, c) ==
  /\ task[c] = NoTask
  /\ task' = [task EXCEPT ![c] = t]

ControllerNew(t, c) ==
  /\ MayAssign(t)
  /\ controllers[t] = NoCtl
  /\ NewController(t, c)
  /\ controllers' = [controllers EXCEPT ![t] = c]
  /\ held' = held \cup {c}
  /\ UNCHANGED <<vmmVars, spec, internal, prepared, started, pc, target,
                 waiting, removed, sweepVars, hostVars, histVars>>

\* The agent calls a method of a controller it holds; mu is free.
Call(c) == c \in held /\ pc[c] = "idle"

\* Controller.Update replaces the definition unless the VM was started.
Update(c, v) ==
  /\ Call(c)
  /\ ~started[c]
  /\ spec' = [spec EXCEPT ![c] = v]
  /\ UNCHANGED <<vmmVars, controllers, held, task, internal, prepared, started,
                 pc, target, waiting, removed, sweepVars, hostVars, histVars>>

(***************************************************************************)
(* Controller.Prepare.  A failure of the image preparation changes         *)
(* nothing; PrepareNetwork may fail after it has recorded some devices.    *)
(***************************************************************************)
PrepareOK(c) ==
  /\ Call(c)
  /\ ~prepared[c]
  /\ net' = net \cup {task[c]}
  /\ internal' = [internal EXCEPT ![c] = spec[c]]
  /\ prepared' = [prepared EXCEPT ![c] = TRUE]
  /\ UNCHANGED <<vmmVars, controllers, held, task, spec, started, pc, target,
                 waiting, removed, unsynced, sweepVars, histVars>>

PrepareNetworkFail(c) ==
  /\ Call(c)
  /\ ~prepared[c]
  /\ net' = net \cup {task[c]}
  /\ UNCHANGED <<vmmVars, ctlVars, unsynced, sweepVars, histVars>>

(***************************************************************************)
(* Controller.Start                                                        *)
(***************************************************************************)
MayStart(c) == Call(c) /\ prepared[c] /\ ~started[c]

StartSpawnFail(c) ==
  /\ MayStart(c)
  /\ SpawnFail(task[c])
  /\ UNCHANGED <<ctlVars, sweepVars, hostVars, histVars>>

StartSpawn(c, p) ==
  /\ MayStart(c)
  /\ Spawn(task[c], p)
  /\ target' = [target EXCEPT ![c] = p]
  /\ pc' = [pc EXCEPT ![c] = "spawned"]
  /\ UNCHANGED <<controllers, held, task, spec, internal, prepared, started,
                 waiting, removed, sweepVars, hostVars, histVars>>

StartTrack(c) ==
  /\ pc[c] = "spawned"
  /\ Track(task[c], target[c])
  /\ pc' = [pc EXCEPT ![c] = "starting"]
  /\ UNCHANGED <<controllers, held, task, spec, internal, prepared, started,
                 target, waiting, removed, sweepVars, hostVars, histVars>>

\* The guest now runs and may write to the volumes of its task.
StartDone(c) ==
  /\ pc[c] = "starting"
  /\ ConfigureVM(task[c])
  /\ started' = [started EXCEPT ![c] = TRUE]
  /\ pc' = [pc EXCEPT ![c] = "idle"]
  /\ unsynced' = unsynced \cup {task[c]}
  /\ UNCHANGED <<controllers, held, task, spec, internal, prepared, target,
                 waiting, removed, net, sweepVars, histVars>>

StartFailed(c) ==
  /\ pc[c] = "starting"
  /\ StartFail(task[c], target[c])
  /\ pc' = [pc EXCEPT ![c] = "idle"]
  /\ UNCHANGED <<controllers, held, task, spec, internal, prepared, started,
                 target, waiting, removed, sweepVars, hostVars, histVars>>

(***************************************************************************)
(* Controller.Wait takes no lock of the controller and blocks in cmd.Wait. *)
(* Without an entry in the map it returns at once.                         *)
(***************************************************************************)
WaitBlock(c) ==
  /\ c \in held
  /\ waiting[c] = NoPid
  /\ MutexFree
  /\ processes[task[c]] # NoPid
  /\ waiting' = [waiting EXCEPT ![c] = processes[task[c]]]
  /\ UNCHANGED <<vmmVars, controllers, held, task, spec, internal, prepared,
                 started, pc, target, removed, sweepVars, hostVars, histVars>>

WaitReturn(c) ==
  /\ waiting[c] # NoPid
  /\ waiting[c] \notin alive
  /\ waiting' = [waiting EXCEPT ![c] = NoPid]
  /\ UNCHANGED <<vmmVars, controllers, held, task, spec, internal, prepared,
                 started, pc, target, removed, sweepVars, hostVars, histVars>>

(***************************************************************************)
(* Controller.Shutdown and Controller.Terminate call the same graceful     *)
(* Stop.  Without an entry in the map Stop fails ("task not found") and    *)
(* the controller stays started.  Only Shutdown cleans up the network.     *)
(***************************************************************************)
StopCall(c, how) ==
  /\ Call(c)
  /\ started[c]
  /\ StopBegin(c, task[c])
  /\ target' = [target EXCEPT ![c] = processes[task[c]]]
  /\ pc' = [pc EXCEPT ![c] = how]
  /\ UNCHANGED <<controllers, held, task, spec, internal, prepared, started,
                 waiting, removed, sweepVars, hostVars, histVars>>

ShutdownCall(c)  == StopCall(c, "stopping")
TerminateCall(c) == StopCall(c, "terminating")

\* Mutant: the flag is not reset.
StopReturn_StaysStarted(c) ==
  /\ StopEnd(c, task[c], target[c])
  /\ pc' = [pc EXCEPT ![c] = "idle"]
  /\ UNCHANGED <<controllers, held, task, spec, internal, prepared, started,
                 target, waiting, removed, unsynced, sweepVars, histVars>>

StopReturn(c) ==
  /\ StopEnd(c, task[c], target[c])
  /\ started' = [started EXCEPT ![c] = FALSE]
  /\ pc' = [pc EXCEPT ![c] = "idle"]
  /\ UNCHANGED <<controllers, held, task, spec, internal, prepared, target,
                 waiting, removed, unsynced, sweepVars, histVars>>

ShutdownReturn(c) ==
  /\ pc[c] = "stopping"
  /\ StopReturn(c)
  /\ net' = net \ {task[c]}

TerminateReturn(c) ==
  /\ pc[c] = "terminating"
  /\ StopReturn(c)
  /\ UNCHANGED net

(***************************************************************************)
(* Controller.Remove.  syncVolumeData looks for the "rootfs" annotation in *)
(* the task convertTask has just built, which carries no annotations (the  *)
(* prepared internalTask does).  The agent (external) makes one call of a  *)
(* controller at a time, Wait aside, and drops the controller with this    *)
(* one: no call queues on Controller.mu behind Remove.                     *)
(***************************************************************************)
ConvertTaskAnnotations == {}

SyncVolumeData(c) ==
  IF internal[c] # 0 /\ "rootfs" \in ConvertTaskAnnotations
    THEN unsynced' = unsynced \ {task[c]}
    ELSE UNCHANGED unsynced

RemoveCall(c) ==
  /\ Call(c)
  /\ SyncVolumeData(c)
  /\ net' = net \ {task[c]}
  /\ held' = held \ {c}
  /\ removed' = removed \cup {task[c]}
  /\ pc' = [pc EXCEPT ![c] = "rm_kill"]
  /\ UNCHANGED <<vmmVars, controllers, task, spec, internal, prepared, started,
                 target, waiting, sweepVars, histVars>>

RemoveVM(c) ==
  /\ pc[c] = "rm_kill"
  /\ RemoveKill(task[c])
  /\ pc' = [pc EXCEPT ![c] = "rm_untrack"]
  /\ UNCHANGED <<controllers, held, task, spec, internal, prepared, started,
                 target, waiting, removed, sweepVars, hostVars, histVars>>

RemoveEntry(c) ==
  /\ pc[c] = "rm_untrack"
  /\ RemoveUntrack(task[c])
  /\ pc' = [pc EXCEPT ![c] = "rm_finish"]
  /\ UNCHANGED <<controllers, held, task, spec, internal, prepared, started,
                 target, waiting, removed, sweepVars, hostVars, histVars>>

\* The socket file once more, the flags, and OnRemove, which deletes the
\* registration of the task ID whichever controller it names.
RemoveFinish(c) ==
  /\ pc[c] = "rm_finish"
  /\ sock' = [sock EXCEPT ![task[c]] = NoPid]
  /\ started' = [started EXCEPT ![c] = FALSE]
  /\ prepared' = [prepared EXCEPT ![c] = FALSE]
  /\ controllers' = [controllers EXCEPT ![task[c]] = NoCtl]
  /\ pc' = [pc EXCEPT ![c] = "idle"]
  /\ UNCHANGED <<processes, processMutex, alive, owner, booted, held, task, spec,
                 internal, target, waiting, removed, sweepVars, hostVars, histVars>>

-----------------------------------------------------------------------------
(***************************************************************************)
(* cleanupOrphanedVMs: copy the process map, then read the registered      *)
(* tasks, then stop every child whose task was not among them.             *)
(***************************************************************************)
SweepSnapshot ==
  /\ sweep = "idle"
  /\ MutexFree
  /\ \E t \in Task : processes[t] # NoPid
  /\ snap' = GetRunningProcesses
  /\ sweep' = "snapped"
  /\ UNCHANGED <<vmmVars, ctlVars, orphans, current, hostVars, histVars>>

\* Mutant: only controllers that finished Start count as active.
SweepActiveTasks_StartedOnly ==
  /\ sweep = "snapped"
  /\ orphans' = {t \in Task : /\ snap[t] # NoPid
                              /\ controllers[t] = NoCtl \/ ~started[controllers[t]]}
  /\ sweep' = "sweeping"
  /\ UNCHANGED <<vmmVars, ctlVars, snap, current, hostVars, histVars>>

\* Mutant: the orphans are collected by process instead of by task ID.
SweepActiveTasks_ByProcess ==
  /\ sweep = "snapped"
  /\ orphans' = {snap[t] : t \in {u \in Task : snap[u] # NoPid}}
  /\ sweep' = "sweeping"
  /\ UNCHANGED <<vmmVars, ctlVars, snap, current, hostVars, histVars>>

SweepActiveTasks ==
  /\ sweep = "snapped"
  /\ orphans' = {t \in Task : snap[t] # NoPid /\ controllers[t] = NoCtl}
  /\ sweep' = "sweeping"
  /\ UNCHANGED <<vmmVars, ctlVars, snap, current, hostVars, histVars>>

\* SIGTERM, then SIGKILL if the child has not exited within five seconds.
SweepStop(t) ==
  /\ sweep = "sweeping"
  /\ t \in orphans
  /\ alive' = alive \ {snap[t]}
  /\ current' = t
  /\ sweep' = "untracking"
  /\ UNCHANGED <<processes, processMutex, owner, sock, booted, ctlVars, snap,
                 orphans, hostVars, histVars>>

SweepUntrack ==
  /\ sweep = "untracking"
  /\ RemoveProcess(current)
  /\ sock' = [sock EXCEPT ![current] = NoPid]
  /\ orphans' = orphans \ {current}
  /\ current' = NoTask
  /\ sweep' = "sweeping"
  /\ UNCHANGED <<processMutex, alive, owner, booted, ctlVars, snap, hostVars,
                 histVars>>

SweepDone ==
  /\ sweep = "sweeping"
  /\ orphans = {}
  /\ snap' = [t \in Task |-> NoPid]
  /\ sweep' = "idle"
  /\ UNCHANGED <<vmmVars, ctlVars, orphans, current, hostVars, histVars>>

-----------------------------------------------------------------------------
(***************************************************************************)
(* The node process stops (a crash, or Executor.Close and exit: neither    *)
(* touches the children) and NewExecutor starts over with empty maps.  The *)
(* children and the socket files outlive it.                               *)
(***************************************************************************)
Restart ==
  /\ restarts < MaxRestarts
  /\ restarts' = restarts + 1
  /\ lost' = lost \cup alive
  /\ processes' = [t \in Task |-> NoPid]
  /\ processMutex' = NoCtl
  /\ controllers' = [t \in Task |-> NoCtl]
  /\ held' = {}
  /\ prepared' = [c \in Ctl |-> FALSE]
  /\ started' = [c \in Ctl |-> FALSE]
  /\ pc' = [c \in Ctl |-> "idle"]
  /\ target' = [c \in Ctl |-> NoPid]
  /\ waiting' = [c \in Ctl |-> NoPid]
  /\ net' = {}
  /\ removed' = {}
  /\ sweep' = "idle"
  /\ snap' = [t \in Task |-> NoPid]
  /\ orphans' = {}
  /\ current' = NoTask
  /\ UNCHANGED <<alive, owner, sock, booted, task, spec, internal, unsynced>>

ChildExit(p) ==
  /\ VMExit(p)
  /\ UNCHANGED <<ctlVars, sweepVars, hostVars, histVars>>

-----------------------------------------------------------------------------
AgentCall(c) ==
  \/ \E v \in Version : Update(c, v)
  \/ PrepareOK(c)
  \/ PrepareNetworkFail(c)
  \/ StartSpawnFail(c)
  \/ \E p \in Pid : StartSpawn(c, p)
  \/ WaitBlock(c)
  \/ ShutdownCall(c)
  \/ TerminateCall(c)
  \/ RemoveCall(c)

\* The steps of a method that has been called: they do not depend on the agent.
ControllerStep(c) ==
  \/ StartTrack(c)
  \/ StartDone(c)
  \/ StartFailed(c)
  \/ ShutdownReturn(c)
  \/ TerminateReturn(c)
  \/ RemoveVM(c)
  \/ RemoveEntry(c)
  \/ RemoveFinish(c)

SweepStep ==
  \/ SweepSnapshot
  \/ SweepActiveTasks
  \/ \E t \in Task : SweepStop(t)
  \/ SweepUntrack
  \/ SweepDone

Next ==
  \/ \E t \in Task : ControllerExisting(t)
  \/ \E t \in Task, c \in Ctl : ControllerNew(t, c)
  \/ \E c \in Ctl : AgentCall(c)
  \/ \E c \in Ctl : ControllerStep(c)
  \/ \E c \in Ctl : WaitReturn(c)
  \/ SweepStep
  \/ \E p \in Pid : ChildExit(p)
  \/ Restart

Spec == Init /\ [][Next]_vars

(***************************************************************************)
(* Fairness.  A called method runs to its end: every wait in it has a      *)
(* timeout.  cmd.Wait returns once the child is dead.  The sweep is driven *)
(* by a ticker.  Nothing is assumed of the agent or of the children.  A    *)
(* step that takes processMutex gets it: sync.Mutex does not starve a      *)
(* waiter, hence strong fairness for the steps that need it.               *)
(***************************************************************************)
FairSpec ==
  /\ Spec
  /\ \A c \in Ctl : SF_vars(ControllerStep(c)) /\ WF_vars(WaitReturn(c))
  /\ SF_vars(SweepStep)
-----------------------------------------------------------------------------
(***************************************************************************)
(* Properties.                                                             *)
(***************************************************************************)

\* The Start of controller c has spawned child p and waits to store it.
AboutToTrack(c, p) == pc[c] = "spawned" /\ target[c] = p /\ task[c] = owner[p]

\* No running VM escapes the manager: a live child is the one the process map
\* holds for its task, or the Start that spawned it still holds Controller.mu
\* and is about to store it, unless the node restarted over it.  An entry that
\* is overwritten, deleted or swept away never was that of a live child.
LiveVMTracked ==
  \A p \in alive \ lost :
    \/ processes[owner[p]] = p
    \/ \E c \in Ctl : AboutToTrack(c, p)

\* Shutdown of a started task finds its VM: Stop cannot answer "task not found"
\* and leave the controller started for good.
StartedIsTracked ==
  \A c \in Ctl :
    started[c] /\ pc[c] # "rm_finish" => processes[task[c]] # NoPid

\* cleanupOrphanedVMs "stops Firecracker processes that have no corresponding
\* task": no task it treats as an orphan has a controller that the agent uses.
SweepSparesHeldTasks ==
  \A t \in orphans : \A c \in held : task[c] # t

\* A finished Remove leaves no VM, no map entry, no socket file and no recorded
\* network device of the task, whatever ran beside it.
RemovedLeavesNothing ==
  \A t \in removed : controllers[t] = NoCtl =>
    /\ LiveOf(t) \subseteq lost
    /\ processes[t] = NoPid
    /\ sock[t] = NoPid
    /\ t \notin net

\* A controller stops calling itself started only when no VM of its task runs.
StopLeavesNoVM ==
  [][\A c \in Ctl : started[c] /\ ~started'[c] =>
        LiveOf(task[c])' \subseteq lost']_vars

\* Once Remove is called, a Wait blocked on the task's VM returns, although Wait
\* ignores its context: Remove kills whatever Wait may be blocked on.
RemoveUnblocksWait ==
  \A c \in Ctl : pc[c] = "rm_kill" ~> (pc[c] = "idle" /\ waiting[c] = NoPid)

(***************************************************************************)
(* The executor implements TaskRuntime when tasks are not reassigned.      *)
(***************************************************************************)
Phase(t) ==
  IF controllers[t] # NoCtl
    THEN IF t \in removed THEN "removing" ELSE "assigned"
    ELSE IF t \in removed THEN "removed" ELSE "free"

TR == INSTANCE TaskRuntime
        WITH VM <- Pid,
             phase <- [t \in Task |-> Phase(t)],
             vm <- [t \in Task |-> LiveOf(t) \ lost]

\* Every step of controllers, processes, sweep and restarts is a step of the
\* abstract task runtime or changes nothing in it.
ImplementsTaskRuntime == TR!Spec

-----------------------------------------------------------------------------
(***************************************************************************)
(* The inductive invariant of the executor whose tasks are not reassigned. *)
(* It says who may be working on a task: at most its registered            *)
(* controller, and nobody once the removal is finished.                    *)
(***************************************************************************)

\* A controller that is in use is the registered one of its task; the agent
\* gives it up when it calls Remove; after the removal nobody uses it.
Ownership ==
  \A c \in Ctl :
    /\ c \in held \/ pc[c] # "idle" \/ started[c] =>
         task[c] \in Task /\ controllers[task[c]] = c
    /\ c \in held => task[c] \notin removed
    /\ pc[c] \in {"rm_kill", "rm_untrack", "rm_finish"} => task[c] \in removed

\* The registration is about the task of the controller, and a task that was
\* never assigned, or whose removal is finished, has no map entry.
Registration ==
  \A t \in Task :
    /\ controllers[t] # NoCtl => task[controllers[t]] = t
    /\ controllers[t] = NoCtl => processes[t] = NoPid

\* The map: an entry is a child of its task, spawned since the last restart; a
\* child alive now was spawned for a task.
Entries ==
  /\ \A t \in Task : processes[t] # NoPid =>
       owner[processes[t]] = t /\ processes[t] \notin lost
  /\ \A p \in alive \cup lost : owner[p] \in Task

\* What the method in progress knows of the entry of its task.
MethodState ==
  \A c \in Ctl :
    /\ pc[c] = "spawned" => /\ ~started[c]
                            /\ target[c] \in Pid \ lost
                            /\ owner[target[c]] = task[c]
                            /\ processes[task[c]] \notin alive
    /\ pc[c] = "starting" => ~started[c] /\ processes[task[c]] = target[c]
                             /\ target[c] \in Pid
    /\ pc[c] \in {"stopping", "terminating"} =>
         started[c] /\ processes[task[c]] = target[c]
    /\ pc[c] = "rm_untrack" => processes[task[c]] \notin alive
    /\ pc[c] = "rm_finish" => processes[task[c]] = NoPid

\* A controller that is registered but neither started nor starting has no live
\* child: a Start may overwrite the entry.
IdleHasNoVM ==
  \A t \in Task :
    /\ controllers[t] # NoCtl
    /\ ~started[controllers[t]]
    /\ pc[controllers[t]] = "idle"
    => processes[t] \notin alive

\* A finished removal has dropped the socket file and the devices.
RemovedClean ==
  /\ \A t \in removed : t \notin net
  /\ \A t \in removed : controllers[t] = NoCtl => sock[t] = NoPid
  /\ \A c \in Ctl : pc[c] = "rm_finish" => sock[task[c]] = NoPid

\* A task seen in the sweep's copy of the map has a controller or is removed;
\* an orphan is removed for good.
SweepState ==
  /\ \A t \in Task : snap[t] # NoPid => controllers[t] # NoCtl \/ t \in removed
  /\ \A t \in orphans : t \in removed /\ controllers[t] = NoCtl
                        /\ snap[t] \in Pid /\ owner[snap[t]] = t
  /\ \A t \in Task : snap[t] # NoPid => owner[snap[t]] = t
  /\ sweep = "untracking" => current \in orphans
  /\ sweep \in {"idle", "snapped"} => orphans = {}

ExecInv ==
  /\ TypeOK
  /\ LiveVMTracked
  /\ StartedIsTracked
  /\ Ownership
  /\ Registration
  /\ Entries
  /\ MethodState
  /\ IdleHasNoVM
  /\ RemovedClean
  /\ SweepState
=============================================================================
