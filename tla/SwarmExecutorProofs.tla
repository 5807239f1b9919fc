------------------------ MODULE SwarmExecutorProofs -------------------------
(***************************************************************************)
(* Theorems about SwarmExecutor, for any sets of tasks, controllers and    *)
(* children and any bounds.                                                *)
(***************************************************************************)
EXTENDS SwarmExecutor, TLAPS

\* A controller in use or registered was created for a task.  The type invariant rests on it:
\* Prepare and Start record things for the task of their controller.
InUseHasTask ==
  /\ \A c \in Ctl : c \in held \/ pc[c] # "idle" => task[c] \in Task
  /\ \A t \in Task : controllers[t] # NoCtl => task[controllers[t]] \in Task

TypeInv == TypeOK /\ InUseHasTask

\* The agent's calls keep the type invariant.
LEMMA TypeInvAgent ==
  ASSUME TypeInv, NEW c \in Ctl, AgentCall(c)
  PROVE  TypeInv'
<1> USE ExecutorAssumptions DEF TypeInv, InUseHasTask, TypeOK, VMMTypeOK, Version,
        PC, vmmVars, ctlVars, sweepVars, hostVars, histVars, Call
<1>1. ASSUME NEW v \in Version, Update(c, v) PROVE TypeInv'
  BY <1>1 DEF Update
<1>2. CASE PrepareOK(c)
  BY <1>2 DEF PrepareOK
<1>3. CASE PrepareNetworkFail(c)
  BY <1>3 DEF PrepareNetworkFail
<1>4. CASE StartSpawnFail(c)
  BY <1>4 DEF StartSpawnFail, SpawnFail, MayStart
<1>5. ASSUME NEW p \in Pid, StartSpawn(c, p) PROVE TypeInv'
  BY <1>5 DEF StartSpawn, Spawn, Bind, MayStart
<1>6. CASE WaitBlock(c)
  BY <1>6 DEF WaitBlock
<1>7. CASE ShutdownCall(c) \/ TerminateCall(c)
  BY <1>7 DEF ShutdownCall, TerminateCall, StopCall, StopBegin
<1>8. CASE RemoveCall(c)
  BY <1>8 DEF RemoveCall, SyncVolumeData
<1> QED
  BY <1>1, <1>2, <1>3, <1>4, <1>5, <1>6, <1>7, <1>8 DEF AgentCall

\* So do the steps of the methods that were called.
LEMMA TypeInvController ==
  ASSUME TypeInv, NEW c \in Ctl, ControllerStep(c)
  PROVE  TypeInv'
<1> USE ExecutorAssumptions DEF TypeInv, InUseHasTask, TypeOK, VMMTypeOK, Version,
        PC, vmmVars, ctlVars, sweepVars, hostVars, histVars
<1>1. CASE StartDone(c)
  BY <1>1 DEF StartDone, ConfigureVM
<1>2. CASE StartFailed(c)
  BY <1>2 DEF StartFailed, StartFail
<1>3. CASE ShutdownReturn(c)
  BY <1>3 DEF ShutdownReturn, StopReturn, StopEnd
<1>4. CASE TerminateReturn(c)
  BY <1>4 DEF TerminateReturn, StopReturn, StopEnd
<1>5. CASE RemoveVM(c)
  BY <1>5 DEF RemoveVM, RemoveKill
<1>6. CASE RemoveEntry(c)
  BY <1>6 DEF RemoveEntry, RemoveUntrack
<1>7. CASE RemoveFinish(c)
  BY <1>7 DEF RemoveFinish
<1>8. CASE StartTrack(c)
  BY <1>8 DEF StartTrack, Track
<1> QED
  BY <1>1, <1>2, <1>3, <1>4, <1>5, <1>6, <1>7, <1>8 DEF ControllerStep

\* So do the steps of the sweep.
LEMMA TypeInvSweep ==
  ASSUME TypeInv, SweepStep
  PROVE  TypeInv'
<1> USE ExecutorAssumptions DEF TypeInv, InUseHasTask, TypeOK, VMMTypeOK, Version,
        PC, vmmVars, ctlVars, sweepVars, hostVars, histVars
<1>1. CASE SweepSnapshot
  BY <1>1 DEF SweepSnapshot, GetRunningProcesses
<1>2. CASE SweepActiveTasks
  BY <1>2 DEF SweepActiveTasks
<1>3. ASSUME NEW t \in Task, SweepStop(t) PROVE TypeInv'
  BY <1>3 DEF SweepStop
<1>4. CASE SweepUntrack
  BY <1>4 DEF SweepUntrack, RemoveProcess
<1>5. CASE SweepDone
  BY <1>5 DEF SweepDone
<1> QED
  BY <1>1, <1>2, <1>3, <1>4, <1>5 DEF SweepStep

\* Every step of the executor keeps the type invariant.
LEMMA TypeInvNext == TypeInv /\ [Next]_vars => TypeInv'
<1> SUFFICES ASSUME TypeInv, [Next]_vars PROVE TypeInv'
  OBVIOUS
<1> USE ExecutorAssumptions DEF TypeInv, InUseHasTask, TypeOK, VMMTypeOK, Version,
        PC, vmmVars, ctlVars, sweepVars, hostVars, histVars
<1>1. ASSUME NEW t \in Task, ControllerExisting(t) PROVE TypeInv'
  BY <1>1 DEF ControllerExisting
<1>2. ASSUME NEW t \in Task, NEW c \in Ctl, ControllerNew(t, c) PROVE TypeInv'
  BY <1>2 DEF ControllerNew, NewController
<1>3. ASSUME NEW c \in Ctl, WaitReturn(c) PROVE TypeInv'
  BY <1>3 DEF WaitReturn
<1>4. ASSUME NEW p \in Pid, ChildExit(p) PROVE TypeInv'
  BY <1>4 DEF ChildExit, VMExit
<1>5. CASE Restart
  BY <1>5 DEF Restart
<1>6. CASE UNCHANGED vars
  BY <1>6 DEF vars
<1> QED
  BY <1>1, <1>2, <1>3, <1>4, <1>5, <1>6, TypeInvAgent, TypeInvController,
     TypeInvSweep DEF Next

\* Type correctness, with or without reassignment and restarts.
THEOREM TypeCorrect == Spec => []TypeOK
<1>1. Init => TypeInv
  BY ExecutorAssumptions DEF Init, VMMInit, TypeInv, InUseHasTask, TypeOK, VMMTypeOK,
     Version, PC
<1>2. TypeInv => TypeOK
  BY DEF TypeInv
<1> QED
  BY <1>1, <1>2, TypeInvNext, PTL DEF Spec

-----------------------------------------------------------------------------
(***************************************************************************)
(* The inductive invariant.  Everything below assumes that the agent does  *)
(* not ask again for a task whose removal it has begun (Reassign = FALSE). *)
(***************************************************************************)

\* A controller is handed out for a task whose removal has not begun.
LEMMA InvAssign ==
  ASSUME Reassign = FALSE, ExecInv, TypeOK', NEW t \in Task,
         ControllerExisting(t) \/ \E c \in Ctl : ControllerNew(t, c)
  PROVE  ExecInv'
<1> USE DistinctNulls DEF ExecInv, TypeOK, VMMTypeOK, vmmVars, ctlVars, sweepVars,
        hostVars, histVars, MayAssign, LiveVMTracked, AboutToTrack, StartedIsTracked, Ownership,
        Registration, Entries, MethodState, IdleHasNoVM, RemovedClean, SweepState
<1>1. CASE ControllerExisting(t)
  BY <1>1 DEF ControllerExisting
<1>2. ASSUME NEW c \in Ctl, ControllerNew(t, c) PROVE ExecInv'
  \* The new controller is nobody's: it has no task yet.
  <2>1. c \notin held /\ pc[c] = "idle" /\ ~started[c]
    BY <1>2 DEF ControllerNew, NewController
  <2>2. \A u \in Task : controllers[u] # c
    BY <1>2 DEF ControllerNew, NewController
  <2>3. Ownership' /\ Registration' /\ IdleHasNoVM'
    BY <1>2, <2>1, <2>2 DEF ControllerNew, NewController
  <2>4. LiveVMTracked' /\ StartedIsTracked' /\ Entries' /\ MethodState'
    BY <1>2, <2>1 DEF ControllerNew, NewController
  <2>5. RemovedClean' /\ SweepState'
    BY <1>2, <2>1 DEF ControllerNew, NewController
  <2> QED
    BY <2>3, <2>4, <2>5
<1> QED
  BY <1>1, <1>2

\* Start spawns while the entry of the task holds no live child.
LEMMA InvStartSpawn ==
  ASSUME Reassign = FALSE, ExecInv, TypeOK', NEW c \in Ctl, NEW p \in Pid,
         StartSpawn(c, p)
  PROVE  ExecInv'
<1> USE DistinctNulls DEF ExecInv, TypeOK, VMMTypeOK, vmmVars, ctlVars, sweepVars,
        hostVars, histVars, StartSpawn, Spawn, Bind, MayStart, Call
<1>1. /\ task[c] \in Task
      /\ task[c] \notin removed
      /\ controllers[task[c]] = c
      /\ \A d \in Ctl : d # c /\ (pc[d] # "idle" \/ started[d]) => task[d] # task[c]
  BY DEF Ownership
<1>2. processes[task[c]] \notin alive
  BY <1>1 DEF IdleHasNoVM
<1>3. p \notin alive \cup lost /\ \A t \in Task : processes[t] # p
  BY DEF Entries
<1>a. \A d \in Ctl : pc[d] = "spawned" => target[d] # p
  BY DEF MethodState, Ownership
<1>4. LiveVMTracked'
  <2> SUFFICES ASSUME NEW q \in (alive \ lost)'
               PROVE  (\/ processes[owner[q]] = q
                       \/ \E d \in Ctl : AboutToTrack(d, q))'
    BY DEF LiveVMTracked
  <2>1. CASE q = p
    BY <2>1, <1>1, <1>3 DEF AboutToTrack
  <2>2. CASE q # p
    <3>1. q \in alive \ lost /\ owner'[q] = owner[q]
      BY <2>2
    <3>2. CASE processes[owner[q]] = q
      BY <3>1, <3>2
    <3>3. ASSUME NEW d \in Ctl, AboutToTrack(d, q) PROVE AboutToTrack(d, q)'
      BY <3>1, <3>3 DEF AboutToTrack
    <3> QED
      BY <3>1, <3>2, <3>3 DEF LiveVMTracked
  <2> QED
    BY <2>1, <2>2
<1>5. StartedIsTracked' /\ MethodState'
  <2>1. StartedIsTracked'
    BY DEF StartedIsTracked
  <2>2. \A d \in Ctl : d # c => pc'[d] = pc[d] /\ target'[d] = target[d]
    OBVIOUS
  <2>3. \A t \in Task : processes[t] \notin alive => processes[t] \notin alive'
    BY <1>3
  <2> QED
    BY <1>1, <1>2, <1>3, <1>a, <2>1, <2>2, <2>3 DEF MethodState, Ownership
<1>6. Ownership' /\ Registration' /\ Entries'
  BY <1>1, <1>3 DEF Ownership, Registration, Entries
<1>7. IdleHasNoVM'
  BY <1>1, <1>3 DEF IdleHasNoVM, Registration, Entries
<1>8. RemovedClean' /\ SweepState'
  BY <1>1 DEF RemovedClean, SweepState, Ownership
<1> QED
  BY <1>4, <1>5, <1>6, <1>7, <1>8

\* Start stores the child over an entry that holds no live one.
LEMMA InvStartTrack ==
  ASSUME Reassign = FALSE, ExecInv, TypeOK', NEW c \in Ctl, StartTrack(c)
  PROVE  ExecInv'
<1> USE DistinctNulls DEF ExecInv, TypeOK, VMMTypeOK, vmmVars, ctlVars, sweepVars,
        hostVars, histVars, StartTrack, Track
<1>1. /\ task[c] \in Task
      /\ controllers[task[c]] = c
      /\ \A d \in Ctl : d # c /\ (pc[d] # "idle" \/ started[d]) => task[d] # task[c]
  BY DEF Ownership
<1>2. /\ target[c] \in Pid \ lost
      /\ owner[target[c]] = task[c]
      /\ processes[task[c]] \notin alive
      /\ ~started[c]
  BY DEF MethodState
<1>3. LiveVMTracked'
  <2> SUFFICES ASSUME NEW q \in alive \ lost
               PROVE  \/ processes'[owner[q]] = q
                      \/ \E d \in Ctl : AboutToTrack(d, q)'
    BY DEF LiveVMTracked
  <2>1. CASE processes[owner[q]] = q
    BY <1>1, <1>2, <2>1 DEF Entries
  <2>2. ASSUME NEW d \in Ctl, AboutToTrack(d, q)
        PROVE  processes'[owner[q]] = q \/ AboutToTrack(d, q)'
    BY <1>1, <1>2, <2>2 DEF AboutToTrack
  <2> QED
    BY <2>1, <2>2 DEF LiveVMTracked
<1>4. StartedIsTracked' /\ MethodState'
  BY <1>1, <1>2 DEF StartedIsTracked, MethodState, Ownership
<1>5. Ownership' /\ Registration' /\ Entries'
  BY <1>1, <1>2 DEF Ownership, Registration, Entries
<1>6. IdleHasNoVM'
  BY <1>1, <1>2 DEF IdleHasNoVM, Registration
<1>7. RemovedClean' /\ SweepState'
  BY DEF RemovedClean, SweepState
<1> QED
  BY <1>3, <1>4, <1>5, <1>6, <1>7

\* The agent's calls.
LEMMA InvAgent ==
  ASSUME Reassign = FALSE, ExecInv, TypeOK', NEW c \in Ctl, AgentCall(c)
  PROVE  ExecInv'
<1>5. ASSUME NEW p \in Pid, StartSpawn(c, p) PROVE ExecInv'
  BY <1>5, InvStartSpawn
<1> USE DistinctNulls DEF ExecInv, TypeOK, VMMTypeOK, vmmVars, ctlVars, sweepVars,
        hostVars, histVars, Call, LiveVMTracked, AboutToTrack, StartedIsTracked, Ownership,
        Registration, Entries, MethodState, IdleHasNoVM, RemovedClean, SweepState
<1>1. ASSUME NEW v \in Version, Update(c, v) PROVE ExecInv'
  BY <1>1 DEF Update
<1>2. CASE PrepareOK(c)
  BY <1>2 DEF PrepareOK
<1>3. CASE PrepareNetworkFail(c)
  BY <1>3 DEF PrepareNetworkFail
<1>4. CASE StartSpawnFail(c)
  BY <1>4 DEF StartSpawnFail, SpawnFail, MayStart
<1>6. CASE WaitBlock(c)
  BY <1>6 DEF WaitBlock
<1>7. CASE ShutdownCall(c)
  BY <1>7 DEF ShutdownCall, StopCall, StopBegin
<1>8. CASE TerminateCall(c)
  BY <1>8 DEF TerminateCall, StopCall, StopBegin
<1>9. CASE RemoveCall(c)
  BY <1>9 DEF RemoveCall, SyncVolumeData
<1> QED
  BY <1>1, <1>2, <1>3, <1>4, <1>5, <1>6, <1>7, <1>8, <1>9 DEF AgentCall

\* The steps of a called method touch only the task of its controller, which no
\* other controller in use has.
LEMMA InvController ==
  ASSUME Reassign = FALSE, ExecInv, TypeOK', NEW c \in Ctl, ControllerStep(c)
  PROVE  ExecInv'
<1>8. CASE StartTrack(c)
  BY <1>8, InvStartTrack
<1> USE DistinctNulls DEF ExecInv, TypeOK, VMMTypeOK, vmmVars, ctlVars, sweepVars,
        hostVars, histVars, LiveVMTracked, AboutToTrack, StartedIsTracked, Ownership,
        Registration, Entries, MethodState, IdleHasNoVM, RemovedClean, SweepState
<1>1. CASE StartDone(c)
  BY <1>1 DEF StartDone, ConfigureVM
<1>2. CASE StartFailed(c)
  BY <1>2 DEF StartFailed, StartFail
<1>3. CASE ShutdownReturn(c)
  BY <1>3 DEF ShutdownReturn, StopReturn, StopEnd
<1>4. CASE TerminateReturn(c)
  BY <1>4 DEF TerminateReturn, StopReturn, StopEnd
<1>5. CASE RemoveVM(c)
  BY <1>5 DEF RemoveVM, RemoveKill
<1>6. CASE RemoveEntry(c)
  BY <1>6 DEF RemoveEntry, RemoveUntrack
<1>7. CASE RemoveFinish(c)
  BY <1>7 DEF RemoveFinish
<1> QED
  BY <1>1, <1>2, <1>3, <1>4, <1>5, <1>6, <1>7, <1>8 DEF ControllerStep

\* The sweep forgets only entries of removed tasks, which hold nothing.
LEMMA InvSweep ==
  ASSUME Reassign = FALSE, ExecInv, TypeOK', SweepStep
  PROVE  ExecInv'
<1> USE DistinctNulls DEF ExecInv, TypeOK, VMMTypeOK, vmmVars, ctlVars, sweepVars,
        hostVars, histVars, LiveVMTracked, AboutToTrack, StartedIsTracked, Ownership,
        Registration, Entries, MethodState, IdleHasNoVM, RemovedClean, SweepState
<1>1. CASE SweepSnapshot
  BY <1>1 DEF SweepSnapshot, GetRunningProcesses
<1>2. CASE SweepActiveTasks
  BY <1>2 DEF SweepActiveTasks
<1>3. ASSUME NEW t \in Task, SweepStop(t) PROVE ExecInv'
  BY <1>3 DEF SweepStop
<1>4. CASE SweepUntrack
  <2>1. current \in orphans /\ processes[current] = NoPid
    BY <1>4 DEF SweepUntrack
  <2> QED
    BY <1>4, <2>1 DEF SweepUntrack, RemoveProcess
<1>5. CASE SweepDone
  BY <1>5 DEF SweepDone
<1> QED
  BY <1>1, <1>2, <1>3, <1>4, <1>5 DEF SweepStep

\* Every step keeps the invariant.
LEMMA InvNext ==
  ASSUME Reassign = FALSE
  PROVE  ExecInv /\ TypeOK' /\ [Next]_vars => ExecInv'
<1> SUFFICES ASSUME ExecInv, TypeOK', [Next]_vars PROVE ExecInv'
  OBVIOUS
<1>1. ASSUME NEW c \in Ctl, WaitReturn(c) PROVE ExecInv'
  BY <1>1 DEF WaitReturn, ExecInv, vmmVars, ctlVars, sweepVars, hostVars, histVars,
     LiveVMTracked, AboutToTrack, StartedIsTracked, Ownership, Registration, Entries, MethodState,
     IdleHasNoVM, RemovedClean, SweepState
<1>2. ASSUME NEW p \in Pid, ChildExit(p) PROVE ExecInv'
  BY <1>2 DEF ChildExit, VMExit, ExecInv, vmmVars, ctlVars, sweepVars, hostVars,
     histVars, LiveVMTracked, AboutToTrack, StartedIsTracked, Ownership, Registration, Entries,
     MethodState, IdleHasNoVM, RemovedClean, SweepState
<1>3. CASE Restart
  BY <1>3, DistinctNulls DEF Restart, ExecInv, TypeOK, VMMTypeOK, LiveVMTracked, AboutToTrack,
     StartedIsTracked, Ownership, Registration, Entries, MethodState, IdleHasNoVM,
     RemovedClean, SweepState
<1>4. CASE UNCHANGED vars
  BY <1>4 DEF vars, ExecInv, vmmVars, ctlVars, sweepVars, hostVars, histVars,
     LiveVMTracked, AboutToTrack, StartedIsTracked, Ownership, Registration, Entries, MethodState,
     IdleHasNoVM, RemovedClean, SweepState
<1> QED
  BY <1>1, <1>2, <1>3, <1>4, InvAssign, InvAgent, InvController, InvSweep DEF Next

\* The invariant holds in every reachable state.
THEOREM ExecutorInvariant ==
  ASSUME Reassign = FALSE
  PROVE  Spec => []ExecInv
<1>1. Init => ExecInv
  BY ExecutorAssumptions, DistinctNulls DEF Init, VMMInit, ExecInv, TypeOK, VMMTypeOK,
     Version, PC, LiveVMTracked, AboutToTrack, StartedIsTracked, Ownership, Registration, Entries,
     MethodState, IdleHasNoVM, RemovedClean, SweepState
<1> QED
  BY <1>1, InvNext, TypeCorrect, PTL DEF Spec

\* A task has at most one live child.
LEMMA OneVM ==
  ASSUME ExecInv, NEW t \in Task, NEW p \in LiveOf(t) \ lost, NEW q \in LiveOf(t) \ lost
  PROVE  p = q
<1> USE DEF ExecInv, TypeOK, VMMTypeOK
<1>1. ASSUME NEW c \in Ctl, pc[c] = "spawned", task[c] = t
      PROVE  controllers[t] = c /\ processes[t] \notin alive
  BY <1>1 DEF Ownership, MethodState
<1>2. /\ processes[t] = p \/ \E c \in Ctl : pc[c] = "spawned" /\ target[c] = p /\ task[c] = t
      /\ processes[t] = q \/ \E c \in Ctl : pc[c] = "spawned" /\ target[c] = q /\ task[c] = t
  BY DEF LiveVMTracked, AboutToTrack, LiveOf
<1> QED
  BY <1>1, <1>2 DEF LiveOf

\* A task whose entry holds no live child and that is not being started has none.
LEMMA NoVM ==
  ASSUME ExecInv, NEW t \in Task, processes[t] \notin alive,
         \A c \in Ctl : pc[c] = "spawned" => task[c] # t
  PROVE  LiveOf(t) \ lost = {}
BY DEF ExecInv, LiveVMTracked, AboutToTrack, LiveOf

-----------------------------------------------------------------------------
(***************************************************************************)
(* The safety properties of the executor.                                  *)
(***************************************************************************)

\* Every live VM is tracked: none escapes Stop, Remove and the sweep.
THEOREM LiveVMsAreTracked ==
  ASSUME Reassign = FALSE
  PROVE  Spec => []LiveVMTracked
<1>1. ExecInv => LiveVMTracked
  BY DEF ExecInv
<1> QED
  BY <1>1, ExecutorInvariant, PTL

\* Stop of a started controller finds a process.
THEOREM StartedVMsAreTracked ==
  ASSUME Reassign = FALSE
  PROVE  Spec => []StartedIsTracked
<1>1. ExecInv => StartedIsTracked
  BY DEF ExecInv
<1> QED
  BY <1>1, ExecutorInvariant, PTL

\* The sweep never treats a task in use as an orphan.
THEOREM SweepIsSafe ==
  ASSUME Reassign = FALSE
  PROVE  Spec => []SweepSparesHeldTasks
<1>1. ExecInv => SweepSparesHeldTasks
  BY DEF ExecInv, SweepState, Ownership, SweepSparesHeldTasks, TypeOK
<1> QED
  BY <1>1, ExecutorInvariant, PTL

\* A finished removal leaves nothing of the task behind.
THEOREM RemoveIsComplete ==
  ASSUME Reassign = FALSE
  PROVE  Spec => []RemovedLeavesNothing
<1>1. ASSUME ExecInv, NEW t \in removed, controllers[t] = NoCtl
      PROVE  LiveOf(t) \subseteq lost /\ processes[t] = NoPid /\ sock[t] = NoPid
             /\ t \notin net
  <2>1. t \in Task /\ processes[t] = NoPid /\ sock[t] = NoPid /\ t \notin net
    BY <1>1 DEF ExecInv, TypeOK, Registration, RemovedClean
  <2>2. \A c \in Ctl : pc[c] = "spawned" => task[c] # t
    BY <1>1, DistinctNulls DEF ExecInv, Ownership
  <2>3. processes[t] \notin alive
    BY <1>1, <2>1, DistinctNulls DEF ExecInv, TypeOK, VMMTypeOK
  <2> QED
    BY <1>1, <2>1, <2>2, <2>3, NoVM
<1>2. ExecInv => RemovedLeavesNothing
  BY <1>1 DEF RemovedLeavesNothing
<1> QED
  BY <1>2, ExecutorInvariant, PTL

\* Which steps end a started controller, what they leave in the map, and that
\* no Start of the task is under way.
LEMMA StartedEnds ==
  ASSUME ExecInv, [Next]_vars, NEW c \in Ctl, started[c], ~started'[c]
  PROVE  \/ Restart
         \/ /\ task'[c] = task[c] /\ task[c] \in Task /\ processes'[task[c]] = NoPid
            /\ \A d \in Ctl : pc'[d] = "spawned" => task'[d] # task[c]
<1> USE DEF ExecInv, TypeOK, VMMTypeOK, vmmVars, ctlVars, sweepVars, hostVars,
        histVars
<1> DEFINE Ended == /\ task'[c] = task[c] /\ task[c] \in Task /\ processes'[task[c]] = NoPid
                    /\ \A d \in Ctl : pc'[d] = "spawned" => task'[d] # task[c]
<1>0. \A d \in Ctl : d # c /\ pc[d] = "spawned" => task[d] # task[c]
  BY DEF Ownership
<1>1. ASSUME NEW d \in Ctl, RemoveFinish(d) PROVE Ended
  BY <1>0, <1>1 DEF RemoveFinish, MethodState, Ownership
<1>2. ASSUME NEW d \in Ctl, ShutdownReturn(d) \/ TerminateReturn(d) PROVE Ended
  BY <1>0, <1>2 DEF ShutdownReturn, TerminateReturn, StopReturn, StopEnd, Ownership
<1>3. ASSUME NEW d \in Ctl, ControllerStep(d) PROVE Ended
  <2> HIDE DEF Ended
  <2> QED
    BY <1>1, <1>2, <1>3 DEF ControllerStep, StartTrack, StartDone, StartFailed, RemoveVM,
       RemoveEntry
<1>4. ASSUME NEW d \in Ctl, AgentCall(d) PROVE FALSE
  BY <1>4 DEF AgentCall, Update, PrepareOK, PrepareNetworkFail, StartSpawnFail,
     StartSpawn, WaitBlock, ShutdownCall, TerminateCall, StopCall, RemoveCall
<1>5. ASSUME SweepStep PROVE FALSE
  BY <1>5 DEF SweepStep, SweepSnapshot, SweepActiveTasks, SweepStop, SweepUntrack,
     SweepDone
<1> HIDE DEF Ended
<1>6. Restart \/ Ended
  BY <1>3, <1>4, <1>5 DEF Next, vars, ControllerExisting, ControllerNew, NewController, WaitReturn,
     ChildExit
<1> QED
  BY <1>6 DEF Ended

\* A controller that stops being started leaves no VM of its task running.
THEOREM StopIsComplete ==
  ASSUME Reassign = FALSE
  PROVE  Spec => StopLeavesNoVM
<1>1. ASSUME ExecInv, ExecInv', [Next]_vars
      PROVE  [\A c \in Ctl : started[c] /\ ~started'[c] =>
                LiveOf(task[c])' \subseteq lost']_vars
  <2> SUFFICES ASSUME NEW c \in Ctl, started[c], ~started'[c]
               PROVE  LiveOf(task[c])' \subseteq lost'
    OBVIOUS
  <2>1. CASE Restart
    BY <2>1 DEF Restart, LiveOf
  <2>2. CASE /\ task'[c] = task[c] /\ task[c] \in Task /\ processes'[task[c]] = NoPid
             /\ \A d \in Ctl : pc'[d] = "spawned" => task'[d] # task[c]
    BY <1>1, <2>2, DistinctNulls DEF ExecInv, LiveVMTracked, AboutToTrack, LiveOf, TypeOK,
       VMMTypeOK
  <2> QED
    BY <1>1, <2>1, <2>2, StartedEnds
<1> QED
  BY <1>1, ExecutorInvariant, PTL DEF Spec, StopLeavesNoVM

-----------------------------------------------------------------------------
(***************************************************************************)
(* The executor implements TaskRuntime.  Only five variables matter to the *)
(* abstract state; a step that keeps them is a stutter, a step that only   *)
(* ends a child is Exit or a stutter.                                      *)
(***************************************************************************)
View == <<controllers, removed, alive, owner, lost>>

\* The abstract state is a function of the view.
LEMMA SameView ==
  ASSUME UNCHANGED View
  PROVE  UNCHANGED <<[t \in Task |-> Phase(t)], [t \in Task |-> LiveOf(t) \ lost]>>
BY DEF View, Phase, LiveOf

\* Killing the child of one task is an exit of that task's VM, or a stutter.
LEMMA KillIsExit ==
  ASSUME ExecInv, NEW p, alive' = alive \ {p},
         UNCHANGED <<controllers, removed, owner, lost>>
  PROVE  [TR!Next]_<<[t \in Task |-> Phase(t)], [t \in Task |-> LiveOf(t) \ lost]>>
<1>1. CASE p \in alive \ lost
  <2>1. owner[p] \in Task /\ p \in LiveOf(owner[p]) \ lost
    BY <1>1 DEF ExecInv, Entries, LiveOf
  <2>2. LiveOf(owner[p]) \ lost = {p}
    BY <2>1, OneVM
  <2>3. (LiveOf(owner[p]) \ lost)' = {}
    BY <2>1, <2>2 DEF LiveOf
  <2>4. \A t \in Task : t # owner[p] => (LiveOf(t) \ lost)' = LiveOf(t) \ lost
    BY DEF LiveOf
  <2>5. [t \in Task |-> Phase(t)]' = [t \in Task |-> Phase(t)]
    BY DEF Phase
  <2>6. TR!Exit(owner[p])
    BY <2>1, <2>2, <2>3, <2>4, <2>5 DEF TR!Exit
  <2> QED
    BY <2>1, <2>6 DEF TR!Next
<1>2. CASE p \notin alive \ lost
  <2>1. \A t \in Task : (LiveOf(t) \ lost)' = LiveOf(t) \ lost
    BY <1>2 DEF LiveOf
  <2>2. [t \in Task |-> Phase(t)]' = [t \in Task |-> Phase(t)]
    BY DEF Phase
  <2> QED
    BY <2>1, <2>2
<1> QED
  BY <1>1, <1>2

\* A step of a controller.
LEMMA RefineController ==
  ASSUME ExecInv, NEW c \in Ctl, ControllerStep(c)
  PROVE  [TR!Next]_<<[t \in Task |-> Phase(t)], [t \in Task |-> LiveOf(t) \ lost]>>
<1> USE DEF ctlVars, sweepVars, hostVars, histVars, vmmVars
<1>1. CASE StartDone(c)
  BY <1>1, SameView DEF StartDone, ConfigureVM, View
<1>2. CASE StartFailed(c)
  BY <1>2, KillIsExit DEF StartFailed, StartFail
<1>3. CASE ShutdownReturn(c) \/ TerminateReturn(c)
  BY <1>3, KillIsExit DEF ShutdownReturn, TerminateReturn, StopReturn, StopEnd
<1>4. CASE RemoveVM(c)
  BY <1>4, KillIsExit DEF RemoveVM, RemoveKill
<1>5. CASE RemoveEntry(c)
  BY <1>5, SameView DEF RemoveEntry, RemoveUntrack, View
<1>6. CASE StartTrack(c)
  BY <1>6, SameView DEF StartTrack, Track, View
<1>7. CASE RemoveFinish(c)
  <2>0. PICK t \in Task : t = task[c]
    BY <1>7 DEF RemoveFinish, ExecInv, Ownership
  <2>1. t \in removed /\ controllers[t] = c /\ processes[t] = NoPid
    BY <1>7, <2>0 DEF RemoveFinish, ExecInv, Ownership, MethodState
  <2>2. LiveOf(t) \ lost = {}
    <3>1. \A d \in Ctl : pc[d] = "spawned" => task[d] # t
      BY <1>7, <2>1 DEF RemoveFinish, ExecInv, Ownership
    <3>2. processes[t] \notin alive
      BY <2>1, DistinctNulls DEF ExecInv, TypeOK, VMMTypeOK
    <3> QED
      BY <3>1, <3>2, NoVM
  <2>3. Phase(t) = "removing" /\ Phase(t)' = "removed"
    BY <1>7, <2>0, <2>1, DistinctNulls DEF RemoveFinish, Phase, ExecInv, TypeOK
  <2>4. \A u \in Task : u # t => Phase(u)' = Phase(u)
    BY <1>7, <2>0, <2>1 DEF RemoveFinish, Phase, ExecInv, TypeOK
  <2>5. \A u \in Task : (LiveOf(u) \ lost)' = LiveOf(u) \ lost
    BY <1>7 DEF RemoveFinish, LiveOf
  <2>6. TR!EndRemove(t)
    BY <2>1, <2>2, <2>3, <2>4, <2>5 DEF TR!EndRemove
  <2> QED
    BY <2>1, <2>6 DEF TR!Next
<1> QED
  BY <1>1, <1>2, <1>3, <1>4, <1>5, <1>6, <1>7 DEF ControllerStep

\* A call of the agent.
LEMMA RefineAgent ==
  ASSUME ExecInv, NEW c \in Ctl, AgentCall(c)
  PROVE  [TR!Next]_<<[t \in Task |-> Phase(t)], [t \in Task |-> LiveOf(t) \ lost]>>
<1> USE DEF ctlVars, sweepVars, hostVars, histVars, vmmVars
<1>1. ASSUME NEW v \in Version, Update(c, v) PROVE UNCHANGED View
  BY <1>1 DEF Update, View
<1>2. CASE PrepareOK(c) \/ PrepareNetworkFail(c)
  BY <1>2, SameView DEF PrepareOK, PrepareNetworkFail, View
<1>3. CASE StartSpawnFail(c)
  BY <1>3, SameView DEF StartSpawnFail, SpawnFail, View
<1>4. CASE WaitBlock(c)
  BY <1>4, SameView DEF WaitBlock, View
<1>5. CASE ShutdownCall(c) \/ TerminateCall(c)
  BY <1>5, SameView DEF ShutdownCall, TerminateCall, StopCall, StopBegin, View
<1>6. CASE RemoveCall(c)
  <2>0. PICK t \in Task : t = task[c]
    BY <1>6 DEF RemoveCall, Call, ExecInv, Ownership
  <2>1. t \notin removed /\ controllers[t] = c
    BY <1>6, <2>0 DEF RemoveCall, Call, ExecInv, Ownership
  <2>2. Phase(t) = "assigned" /\ Phase(t)' = "removing"
    BY <1>6, <2>0, <2>1, DistinctNulls DEF RemoveCall, Phase
  <2>3. \A u \in Task : u # t => Phase(u)' = Phase(u)
    BY <1>6, <2>0 DEF RemoveCall, Phase
  <2>4. \A u \in Task : (LiveOf(u) \ lost)' = LiveOf(u) \ lost
    BY <1>6 DEF RemoveCall, LiveOf
  <2>5. TR!BeginRemove(t)
    BY <2>1, <2>2, <2>3, <2>4 DEF TR!BeginRemove
  <2> QED
    BY <2>1, <2>5 DEF TR!Next
<1>7. ASSUME NEW p \in Pid, StartSpawn(c, p)
      PROVE  [TR!Next]_<<[t \in Task |-> Phase(t)], [t \in Task |-> LiveOf(t) \ lost]>>
  <2>0. PICK t \in Task : t = task[c]
    BY <1>7 DEF StartSpawn, MayStart, Call, ExecInv, Ownership
  <2>a. t \notin removed /\ controllers[t] = c /\ ~started[c] /\ pc[c] = "idle"
    BY <1>7, <2>0 DEF StartSpawn, MayStart, Call, ExecInv, Ownership
  <2>1. t \notin removed /\ controllers[t] = c /\ processes[t] \notin alive
    BY <1>7, <2>0, <2>a, DistinctNulls DEF ExecInv, IdleHasNoVM
  <2>2. LiveOf(t) \ lost = {}
    <3>1. \A d \in Ctl : pc[d] = "spawned" => task[d] # t
      BY <2>a DEF ExecInv, Ownership
    <3> QED
      BY <2>1, <3>1, NoVM
  <2>3. p \notin alive \cup lost
    BY <1>7, DistinctNulls DEF StartSpawn, Spawn, ExecInv, Entries
  <2>4. [u \in Task |-> Phase(u)]' = [u \in Task |-> Phase(u)]
    BY <1>7 DEF StartSpawn, Phase
  <2>5. \A u \in Task : u # t => (LiveOf(u) \ lost)' = LiveOf(u) \ lost
    BY <1>7, <2>0, <2>3 DEF StartSpawn, Spawn, Bind, LiveOf, ExecInv, TypeOK, VMMTypeOK
  <2>6. CASE sock[t] = NoPid
    <3>1. (LiveOf(t) \ lost)' = {p}
      BY <1>7, <2>0, <2>2, <2>3, <2>6 DEF StartSpawn, Spawn, Bind, LiveOf, ExecInv, TypeOK,
         VMMTypeOK
    <3>2. Phase(t) = "assigned"
      BY <2>1, DistinctNulls DEF Phase
    <3>3. TR!Boot(t, p)
      BY <2>1, <2>2, <2>4, <2>5, <3>1, <3>2 DEF TR!Boot
    <3> QED
      BY <2>1, <3>3 DEF TR!Next
  <2>7. CASE sock[t] # NoPid
    <3>1. (LiveOf(t) \ lost)' = {}
      BY <1>7, <2>0, <2>2, <2>3, <2>7 DEF StartSpawn, Spawn, Bind, LiveOf, ExecInv, TypeOK,
         VMMTypeOK
    <3> QED
      BY <2>2, <2>4, <2>5, <3>1
  <2> QED
    BY <2>6, <2>7
<1> QED
  BY <1>1, <1>2, <1>3, <1>4, <1>5, <1>6, <1>7, SameView DEF AgentCall

\* Every step is a step of TaskRuntime or a stutter.
LEMMA RefineNext ==
  ASSUME Reassign = FALSE, ExecInv, [Next]_vars
  PROVE  [TR!Next]_<<[t \in Task |-> Phase(t)], [t \in Task |-> LiveOf(t) \ lost]>>
<1> USE DEF ctlVars, sweepVars, hostVars, histVars, vmmVars
<1>1. ASSUME NEW t \in Task, ControllerExisting(t) PROVE UNCHANGED View
  BY <1>1 DEF ControllerExisting, View
<1>2. ASSUME NEW t \in Task, NEW c \in Ctl, ControllerNew(t, c)
      PROVE  [TR!Next]_<<[u \in Task |-> Phase(u)], [u \in Task |-> LiveOf(u) \ lost]>>
  <2>1. Phase(t) = "free" /\ Phase(t)' = "assigned"
    BY <1>2, DistinctNulls DEF ControllerNew, NewController, MayAssign, Phase, ExecInv, TypeOK
  <2>2. \A u \in Task : u # t => Phase(u)' = Phase(u)
    BY <1>2 DEF ControllerNew, NewController, Phase, ExecInv, TypeOK
  <2>3. \A u \in Task : (LiveOf(u) \ lost)' = LiveOf(u) \ lost
    BY <1>2 DEF ControllerNew, NewController, LiveOf
  <2>4. TR!Assign(t)
    BY <2>1, <2>2, <2>3 DEF TR!Assign
  <2> QED
    BY <2>4 DEF TR!Next
<1>3. ASSUME NEW c \in Ctl, WaitReturn(c) PROVE UNCHANGED View
  BY <1>3 DEF WaitReturn, View
<1>4. ASSUME NEW t \in Task, SweepStop(t)
      PROVE  [TR!Next]_<<[u \in Task |-> Phase(u)], [u \in Task |-> LiveOf(u) \ lost]>>
  BY <1>4, KillIsExit DEF SweepStop
<1>5. CASE SweepSnapshot \/ SweepActiveTasks \/ SweepUntrack \/ SweepDone
  BY <1>5, SameView DEF SweepSnapshot, SweepActiveTasks, SweepUntrack, SweepDone, View
<1>6. ASSUME NEW p \in Pid, ChildExit(p)
      PROVE  [TR!Next]_<<[u \in Task |-> Phase(u)], [u \in Task |-> LiveOf(u) \ lost]>>
  BY <1>6, KillIsExit DEF ChildExit, VMExit
<1>7. CASE Restart
  <2>1. \A t \in Task : Phase(t)' = "free"
    BY <1>7 DEF Restart, Phase
  <2>2. \A t \in Task : (LiveOf(t) \ lost)' = {}
    BY <1>7 DEF Restart, LiveOf
  <2>3. TR!Forget
    BY <2>1, <2>2 DEF TR!Forget
  <2> QED
    BY <2>3 DEF TR!Next
<1>8. CASE UNCHANGED vars
  BY <1>8, SameView DEF vars, View
<1> QED
  BY <1>1, <1>2, <1>3, <1>4, <1>5, <1>6, <1>7, <1>8, SameView, RefineAgent,
     RefineController DEF Next, SweepStep

\* The executor with its processes, sockets, sweep and restarts implements the
\* abstract task runtime.
THEOREM ExecutorImplementsTaskRuntime ==
  ASSUME Reassign = FALSE
  PROVE  Spec => ImplementsTaskRuntime
<1>1. Init => TR!Init
  BY DEF Init, VMMInit, TR!Init, Phase, LiveOf
<1>2. ExecInv /\ [Next]_vars
        => [TR!Next]_<<[t \in Task |-> Phase(t)], [t \in Task |-> LiveOf(t) \ lost]>>
  BY RefineNext
<1> QED
  BY <1>1, <1>2, ExecutorInvariant, PTL DEF Spec, ImplementsTaskRuntime, TR!Spec
=============================================================================
