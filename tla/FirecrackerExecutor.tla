------------------------ MODULE FirecrackerExecutor -------------------------
(***************************************************************************)
(* The executor of the command-line tool (pkg/executor/executor.go) on top *)
(* of the VM manager of pkg/lifecycle/vmm.go.  Any number of goroutines    *)
(* call it: `run` calls Prepare, Start, Wait and Remove, and its signal    *)
(* handler calls Remove at any moment.                                     *)
(*                                                                         *)
(* A VMInstance is named by the pid of its child: the manager never waits  *)
(* for a child, so that its pid is not used again and a child that has     *)
(* ended stays a zombie, which signals still find.  The branches of        *)
(* gracefulShutdown, Wait and Describe for a process that is not found are *)
(* therefore never taken, and Wait and Describe change nothing.            *)
(*                                                                         *)
(* vm.mu is held by Start from its first check to its last; the other      *)
(* methods hold it for one step.  The state of an instance has a lock of   *)
(* its own, so that Stop tests and sets it in two steps.                   *)
(***************************************************************************)
EXTENDS Integers, FiniteSets

CONSTANTS
  Task, Image,
  ImageOf,       \* the image of each task
  Client,        \* the goroutines
  NoClient,
  Closing,       \* may Close be called?
  MaxSpawns,     \* bound: how many children are started
  MaxEvents      \* the capacity of the events channel

Pid == 1..MaxSpawns
NoPid == 0

ASSUME ExecutorAssumptions ==
  /\ Task # {}
  /\ ImageOf \in [Task -> Image]
  /\ NoClient \notin Client
  /\ Closing \in BOOLEAN
  /\ MaxSpawns \in Nat
  /\ MaxEvents \in Nat

VARIABLES
  vms,       \* VMMManager.vms: the instance of each task
  state,     \* the state of each instance
  init,      \* the instances whose task says that it has an init system
  spawned,   \* how many children have been started
  alive,     \* the children that run
  mu,        \* who holds vm.mu
  pc,        \* where each goroutine is
  task,      \* the task it works on
  inst,      \* the instance it has looked up or is starting
  removing,  \* the goroutines that run Stop as the first part of Remove
  rootfs,    \* the images whose rootfs file exists
  prepared,  \* the tasks with a "rootfs" annotation
  annotated, \* the tasks with an "init_system" annotation
  events,    \* how many events are in the channel
  closed,    \* eventsClosed, and the channel being closed
  panicked   \* a send on the closed channel

vmVars  == <<vms, state, init, spawned, alive, mu>>
envVars == <<rootfs, prepared, annotated>>
evVars  == <<events, closed, panicked>>
me      == <<pc, task, inst, removing>>
vars    == <<vmVars, envVars, evVars, me>>

Init ==
  /\ vms = [t \in Task |-> NoPid]
  /\ state = [p \in Pid |-> "unset"]
  /\ init = {}
  /\ spawned = 0
  /\ alive = {}
  /\ mu = NoClient
  /\ pc = [c \in Client |-> "idle"]
  /\ task = [c \in Client |-> CHOOSE t \in Task : TRUE]
  /\ inst = [c \in Client |-> NoPid]
  /\ removing = {}
  /\ rootfs \in SUBSET Image  \* what an earlier process has left behind
  /\ prepared = {}
  /\ annotated = {}
  /\ events = 0
  /\ closed = FALSE
  /\ panicked = FALSE

Goto(c, where) ==
  /\ pc' = [pc EXCEPT ![c] = where]
  /\ UNCHANGED <<task, inst, removing>>

Return(c) ==
  /\ pc' = [pc EXCEPT ![c] = "idle"]
  /\ inst' = [inst EXCEPT ![c] = NoPid]
  /\ removing' = removing \ {c}
  /\ UNCHANGED task

\* Stop is over, with or without an error: its caller gets the result, or Remove
\* goes on and ignores it.
StopReturn(c) == IF c \in removing THEN Goto(c, "cleanup") ELSE Return(c)

SetState(p, s) == state' = [state EXCEPT ![p] = s]

\* A goroutine makes its next call, for a task of its choice.
Call(c, t, where, rm) ==
  /\ pc[c] = "idle"
  /\ ~panicked
  /\ task' = [task EXCEPT ![c] = t]
  /\ pc' = [pc EXCEPT ![c] = where]
  /\ inst' = [inst EXCEPT ![c] = NoPid]
  /\ removing' = IF rm THEN removing \cup {c} ELSE removing \ {c}

-----------------------------------------------------------------------------
(***************************************************************************)
(* Prepare: the image, then the network; the rootfs is deleted if the      *)
(* network fails.  The file is shared by all tasks of an image, and a task *)
(* that finds it gets no init annotation.  The devices and addresses that  *)
(* PrepareNetwork sets up are in TapNetwork; here it succeeds or fails.    *)
(***************************************************************************)
PrepareImage(c, t) ==
  /\ Call(c, t, "network", FALSE)
  /\ rootfs' = rootfs \cup {ImageOf[t]}
  /\ prepared' = prepared \cup {t}
  /\ annotated' = IF ImageOf[t] \in rootfs THEN annotated ELSE annotated \cup {t}
  /\ UNCHANGED <<vmVars, evVars>>

PrepareNetwork(c) ==
  /\ pc[c] = "network"
  /\ Return(c)
  /\ UNCHANGED <<vmVars, envVars, evVars>>

PrepareRollback(c) ==
  /\ pc[c] = "network"
  /\ rootfs' = rootfs \ {ImageOf[task[c]]}
  /\ Return(c)
  /\ UNCHANGED <<prepared, annotated, vmVars, evVars>>

(***************************************************************************)
(* Start.  The translator needs the rootfs annotation.                     *)
(***************************************************************************)
StartCall(c, t) ==
  /\ t \in prepared
  /\ spawned < MaxSpawns
  /\ Call(c, t, "start", FALSE)
  /\ UNCHANGED <<vmVars, envVars, evVars>>

\* The task has a VM, or the child cannot be started.
StartRefused(c) ==
  /\ pc[c] = "start"
  /\ mu = NoClient
  /\ Return(c)
  /\ UNCHANGED <<vmVars, envVars, evVars>>

StartSpawn(c) ==
  /\ pc[c] = "start"
  /\ mu = NoClient
  /\ vms[task[c]] = NoPid
  /\ spawned < MaxSpawns
  /\ spawned' = spawned + 1
  /\ alive' = alive \cup {spawned + 1}
  /\ mu' = c
  /\ pc' = [pc EXCEPT ![c] = "boot"]
  /\ inst' = [inst EXCEPT ![c] = spawned + 1]
  /\ UNCHANGED <<vms, state, init, task, removing, envVars, evVars>>

\* Mutant: an early return without the unlock.
StartFail_KeepsLock(c) ==
  /\ pc[c] = "boot"
  /\ alive' = alive \ {inst[c]}
  /\ Return(c)
  /\ UNCHANGED <<vms, state, init, spawned, mu, envVars, evVars>>

\* The API never answers or refuses the configuration: the child is killed.
StartFail(c) ==
  /\ pc[c] = "boot"
  /\ alive' = alive \ {inst[c]}
  /\ mu' = NoClient
  /\ Return(c)
  /\ UNCHANGED <<vms, state, init, spawned, envVars, evVars>>

StartOK(c) ==
  /\ pc[c] = "boot"
  /\ inst[c] \in alive
  /\ vms' = [vms EXCEPT ![task[c]] = inst[c]]
  /\ SetState(inst[c], "running")
  /\ init' = IF task[c] \in annotated THEN init \cup {inst[c]} ELSE init
  /\ mu' = NoClient
  /\ Goto(c, "event")
  /\ UNCHANGED <<spawned, alive, envVars, evVars>>

(***************************************************************************)
(* sendEvent tests eventsClosed, releases the lock, and then sends, for    *)
(* five seconds at most.                                                   *)
(***************************************************************************)
EventClosed(c) ==
  /\ pc[c] = "event"
  /\ closed
  /\ Return(c)
  /\ UNCHANGED <<vmVars, envVars, evVars>>

EventOpen(c) ==
  /\ pc[c] = "event"
  /\ ~closed
  /\ Goto(c, "send")
  /\ UNCHANGED <<vmVars, envVars, evVars>>

Send(c) ==
  /\ pc[c] = "send"
  /\ ~closed
  /\ events < MaxEvents
  /\ events' = events + 1
  /\ Return(c)
  /\ UNCHANGED <<closed, panicked, vmVars, envVars>>

SendPanic(c) ==
  /\ pc[c] = "send"
  /\ closed
  /\ panicked' = TRUE
  /\ Return(c)
  /\ UNCHANGED <<events, closed, vmVars, envVars>>

SendTimeout(c) ==
  /\ pc[c] = "send"
  /\ ~closed
  /\ events = MaxEvents
  /\ Return(c)
  /\ UNCHANGED <<vmVars, envVars, evVars>>

Close(c) ==
  /\ Closing
  /\ ~closed
  /\ pc[c] = "idle"
  /\ ~panicked
  /\ closed' = TRUE
  /\ UNCHANGED <<events, panicked, vmVars, envVars, me>>

-----------------------------------------------------------------------------
(***************************************************************************)
(* Stop, called as such or by Remove.                                      *)
(***************************************************************************)
StopCall(c, t) ==
  /\ Call(c, t, "stop", FALSE)
  /\ UNCHANGED <<vmVars, envVars, evVars>>

RemoveCall(c, t) ==
  /\ Call(c, t, "stop", TRUE)
  /\ UNCHANGED <<vmVars, envVars, evVars>>

\* There is no VM, or it is stopping already: an error.
StopRefused(c) ==
  /\ pc[c] = "stop"
  /\ mu = NoClient
  /\ LET p == vms[task[c]] IN p # NoPid => state[p] = "stopping"
  /\ StopReturn(c)
  /\ UNCHANGED <<vmVars, envVars, evVars>>

StopLookup(c) ==
  /\ pc[c] = "stop"
  /\ mu = NoClient
  /\ LET p == vms[task[c]] IN
       /\ p # NoPid
       /\ state[p] # "stopping"
       /\ inst' = [inst EXCEPT ![c] = p]
  /\ pc' = [pc EXCEPT ![c] = "mark"]
  /\ UNCHANGED <<task, removing, vmVars, envVars, evVars>>

StopMark(c) ==
  /\ pc[c] = "mark"
  /\ SetState(inst[c], "stopping")
  /\ Goto(c, "signal")
  /\ UNCHANGED <<vms, init, spawned, alive, mu, envVars, evVars>>

(***************************************************************************)
(* gracefulShutdown: SIGTERM, and the end of the grace period or of the    *)
(* context.  The poll with signal 0 never sees the end of the child.       *)
(***************************************************************************)
Terminate(c) ==
  /\ pc[c] = "signal"
  /\ inst[c] \in init
  /\ Goto(c, "grace")
  /\ UNCHANGED <<vmVars, envVars, evVars>>

\* Mutant: the call gives up without the kill.
GraceExpire_NoKill(c) ==
  /\ pc[c] = "grace"
  /\ StopReturn(c)
  /\ UNCHANGED <<vmVars, envVars, evVars>>

\* forceKillVM does not touch the state, which stays "stopping".
GraceExpire(c) ==
  /\ pc[c] = "grace"
  /\ alive' = alive \ {inst[c]}
  /\ StopReturn(c)
  /\ UNCHANGED <<vms, state, init, spawned, mu, envVars, evVars>>

(***************************************************************************)
(* hardShutdown: SendCtrlAltDel, then up to thirty seconds for the socket  *)
(* file to disappear.  Firecracker leaves it behind, so the wait and the   *)
(* timer end together, and either may be seen.                             *)
(***************************************************************************)
CtrlAltDel(c) ==
  /\ pc[c] = "signal"
  /\ inst[c] \notin init
  /\ inst[c] \in alive
  /\ Goto(c, "halt")
  /\ UNCHANGED <<vmVars, envVars, evVars>>

CtrlAltDelFail(c) ==
  /\ pc[c] = "signal"
  /\ inst[c] \notin init
  /\ alive' = alive \ {inst[c]}
  /\ StopReturn(c)
  /\ UNCHANGED <<vms, state, init, spawned, mu, envVars, evVars>>

HaltDone(c) ==
  /\ pc[c] = "halt"
  /\ SetState(inst[c], "stopped")
  /\ StopReturn(c)
  /\ UNCHANGED <<vms, init, spawned, alive, mu, envVars, evVars>>

HaltExpire(c) ==
  /\ pc[c] = "halt"
  /\ alive' = alive \ {inst[c]}
  /\ StopReturn(c)
  /\ UNCHANGED <<vms, state, init, spawned, mu, envVars, evVars>>

(***************************************************************************)
(* Remove, after its Stop: CleanupNetwork, then VMMManager.Remove.         *)
(***************************************************************************)
CleanupNetwork(c) ==
  /\ pc[c] = "cleanup"
  /\ Goto(c, "remove")
  /\ UNCHANGED <<vmVars, envVars, evVars>>

RemoveRefused(c) ==
  /\ pc[c] = "remove"
  /\ mu = NoClient
  /\ vms[task[c]] # NoPid
  /\ state[vms[task[c]]] = "stopping"
  /\ Return(c)
  /\ UNCHANGED <<vmVars, envVars, evVars>>

\* Mutant: the process is left to itself.
RemoveOK_NoKill(c) ==
  /\ pc[c] = "remove"
  /\ mu = NoClient
  /\ vms[task[c]] # NoPid => state[vms[task[c]]] # "stopping"
  /\ vms' = [vms EXCEPT ![task[c]] = NoPid]
  /\ Return(c)
  /\ UNCHANGED <<state, init, spawned, alive, mu, envVars, evVars>>

RemoveOK(c) ==
  /\ pc[c] = "remove"
  /\ mu = NoClient
  /\ LET p == vms[task[c]] IN
       /\ p # NoPid => state[p] # "stopping"
       /\ alive' = IF p # NoPid /\ state[p] = "running" THEN alive \ {p} ELSE alive
  /\ vms' = [vms EXCEPT ![task[c]] = NoPid]
  /\ Return(c)
  /\ UNCHANGED <<state, init, spawned, mu, envVars, evVars>>

-----------------------------------------------------------------------------
\* A child ends: it was told to, or its guest is done, or it crashed.
Exit(p) ==
  /\ p \in alive
  /\ alive' = alive \ {p}
  /\ UNCHANGED <<vms, state, init, spawned, mu, envVars, evVars, me>>

\* Someone reads the events channel.
Receive ==
  /\ events > 0
  /\ events' = events - 1
  /\ UNCHANGED <<closed, panicked, vmVars, envVars, me>>

-----------------------------------------------------------------------------
\* The steps of a call that is under way; a panic ends the process.
Step(c) ==
  /\ ~panicked
  /\ \/ PrepareNetwork(c) \/ PrepareRollback(c)
     \/ StartRefused(c) \/ StartSpawn(c) \/ StartFail(c) \/ StartOK(c)
     \/ EventClosed(c) \/ EventOpen(c) \/ Send(c) \/ SendPanic(c) \/ SendTimeout(c)
     \/ StopRefused(c) \/ StopLookup(c) \/ StopMark(c)
     \/ Terminate(c) \/ GraceExpire(c)
     \/ CtrlAltDel(c) \/ CtrlAltDelFail(c) \/ HaltDone(c) \/ HaltExpire(c)
     \/ CleanupNetwork(c) \/ RemoveRefused(c) \/ RemoveOK(c)

NewCall(c) ==
  \/ \E t \in Task : PrepareImage(c, t) \/ StartCall(c, t) \/ StopCall(c, t)
                     \/ RemoveCall(c, t)
  \/ Close(c)

Next ==
  \/ \E c \in Client : Step(c) \/ NewCall(c)
  \/ \E p \in Pid : Exit(p)
  \/ Receive

\* A call goes on until it returns: requests and waits have timeouts, and the
\* lock is granted in turn.  No call need be made and no child need exit.
Spec ==
  /\ Init /\ [][Next]_vars
  /\ \A c \in Client : SF_vars(Step(c))

-----------------------------------------------------------------------------
(***************************************************************************)
(* Properties.                                                             *)
(***************************************************************************)

\* Every Firecracker process that runs can still be reached through the map,
\* or is being started: none is leaked by a failed start, by a Stop that gave
\* up or by a Remove that raced with it.  The one exception is a guest without
\* init system that outlives hardShutdown, which takes it for stopped.
LiveVMTracked ==
  \A p \in alive :
    \/ \E t \in Task : vms[t] = p
    \/ \E c \in Client : pc[c] = "boot" /\ inst[c] = p
    \/ p \notin init /\ state[p] \in {"stopping", "stopped"}

\* A VM that is left in the state "stopping" has no process.  The state is final: Stop
\* and Remove refuse such an instance, so that a process behind it could never be ended
\* through the manager.  Every way out of a Stop must kill the child or set another state,
\* also when two Stops have passed the test of the state before either has set it.
StuckIsDead ==
  \A p \in alive :
    state[p] = "stopping" =>
      \E c \in Client : pc[c] \in {"signal", "grace", "halt"} /\ inst[c] = p

\* vm.mu is handed on: every call returns, unless the process ends in a panic (a send on
\* the events channel that Close has closed meanwhile, see SendPanic).
CallsReturn ==
  \A c \in Client : pc[c] # "idle" ~> (pc[c] = "idle" \/ panicked)

-----------------------------------------------------------------------------
\* The inductive invariant of FirecrackerExecutorProofs.

Stopping == {"mark", "signal", "grace", "halt"}
Places   == Stopping \cup {"idle", "network", "start", "boot", "event", "send", "stop", "cleanup", "remove"}

TypeOK ==
  /\ vms \in [Task -> Pid \cup {NoPid}]
  /\ state \in [Pid -> {"unset", "running", "stopping", "stopped"}]
  /\ init \subseteq Pid
  /\ spawned \in 0..MaxSpawns
  /\ alive \subseteq 1..spawned
  /\ mu \in Client \cup {NoClient}
  /\ pc \in [Client -> Places]
  /\ task \in [Client -> Task]
  /\ inst \in [Client -> Pid \cup {NoPid}]

\* A child that is being started is nobody else's, and its starter has the lock.
Booting(c) == pc[c] = "boot" =>
  /\ mu = c
  /\ inst[c] \in 1..spawned
  /\ state[inst[c]] = "unset"
  /\ vms[task[c]] = NoPid

\* What a Stop works on, and what the map holds, has been started.
Started(p) == p \in 1..spawned /\ state[p] # "unset"
Halting(c) == pc[c] \in Stopping => Started(inst[c])
Halted(c)  == pc[c] = "halt" => inst[c] \notin init
Mapped(t)  == vms[t] # NoPid => Started(vms[t])

\* An instance with an init system never gets to "stopped": it ends as "stopping".
InitNotStopped == \A p \in init : state[p] # "stopped"

LocalInv ==
  /\ TypeOK
  /\ \A c \in Client : Booting(c) /\ Halting(c) /\ Halted(c)
  /\ \A t \in Task : Mapped(t)
  /\ \A p \in init : Started(p)
  /\ \A p \in Pid \ (1..spawned) : state[p] = "unset"
  /\ InitNotStopped
  /\ LiveVMTracked
  /\ StuckIsDead
=============================================================================
