# SwarmCracker in TLA+

SwarmCracker runs SwarmKit tasks as Firecracker microVMs. This directory holds TLA+ models of the parts
of it that keep state, TLC configurations that check them on small instances, and TLAPS proofs about all of
them for instances of any size. Paths below are relative to the repository (`src/`).

## 1. The system

A *node* runs `swarmd-firecracker`: a SwarmKit agent with SwarmCracker's executor plugged in. For every
task assigned to the node the agent asks the executor for a *controller* and drives it through Prepare,
Start, Wait, Shutdown or Terminate, and Remove. A *manager* node also runs the CNI network allocator. The
command-line tool `swarmcracker` runs VMs without a cluster, with an executor and a state file of its own; it
also makes a host a manager or a worker and unmakes it, and with `swarmctl` it changes services and nodes.

| Component | State it keeps | Operations | Interacts with |
|---|---|---|---|
| SwarmKit executor, `pkg/swarmkit/executor.go` | `controllers` by task; per controller the task, prepared and started flags | Controller, Update, Prepare, Start, Wait, Shutdown, Terminate, Remove; the orphan sweep | called by the agent; calls process manager, network manager, image preparer, volumes |
| Process manager, `pkg/swarmkit/vmm.go` | `processes` by task, behind `processMutex`; children and API sockets of the host | Start, Stop, Wait, Remove, GetRunningProcesses, RemoveProcess | called by controllers and the sweep |
| TAP network, `pkg/network/manager.go`, `cni_client.go`, `cmd/swarmcracker-cni` | `tapDevices`, the allocator's table, TAP links of the kernel | PrepareNetwork, CleanupNetwork, Allocate, Release | called by controllers of different tasks concurrently |
| Overlay, `pkg/network/vxlan.go`, `manager.go`, `pkg/discovery/consul.go` | bridge, VXLAN manager, peer stores, queue of peers, forwarding table | ensureBridge, UpdatePeers, the Consul watcher, the UDP listener | start-up, PrepareNetwork, two background goroutines |
| Local executor, `pkg/executor`, `pkg/lifecycle` | instances and their state, events channel, rootfs files | Prepare, Start, Stop, Wait, Describe, Remove, Close | `run` and its signal handler |
| State file, `pkg/runtime/state.go`, `cmd/swarmcracker` | `state.json`, its temporary file | run --detach, vm create, stop, list | separate processes, no lock between them |
| Snapshots, `pkg/snapshot`, `cmd_snapshot.go` | snapshot directories, paused VMs, staging directories | create, restore, delete, cleanup, the limit per service | separate processes, Firecracker's API |
| Network allocator, `pkg/cni` | networks, subnets, one address pool per subnet | Allocate and Deallocate for networks, services, tasks, attachments | SwarmKit's allocator, which retries |
| Image preparer, `pkg/image` | rootfs files by image and their age, lock files, the information on the last image pulled | Prepare (look, lock, look again, pull, inject init, mkfs, verify), Cleanup by age | both executors; all tasks of an image share a file |
| Volumes and secrets, `pkg/storage` | volume directories, `meta.json`, archives, the mount target in each rootfs | Create, Mount, Unmount, Delete, Snapshot, Restore, Export, Import, updates of the metadata | controllers, the `volume` commands of two tools |
| Node daemon and cluster commands, `cmd/swarmd-firecracker`, `cmd_init.go` to `cmd_reset.go`, `cmd_setup.go`, `install.sh` | systemd units, the state directory, configuration, bridge, installed programs | install, init, join, leave, deinit, reset, setup, deploy; the daemon starts, fails and is restarted | an operator, systemd, the daemon that runs meanwhile |
| Service, node and task commands, `cmd_service.go`, `cmd_node.go`, `cmd/swarmctl` | none; the manager's store | create, update, scale, remove; availability, promote, demote, remove | several at a time, through the control API |
| Jailer, `pkg/jailer` | process map, chroot directories, cgroups | Start, Stop | process manager in jailer mode |
| Translators, security, configuration, diagnosis | none that outlives a call | pure translation, file generation, requests | |

What is hard in it:

* *Interleaving.* Controllers of different tasks, the sweep and the exits of children share one process
  map; Prepare of one task overlaps with Cleanup of another; the watcher, the listener and several
  ensureBridge calls share the overlay's fields, part of the time without the lock; commands of the
  command-line tool share files without any lock; volumes are copied file by file; service commands read, change
  and write back; the daemon of a host is restarted by systemd in the middle of a command that removes it.
* *Failure.* A node process stops and leaves its children running; commands are killed between two writes;
  every `ip` command and every request to Firecracker may fail half way through a method; every step of a
  cluster command may fail or be interrupted, and the command or the next one has to cope.
* *Time-outs.* A guest ignores SIGTERM or SendCtrlAltDel and outlives its grace period; an answer is lost.
* *Limits.* Subnets with two addresses, pools that are full, a limit of one snapshot.

What makes each part correct: no VM is lost or killed while its task is in use (both executors), two VMs
never have the same address and addresses are given back (TAP network, allocator), peers that stay are
reached (overlay), a file that several commands write stays readable and keeps its entries (state file,
snapshots, volumes), no VM stays paused (snapshots), what Prepare hands out is finished (images), a host that left
the cluster stays out (cluster commands), and no command overwrites what another has changed (service
commands). `PROJECT.json` lists the hazards line by line.

## 2. Modules

| Module | Models | Checked by |
|---|---|---|
| `VMMManager` | `vmm.go` in direct mode: the steps of its methods as operators over the process map, the living children, the sockets | through `SwarmExecutor` |
| `SwarmExecutor` | `executor.go`: extends `VMMManager` with controllers, sweep and restart; also holds the inductive invariant | `MCSwarmExecutor` |
| `TaskRuntime` | abstract: at most one VM per task, only between assignment and removal, removal complete only without VM | refined by `SwarmExecutor` |
| `TapNetwork` | addresses and TAP devices of a node | `MCTapNetwork` |
| `OverlayNetwork` | bridge and VXLAN set-up, watcher, listener | `MCOverlayNetwork` |
| `FirecrackerExecutor` | the local executor and its VM manager | `MCFirecrackerExecutor` |
| `StateFile` | the state file and its commands | `MCStateFile` |
| `Snapshots` | snapshot commands | `MCSnapshots` |
| `NetworkAllocator` | `pkg/cni`: allocator, provider, IPAM | `MCNetworkAllocator` |
| `ImagePreparer` | `pkg/image`: the shared root filesystem files, their lock, init injection, clean-up | `MCImagePreparer` |
| `Volumes` | `pkg/storage`: volume drivers, metadata, archives, and the commands that use them | `MCVolumes` |
| `ClusterHost` | one host under install, init, join, leave, deinit, reset, setup and deploy, with its daemons; holds the inductive invariant | `MCClusterHost` |
| `ControlCommands` | service and node commands of both tools against the manager's store | `MCControlCommands` |
| `SwarmExecutorProofs`, `FirecrackerExecutorProofs`, `StateFileProofs`, `ImagePreparerProofs`, `ClusterHostProofs` | the theorems about the module each is named after, which ends with the inductive invariant | tlapm |
| `NetworkProofs` | the theorems about `TapNetwork` and `OverlayNetwork` | tlapm |
| `StorageProofs` | the theorems about `Snapshots` and `Volumes` | tlapm |
| `ManagerProofs` | the theorems about `ControlCommands` and `NetworkAllocator` | tlapm |

Two modules that share a module of proofs have different names for their specifications: `Spec` and `OverlaySpec`,
`Spec` and `VolumeSpec`, `Spec` and `AllocSpec`.

`PROJECT.json` maps every definition to the lines it models. A definition whose name ends in `_Something`
under a comment "Mutant" is not part of a model: it is a plausible bug, and the run that its property
belongs to must fail with it.

How state and steps correspond to the code:

* **SwarmExecutor, VMMManager.** `controllers`, `prepared`, `started`, `internal` are the fields of the
  same names. `Controller.mu` serialises the methods of one controller, so `pc[c]` is the one method of
  `c` that is running; Wait is the exception and has a variable of its own, `waiting`. A method is cut
  where it takes or releases `processMutex` or waits: Start into spawn (`Spawn`), the store of the child in
  the map (`Track`, which may wait for the Stop of another task while the child already runs) and configure,
  Stop (which holds the mutex while it waits) into begin and end, Remove into kill, untrack, and finish. The sweep copies the map,
  then reads the controllers, then handles one orphan after the other. `Restart` is a stop and start of
  the node process: maps are empty, children and socket files stay. Children are numbered by spawn and
  exit at any moment. The agent is external: its methods may come in
  any order that the code's checks allow, but it makes one call of a controller at a time, Wait aside, and
  none after Remove, as SwarmKit's agent does; so nothing queues on `Controller.mu`. The end of a Stop (delete
  the entry, clean up the network, `started = false`) is one step: `Controller.mu` keeps every other method of
  the controller out, and what other tasks see of it is the entry alone.
* **TapNetwork.** An address is its offset in the subnet. Allocation takes only the allocator's lock and
  so is a step of its own; Cleanup holds `nm.mu` and releases one device per step. Each command may fail, the
  deletion after a failure and CNI DEL included, whose failures the code only logs. `addFailed` and `delFailed`
  remember for which tasks.
* **OverlayNetwork.** A VXLAN manager is named by the ensureBridge call that made it, since each has its own
  peer store. `nm.mu` is not held during the set-up: its reads and writes of the queue and of `vxlanMgr`
  are separate steps, as are those of the watcher. The interface is looked up in one step and added in another,
  so that of two calls that find none one fails. The watcher may never start (`WatchStartFail`: no Consul client,
  or no registration), and then Consul is not asked for peers either.
* **FirecrackerExecutor.** An instance is named by its child. `vm.mu` is held from the first to the last
  step of Start; Stop tests and sets the state of an instance in two steps, as the code does with the
  instance's own lock. Nobody waits for a child, so a dead one stays a zombie that signal 0 still finds: the
  grace period of a Stop always runs out, and the instance stays `stopping`. Wait and Describe therefore change
  nothing, and are not actions.
* **StateFile.** A command is a process: load, change the copy, open the temporary file, write, rename.
  A file is absent, empty, corrupt or a list; renaming while another process writes is modelled by where
  its descriptor points afterwards. `overlap` remembers whether two commands ever ran at the same time.
* **Snapshots.** A process runs one command; a snapshot has the name of the process that takes it. Files are
  moved one by one and the metadata is written last, in two steps. Listing is one step. The clock advances
  with each snapshot, and snapshots expire in order of age.
* **NetworkAllocator.** Every method holds the allocator's mutex, so it is one action; the loop over the networks of
  a task is a recursive function of the round (`Served`, `Released`), and an error ends it, with what the rounds
  before it have taken still taken. `lost` remembers the addresses that a call replaced in its owner's hands. An address is a pair of a
  subnet and an offset that may exceed the subnet. An IPv4 address is the sequence of four octets, with the base of
  the octets as a parameter.
* **ImagePreparer.** A tree is the set of the paths the code looks for, a file its image, its wrapper and its
  age in days. `Verified` says that the file exists: the code runs debugfs and looks at its exit status only,
  which is 0 also when /init is missing (`credential_store.go:250` says so of the same tool). `InitSystem` is
  `initInjector.IsEnabled()`. `torn` remembers the files that a crash in mkfs has left. A Prepare is at one step of `prepareWithLock`; Cleanup and the local executor's roll-back take
  no lock and so may come between any two of them. `ociInfo` is one field that all calls share, as in the
  code. A reference is a sequence of components, so that two references may yield the same file name.
* **Volumes.** A data directory maps names of files to lengths, so that a file rewritten without truncation is
  told from a whole one. Copies go file by file. The tasks of an image share one root filesystem file (`ImageOf`,
  `Rootfs`), and a running microVM may write to it at any moment, also while Remove copies from it. An export may
  end well although its last writes failed, since the errors of its two Close calls are dropped. Reading and writing the metadata are two steps. `calm` records
  whether anybody else touched the volume, or the root filesystem, since the operation began. The drivers share directories, and the
  directory driver answers first, so that a block volume is handled by it.
* **ClusterHost.** A command is a record: which one, its next step, its flags, among them `unsure` once a step
  failed and the command went on. systemd is external: a stop takes the control group down and cancels a
  pending restart, on-failure brings a daemon back that was killed, a reboot brings every enabled one back.
  `out` remembers the roles that were given up by a command that reported success. install.sh copies the programs;
  in its join mode it then stops the worker and clears its state, with the same steps as join, and installs
  Firecracker; the `init` or `join` that it runs last is the command itself. After `join --manager` the unit of the
  worker runs a manager daemon, which only shows in the migration of the address. The legacy unit
  `swarmd-firecracker.service`, which reset and join stop as well, is left out: of the
  repository only a deployment script (`scripts/deploy-firecracker-agent.sh`) installs it.
* **ControlCommands.** A command is a process with its next request and its copy of the object. The manager is
  external: versioned objects, an update with an old version refused, answers that may be lost.

## 3. What TLC checks

Twelve runs. Deadlock is checked in `image`, `volumes`, `host` and `control`; the other systems may come to rest
(no task left to run, no command left to start, a bound reached), and their `.cfg` says so.

| Run | Instance | Properties |
|---|---|---|
| `exec_safety` | 2 tasks, 3 controllers, 3 children, 1 restart, symmetric (1.5 million states) | `TypeOK`, `LiveVMTracked`, `StartedIsTracked`, `SweepSparesHeldTasks`, `RemovedLeavesNothing`, `StopLeavesNoVM`, and that `SwarmExecutor` implements `TaskRuntime` |
| `exec_live` | 2 tasks, 2 controllers, 2 children | `RemoveUnblocksWait`: Remove gets a blocked Wait out, also while the Stop of the other task holds the mutex |
| `net_safety` | 3 tasks, one per kind of attachment, 2 colliding, 5 addresses of which 2 are usable | `UniqueIPs`, `AddressReserved`, `CleanupComplete`, `NoFalseExhaustion` |
| `overlay` | 2 peers, boot and 2 calls, 1 change of the registry, any command failing once | `StoreForwarded`, `PeersForwardedUnlessFault`, `StoreConverges` |
| `local` | 1 task, 2 goroutines, 2 spawns, events channel of 1, with Close | `LiveVMTracked`, `StuckIsDead`, `CallsReturn` |
| `state` | 3 commands on 2 IDs, 2 at a time, 2 faults (1.1 million states) | `FileLoads`, `SavedStays`, `Reconciled` |
| `snap` | 2 VMs of one service, 3 commands at a time, limit 1, any fault once, symmetric (2 million states) | `NewestKept`, `LimitKept`, `NotLeftPaused`, `FailedRestoreLeavesNoVM`, `ListedIsWhole`, `CleanupSparesYoung` |
| `alloc` | 2 networks, 2 tasks, one of them on both, 1 service on both, 1 node, 3 addresses per subnet, 3 indices | `UniqueAddresses`, `LostOnlyWhenReplaced` |
| `image` | 2 tasks, 2 images, one with an init system of its own, 1 day of keeping | `HandsOutFinished`, `GoodIsKept`, `PrepareReturns` |
| `volumes` | 1 task and 1 command on a volume of 2 files, symmetric (1.7 million states) | `UndisturbedCopies`, `FilesLeaveOnPurpose` |
| `host` | one host, every sequence of commands; nothing is bounded | `TypeOK`, `LeftStaysOut`, `OwnDaemonStopped` |
| `control` | 2 commands at a time, 2 service IDs with one name, 1 node, 4 writes, symmetric (4.4 million states) | `UpdatesMerge`, `RemoveSparesNewer` |

`TypeOK` is an invariant of the two runs whose type correctness is a theorem of its own; in the other modules with
proofs it is a part of the inductive invariant, which holds on the instance of the run as well.

*Why the bounds are enough.* The executor needs two tasks for the sweep and Stop to compete for the mutex,
a third controller for a task assigned again after a restart, and a third child for a Start that fails and
is repeated; more tasks do not meet, since every entry belongs to one task (this is what the proofs
establish for all sizes). In `net_safety` the subnet has offsets 0 to 4 with the gateway at 4, and probes start
at 2, so that three tasks compete for the offsets 2 and 3: they reach exhaustion, the wrap-around and a collision.
A task and a service on two networks of three addresses each let an Allocate of the allocator fail in its second
round and be repeated. Two set-up calls after a failed boot call race with each other, the watcher and the listener.
Two spawns let an old Stop run into a new instance. Two overlapping processes reach every interleaving of
two read-modify-write cycles, and a third one sees the result. A limit of one snapshot makes every create
enforce it. Two images and two tasks reach a shared file, a shared lock and the shared image information. Two
files per volume let a copy be disturbed half-way; lengths 1 and 2 tell a shorter file from a longer one. Four
writes suffice for a create and two updates that race with a remove and a create of the same name.
`MaxVersion`, `MaxRestarts`, `MaxSpawns`, `MaxChanges`, `MaxActive`, `MaxFaults`, `MaxIndex`, `MaxHost`, `MaxLen`,
`MaxAge` and `MaxReplicas` are the bounds in guards.

*Conditional properties.* Several promises of the code hold only under conditions, and the properties say which:
`LiveVMTracked` of the local executor for guests with an init system, `CallsReturn` unless the process panics, the
file properties while
commands do not overlap, `NotLeftPaused` unless the pause or the resume request itself fails or the command is
killed, `LimitKept` unless a create was killed or could not list, `CleanupComplete` for tasks without a failed
command, `LostOnlyWhenReplaced` but for what a retry replaces, `HandsOutFinished` but for files that a crash tore,
that were removed under the call, or that the first look, without the lock, found half-written,
`StoreForwarded` and `PeersForwardedUnlessFault` unless the VXLAN interface or an entry could not be made, which
includes the race of two calls for the interface, the former for the current VXLAN manager only, the latter and
`StoreConverges` on a node whose watcher was started, `UndisturbedCopies` while nobody else touches the volume and
no microVM writes to the root filesystem, `UpdatesMerge` for the flags that the parsing has not dropped,
`LeftStaysOut` once the command reported success without a failed step, `OwnDaemonStopped` unless systemctl stop
itself failed. Section 5 says what happens otherwise.

*Fairness.* In `SwarmExecutor` (`FairSpec`) a method that was called goes on: its waits have time-outs, and
sync.Mutex does not starve a waiter, hence strong fairness for steps that take `processMutex`; `cmd.Wait`
returns once the child is dead; the sweep is driven by a ticker. Nothing is assumed of the agent or of the
guests. In `OverlayNetwork` a set-up call that was made returns, and the boot call is made; no task need ever be
prepared, so no other call need be made (`PeersForwardedUnlessFault` speaks of a node that has a manager); a watcher
that was started polls in an endless loop, and the listener handles what it has read; nothing is assumed of other nodes. In `FirecrackerExecutor` a call under way goes
on, with strong fairness since it may wait for `vm.mu`; no call need be made and no child need exit. In
`ImagePreparer` the steps of a call go on, and the lock file is served to a waiter that keeps waiting (strong
fairness of `Lock`: flock queues its waiters, and the kernel drops the lock of a process that dies). The other
modules state safety only.

## 4. What is proved

`SwarmExecutorProofs` proves, for any sets of tasks, controllers and children and any bounds:

* `TypeCorrect`: `Spec => []TypeOK`, with no assumption on the agent.
* `ExecutorInvariant`: if the agent does not ask again for a task whose removal has begun (`Reassign = FALSE`),
  `Spec => []ExecInv`.
* From it, under the same assumption: `LiveVMsAreTracked`, `StartedVMsAreTracked`, `SweepIsSafe`,
  `RemoveIsComplete` and the action property `StopIsComplete`.
* `ExecutorImplementsTaskRuntime`: `Spec => TR!Spec`, the refinement. A task is *removing* from the call of
  Remove to its deregistration; its VMs are the living children that no restart has left behind.

Besides `Reassign = FALSE` the assumptions are those of the modules: the null values are no elements of
their sets (`DistinctNulls`) and the bounds are naturals (`ExecutorAssumptions`).

`LiveVMTracked` allows for the window of Start in which the child runs and its Start still waits for
`processMutex` (`AboutToTrack`); the sweep, Stop and Remove cannot see the child then, and need not: the Start holds
`Controller.mu` and will store it.

None of the invariants is inductive alone. That no live VM is lost fails in a step of Start, which
overwrites the map entry of its task, unless the entry is known to be dead; so `IdleHasNoVM` says that a
registered controller that is neither started nor starting has no live child. That in turn needs that
only the registered controller works on a task (`Ownership`, `Registration`), what a method in the middle of
its steps knows of the entry (`MethodState`), and that entries belong to their task (`Entries`). The sweep is
safe because a task without a controller in its copy is a removed one, which is never registered again
(`SweepState`); this is where `Reassign = FALSE` is needed: with `Reassign = TRUE` TLC finds the sweep stopping a
VM in use (section 5).
`RemovedClean` carries what Remove has dropped. `ExecInv` is the conjunction.

`ClusterHostProofs` proves, with no constants and no assumptions:

* `HostInvariant`: `Spec => []HostInv`, and from it `HostTypeCorrect` (`TypeOK`, which includes that microVMs run only
  under a daemon that is up) and `GivenUpStaysOut` (`LeftStaysOut`).
* `StateRemovedStopped`: the action property `OwnDaemonStopped`.

`LeftStaysOut` is not inductive: a command adds a role to `out` in its last step and does not look at the daemon
again there. `Progress` therefore says what each command has achieved at each of its steps unless a step failed:
after its stop the daemons it is responsible for are off, after its unit step their unit files are gone. This survives the steps in between because a daemon that systemd stopped
has no restart pending, and a reboot starts only what has a unit. `HostInv` adds that init and join have taken
their role back before they start anything, so that a step of theirs never contradicts `out`. The proof goes
command by command: one lemma for the daemon's own steps, one each for the steps of init, join, leave with
deinit, and reset; install.sh shares the lemma of join.

The other modules follow one pattern: an inductive invariant of named parts at the end of the module, the initial
states satisfy it, every action keeps each part of it, and the theorems about the run's properties follow. TLC has
checked each of these invariants on the instance of its run, and those of the overlay, the allocator and the volumes
on larger ones (the overlay's and the volumes' in part, up to several million states).

* `TapNetwork` (`NetInv`, in `NetworkProofs`): `AddressesUnique`, `RecordedIsReserved`, `CleanupIsComplete`, for any
  tasks, networks, hash and subnet, assuming `OneLocalTap`: no task has two attachments without an address. Section 5
  says what happens otherwise. Two records never share an address because each address is reserved for one task
  (`Reserved`) and a task has one record (`Records`); this needs what a call knows between Allocate and the record of
  its device (`InProgress`, `Position`), and `CleanupComplete` that whatever a task owns without a failed attach or
  deletion has a record the clean-up will find (`Accounted`) while it alone holds `nm.mu` (`Cleaning`). `ExhaustionIsReal` needs
  only that the table holds real addresses (`RealAddresses`) and `Size <= MaxProbes` (a /24 and 256 probes satisfy it): the probes start at the hash
  and go round, so that `ProbeReaches` finds for every address the number of the probe that looks at it, and a search
  that fails has looked at all of them. The number of the round a probe is in comes from a least counterexample
  (`ProbeRounds`).
* `OverlayNetwork` (`OverlayInv`, in `NetworkProofs`): `CurrentStoreForwarded`, for any peers, overlapping calls,
  changes of the registry and failures. `Backed` says how far the current manager is, by the step of the call that
  made it: what its store holds is forwarded to, or is among what that call still writes entries for, or has just
  been heard by the listener; `HasManager` that the steps that take the current manager find one. The attempt to
  prove the property of replaced managers too, as it was stated before, failed, and TLC found why with three
  overlapping calls and two changes of the registry: when a call replaces the manager, SetupVXLAN of the call before
  it works on the new one, while the listener may still serve, and store peers into, the old one. The property now
  speaks of the current manager.
* `FirecrackerExecutorProofs` (`LocalInv`): `NoVMLost`, `StuckVMsAreDead`, for any goroutines, tasks and
  children. StartOK overwrites the map entry, which is safe because the lock has been
  held since it was seen empty (`Booting`); a late Stop sets the state of whatever it looked up, which is safe
  because that was started and has been given away by no one since (`Halting`, `Halted`, `Mapped`).
* `StateFileProofs` (`StateInv`): `FileAlwaysLoads`, `SavedEntriesStay`, and the action property `ListReconciles`,
  for any number of commands, crashes, failed writes and reboots and a finite set of IDs. `Solo` says that without an
  overlap at most one command is active, and `Knows` what that command knows of the two files at each of its steps:
  its copy is the file but for its own edit, and the temporary file is complete before the rename.
* `Snapshots` (`SnapInv`, in `StorageProofs`): `ListedSnapshotsWhole`, `OnlyOldestPruned`, `LimitIsKept`,
  `PausedIsResumed`, `NoVMAfterFailure`, and the action property `YoungAreSpared`, for a finite set of processes, any
  limit and any faults. `NewestKept` compares a removal with what is there much later, so `Condemned` carries it from
  the listing to the removal: what was superseded when it was listed stays so, because a snapshot that has its time
  keeps it and its service (`Stamped`). `Whole` follows the order in which the files are moved in. `LimitKept`
  counts, and holds only at rest: `Limited` therefore counts, at every moment, the listed snapshots without those
  that a process is about to remove, and bounds them unless a create of the service has still to enforce the limit.
  An enforcement restores the bound because what it keeps are the newest `Limit` of those listed, and times are
  different (`Timed`, `NewestAreFew`).
* `Volumes` (`VolumeInv`, in `StorageProofs`): the action properties `CopiesAreFaithful` and `FilesAreKept`, for any
  tasks, images, commands, volumes and names of files. `Copied` and `Extracted` say of a copy half-way that what is no longer
  to be copied has arrived, as long as the operation is calm, and that what is still to be written exists; the second
  part holds with any interference and is why no copy replaces a file by nothing. `StepKeeps` reduces each action to
  its own actor: the others keep their part, or are no longer calm, which a write to the root filesystem of an image
  makes all tasks of the image (`RootTouchedOthers`).
* `ImagePreparerProofs` (`ImageInv`): the action properties `GoodFilesKept` and `HandedOutFinished`. `Locked` says that only the holder of the lock builds a file, `Unbuilt` that what its second look
  has seen is still so when mkfs starts and that the tree it packs has an init, `Applied` that what is about to be
  handed out is good unless it was removed under the call or torn by a crash, and `Finished` that an unfinished file
  is one that is being written or that a crash has left.
* `ControlCommands` (`ControlInv`, in `ManagerProofs`): the action properties `NoUpdateLost` and `NewerIsSpared`.
  `Versions` says that an object's version is at most the store's, `Reads` that a copy with the version of the stored
  object is that object: versions are not used twice. Without it, an update whose version the store accepts could
  still carry old fields.
* `NetworkAllocator` (`AllocInv`, `KeptInv`, in `ManagerProofs`): `AddressesAreUnique`, assuming `FewNetworks` (no
  more networks are ever made than an octet has values, so that no subnet is generated twice), for any numbers of
  networks per task and service; and `LossesAreReplacements` (`LostOnlyWhenReplaced`), under the same assumption. Section
  5 says what happens otherwise. Uniqueness needs that an address of an allocated network is in its pool under the name of its holder
  (`InUse`), and that no address is held twice, not even one of a network that is gone (`Distinct`): a task keeps the
  address of a network that was deallocated, and a later network must not be given that subnet. `Sound` and `Kept`
  are stated of any pools and any addresses, so that they can be followed from one round of a loop to the next
  (`Underway`).

Loops and searches are recursive functions, and an induction over them is a least counterexample: the set of rounds
in which a claim fails has a least element if it is not empty (`LeastNumber`, from the well-foundedness of the
naturals), and the round before leads to a contradiction. This does without the induction theorems of the library,
which take the claim as an operator.

Only model-checked: all liveness (`RemoveUnblocksWait`, `PeersForwardedUnlessFault`, `StoreConverges`, `CallsReturn`,
`PrepareReturns`), since fairness and ENABLED are outside the prover's reach.

## 5. Disagreements with comments and documents

Three break a property above when a constant or a set of inputs is widened, which is why the runs do not:

* With `Reassign = TRUE` `SweepSparesHeldTasks` fails: Controller() returns a controller whose Remove is running; Remove
  then deregisters it, and the sweep stops the VM that is started with it (`executor.go:441`).
* With a task that has two attachments without address `UniqueIPs` fails: its one address is released twice; an
  allocation between the two loses its reservation and two VMs get the same address (`manager.go:512`).
* Without the condition of `PeersForwardedUnlessFault` a peer whose forwarding entry failed is in the store, and the
  watcher skips stored peers (`vxlan.go:140`).

The following were met while modelling; they explain the conditions in the properties, or why a hazard has no
property:

* Executor: a child runs in no map while its Start waits for `processMutex` (`vmm.go:217`). VMs that outlive the node process are in no map and never swept (`executor.go:329`). Terminate waits
  like Shutdown (`executor.go:742`). Remove passes a task without annotations to the copy of volume data, so
  nothing is copied (`executor.go:767`); if it were, it would be while the VM still runs (`executor.go:779`). An Update between Prepare and Start is not what Start runs
  (`executor.go:558`).
* Network: the probing loop may hand out the broadcast address (`manager.go:118`), and leaves a subnet of two
  addresses (`manager.go:131`); an address of a TAP that could not be created is not released
  (`manager.go:1110`), and a CNI DEL that failed leaves its device behind a successful clean-up
  (`cni_client.go:156`); the result of the CNI plug-in does not decode (`cni_client.go:116`). Forwarding entries of
  peers that left stay (`vxlan.go:389`), and a list queued after the queue was drained stays there
  (`manager.go:988`).
* Local executor: every VM with an init system stays "stopping" for good once it was stopped, and Remove refuses
  it (`vmm.go:684`), since a child that nobody waits for is never seen to end; Close between the test and
  the send of sendEvent makes it panic (`executor.go:83`); Wait returns at once (`vmm.go:554`); a guest without
  init system that ignores SendCtrlAltDel is forgotten while it runs (`vmm.go:512`); a failed Prepare deletes
  the rootfs that another task of the image was prepared with (`executor.go:147`).
* State file: of two overlapping runs one erases the entry of the other (`main.go:154`), and an empty
  temporary file may be renamed over the state (`state.go:251`); run saves no pid, so stop reports success
  without stopping anything (`cmd_stop.go:107`); list takes a left-over socket for a running VM
  (`cmd_list.go:61`).
* Snapshots: a failed resume leaves the VM paused (`snapshot.go:555`); a limit of 0 becomes 3
  (`config.go:342`); without `--service` no limit applies (`snapshot.go:283`); a restored VM is recorded only in
  the memory of the command that ends (`snapshot.go:349`).
* Allocator: addresses beyond the end of a subnet (`ipam.go:76`), VIPs below the range they are said to come
  from (`ipam.go:192`), the index of a network in the first octet with the default sizes (`config.go:162`), the
  same subnet again after 256 networks (`config.go:175`), and a retry of AllocateTask that forgets the address
  of the first attempt (`allocator.go:312`).
* Images: `generateImageID` ("generates a unique ID") gives `a/b` and `a-b` the same file; Cleanup keeps what was
  "accessed in last 24h" by modification time; any existing file passes verification, whether debugfs is missing or
  exits 0 (`preparer.go:335`), so that a file left by a crash in mkfs, or one that is just being written, is handed
  out; for images with tini or dumb-init /init may be a dangling link (`init.go:90`); a cache hit skips mounts and secrets (`preparer.go:137`); the wrapper of one image may be written from the configuration
  of another that was pulled meanwhile (`preparer.go:243`).
* Volumes: a failed Create removes data that was there before (`volume_dir.go:59`); Restore and Import open files
  without truncating them (`volume_dir.go:330`, `444`); an update of the metadata that races with Delete brings
  the metadata back; a failed Snapshot leaves a truncated archive, and an Export whose last writes fail reports success
  (`volume_dir.go:353`); the tasks of an image share one root filesystem, so one task's unmount copies the files of
  another (`preparer.go:133`); the metadata that `swarmctl volume create`
  writes is not what the store reads.
* Cluster commands: leave and deinit clear the state directory also without `--purge` (`cmd_leave.go:246`), while
  their help says "keeps state for rejoin" (`cmd_leave.go:40`) and deinit reports "State files preserved"
  (`cmd_deinit.go:174`), so `LeftStaysOut` says nothing of the state; reset removes configuration
  and root filesystems by default, and `--keep-rootfs` is void; join and install.sh do not look for a manager on the host and
  delete its state; the roll-back of `init --force` erases the state of the cluster that was there; the unit is
  `Type=notify` and the daemon never notifies; the search for `firecracker` processes also matches the daemon.
* Service commands: `service scale x 0`, an example of its own help (`cmd_service.go:232`), changes nothing and
  reports an update; `swarmctl update` ignores its first
  flag (`main.go:640`).

## 6. Not modelled, and why

* *Jailer.* The jailed mode does not get past Start: `waitForSocket` looks for the socket under
  `<base>/<task>/run/firecracker`, while the chroot is `<base>/firecracker/<task>/root`, so that every start ends in its
  time-out. A model would have one outcome.
* *File contents.* Image layers, ext4 creation, injected text, CNI configuration files, generated policies and
  units; quotas and the credential store of volumes.
* *Translators* are field-by-field functions; a model would repeat them.
* *Security manager, metrics, health, doctor and listing commands* read the host and print or generate; they keep
  no state between calls. The preflight checks are a guard in `ClusterHost`.
* *The cluster protocol* (Raft, dispatch, agent) is SwarmKit's. `ControlCommands` uses the store's versions only.
* *DHCP mode, NAT rules*, the node's own announcements and its registration in Consul are left out of the network
  modules.

Limits of the models: a listing in `Snapshots` is one step; IDs of VMs and snapshots do not collide except
where `StateFile` lets two runs share one; in `NetworkAllocator` an address beyond its subnet is not identified
with the same number counted from another subnet; in `ClusterHost` one command runs at a time, as an operator
would run them; in `Volumes` there is one archive per volume, the newest.

## 7. Plan

1. Composition of `SwarmExecutor` with `TapNetwork` (Prepare and Remove calling PrepareNetwork and CleanupNetwork)
   and of `ControlCommands` with the allocator.
2. Proofs: every safety property is proved; what is left are weaker hypotheses, first of all `Reassign = FALSE` and
   `OneLocalTap`.
3. Resource figures of the translators as operators against a reference definition; the jailer once its
   socket is found.
