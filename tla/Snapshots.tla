------------------------------ MODULE Snapshots -----------------------------
(***************************************************************************)
(* VM snapshots: Manager (pkg/snapshot/snapshot.go) as the commands        *)
(* snapshot create, restore, delete and cleanup use it.  Every command is  *)
(* a process with a Manager of its own, so the Manager's mutex keeps no    *)
(* two commands apart; what they share is the snapshot directory and the   *)
(* VMs.  A process runs one command, and a snapshot is named by the        *)
(* process that takes it (the ID is a hash of the task and the time).      *)
(*                                                                         *)
(* A snapshot directory holds the state file, the memory file and the      *)
(* metadata; metadata that is being written is "torn", and unreadable.     *)
(* Only a directory with readable metadata is listed.  A listing reads the *)
(* directory in one step; removing a directory takes a step per file, in   *)
(* any order.  Files are never written again once they are in place, so    *)
(* the checksum of a state file that exists always matches.                *)
(***************************************************************************)
EXTENDS Integers, FiniteSets, Functions

CONSTANTS
  VM,            \* the VMs, each the VM of one task
  Proc,          \* the processes, and the snapshots they take
  ServiceOf,     \* the --service flag of a create for each VM
  NoService,     \* no --service flag
  MaxSnapshots,  \* snapshot.max_snapshots of the configuration file
  MaxActive,     \* bound: how many commands run at a time
  MaxFaults      \* bound: how many faults happen

FaultKinds == {"pause", "take", "resume", "move", "list", "remove", "crash"}

ASSUME SnapshotAssumptions ==
  /\ VM # {}
  /\ IsFiniteSet(Proc)
  /\ MaxSnapshots \in Nat
  /\ MaxActive \in Nat
  /\ MaxFaults \in Nat

Files    == {"state", "mem", "torn", "meta"}
Finished == {"ok", "failed", "dead"}

\* A configured limit of 0 is replaced by the default, 3.
SetDefaults(limit) == IF limit = 0 THEN 3 ELSE limit
Limit == SetDefaults(MaxSnapshots)

VARIABLES
  vm,       \* "running" or "paused"
  cmd,      \* the command of each process
  pc,       \* where it is
  task,     \* create: the VM
  target,   \* restore: the snapshot
  todo,     \* the snapshots the process has still to remove
  taken,    \* create: did Firecracker write the snapshot?
  dir,      \* the snapshot directories that exist
  files,    \* what each of them holds
  created,  \* SnapshotInfo.CreatedAt, 0 before it is set
  clock,    \* the time of the latest snapshot
  expired,  \* the snapshots older than the maximal age
  staging,  \* the staging directories
  alive,    \* the restored VMs, by the process that started them
  touched,  \* the snapshots whose removal has begun
  pruned,   \* those among them that the limit made a create remove
  stuck,    \* those whose removal failed
  faults    \* how many faults of each kind have happened

vars == <<vm, cmd, pc, task, target, todo, taken, dir, files, created, clock, expired,
          staging, alive, touched, pruned, stuck, faults>>

Init ==
  /\ vm = [v \in VM |-> "running"]
  /\ cmd = [p \in Proc |-> "none"]
  /\ pc = [p \in Proc |-> "idle"]
  /\ task = [p \in Proc |-> CHOOSE v \in VM : TRUE]
  /\ target = [p \in Proc |-> p]
  /\ todo = [p \in Proc |-> {}]
  /\ taken = [p \in Proc |-> FALSE]
  /\ dir = {}
  /\ files = [s \in Proc |-> {}]
  /\ created = [s \in Proc |-> 0]
  /\ clock = 0
  /\ expired = {}
  /\ staging = {}
  /\ alive = {}
  /\ touched = {}
  /\ pruned = {}
  /\ stuck = {}
  /\ faults = [k \in FaultKinds |-> 0]

-----------------------------------------------------------------------------
\* Helpers.

\* The variables of the snapshot directory, and those of a request.
disk    == <<dir, files, created, clock, expired, touched, pruned, stuck>>
request == <<cmd, task, target>>

Active == {p \in Proc : pc[p] \notin {"idle"} \cup Finished}
Begin(p, c) ==
  /\ pc[p] = "idle"
  /\ Cardinality(Active) < MaxActive
  /\ cmd' = [cmd EXCEPT ![p] = c]
Goto(p, l)  == pc' = [pc EXCEPT ![p] = l]
Step(p, c, from, to) == pc[p] = from /\ cmd[p] = c /\ Goto(p, to)

FaultsLeft == FoldFunction(+, 0, faults) < MaxFaults
Fault(kind) ==
  /\ FaultsLeft
  /\ faults' = [faults EXCEPT ![kind] = @ + 1]

\* listSnapshotsUnlocked: the directories whose metadata loads.
Listed == {s \in dir : "meta" \in files[s]}
OfService(s) == ServiceOf[task[s]]
ListedOf(service) == {s \in Listed : OfService(s) = service}
\* The IDs that have been listed or printed.
Known == {s \in Proc : created[s] # 0 /\ pc[s] \in {"list", "remove", "ok", "dead"}}
Newer(s, S) == {n \in S : created[n] > created[s]}

-----------------------------------------------------------------------------
\* CreateSnapshot.

\* The socket exists; a staging directory is made.
CreateBegin(p, v) ==
  /\ Begin(p, "create")
  /\ Goto(p, "pause")
  /\ task' = [task EXCEPT ![p] = v]
  /\ staging' = staging \cup {p}
  /\ UNCHANGED <<vm, target, todo, taken, disk, alive, faults>>

Pause(p) ==
  /\ Step(p, "create", "pause", "take")
  /\ vm' = [vm EXCEPT ![task[p]] = "paused"]
  /\ UNCHANGED <<request, todo, taken, disk, staging, alive, faults>>

\* The request fails or its answer is lost: the deferred resume is not yet in
\* place.  The deferred removal of the staging directory is.
PauseFail(p) ==
  /\ Step(p, "create", "pause", "failed")
  /\ Fault("pause")
  /\ \E st \in {vm[task[p]], "paused"} : vm' = [vm EXCEPT ![task[p]] = st]
  /\ staging' = staging \ {p}
  /\ UNCHANGED <<request, todo, taken, disk, alive>>

\* PUT /snapshot/create; Firecracker refuses it unless the VM is paused.
Take(p) ==
  /\ Step(p, "create", "take", "resume")
  /\ vm[task[p]] = "paused"
  /\ taken' = [taken EXCEPT ![p] = TRUE]
  /\ UNCHANGED <<vm, request, todo, disk, staging, alive, faults>>

\* Mutant: the error returns before the resume is deferred.
TakeFail_NoResume(p) ==
  /\ Step(p, "create", "take", "failed")
  /\ \/ vm[task[p]] = "running" /\ UNCHANGED faults
     \/ Fault("take")
  /\ staging' = staging \ {p}
  /\ UNCHANGED <<vm, request, todo, taken, disk, alive>>

TakeFail(p) ==
  /\ Step(p, "create", "take", "resume")
  /\ \/ vm[task[p]] = "running" /\ UNCHANGED faults
     \/ Fault("take")
  /\ UNCHANGED <<vm, request, todo, taken, disk, staging, alive>>

\* What follows the deferred resume: only its failure is ignored.
AfterResume(p) ==
  /\ Step(p, "create", "resume", IF taken[p] THEN "mkdir" ELSE "failed")
  /\ staging' = IF taken[p] THEN staging ELSE staging \ {p}
  /\ UNCHANGED <<request, todo, taken, disk, alive>>

Resume(p) ==
  /\ AfterResume(p)
  /\ vm' = [vm EXCEPT ![task[p]] = "running"]
  /\ UNCHANGED faults

\* The resume uses the context of the whole command, which may have expired, and
\* the process may have gone; a lost answer is only a warning as well.
ResumeFail(p) ==
  /\ AfterResume(p)
  /\ Fault("resume")
  /\ \E st \in {vm[task[p]], "running"} : vm' = [vm EXCEPT ![task[p]] = st]

MakeDir(p) ==
  /\ Step(p, "create", "mkdir", "state")
  /\ dir' = dir \cup {p}
  /\ UNCHANGED <<vm, request, todo, taken, files, created, clock, expired, touched, pruned, stuck, staging,
                 alive, faults>>

\* The two files are moved from the staging directory, one after the other.
Move(p, f, from, to) ==
  /\ Step(p, "create", from, to)
  /\ files' = [files EXCEPT ![p] = @ \cup {f}]
  /\ UNCHANGED <<vm, request, todo, taken, dir, created, clock, expired, touched, pruned, stuck, staging,
                 alive, faults>>

\* Mutant: the metadata is saved before the memory file is in place.
MoveState_MetadataFirst(p) ==
  /\ Step(p, "create", "state", "mem")
  /\ files' = [files EXCEPT ![p] = @ \cup {"state", "meta"}]
  /\ UNCHANGED <<vm, request, todo, taken, dir, created, clock, expired, touched, pruned, stuck, staging,
                 alive, faults>>

MoveState(p) == Move(p, "state", "state", "mem")
MoveMemory(p) == Move(p, "mem", "mem", "stamp")

\* A step between MkdirAll and the end of saveMetadata fails: the directory is
\* removed again, or never made.
MoveFail(p) ==
  /\ cmd[p] = "create"
  /\ pc[p] \in {"mkdir", "state", "mem", "stamp", "meta"}
  /\ Fault("move")
  /\ IF pc[p] = "mkdir"
       THEN /\ Goto(p, "failed")
            /\ staging' = staging \ {p}
            /\ UNCHANGED <<todo, touched>>
       ELSE /\ Goto(p, "undo")
            /\ todo' = [todo EXCEPT ![p] = {p}]
            /\ touched' = touched \cup {p}
            /\ UNCHANGED staging
  /\ UNCHANGED <<vm, request, taken, dir, files, created, clock, expired, pruned, stuck, alive>>

\* SnapshotInfo is filled in, and saveMetadata opens the file.
Stamp(p) ==
  /\ Step(p, "create", "stamp", "meta")
  /\ clock' = clock + 1
  /\ created' = [created EXCEPT ![p] = clock + 1]
  /\ files' = [files EXCEPT ![p] = @ \cup {"torn"}]
  /\ UNCHANGED <<vm, request, todo, taken, dir, expired, touched, pruned, stuck, staging, alive, faults>>

\* saveMetadata writes it.  Without a service no limit applies.
SaveMetadata(p) ==
  /\ Step(p, "create", "meta", IF OfService(p) = NoService THEN "ok" ELSE "list")
  /\ files' = [files EXCEPT ![p] = (@ \ {"torn"}) \cup {"meta"}]
  /\ staging' = IF OfService(p) = NoService THEN staging \ {p} ELSE staging
  /\ UNCHANGED <<vm, request, todo, taken, dir, created, clock, expired, touched, pruned, stuck, alive, faults>>

\* Mutants: the list is taken to be sorted oldest first; one snapshot too many stays.
Excess_Newest(service) ==
  {s \in ListedOf(service) : \E n \in ListedOf(service) \ {s} : created[n] < created[s]}
Excess_OffByOne(service) ==
  {s \in ListedOf(service) : Cardinality(Newer(s, ListedOf(service))) > Limit}

\* enforceMaxSnapshots: all but the newest Limit snapshots of the service.
Excess(service) ==
  {s \in ListedOf(service) : Cardinality(Newer(s, ListedOf(service))) >= Limit}

EnforceMaxSnapshots(p) ==
  /\ Step(p, "create", "list", "remove")
  /\ todo' = [todo EXCEPT ![p] = Excess(OfService(p))]
  /\ UNCHANGED <<vm, request, taken, disk, staging, alive, faults>>

\* The listing fails, and the create succeeds without enforcing anything.
ListFail(p) ==
  /\ Step(p, "create", "list", "ok")
  /\ Fault("list")
  /\ staging' = staging \ {p}
  /\ UNCHANGED <<vm, request, todo, taken, disk, alive>>

-----------------------------------------------------------------------------
\* DeleteSnapshot and CleanupOldSnapshots.

\* The directory exists, or the command fails.  (The listing before it is only
\* printed.)
DeleteSnapshot(p, s) ==
  /\ Begin(p, "delete")
  /\ s \in Known
  /\ Goto(p, IF s \in dir THEN "remove" ELSE "failed")
  /\ todo' = [todo EXCEPT ![p] = {s} \cap dir]
  /\ UNCHANGED <<vm, task, target, taken, disk, staging, alive, faults>>

\* Mutant: the age is not looked at.
CleanupBegin_All(p) ==
  /\ Begin(p, "cleanup")
  /\ Goto(p, "remove")
  /\ todo' = [todo EXCEPT ![p] = Listed]
  /\ UNCHANGED <<vm, task, target, taken, disk, staging, alive, faults>>

CleanupBegin(p) ==
  /\ Begin(p, "cleanup")
  /\ Goto(p, "remove")
  /\ todo' = [todo EXCEPT ![p] = Listed \cap expired]
  /\ UNCHANGED <<vm, task, target, taken, disk, staging, alive, faults>>

\* A limit removes the oldest first, a cleanup the newest first.
NextVictim(p) ==
  {s \in todo[p] : \A o \in todo[p] :
    IF cmd[p] = "cleanup" THEN created[s] >= created[o] ELSE created[s] <= created[o]}

Removing(p) == pc[p] \in {"remove", "undo"}

\* os.RemoveAll unlinks one file; the directory goes last.
RemoveFile(p) ==
  /\ Removing(p)
  /\ \E s \in NextVictim(p) :
       /\ \E f \in files[s] : files' = [files EXCEPT ![s] = @ \ {f}]
       /\ touched' = touched \cup {s}
       /\ pruned' = IF cmd[p] = "create" /\ pc[p] = "remove" THEN pruned \cup {s} ELSE pruned
  /\ UNCHANGED <<vm, cmd, pc, task, target, todo, taken, dir, created, clock, expired, stuck, staging, alive, faults>>

\* The directory is removed, or was gone already.
RemoveDir(p) ==
  /\ Removing(p)
  /\ \E s \in NextVictim(p) :
       /\ files[s] = {}
       /\ dir' = dir \ {s}
       /\ todo' = [todo EXCEPT ![p] = @ \ {s}]
  /\ UNCHANGED <<vm, cmd, pc, task, target, taken, files, created, clock, expired, touched, pruned, stuck,
                 staging, alive, faults>>

\* RemoveAll fails and leaves what is left: limit and cleanup go on.
RemoveFail(p) ==
  /\ Removing(p)
  /\ Fault("remove")
  /\ \E s \in NextVictim(p) :
       /\ stuck' = stuck \cup {s}
       /\ touched' = touched \cup {s}
       /\ todo' = [todo EXCEPT ![p] = @ \ {s}]
  /\ UNCHANGED <<vm, cmd, pc, task, target, taken, dir, files, created, clock, expired, pruned, staging, alive>>

RemoveDone(p) ==
  /\ pc[p] \in {"remove", "undo"}
  /\ todo[p] = {}
  /\ Goto(p, IF pc[p] = "undo" THEN "failed" ELSE "ok")
  /\ staging' = staging \ {p}
  /\ UNCHANGED <<vm, request, todo, taken, disk, alive, faults>>

-----------------------------------------------------------------------------
\* RestoreFromSnapshot, which takes no lock at all.

\* The snapshot is looked up in a listing, or the command fails.
RestoreBegin(p, s) ==
  /\ Begin(p, "restore")
  /\ s \in Known
  /\ Goto(p, IF s \in Listed THEN "check" ELSE "failed")
  /\ target' = [target EXCEPT ![p] = s]
  /\ UNCHANGED <<vm, task, todo, taken, disk, staging, alive, faults>>

\* Both files exist, and the checksum of the state file matches.
Check(p) ==
  /\ Step(p, "restore", "check", IF {"state", "mem"} \subseteq files[target[p]] THEN "spawn" ELSE "failed")
  /\ UNCHANGED <<vm, request, todo, taken, disk, staging, alive, faults>>

Spawn(p) ==
  /\ Step(p, "restore", "spawn", "load")
  /\ alive' = alive \cup {p}
  /\ UNCHANGED <<vm, request, todo, taken, disk, staging, faults>>

\* The files are opened by name: what has been removed since the check is missing.
Load(p) ==
  /\ Step(p, "restore", "load", "start")
  /\ {"state", "mem"} \subseteq files[target[p]]
  /\ UNCHANGED <<vm, request, todo, taken, disk, staging, alive, faults>>

\* The process ends with the command, and its Manager with it.
InstanceStart(p) ==
  /\ Step(p, "restore", "start", "ok")
  /\ UNCHANGED <<vm, request, todo, taken, disk, staging, alive, faults>>

\* Mutant: startErr is not set, and the process stays.
RestoreFail_NoKill(p) ==
  /\ cmd[p] = "restore"
  /\ pc[p] \in {"spawn", "load", "start"}
  /\ Goto(p, "failed")
  /\ UNCHANGED <<vm, request, todo, taken, disk, staging, alive, faults>>

\* Firecracker is missing, or its socket does not answer in time, or a request
\* fails: what was started is killed.
RestoreFail(p) ==
  /\ cmd[p] = "restore"
  /\ pc[p] \in {"spawn", "load", "start"}
  /\ Goto(p, "failed")
  /\ alive' = alive \ {p}
  /\ UNCHANGED <<vm, request, todo, taken, disk, staging, faults>>

-----------------------------------------------------------------------------
\* The environment.

\* The oldest snapshot that has not expired does.
Expire(s) ==
  /\ created[s] # 0 /\ s \notin expired
  /\ \A o \in Proc \ expired : created[o] = 0 \/ created[s] <= created[o]
  /\ expired' = expired \cup {s}
  /\ UNCHANGED <<vm, request, pc, todo, taken, dir, files, created, clock, touched, pruned, stuck, staging,
                 alive, faults>>

\* A command is killed; nothing that it deferred runs.
Crash(p) ==
  /\ p \in Active
  /\ Fault("crash")
  /\ Goto(p, "dead")
  /\ UNCHANGED <<vm, request, todo, taken, disk, staging, alive>>

Create(p) ==
  \/ \E v \in VM : CreateBegin(p, v)
  \/ Pause(p) \/ PauseFail(p) \/ Take(p) \/ TakeFail(p) \/ Resume(p) \/ ResumeFail(p)
  \/ MakeDir(p) \/ MoveState(p) \/ MoveMemory(p) \/ MoveFail(p)
  \/ Stamp(p) \/ SaveMetadata(p) \/ EnforceMaxSnapshots(p) \/ ListFail(p)

Remove(p) ==
  \/ \E s \in Proc : DeleteSnapshot(p, s)
  \/ CleanupBegin(p)
  \/ RemoveFile(p) \/ RemoveDir(p) \/ RemoveFail(p) \/ RemoveDone(p)

Restore(p) ==
  \/ \E s \in Proc : RestoreBegin(p, s)
  \/ Check(p) \/ Spawn(p) \/ Load(p) \/ InstanceStart(p) \/ RestoreFail(p)

Next ==
  \/ \E p \in Proc : Create(p) \/ Remove(p) \/ Restore(p) \/ Crash(p)
  \/ \E s \in Proc : Expire(s)

Spec == Init /\ [][Next]_vars

-----------------------------------------------------------------------------
\* Properties.

\* The limit removes only the oldest snapshots (enforceMaxSnapshots): one that it
\* removed is older than Limit others that were saved for its service, however
\* creates, deletes and cleanups interleave, fail or crash.
NewestKept ==
  \A s \in pruned :
    Cardinality({n \in Newer(s, Proc) : OfService(n) = OfService(s)}) >= Limit

\* Once no create for a service is under way, no more than Limit of its snapshots
\* are listed, not counting those whose removal failed (enforceMaxSnapshots), also
\* when creates in several processes overlap.  A create that is killed, or that cannot
\* list the snapshots, may leave one more.
LimitKept ==
  faults["crash"] = 0 /\ faults["list"] = 0 => \A v \in VM :
    ServiceOf[v] # NoService
      /\ (\A p \in Active : ~(cmd[p] = "create" /\ OfService(p) = ServiceOf[v]))
    => Cardinality(ListedOf(ServiceOf[v]) \ stuck) <= Limit

\* "Ensure VM is resumed on any exit path (success or failure)"
\* (callSnapshotCreate): a VM is paused only while a create is between its pause
\* and its resume, unless the create is killed or one of these two requests fails.
NotLeftPaused ==
  (\A k \in {"pause", "resume", "crash"} : faults[k] = 0) => \A v \in VM : vm[v] = "paused" =>
    \E p \in Proc : cmd[p] = "create" /\ task[p] = v /\ pc[p] \in {"take", "resume"}

\* A snapshot that is listed has both its files, whatever crashed while it was made
\* (CreateSnapshot writes the metadata last), unless its removal has begun.
ListedIsWhole ==
  \A s \in Listed \ touched : {"state", "mem"} \subseteq files[s]

\* A restore that fails leaves no VM (the startErr clean-up of
\* RestoreFromSnapshot), also when a delete took the files between its check and
\* its load.
FailedRestoreLeavesNoVM ==
  \A p \in alive : pc[p] # "failed"

\* cleanup removes no snapshot younger than the maximal age
\* (CleanupOldSnapshots), also when it overlaps with creates: the files that go in
\* a step of a cleanup are those of an expired snapshot.
CleanupSparesYoung ==
  [][\A p \in Proc : cmd[p] = "cleanup" /\ RemoveFile(p) =>
       \A s \in Proc \ expired : files'[s] = files[s]]_vars

-----------------------------------------------------------------------------
\* The inductive invariant of SnapshotsProofs.

Early == {"idle", "pause", "take", "resume", "mkdir", "state", "mem", "stamp"}
Late  == {"meta", "undo", "list", "remove", "check", "spawn", "load", "start"} \cup Finished

TypeOK ==
  /\ vm \in [VM -> {"running", "paused"}]
  /\ cmd \in [Proc -> {"none", "create", "delete", "cleanup", "restore"}]
  /\ pc \in [Proc -> Early \cup Late]
  /\ task \in [Proc -> VM]
  /\ target \in [Proc -> Proc]
  /\ todo \in [Proc -> SUBSET Proc]
  /\ taken \in [Proc -> BOOLEAN]
  /\ files \in [Proc -> SUBSET Files]
  /\ created \in [Proc -> Nat]
  /\ clock \in Nat
  /\ dir \subseteq Proc /\ alive \subseteq Proc /\ touched \subseteq Proc /\ pruned \subseteq Proc
  /\ faults \in [FaultKinds -> Nat]

\* The files are moved in before the metadata is written.
Whole(s) ==
  /\ pc[s] \in {"mem", "stamp", "meta"} => "state" \in files[s]
  /\ pc[s] \in {"stamp", "meta"} => "mem" \in files[s]
  /\ "meta" \in files[s] => {"state", "mem"} \subseteq files[s]

\* A snapshot has its time from the step before its metadata on.
Stamped(s) ==
  /\ pc[s] \in Early => created[s] = 0
  /\ pc[s] = "meta" \/ "meta" \in files[s] => created[s] # 0

\* The clock is never behind a snapshot, and no two have the same time.
Timed ==
  /\ \A s \in Proc : created[s] <= clock
  /\ \A s, n \in Proc : created[s] = created[n] /\ created[s] # 0 => s = n

\* What stays of a service when the creates that enforce the limit are done, and that
\* it is not too much unless another create is still to enforce it.
ToEnforce(service) ==
  {p \in Proc : cmd[p] = "create" /\ pc[p] = "list" /\ OfService(p) = service}
Doomed(service) ==
  UNION {todo[p] : p \in {q \in Proc : cmd[q] = "create" /\ pc[q] = "remove" /\ OfService(q) = service}}
Remaining(service) == ListedOf(service) \ (stuck \cup Doomed(service))
Limited(service) ==
  faults["crash"] = 0 /\ faults["list"] = 0 /\ service # NoService /\ ToEnforce(service) = {}
    => Cardinality(Remaining(service)) <= Limit

\* The newer snapshots of the same service, complete or not.
After(s) == {n \in Newer(s, Proc) : OfService(n) = OfService(s)}
Superseded(s) == created[s] # 0 /\ Cardinality(After(s)) >= Limit

\* What a process is about to remove.
Condemned(p) ==
  /\ cmd[p] = "create" /\ pc[p] = "remove" => \A s \in todo[p] : Superseded(s)
  /\ cmd[p] = "cleanup" => todo[p] \subseteq expired

Restored(p) == cmd[p] = "restore" /\ pc[p] \in {"load", "start", "ok", "dead"}

SnapInv ==
  /\ TypeOK
  /\ \A s \in Proc \ touched : Whole(s)
  /\ \A s \in Proc : Stamped(s) /\ Condemned(s)
  /\ \A s \in pruned : Superseded(s)
  /\ \A p \in alive : Restored(p)
  /\ NotLeftPaused
  /\ Timed
  /\ \A v \in VM : Limited(ServiceOf[v])
=============================================================================
