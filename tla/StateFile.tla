------------------------------ MODULE StateFile -----------------------------
(***************************************************************************)
(* The state file of the command-line tool: StateManager                   *)
(* (pkg/runtime/state.go) as the commands run --detach, vm create, stop    *)
(* and list use it.  Every command is a process of its own: it loads the   *)
(* whole file, changes its copy and writes the whole copy back through one *)
(* temporary file, whose name all processes share.  Nothing locks the file *)
(* between two processes.                                                  *)
(*                                                                         *)
(* A VM is named by the process that started it, an entry of the file by   *)
(* its ID.  run does not record the pid of the VM, so stop, which sends    *)
(* its signals to the recorded pid, always finds its process "already      *)
(* terminated".                                                            *)
(***************************************************************************)
EXTENDS Integers, FiniteSets

CONSTANTS
  ID,          \* the VM IDs
  Proc,        \* the processes
  DefaultDir,  \* is the socket directory the one list looks in?
  MaxActive,   \* bound: how many commands run at a time
  MaxFaults    \* bound: how many crashes, failed writes and reboots

ASSUME StateAssumptions ==
  /\ IsFiniteSet(ID)
  /\ DefaultDir \in BOOLEAN
  /\ MaxActive \in Nat
  /\ MaxFaults \in Nat

Nobody == [i \in ID |-> "none"]

\* A file is absent, empty (truncated and not yet written), corrupt (not a JSON
\* list) or a list of entries.
Absent  == [kind |-> "absent", map |-> Nobody]
Empty   == [kind |-> "empty", map |-> Nobody]
Corrupt == [kind |-> "corrupt", map |-> Nobody]
List(m) == [kind |-> "list", map |-> m]

VARIABLES
  file,    \* state.json
  tmp,     \* state.json.tmp
  fd,      \* the file in which the process is writing: "tmp", "file", "gone", "none"
  mem,     \* StateManager.states of each process
  tracks,  \* the processes that have a StateManager
  cmd,     \* the command of each process
  id,      \* the ID it is about
  pc,      \* where it is
  alive,   \* the VMs that run
  socket,  \* the IDs whose API socket exists
  saved,   \* the IDs whose entry some run has reported as saved
  faults,  \* how many faults there have been
  overlap  \* has a command begun while another one was running?

vars == <<file, tmp, fd, mem, tracks, cmd, id, pc, alive, socket, saved,
          faults, overlap>>

Init ==
  /\ file = Absent
  /\ tmp = Absent
  /\ fd = [p \in Proc |-> "none"]
  /\ mem = [p \in Proc |-> Nobody]
  /\ tracks = {}
  /\ cmd = [p \in Proc |-> "none"]
  /\ id \in [Proc -> ID]
  /\ pc = [p \in Proc |-> "idle"]
  /\ alive = {}
  /\ socket = {}
  /\ saved = {}
  /\ faults = 0
  /\ overlap = FALSE

Ended == {"idle", "ok", "failed", "dead"}
Active == {p \in Proc : pc[p] \notin Ended}

Goto(p, where) == pc' = [pc EXCEPT ![p] = where]

Fault ==
  /\ faults < MaxFaults
  /\ faults' = faults + 1

-----------------------------------------------------------------------------
(***************************************************************************)
(* NewStateManager: an absent or empty file is a fresh start, one that     *)
(* does not parse an error.  run goes on without a manager then.           *)
(***************************************************************************)
\* Mutant: a run starts with an empty map.
Begin_NoLoad(p, c) ==
  /\ pc[p] = "idle"
  /\ Cardinality(Active) < MaxActive
  /\ cmd' = [cmd EXCEPT ![p] = c]
  /\ mem' = [mem EXCEPT ![p] = IF c = "run" THEN Nobody ELSE file.map]
  /\ tracks' = tracks \cup {p}
  /\ Goto(p, IF c = "run" THEN "start" ELSE "edit")
  /\ overlap' = (overlap \/ Active # {})
  /\ UNCHANGED <<file, tmp, fd, id, alive, socket, saved, faults>>

Begin(p, c) ==
  /\ pc[p] = "idle"
  /\ Cardinality(Active) < MaxActive
  /\ cmd' = [cmd EXCEPT ![p] = c]
  /\ mem' = [mem EXCEPT ![p] = file.map]
  /\ tracks' = IF file = Corrupt THEN tracks ELSE tracks \cup {p}
  /\ Goto(p, IF c = "run" THEN "start" ELSE IF file = Corrupt THEN "failed" ELSE "edit")
  /\ overlap' = (overlap \/ Active # {})
  /\ UNCHANGED <<file, tmp, fd, id, alive, socket, saved, faults>>

\* The VM is started after the file has been loaded, which may take minutes.
StartVM(p) ==
  /\ pc[p] = "start"
  /\ alive' = alive \cup {p}
  /\ socket' = socket \cup {id[p]}
  /\ Goto(p, IF p \in tracks THEN "edit" ELSE "ok")
  /\ UNCHANGED <<file, tmp, fd, mem, tracks, cmd, id, saved, faults, overlap>>

StartFail(p) ==
  /\ pc[p] = "start"
  /\ Goto(p, "failed")
  /\ UNCHANGED <<file, tmp, fd, mem, tracks, cmd, id, alive, socket, saved,
                 faults, overlap>>

(***************************************************************************)
(* The change to the copy of the process: Add, UpdateStatus, Reconcile.    *)
(***************************************************************************)
Add(p) ==
  /\ pc[p] = "edit"
  /\ cmd[p] = "run"
  /\ mem' = [mem EXCEPT ![p][id[p]] = "running"]
  /\ Goto(p, "open")
  /\ UNCHANGED <<file, tmp, fd, tracks, cmd, id, alive, socket, saved, faults, overlap>>

StopMissing(p) ==
  /\ pc[p] = "edit"
  /\ cmd[p] = "stop"
  /\ mem[p][id[p]] # "running"
  /\ Goto(p, IF mem[p][id[p]] = "stopped" THEN "ok" ELSE "failed")
  /\ UNCHANGED <<file, tmp, fd, mem, tracks, cmd, id, alive, socket, saved,
                 faults, overlap>>

\* stopVM: the recorded pid is 0, signal 0 fails, and that counts as stopped.
StopVM(p) ==
  /\ pc[p] = "edit"
  /\ cmd[p] = "stop"
  /\ mem[p][id[p]] = "running"
  /\ mem' = [mem EXCEPT ![p][id[p]] = "stopped"]
  /\ Goto(p, "open")
  /\ UNCHANGED <<file, tmp, fd, tracks, cmd, id, alive, socket, saved, faults, overlap>>

\* Is there a socket of that ID where list looks for it?
IsRunning(i) == DefaultDir /\ i \in socket

Stale(m) == {i \in ID : m[i] = "running" /\ ~IsRunning(i)}

\* Mutant: only the first stale entry is corrected.
Reconcile_One(p) ==
  /\ pc[p] = "edit"
  /\ cmd[p] = "list"
  /\ mem' = [mem EXCEPT ![p] = [i \in ID |->
               IF Stale(@) # {} /\ i = (CHOOSE j \in Stale(@) : TRUE) THEN "stopped" ELSE @[i]]]
  /\ Goto(p, IF Stale(mem[p]) = {} THEN "ok" ELSE "open")
  /\ UNCHANGED <<file, tmp, fd, tracks, cmd, id, alive, socket, saved, faults, overlap>>

Reconcile(p) ==
  /\ pc[p] = "edit"
  /\ cmd[p] = "list"
  /\ mem' = [mem EXCEPT ![p] = [i \in ID |-> IF i \in Stale(@) THEN "stopped" ELSE @[i]]]
  /\ Goto(p, IF Stale(mem[p]) = {} THEN "ok" ELSE "open")
  /\ UNCHANGED <<file, tmp, fd, tracks, cmd, id, alive, socket, saved, faults, overlap>>

(***************************************************************************)
(* save.  WriteFile truncates the temporary file and then writes it; what  *)
(* a longer list of another process leaves behind is no JSON.  Rename      *)
(* moves the file under the feet of a process that is still writing it.    *)
(***************************************************************************)
Entries(m) == Cardinality({i \in ID : m[i] # "none"})

Overwrite(old, m) ==
  IF old = Corrupt \/ Entries(old.map) > Entries(m) THEN Corrupt ELSE List(m)

\* Mutant: the state file itself is rewritten.
SaveOpen_InPlace(p) ==
  /\ pc[p] = "open"
  /\ file' = Empty
  /\ fd' = [fd EXCEPT ![p] = "file"]
  /\ Goto(p, "write")
  /\ UNCHANGED <<tmp, mem, tracks, cmd, id, alive, socket, saved, faults, overlap>>

SaveOpen(p) ==
  /\ pc[p] = "open"
  /\ tmp' = Empty
  /\ fd' = [fd EXCEPT ![p] = "tmp"]
  /\ Goto(p, "write")
  /\ UNCHANGED <<file, mem, tracks, cmd, id, alive, socket, saved, faults, overlap>>

SaveWrite(p) ==
  /\ pc[p] = "write"
  /\ tmp' = IF fd[p] = "tmp" THEN Overwrite(tmp, mem[p]) ELSE tmp
  /\ file' = IF fd[p] = "file" THEN Overwrite(file, mem[p]) ELSE file
  /\ fd' = [fd EXCEPT ![p] = "none"]
  /\ Goto(p, "rename")
  /\ UNCHANGED <<mem, tracks, cmd, id, alive, socket, saved, faults, overlap>>

WriteFail(p) ==
  /\ pc[p] \in {"open", "write"}
  /\ Fault
  /\ fd' = [fd EXCEPT ![p] = "none"]
  /\ Goto(p, IF cmd[p] = "run" THEN "failed" ELSE "ok")
  /\ UNCHANGED <<file, tmp, mem, tracks, cmd, id, alive, socket, saved, overlap>>

SaveRename(p) ==
  /\ pc[p] = "rename"
  /\ tmp # Absent
  /\ file' = tmp
  /\ tmp' = Absent
  /\ fd' = [q \in Proc |-> CASE fd[q] = "tmp"  -> "file"
                             [] fd[q] = "file" -> "gone"
                             [] OTHER          -> fd[q]]
  /\ saved' = IF cmd[p] = "run" THEN saved \cup {id[p]} ELSE saved
  /\ Goto(p, "ok")
  /\ UNCHANGED <<mem, tracks, cmd, id, alive, socket, faults, overlap>>

\* Another process has renamed the temporary file.
RenameFail(p) ==
  /\ pc[p] = "rename"
  /\ tmp = Absent
  /\ Goto(p, IF cmd[p] = "run" THEN "failed" ELSE "ok")
  /\ UNCHANGED <<file, tmp, fd, mem, tracks, cmd, id, alive, socket, saved,
                 faults, overlap>>

-----------------------------------------------------------------------------
\* The process is killed.
Crash(p) ==
  /\ p \in Active
  /\ Fault
  /\ fd' = [fd EXCEPT ![p] = "none"]
  /\ Goto(p, "dead")
  /\ UNCHANGED <<file, tmp, mem, tracks, cmd, id, alive, socket, saved, overlap>>

\* A VM ends by itself; nobody deletes its socket.
Exit(p) ==
  /\ p \in alive
  /\ alive' = alive \ {p}
  /\ UNCHANGED <<file, tmp, fd, mem, tracks, cmd, id, pc, socket, saved, faults, overlap>>

\* The host restarts: the sockets are in /var/run, the state file of an
\* ordinary user is in its home directory.
Reboot ==
  /\ Fault
  /\ alive' = {}
  /\ socket' = {}
  /\ fd' = [p \in Proc |-> "none"]
  /\ pc' = [p \in Proc |-> IF p \in Active THEN "dead" ELSE pc[p]]
  /\ UNCHANGED <<file, tmp, mem, tracks, cmd, id, saved, overlap>>

Next ==
  \/ \E p \in Proc :
       \/ \E c \in {"run", "stop", "list"} : Begin(p, c)
       \/ StartVM(p) \/ StartFail(p) \/ Add(p) \/ StopMissing(p) \/ StopVM(p)
       \/ Reconcile(p) \/ SaveOpen(p) \/ SaveWrite(p) \/ WriteFail(p)
       \/ SaveRename(p) \/ RenameFail(p) \/ Crash(p) \/ Exit(p)
  \/ Reboot

Spec == Init /\ [][Next]_vars

-----------------------------------------------------------------------------
(***************************************************************************)
(* Properties.                                                             *)
(***************************************************************************)

\* "Atomic rename": wherever a command is killed or a write fails, the state
\* file is absent or a complete list, as long as no two commands overlap (they
\* share the temporary file).
FileLoads == overlap \/ file.kind \in {"absent", "list"}

\* An entry that run has reported as saved stays in the file, as long as no two
\* commands overlap: no command removes the VMs of an earlier one.
SavedStays ==
  overlap \/ \A i \in saved : file.map[i] # "none"

\* Reconcile "updates status to stopped for stale VMs": when a list that nothing
\* overlapped is done, no entry without a socket is still said to be running.
Reconciled ==
  [][ \A p \in Proc :
        (~overlap /\ cmd[p] = "list" /\ pc[p] \in {"edit", "rename"} /\ pc'[p] = "ok")
          => Stale(file'.map) = {} ]_vars

-----------------------------------------------------------------------------
(***************************************************************************)
(* The inductive invariant behind them.                                    *)
(***************************************************************************)
Map == [ID -> {"none", "running", "stopped"}]
Content == [kind : {"absent", "empty", "corrupt", "list"}, map : Map]

\* The type of every variable.
TypeOK ==
  /\ file \in Content /\ tmp \in Content
  /\ fd \in [Proc -> {"none", "tmp", "file", "gone"}]
  /\ mem \in [Proc -> Map]
  /\ cmd \in [Proc -> {"none", "run", "stop", "list"}]
  /\ id \in [Proc -> ID]
  /\ pc \in [Proc -> Ended \cup {"start", "edit", "open", "write", "rename"}]
  /\ tracks \subseteq Proc /\ socket \subseteq ID /\ saved \subseteq ID
  /\ overlap \in BOOLEAN

Saving(p) == pc[p] \in {"open", "write", "rename"}

\* What a command that runs alone knows of the files.
Knows(p) ==
  /\ pc[p] \in {"start", "edit"} => mem[p] = file.map
  /\ \A i \in saved : mem[p][i] # "none"
  /\ fd[p] = IF pc[p] = "write" THEN "tmp" ELSE "none"
  /\ pc[p] = "write" => tmp = Empty
  /\ pc[p] = "rename" => tmp = List(mem[p])
  /\ Saving(p) /\ cmd[p] = "run" => mem[p][id[p]] = "running"
  /\ Saving(p) /\ cmd[p] = "list" => Stale(mem[p]) = {}

\* As long as no two commands have overlapped, there is at most one, the file is
\* complete and has what was saved, and the one that runs knows what it does.
Solo ==
  ~overlap =>
    /\ \A p, q \in Active : p = q
    /\ file.kind \in {"absent", "list"}
    /\ \A i \in saved : file.map[i] # "none"
    /\ \A p \in Active : Knows(p)
    /\ \A p \in Proc \ Active : fd[p] = "none"

StateInv == TypeOK /\ Solo

=============================================================================
