---------------------------- MODULE ClusterHost ----------------------------
(***************************************************************************)
(* A host of the cluster under the commands that make it a manager or a    *)
(* worker and unmake it again: init, join, leave, deinit and reset         *)
(* (cmd/swarmcracker/cmd_*.go), and under install.sh.  They are scripts    *)
(* over systemd units, processes and directories, run one at a time by an  *)
(* operator, while the node daemon (cmd/swarmd-firecracker) runs, dies, is *)
(* restarted by systemd and starts microVMs.  A command may be interrupted *)
(* after any step, the host may reboot, and systemctl may fail.            *)
(*                                                                         *)
(* systemd is external: a stop takes the whole control group down and      *)
(* cancels a pending restart; Restart=on-failure brings a daemon back that *)
(* was killed or ended with an error, and a reboot every enabled one.      *)
(***************************************************************************)
EXTENDS Naturals

Role == {"manager", "worker"}

VARIABLES
  unit,    \* roles that have a unit file
  enabled, \* roles whose unit is enabled
  daemon,  \* the daemon of each role: off, up, or failed and about to be restarted
  vms,     \* roles whose daemon has microVMs running
  here,    \* what there is on the host
  tools,   \* what is installed: the project's own programs ("swarm") and Firecracker
  cmd,     \* the command that is running
  out      \* roles given up for good: by leave, deinit or reset, with no command since

hostVars == <<unit, enabled, daemon, vms, here, tools, cmd, out>>

\* Something in the state directory, a configuration, root filesystems, a bridge, and a
\* microVM that swarmcracker deploy has started.
Thing == {"state", "config", "rootfs", "bridge", "deployed"}

\* force: --force, and reset --hard; more: --purge, and reset without --keep-config;
\* unsure: a step failed and the command went on.
Flag == {"force", "more", "unsure"}

\* do: the command, at: its next step.
NoCmd == [do |-> "none", at |-> "end", flags |-> {}]

\* The roles a command stops before it clears the state directory.
Stops(do) == CASE do \in {"init", "deinit"} -> {"manager"}
               [] do \in {"join", "leave", "install"} -> {"worker"}
               [] do = "reset" -> Role
               [] OTHER -> {}

\* The steps of each command.
Steps(do) == CASE do = "init" -> {"config", "start", "tokens", "undo", "erase"}
               [] do = "join" -> {"stop", "clear", "config", "start"}
               [] do = "install" -> {"stop", "clear", "setup"}
               [] do \in {"leave", "deinit"} -> {"vms", "stop", "unit", "clear", "net"}
               [] do = "reset" -> {"net", "stop", "unit", "clear", "config"}
               [] OTHER -> {"end"}

Step == {"end", "vms", "stop", "unit", "clear", "config", "net", "start", "tokens", "undo",
         "erase", "setup"}

Command == [do : {"none", "init", "join", "leave", "deinit", "reset", "install"}, at : Step,
            flags : SUBSET Flag]

\* The type of every variable; a command is at one of its own steps, and microVMs run
\* only in the control group of a daemon that is up.
TypeOK ==
  /\ unit \subseteq Role /\ enabled \subseteq Role /\ out \subseteq Role
  /\ daemon \in [Role -> {"off", "up", "failed"}]
  /\ vms \subseteq {r \in Role : daemon[r] = "up"}
  /\ here \subseteq Thing /\ tools \subseteq {"swarm", "firecracker"}
  /\ cmd \in Command /\ cmd.at \in Steps(cmd.do)

Init ==
  /\ unit = {} /\ enabled = {} /\ vms = {} /\ out = {}
  /\ daemon = [r \in Role |-> "off"]
  /\ here = {} /\ tools = {}
  /\ cmd = NoCmd

\* The command goes on with step l, and knows of what has failed.
Goto(l, failed) ==
  cmd' = [do |-> cmd.do, at |-> l,
          flags |-> IF failed THEN cmd.flags \cup {"unsure"} ELSE cmd.flags]

\* A command that reports success has given up the roles it stopped, unless a step failed.
Finish(gone) ==
  /\ cmd' = NoCmd
  /\ out' = out \cup (IF "unsure" \in cmd.flags THEN {} ELSE gone)

\* Directories are removed, the state directory among them; errors are only logged.
Cleared(things, next) ==
  /\ \E gone \in SUBSET things : here' = here \ gone
  /\ Goto(next, FALSE)

Begin(do, at, flags) ==
  /\ cmd = NoCmd /\ "swarm" \in tools
  /\ cmd' = [do |-> do, at |-> at, flags |-> flags]

-----------------------------------------------------------------------------
\* The daemon.

\* runAgent and startNode: state and certificates are written and the bridge is made.
DaemonRuns(r) ==
  /\ daemon[r] = "up"
  /\ ~ {"state", "bridge", "rootfs"} \subseteq here
  /\ here' = here \cup {"state", "bridge", "rootfs"}
  /\ UNCHANGED <<unit, enabled, daemon, vms, cmd, out, tools>>

DaemonStartsVM(r) ==
  /\ daemon[r] = "up" /\ r \notin vms
  /\ vms' = vms \cup {r} /\ here' = here \cup {"bridge"}
  /\ UNCHANGED <<unit, enabled, daemon, cmd, out, tools>>

\* startNode returns an error, or the process dies: what it started goes with it.
DaemonFails(r) ==
  /\ daemon[r] = "up"
  /\ daemon' = [daemon EXCEPT ![r] = "failed"]
  /\ vms' = vms \ {r}
  /\ UNCHANGED <<unit, enabled, here, cmd, out, tools>>

\* Restart=on-failure.
DaemonRestarts(r) ==
  /\ daemon[r] = "failed" /\ "swarm" \in tools
  /\ daemon' = [daemon EXCEPT ![r] = "up"]
  /\ UNCHANGED <<unit, enabled, vms, here, cmd, out, tools>>

\* checkAndMigrateClusterAddress: a manager, which after join --manager runs in the unit
\* of the worker, that has started on state with a wildcard address removes it, and the
\* directory is empty when no join tokens are in it.
DaemonMigrates(r) ==
  /\ daemon[r] = "up" /\ "state" \in here
  /\ here' = here \ {"state"}
  /\ UNCHANGED <<unit, enabled, daemon, vms, cmd, out, tools>>

\* An enabled unit is started, or fails as long as its program is missing.
Reboot ==
  /\ daemon' = [r \in Role |-> IF r \in enabled \cap unit THEN "failed" ELSE "off"]
  /\ vms' = {} /\ here' = here \ {"bridge", "deployed"} /\ cmd' = NoCmd
  /\ UNCHANGED <<unit, enabled, tools, out>>

\* The operator interrupts the command.
Interrupt ==
  /\ cmd # NoCmd
  /\ cmd' = NoCmd
  /\ UNCHANGED <<unit, enabled, daemon, vms, here, out, tools>>

-----------------------------------------------------------------------------
\* systemctl, as the commands use it.

\* Mutant: the daemon is stopped without its control group.
Stopped_Process(R) ==
  /\ daemon' = [r \in Role |-> IF r \in R THEN "off" ELSE daemon[r]]
  /\ UNCHANGED vms

\* Mutant: the processes are killed, and systemd brings them back.
Stopped_Kill(R) ==
  /\ daemon' = [r \in Role |-> IF r \in R /\ daemon[r] # "off" THEN "failed" ELSE daemon[r]]
  /\ vms' = vms \ R

\* systemctl stop.
Stopped(R) ==
  /\ daemon' = [r \in Role |-> IF r \in R THEN "off" ELSE daemon[r]]
  /\ vms' = vms \ R

\* systemctl enable, whose failure is only logged, and start of the unit.
Started(r) ==
  /\ \E e \in {enabled, enabled \cup {r}} : enabled' = e
  /\ daemon' = [daemon EXCEPT ![r] = "up"]

StartFailed(r) ==
  /\ \E e \in {enabled, enabled \cup {r}} : enabled' = e
  /\ daemon' = [daemon EXCEPT ![r] = IF @ = "up" THEN "up" ELSE "failed"]

\* pgrep -f firecracker finds the microVMs, and swarmd-firecracker with them: SIGTERM,
\* on which a daemon ends well or with an error, then SIGKILL.
StopAllFirecrackerVMs ==
  /\ \E D \in SUBSET {r \in Role : daemon[r] = "up"} :
       daemon' = [r \in Role |-> IF daemon[r] # "up" THEN daemon[r]
                                 ELSE IF r \in D THEN "failed" ELSE "off"]
  /\ vms' = {} /\ here' = here \ {"deployed"}

-----------------------------------------------------------------------------
\* What comes before: setup, and microVMs that are deployed from elsewhere.

\* install.sh: the project's programs are copied.  In its init mode it goes on with
\* Firecracker, in its join mode it clears the state of a worker before that.
Install ==
  /\ cmd = NoCmd
  /\ tools' = tools \cup {"swarm"}
  /\ \/ UNCHANGED cmd
     \/ \E l \in {"stop", "setup"} : cmd' = [do |-> "install", at |-> l, flags |-> {}]
  /\ UNCHANGED <<unit, enabled, daemon, vms, here, out>>

\* setup_firecracker, a failure of which ends the script; swarmcracker init or join, which
\* it runs next, are the commands below.
InstallSetup ==
  /\ cmd.do = "install" /\ cmd.at = "setup"
  /\ tools' \in {tools, tools \cup {"firecracker"}}
  /\ Finish({})
  /\ UNCHANGED <<unit, enabled, daemon, vms, here>>

\* setup install: Firecracker, when curl is there and the download works.
SetupInstall ==
  /\ cmd = NoCmd /\ "swarm" \in tools
  /\ tools' = tools \cup {"firecracker"}
  /\ UNCHANGED <<unit, enabled, daemon, vms, here, cmd, out>>

\* setup network: a bridge, unless there is one.
SetupNetwork ==
  /\ cmd = NoCmd /\ "swarm" \in tools
  /\ here' = here \cup {"bridge"}
  /\ UNCHANGED <<unit, enabled, daemon, vms, cmd, out, tools>>

\* setup config: a configuration, unless there is one.
SetupConfig ==
  /\ cmd = NoCmd /\ "swarm" \in tools
  /\ here' = here \cup {"config"}
  /\ UNCHANGED <<unit, enabled, daemon, vms, cmd, out, tools>>

\* deploy, run on another host: it looks for Firecracker here, uploads a root filesystem ...
DeployUpload ==
  /\ "firecracker" \in tools
  /\ here' = here \cup {"rootfs"}
  /\ UNCHANGED <<unit, enabled, daemon, vms, cmd, out, tools>>

\* ... and starts a microVM that belongs to no unit and no daemon.
DeployStart ==
  /\ "firecracker" \in tools /\ "rootfs" \in here
  /\ here' = here \cup {"deployed"}
  /\ UNCHANGED <<unit, enabled, daemon, vms, tools, cmd, out>>

DeployEnds ==
  /\ "deployed" \in here
  /\ here' = here \ {"deployed"}
  /\ UNCHANGED <<unit, enabled, daemon, vms, tools, cmd, out>>

\* The checks a failure of which ends init and join before they have changed anything.
Preflight == "firecracker" \in tools

-----------------------------------------------------------------------------
\* init.

CheckExistingManager == daemon["manager"] = "up" \/ "manager" \in unit \/ "state" \in here

\* The check, the preflight and createDirectories, from whose failure on there is a
\* roll-back.
InitBegin(flags) ==
  /\ CheckExistingManager => "force" \in flags
  /\ Preflight
  /\ \/ Begin("init", "config", flags) /\ here' = here \cup {"config", "rootfs"}
     \/ Begin("init", "undo", flags) /\ UNCHANGED here
  /\ out' = out \ {"manager"}
  /\ UNCHANGED <<unit, enabled, daemon, vms, tools>>

\* generateConfigFiles: a failure may leave a truncated unit file.
InitConfig ==
  /\ cmd.do = "init" /\ cmd.at = "config"
  /\ \/ unit' = unit \cup {"manager"} /\ Goto("start", FALSE)
     \/ unit' \in {unit, unit \cup {"manager"}} /\ Goto("undo", FALSE)
  /\ UNCHANGED <<enabled, daemon, vms, here, out, tools>>

\* startManagerService.
InitStart ==
  /\ cmd.do = "init" /\ cmd.at = "start"
  /\ \/ Started("manager") /\ Goto("tokens", FALSE)
     \/ StartFailed("manager") /\ Goto("undo", FALSE)
  /\ UNCHANGED <<unit, vms, here, out, tools>>

\* displayJoinTokens: a failure is only logged.
InitEnd ==
  /\ cmd.do = "init" /\ cmd.at = "tokens"
  /\ Finish({})
  /\ UNCHANGED <<unit, enabled, daemon, vms, here, tools>>

\* rollbackInit stops the service, whatever systemctl answers, ...
InitUndo ==
  /\ cmd.do = "init" /\ cmd.at = "undo"
  /\ \/ Stopped({"manager"}) /\ Goto("erase", FALSE)
     \/ UNCHANGED <<daemon, vms>> /\ Goto("erase", TRUE)
  /\ UNCHANGED <<unit, enabled, here, out, tools>>

\* ... and removes its file, the state and the configuration, whatever fails, also what
\* was there before an init --force.
InitErase ==
  /\ cmd.do = "init" /\ cmd.at = "erase"
  /\ unit' \in {unit, unit \ {"manager"}}
  /\ \E gone \in SUBSET {"state", "config"} : here' = here \ gone
  /\ Finish({})
  /\ UNCHANGED <<enabled, daemon, vms, tools>>

-----------------------------------------------------------------------------
\* join.

\* The token and the connection to the manager are checked; what the host is, is not.
JoinBegin ==
  /\ Preflight
  /\ Begin("join", "stop", {})
  /\ out' = out \ {"worker"}
  /\ UNCHANGED <<unit, enabled, daemon, vms, here, tools>>

\* clearOldWorkerState, and clear_worker_state of install.sh, which does the same.
JoinStop ==
  /\ cmd.do \in {"join", "install"} /\ cmd.at = "stop"
  /\ \/ Stopped({"worker"}) /\ Goto("clear", FALSE)
     \/ UNCHANGED <<daemon, vms>> /\ Goto("clear", TRUE)
  /\ UNCHANGED <<unit, enabled, here, out, tools>>

JoinClear ==
  /\ cmd.do \in {"join", "install"} /\ cmd.at = "clear"
  /\ unit' \in {unit, unit \ {"worker"}}
  /\ Cleared({"state"}, IF cmd.do = "join" THEN "config" ELSE "setup")
  /\ UNCHANGED <<enabled, daemon, vms, out, tools>>

\* The directories, the configuration and the unit; a failure ends the command.
JoinConfig ==
  /\ cmd.do = "join" /\ cmd.at = "config"
  /\ \/ /\ here' = here \cup {"config", "rootfs"} /\ unit' = unit \cup {"worker"}
        /\ Goto("start", FALSE) /\ UNCHANGED out
     \/ /\ \E made \in SUBSET {"config", "rootfs"} : here' = here \cup made
        /\ unit' \in {unit, unit \cup {"worker"}}
        /\ Finish({})
  /\ UNCHANGED <<enabled, daemon, vms, tools>>

\* startWorkerService.
JoinStart ==
  /\ cmd.do = "join" /\ cmd.at = "start"
  /\ Started("worker") \/ StartFailed("worker")
  /\ Finish({})
  /\ UNCHANGED <<unit, vms, here, tools>>

-----------------------------------------------------------------------------
\* leave and deinit, which share their steps.

LeaveBegin(flags) ==
  /\ "worker" \in unit
  /\ Begin("leave", "vms", flags)
  /\ UNCHANGED <<unit, enabled, daemon, vms, here, out, tools>>

\* deinit looks for VMs first; where there is none it does not stop any.
DeinitBegin(flags) ==
  /\ "manager" \in unit
  /\ \E l \in {"vms", "stop"} :
       /\ l = "stop" => vms = {} /\ "deployed" \notin here /\ \A r \in Role : daemon[r] # "up"
       /\ Begin("deinit", l, flags)
  /\ UNCHANGED <<unit, enabled, daemon, vms, here, out, tools>>

StopVMs ==
  /\ cmd.do \in {"leave", "deinit"} /\ cmd.at = "vms"
  /\ StopAllFirecrackerVMs
  /\ Goto("stop", FALSE)
  /\ UNCHANGED <<unit, enabled, tools, out>>

\* stopWorkerService and stopManagerService: an error ends the command, unless forced.
StopService ==
  /\ cmd.do \in {"leave", "deinit"} /\ cmd.at = "stop"
  /\ \/ Stopped(Stops(cmd.do)) /\ Goto("unit", FALSE)
     \/ /\ UNCHANGED <<daemon, vms>>
        /\ IF "force" \in cmd.flags THEN Goto("unit", TRUE) ELSE cmd' = NoCmd
  /\ UNCHANGED <<unit, enabled, here, out, tools>>

\* Mutant: the unit is disabled and its file is kept.
RemoveService_DisableOnly ==
  /\ cmd.do \in {"leave", "deinit"} /\ cmd.at = "unit"
  /\ enabled' = enabled \ Stops(cmd.do)
  /\ Goto("clear", FALSE)
  /\ UNCHANGED <<unit, daemon, vms, here, out, tools>>

\* removeWorkerService and removeManagerService.
RemoveService ==
  /\ cmd.do \in {"leave", "deinit"} /\ cmd.at = "unit"
  /\ \E e \in {enabled, enabled \ Stops(cmd.do)} : enabled' = e
  /\ \/ unit' = unit \ Stops(cmd.do) /\ Goto("clear", FALSE)
     \/ UNCHANGED unit /\ cmd' = NoCmd
  /\ UNCHANGED <<daemon, vms, here, out, tools>>

\* clearState: the state directory goes with and without --purge, the configuration with
\* it, and so do the root filesystems in deinit.
ClearState ==
  /\ cmd.do = "leave" /\ cmd.at = "clear"
  /\ Cleared(IF "more" \in cmd.flags THEN {"state", "config"} ELSE {"state"}, "net")
  /\ UNCHANGED <<unit, enabled, daemon, vms, out, tools>>

ClearStateDeinit ==
  /\ cmd.do = "deinit" /\ cmd.at = "clear"
  /\ Cleared(IF "more" \in cmd.flags THEN {"state", "config", "rootfs"} ELSE {"state"}, "net")
  /\ UNCHANGED <<unit, enabled, daemon, vms, out, tools>>

\* removeNetworkBridge, unless the flags keep it or it fails, which is only logged.
RemoveNetwork ==
  /\ cmd.do \in {"leave", "deinit"} /\ cmd.at = "net"
  /\ here' \in {here, here \ {"bridge"}}
  /\ Finish(Stops(cmd.do))
  /\ UNCHANGED <<unit, enabled, daemon, vms, tools>>

-----------------------------------------------------------------------------
\* reset, which ignores every error.

\* killAllFirecracker; the flag force stands for --hard.
ResetBegin(flags) ==
  /\ Begin("reset", "net", flags)
  /\ StopAllFirecrackerVMs
  /\ UNCHANGED <<unit, enabled, tools, out>>

\* The TAP devices and the bridge, while the services may come back.
ResetNet ==
  /\ cmd.do = "reset" /\ cmd.at = "net"
  /\ here' \in {here, here \ {"bridge"}}
  /\ Goto("stop", FALSE)
  /\ UNCHANGED <<unit, enabled, daemon, vms, out, tools>>

\* stopAllServices: systemctl stop and disable, one unit after the other; any may fail.
StopAllServices ==
  /\ cmd.do = "reset" /\ cmd.at = "stop"
  /\ enabled' \in SUBSET enabled
  /\ \E R \in SUBSET Role : Stopped(R) /\ Goto("unit", R # Role)
  /\ UNCHANGED <<unit, here, out, tools>>

RemoveAllServiceFiles ==
  /\ cmd.do = "reset" /\ cmd.at = "unit"
  /\ unit' \in SUBSET unit
  /\ Goto("clear", unit' # {})
  /\ UNCHANGED <<enabled, daemon, vms, here, out, tools>>

\* clearAllState removes /var/lib/firecracker too, and the root filesystems in it.
ClearAllState ==
  /\ cmd.do = "reset" /\ cmd.at = "clear"
  /\ Cleared({"state", "rootfs"}, "config")
  /\ UNCHANGED <<unit, enabled, daemon, vms, out, tools>>

\* The configuration, and with --hard the project's programs.
ResetConfig ==
  /\ cmd.do = "reset" /\ cmd.at = "config"
  /\ here' \in {here, IF "more" \in cmd.flags THEN here \ {"config"} ELSE here}
  /\ tools' \in {tools, IF "force" \in cmd.flags THEN tools \ {"swarm"} ELSE tools}
  /\ Finish(Role)
  /\ UNCHANGED <<unit, enabled, daemon, vms>>

-----------------------------------------------------------------------------
DaemonStep(r) ==
  DaemonRuns(r) \/ DaemonStartsVM(r) \/ DaemonFails(r) \/ DaemonRestarts(r) \/ DaemonMigrates(r)

CommandStep ==
  \/ InstallSetup
  \/ InitConfig \/ InitStart \/ InitEnd \/ InitUndo \/ InitErase
  \/ JoinStop \/ JoinClear \/ JoinConfig \/ JoinStart
  \/ StopVMs \/ StopService \/ RemoveService \/ ClearState \/ ClearStateDeinit \/ RemoveNetwork
  \/ ResetNet \/ StopAllServices \/ RemoveAllServiceFiles \/ ClearAllState \/ ResetConfig

Next ==
  \/ \E flags \in SUBSET {"force"} : InitBegin(flags)
  \/ JoinBegin
  \/ \E flags \in SUBSET {"force", "more"} :
       LeaveBegin(flags) \/ DeinitBegin(flags) \/ ResetBegin(flags)
  \/ Install \/ SetupInstall \/ SetupNetwork \/ SetupConfig
  \/ DeployUpload \/ DeployStart \/ DeployEnds
  \/ CommandStep
  \/ \E r \in Role : DaemonStep(r)
  \/ Reboot \/ Interrupt

Spec == Init /\ [][Next]_hostVars

-----------------------------------------------------------------------------
\* The steps before which a command has stopped its daemons, and removed their units.
AfterStop(do) == CASE do = "init" -> {"erase"}
                   [] do \in {"join", "install"} -> {"clear"}
                   [] do \in {"leave", "deinit"} -> {"unit", "clear", "net"}
                   [] do = "reset" -> {"unit", "clear", "config"}
                   [] OTHER -> {}

AfterUnit(do) == CASE do \in {"leave", "deinit"} -> {"clear", "net"}
                   [] do = "reset" -> {"clear", "config"}
                   [] OTHER -> {}

\* What a command has achieved so far, unless a step of it failed.
Progress ==
  "unsure" \notin cmd.flags =>
    /\ cmd.at \in AfterStop(cmd.do) => \A r \in Stops(cmd.do) : daemon[r] = "off"
    /\ cmd.at \in AfterUnit(cmd.do) => unit \cap Stops(cmd.do) = {}

\* The inductive invariant: what was given up is gone, init and join take their role
\* back first, and a command that ends adds only what Progress has shown to be gone.
HostInv ==
  /\ TypeOK
  /\ \A r \in out : daemon[r] = "off" /\ r \notin unit
  /\ cmd.do = "init" => "manager" \notin out
  /\ cmd.do = "join" => "worker" \notin out
  /\ Progress

\* A role that was given up stays given up: once leave, deinit or reset has reported
\* success and no step of it had failed, the daemon of that role, its microVMs
\* and its unit are gone, and neither Restart=on-failure nor a reboot nor another
\* command that is interrupted half-way brings them back, until init or join.
LeftStaysOut == \A r \in out : daemon[r] = "off" /\ r \notin vms /\ r \notin unit

\* Neither a command nor install.sh removes the state directory under a daemon of its
\* own role: the daemon was stopped, and no pending restart of systemd has brought it
\* back, unless systemctl stop had failed.
OwnDaemonStopped ==
  []["state" \in here \ here' /\ cmd # NoCmd /\ "unsure" \notin cmd.flags =>
       \/ \E r \in Role : DaemonMigrates(r)
       \/ \A r \in Stops(cmd.do) : daemon[r] = "off"]_hostVars

=============================================================================
