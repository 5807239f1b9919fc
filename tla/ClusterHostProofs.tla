------------------------ MODULE ClusterHostProofs --------------------------
(***************************************************************************)
(* Proofs about ClusterHost: the type of its state, that a role which was  *)
(* given up stays given up, and that no command removes the cluster state  *)
(* under a daemon of its own role.  All three rest on HostInv.             *)
(***************************************************************************)
EXTENDS ClusterHost, TLAPS

-----------------------------------------------------------------------------
\* The tables of the commands, one command at a time.

\* The daemons that each command stops.
LEMMA StopsOf ==
  /\ Stops("none") = {}
  /\ Stops("init") = {"manager"} /\ Stops("deinit") = {"manager"}
  /\ Stops("join") = {"worker"} /\ Stops("leave") = {"worker"} /\ Stops("install") = {"worker"}
  /\ Stops("reset") = Role
BY DEF Stops

\* The steps of each command.
LEMMA StepsOf ==
  /\ Steps("none") = {"end"}
  /\ Steps("init") = {"config", "start", "tokens", "undo", "erase"}
  /\ Steps("join") = {"stop", "clear", "config", "start"}
  /\ Steps("install") = {"stop", "clear", "setup"}
  /\ Steps("leave") = {"vms", "stop", "unit", "clear", "net"}
  /\ Steps("deinit") = {"vms", "stop", "unit", "clear", "net"}
  /\ Steps("reset") = {"net", "stop", "unit", "clear", "config"}
BY DEF Steps

\* The steps of each command that follow its systemctl stop.
LEMMA AfterStopOf ==
  /\ AfterStop("none") = {}
  /\ AfterStop("init") = {"erase"} /\ AfterStop("join") = {"clear"} /\ AfterStop("install") = {"clear"}
  /\ AfterStop("leave") = {"unit", "clear", "net"}
  /\ AfterStop("deinit") = {"unit", "clear", "net"}
  /\ AfterStop("reset") = {"unit", "clear", "config"}
BY DEF AfterStop

\* The steps of each command that follow the removal of its unit files.
LEMMA AfterUnitOf ==
  /\ AfterUnit("none") = {} /\ AfterUnit("init") = {} /\ AfterUnit("join") = {}
  /\ AfterUnit("install") = {}
  /\ AfterUnit("leave") = {"clear", "net"} /\ AfterUnit("deinit") = {"clear", "net"}
  /\ AfterUnit("reset") = {"clear", "config"}
BY DEF AfterUnit

-----------------------------------------------------------------------------
\* The inductive invariant.

\* It holds on a fresh host.
LEMMA HostInvInit == Init => HostInv
BY StepsOf, StopsOf, AfterStopOf, AfterUnitOf
   DEF Init, HostInv, TypeOK, Progress, NoCmd, Command, Role, Step, Thing, Flag

\* The daemon and systemd keep it: a role that was given up has neither a daemon that
\* runs or is to be restarted nor a unit that a reboot starts.
LEMMA HostInvDaemon ==
  ASSUME HostInv, NEW r \in Role,
         DaemonStep(r) \/ Reboot \/ Interrupt
  PROVE  HostInv'
<1> USE StepsOf, StopsOf, AfterStopOf, AfterUnitOf
    DEF HostInv, TypeOK, Progress, NoCmd, Command, Role, Step, Thing, Flag
<1>1. CASE DaemonRuns(r)
  BY <1>1 DEF DaemonRuns
<1>2. CASE DaemonStartsVM(r)
  BY <1>2 DEF DaemonStartsVM
<1>3. CASE DaemonFails(r)
  BY <1>3 DEF DaemonFails
<1>4. CASE DaemonRestarts(r)
  BY <1>4 DEF DaemonRestarts
<1>5. CASE DaemonMigrates(r)
  BY <1>5 DEF DaemonMigrates
<1>6. CASE Reboot
  BY <1>6 DEF Reboot
<1>7. CASE Interrupt
  BY <1>7 DEF Interrupt
<1> QED
  BY <1>1, <1>2, <1>3, <1>4, <1>5, <1>6, <1>7 DEF DaemonStep

\* So do the set-up of the host and the microVMs that are deployed to it.
LEMMA HostInvSetup ==
  ASSUME HostInv,
         \/ Install \/ SetupInstall \/ SetupNetwork \/ SetupConfig
         \/ DeployUpload \/ DeployStart \/ DeployEnds
  PROVE  HostInv'
<1> USE DEF HostInv, TypeOK, Progress, Thing
<1>0. CASE Install
  BY <1>0, StepsOf, StopsOf, AfterStopOf, AfterUnitOf
     DEF Install, NoCmd, Command, Step, Flag
<1>1. CASE SetupInstall
  BY <1>1 DEF SetupInstall
<1>2. CASE SetupNetwork \/ SetupConfig
  BY <1>2 DEF SetupNetwork, SetupConfig
<1>3. CASE DeployUpload \/ DeployStart \/ DeployEnds
  BY <1>3 DEF DeployUpload, DeployStart, DeployEnds
<1> QED
  BY <1>0, <1>1, <1>2, <1>3

\* The first step of a command: init and join take their role back.
LEMMA HostInvBegin ==
  ASSUME HostInv, NEW flags \in SUBSET {"force", "more"},
         \/ InitBegin(flags) \/ JoinBegin
         \/ LeaveBegin(flags) \/ DeinitBegin(flags) \/ ResetBegin(flags)
  PROVE  HostInv'
<1> USE StepsOf, StopsOf, AfterStopOf, AfterUnitOf
    DEF HostInv, TypeOK, Progress, NoCmd, Command, Role, Step, Thing, Flag, Begin
<1>1. CASE InitBegin(flags)
  <2>1. CASE Begin("init", "config", flags)
    BY <1>1, <2>1 DEF InitBegin
  <2>2. CASE Begin("init", "undo", flags)
    BY <1>1, <2>2 DEF InitBegin
  <2> QED
    BY <1>1, <2>1, <2>2 DEF InitBegin
<1>2. CASE JoinBegin
  BY <1>2 DEF JoinBegin
<1>3. CASE LeaveBegin(flags)
  BY <1>3 DEF LeaveBegin
<1>4. CASE DeinitBegin(flags)
  BY <1>4 DEF DeinitBegin
<1>5. CASE ResetBegin(flags)
  BY <1>5 DEF ResetBegin, StopAllFirecrackerVMs
<1> QED
  BY <1>1, <1>2, <1>3, <1>4, <1>5

\* The steps of init, which holds the manager's role, and undoes what it did.
LEMMA HostInvInitSteps ==
  ASSUME HostInv, InitConfig \/ InitStart \/ InitEnd \/ InitUndo \/ InitErase
  PROVE  HostInv'
<1> USE StepsOf, StopsOf, AfterStopOf, AfterUnitOf
    DEF HostInv, TypeOK, Progress, NoCmd, Command, Role, Step, Thing, Flag, Goto, Finish
<1>1. CASE InitConfig
  <2>1. CASE Goto("start", FALSE)
    BY <1>1, <2>1, ZenonT(60) DEF InitConfig
  <2>2. CASE Goto("undo", FALSE)
    <3>1. unit' \subseteq unit \cup {"manager"} /\ UNCHANGED <<enabled, daemon, vms, here, out, tools>>
      BY <1>1 DEF InitConfig
    <3>2. cmd.do = "init"
      BY <1>1 DEF InitConfig
    <3> QED
      BY <2>2, <3>1, <3>2
  <2> QED
    BY <1>1, <2>1, <2>2 DEF InitConfig
<1>2. CASE InitStart
  <2>1. CASE Started("manager") /\ Goto("tokens", FALSE)
    BY <1>2, <2>1 DEF InitStart, Started, StartFailed
  <2>2. CASE StartFailed("manager") /\ Goto("undo", FALSE)
    BY <1>2, <2>2 DEF InitStart, Started, StartFailed
  <2> QED
    BY <1>2, <2>1, <2>2 DEF InitStart
<1>3. CASE InitEnd
  BY <1>3 DEF InitEnd
<1>4. CASE InitUndo
  <2>1. CASE Stopped({"manager"}) /\ Goto("erase", FALSE)
    BY <1>4, <2>1 DEF InitUndo, Stopped
  <2>2. CASE UNCHANGED daemon /\ UNCHANGED vms /\ Goto("erase", TRUE)
    BY <1>4, <2>2 DEF InitUndo, Stopped
  <2> QED
    BY <1>4, <2>1, <2>2 DEF InitUndo
<1>5. CASE InitErase
  BY <1>5 DEF InitErase
<1> QED
  BY <1>1, <1>2, <1>3, <1>4, <1>5

\* The steps of join, which holds the worker's role, and of install.sh, which shares the
\* first two with it.
LEMMA HostInvJoinSteps ==
  ASSUME HostInv, JoinStop \/ JoinClear \/ JoinConfig \/ JoinStart \/ InstallSetup
  PROVE  HostInv'
<1> USE StepsOf, StopsOf, AfterStopOf, AfterUnitOf
    DEF HostInv, TypeOK, Progress, NoCmd, Command, Role, Step, Thing, Flag, Goto, Finish
<1>1. CASE JoinStop
  <2>1. CASE Stopped({"worker"}) /\ Goto("clear", FALSE)
    BY <1>1, <2>1 DEF JoinStop, Stopped
  <2>2. CASE UNCHANGED daemon /\ UNCHANGED vms /\ Goto("clear", TRUE)
    BY <1>1, <2>2 DEF JoinStop, Stopped
  <2> QED
    BY <1>1, <2>1, <2>2 DEF JoinStop
<1>2. CASE JoinClear
  BY <1>2 DEF JoinClear, Cleared
<1>3. CASE JoinConfig
  <2>1. CASE Goto("start", FALSE) /\ UNCHANGED out
    BY <1>3, <2>1, ZenonT(60) DEF JoinConfig
  <2>2. CASE Finish({})
    BY <1>3, <2>2, ZenonT(60) DEF JoinConfig
  <2> QED
    BY <1>3, <2>1, <2>2 DEF JoinConfig
<1>4. CASE JoinStart
  <2>1. CASE Started("worker")
    BY <1>4, <2>1 DEF JoinStart, Started, StartFailed
  <2>2. CASE StartFailed("worker")
    BY <1>4, <2>2 DEF JoinStart, Started, StartFailed
  <2> QED
    BY <1>4, <2>1, <2>2 DEF JoinStart
<1>5. CASE InstallSetup
  BY <1>5 DEF InstallSetup
<1> QED
  BY <1>1, <1>2, <1>3, <1>4, <1>5

\* The steps of leave and deinit: each establishes a part of Progress, and the last one
\* gives the role up with all of it.
LEMMA HostInvLeaveSteps ==
  ASSUME HostInv,
         \/ StopVMs \/ StopService \/ RemoveService
         \/ ClearState \/ ClearStateDeinit \/ RemoveNetwork
  PROVE  HostInv'
<1> USE StepsOf, StopsOf, AfterStopOf, AfterUnitOf
    DEF HostInv, TypeOK, Progress, NoCmd, Command, Role, Step, Thing, Flag, Goto
<1>1. CASE StopVMs
  BY <1>1 DEF StopVMs, StopAllFirecrackerVMs
<1>2. CASE StopService
  <2>1. /\ UNCHANGED <<unit, enabled, here, out, tools>>
        /\ cmd.do \in {"leave", "deinit"} /\ cmd.at = "stop"
    BY <1>2 DEF StopService
  <2>2. CASE Stopped(Stops(cmd.do)) /\ Goto("unit", FALSE)
    <3>1. CASE cmd.do = "leave"
      <4>1. /\ daemon' = [r \in Role |-> IF r = "worker" THEN "off" ELSE daemon[r]]
            /\ vms' = vms \ {"worker"}
        BY <2>2, <3>1 DEF Stopped
      <4> QED
        BY <2>1, <2>2, <3>1, <4>1
    <3>2. CASE cmd.do = "deinit"
      <4>1. /\ daemon' = [r \in Role |-> IF r = "manager" THEN "off" ELSE daemon[r]]
            /\ vms' = vms \ {"manager"}
        BY <2>2, <3>2 DEF Stopped
      <4> QED
        BY <2>1, <2>2, <3>2, <4>1
    <3> QED
      BY <2>1, <3>1, <3>2
  <2>3. CASE UNCHANGED <<daemon, vms>> /\ Goto("unit", TRUE)
    BY <2>1, <2>3
  <2>4. CASE UNCHANGED <<daemon, vms>> /\ cmd' = NoCmd
    BY <2>1, <2>4
  <2> HIDE DEF HostInv, Goto, NoCmd
  <2> QED
    BY <1>2, <2>2, <2>3, <2>4 DEF StopService
<1>3. CASE RemoveService
  <2>1. CASE unit' = unit \ Stops(cmd.do) /\ Goto("clear", FALSE)
    <3>1. UNCHANGED <<daemon, vms, here, out, tools>> /\ enabled' \subseteq enabled
      BY <1>3 DEF RemoveService
    <3>2. CASE cmd.do = "leave" /\ cmd.at = "unit"
      BY <2>1, <3>1, <3>2, ZenonT(60)
    <3>3. CASE cmd.do = "deinit" /\ cmd.at = "unit"
      BY <2>1, <3>1, <3>3, ZenonT(60)
    <3> QED
      BY <1>3, <3>2, <3>3 DEF RemoveService
  <2>2. CASE UNCHANGED unit /\ cmd' = NoCmd
    BY <1>3, <2>2 DEF RemoveService
  <2> QED
    BY <1>3, <2>1, <2>2 DEF RemoveService
<1>4. CASE ClearState
  BY <1>4 DEF ClearState, Cleared
<1>5. CASE ClearStateDeinit
  BY <1>5 DEF ClearStateDeinit, Cleared
<1>6. CASE RemoveNetwork
  BY <1>6, ZenonT(60) DEF RemoveNetwork, Finish
<1> QED
  BY <1>1, <1>2, <1>3, <1>4, <1>5, <1>6

\* The steps of reset, which does the same for both roles.
LEMMA HostInvResetSteps ==
  ASSUME HostInv,
         \/ ResetNet \/ StopAllServices \/ RemoveAllServiceFiles
         \/ ClearAllState \/ ResetConfig
  PROVE  HostInv'
<1> USE StepsOf, StopsOf, AfterStopOf, AfterUnitOf
    DEF HostInv, TypeOK, Progress, NoCmd, Command, Role, Step, Thing, Flag, Goto
<1>1. CASE ResetNet
  BY <1>1 DEF ResetNet
<1>2. CASE StopAllServices
  <2>1. PICK R \in SUBSET Role : Stopped(R) /\ Goto("unit", R # Role)
    BY <1>2 DEF StopAllServices
  <2>2. UNCHANGED <<unit, here, out, tools>> /\ enabled' \subseteq enabled
    BY <1>2 DEF StopAllServices
  <2>3. cmd.do = "reset" /\ cmd.at = "stop"
    BY <1>2 DEF StopAllServices
  <2>4. CASE R = Role
    BY <2>1, <2>2, <2>3, <2>4 DEF Stopped
  <2>5. CASE R # Role
    BY <2>1, <2>2, <2>3, <2>5 DEF Stopped
  <2> QED
    BY <2>4, <2>5
<1>3. CASE RemoveAllServiceFiles
  BY <1>3, ZenonT(60) DEF RemoveAllServiceFiles
<1>4. CASE ClearAllState
  BY <1>4 DEF ClearAllState, Cleared
<1>5. CASE ResetConfig
  BY <1>5 DEF ResetConfig, Finish
<1> QED
  BY <1>1, <1>2, <1>3, <1>4, <1>5

\* Every step keeps the invariant.
LEMMA HostInvNext == HostInv /\ [Next]_hostVars => HostInv'
<1> SUFFICES ASSUME HostInv, [Next]_hostVars PROVE HostInv'
  OBVIOUS
<1>1. ASSUME NEW flags \in SUBSET {"force"}, InitBegin(flags) PROVE HostInv'
  BY <1>1, HostInvBegin
<1>2. CASE JoinBegin
  BY <1>2, HostInvBegin
<1>3. ASSUME NEW flags \in SUBSET {"force", "more"},
             LeaveBegin(flags) \/ DeinitBegin(flags) \/ ResetBegin(flags)
      PROVE  HostInv'
  BY <1>3, HostInvBegin
<1>4. CASE \/ Install \/ SetupInstall \/ SetupNetwork \/ SetupConfig
           \/ DeployUpload \/ DeployStart \/ DeployEnds
  BY <1>4, HostInvSetup
<1>5. CASE CommandStep
  BY <1>5, HostInvInitSteps, HostInvJoinSteps, HostInvLeaveSteps, HostInvResetSteps
     DEF CommandStep
<1>6. ASSUME NEW r \in Role, DaemonStep(r) PROVE HostInv'
  BY <1>6, HostInvDaemon
<1>7. CASE Reboot \/ Interrupt
  <2>1. "manager" \in Role
    BY DEF Role
  <2> QED
    BY <1>7, <2>1, HostInvDaemon
<1>8. CASE UNCHANGED hostVars
  BY <1>8 DEF hostVars, HostInv, TypeOK, Progress
<1> QED
  BY <1>1, <1>2, <1>3, <1>4, <1>5, <1>6, <1>7, <1>8 DEF Next

\* The host keeps HostInv: what the commands have achieved at each of their steps, and
\* that what was given up is gone.
THEOREM HostInvariant == Spec => []HostInv
BY HostInvInit, HostInvNext, PTL DEF Spec

-----------------------------------------------------------------------------
\* Every variable keeps its type, a command is at one of its steps, and microVMs run
\* only under a daemon that is up.
THEOREM HostTypeCorrect == Spec => []TypeOK
<1>1. HostInv => TypeOK
  BY DEF HostInv
<1> QED
  BY <1>1, HostInvariant, PTL

\* A role that leave, deinit or reset gave up has no daemon, no microVM and no unit until
\* the next init or join, whatever is interrupted, restarted or rebooted meanwhile.
THEOREM GivenUpStaysOut == Spec => []LeftStaysOut
<1>1. HostInv => LeftStaysOut
  BY DEF HostInv, TypeOK, LeftStaysOut, CheckExistingManager, Role
<1> QED
  BY <1>1, HostInvariant, PTL

\* A step that removes the state directory while a command runs is a step of the daemon
\* or one before which the command has stopped its own daemons.
LEMMA StateIsRemovedStopped ==
  ASSUME HostInv, Next, "state" \in here \ here', cmd # NoCmd,
         "unsure" \notin cmd.flags, ~(\E r \in Role : DaemonMigrates(r))
  PROVE  \A r \in Stops(cmd.do) : daemon[r] = "off"
<1> USE StopsOf, AfterStopOf DEF HostInv, TypeOK, Progress
<1>1. CASE InitErase
  BY <1>1 DEF InitErase
<1>2. CASE JoinClear
  BY <1>2 DEF JoinClear
<1>3. CASE ClearState
  BY <1>3 DEF ClearState
<1>4. CASE ClearStateDeinit
  BY <1>4 DEF ClearStateDeinit
<1>5. CASE ClearAllState
  BY <1>5 DEF ClearAllState
<1>6. \/ InitErase \/ JoinClear \/ ClearState \/ ClearStateDeinit \/ ClearAllState
  <2>1. ~Reboot /\ ~Interrupt
    BY DEF Reboot, Interrupt
  <2>2. ~(\E r \in Role : DaemonStep(r))
    BY DEF DaemonStep, DaemonRuns, DaemonStartsVM, DaemonFails, DaemonRestarts
  <2>3. ~(Install \/ SetupInstall \/ SetupNetwork \/ SetupConfig)
    BY DEF Install, SetupInstall, SetupNetwork, SetupConfig
  <2>4. ~(DeployUpload \/ DeployStart \/ DeployEnds)
    BY DEF DeployUpload, DeployStart, DeployEnds
  <2>5. ~(\E flags \in SUBSET {"force"} : InitBegin(flags)) /\ ~JoinBegin
    BY DEF InitBegin, JoinBegin, Begin
  <2>6. ~(\E flags \in SUBSET {"force", "more"} :
             LeaveBegin(flags) \/ DeinitBegin(flags) \/ ResetBegin(flags))
    BY DEF LeaveBegin, DeinitBegin, ResetBegin, Begin
  <2>7. CommandStep
    BY <2>1, <2>2, <2>3, <2>4, <2>5, <2>6 DEF Next
  <2>8. ~(InitConfig \/ InitStart \/ InitEnd \/ InitUndo)
    BY DEF InitConfig, InitStart, InitEnd, InitUndo
  <2>9. ~(JoinStop \/ JoinConfig \/ JoinStart \/ InstallSetup)
    BY DEF JoinStop, JoinConfig, JoinStart, InstallSetup
  <2>10. ~(StopVMs \/ StopService \/ RemoveService \/ RemoveNetwork)
    BY DEF StopVMs, StopAllFirecrackerVMs, StopService, RemoveService, RemoveNetwork
  <2>11. ~(ResetNet \/ StopAllServices \/ RemoveAllServiceFiles \/ ResetConfig)
    BY ZenonT(60) DEF ResetNet, StopAllServices, RemoveAllServiceFiles, ResetConfig
  <2> QED
    BY <2>7, <2>8, <2>9, <2>10, <2>11 DEF CommandStep
<1> QED
  BY <1>1, <1>2, <1>3, <1>4, <1>5, <1>6

\* No command removes the state directory under a daemon of its own role, unless
\* systemctl stop had failed: no pending restart can bring the daemon back in between.
THEOREM StateRemovedStopped == Spec => OwnDaemonStopped
<1> DEFINE A == "state" \in here \ here' /\ cmd # NoCmd /\ "unsure" \notin cmd.flags =>
                  \/ \E r \in Role : DaemonMigrates(r)
                  \/ \A r \in Stops(cmd.do) : daemon[r] = "off"
<1>1. HostInv /\ [Next]_hostVars => [A]_hostVars
  <2> SUFFICES ASSUME HostInv, [Next]_hostVars, ~UNCHANGED hostVars PROVE A
    OBVIOUS
  <2> QED
    BY StateIsRemovedStopped
<1>2. Spec => [][A]_hostVars
  BY <1>1, HostInvariant, PTL DEF Spec
<1> QED
  BY <1>2 DEF OwnDaemonStopped

=============================================================================
