----------------------------- MODULE TapNetwork -----------------------------
(***************************************************************************)
(* TAP devices and VM addresses of a node: NetworkManager and IPAllocator  *)
(* (pkg/network/manager.go, static IP mode) and the CNI client it calls.   *)
(*                                                                         *)
(* PrepareNetwork and CleanupNetwork of different tasks interleave; those  *)
(* of one task do not (Controller.mu).  CleanupNetwork holds nm.mu from    *)
(* beginning to end, but an allocation takes only the allocator's own      *)
(* lock.  Every ip(8) command may fail.                                    *)
(***************************************************************************)
EXTENDS Integers, Sequences, FiniteSets

CONSTANTS
  Task, NoTask,
  Size,        \* number of addresses of the subnet; an address is its offset
  Gateway,     \* the offset of the bridge IP
  Hash,        \* hash of a task ID, what hashToIP reduces to an offset
  MaxProbes,   \* the limit of the probing loop in Allocate (256 in the code)
  Nets         \* the network attachments of each task: a sequence of "swarmkit"
               \* (SwarmKit assigned an address) and "none" (it did not)

NoAddr == -1

ASSUME NetworkAssumptions ==
  /\ NoTask \notin Task
  /\ Size \in Nat \ {0}
  /\ Gateway \in 0..(Size - 1)
  /\ Hash \in [Task -> Nat]
  /\ MaxProbes \in Nat \ {0}
  /\ Nets \in [Task -> Seq({"none", "swarmkit"})]

VARIABLES
  allocated,   \* IPAllocator.allocated: a map from addresses to tasks
  tapDevices,  \* NetworkManager.tapDevices: records [task, index, ip]
  mu,          \* the task whose CleanupNetwork holds nm.mu
  links,       \* TAP devices of the kernel, <<task, index>>
  cniTaps,     \* tasks with a TAP device made by the CNI plugin
  status,      \* where each task is
  pos,         \* how many TAPs the PrepareNetwork of the task has made
  addr,        \* the address of the TAP in progress
  addFailed,   \* history: tasks whose last createTapDevice failed
  delFailed    \* history: tasks for which the deletion of a device failed

failures == <<addFailed, delFailed>>
vars == <<allocated, tapDevices, mu, links, cniTaps, status, pos, addr, failures>>

Init ==
  /\ allocated = <<>>
  /\ tapDevices = {}
  /\ mu = NoTask
  /\ links = {}
  /\ cniTaps = {}
  /\ status = [t \in Task |-> "new"]
  /\ pos = [t \in Task |-> 0]
  /\ addr = [t \in Task |-> NoAddr]
  /\ addFailed = {}
  /\ delFailed = {}

-----------------------------------------------------------------------------
(***************************************************************************)
(* IPAllocator                                                             *)
(***************************************************************************)
Put(f, x, y) == [z \in DOMAIN f \cup {x} |-> IF z = x THEN y ELSE f[z]]
Delete(f, x) == [z \in DOMAIN f \ {x} |-> f[z]]

\* The addresses that are reserved for a task.
Own(t) == {a \in DOMAIN allocated : allocated[a] = t}

HashToIP(t) ==
  IF Size < 4 THEN Hash[t] % Size
              ELSE (Hash[t] % (Size - 2)) + 1

\* Mutant: no wrap-around.
NextIP_NoWrap(a) == IF a + 1 < Size THEN a + 1 ELSE a

NextIP(a) == IF a + 1 < Size THEN a + 1 ELSE 2

\* The address examined at each round of the loop.
Probe(t) ==
  LET at[i \in 0..(MaxProbes - 1)] ==
        IF i = 0 THEN HashToIP(t) ELSE NextIP(at[i - 1])
  IN  at

\* Mutant: the gateway is the only address that is avoided.
Usable_NoCollisionCheck(a) == a # Gateway

Usable(a) == a # Gateway /\ a \notin DOMAIN allocated

\* The address Allocate returns for a task (NoAddr: it fails).
Allocate(t) ==
  LET hits  == {i \in 0..(MaxProbes - 1) : Usable(Probe(t)[i])}
      first == {i \in hits : \A j \in hits : i <= j}
  IN  IF Own(t) # {} THEN CHOOSE a \in Own(t) : TRUE
      ELSE IF first = {} THEN NoAddr
      ELSE Probe(t)[CHOOSE i \in first : TRUE]

\* Mutant: the address the task hashes to is released, not the one it has.
Release_ByHash(r) == Delete(allocated, HashToIP(r.task))

\* Mutant: the address is never given back.
Release_Nothing(r) == allocated

\* Release deletes the entry of the address, whoever owns it.
Release(r) ==
  IF r.ip = NoAddr THEN allocated ELSE Delete(allocated, r.ip)

-----------------------------------------------------------------------------
(***************************************************************************)
(* PrepareNetwork.  A task without attachments gets a default one: its TAP *)
(* is made, recorded, and then made again by the loop over the             *)
(* attachments, with the address of the first round.  A task with          *)
(* attachments is prepared by prepareNetworkWithCNI (NewNetworkManager     *)
(* always sets a CNI client).                                              *)
(***************************************************************************)
Rounds(t) == IF Nets[t] = <<>> THEN 2 ELSE Len(Nets[t])

Index(t) == IF Nets[t] = <<>> THEN 0 ELSE pos[t]

PrepareBegin(t) ==
  /\ status[t] \in {"new", "failed"}
  /\ status' = [status EXCEPT ![t] = "address"]
  /\ pos' = [pos EXCEPT ![t] = 0]
  /\ addr' = [addr EXCEPT ![t] = NoAddr]
  /\ UNCHANGED <<allocated, tapDevices, mu, links, cniTaps, failures>>

LocalTap(t) == Nets[t] # <<>> => Nets[t][pos[t] + 1] = "none"

\* createTapDevice, its choice of an address.  A failed allocation is logged
\* and the TAP has no IP.
ChooseAddress(t) ==
  /\ status[t] = "address"
  /\ LocalTap(t)
  /\ IF Nets[t] = <<>> /\ pos[t] = 1 /\ addr[t] # NoAddr
       THEN UNCHANGED <<addr, allocated>>
       ELSE LET a == Allocate(t)
            IN  /\ addr' = [addr EXCEPT ![t] = a]
                /\ allocated' = IF a = NoAddr THEN allocated
                                ELSE Put(allocated, a, t)
  /\ status' = [status EXCEPT ![t] = "link"]
  /\ UNCHANGED <<tapDevices, mu, links, cniTaps, pos, failures>>

\* createTapDevice, its commands, and the record under nm.mu.
CreateTap(t) ==
  /\ status[t] = "link"
  /\ mu = NoTask
  /\ links' = links \cup {<<t, Index(t)>>}
  /\ tapDevices' = {r \in tapDevices : r.task # t \/ r.index # Index(t)}
                     \cup {[task |-> t, index |-> Index(t), ip |-> addr[t]]}
  /\ pos' = [pos EXCEPT ![t] = @ + 1]
  /\ status' = [status EXCEPT ![t] = IF pos'[t] = Rounds(t) THEN "prepared"
                                                            ELSE "address"]
  /\ addFailed' = addFailed \ {t}
  /\ UNCHANGED <<allocated, mu, cniTaps, addr, delFailed>>

\* A command failed: the address is kept, the device is deleted, unless that
\* fails as well, which nobody looks at.
CreateTapFail(t) ==
  /\ status[t] = "link"
  /\ \/ links' = links \ {<<t, Index(t)>>} /\ UNCHANGED delFailed
     \/ links' = links \cup {<<t, Index(t)>>} /\ delFailed' = delFailed \cup {t}
  /\ status' = [status EXCEPT ![t] = "failed"]
  /\ addFailed' = addFailed \cup {t}
  /\ UNCHANGED <<allocated, tapDevices, mu, cniTaps, pos, addr>>

(***************************************************************************)
(* CNIClient.AddNetwork.  The plugin makes the device and prints a CNI     *)
(* result whose ips[].address is a CIDR string; CNIResult declares that    *)
(* field as a net.IPNet, which decodes only from an object, so AddNetwork  *)
(* fails after the plugin has succeeded.                                   *)
(***************************************************************************)
CNIResultDecodes == FALSE

CNIAdd(t) ==
  /\ status[t] = "address"
  /\ ~LocalTap(t)
  /\ cniTaps' = cniTaps \cup {t}
  /\ pos' = [pos EXCEPT ![t] = IF CNIResultDecodes THEN @ + 1 ELSE @]
  /\ status' = [status EXCEPT ![t] = IF ~CNIResultDecodes THEN "failed"
                                     ELSE IF pos'[t] = Rounds(t) THEN "prepared"
                                     ELSE "address"]
  /\ UNCHANGED <<allocated, tapDevices, mu, links, addr, failures>>

\* It fails before the plugin runs, or in a command of the plugin, which deletes
\* a device of that name before it makes one and after a failure, if it can.
CNIAddFail(t) ==
  /\ status[t] = "address"
  /\ ~LocalTap(t)
  /\ cniTaps' \in {cniTaps \ {t}, cniTaps, cniTaps \cup {t}}
  /\ status' = [status EXCEPT ![t] = "failed"]
  /\ UNCHANGED <<allocated, tapDevices, mu, links, pos, addr, failures>>

(***************************************************************************)
(* CleanupNetwork.  It logs failures and never returns an error: the       *)
(* record of a device that could not be deleted is dropped as well.        *)
(***************************************************************************)
CleanupBegin(t) ==
  /\ status[t] \in {"new", "prepared", "failed"}
  /\ mu = NoTask
  /\ mu' = t
  /\ status' = [status EXCEPT ![t] = "cleaning"]
  /\ UNCHANGED <<allocated, tapDevices, links, cniTaps, pos, addr, failures>>

DropRecord(r) ==
  /\ mu = r.task
  /\ allocated' = Release(r)
  /\ tapDevices' = tapDevices \ {r}
  /\ UNCHANGED <<mu, cniTaps, status, pos, addr>>

CleanupTap(r) ==
  /\ DropRecord(r)
  /\ links' = links \ {<<r.task, r.index>>}
  /\ UNCHANGED failures

CleanupTapFail(r) ==
  /\ DropRecord(r)
  /\ delFailed' = delFailed \cup {r.task}
  /\ UNCHANGED <<links, addFailed>>

\* CNI DEL for the attachments of the task; the plugin derives the device from
\* the container ID alone.
CleanupEnd(t) ==
  /\ mu = t
  /\ \A r \in tapDevices : r.task # t
  /\ cniTaps' = IF Nets[t] = <<>> THEN cniTaps ELSE cniTaps \ {t}
  /\ mu' = NoTask
  /\ status' = [status EXCEPT ![t] = "gone"]
  /\ UNCHANGED <<allocated, tapDevices, links, pos, addr, failures>>

\* CNI DEL fails: cmdDel and DelNetwork log it, and CleanupNetwork succeeds.
CleanupEndDelFails(t) ==
  /\ mu = t
  /\ \A r \in tapDevices : r.task # t
  /\ Nets[t] # <<>>
  /\ mu' = NoTask
  /\ status' = [status EXCEPT ![t] = "gone"]
  /\ delFailed' = delFailed \cup {t}
  /\ UNCHANGED <<allocated, tapDevices, links, cniTaps, pos, addr, addFailed>>

-----------------------------------------------------------------------------
Next ==
  \/ \E t \in Task : \/ PrepareBegin(t) \/ ChooseAddress(t) \/ CreateTap(t)
                     \/ CreateTapFail(t) \/ CNIAdd(t) \/ CNIAddFail(t)
                     \/ CleanupBegin(t) \/ CleanupEnd(t) \/ CleanupEndDelFails(t)
  \/ \E r \in tapDevices : CleanupTap(r) \/ CleanupTapFail(r)

Spec == Init /\ [][Next]_vars
-----------------------------------------------------------------------------
(***************************************************************************)
(* Properties.                                                             *)
(***************************************************************************)

\* Two VMs never have the same address: recorded devices with one address are
\* devices of one task, across all interleavings of prepare and cleanup.
UniqueIPs ==
  \A r, s \in tapDevices : r.ip = s.ip /\ r.ip # NoAddr => r.task = s.task

\* The address of a recorded device is reserved for its task until the cleanup
\* of that task begins, so no other task can be given it.
AddressReserved ==
  \A r \in tapDevices :
    r.ip # NoAddr /\ status[r.task] # "cleaning" => r.ip \in Own(r.task)

\* What CleanupNetwork, which never reports a failure, may leave behind: a device
\* only if a deletion failed for the task, an address only if the last
\* createTapDevice failed after it had taken one, and then one address, however
\* often the task was prepared again; never a record.
CleanupComplete ==
  \A t \in Task : status[t] = "gone" =>
    /\ \A r \in tapDevices : r.task # t
    /\ t \notin delFailed => t \notin cniTaps /\ \A l \in links : l[1] # t
    /\ t \notin addFailed => Own(t) = {}
    /\ \A a, b \in Own(t) : a = b

\* Allocate gives up only when every address from .2 on but the gateway's is in
\* use: neither the probing limit nor the wrap-around hides a free address.  The
\* last address of the subnet counts as usable: the loop does not make the
\* broadcast check that its comment lists.
NoFalseExhaustion ==
  \A t \in Task : Allocate(t) = NoAddr =>
    \A a \in 2..(Size - 1) : a = Gateway \/ a \in DOMAIN allocated

-----------------------------------------------------------------------------
(***************************************************************************)
(* The inductive invariant behind the first three, for tasks that have at  *)
(* most one TAP without an address from SwarmKit.                          *)
(***************************************************************************)
OneLocalTap ==
  \A t \in Task : \A i, j \in DOMAIN Nets[t] :
    Nets[t][i] = "none" /\ Nets[t][j] = "none" => i = j

\* The type of every variable.
TypeOK ==
  /\ NoAddr \notin DOMAIN allocated
  /\ \A a \in DOMAIN allocated : allocated[a] \in Task
  /\ \A r \in tapDevices : /\ r.task \in Task
                           /\ r = [task |-> r.task, index |-> r.index, ip |-> r.ip]
  /\ mu \in Task \cup {NoTask}
  /\ links \subseteq Task \X Nat /\ cniTaps \subseteq Task
  /\ addFailed \subseteq Task /\ delFailed \subseteq Task
  /\ status \in [Task -> {"new", "address", "link", "prepared", "failed", "cleaning", "gone"}]
  /\ pos \in [Task -> Nat]
  /\ addr = [t \in Task |-> addr[t]]

\* Where PrepareNetwork is in the attachments of a task.
Position ==
  \A t \in Task : status[t] \in {"address", "link"} /\ Nets[t] # <<>> =>
    pos[t] + 1 \in DOMAIN Nets[t] /\ (status[t] = "link" => Nets[t][pos[t] + 1] = "none")

\* A task has at most one record, whose address it owns, and at most one address.
Records ==
  \A r, s \in tapDevices : r.task = s.task => r = s

Indices ==
  \A r \in tapDevices :
    IF Nets[r.task] = <<>> THEN r.index = 0
    ELSE r.index + 1 \in DOMAIN Nets[r.task] /\ Nets[r.task][r.index + 1] = "none" /\ r.index \in Nat

Reserved ==
  /\ \A r \in tapDevices : r.ip # NoAddr => r.ip \in Own(r.task)
  /\ \A t \in Task : \A a, b \in Own(t) : a = b

\* What PrepareNetwork knows of the address of the TAP it is about to make: that of
\* the first round of a task without attachments serves for the second as well.
InProgress ==
  \A t \in Task :
    /\ status[t] = "link" => IF addr[t] = NoAddr THEN Own(t) = {} ELSE addr[t] \in Own(t)
    /\ status[t] = "address" /\ Nets[t] = <<>> /\ pos[t] = 1 /\ addr[t] # NoAddr => addr[t] \in Own(t)

\* Only the task that holds nm.mu is being cleaned up.
Cleaning == \A t \in Task : status[t] = "cleaning" <=> mu = t

\* Every device and address of a task has a record, but for the failures.
Accounted ==
  \A t \in Task :
    /\ status[t] = "gone" => \A r \in tapDevices : r.task # t
    /\ status[t] = "gone" /\ t \notin delFailed => t \notin cniTaps
    /\ t \in cniTaps => Nets[t] # <<>>
    /\ t \notin addFailed =>
         \A a \in Own(t) : status[t] = "link" \/ \E r \in tapDevices : r.task = t /\ r.ip = a
    /\ t \notin delFailed =>
         \A l \in links : l[1] = t => \E r \in tapDevices : r.task = t /\ r.index = l[2]

NetInv == TypeOK /\ Position /\ Records /\ Indices /\ Reserved /\ InProgress /\ Cleaning /\ Accounted

=============================================================================
