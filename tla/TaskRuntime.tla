---------------------------- MODULE TaskRuntime -----------------------------
(***************************************************************************)
(* What a SwarmCracker node promises the SwarmKit agent about a task       *)
(* (pkg/swarmkit/executor.go, the Controller methods), with the processes, *)
(* sockets, locks and sweeps left out: a task has at most one VM, it has   *)
(* one only between its assignment and its removal, and its removal is     *)
(* complete only when the VM is gone.  A VM may exit at any time.  A       *)
(* restart of the node forgets every task; what the children it leaves     *)
(* behind do is not part of the promise.                                   *)
(***************************************************************************)
CONSTANTS
  Task,
  VM     \* the VMs that may be started, one for every start

VARIABLES
  phase,  \* of each task: "free", "assigned", "removing" or "removed"
  vm      \* the running VMs of each task

Assign(t) ==
  /\ phase[t] = "free"
  /\ phase' = [phase EXCEPT ![t] = "assigned"]
  /\ UNCHANGED vm

Boot(t, v) ==
  /\ phase[t] = "assigned"
  /\ vm[t] = {}
  /\ vm' = [vm EXCEPT ![t] = {v}]
  /\ UNCHANGED phase

Exit(t) ==
  /\ vm[t] # {}
  /\ vm' = [vm EXCEPT ![t] = {}]
  /\ UNCHANGED phase

BeginRemove(t) ==
  /\ phase[t] = "assigned"
  /\ phase' = [phase EXCEPT ![t] = "removing"]
  /\ UNCHANGED vm

EndRemove(t) ==
  /\ phase[t] = "removing"
  /\ vm[t] = {}
  /\ phase' = [phase EXCEPT ![t] = "removed"]
  /\ UNCHANGED vm

Forget ==
  /\ phase' = [t \in Task |-> "free"]
  /\ vm' = [t \in Task |-> {}]

Init ==
  /\ phase = [t \in Task |-> "free"]
  /\ vm = [t \in Task |-> {}]

Next ==
  \/ \E t \in Task : Assign(t) \/ Exit(t) \/ BeginRemove(t) \/ EndRemove(t)
  \/ \E t \in Task, v \in VM : Boot(t, v)
  \/ Forget

Spec == Init /\ [][Next]_<<phase, vm>>
=============================================================================
