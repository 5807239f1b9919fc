---------------------- MODULE FirecrackerExecutorProofs ---------------------
(***************************************************************************)
(* Proofs about FirecrackerExecutor, for any number of tasks, goroutines   *)
(* and children: no Firecracker process is lost, and what is left in the   *)
(* state "stopping" is dead.                                               *)
(***************************************************************************)
EXTENDS FirecrackerExecutor, TLAPS

LEMMA LocalInvInit == Init => LocalInv
<1> SUFFICES ASSUME Init PROVE LocalInv
  OBVIOUS
<1>1. TypeOK
  BY ExecutorAssumptions DEF Init, TypeOK, Places, Pid, NoPid
<1>2. \A c \in Client : Booting(c) /\ Halting(c) /\ Halted(c)
  BY DEF Init, Booting, Halting, Halted, Stopping
<1> QED BY <1>1, <1>2 DEF Init, LocalInv, Mapped, InitNotStopped, LiveVMTracked, StuckIsDead

LEMMA StopReturnTypes ==
  ASSUME TypeOK, NEW c \in Client, StopReturn(c)
  PROVE  pc' \in [Client -> Places] /\ task' \in [Client -> Task] /\ inst' \in [Client -> Pid \cup {NoPid}]
<1>1. CASE c \in removing
  BY <1>1 DEF StopReturn, Goto, TypeOK, Places
<1>2. CASE c \notin removing
  BY <1>2 DEF StopReturn, Return, TypeOK, Places
<1> QED BY <1>1, <1>2

\* Every step keeps the types.
LEMMA TypeStep ==
  ASSUME LocalInv, Next
  PROVE  TypeOK'
<1>1. ASSUME NEW c \in Client, PrepareNetwork(c) PROVE TypeOK'
  BY <1>1, ExecutorAssumptions DEF PrepareNetwork, Return, vmVars, LocalInv, TypeOK, Pid,
    NoPid, Booting, Halting, Started, Stopping, Places, Mapped
<1>2. ASSUME NEW c \in Client, PrepareRollback(c) PROVE TypeOK'
  BY <1>2, ExecutorAssumptions DEF PrepareRollback, Return, vmVars, LocalInv, TypeOK, Pid,
    NoPid, Booting, Halting, Started, Stopping, Places, Mapped
<1>3. ASSUME NEW c \in Client, StartRefused(c) PROVE TypeOK'
  BY <1>3, ExecutorAssumptions DEF StartRefused, Return, vmVars, LocalInv, TypeOK, Pid, NoPid,
    Booting, Halting, Started, Stopping, Places, Mapped
<1>4. ASSUME NEW c \in Client, StartSpawn(c) PROVE TypeOK'
  BY <1>4, ExecutorAssumptions DEF StartSpawn, LocalInv, TypeOK, Pid, NoPid, Booting, Halting,
    Started, Stopping, Places, Mapped
<1>5. ASSUME NEW c \in Client, StartFail(c) PROVE TypeOK'
  BY <1>5, ExecutorAssumptions DEF StartFail, Return, LocalInv, TypeOK, Pid, NoPid, Booting,
    Halting, Started, Stopping, Places, Mapped
<1>6. ASSUME NEW c \in Client, StartOK(c) PROVE TypeOK'
  <2>1. inst[c] \in Pid
    <3>1. inst[c] \in alive
      BY <1>6 DEF StartOK
    <3>2. alive \subseteq 1..spawned /\ spawned \in 0..MaxSpawns
      BY DEF LocalInv, TypeOK
    <3>3. MaxSpawns \in Nat
      BY ExecutorAssumptions
    <3>4. inst[c] \in 1..spawned
      BY <3>1, <3>2
    <3> QED BY <3>2, <3>3, <3>4 DEF Pid
  <2> QED BY <1>6, <2>1 DEF StartOK, Goto, SetState, LocalInv, TypeOK, NoPid, Places
<1>7. ASSUME NEW c \in Client, EventClosed(c) PROVE TypeOK'
  BY <1>7, ExecutorAssumptions DEF EventClosed, Return, vmVars, LocalInv, TypeOK, Pid, NoPid,
    Booting, Halting, Started, Stopping, Places, Mapped
<1>8. ASSUME NEW c \in Client, EventOpen(c) PROVE TypeOK'
  BY <1>8, ExecutorAssumptions DEF EventOpen, Goto, vmVars, LocalInv, TypeOK, Pid, NoPid,
    Booting, Halting, Started, Stopping, Places, Mapped
<1>9. ASSUME NEW c \in Client, Send(c) PROVE TypeOK'
  BY <1>9, ExecutorAssumptions DEF Send, Return, vmVars, LocalInv, TypeOK, Pid, NoPid,
    Booting, Halting, Started, Stopping, Places, Mapped
<1>10. ASSUME NEW c \in Client, SendPanic(c) PROVE TypeOK'
  BY <1>10, ExecutorAssumptions DEF SendPanic, Return, vmVars, LocalInv, TypeOK, Pid, NoPid,
    Booting, Halting, Started, Stopping, Places, Mapped
<1>11. ASSUME NEW c \in Client, SendTimeout(c) PROVE TypeOK'
  BY <1>11, ExecutorAssumptions DEF SendTimeout, Return, vmVars, LocalInv, TypeOK, Pid, NoPid,
    Booting, Halting, Started, Stopping, Places, Mapped
<1>12. ASSUME NEW c \in Client, StopRefused(c) PROVE TypeOK'
  BY <1>12, StopReturnTypes DEF StopRefused, vmVars, LocalInv, TypeOK
<1>13. ASSUME NEW c \in Client, StopLookup(c) PROVE TypeOK'
  BY <1>13, ExecutorAssumptions DEF StopLookup, vmVars, LocalInv, TypeOK, Pid, NoPid, Booting,
    Halting, Started, Stopping, Places, Mapped
<1>14. ASSUME NEW c \in Client, StopMark(c) PROVE TypeOK'
  BY <1>14, ExecutorAssumptions DEF StopMark, Goto, SetState, LocalInv, TypeOK, Pid, NoPid,
    Booting, Halting, Started, Stopping, Places, Mapped
<1>15. ASSUME NEW c \in Client, Terminate(c) PROVE TypeOK'
  BY <1>15, ExecutorAssumptions DEF Terminate, Goto, vmVars, LocalInv, TypeOK, Pid,
    NoPid, Booting, Halting, Started, Stopping, Places, Mapped
<1>16. ASSUME NEW c \in Client, GraceExpire(c) PROVE TypeOK'
  BY <1>16, StopReturnTypes DEF GraceExpire, LocalInv, TypeOK
<1>17. ASSUME NEW c \in Client, CtrlAltDel(c) PROVE TypeOK'
  BY <1>17, ExecutorAssumptions DEF CtrlAltDel, Goto, vmVars, LocalInv, TypeOK, Pid, NoPid,
    Booting, Halting, Started, Stopping, Places, Mapped
<1>18. ASSUME NEW c \in Client, CtrlAltDelFail(c) PROVE TypeOK'
  BY <1>18, StopReturnTypes DEF CtrlAltDelFail, LocalInv, TypeOK
<1>19. ASSUME NEW c \in Client, HaltDone(c) PROVE TypeOK'
  BY <1>19, StopReturnTypes DEF HaltDone, SetState, LocalInv, TypeOK
<1>20. ASSUME NEW c \in Client, HaltExpire(c) PROVE TypeOK'
  BY <1>20, StopReturnTypes DEF HaltExpire, LocalInv, TypeOK
<1>21. ASSUME NEW c \in Client, CleanupNetwork(c) PROVE TypeOK'
  BY <1>21, ExecutorAssumptions DEF CleanupNetwork, Goto, vmVars, LocalInv, TypeOK, Pid,
    NoPid, Booting, Halting, Started, Stopping, Places, Mapped
<1>22. ASSUME NEW c \in Client, RemoveRefused(c) PROVE TypeOK'
  BY <1>22, ExecutorAssumptions DEF RemoveRefused, Return, vmVars, LocalInv, TypeOK, Pid,
    NoPid, Booting, Halting, Started, Stopping, Places, Mapped
<1>23. ASSUME NEW c \in Client, RemoveOK(c) PROVE TypeOK'
  BY <1>23, ExecutorAssumptions DEF RemoveOK, Return, LocalInv, TypeOK, Pid, NoPid, Booting,
    Halting, Started, Stopping, Places, Mapped
<1>24. ASSUME NEW c \in Client, NEW t \in Task, PrepareImage(c, t) PROVE TypeOK'
  BY <1>24, ExecutorAssumptions DEF PrepareImage, Call, vmVars, LocalInv, TypeOK, Pid, NoPid,
    Booting, Halting, Started, Stopping, Places, Mapped
<1>25. ASSUME NEW c \in Client, NEW t \in Task, StartCall(c, t) PROVE TypeOK'
  BY <1>25, ExecutorAssumptions DEF StartCall, Call, vmVars, LocalInv, TypeOK, Pid, NoPid,
    Booting, Halting, Started, Stopping, Places, Mapped
<1>26. ASSUME NEW c \in Client, NEW t \in Task, StopCall(c, t) PROVE TypeOK'
  BY <1>26, ExecutorAssumptions DEF StopCall, Call, vmVars, LocalInv, TypeOK, Pid, NoPid,
    Booting, Halting, Started, Stopping, Places, Mapped
<1>27. ASSUME NEW c \in Client, NEW t \in Task, RemoveCall(c, t) PROVE TypeOK'
  BY <1>27, ExecutorAssumptions DEF RemoveCall, Call, vmVars, LocalInv, TypeOK, Pid, NoPid,
    Booting, Halting, Started, Stopping, Places, Mapped
<1>28. ASSUME NEW c \in Client, Close(c) PROVE TypeOK'
  BY <1>28, ExecutorAssumptions DEF Close, vmVars, me, LocalInv, TypeOK, Pid, NoPid, Booting,
    Halting, Started, Stopping, Places, Mapped
<1>29. ASSUME NEW p \in Pid, Exit(p) PROVE TypeOK'
  BY <1>29, ExecutorAssumptions DEF Exit, me, LocalInv, TypeOK, Pid, NoPid, Booting, Halting,
    Started, Stopping, Places, Mapped
<1>30. ASSUME Receive PROVE TypeOK'
  BY <1>30, ExecutorAssumptions DEF Receive, vmVars, me, LocalInv, TypeOK, Pid, NoPid,
    Booting, Halting, Started, Stopping, Places, Mapped
<1> QED BY <1>1, <1>2, <1>3, <1>4, <1>5, <1>6, <1>7, <1>8, <1>9, <1>10, <1>11, <1>12, <1>13,
    <1>14, <1>15, <1>16, <1>17, <1>18, <1>19, <1>20, <1>21, <1>22, <1>23,
    <1>24, <1>25, <1>26, <1>27, <1>28, <1>29, <1>30 DEF Next, Step, NewCall

\* Start holds the lock, and its child is its own.
LEMMA LockStep ==
  ASSUME LocalInv, TypeOK', NEW d \in Client, Next
  PROVE  (Booting(d) /\ Halting(d) /\ Halted(d))'
<1>1. ASSUME NEW c \in Client, PrepareNetwork(c) PROVE (Booting(d) /\ Halting(d) /\ Halted(d))'
  BY <1>1, ExecutorAssumptions DEF PrepareNetwork, Return, vmVars, LocalInv, TypeOK, Pid,
    NoPid, Booting, Halting, Halted, Started, Stopping, Mapped
<1>2. ASSUME NEW c \in Client, PrepareRollback(c) PROVE (Booting(d) /\ Halting(d) /\ Halted(d))'
  BY <1>2, ExecutorAssumptions DEF PrepareRollback, Return, vmVars, LocalInv, TypeOK, Pid,
    NoPid, Booting, Halting, Halted, Started, Stopping, Mapped
<1>3. ASSUME NEW c \in Client, StartRefused(c) PROVE (Booting(d) /\ Halting(d) /\ Halted(d))'
  BY <1>3, ExecutorAssumptions DEF StartRefused, Return, vmVars, LocalInv, TypeOK, Pid, NoPid,
    Booting, Halting, Halted, Started, Stopping, Mapped
<1>4. ASSUME NEW c \in Client, StartSpawn(c) PROVE (Booting(d) /\ Halting(d) /\ Halted(d))'
  BY <1>4, ExecutorAssumptions DEF StartSpawn, LocalInv, TypeOK, Pid, NoPid, Booting, Halting,
    Halted, Started, Stopping, Mapped
<1>5. ASSUME NEW c \in Client, StartFail(c) PROVE (Booting(d) /\ Halting(d) /\ Halted(d))'
  BY <1>5, ExecutorAssumptions DEF StartFail, Return, LocalInv, TypeOK, Pid, NoPid, Booting,
    Halting, Halted, Started, Stopping, Mapped
<1>6. ASSUME NEW c \in Client, StartOK(c) PROVE (Booting(d) /\ Halting(d) /\ Halted(d))'
  BY <1>6, ExecutorAssumptions DEF StartOK, Goto, SetState, LocalInv, TypeOK, Pid, NoPid,
    Booting, Halting, Halted, Started, Stopping, Mapped
<1>7. ASSUME NEW c \in Client, EventClosed(c) PROVE (Booting(d) /\ Halting(d) /\ Halted(d))'
  BY <1>7, ExecutorAssumptions DEF EventClosed, Return, vmVars, LocalInv, TypeOK, Pid, NoPid,
    Booting, Halting, Halted, Started, Stopping, Mapped
<1>8. ASSUME NEW c \in Client, EventOpen(c) PROVE (Booting(d) /\ Halting(d) /\ Halted(d))'
  BY <1>8, ExecutorAssumptions DEF EventOpen, Goto, vmVars, LocalInv, TypeOK, Pid, NoPid,
    Booting, Halting, Halted, Started, Stopping, Mapped
<1>9. ASSUME NEW c \in Client, Send(c) PROVE (Booting(d) /\ Halting(d) /\ Halted(d))'
  BY <1>9, ExecutorAssumptions DEF Send, Return, vmVars, LocalInv, TypeOK, Pid, NoPid,
    Booting, Halting, Halted, Started, Stopping, Mapped
<1>10. ASSUME NEW c \in Client, SendPanic(c) PROVE (Booting(d) /\ Halting(d) /\ Halted(d))'
  BY <1>10, ExecutorAssumptions DEF SendPanic, Return, vmVars, LocalInv, TypeOK, Pid, NoPid,
    Booting, Halting, Halted, Started, Stopping, Mapped
<1>11. ASSUME NEW c \in Client, SendTimeout(c) PROVE (Booting(d) /\ Halting(d) /\ Halted(d))'
  BY <1>11, ExecutorAssumptions DEF SendTimeout, Return, vmVars, LocalInv, TypeOK, Pid, NoPid,
    Booting, Halting, Halted, Started, Stopping, Mapped
<1>12. ASSUME NEW c \in Client, StopRefused(c) PROVE (Booting(d) /\ Halting(d) /\ Halted(d))'
  BY <1>12, ExecutorAssumptions DEF StopRefused, StopReturn, Goto, Return, vmVars, LocalInv,
    TypeOK, Pid, NoPid, Booting, Halting, Halted, Started, Stopping, Mapped
<1>13. ASSUME NEW c \in Client, StopLookup(c) PROVE (Booting(d) /\ Halting(d) /\ Halted(d))'
  BY <1>13, ExecutorAssumptions DEF StopLookup, vmVars, LocalInv, TypeOK, Pid, NoPid, Booting,
    Halting, Halted, Started, Stopping, Mapped
<1>14. ASSUME NEW c \in Client, StopMark(c) PROVE (Booting(d) /\ Halting(d) /\ Halted(d))'
  BY <1>14, ExecutorAssumptions DEF StopMark, Goto, SetState, LocalInv, TypeOK, Pid, NoPid,
    Booting, Halting, Halted, Started, Stopping, Mapped
<1>15. ASSUME NEW c \in Client, Terminate(c) PROVE (Booting(d) /\ Halting(d) /\ Halted(d))'
  BY <1>15, ExecutorAssumptions DEF Terminate, Goto, vmVars, LocalInv, TypeOK, Pid,
    NoPid, Booting, Halting, Halted, Started, Stopping, Mapped
<1>16. ASSUME NEW c \in Client, GraceExpire(c) PROVE (Booting(d) /\ Halting(d) /\ Halted(d))'
  BY <1>16, ExecutorAssumptions DEF GraceExpire, StopReturn, Goto, Return, LocalInv, TypeOK,
    Pid, NoPid, Booting, Halting, Halted, Started, Stopping, Mapped
<1>17. ASSUME NEW c \in Client, CtrlAltDel(c) PROVE (Booting(d) /\ Halting(d) /\ Halted(d))'
  BY <1>17, ExecutorAssumptions DEF CtrlAltDel, Goto, vmVars, LocalInv, TypeOK, Pid, NoPid,
    Booting, Halting, Halted, Started, Stopping, Mapped
<1>18. ASSUME NEW c \in Client, CtrlAltDelFail(c) PROVE (Booting(d) /\ Halting(d) /\ Halted(d))'
  BY <1>18, ExecutorAssumptions DEF CtrlAltDelFail, StopReturn, Goto, Return, LocalInv,
    TypeOK, Pid, NoPid, Booting, Halting, Halted, Started, Stopping, Mapped
<1>19. ASSUME NEW c \in Client, HaltDone(c) PROVE (Booting(d) /\ Halting(d) /\ Halted(d))'
  BY <1>19, ExecutorAssumptions DEF HaltDone, StopReturn, Goto, Return, SetState, LocalInv,
    TypeOK, Pid, NoPid, Booting, Halting, Halted, Started, Stopping, Mapped
<1>20. ASSUME NEW c \in Client, HaltExpire(c) PROVE (Booting(d) /\ Halting(d) /\ Halted(d))'
  BY <1>20, ExecutorAssumptions DEF HaltExpire, StopReturn, Goto, Return, LocalInv, TypeOK,
    Pid, NoPid, Booting, Halting, Halted, Started, Stopping, Mapped
<1>21. ASSUME NEW c \in Client, CleanupNetwork(c) PROVE (Booting(d) /\ Halting(d) /\ Halted(d))'
  BY <1>21, ExecutorAssumptions DEF CleanupNetwork, Goto, vmVars, LocalInv, TypeOK, Pid,
    NoPid, Booting, Halting, Halted, Started, Stopping, Mapped
<1>22. ASSUME NEW c \in Client, RemoveRefused(c) PROVE (Booting(d) /\ Halting(d) /\ Halted(d))'
  BY <1>22, ExecutorAssumptions DEF RemoveRefused, Return, vmVars, LocalInv, TypeOK, Pid,
    NoPid, Booting, Halting, Halted, Started, Stopping, Mapped
<1>23. ASSUME NEW c \in Client, RemoveOK(c) PROVE (Booting(d) /\ Halting(d) /\ Halted(d))'
  BY <1>23, ExecutorAssumptions DEF RemoveOK, Return, LocalInv, TypeOK, Pid, NoPid, Booting,
    Halting, Halted, Started, Stopping, Mapped
<1>24. ASSUME NEW c \in Client, NEW t \in Task, PrepareImage(c, t) PROVE (Booting(d) /\ Halting(d) /\ Halted(d))'
  BY <1>24, ExecutorAssumptions DEF PrepareImage, Call, vmVars, LocalInv, TypeOK, Pid, NoPid,
    Booting, Halting, Halted, Started, Stopping, Mapped
<1>25. ASSUME NEW c \in Client, NEW t \in Task, StartCall(c, t) PROVE (Booting(d) /\ Halting(d) /\ Halted(d))'
  BY <1>25, ExecutorAssumptions DEF StartCall, Call, vmVars, LocalInv, TypeOK, Pid, NoPid,
    Booting, Halting, Halted, Started, Stopping, Mapped
<1>26. ASSUME NEW c \in Client, NEW t \in Task, StopCall(c, t) PROVE (Booting(d) /\ Halting(d) /\ Halted(d))'
  BY <1>26, ExecutorAssumptions DEF StopCall, Call, vmVars, LocalInv, TypeOK, Pid, NoPid,
    Booting, Halting, Halted, Started, Stopping, Mapped
<1>27. ASSUME NEW c \in Client, NEW t \in Task, RemoveCall(c, t) PROVE (Booting(d) /\ Halting(d) /\ Halted(d))'
  BY <1>27, ExecutorAssumptions DEF RemoveCall, Call, vmVars, LocalInv, TypeOK, Pid, NoPid,
    Booting, Halting, Halted, Started, Stopping, Mapped
<1>28. ASSUME NEW c \in Client, Close(c) PROVE (Booting(d) /\ Halting(d) /\ Halted(d))'
  BY <1>28, ExecutorAssumptions DEF Close, vmVars, me, LocalInv, TypeOK, Pid, NoPid, Booting,
    Halting, Halted, Started, Stopping, Mapped
<1>29. ASSUME NEW p \in Pid, Exit(p) PROVE (Booting(d) /\ Halting(d) /\ Halted(d))'
  BY <1>29, ExecutorAssumptions DEF Exit, me, LocalInv, TypeOK, Pid, NoPid, Booting, Halting,
    Halted, Started, Stopping, Mapped
<1>30. ASSUME Receive PROVE (Booting(d) /\ Halting(d) /\ Halted(d))'
  BY <1>30, ExecutorAssumptions DEF Receive, vmVars, me, LocalInv, TypeOK, Pid, NoPid,
    Booting, Halting, Halted, Started, Stopping, Mapped
<1> QED BY <1>1, <1>2, <1>3, <1>4, <1>5, <1>6, <1>7, <1>8, <1>9, <1>10, <1>11, <1>12, <1>13,
    <1>14, <1>15, <1>16, <1>17, <1>18, <1>19, <1>20, <1>21, <1>22, <1>23,
    <1>24, <1>25, <1>26, <1>27, <1>28, <1>29, <1>30 DEF Next, Step, NewCall

\* What the map holds has been started.
LEMMA StartedStep ==
  ASSUME LocalInv, TypeOK', Next
  PROVE  ((\A x \in Task : Mapped(x)) /\ (\A x \in init : Started(x)) /\
          (\A x \in Pid \ (1..spawned) : state[x] = "unset"))'
<1>1. ASSUME NEW c \in Client, PrepareNetwork(c) PROVE ((\A x \in Task : Mapped(x)) /\ (\A x \in init : Started(x)) /\
          (\A x \in Pid \ (1..spawned) : state[x] = "unset"))'
  BY <1>1, ExecutorAssumptions DEF PrepareNetwork, Return, vmVars, LocalInv, TypeOK, Pid,
    NoPid, Booting, Halting, Started, Stopping, Mapped
<1>2. ASSUME NEW c \in Client, PrepareRollback(c) PROVE ((\A x \in Task : Mapped(x)) /\ (\A x \in init : Started(x)) /\
          (\A x \in Pid \ (1..spawned) : state[x] = "unset"))'
  BY <1>2, ExecutorAssumptions DEF PrepareRollback, Return, vmVars, LocalInv, TypeOK, Pid,
    NoPid, Booting, Halting, Started, Stopping, Mapped
<1>3. ASSUME NEW c \in Client, StartRefused(c) PROVE ((\A x \in Task : Mapped(x)) /\ (\A x \in init : Started(x)) /\
          (\A x \in Pid \ (1..spawned) : state[x] = "unset"))'
  BY <1>3, ExecutorAssumptions DEF StartRefused, Return, vmVars, LocalInv, TypeOK, Pid, NoPid,
    Booting, Halting, Started, Stopping, Mapped
<1>4. ASSUME NEW c \in Client, StartSpawn(c) PROVE ((\A x \in Task : Mapped(x)) /\ (\A x \in init : Started(x)) /\
          (\A x \in Pid \ (1..spawned) : state[x] = "unset"))'
  BY <1>4, ExecutorAssumptions DEF StartSpawn, LocalInv, TypeOK, Pid, NoPid, Booting, Halting,
    Started, Stopping, Mapped
<1>5. ASSUME NEW c \in Client, StartFail(c) PROVE ((\A x \in Task : Mapped(x)) /\ (\A x \in init : Started(x)) /\
          (\A x \in Pid \ (1..spawned) : state[x] = "unset"))'
  BY <1>5, ExecutorAssumptions DEF StartFail, Return, LocalInv, TypeOK, Pid, NoPid, Booting,
    Halting, Started, Stopping, Mapped
<1>6. ASSUME NEW c \in Client, StartOK(c) PROVE ((\A x \in Task : Mapped(x)) /\ (\A x \in init : Started(x)) /\
          (\A x \in Pid \ (1..spawned) : state[x] = "unset"))'
  BY <1>6, ExecutorAssumptions DEF StartOK, Goto, SetState, LocalInv, TypeOK, Pid, NoPid,
    Booting, Halting, Started, Stopping, Mapped
<1>7. ASSUME NEW c \in Client, EventClosed(c) PROVE ((\A x \in Task : Mapped(x)) /\ (\A x \in init : Started(x)) /\
          (\A x \in Pid \ (1..spawned) : state[x] = "unset"))'
  BY <1>7, ExecutorAssumptions DEF EventClosed, Return, vmVars, LocalInv, TypeOK, Pid, NoPid,
    Booting, Halting, Started, Stopping, Mapped
<1>8. ASSUME NEW c \in Client, EventOpen(c) PROVE ((\A x \in Task : Mapped(x)) /\ (\A x \in init : Started(x)) /\
          (\A x \in Pid \ (1..spawned) : state[x] = "unset"))'
  BY <1>8, ExecutorAssumptions DEF EventOpen, Goto, vmVars, LocalInv, TypeOK, Pid, NoPid,
    Booting, Halting, Started, Stopping, Mapped
<1>9. ASSUME NEW c \in Client, Send(c) PROVE ((\A x \in Task : Mapped(x)) /\ (\A x \in init : Started(x)) /\
          (\A x \in Pid \ (1..spawned) : state[x] = "unset"))'
  BY <1>9, ExecutorAssumptions DEF Send, Return, vmVars, LocalInv, TypeOK, Pid, NoPid,
    Booting, Halting, Started, Stopping, Mapped
<1>10. ASSUME NEW c \in Client, SendPanic(c) PROVE ((\A x \in Task : Mapped(x)) /\ (\A x \in init : Started(x)) /\
          (\A x \in Pid \ (1..spawned) : state[x] = "unset"))'
  BY <1>10, ExecutorAssumptions DEF SendPanic, Return, vmVars, LocalInv, TypeOK, Pid, NoPid,
    Booting, Halting, Started, Stopping, Mapped
<1>11. ASSUME NEW c \in Client, SendTimeout(c) PROVE ((\A x \in Task : Mapped(x)) /\ (\A x \in init : Started(x)) /\
          (\A x \in Pid \ (1..spawned) : state[x] = "unset"))'
  BY <1>11, ExecutorAssumptions DEF SendTimeout, Return, vmVars, LocalInv, TypeOK, Pid, NoPid,
    Booting, Halting, Started, Stopping, Mapped
<1>12. ASSUME NEW c \in Client, StopRefused(c) PROVE ((\A x \in Task : Mapped(x)) /\ (\A x \in init : Started(x)) /\
          (\A x \in Pid \ (1..spawned) : state[x] = "unset"))'
  BY <1>12, ExecutorAssumptions DEF StopRefused, StopReturn, Goto, Return, vmVars, LocalInv,
    TypeOK, Pid, NoPid, Booting, Halting, Started, Stopping, Mapped
<1>13. ASSUME NEW c \in Client, StopLookup(c) PROVE ((\A x \in Task : Mapped(x)) /\ (\A x \in init : Started(x)) /\
          (\A x \in Pid \ (1..spawned) : state[x] = "unset"))'
  BY <1>13, ExecutorAssumptions DEF StopLookup, vmVars, LocalInv, TypeOK, Pid, NoPid, Booting,
    Halting, Started, Stopping, Mapped
<1>14. ASSUME NEW c \in Client, StopMark(c) PROVE ((\A x \in Task : Mapped(x)) /\ (\A x \in init : Started(x)) /\
          (\A x \in Pid \ (1..spawned) : state[x] = "unset"))'
  BY <1>14, ExecutorAssumptions DEF StopMark, Goto, SetState, LocalInv, TypeOK, Pid, NoPid,
    Booting, Halting, Started, Stopping, Mapped
<1>15. ASSUME NEW c \in Client, Terminate(c) PROVE ((\A x \in Task : Mapped(x)) /\ (\A x \in init : Started(x)) /\
          (\A x \in Pid \ (1..spawned) : state[x] = "unset"))'
  BY <1>15, ExecutorAssumptions DEF Terminate, Goto, vmVars, LocalInv, TypeOK, Pid,
    NoPid, Booting, Halting, Started, Stopping, Mapped
<1>16. ASSUME NEW c \in Client, GraceExpire(c) PROVE ((\A x \in Task : Mapped(x)) /\ (\A x \in init : Started(x)) /\
          (\A x \in Pid \ (1..spawned) : state[x] = "unset"))'
  BY <1>16, ExecutorAssumptions DEF GraceExpire, StopReturn, Goto, Return, LocalInv, TypeOK,
    Pid, NoPid, Booting, Halting, Started, Stopping, Mapped
<1>17. ASSUME NEW c \in Client, CtrlAltDel(c) PROVE ((\A x \in Task : Mapped(x)) /\ (\A x \in init : Started(x)) /\
          (\A x \in Pid \ (1..spawned) : state[x] = "unset"))'
  BY <1>17, ExecutorAssumptions DEF CtrlAltDel, Goto, vmVars, LocalInv, TypeOK, Pid, NoPid,
    Booting, Halting, Started, Stopping, Mapped
<1>18. ASSUME NEW c \in Client, CtrlAltDelFail(c) PROVE ((\A x \in Task : Mapped(x)) /\ (\A x \in init : Started(x)) /\
          (\A x \in Pid \ (1..spawned) : state[x] = "unset"))'
  BY <1>18, ExecutorAssumptions DEF CtrlAltDelFail, StopReturn, Goto, Return, LocalInv,
    TypeOK, Pid, NoPid, Booting, Halting, Started, Stopping, Mapped
<1>19. ASSUME NEW c \in Client, HaltDone(c) PROVE ((\A x \in Task : Mapped(x)) /\ (\A x \in init : Started(x)) /\
          (\A x \in Pid \ (1..spawned) : state[x] = "unset"))'
  BY <1>19, ExecutorAssumptions DEF HaltDone, StopReturn, Goto, Return, SetState, LocalInv,
    TypeOK, Pid, NoPid, Booting, Halting, Started, Stopping, Mapped
<1>20. ASSUME NEW c \in Client, HaltExpire(c) PROVE ((\A x \in Task : Mapped(x)) /\ (\A x \in init : Started(x)) /\
          (\A x \in Pid \ (1..spawned) : state[x] = "unset"))'
  BY <1>20, ExecutorAssumptions DEF HaltExpire, StopReturn, Goto, Return, LocalInv, TypeOK,
    Pid, NoPid, Booting, Halting, Started, Stopping, Mapped
<1>21. ASSUME NEW c \in Client, CleanupNetwork(c) PROVE ((\A x \in Task : Mapped(x)) /\ (\A x \in init : Started(x)) /\
          (\A x \in Pid \ (1..spawned) : state[x] = "unset"))'
  BY <1>21, ExecutorAssumptions DEF CleanupNetwork, Goto, vmVars, LocalInv, TypeOK, Pid,
    NoPid, Booting, Halting, Started, Stopping, Mapped
<1>22. ASSUME NEW c \in Client, RemoveRefused(c) PROVE ((\A x \in Task : Mapped(x)) /\ (\A x \in init : Started(x)) /\
          (\A x \in Pid \ (1..spawned) : state[x] = "unset"))'
  BY <1>22, ExecutorAssumptions DEF RemoveRefused, Return, vmVars, LocalInv, TypeOK, Pid,
    NoPid, Booting, Halting, Started, Stopping, Mapped
<1>23. ASSUME NEW c \in Client, RemoveOK(c) PROVE ((\A x \in Task : Mapped(x)) /\ (\A x \in init : Started(x)) /\
          (\A x \in Pid \ (1..spawned) : state[x] = "unset"))'
  BY <1>23, ExecutorAssumptions DEF RemoveOK, Return, LocalInv, TypeOK, Pid, NoPid, Booting,
    Halting, Started, Stopping, Mapped
<1>24. ASSUME NEW c \in Client, NEW t \in Task, PrepareImage(c, t) PROVE ((\A x \in Task : Mapped(x)) /\ (\A x \in init : Started(x)) /\
          (\A x \in Pid \ (1..spawned) : state[x] = "unset"))'
  BY <1>24, ExecutorAssumptions DEF PrepareImage, Call, vmVars, LocalInv, TypeOK, Pid, NoPid,
    Booting, Halting, Started, Stopping, Mapped
<1>25. ASSUME NEW c \in Client, NEW t \in Task, StartCall(c, t) PROVE ((\A x \in Task : Mapped(x)) /\ (\A x \in init : Started(x)) /\
          (\A x \in Pid \ (1..spawned) : state[x] = "unset"))'
  BY <1>25, ExecutorAssumptions DEF StartCall, Call, vmVars, LocalInv, TypeOK, Pid, NoPid,
    Booting, Halting, Started, Stopping, Mapped
<1>26. ASSUME NEW c \in Client, NEW t \in Task, StopCall(c, t) PROVE ((\A x \in Task : Mapped(x)) /\ (\A x \in init : Started(x)) /\
          (\A x \in Pid \ (1..spawned) : state[x] = "unset"))'
  BY <1>26, ExecutorAssumptions DEF StopCall, Call, vmVars, LocalInv, TypeOK, Pid, NoPid,
    Booting, Halting, Started, Stopping, Mapped
<1>27. ASSUME NEW c \in Client, NEW t \in Task, RemoveCall(c, t) PROVE ((\A x \in Task : Mapped(x)) /\ (\A x \in init : Started(x)) /\
          (\A x \in Pid \ (1..spawned) : state[x] = "unset"))'
  BY <1>27, ExecutorAssumptions DEF RemoveCall, Call, vmVars, LocalInv, TypeOK, Pid, NoPid,
    Booting, Halting, Started, Stopping, Mapped
<1>28. ASSUME NEW c \in Client, Close(c) PROVE ((\A x \in Task : Mapped(x)) /\ (\A x \in init : Started(x)) /\
          (\A x \in Pid \ (1..spawned) : state[x] = "unset"))'
  BY <1>28, ExecutorAssumptions DEF Close, vmVars, me, LocalInv, TypeOK, Pid, NoPid, Booting,
    Halting, Started, Stopping, Mapped
<1>29. ASSUME NEW p \in Pid, Exit(p) PROVE ((\A x \in Task : Mapped(x)) /\ (\A x \in init : Started(x)) /\
          (\A x \in Pid \ (1..spawned) : state[x] = "unset"))'
  BY <1>29, ExecutorAssumptions DEF Exit, me, LocalInv, TypeOK, Pid, NoPid, Booting, Halting,
    Started, Stopping, Mapped
<1>30. ASSUME Receive PROVE ((\A x \in Task : Mapped(x)) /\ (\A x \in init : Started(x)) /\
          (\A x \in Pid \ (1..spawned) : state[x] = "unset"))'
  BY <1>30, ExecutorAssumptions DEF Receive, vmVars, me, LocalInv, TypeOK, Pid, NoPid,
    Booting, Halting, Started, Stopping, Mapped
<1> QED BY <1>1, <1>2, <1>3, <1>4, <1>5, <1>6, <1>7, <1>8, <1>9, <1>10, <1>11, <1>12, <1>13,
    <1>14, <1>15, <1>16, <1>17, <1>18, <1>19, <1>20, <1>21, <1>22, <1>23,
    <1>24, <1>25, <1>26, <1>27, <1>28, <1>29, <1>30 DEF Next, Step, NewCall

\* What is said to be stopped is dead.
LEMMA InitStep ==
  ASSUME LocalInv, TypeOK', Next
  PROVE  InitNotStopped'
<1>1. ASSUME NEW c \in Client, PrepareNetwork(c) PROVE InitNotStopped'
  BY <1>1, ExecutorAssumptions DEF PrepareNetwork, Return, vmVars, LocalInv, TypeOK, Pid,
    NoPid, Booting, Halting, Halted, Started, Stopping, InitNotStopped, Mapped
<1>2. ASSUME NEW c \in Client, PrepareRollback(c) PROVE InitNotStopped'
  BY <1>2, ExecutorAssumptions DEF PrepareRollback, Return, vmVars, LocalInv, TypeOK, Pid,
    NoPid, Booting, Halting, Halted, Started, Stopping, InitNotStopped, Mapped
<1>3. ASSUME NEW c \in Client, StartRefused(c) PROVE InitNotStopped'
  BY <1>3, ExecutorAssumptions DEF StartRefused, Return, vmVars, LocalInv, TypeOK, Pid, NoPid,
    Booting, Halting, Halted, Started, Stopping, InitNotStopped, Mapped
<1>4. ASSUME NEW c \in Client, StartSpawn(c) PROVE InitNotStopped'
  BY <1>4, ExecutorAssumptions DEF StartSpawn, LocalInv, TypeOK, Pid, NoPid, Booting, Halting,
    Halted, Started, Stopping, InitNotStopped, Mapped
<1>5. ASSUME NEW c \in Client, StartFail(c) PROVE InitNotStopped'
  BY <1>5, ExecutorAssumptions DEF StartFail, Return, LocalInv, TypeOK, Pid, NoPid, Booting,
    Halting, Halted, Started, Stopping, InitNotStopped, Mapped
<1>6. ASSUME NEW c \in Client, StartOK(c) PROVE InitNotStopped'
  BY <1>6, ExecutorAssumptions DEF StartOK, Goto, SetState, LocalInv, TypeOK, Pid, NoPid,
    Booting, Halting, Halted, Started, Stopping, InitNotStopped, Mapped
<1>7. ASSUME NEW c \in Client, EventClosed(c) PROVE InitNotStopped'
  BY <1>7, ExecutorAssumptions DEF EventClosed, Return, vmVars, LocalInv, TypeOK, Pid, NoPid,
    Booting, Halting, Halted, Started, Stopping, InitNotStopped, Mapped
<1>8. ASSUME NEW c \in Client, EventOpen(c) PROVE InitNotStopped'
  BY <1>8, ExecutorAssumptions DEF EventOpen, Goto, vmVars, LocalInv, TypeOK, Pid, NoPid,
    Booting, Halting, Halted, Started, Stopping, InitNotStopped, Mapped
<1>9. ASSUME NEW c \in Client, Send(c) PROVE InitNotStopped'
  BY <1>9, ExecutorAssumptions DEF Send, Return, vmVars, LocalInv, TypeOK, Pid, NoPid,
    Booting, Halting, Halted, Started, Stopping, InitNotStopped, Mapped
<1>10. ASSUME NEW c \in Client, SendPanic(c) PROVE InitNotStopped'
  BY <1>10, ExecutorAssumptions DEF SendPanic, Return, vmVars, LocalInv, TypeOK, Pid, NoPid,
    Booting, Halting, Halted, Started, Stopping, InitNotStopped, Mapped
<1>11. ASSUME NEW c \in Client, SendTimeout(c) PROVE InitNotStopped'
  BY <1>11, ExecutorAssumptions DEF SendTimeout, Return, vmVars, LocalInv, TypeOK, Pid, NoPid,
    Booting, Halting, Halted, Started, Stopping, InitNotStopped, Mapped
<1>12. ASSUME NEW c \in Client, StopRefused(c) PROVE InitNotStopped'
  BY <1>12, ExecutorAssumptions DEF StopRefused, StopReturn, Goto, Return, vmVars, LocalInv,
    TypeOK, Pid, NoPid, Booting, Halting, Halted, Started, Stopping, InitNotStopped, Mapped
<1>13. ASSUME NEW c \in Client, StopLookup(c) PROVE InitNotStopped'
  BY <1>13, ExecutorAssumptions DEF StopLookup, vmVars, LocalInv, TypeOK, Pid, NoPid, Booting,
    Halting, Halted, Started, Stopping, InitNotStopped, Mapped
<1>14. ASSUME NEW c \in Client, StopMark(c) PROVE InitNotStopped'
  BY <1>14, ExecutorAssumptions DEF StopMark, Goto, SetState, LocalInv, TypeOK, Pid, NoPid,
    Booting, Halting, Halted, Started, Stopping, InitNotStopped, Mapped
<1>15. ASSUME NEW c \in Client, Terminate(c) PROVE InitNotStopped'
  BY <1>15, ExecutorAssumptions DEF Terminate, Goto, vmVars, LocalInv, TypeOK, Pid,
    NoPid, Booting, Halting, Halted, Started, Stopping, InitNotStopped, Mapped
<1>16. ASSUME NEW c \in Client, GraceExpire(c) PROVE InitNotStopped'
  BY <1>16, ExecutorAssumptions DEF GraceExpire, StopReturn, Goto, Return, LocalInv, TypeOK,
    Pid, NoPid, Booting, Halting, Halted, Started, Stopping, InitNotStopped, Mapped
<1>17. ASSUME NEW c \in Client, CtrlAltDel(c) PROVE InitNotStopped'
  BY <1>17, ExecutorAssumptions DEF CtrlAltDel, Goto, vmVars, LocalInv, TypeOK, Pid, NoPid,
    Booting, Halting, Halted, Started, Stopping, InitNotStopped, Mapped
<1>18. ASSUME NEW c \in Client, CtrlAltDelFail(c) PROVE InitNotStopped'
  BY <1>18, ExecutorAssumptions DEF CtrlAltDelFail, StopReturn, Goto, Return, LocalInv,
    TypeOK, Pid, NoPid, Booting, Halting, Halted, Started, Stopping, InitNotStopped, Mapped
<1>19. ASSUME NEW c \in Client, HaltDone(c) PROVE InitNotStopped'
  BY <1>19, ExecutorAssumptions DEF HaltDone, StopReturn, Goto, Return, SetState, LocalInv,
    TypeOK, Pid, NoPid, Booting, Halting, Halted, Started, Stopping, InitNotStopped, Mapped
<1>20. ASSUME NEW c \in Client, HaltExpire(c) PROVE InitNotStopped'
  BY <1>20, ExecutorAssumptions DEF HaltExpire, StopReturn, Goto, Return, LocalInv, TypeOK,
    Pid, NoPid, Booting, Halting, Halted, Started, Stopping, InitNotStopped, Mapped
<1>21. ASSUME NEW c \in Client, CleanupNetwork(c) PROVE InitNotStopped'
  BY <1>21, ExecutorAssumptions DEF CleanupNetwork, Goto, vmVars, LocalInv, TypeOK, Pid,
    NoPid, Booting, Halting, Halted, Started, Stopping, InitNotStopped, Mapped
<1>22. ASSUME NEW c \in Client, RemoveRefused(c) PROVE InitNotStopped'
  BY <1>22, ExecutorAssumptions DEF RemoveRefused, Return, vmVars, LocalInv, TypeOK, Pid,
    NoPid, Booting, Halting, Halted, Started, Stopping, InitNotStopped, Mapped
<1>23. ASSUME NEW c \in Client, RemoveOK(c) PROVE InitNotStopped'
  BY <1>23, ExecutorAssumptions DEF RemoveOK, Return, LocalInv, TypeOK, Pid, NoPid, Booting,
    Halting, Halted, Started, Stopping, InitNotStopped, Mapped
<1>24. ASSUME NEW c \in Client, NEW t \in Task, PrepareImage(c, t) PROVE InitNotStopped'
  BY <1>24, ExecutorAssumptions DEF PrepareImage, Call, vmVars, LocalInv, TypeOK, Pid, NoPid,
    Booting, Halting, Halted, Started, Stopping, InitNotStopped, Mapped
<1>25. ASSUME NEW c \in Client, NEW t \in Task, StartCall(c, t) PROVE InitNotStopped'
  BY <1>25, ExecutorAssumptions DEF StartCall, Call, vmVars, LocalInv, TypeOK, Pid, NoPid,
    Booting, Halting, Halted, Started, Stopping, InitNotStopped, Mapped
<1>26. ASSUME NEW c \in Client, NEW t \in Task, StopCall(c, t) PROVE InitNotStopped'
  BY <1>26, ExecutorAssumptions DEF StopCall, Call, vmVars, LocalInv, TypeOK, Pid, NoPid,
    Booting, Halting, Halted, Started, Stopping, InitNotStopped, Mapped
<1>27. ASSUME NEW c \in Client, NEW t \in Task, RemoveCall(c, t) PROVE InitNotStopped'
  BY <1>27, ExecutorAssumptions DEF RemoveCall, Call, vmVars, LocalInv, TypeOK, Pid, NoPid,
    Booting, Halting, Halted, Started, Stopping, InitNotStopped, Mapped
<1>28. ASSUME NEW c \in Client, Close(c) PROVE InitNotStopped'
  BY <1>28, ExecutorAssumptions DEF Close, vmVars, me, LocalInv, TypeOK, Pid, NoPid, Booting,
    Halting, Halted, Started, Stopping, InitNotStopped, Mapped
<1>29. ASSUME NEW p \in Pid, Exit(p) PROVE InitNotStopped'
  BY <1>29, ExecutorAssumptions DEF Exit, me, LocalInv, TypeOK, Pid, NoPid, Booting, Halting,
    Halted, Started, Stopping, InitNotStopped, Mapped
<1>30. ASSUME Receive PROVE InitNotStopped'
  BY <1>30, ExecutorAssumptions DEF Receive, vmVars, me, LocalInv, TypeOK, Pid, NoPid,
    Booting, Halting, Halted, Started, Stopping, InitNotStopped, Mapped
<1> QED BY <1>1, <1>2, <1>3, <1>4, <1>5, <1>6, <1>7, <1>8, <1>9, <1>10, <1>11, <1>12, <1>13,
    <1>14, <1>15, <1>16, <1>17, <1>18, <1>19, <1>20, <1>21, <1>22, <1>23,
    <1>24, <1>25, <1>26, <1>27, <1>28, <1>29, <1>30 DEF Next, Step, NewCall

\* What lives is tracked.
LEMMA TrackedStep ==
  ASSUME LocalInv, TypeOK', Next
  PROVE  LiveVMTracked'
<1>1. ASSUME NEW c \in Client, PrepareNetwork(c) PROVE LiveVMTracked'
  BY <1>1, ExecutorAssumptions DEF PrepareNetwork, Return, vmVars, LocalInv, TypeOK, Pid,
    NoPid, Booting, Started, LiveVMTracked, InitNotStopped, Mapped
<1>2. ASSUME NEW c \in Client, PrepareRollback(c) PROVE LiveVMTracked'
  BY <1>2, ExecutorAssumptions DEF PrepareRollback, Return, vmVars, LocalInv, TypeOK, Pid,
    NoPid, Booting, Started, LiveVMTracked, InitNotStopped, Mapped
<1>3. ASSUME NEW c \in Client, StartRefused(c) PROVE LiveVMTracked'
  BY <1>3, ExecutorAssumptions DEF StartRefused, Return, vmVars, LocalInv, TypeOK, Pid, NoPid,
    Booting, Started, LiveVMTracked, InitNotStopped, Mapped
<1>4. ASSUME NEW c \in Client, StartSpawn(c) PROVE LiveVMTracked'
  BY <1>4, ExecutorAssumptions, SMTT(60) DEF StartSpawn, LocalInv, TypeOK, Pid, NoPid, Booting, Started,
    LiveVMTracked, InitNotStopped, Mapped
<1>5. ASSUME NEW c \in Client, StartFail(c) PROVE LiveVMTracked'
  BY <1>5, ExecutorAssumptions DEF StartFail, Return, LocalInv, TypeOK, Pid, NoPid, Booting,
    Started, LiveVMTracked, InitNotStopped, Mapped
<1>6. ASSUME NEW c \in Client, StartOK(c) PROVE LiveVMTracked'
  BY <1>6, ExecutorAssumptions DEF StartOK, Goto, SetState, LocalInv, TypeOK, Pid, NoPid,
    Booting, Started, LiveVMTracked, InitNotStopped, Mapped
<1>7. ASSUME NEW c \in Client, EventClosed(c) PROVE LiveVMTracked'
  BY <1>7, ExecutorAssumptions DEF EventClosed, Return, vmVars, LocalInv, TypeOK, Pid, NoPid,
    Booting, Started, LiveVMTracked, InitNotStopped, Mapped
<1>8. ASSUME NEW c \in Client, EventOpen(c) PROVE LiveVMTracked'
  BY <1>8, ExecutorAssumptions DEF EventOpen, Goto, vmVars, LocalInv, TypeOK, Pid, NoPid,
    Booting, Started, LiveVMTracked, InitNotStopped, Mapped
<1>9. ASSUME NEW c \in Client, Send(c) PROVE LiveVMTracked'
  BY <1>9, ExecutorAssumptions DEF Send, Return, vmVars, LocalInv, TypeOK, Pid, NoPid,
    Booting, Started, LiveVMTracked, InitNotStopped, Mapped
<1>10. ASSUME NEW c \in Client, SendPanic(c) PROVE LiveVMTracked'
  BY <1>10, ExecutorAssumptions DEF SendPanic, Return, vmVars, LocalInv, TypeOK, Pid, NoPid,
    Booting, Started, LiveVMTracked, InitNotStopped, Mapped
<1>11. ASSUME NEW c \in Client, SendTimeout(c) PROVE LiveVMTracked'
  BY <1>11, ExecutorAssumptions DEF SendTimeout, Return, vmVars, LocalInv, TypeOK, Pid, NoPid,
    Booting, Started, LiveVMTracked, InitNotStopped, Mapped
<1>12. ASSUME NEW c \in Client, StopRefused(c) PROVE LiveVMTracked'
  BY <1>12, ExecutorAssumptions DEF StopRefused, StopReturn, Goto, Return, vmVars, LocalInv,
    TypeOK, Pid, NoPid, Booting, Started, LiveVMTracked, InitNotStopped, Mapped
<1>13. ASSUME NEW c \in Client, StopLookup(c) PROVE LiveVMTracked'
  BY <1>13, ExecutorAssumptions DEF StopLookup, vmVars, LocalInv, TypeOK, Pid, NoPid, Booting,
    Started, LiveVMTracked, InitNotStopped, Mapped
<1>14. ASSUME NEW c \in Client, StopMark(c) PROVE LiveVMTracked'
  BY <1>14, ExecutorAssumptions DEF StopMark, Goto, SetState, LocalInv, TypeOK, Pid, NoPid,
    Booting, Started, LiveVMTracked, InitNotStopped, Mapped
<1>15. ASSUME NEW c \in Client, Terminate(c) PROVE LiveVMTracked'
  BY <1>15, ExecutorAssumptions DEF Terminate, Goto, vmVars, LocalInv, TypeOK, Pid,
    NoPid, Booting, Started, LiveVMTracked, InitNotStopped, Mapped
<1>16. ASSUME NEW c \in Client, GraceExpire(c) PROVE LiveVMTracked'
  BY <1>16, ExecutorAssumptions DEF GraceExpire, StopReturn, Goto, Return, LocalInv, TypeOK,
    Pid, NoPid, Booting, Started, LiveVMTracked, InitNotStopped, Mapped
<1>17. ASSUME NEW c \in Client, CtrlAltDel(c) PROVE LiveVMTracked'
  BY <1>17, ExecutorAssumptions DEF CtrlAltDel, Goto, vmVars, LocalInv, TypeOK, Pid, NoPid,
    Booting, Started, LiveVMTracked, InitNotStopped, Mapped
<1>18. ASSUME NEW c \in Client, CtrlAltDelFail(c) PROVE LiveVMTracked'
  BY <1>18, ExecutorAssumptions DEF CtrlAltDelFail, StopReturn, Goto, Return, LocalInv,
    TypeOK, Pid, NoPid, Booting, Started, LiveVMTracked, InitNotStopped, Mapped
<1>19. ASSUME NEW c \in Client, HaltDone(c) PROVE LiveVMTracked'
  BY <1>19, ExecutorAssumptions DEF HaltDone, StopReturn, Goto, Return, SetState, LocalInv,
    TypeOK, Pid, NoPid, Booting, Started, LiveVMTracked, InitNotStopped, Mapped
<1>20. ASSUME NEW c \in Client, HaltExpire(c) PROVE LiveVMTracked'
  BY <1>20, ExecutorAssumptions DEF HaltExpire, StopReturn, Goto, Return, LocalInv, TypeOK,
    Pid, NoPid, Booting, Started, LiveVMTracked, InitNotStopped, Mapped
<1>21. ASSUME NEW c \in Client, CleanupNetwork(c) PROVE LiveVMTracked'
  BY <1>21, ExecutorAssumptions DEF CleanupNetwork, Goto, vmVars, LocalInv, TypeOK, Pid,
    NoPid, Booting, Started, LiveVMTracked, InitNotStopped, Mapped
<1>22. ASSUME NEW c \in Client, RemoveRefused(c) PROVE LiveVMTracked'
  BY <1>22, ExecutorAssumptions DEF RemoveRefused, Return, vmVars, LocalInv, TypeOK, Pid,
    NoPid, Booting, Started, LiveVMTracked, InitNotStopped, Mapped
<1>23. ASSUME NEW c \in Client, RemoveOK(c) PROVE LiveVMTracked'
  BY <1>23, ExecutorAssumptions DEF RemoveOK, Return, LocalInv, TypeOK, Pid, NoPid, Booting,
    Started, LiveVMTracked, InitNotStopped, Mapped
<1>24. ASSUME NEW c \in Client, NEW t \in Task, PrepareImage(c, t) PROVE LiveVMTracked'
  BY <1>24, ExecutorAssumptions DEF PrepareImage, Call, vmVars, LocalInv, TypeOK, Pid, NoPid,
    Booting, Started, LiveVMTracked, InitNotStopped, Mapped
<1>25. ASSUME NEW c \in Client, NEW t \in Task, StartCall(c, t) PROVE LiveVMTracked'
  BY <1>25, ExecutorAssumptions DEF StartCall, Call, vmVars, LocalInv, TypeOK, Pid, NoPid,
    Booting, Started, LiveVMTracked, InitNotStopped, Mapped
<1>26. ASSUME NEW c \in Client, NEW t \in Task, StopCall(c, t) PROVE LiveVMTracked'
  BY <1>26, ExecutorAssumptions DEF StopCall, Call, vmVars, LocalInv, TypeOK, Pid, NoPid,
    Booting, Started, LiveVMTracked, InitNotStopped, Mapped
<1>27. ASSUME NEW c \in Client, NEW t \in Task, RemoveCall(c, t) PROVE LiveVMTracked'
  BY <1>27, ExecutorAssumptions DEF RemoveCall, Call, vmVars, LocalInv, TypeOK, Pid, NoPid,
    Booting, Started, LiveVMTracked, InitNotStopped, Mapped
<1>28. ASSUME NEW c \in Client, Close(c) PROVE LiveVMTracked'
  BY <1>28, ExecutorAssumptions DEF Close, vmVars, me, LocalInv, TypeOK, Pid, NoPid, Booting,
    Started, LiveVMTracked, InitNotStopped, Mapped
<1>29. ASSUME NEW p \in Pid, Exit(p) PROVE LiveVMTracked'
  BY <1>29, ExecutorAssumptions DEF Exit, me, LocalInv, TypeOK, Pid, NoPid, Booting, Started,
    LiveVMTracked, InitNotStopped, Mapped
<1>30. ASSUME Receive PROVE LiveVMTracked'
  BY <1>30, ExecutorAssumptions DEF Receive, vmVars, me, LocalInv, TypeOK, Pid, NoPid,
    Booting, Started, LiveVMTracked, InitNotStopped, Mapped
<1> QED BY <1>1, <1>2, <1>3, <1>4, <1>5, <1>6, <1>7, <1>8, <1>9, <1>10, <1>11, <1>12, <1>13,
    <1>14, <1>15, <1>16, <1>17, <1>18, <1>19, <1>20, <1>21, <1>22, <1>23,
    <1>24, <1>25, <1>26, <1>27, <1>28, <1>29, <1>30 DEF Next, Step, NewCall

\* A Stop ends with the kill of the child or in another state.
LEMMA StuckStep ==
  ASSUME LocalInv, TypeOK', Next
  PROVE  StuckIsDead'
<1>1. ASSUME NEW c \in Client, PrepareNetwork(c) PROVE StuckIsDead'
  BY <1>1, ExecutorAssumptions DEF PrepareNetwork, Return, vmVars, LocalInv, TypeOK, Pid,
    NoPid, Booting, Started, StuckIsDead, Mapped
<1>2. ASSUME NEW c \in Client, PrepareRollback(c) PROVE StuckIsDead'
  BY <1>2, ExecutorAssumptions DEF PrepareRollback, Return, vmVars, LocalInv, TypeOK, Pid,
    NoPid, Booting, Started, StuckIsDead, Mapped
<1>3. ASSUME NEW c \in Client, StartRefused(c) PROVE StuckIsDead'
  BY <1>3, ExecutorAssumptions DEF StartRefused, Return, vmVars, LocalInv, TypeOK, Pid, NoPid,
    Booting, Started, StuckIsDead, Mapped
<1>4. ASSUME NEW c \in Client, StartSpawn(c) PROVE StuckIsDead'
  <2>1. spawned + 1 \in Pid \ (1..spawned) /\ state[spawned + 1] = "unset"
    BY <1>4, ExecutorAssumptions DEF StartSpawn, LocalInv, TypeOK, Pid
  <2>2. \A d \in Client : pc[d] \in {"signal", "grace", "halt"} => pc'[d] = pc[d] /\ inst'[d] = inst[d]
    BY <1>4 DEF StartSpawn, LocalInv, TypeOK
  <2>3. alive' = alive \cup {spawned + 1} /\ state' = state
    BY <1>4 DEF StartSpawn
  <2> QED BY <2>1, <2>2, <2>3 DEF LocalInv, StuckIsDead
<1>5. ASSUME NEW c \in Client, StartFail(c) PROVE StuckIsDead'
  BY <1>5, ExecutorAssumptions DEF StartFail, Return, LocalInv, TypeOK, Pid, NoPid, Booting,
    Started, StuckIsDead, Mapped
<1>6. ASSUME NEW c \in Client, StartOK(c) PROVE StuckIsDead'
  BY <1>6, ExecutorAssumptions DEF StartOK, Goto, SetState, LocalInv, TypeOK, Pid, NoPid,
    Booting, Started, StuckIsDead, Mapped
<1>7. ASSUME NEW c \in Client, EventClosed(c) PROVE StuckIsDead'
  BY <1>7, ExecutorAssumptions DEF EventClosed, Return, vmVars, LocalInv, TypeOK, Pid, NoPid,
    Booting, Started, StuckIsDead, Mapped
<1>8. ASSUME NEW c \in Client, EventOpen(c) PROVE StuckIsDead'
  BY <1>8, ExecutorAssumptions DEF EventOpen, Goto, vmVars, LocalInv, TypeOK, Pid, NoPid,
    Booting, Started, StuckIsDead, Mapped
<1>9. ASSUME NEW c \in Client, Send(c) PROVE StuckIsDead'
  BY <1>9, ExecutorAssumptions DEF Send, Return, vmVars, LocalInv, TypeOK, Pid, NoPid,
    Booting, Started, StuckIsDead, Mapped
<1>10. ASSUME NEW c \in Client, SendPanic(c) PROVE StuckIsDead'
  BY <1>10, ExecutorAssumptions DEF SendPanic, Return, vmVars, LocalInv, TypeOK, Pid, NoPid,
    Booting, Started, StuckIsDead, Mapped
<1>11. ASSUME NEW c \in Client, SendTimeout(c) PROVE StuckIsDead'
  BY <1>11, ExecutorAssumptions DEF SendTimeout, Return, vmVars, LocalInv, TypeOK, Pid, NoPid,
    Booting, Started, StuckIsDead, Mapped
<1>12. ASSUME NEW c \in Client, StopRefused(c) PROVE StuckIsDead'
  BY <1>12, ExecutorAssumptions DEF StopRefused, StopReturn, Goto, Return, vmVars, LocalInv,
    TypeOK, Pid, NoPid, Booting, Started, StuckIsDead, Mapped
<1>13. ASSUME NEW c \in Client, StopLookup(c) PROVE StuckIsDead'
  BY <1>13, ExecutorAssumptions DEF StopLookup, vmVars, LocalInv, TypeOK, Pid, NoPid, Booting,
    Started, StuckIsDead, Mapped
<1>14. ASSUME NEW c \in Client, StopMark(c) PROVE StuckIsDead'
  BY <1>14, ExecutorAssumptions DEF StopMark, Goto, SetState, LocalInv, TypeOK, Pid, NoPid,
    Booting, Started, StuckIsDead, Mapped
<1>15. ASSUME NEW c \in Client, Terminate(c) PROVE StuckIsDead'
  BY <1>15, ExecutorAssumptions DEF Terminate, Goto, vmVars, LocalInv, TypeOK, Pid,
    NoPid, Booting, Started, StuckIsDead, Mapped
<1>16. ASSUME NEW c \in Client, GraceExpire(c) PROVE StuckIsDead'
  BY <1>16, ExecutorAssumptions DEF GraceExpire, StopReturn, Goto, Return, LocalInv, TypeOK,
    Pid, NoPid, Booting, Started, StuckIsDead, Mapped
<1>17. ASSUME NEW c \in Client, CtrlAltDel(c) PROVE StuckIsDead'
  BY <1>17, ExecutorAssumptions DEF CtrlAltDel, Goto, vmVars, LocalInv, TypeOK, Pid, NoPid,
    Booting, Started, StuckIsDead, Mapped
<1>18. ASSUME NEW c \in Client, CtrlAltDelFail(c) PROVE StuckIsDead'
  BY <1>18, ExecutorAssumptions DEF CtrlAltDelFail, StopReturn, Goto, Return, LocalInv,
    TypeOK, Pid, NoPid, Booting, Started, StuckIsDead, Mapped
<1>19. ASSUME NEW c \in Client, HaltDone(c) PROVE StuckIsDead'
  BY <1>19, ExecutorAssumptions DEF HaltDone, StopReturn, Goto, Return, SetState, LocalInv,
    TypeOK, Pid, NoPid, Booting, Started, StuckIsDead, Mapped
<1>20. ASSUME NEW c \in Client, HaltExpire(c) PROVE StuckIsDead'
  BY <1>20, ExecutorAssumptions DEF HaltExpire, StopReturn, Goto, Return, LocalInv, TypeOK,
    Pid, NoPid, Booting, Started, StuckIsDead, Mapped
<1>21. ASSUME NEW c \in Client, CleanupNetwork(c) PROVE StuckIsDead'
  BY <1>21, ExecutorAssumptions DEF CleanupNetwork, Goto, vmVars, LocalInv, TypeOK, Pid,
    NoPid, Booting, Started, StuckIsDead, Mapped
<1>22. ASSUME NEW c \in Client, RemoveRefused(c) PROVE StuckIsDead'
  BY <1>22, ExecutorAssumptions DEF RemoveRefused, Return, vmVars, LocalInv, TypeOK, Pid,
    NoPid, Booting, Started, StuckIsDead, Mapped
<1>23. ASSUME NEW c \in Client, RemoveOK(c) PROVE StuckIsDead'
  BY <1>23, ExecutorAssumptions DEF RemoveOK, Return, LocalInv, TypeOK, Pid, NoPid, Booting,
    Started, StuckIsDead, Mapped
<1>24. ASSUME NEW c \in Client, NEW t \in Task, PrepareImage(c, t) PROVE StuckIsDead'
  BY <1>24, ExecutorAssumptions DEF PrepareImage, Call, vmVars, LocalInv, TypeOK, Pid, NoPid,
    Booting, Started, StuckIsDead, Mapped
<1>25. ASSUME NEW c \in Client, NEW t \in Task, StartCall(c, t) PROVE StuckIsDead'
  BY <1>25, ExecutorAssumptions DEF StartCall, Call, vmVars, LocalInv, TypeOK, Pid, NoPid,
    Booting, Started, StuckIsDead, Mapped
<1>26. ASSUME NEW c \in Client, NEW t \in Task, StopCall(c, t) PROVE StuckIsDead'
  BY <1>26, ExecutorAssumptions DEF StopCall, Call, vmVars, LocalInv, TypeOK, Pid, NoPid,
    Booting, Started, StuckIsDead, Mapped
<1>27. ASSUME NEW c \in Client, NEW t \in Task, RemoveCall(c, t) PROVE StuckIsDead'
  BY <1>27, ExecutorAssumptions DEF RemoveCall, Call, vmVars, LocalInv, TypeOK, Pid, NoPid,
    Booting, Started, StuckIsDead, Mapped
<1>28. ASSUME NEW c \in Client, Close(c) PROVE StuckIsDead'
  BY <1>28, ExecutorAssumptions DEF Close, vmVars, me, LocalInv, TypeOK, Pid, NoPid, Booting,
    Started, StuckIsDead, Mapped
<1>29. ASSUME NEW p \in Pid, Exit(p) PROVE StuckIsDead'
  BY <1>29, ExecutorAssumptions DEF Exit, me, LocalInv, TypeOK, Pid, NoPid, Booting, Started,
    StuckIsDead, Mapped
<1>30. ASSUME Receive PROVE StuckIsDead'
  BY <1>30, ExecutorAssumptions DEF Receive, vmVars, me, LocalInv, TypeOK, Pid, NoPid,
    Booting, Started, StuckIsDead, Mapped
<1> QED BY <1>1, <1>2, <1>3, <1>4, <1>5, <1>6, <1>7, <1>8, <1>9, <1>10, <1>11, <1>12, <1>13,
    <1>14, <1>15, <1>16, <1>17, <1>18, <1>19, <1>20, <1>21, <1>22, <1>23,
    <1>24, <1>25, <1>26, <1>27, <1>28, <1>29, <1>30 DEF Next, Step, NewCall

LEMMA LocalInvNext == LocalInv /\ [Next]_vars => LocalInv'
<1>1. ASSUME LocalInv, Next PROVE LocalInv'
  <2>1. TypeOK'
    BY <1>1, TypeStep
  <2> QED BY <1>1, <2>1, LockStep, StartedStep, InitStep, TrackedStep,
        StuckStep DEF LocalInv
<1>2. ASSUME LocalInv, UNCHANGED vars PROVE LocalInv'
  BY <1>2 DEF LocalInv, TypeOK, Booting, Halting, Halted, Mapped, Started, InitNotStopped,
    LiveVMTracked, StuckIsDead, vars, vmVars, me
<1> QED BY <1>1, <1>2

\* The inductive invariant of the executor.
THEOREM LocalInvariant == Spec => []LocalInv
  BY LocalInvInit, LocalInvNext, PTL DEF Spec

\* No Firecracker process is leaked (Start, Stop and Remove of VMMManager), but
\* for a guest without init system that outlives hardShutdown.
THEOREM NoVMLost == Spec => []LiveVMTracked
<1>1. LocalInv => LiveVMTracked
  BY DEF LocalInv
<1> QED BY <1>1, LocalInvariant, PTL

\* What is left in the state "stopping", which Stop and Remove refuse to touch, has no
\* process (Stop, gracefulShutdown, hardShutdown), however many Stops overlap.
THEOREM StuckVMsAreDead == Spec => []StuckIsDead
<1>1. LocalInv => StuckIsDead
  BY DEF LocalInv
<1> QED BY <1>1, LocalInvariant, PTL
=============================================================================
