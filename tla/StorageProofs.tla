---------------------------- MODULE StorageProofs ---------------------------
(***************************************************************************)
(* Proofs about Snapshots, for any number of VMs, services and processes,  *)
(* any limit, and any number of faults and crashes: what is listed is      *)
(* whole, the limit is kept and removes only superseded snapshots, a       *)
(* cleanup removes only expired ones, no VM stays paused and no failed     *)
(* restore leaves one.  And about Volumes, for any number of tasks,        *)
(* commands, volumes and files: copies that nobody disturbs are faithful,  *)
(* and files leave a volume only on purpose.                               *)
(***************************************************************************)
EXTENDS Snapshots, Volumes, FiniteSetTheorems, WellFoundedInduction, TLAPS

LEMMA LimitIsNat == Limit \in Nat
  BY SnapshotAssumptions DEF Limit, SetDefaults

LEMMA SnapInvInit == Init => SnapInv
<1> SUFFICES ASSUME Init PROVE SnapInv
  OBVIOUS
<1>1. TypeOK
  BY SnapshotAssumptions DEF Init, TypeOK, Early, FaultKinds
<1>2. \A s \in Proc : Whole(s) /\ Stamped(s) /\ Condemned(s)
  BY DEF Init, Whole, Stamped, Condemned
<1>3. NotLeftPaused
  BY DEF Init, NotLeftPaused
<1>4. Timed
  BY DEF Init, Timed
<1>5. \A sv : Limited(sv)
  <2>1. \A sv : Remaining(sv) = {}
    BY DEF Init, Remaining, ListedOf, Listed
  <2> QED BY <2>1, FS_EmptySet, LimitIsNat DEF Limited
<1> QED BY <1>1, <1>2, <1>3, <1>4, <1>5 DEF SnapInv, Init

\* Every step keeps the types.
LEMMA TypeStep ==
  ASSUME SnapInv, Next
  PROVE  TypeOK'
<1>1. ASSUME NEW p \in Proc, NEW v \in VM, CreateBegin(p, v) PROVE TypeOK'
  BY <1>1 DEF CreateBegin, Begin, Goto, disk, SnapInv, TypeOK, Early, Late, Finished, Files
<1>2. ASSUME NEW p \in Proc, Pause(p) PROVE TypeOK'
  BY <1>2 DEF Pause, Step, Goto, disk, request, SnapInv, TypeOK, Early, Late, Finished, Files
<1>3. ASSUME NEW p \in Proc, PauseFail(p) PROVE TypeOK'
  BY <1>3 DEF PauseFail, Step, Goto, Fault, FaultKinds, disk, request, SnapInv, TypeOK, Early,
    Late, Finished, Files
<1>4. ASSUME NEW p \in Proc, Take(p) PROVE TypeOK'
  BY <1>4 DEF Take, Step, Goto, disk, request, SnapInv, TypeOK, Early, Late, Finished, Files
<1>5. ASSUME NEW p \in Proc, TakeFail(p) PROVE TypeOK'
  BY <1>5 DEF TakeFail, Step, Goto, Fault, FaultKinds, disk, request, SnapInv, TypeOK, Early,
    Late, Finished, Files
<1>6. ASSUME NEW p \in Proc, Resume(p) PROVE TypeOK'
  BY <1>6 DEF Resume, AfterResume, Step, Goto, disk, request, SnapInv, TypeOK, Early, Late,
    Finished, Files
<1>7. ASSUME NEW p \in Proc, ResumeFail(p) PROVE TypeOK'
  BY <1>7 DEF ResumeFail, AfterResume, Step, Goto, Fault, FaultKinds, disk, request, SnapInv,
    TypeOK, Early, Late, Finished, Files
<1>8. ASSUME NEW p \in Proc, MakeDir(p) PROVE TypeOK'
  BY <1>8 DEF MakeDir, Step, Goto, disk, request, SnapInv, TypeOK, Early, Late, Finished,
    Files
<1>9. ASSUME NEW p \in Proc, MoveState(p) PROVE TypeOK'
  BY <1>9 DEF MoveState, Move, Step, Goto, disk, request, SnapInv, TypeOK, Early, Late,
    Finished, Files
<1>10. ASSUME NEW p \in Proc, MoveMemory(p) PROVE TypeOK'
  BY <1>10 DEF MoveMemory, Move, Step, Goto, disk, request, SnapInv, TypeOK, Early, Late,
    Finished, Files
<1>11. ASSUME NEW p \in Proc, MoveFail(p) PROVE TypeOK'
  BY <1>11, SMTT(60) DEF MoveFail, Goto, Fault, FaultKinds, disk, request, SnapInv, TypeOK, Early, Late,
    Finished, Files
<1>12. ASSUME NEW p \in Proc, Stamp(p) PROVE TypeOK'
  BY <1>12 DEF Stamp, Step, Goto, disk, request, SnapInv, TypeOK, Early, Late, Finished, Files
<1>13. ASSUME NEW p \in Proc, SaveMetadata(p) PROVE TypeOK'
  BY <1>13 DEF SaveMetadata, Step, Goto, disk, request, SnapInv, TypeOK, Early, Late,
    Finished, Files
<1>14. ASSUME NEW p \in Proc, EnforceMaxSnapshots(p) PROVE TypeOK'
  BY <1>14 DEF EnforceMaxSnapshots, Step, Goto, Excess, ListedOf, Listed, disk, request,
    SnapInv, TypeOK, Early, Late, Finished, Files
<1>15. ASSUME NEW p \in Proc, NEW s \in Proc, DeleteSnapshot(p, s) PROVE TypeOK'
  BY <1>15 DEF DeleteSnapshot, Begin, Goto, disk, request, SnapInv, TypeOK, Early, Late,
    Finished, Files
<1>16. ASSUME NEW p \in Proc, CleanupBegin(p) PROVE TypeOK'
  BY <1>16 DEF CleanupBegin, Begin, Goto, Listed, disk, request, SnapInv, TypeOK, Early, Late,
    Finished, Files
<1>17. ASSUME NEW p \in Proc, RemoveFile(p) PROVE TypeOK'
  BY <1>17 DEF RemoveFile, Removing, NextVictim, disk, request, SnapInv, TypeOK, Early, Late,
    Finished, Files
<1>18. ASSUME NEW p \in Proc, RemoveDir(p) PROVE TypeOK'
  BY <1>18 DEF RemoveDir, Removing, NextVictim, disk, request, SnapInv, TypeOK, Early, Late,
    Finished, Files
<1>19. ASSUME NEW p \in Proc, RemoveFail(p) PROVE TypeOK'
  BY <1>19 DEF RemoveFail, Removing, NextVictim, Fault, FaultKinds, disk, request, SnapInv,
    TypeOK, Early, Late, Finished, Files
<1>20. ASSUME NEW p \in Proc, RemoveDone(p) PROVE TypeOK'
  BY <1>20 DEF RemoveDone, Goto, disk, request, SnapInv, TypeOK, Early, Late, Finished, Files
<1>21. ASSUME NEW p \in Proc, NEW s \in Proc, RestoreBegin(p, s) PROVE TypeOK'
  BY <1>21 DEF RestoreBegin, Begin, Goto, disk, request, SnapInv, TypeOK, Early, Late,
    Finished, Files
<1>22. ASSUME NEW p \in Proc, Check(p) PROVE TypeOK'
  BY <1>22 DEF Check, Step, Goto, disk, request, SnapInv, TypeOK, Early, Late, Finished, Files
<1>23. ASSUME NEW p \in Proc, Spawn(p) PROVE TypeOK'
  BY <1>23 DEF Spawn, Step, Goto, disk, request, SnapInv, TypeOK, Early, Late, Finished, Files
<1>24. ASSUME NEW p \in Proc, Load(p) PROVE TypeOK'
  BY <1>24 DEF Load, Step, Goto, disk, request, SnapInv, TypeOK, Early, Late, Finished, Files
<1>25. ASSUME NEW p \in Proc, InstanceStart(p) PROVE TypeOK'
  BY <1>25 DEF InstanceStart, Step, Goto, disk, request, SnapInv, TypeOK, Early, Late,
    Finished, Files
<1>26. ASSUME NEW p \in Proc, RestoreFail(p) PROVE TypeOK'
  BY <1>26 DEF RestoreFail, Goto, disk, request, SnapInv, TypeOK, Early, Late, Finished, Files
<1>27. ASSUME NEW p \in Proc, Crash(p) PROVE TypeOK'
  BY <1>27 DEF Crash, Goto, Fault, FaultKinds, disk, request, SnapInv, TypeOK, Early, Late,
    Finished, Files
<1>28. ASSUME NEW s \in Proc, Expire(s) PROVE TypeOK'
  BY <1>28 DEF Expire, disk, request, SnapInv, TypeOK, Early, Late, Finished, Files
<1>29. ASSUME NEW p \in Proc, ListFail(p) PROVE TypeOK'
  BY <1>29 DEF ListFail, Step, Goto, Fault, FaultKinds, disk, request, SnapInv, TypeOK, Early, Late,
    Finished, Files
<1> QED BY <1>1, <1>2, <1>3, <1>4, <1>5, <1>6, <1>7, <1>8, <1>9, <1>10, <1>11, <1>12, <1>13,
    <1>14, <1>15, <1>16, <1>17, <1>18, <1>19, <1>20, <1>21, <1>22, <1>23, <1>24, <1>25,
    <1>26, <1>27, <1>28, <1>29 DEF Next, Create, Remove, Restore

\* A snapshot is whole from its metadata on until its removal begins.
LEMMA WholeStep ==
  ASSUME SnapInv, TypeOK', Next
  PROVE  (\A x \in Proc \ touched : Whole(x))'
<1>1. ASSUME NEW p \in Proc, NEW v \in VM, CreateBegin(p, v) PROVE (\A x \in Proc \ touched : Whole(x))'
  BY <1>1 DEF CreateBegin, Begin, Goto, disk, SnapInv, TypeOK, Whole
<1>2. ASSUME NEW p \in Proc, Pause(p) PROVE (\A x \in Proc \ touched : Whole(x))'
  BY <1>2 DEF Pause, Step, Goto, disk, request, SnapInv, TypeOK, Whole
<1>3. ASSUME NEW p \in Proc, PauseFail(p) PROVE (\A x \in Proc \ touched : Whole(x))'
  BY <1>3 DEF PauseFail, Step, Goto, Fault, FaultKinds, disk, request, SnapInv, TypeOK, Whole
<1>4. ASSUME NEW p \in Proc, Take(p) PROVE (\A x \in Proc \ touched : Whole(x))'
  BY <1>4 DEF Take, Step, Goto, disk, request, SnapInv, TypeOK, Whole
<1>5. ASSUME NEW p \in Proc, TakeFail(p) PROVE (\A x \in Proc \ touched : Whole(x))'
  BY <1>5 DEF TakeFail, Step, Goto, Fault, FaultKinds, disk, request, SnapInv, TypeOK, Whole
<1>6. ASSUME NEW p \in Proc, Resume(p) PROVE (\A x \in Proc \ touched : Whole(x))'
  BY <1>6 DEF Resume, AfterResume, Step, Goto, disk, request, SnapInv, TypeOK, Whole
<1>7. ASSUME NEW p \in Proc, ResumeFail(p) PROVE (\A x \in Proc \ touched : Whole(x))'
  BY <1>7 DEF ResumeFail, AfterResume, Step, Goto, Fault, FaultKinds, disk, request, SnapInv,
    TypeOK, Whole
<1>8. ASSUME NEW p \in Proc, MakeDir(p) PROVE (\A x \in Proc \ touched : Whole(x))'
  BY <1>8 DEF MakeDir, Step, Goto, disk, request, SnapInv, TypeOK, Whole
<1>9. ASSUME NEW p \in Proc, MoveState(p) PROVE (\A x \in Proc \ touched : Whole(x))'
  BY <1>9 DEF MoveState, Move, Step, Goto, disk, request, SnapInv, TypeOK, Whole
<1>10. ASSUME NEW p \in Proc, MoveMemory(p) PROVE (\A x \in Proc \ touched : Whole(x))'
  BY <1>10 DEF MoveMemory, Move, Step, Goto, disk, request, SnapInv, TypeOK, Whole
<1>11. ASSUME NEW p \in Proc, MoveFail(p) PROVE (\A x \in Proc \ touched : Whole(x))'
  BY <1>11 DEF MoveFail, Goto, Fault, FaultKinds, disk, request, SnapInv, TypeOK, Whole
<1>12. ASSUME NEW p \in Proc, Stamp(p) PROVE (\A x \in Proc \ touched : Whole(x))'
  BY <1>12 DEF Stamp, Step, Goto, disk, request, SnapInv, TypeOK, Whole
<1>13. ASSUME NEW p \in Proc, SaveMetadata(p) PROVE (\A x \in Proc \ touched : Whole(x))'
  BY <1>13 DEF SaveMetadata, Step, Goto, disk, request, SnapInv, TypeOK, Whole
<1>14. ASSUME NEW p \in Proc, EnforceMaxSnapshots(p) PROVE (\A x \in Proc \ touched : Whole(x))'
  BY <1>14 DEF EnforceMaxSnapshots, Step, Goto, Excess, ListedOf, Listed, disk, request,
    SnapInv, TypeOK, Whole
<1>15. ASSUME NEW p \in Proc, NEW s \in Proc, DeleteSnapshot(p, s) PROVE (\A x \in Proc \ touched : Whole(x))'
  BY <1>15 DEF DeleteSnapshot, Begin, Goto, disk, request, SnapInv, TypeOK, Whole
<1>16. ASSUME NEW p \in Proc, CleanupBegin(p) PROVE (\A x \in Proc \ touched : Whole(x))'
  BY <1>16 DEF CleanupBegin, Begin, Goto, Listed, disk, request, SnapInv, TypeOK, Whole
<1>17. ASSUME NEW p \in Proc, RemoveFile(p) PROVE (\A x \in Proc \ touched : Whole(x))'
  BY <1>17 DEF RemoveFile, Removing, NextVictim, disk, request, SnapInv, TypeOK, Whole
<1>18. ASSUME NEW p \in Proc, RemoveDir(p) PROVE (\A x \in Proc \ touched : Whole(x))'
  BY <1>18 DEF RemoveDir, Removing, NextVictim, disk, request, SnapInv, TypeOK, Whole
<1>19. ASSUME NEW p \in Proc, RemoveFail(p) PROVE (\A x \in Proc \ touched : Whole(x))'
  BY <1>19 DEF RemoveFail, Removing, NextVictim, Fault, FaultKinds, disk, request, SnapInv,
    TypeOK, Whole
<1>20. ASSUME NEW p \in Proc, RemoveDone(p) PROVE (\A x \in Proc \ touched : Whole(x))'
  BY <1>20 DEF RemoveDone, Goto, disk, request, SnapInv, TypeOK, Whole
<1>21. ASSUME NEW p \in Proc, NEW s \in Proc, RestoreBegin(p, s) PROVE (\A x \in Proc \ touched : Whole(x))'
  BY <1>21 DEF RestoreBegin, Begin, Goto, disk, request, SnapInv, TypeOK, Whole
<1>22. ASSUME NEW p \in Proc, Check(p) PROVE (\A x \in Proc \ touched : Whole(x))'
  BY <1>22 DEF Check, Step, Goto, disk, request, SnapInv, TypeOK, Whole
<1>23. ASSUME NEW p \in Proc, Spawn(p) PROVE (\A x \in Proc \ touched : Whole(x))'
  BY <1>23 DEF Spawn, Step, Goto, disk, request, SnapInv, TypeOK, Whole
<1>24. ASSUME NEW p \in Proc, Load(p) PROVE (\A x \in Proc \ touched : Whole(x))'
  BY <1>24 DEF Load, Step, Goto, disk, request, SnapInv, TypeOK, Whole
<1>25. ASSUME NEW p \in Proc, InstanceStart(p) PROVE (\A x \in Proc \ touched : Whole(x))'
  BY <1>25 DEF InstanceStart, Step, Goto, disk, request, SnapInv, TypeOK, Whole
<1>26. ASSUME NEW p \in Proc, RestoreFail(p) PROVE (\A x \in Proc \ touched : Whole(x))'
  BY <1>26 DEF RestoreFail, Goto, disk, request, SnapInv, TypeOK, Whole
<1>27. ASSUME NEW p \in Proc, Crash(p) PROVE (\A x \in Proc \ touched : Whole(x))'
  BY <1>27 DEF Crash, Goto, Fault, FaultKinds, disk, request, SnapInv, TypeOK, Whole
<1>28. ASSUME NEW s \in Proc, Expire(s) PROVE (\A x \in Proc \ touched : Whole(x))'
  BY <1>28 DEF Expire, disk, request, SnapInv, TypeOK, Whole
<1>29. ASSUME NEW p \in Proc, ListFail(p) PROVE (\A x \in Proc \ touched : Whole(x))'
  BY <1>29 DEF ListFail, Step, Goto, Fault, FaultKinds, disk, request, SnapInv, TypeOK, Whole
<1> QED BY <1>1, <1>2, <1>3, <1>4, <1>5, <1>6, <1>7, <1>8, <1>9, <1>10, <1>11, <1>12, <1>13,
    <1>14, <1>15, <1>16, <1>17, <1>18, <1>19, <1>20, <1>21, <1>22, <1>23, <1>24, <1>25,
    <1>26, <1>27, <1>28, <1>29 DEF Next, Create, Remove, Restore

\* A snapshot has its time before its metadata.
LEMMA StampedStep ==
  ASSUME SnapInv, TypeOK', Next
  PROVE  (\A x \in Proc : Stamped(x))'
<1>1. ASSUME NEW p \in Proc, NEW v \in VM, CreateBegin(p, v) PROVE (\A x \in Proc : Stamped(x))'
  BY <1>1 DEF CreateBegin, Begin, Goto, disk, SnapInv, TypeOK, Stamped, Early, Finished,
    Active, Files
<1>2. ASSUME NEW p \in Proc, Pause(p) PROVE (\A x \in Proc : Stamped(x))'
  BY <1>2 DEF Pause, Step, Goto, disk, request, SnapInv, TypeOK, Stamped, Early, Finished,
    Active, Files
<1>3. ASSUME NEW p \in Proc, PauseFail(p) PROVE (\A x \in Proc : Stamped(x))'
  BY <1>3 DEF PauseFail, Step, Goto, Fault, FaultKinds, disk, request, SnapInv, TypeOK,
    Stamped, Early, Finished, Active, Files
<1>4. ASSUME NEW p \in Proc, Take(p) PROVE (\A x \in Proc : Stamped(x))'
  BY <1>4 DEF Take, Step, Goto, disk, request, SnapInv, TypeOK, Stamped, Early, Finished,
    Active, Files
<1>5. ASSUME NEW p \in Proc, TakeFail(p) PROVE (\A x \in Proc : Stamped(x))'
  BY <1>5 DEF TakeFail, Step, Goto, Fault, FaultKinds, disk, request, SnapInv, TypeOK,
    Stamped, Early, Finished, Active, Files
<1>6. ASSUME NEW p \in Proc, Resume(p) PROVE (\A x \in Proc : Stamped(x))'
  BY <1>6 DEF Resume, AfterResume, Step, Goto, disk, request, SnapInv, TypeOK, Stamped, Early,
    Finished, Active, Files
<1>7. ASSUME NEW p \in Proc, ResumeFail(p) PROVE (\A x \in Proc : Stamped(x))'
  BY <1>7 DEF ResumeFail, AfterResume, Step, Goto, Fault, FaultKinds, disk, request, SnapInv,
    TypeOK, Stamped, Early, Finished, Active, Files
<1>8. ASSUME NEW p \in Proc, MakeDir(p) PROVE (\A x \in Proc : Stamped(x))'
  BY <1>8 DEF MakeDir, Step, Goto, disk, request, SnapInv, TypeOK, Stamped, Early, Finished,
    Active, Files
<1>9. ASSUME NEW p \in Proc, MoveState(p) PROVE (\A x \in Proc : Stamped(x))'
  BY <1>9 DEF MoveState, Move, Step, Goto, disk, request, SnapInv, TypeOK, Stamped, Early,
    Finished, Active, Files
<1>10. ASSUME NEW p \in Proc, MoveMemory(p) PROVE (\A x \in Proc : Stamped(x))'
  BY <1>10 DEF MoveMemory, Move, Step, Goto, disk, request, SnapInv, TypeOK, Stamped, Early,
    Finished, Active, Files
<1>11. ASSUME NEW p \in Proc, MoveFail(p) PROVE (\A x \in Proc : Stamped(x))'
  BY <1>11 DEF MoveFail, Goto, Fault, FaultKinds, disk, request, SnapInv, TypeOK, Stamped,
    Early, Finished, Active, Files
<1>12. ASSUME NEW p \in Proc, Stamp(p) PROVE (\A x \in Proc : Stamped(x))'
  BY <1>12 DEF Stamp, Step, Goto, disk, request, SnapInv, TypeOK, Stamped, Early, Finished,
    Active, Files
<1>13. ASSUME NEW p \in Proc, SaveMetadata(p) PROVE (\A x \in Proc : Stamped(x))'
  BY <1>13 DEF SaveMetadata, Step, Goto, disk, request, SnapInv, TypeOK, Stamped, Early,
    Finished, Active, Files
<1>14. ASSUME NEW p \in Proc, EnforceMaxSnapshots(p) PROVE (\A x \in Proc : Stamped(x))'
  BY <1>14 DEF EnforceMaxSnapshots, Step, Goto, Excess, ListedOf, Listed, disk, request,
    SnapInv, TypeOK, Stamped, Early, Finished, Active, Files
<1>15. ASSUME NEW p \in Proc, NEW s \in Proc, DeleteSnapshot(p, s) PROVE (\A x \in Proc : Stamped(x))'
  BY <1>15 DEF DeleteSnapshot, Begin, Goto, disk, request, SnapInv, TypeOK, Stamped, Early,
    Finished, Active, Files
<1>16. ASSUME NEW p \in Proc, CleanupBegin(p) PROVE (\A x \in Proc : Stamped(x))'
  BY <1>16 DEF CleanupBegin, Begin, Goto, Listed, disk, request, SnapInv, TypeOK, Stamped,
    Early, Finished, Active, Files
<1>17. ASSUME NEW p \in Proc, RemoveFile(p) PROVE (\A x \in Proc : Stamped(x))'
  BY <1>17 DEF RemoveFile, Removing, NextVictim, disk, request, SnapInv, TypeOK, Stamped,
    Early, Finished, Active, Files
<1>18. ASSUME NEW p \in Proc, RemoveDir(p) PROVE (\A x \in Proc : Stamped(x))'
  BY <1>18 DEF RemoveDir, Removing, NextVictim, disk, request, SnapInv, TypeOK, Stamped,
    Early, Finished, Active, Files
<1>19. ASSUME NEW p \in Proc, RemoveFail(p) PROVE (\A x \in Proc : Stamped(x))'
  BY <1>19 DEF RemoveFail, Removing, NextVictim, Fault, FaultKinds, disk, request, SnapInv,
    TypeOK, Stamped, Early, Finished, Active, Files
<1>20. ASSUME NEW p \in Proc, RemoveDone(p) PROVE (\A x \in Proc : Stamped(x))'
  BY <1>20 DEF RemoveDone, Goto, disk, request, SnapInv, TypeOK, Stamped, Early, Finished,
    Active, Files
<1>21. ASSUME NEW p \in Proc, NEW s \in Proc, RestoreBegin(p, s) PROVE (\A x \in Proc : Stamped(x))'
  BY <1>21 DEF RestoreBegin, Begin, Goto, disk, request, SnapInv, TypeOK, Stamped, Early,
    Finished, Active, Files
<1>22. ASSUME NEW p \in Proc, Check(p) PROVE (\A x \in Proc : Stamped(x))'
  BY <1>22 DEF Check, Step, Goto, disk, request, SnapInv, TypeOK, Stamped, Early, Finished,
    Active, Files
<1>23. ASSUME NEW p \in Proc, Spawn(p) PROVE (\A x \in Proc : Stamped(x))'
  BY <1>23 DEF Spawn, Step, Goto, disk, request, SnapInv, TypeOK, Stamped, Early, Finished,
    Active, Files
<1>24. ASSUME NEW p \in Proc, Load(p) PROVE (\A x \in Proc : Stamped(x))'
  BY <1>24 DEF Load, Step, Goto, disk, request, SnapInv, TypeOK, Stamped, Early, Finished,
    Active, Files
<1>25. ASSUME NEW p \in Proc, InstanceStart(p) PROVE (\A x \in Proc : Stamped(x))'
  BY <1>25 DEF InstanceStart, Step, Goto, disk, request, SnapInv, TypeOK, Stamped, Early,
    Finished, Active, Files
<1>26. ASSUME NEW p \in Proc, RestoreFail(p) PROVE (\A x \in Proc : Stamped(x))'
  BY <1>26 DEF RestoreFail, Goto, disk, request, SnapInv, TypeOK, Stamped, Early, Finished,
    Active, Files
<1>27. ASSUME NEW p \in Proc, Crash(p) PROVE (\A x \in Proc : Stamped(x))'
  BY <1>27 DEF Crash, Goto, Fault, FaultKinds, disk, request, SnapInv, TypeOK, Stamped, Early,
    Finished, Active, Files
<1>28. ASSUME NEW s \in Proc, Expire(s) PROVE (\A x \in Proc : Stamped(x))'
  BY <1>28 DEF Expire, disk, request, SnapInv, TypeOK, Stamped, Early, Finished, Active, Files
<1>29. ASSUME NEW p \in Proc, ListFail(p) PROVE (\A x \in Proc : Stamped(x))'
  BY <1>29 DEF ListFail, Step, Goto, Fault, FaultKinds, disk, request, SnapInv, TypeOK, Stamped, Early,
    Finished, Active, Files
<1> QED BY <1>1, <1>2, <1>3, <1>4, <1>5, <1>6, <1>7, <1>8, <1>9, <1>10, <1>11, <1>12, <1>13,
    <1>14, <1>15, <1>16, <1>17, <1>18, <1>19, <1>20, <1>21, <1>22, <1>23, <1>24, <1>25,
    <1>26, <1>27, <1>28, <1>29 DEF Next, Create, Remove, Restore

\* The VMs that restores have started.
LEMMA RestoredStep ==
  ASSUME SnapInv, TypeOK', Next
  PROVE  (\A x \in alive : Restored(x))'
<1>1. ASSUME NEW p \in Proc, NEW v \in VM, CreateBegin(p, v) PROVE (\A x \in alive : Restored(x))'
  BY <1>1 DEF CreateBegin, Begin, Goto, disk, SnapInv, TypeOK, Restored
<1>2. ASSUME NEW p \in Proc, Pause(p) PROVE (\A x \in alive : Restored(x))'
  BY <1>2 DEF Pause, Step, Goto, disk, request, SnapInv, TypeOK, Restored
<1>3. ASSUME NEW p \in Proc, PauseFail(p) PROVE (\A x \in alive : Restored(x))'
  BY <1>3 DEF PauseFail, Step, Goto, Fault, FaultKinds, disk, request, SnapInv, TypeOK,
    Restored
<1>4. ASSUME NEW p \in Proc, Take(p) PROVE (\A x \in alive : Restored(x))'
  BY <1>4 DEF Take, Step, Goto, disk, request, SnapInv, TypeOK, Restored
<1>5. ASSUME NEW p \in Proc, TakeFail(p) PROVE (\A x \in alive : Restored(x))'
  BY <1>5 DEF TakeFail, Step, Goto, Fault, FaultKinds, disk, request, SnapInv, TypeOK,
    Restored
<1>6. ASSUME NEW p \in Proc, Resume(p) PROVE (\A x \in alive : Restored(x))'
  BY <1>6 DEF Resume, AfterResume, Step, Goto, disk, request, SnapInv, TypeOK, Restored
<1>7. ASSUME NEW p \in Proc, ResumeFail(p) PROVE (\A x \in alive : Restored(x))'
  BY <1>7 DEF ResumeFail, AfterResume, Step, Goto, Fault, FaultKinds, disk, request, SnapInv,
    TypeOK, Restored
<1>8. ASSUME NEW p \in Proc, MakeDir(p) PROVE (\A x \in alive : Restored(x))'
  BY <1>8 DEF MakeDir, Step, Goto, disk, request, SnapInv, TypeOK, Restored
<1>9. ASSUME NEW p \in Proc, MoveState(p) PROVE (\A x \in alive : Restored(x))'
  BY <1>9 DEF MoveState, Move, Step, Goto, disk, request, SnapInv, TypeOK, Restored
<1>10. ASSUME NEW p \in Proc, MoveMemory(p) PROVE (\A x \in alive : Restored(x))'
  BY <1>10 DEF MoveMemory, Move, Step, Goto, disk, request, SnapInv, TypeOK, Restored
<1>11. ASSUME NEW p \in Proc, MoveFail(p) PROVE (\A x \in alive : Restored(x))'
  <2>1. alive' = alive /\ cmd' = cmd /\ cmd[p] = "create"
    BY <1>11 DEF MoveFail, request
  <2>2. \A x \in Proc \ {p} : pc'[x] = pc[x]
    BY <1>11 DEF MoveFail, Goto, SnapInv, TypeOK
  <2>3. alive \subseteq Proc /\ \A x \in alive : Restored(x)
    BY DEF SnapInv, TypeOK
  <2> QED BY <2>1, <2>2, <2>3 DEF Restored
<1>12. ASSUME NEW p \in Proc, Stamp(p) PROVE (\A x \in alive : Restored(x))'
  BY <1>12 DEF Stamp, Step, Goto, disk, request, SnapInv, TypeOK, Restored
<1>13. ASSUME NEW p \in Proc, SaveMetadata(p) PROVE (\A x \in alive : Restored(x))'
  BY <1>13 DEF SaveMetadata, Step, Goto, disk, request, SnapInv, TypeOK, Restored
<1>14. ASSUME NEW p \in Proc, EnforceMaxSnapshots(p) PROVE (\A x \in alive : Restored(x))'
  BY <1>14 DEF EnforceMaxSnapshots, Step, Goto, Excess, ListedOf, Listed, disk, request,
    SnapInv, TypeOK, Restored
<1>15. ASSUME NEW p \in Proc, NEW s \in Proc, DeleteSnapshot(p, s) PROVE (\A x \in alive : Restored(x))'
  BY <1>15 DEF DeleteSnapshot, Begin, Goto, disk, request, SnapInv, TypeOK, Restored
<1>16. ASSUME NEW p \in Proc, CleanupBegin(p) PROVE (\A x \in alive : Restored(x))'
  BY <1>16 DEF CleanupBegin, Begin, Goto, Listed, disk, request, SnapInv, TypeOK, Restored
<1>17. ASSUME NEW p \in Proc, RemoveFile(p) PROVE (\A x \in alive : Restored(x))'
  BY <1>17 DEF RemoveFile, Removing, NextVictim, disk, request, SnapInv, TypeOK, Restored
<1>18. ASSUME NEW p \in Proc, RemoveDir(p) PROVE (\A x \in alive : Restored(x))'
  BY <1>18 DEF RemoveDir, Removing, NextVictim, disk, request, SnapInv, TypeOK, Restored
<1>19. ASSUME NEW p \in Proc, RemoveFail(p) PROVE (\A x \in alive : Restored(x))'
  BY <1>19 DEF RemoveFail, Removing, NextVictim, Fault, FaultKinds, disk, request, SnapInv,
    TypeOK, Restored
<1>20. ASSUME NEW p \in Proc, RemoveDone(p) PROVE (\A x \in alive : Restored(x))'
  BY <1>20 DEF RemoveDone, Goto, disk, request, SnapInv, TypeOK, Restored
<1>21. ASSUME NEW p \in Proc, NEW s \in Proc, RestoreBegin(p, s) PROVE (\A x \in alive : Restored(x))'
  BY <1>21 DEF RestoreBegin, Begin, Goto, disk, request, SnapInv, TypeOK, Restored
<1>22. ASSUME NEW p \in Proc, Check(p) PROVE (\A x \in alive : Restored(x))'
  BY <1>22 DEF Check, Step, Goto, disk, request, SnapInv, TypeOK, Restored
<1>23. ASSUME NEW p \in Proc, Spawn(p) PROVE (\A x \in alive : Restored(x))'
  BY <1>23 DEF Spawn, Step, Goto, disk, request, SnapInv, TypeOK, Restored
<1>24. ASSUME NEW p \in Proc, Load(p) PROVE (\A x \in alive : Restored(x))'
  BY <1>24 DEF Load, Step, Goto, disk, request, SnapInv, TypeOK, Restored
<1>25. ASSUME NEW p \in Proc, InstanceStart(p) PROVE (\A x \in alive : Restored(x))'
  BY <1>25 DEF InstanceStart, Step, Goto, disk, request, SnapInv, TypeOK, Restored
<1>26. ASSUME NEW p \in Proc, RestoreFail(p) PROVE (\A x \in alive : Restored(x))'
  BY <1>26 DEF RestoreFail, Goto, disk, request, SnapInv, TypeOK, Restored
<1>27. ASSUME NEW p \in Proc, Crash(p) PROVE (\A x \in alive : Restored(x))'
  BY <1>27 DEF Crash, Goto, Fault, FaultKinds, disk, request, SnapInv, TypeOK, Restored
<1>28. ASSUME NEW s \in Proc, Expire(s) PROVE (\A x \in alive : Restored(x))'
  BY <1>28 DEF Expire, disk, request, SnapInv, TypeOK, Restored
<1>29. ASSUME NEW p \in Proc, ListFail(p) PROVE (\A x \in alive : Restored(x))'
  BY <1>29 DEF ListFail, Step, Goto, Fault, FaultKinds, disk, request, SnapInv, TypeOK, Restored
<1> QED BY <1>1, <1>2, <1>3, <1>4, <1>5, <1>6, <1>7, <1>8, <1>9, <1>10, <1>11, <1>12, <1>13,
    <1>14, <1>15, <1>16, <1>17, <1>18, <1>19, <1>20, <1>21, <1>22, <1>23, <1>24, <1>25,
    <1>26, <1>27, <1>28, <1>29 DEF Next, Create, Remove, Restore

\* A paused VM has a create that will resume it.
LEMMA PausedStep ==
  ASSUME SnapInv, TypeOK', Next
  PROVE  NotLeftPaused'
<1>1. ASSUME NEW p \in Proc, NEW v \in VM, CreateBegin(p, v) PROVE NotLeftPaused'
  BY <1>1 DEF CreateBegin, Begin, Goto, disk, SnapInv, TypeOK, NotLeftPaused, FaultKinds
<1>2. ASSUME NEW p \in Proc, Pause(p) PROVE NotLeftPaused'
  BY <1>2 DEF Pause, Step, Goto, disk, request, SnapInv, TypeOK, NotLeftPaused, FaultKinds
<1>3. ASSUME NEW p \in Proc, PauseFail(p) PROVE NotLeftPaused'
  BY <1>3 DEF PauseFail, Step, Goto, Fault, FaultKinds, disk, request, SnapInv, TypeOK,
    NotLeftPaused
<1>4. ASSUME NEW p \in Proc, Take(p) PROVE NotLeftPaused'
  BY <1>4 DEF Take, Step, Goto, disk, request, SnapInv, TypeOK, NotLeftPaused, FaultKinds
<1>5. ASSUME NEW p \in Proc, TakeFail(p) PROVE NotLeftPaused'
  BY <1>5 DEF TakeFail, Step, Goto, Fault, FaultKinds, disk, request, SnapInv, TypeOK,
    NotLeftPaused
<1>6. ASSUME NEW p \in Proc, Resume(p) PROVE NotLeftPaused'
  BY <1>6 DEF Resume, AfterResume, Step, Goto, disk, request, SnapInv, TypeOK, NotLeftPaused,
    FaultKinds
<1>7. ASSUME NEW p \in Proc, ResumeFail(p) PROVE NotLeftPaused'
  BY <1>7 DEF ResumeFail, AfterResume, Step, Goto, Fault, FaultKinds, disk, request, SnapInv,
    TypeOK, NotLeftPaused
<1>8. ASSUME NEW p \in Proc, MakeDir(p) PROVE NotLeftPaused'
  BY <1>8 DEF MakeDir, Step, Goto, disk, request, SnapInv, TypeOK, NotLeftPaused, FaultKinds
<1>9. ASSUME NEW p \in Proc, MoveState(p) PROVE NotLeftPaused'
  BY <1>9 DEF MoveState, Move, Step, Goto, disk, request, SnapInv, TypeOK, NotLeftPaused,
    FaultKinds
<1>10. ASSUME NEW p \in Proc, MoveMemory(p) PROVE NotLeftPaused'
  BY <1>10 DEF MoveMemory, Move, Step, Goto, disk, request, SnapInv, TypeOK, NotLeftPaused,
    FaultKinds
<1>11. ASSUME NEW p \in Proc, MoveFail(p) PROVE NotLeftPaused'
  BY <1>11 DEF MoveFail, Goto, Fault, FaultKinds, disk, request, SnapInv, TypeOK,
    NotLeftPaused
<1>12. ASSUME NEW p \in Proc, Stamp(p) PROVE NotLeftPaused'
  BY <1>12 DEF Stamp, Step, Goto, disk, request, SnapInv, TypeOK, NotLeftPaused, FaultKinds
<1>13. ASSUME NEW p \in Proc, SaveMetadata(p) PROVE NotLeftPaused'
  BY <1>13 DEF SaveMetadata, Step, Goto, disk, request, SnapInv, TypeOK, NotLeftPaused,
    FaultKinds
<1>14. ASSUME NEW p \in Proc, EnforceMaxSnapshots(p) PROVE NotLeftPaused'
  BY <1>14 DEF EnforceMaxSnapshots, Step, Goto, Excess, ListedOf, Listed, disk, request,
    SnapInv, TypeOK, NotLeftPaused, FaultKinds
<1>15. ASSUME NEW p \in Proc, NEW s \in Proc, DeleteSnapshot(p, s) PROVE NotLeftPaused'
  BY <1>15 DEF DeleteSnapshot, Begin, Goto, disk, request, SnapInv, TypeOK, NotLeftPaused,
    FaultKinds
<1>16. ASSUME NEW p \in Proc, CleanupBegin(p) PROVE NotLeftPaused'
  BY <1>16 DEF CleanupBegin, Begin, Goto, Listed, disk, request, SnapInv, TypeOK,
    NotLeftPaused, FaultKinds
<1>17. ASSUME NEW p \in Proc, RemoveFile(p) PROVE NotLeftPaused'
  BY <1>17 DEF RemoveFile, Removing, NextVictim, disk, request, SnapInv, TypeOK,
    NotLeftPaused, FaultKinds
<1>18. ASSUME NEW p \in Proc, RemoveDir(p) PROVE NotLeftPaused'
  BY <1>18 DEF RemoveDir, Removing, NextVictim, disk, request, SnapInv, TypeOK, NotLeftPaused,
    FaultKinds
<1>19. ASSUME NEW p \in Proc, RemoveFail(p) PROVE NotLeftPaused'
  BY <1>19 DEF RemoveFail, Removing, NextVictim, Fault, FaultKinds, disk, request, SnapInv,
    TypeOK, NotLeftPaused
<1>20. ASSUME NEW p \in Proc, RemoveDone(p) PROVE NotLeftPaused'
  BY <1>20 DEF RemoveDone, Goto, disk, request, SnapInv, TypeOK, NotLeftPaused, FaultKinds
<1>21. ASSUME NEW p \in Proc, NEW s \in Proc, RestoreBegin(p, s) PROVE NotLeftPaused'
  BY <1>21 DEF RestoreBegin, Begin, Goto, disk, request, SnapInv, TypeOK, NotLeftPaused,
    FaultKinds
<1>22. ASSUME NEW p \in Proc, Check(p) PROVE NotLeftPaused'
  BY <1>22 DEF Check, Step, Goto, disk, request, SnapInv, TypeOK, NotLeftPaused, FaultKinds
<1>23. ASSUME NEW p \in Proc, Spawn(p) PROVE NotLeftPaused'
  BY <1>23 DEF Spawn, Step, Goto, disk, request, SnapInv, TypeOK, NotLeftPaused, FaultKinds
<1>24. ASSUME NEW p \in Proc, Load(p) PROVE NotLeftPaused'
  BY <1>24 DEF Load, Step, Goto, disk, request, SnapInv, TypeOK, NotLeftPaused, FaultKinds
<1>25. ASSUME NEW p \in Proc, InstanceStart(p) PROVE NotLeftPaused'
  BY <1>25 DEF InstanceStart, Step, Goto, disk, request, SnapInv, TypeOK, NotLeftPaused,
    FaultKinds
<1>26. ASSUME NEW p \in Proc, RestoreFail(p) PROVE NotLeftPaused'
  BY <1>26 DEF RestoreFail, Goto, disk, request, SnapInv, TypeOK, NotLeftPaused, FaultKinds
<1>27. ASSUME NEW p \in Proc, Crash(p) PROVE NotLeftPaused'
  BY <1>27 DEF Crash, Goto, Fault, FaultKinds, disk, request, SnapInv, TypeOK, NotLeftPaused
<1>28. ASSUME NEW s \in Proc, Expire(s) PROVE NotLeftPaused'
  BY <1>28 DEF Expire, disk, request, SnapInv, TypeOK, NotLeftPaused, FaultKinds
<1>29. ASSUME NEW p \in Proc, ListFail(p) PROVE NotLeftPaused'
  BY <1>29 DEF ListFail, Step, Goto, Fault, FaultKinds, disk, request, SnapInv, TypeOK, NotLeftPaused
<1> QED BY <1>1, <1>2, <1>3, <1>4, <1>5, <1>6, <1>7, <1>8, <1>9, <1>10, <1>11, <1>12, <1>13,
    <1>14, <1>15, <1>16, <1>17, <1>18, <1>19, <1>20, <1>21, <1>22, <1>23, <1>24, <1>25,
    <1>26, <1>27, <1>28, <1>29 DEF Next, Create, Remove, Restore

\* What has a time keeps it, and its service.
LEMMA TimesStay ==
  ASSUME SnapInv, Next
  PROVE  \A x \in Proc : created[x] # 0 => created'[x] = created[x] /\ task'[x] = task[x]
<1>1. ASSUME NEW p \in Proc, NEW v \in VM, CreateBegin(p, v) PROVE \A x \in Proc : created[x] # 0 => created'[x] = created[x] /\ task'[x] = task[x]
  BY <1>1 DEF CreateBegin, Begin, Goto, disk, SnapInv, TypeOK, Stamped, Early
<1>2. ASSUME NEW p \in Proc, Pause(p) PROVE \A x \in Proc : created[x] # 0 => created'[x] = created[x] /\ task'[x] = task[x]
  BY <1>2 DEF Pause, Step, Goto, disk, request, SnapInv, TypeOK, Stamped, Early
<1>3. ASSUME NEW p \in Proc, PauseFail(p) PROVE \A x \in Proc : created[x] # 0 => created'[x] = created[x] /\ task'[x] = task[x]
  BY <1>3 DEF PauseFail, Step, Goto, Fault, FaultKinds, disk, request, SnapInv, TypeOK,
    Stamped, Early
<1>4. ASSUME NEW p \in Proc, Take(p) PROVE \A x \in Proc : created[x] # 0 => created'[x] = created[x] /\ task'[x] = task[x]
  BY <1>4 DEF Take, Step, Goto, disk, request, SnapInv, TypeOK, Stamped, Early
<1>5. ASSUME NEW p \in Proc, TakeFail(p) PROVE \A x \in Proc : created[x] # 0 => created'[x] = created[x] /\ task'[x] = task[x]
  BY <1>5 DEF TakeFail, Step, Goto, Fault, FaultKinds, disk, request, SnapInv, TypeOK,
    Stamped, Early
<1>6. ASSUME NEW p \in Proc, Resume(p) PROVE \A x \in Proc : created[x] # 0 => created'[x] = created[x] /\ task'[x] = task[x]
  BY <1>6 DEF Resume, AfterResume, Step, Goto, disk, request, SnapInv, TypeOK, Stamped, Early
<1>7. ASSUME NEW p \in Proc, ResumeFail(p) PROVE \A x \in Proc : created[x] # 0 => created'[x] = created[x] /\ task'[x] = task[x]
  BY <1>7 DEF ResumeFail, AfterResume, Step, Goto, Fault, FaultKinds, disk, request, SnapInv,
    TypeOK, Stamped, Early
<1>8. ASSUME NEW p \in Proc, MakeDir(p) PROVE \A x \in Proc : created[x] # 0 => created'[x] = created[x] /\ task'[x] = task[x]
  BY <1>8 DEF MakeDir, Step, Goto, disk, request, SnapInv, TypeOK, Stamped, Early
<1>9. ASSUME NEW p \in Proc, MoveState(p) PROVE \A x \in Proc : created[x] # 0 => created'[x] = created[x] /\ task'[x] = task[x]
  BY <1>9 DEF MoveState, Move, Step, Goto, disk, request, SnapInv, TypeOK, Stamped, Early
<1>10. ASSUME NEW p \in Proc, MoveMemory(p) PROVE \A x \in Proc : created[x] # 0 => created'[x] = created[x] /\ task'[x] = task[x]
  BY <1>10 DEF MoveMemory, Move, Step, Goto, disk, request, SnapInv, TypeOK, Stamped, Early
<1>11. ASSUME NEW p \in Proc, MoveFail(p) PROVE \A x \in Proc : created[x] # 0 => created'[x] = created[x] /\ task'[x] = task[x]
  BY <1>11 DEF MoveFail, Goto, Fault, FaultKinds, disk, request, SnapInv, TypeOK, Stamped,
    Early
<1>12. ASSUME NEW p \in Proc, Stamp(p) PROVE \A x \in Proc : created[x] # 0 => created'[x] = created[x] /\ task'[x] = task[x]
  BY <1>12 DEF Stamp, Step, Goto, disk, request, SnapInv, TypeOK, Stamped, Early
<1>13. ASSUME NEW p \in Proc, SaveMetadata(p) PROVE \A x \in Proc : created[x] # 0 => created'[x] = created[x] /\ task'[x] = task[x]
  BY <1>13 DEF SaveMetadata, Step, Goto, disk, request, SnapInv, TypeOK, Stamped, Early
<1>14. ASSUME NEW p \in Proc, EnforceMaxSnapshots(p) PROVE \A x \in Proc : created[x] # 0 => created'[x] = created[x] /\ task'[x] = task[x]
  BY <1>14 DEF EnforceMaxSnapshots, Step, Goto, Excess, ListedOf, Listed, disk, request,
    SnapInv, TypeOK, Stamped, Early
<1>15. ASSUME NEW p \in Proc, NEW s \in Proc, DeleteSnapshot(p, s) PROVE \A x \in Proc : created[x] # 0 => created'[x] = created[x] /\ task'[x] = task[x]
  BY <1>15 DEF DeleteSnapshot, Begin, Goto, disk, request, SnapInv, TypeOK, Stamped, Early
<1>16. ASSUME NEW p \in Proc, CleanupBegin(p) PROVE \A x \in Proc : created[x] # 0 => created'[x] = created[x] /\ task'[x] = task[x]
  BY <1>16 DEF CleanupBegin, Begin, Goto, Listed, disk, request, SnapInv, TypeOK, Stamped,
    Early
<1>17. ASSUME NEW p \in Proc, RemoveFile(p) PROVE \A x \in Proc : created[x] # 0 => created'[x] = created[x] /\ task'[x] = task[x]
  BY <1>17 DEF RemoveFile, Removing, NextVictim, disk, request, SnapInv, TypeOK, Stamped,
    Early
<1>18. ASSUME NEW p \in Proc, RemoveDir(p) PROVE \A x \in Proc : created[x] # 0 => created'[x] = created[x] /\ task'[x] = task[x]
  BY <1>18 DEF RemoveDir, Removing, NextVictim, disk, request, SnapInv, TypeOK, Stamped, Early
<1>19. ASSUME NEW p \in Proc, RemoveFail(p) PROVE \A x \in Proc : created[x] # 0 => created'[x] = created[x] /\ task'[x] = task[x]
  BY <1>19 DEF RemoveFail, Removing, NextVictim, Fault, FaultKinds, disk, request, SnapInv,
    TypeOK, Stamped, Early
<1>20. ASSUME NEW p \in Proc, RemoveDone(p) PROVE \A x \in Proc : created[x] # 0 => created'[x] = created[x] /\ task'[x] = task[x]
  BY <1>20 DEF RemoveDone, Goto, disk, request, SnapInv, TypeOK, Stamped, Early
<1>21. ASSUME NEW p \in Proc, NEW s \in Proc, RestoreBegin(p, s) PROVE \A x \in Proc : created[x] # 0 => created'[x] = created[x] /\ task'[x] = task[x]
  BY <1>21 DEF RestoreBegin, Begin, Goto, disk, request, SnapInv, TypeOK, Stamped, Early
<1>22. ASSUME NEW p \in Proc, Check(p) PROVE \A x \in Proc : created[x] # 0 => created'[x] = created[x] /\ task'[x] = task[x]
  BY <1>22 DEF Check, Step, Goto, disk, request, SnapInv, TypeOK, Stamped, Early
<1>23. ASSUME NEW p \in Proc, Spawn(p) PROVE \A x \in Proc : created[x] # 0 => created'[x] = created[x] /\ task'[x] = task[x]
  BY <1>23 DEF Spawn, Step, Goto, disk, request, SnapInv, TypeOK, Stamped, Early
<1>24. ASSUME NEW p \in Proc, Load(p) PROVE \A x \in Proc : created[x] # 0 => created'[x] = created[x] /\ task'[x] = task[x]
  BY <1>24 DEF Load, Step, Goto, disk, request, SnapInv, TypeOK, Stamped, Early
<1>25. ASSUME NEW p \in Proc, InstanceStart(p) PROVE \A x \in Proc : created[x] # 0 => created'[x] = created[x] /\ task'[x] = task[x]
  BY <1>25 DEF InstanceStart, Step, Goto, disk, request, SnapInv, TypeOK, Stamped, Early
<1>26. ASSUME NEW p \in Proc, RestoreFail(p) PROVE \A x \in Proc : created[x] # 0 => created'[x] = created[x] /\ task'[x] = task[x]
  BY <1>26 DEF RestoreFail, Goto, disk, request, SnapInv, TypeOK, Stamped, Early
<1>27. ASSUME NEW p \in Proc, Crash(p) PROVE \A x \in Proc : created[x] # 0 => created'[x] = created[x] /\ task'[x] = task[x]
  BY <1>27 DEF Crash, Goto, Fault, FaultKinds, disk, request, SnapInv, TypeOK, Stamped, Early
<1>28. ASSUME NEW s \in Proc, Expire(s) PROVE \A x \in Proc : created[x] # 0 => created'[x] = created[x] /\ task'[x] = task[x]
  BY <1>28 DEF Expire, disk, request, SnapInv, TypeOK, Stamped, Early
<1>29. ASSUME NEW p \in Proc, ListFail(p) PROVE \A x \in Proc : created[x] # 0 => created'[x] = created[x] /\ task'[x] = task[x]
  BY <1>29 DEF ListFail, Step, Goto, Fault, FaultKinds, disk, request, SnapInv, TypeOK, Stamped, Early
<1> QED BY <1>1, <1>2, <1>3, <1>4, <1>5, <1>6, <1>7, <1>8, <1>9, <1>10, <1>11, <1>12, <1>13,
    <1>14, <1>15, <1>16, <1>17, <1>18, <1>19, <1>20, <1>21, <1>22, <1>23, <1>24, <1>25,
    <1>26, <1>27, <1>28, <1>29 DEF Next, Create, Remove, Restore

\* What is superseded stays so: newer snapshots keep their time and service.
LEMMA SupersededStays ==
  ASSUME TypeOK, TypeOK', NEW s \in Proc, Superseded(s),
         \A x \in Proc : created[x] # 0 => created'[x] = created[x] /\ task'[x] = task[x]
  PROVE  Superseded(s)'
<1>1. ASSUME NEW n \in After(s) PROVE n \in After(s)'
  <2>1. n \in Proc /\ created[n] > created[s] /\ created[s] # 0
    BY <1>1 DEF Superseded, After, Newer
  <2>2. created[n] # 0
    BY <2>1 DEF TypeOK
  <2>3. created'[n] = created[n] /\ created'[s] = created[s]
        /\ task'[n] = task[n] /\ task'[s] = task[s]
    BY <2>1, <2>2
  <2> QED BY <1>1, <2>1, <2>3 DEF After, Newer, OfService
<1>2. IsFiniteSet(After(s)')
  <2>1. After(s)' \subseteq Proc
    BY DEF After, Newer
  <2> QED BY <2>1, SnapshotAssumptions, FS_Subset
<1>3. Cardinality(After(s)) \in Nat /\ Cardinality(After(s)') \in Nat
      /\ Cardinality(After(s)) =< Cardinality(After(s)')
  BY <1>1, <1>2, FS_Subset, FS_CardinalityType
<1> QED BY <1>3, LimitIsNat DEF Superseded

\* What enforceMaxSnapshots picks is superseded.
LEMMA ExcessIsSuperseded ==
  ASSUME SnapInv, NEW service, NEW s \in Excess(service)
  PROVE  Superseded(s)
<1>1. s \in Proc /\ created[s] # 0
  BY DEF SnapInv, TypeOK, Excess, ListedOf, Listed, Stamped
<1> DEFINE N == Newer(s, ListedOf(service))
<1>2. N \subseteq After(s)
  BY <1>1 DEF SnapInv, TypeOK, Excess, ListedOf, Listed, After, Newer
<1>3. IsFiniteSet(After(s))
  <2>1. After(s) \subseteq Proc
    BY DEF After, Newer
  <2> QED BY <2>1, SnapshotAssumptions, FS_Subset
<1>4. Cardinality(N) \in Nat /\ Cardinality(After(s)) \in Nat /\ Cardinality(N) =< Cardinality(After(s))
  BY <1>2, <1>3, FS_Subset, FS_CardinalityType
<1>5. Cardinality(N) >= Limit
  BY DEF Excess
<1> QED BY <1>1, <1>4, <1>5, LimitIsNat DEF Superseded

\* What a process is about to remove is superseded, or expired.
LEMMA CondemnedStep ==
  ASSUME SnapInv, TypeOK', NEW r \in Proc,
         \A x \in Proc : Superseded(x) => Superseded(x)', Next
  PROVE  Condemned(r)'
<1>1. ASSUME NEW p \in Proc, NEW v \in VM, CreateBegin(p, v) PROVE Condemned(r)'
  BY <1>1 DEF CreateBegin, Begin, Goto, disk, SnapInv, TypeOK, Condemned
<1>2. ASSUME NEW p \in Proc, Pause(p) PROVE Condemned(r)'
  BY <1>2 DEF Pause, Step, Goto, disk, request, SnapInv, TypeOK, Condemned
<1>3. ASSUME NEW p \in Proc, PauseFail(p) PROVE Condemned(r)'
  BY <1>3 DEF PauseFail, Step, Goto, Fault, FaultKinds, disk, request, SnapInv, TypeOK,
    Condemned
<1>4. ASSUME NEW p \in Proc, Take(p) PROVE Condemned(r)'
  BY <1>4 DEF Take, Step, Goto, disk, request, SnapInv, TypeOK, Condemned
<1>5. ASSUME NEW p \in Proc, TakeFail(p) PROVE Condemned(r)'
  BY <1>5 DEF TakeFail, Step, Goto, Fault, FaultKinds, disk, request, SnapInv, TypeOK,
    Condemned
<1>6. ASSUME NEW p \in Proc, Resume(p) PROVE Condemned(r)'
  BY <1>6 DEF Resume, AfterResume, Step, Goto, disk, request, SnapInv, TypeOK, Condemned
<1>7. ASSUME NEW p \in Proc, ResumeFail(p) PROVE Condemned(r)'
  BY <1>7 DEF ResumeFail, AfterResume, Step, Goto, Fault, FaultKinds, disk, request, SnapInv,
    TypeOK, Condemned
<1>8. ASSUME NEW p \in Proc, MakeDir(p) PROVE Condemned(r)'
  BY <1>8 DEF MakeDir, Step, Goto, disk, request, SnapInv, TypeOK, Condemned
<1>9. ASSUME NEW p \in Proc, MoveState(p) PROVE Condemned(r)'
  BY <1>9 DEF MoveState, Move, Step, Goto, disk, request, SnapInv, TypeOK, Condemned
<1>10. ASSUME NEW p \in Proc, MoveMemory(p) PROVE Condemned(r)'
  BY <1>10 DEF MoveMemory, Move, Step, Goto, disk, request, SnapInv, TypeOK, Condemned
<1>11. ASSUME NEW p \in Proc, MoveFail(p) PROVE Condemned(r)'
  BY <1>11 DEF MoveFail, Goto, Fault, FaultKinds, disk, request, SnapInv, TypeOK, Condemned
<1>12. ASSUME NEW p \in Proc, Stamp(p) PROVE Condemned(r)'
  BY <1>12 DEF Stamp, Step, Goto, disk, request, SnapInv, TypeOK, Condemned
<1>13. ASSUME NEW p \in Proc, SaveMetadata(p) PROVE Condemned(r)'
  BY <1>13 DEF SaveMetadata, Step, Goto, disk, request, SnapInv, TypeOK, Condemned
<1>14. ASSUME NEW p \in Proc, EnforceMaxSnapshots(p) PROVE Condemned(r)'
  BY <1>14, ExcessIsSuperseded DEF EnforceMaxSnapshots, Step, Goto, disk, request, SnapInv, TypeOK,
    Condemned
<1>15. ASSUME NEW p \in Proc, NEW s \in Proc, DeleteSnapshot(p, s) PROVE Condemned(r)'
  BY <1>15 DEF DeleteSnapshot, Begin, Goto, disk, request, SnapInv, TypeOK, Condemned
<1>16. ASSUME NEW p \in Proc, CleanupBegin(p) PROVE Condemned(r)'
  BY <1>16 DEF CleanupBegin, Begin, Goto, Listed, disk, request, SnapInv, TypeOK, Condemned
<1>17. ASSUME NEW p \in Proc, RemoveFile(p) PROVE Condemned(r)'
  BY <1>17 DEF RemoveFile, Removing, NextVictim, disk, request, SnapInv, TypeOK, Condemned
<1>18. ASSUME NEW p \in Proc, RemoveDir(p) PROVE Condemned(r)'
  BY <1>18 DEF RemoveDir, Removing, NextVictim, disk, request, SnapInv, TypeOK, Condemned
<1>19. ASSUME NEW p \in Proc, RemoveFail(p) PROVE Condemned(r)'
  BY <1>19 DEF RemoveFail, Removing, NextVictim, Fault, FaultKinds, disk, request, SnapInv,
    TypeOK, Condemned
<1>20. ASSUME NEW p \in Proc, RemoveDone(p) PROVE Condemned(r)'
  BY <1>20 DEF RemoveDone, Goto, disk, request, SnapInv, TypeOK, Condemned
<1>21. ASSUME NEW p \in Proc, NEW s \in Proc, RestoreBegin(p, s) PROVE Condemned(r)'
  BY <1>21 DEF RestoreBegin, Begin, Goto, disk, request, SnapInv, TypeOK, Condemned
<1>22. ASSUME NEW p \in Proc, Check(p) PROVE Condemned(r)'
  BY <1>22 DEF Check, Step, Goto, disk, request, SnapInv, TypeOK, Condemned
<1>23. ASSUME NEW p \in Proc, Spawn(p) PROVE Condemned(r)'
  BY <1>23 DEF Spawn, Step, Goto, disk, request, SnapInv, TypeOK, Condemned
<1>24. ASSUME NEW p \in Proc, Load(p) PROVE Condemned(r)'
  BY <1>24 DEF Load, Step, Goto, disk, request, SnapInv, TypeOK, Condemned
<1>25. ASSUME NEW p \in Proc, InstanceStart(p) PROVE Condemned(r)'
  BY <1>25 DEF InstanceStart, Step, Goto, disk, request, SnapInv, TypeOK, Condemned
<1>26. ASSUME NEW p \in Proc, RestoreFail(p) PROVE Condemned(r)'
  BY <1>26 DEF RestoreFail, Goto, disk, request, SnapInv, TypeOK, Condemned
<1>27. ASSUME NEW p \in Proc, Crash(p) PROVE Condemned(r)'
  BY <1>27 DEF Crash, Goto, Fault, FaultKinds, disk, request, SnapInv, TypeOK, Condemned
<1>28. ASSUME NEW s \in Proc, Expire(s) PROVE Condemned(r)'
  BY <1>28 DEF Expire, disk, request, SnapInv, TypeOK, Condemned
<1>29. ASSUME NEW p \in Proc, ListFail(p) PROVE Condemned(r)'
  BY <1>29 DEF ListFail, Step, Goto, Fault, FaultKinds, disk, request, SnapInv, TypeOK, Condemned
<1> QED BY <1>1, <1>2, <1>3, <1>4, <1>5, <1>6, <1>7, <1>8, <1>9, <1>10, <1>11, <1>12, <1>13,
    <1>14, <1>15, <1>16, <1>17, <1>18, <1>19, <1>20, <1>21, <1>22, <1>23, <1>24, <1>25,
    <1>26, <1>27, <1>28, <1>29 DEF Next, Create, Remove, Restore

\* What the limit has removed was superseded.
LEMMA PrunedStep ==
  ASSUME SnapInv, TypeOK',
         \A x \in Proc : Superseded(x) => Superseded(x)', Next
  PROVE  \A x \in pruned' : Superseded(x)'
<1>1. ASSUME NEW p \in Proc, NEW v \in VM, CreateBegin(p, v) PROVE \A x \in pruned' : Superseded(x)'
  BY <1>1 DEF CreateBegin, Begin, Goto, disk, SnapInv, TypeOK, Condemned
<1>2. ASSUME NEW p \in Proc, Pause(p) PROVE \A x \in pruned' : Superseded(x)'
  BY <1>2 DEF Pause, Step, Goto, disk, request, SnapInv, TypeOK, Condemned
<1>3. ASSUME NEW p \in Proc, PauseFail(p) PROVE \A x \in pruned' : Superseded(x)'
  BY <1>3 DEF PauseFail, Step, Goto, Fault, FaultKinds, disk, request, SnapInv, TypeOK,
    Condemned
<1>4. ASSUME NEW p \in Proc, Take(p) PROVE \A x \in pruned' : Superseded(x)'
  BY <1>4 DEF Take, Step, Goto, disk, request, SnapInv, TypeOK, Condemned
<1>5. ASSUME NEW p \in Proc, TakeFail(p) PROVE \A x \in pruned' : Superseded(x)'
  BY <1>5 DEF TakeFail, Step, Goto, Fault, FaultKinds, disk, request, SnapInv, TypeOK,
    Condemned
<1>6. ASSUME NEW p \in Proc, Resume(p) PROVE \A x \in pruned' : Superseded(x)'
  BY <1>6 DEF Resume, AfterResume, Step, Goto, disk, request, SnapInv, TypeOK, Condemned
<1>7. ASSUME NEW p \in Proc, ResumeFail(p) PROVE \A x \in pruned' : Superseded(x)'
  BY <1>7 DEF ResumeFail, AfterResume, Step, Goto, Fault, FaultKinds, disk, request, SnapInv,
    TypeOK, Condemned
<1>8. ASSUME NEW p \in Proc, MakeDir(p) PROVE \A x \in pruned' : Superseded(x)'
  BY <1>8 DEF MakeDir, Step, Goto, disk, request, SnapInv, TypeOK, Condemned
<1>9. ASSUME NEW p \in Proc, MoveState(p) PROVE \A x \in pruned' : Superseded(x)'
  BY <1>9 DEF MoveState, Move, Step, Goto, disk, request, SnapInv, TypeOK, Condemned
<1>10. ASSUME NEW p \in Proc, MoveMemory(p) PROVE \A x \in pruned' : Superseded(x)'
  BY <1>10 DEF MoveMemory, Move, Step, Goto, disk, request, SnapInv, TypeOK, Condemned
<1>11. ASSUME NEW p \in Proc, MoveFail(p) PROVE \A x \in pruned' : Superseded(x)'
  BY <1>11 DEF MoveFail, Goto, Fault, FaultKinds, disk, request, SnapInv, TypeOK, Condemned
<1>12. ASSUME NEW p \in Proc, Stamp(p) PROVE \A x \in pruned' : Superseded(x)'
  BY <1>12 DEF Stamp, Step, Goto, disk, request, SnapInv, TypeOK, Condemned
<1>13. ASSUME NEW p \in Proc, SaveMetadata(p) PROVE \A x \in pruned' : Superseded(x)'
  BY <1>13 DEF SaveMetadata, Step, Goto, disk, request, SnapInv, TypeOK, Condemned
<1>14. ASSUME NEW p \in Proc, EnforceMaxSnapshots(p) PROVE \A x \in pruned' : Superseded(x)'
  BY <1>14 DEF EnforceMaxSnapshots, Step, Goto, Excess, ListedOf, Listed, disk, request,
    SnapInv, TypeOK, Condemned
<1>15. ASSUME NEW p \in Proc, NEW s \in Proc, DeleteSnapshot(p, s) PROVE \A x \in pruned' : Superseded(x)'
  BY <1>15 DEF DeleteSnapshot, Begin, Goto, disk, request, SnapInv, TypeOK, Condemned
<1>16. ASSUME NEW p \in Proc, CleanupBegin(p) PROVE \A x \in pruned' : Superseded(x)'
  BY <1>16 DEF CleanupBegin, Begin, Goto, Listed, disk, request, SnapInv, TypeOK, Condemned
<1>17. ASSUME NEW p \in Proc, RemoveFile(p) PROVE \A x \in pruned' : Superseded(x)'
  BY <1>17 DEF RemoveFile, Removing, NextVictim, disk, request, SnapInv, TypeOK, Condemned
<1>18. ASSUME NEW p \in Proc, RemoveDir(p) PROVE \A x \in pruned' : Superseded(x)'
  BY <1>18 DEF RemoveDir, Removing, NextVictim, disk, request, SnapInv, TypeOK, Condemned
<1>19. ASSUME NEW p \in Proc, RemoveFail(p) PROVE \A x \in pruned' : Superseded(x)'
  BY <1>19 DEF RemoveFail, Removing, NextVictim, Fault, FaultKinds, disk, request, SnapInv,
    TypeOK, Condemned
<1>20. ASSUME NEW p \in Proc, RemoveDone(p) PROVE \A x \in pruned' : Superseded(x)'
  BY <1>20 DEF RemoveDone, Goto, disk, request, SnapInv, TypeOK, Condemned
<1>21. ASSUME NEW p \in Proc, NEW s \in Proc, RestoreBegin(p, s) PROVE \A x \in pruned' : Superseded(x)'
  BY <1>21 DEF RestoreBegin, Begin, Goto, disk, request, SnapInv, TypeOK, Condemned
<1>22. ASSUME NEW p \in Proc, Check(p) PROVE \A x \in pruned' : Superseded(x)'
  BY <1>22 DEF Check, Step, Goto, disk, request, SnapInv, TypeOK, Condemned
<1>23. ASSUME NEW p \in Proc, Spawn(p) PROVE \A x \in pruned' : Superseded(x)'
  BY <1>23 DEF Spawn, Step, Goto, disk, request, SnapInv, TypeOK, Condemned
<1>24. ASSUME NEW p \in Proc, Load(p) PROVE \A x \in pruned' : Superseded(x)'
  BY <1>24 DEF Load, Step, Goto, disk, request, SnapInv, TypeOK, Condemned
<1>25. ASSUME NEW p \in Proc, InstanceStart(p) PROVE \A x \in pruned' : Superseded(x)'
  BY <1>25 DEF InstanceStart, Step, Goto, disk, request, SnapInv, TypeOK, Condemned
<1>26. ASSUME NEW p \in Proc, RestoreFail(p) PROVE \A x \in pruned' : Superseded(x)'
  BY <1>26 DEF RestoreFail, Goto, disk, request, SnapInv, TypeOK, Condemned
<1>27. ASSUME NEW p \in Proc, Crash(p) PROVE \A x \in pruned' : Superseded(x)'
  BY <1>27 DEF Crash, Goto, Fault, FaultKinds, disk, request, SnapInv, TypeOK, Condemned
<1>28. ASSUME NEW s \in Proc, Expire(s) PROVE \A x \in pruned' : Superseded(x)'
  BY <1>28 DEF Expire, disk, request, SnapInv, TypeOK, Condemned
<1>29. ASSUME NEW p \in Proc, ListFail(p) PROVE \A x \in pruned' : Superseded(x)'
  BY <1>29 DEF ListFail, Step, Goto, Fault, FaultKinds, disk, request, SnapInv, TypeOK, Condemned
<1> QED BY <1>1, <1>2, <1>3, <1>4, <1>5, <1>6, <1>7, <1>8, <1>9, <1>10, <1>11, <1>12, <1>13,
    <1>14, <1>15, <1>16, <1>17, <1>18, <1>19, <1>20, <1>21, <1>22, <1>23, <1>24, <1>25,
    <1>26, <1>27, <1>28, <1>29 DEF Next, Create, Remove, Restore

\* A non-empty set of numbers has a least one.
LEMMA LeastNumber ==
  ASSUME NEW T, T \subseteq Nat, T # {}
  PROVE  \E x \in T : \A y \in T : x <= y
<1> DEFINE R == {ss \in Nat \X Nat : ss[1] < ss[2]}
<1>1. IsWellFoundedOn(R, Nat)
  BY NatLessThanWellFounded, Zenon DEF OpToRel
<1> HIDE DEF R
<1>2. PICK x \in T : \A y \in T : ~(<<y, x>> \in R)
  BY <1>1, WFMin
<1>3. \A y \in T : ~(y < x)
  BY <1>2 DEF R
<1> QED BY <1>3

\* No more than Limit snapshots have fewer than Limit newer ones: all but the oldest
\* of them are newer than that one.
LEMMA NewestAreFew ==
  ASSUME TypeOK, Timed, NEW S, S \subseteq Proc, \A s \in S : created[s] # 0
  PROVE  Cardinality({s \in S : ~(Cardinality(Newer(s, S)) >= Limit)}) <= Limit
<1> DEFINE K == {s \in S : ~(Cardinality(Newer(s, S)) >= Limit)}
<1>1. IsFiniteSet(K)
  BY SnapshotAssumptions, FS_Subset
<1>2. CASE K = {}
  BY <1>2, FS_EmptySet, LimitIsNat
<1>3. CASE K # {}
  <2> DEFINE T == {created[s] : s \in K}
  <2>1. T \subseteq Nat /\ T # {}
    BY <1>3 DEF TypeOK
  <2>2. PICK m \in T : \A y \in T : m <= y
    <3> HIDE DEF T
    <3> QED BY <2>1, LeastNumber
  <2>3. PICK o \in K : m = created[o]
    OBVIOUS
  <2>4. ASSUME NEW s \in K \ {o} PROVE s \in Newer(o, S)
    <3>1. created[o] <= created[s] /\ created[s] # created[o]
      BY <2>2, <2>3, <2>4 DEF Timed
    <3>2. created[o] \in Nat /\ created[s] \in Nat
      BY <2>3, <2>4 DEF TypeOK
    <3>3. created[s] > created[o]
      BY <3>1, <3>2
    <3> QED BY <2>4, <3>3 DEF Newer
  <2> DEFINE N == Newer(o, S)
  <2>5. IsFiniteSet(N)
    <3>1. N \subseteq Proc
      BY DEF Newer
    <3> QED BY <3>1, SnapshotAssumptions, FS_Subset
  <2>6. Cardinality(N) \in Nat /\ ~(Cardinality(N) >= Limit)
    BY <2>5, <2>3, FS_CardinalityType
  <2> HIDE DEF K, N
  <2>7. Cardinality(K \ {o}) <= Cardinality(N)
    BY <2>4, <2>5, FS_Subset DEF N
  <2>8. Cardinality(K \ {o}) = Cardinality(K) - 1 /\ Cardinality(K) \in Nat
    BY <1>1, <2>3, FS_RemoveElement, FS_CardinalityType
  <2> QED BY <2>6, <2>7, <2>8, LimitIsNat DEF K
<1> QED BY <1>2, <1>3

\* The step leaves no more snapshots of the service, or another create to see to it.
Fewer(service) ==
  faults'["crash"] = 0 /\ faults'["list"] = 0 /\ ToEnforce(service)' = {}
    => faults["crash"] = 0 /\ faults["list"] = 0 /\ ToEnforce(service) = {} /\ Remaining(service)' \subseteq Remaining(service)

LEMMA FewerIsLimited ==
  ASSUME TypeOK, NEW service, Limited(service), Fewer(service)
  PROVE  Limited(service)'
<1> DEFINE A == Remaining(service)
           B == Remaining(service)'
<1>1. IsFiniteSet(A)
  <2>1. A \subseteq Proc
    BY DEF TypeOK, Remaining, ListedOf, Listed
  <2> QED BY <2>1, SnapshotAssumptions, FS_Subset
<1>2. CASE B \subseteq A /\ faults["crash"] = 0 /\ faults["list"] = 0 /\ ToEnforce(service) = {} /\ service # NoService
  <2>1. Cardinality(A) <= Limit
    BY <1>2 DEF Limited
  <2>2. Cardinality(B) <= Cardinality(A) /\ Cardinality(A) \in Nat /\ Cardinality(B) \in Nat
    <3> HIDE DEF A, B
    <3> QED BY <1>1, <1>2, FS_Subset, FS_CardinalityType
  <2> QED BY <2>1, <2>2, LimitIsNat DEF Limited
<1>3. CASE ~(B \subseteq A /\ faults["crash"] = 0 /\ faults["list"] = 0 /\ ToEnforce(service) = {} /\ service # NoService)
  BY <1>3 DEF Fewer, Limited
<1> QED BY <1>2, <1>3

\* The create that enforces the limit condemns all but the newest.
LEMMA EnforcedIsLimited ==
  ASSUME SnapInv, TypeOK', NEW p \in Proc, EnforceMaxSnapshots(p)
  PROVE  Limited(OfService(p))'
<1> DEFINE sv == OfService(p)
           S == ListedOf(sv)
           K == {s \in S : ~(Cardinality(Newer(s, S)) >= Limit)}
           B == Remaining(sv)'
<1>1. S \subseteq Proc /\ \A s \in S : created[s] # 0
  BY DEF SnapInv, TypeOK, ListedOf, Listed, Stamped
<1>2. Cardinality(K) <= Limit
  <2> HIDE DEF S
  <2> QED BY <1>1, NewestAreFew DEF SnapInv
<1>3. cmd' = cmd /\ task' = task /\ pc' = [pc EXCEPT ![p] = "remove"] /\ dir' = dir
      /\ files' = files /\ cmd[p] = "create" /\ todo' = [todo EXCEPT ![p] = Excess(sv)]
  BY DEF EnforceMaxSnapshots, Step, Goto, disk, request
<1>4. pc'[p] = "remove" /\ todo'[p] = Excess(sv)
  BY <1>3 DEF SnapInv, TypeOK
<1>5. Excess(sv) \subseteq Doomed(sv)'
  BY <1>3, <1>4 DEF Doomed, OfService
<1>6. ListedOf(sv)' = S
  BY <1>3 DEF ListedOf, Listed, OfService
<1>7. B \subseteq K
  BY <1>5, <1>6 DEF Remaining, Excess
<1>8. IsFiniteSet(K)
  BY <1>1, SnapshotAssumptions, FS_Subset
<1>9. Cardinality(B) <= Cardinality(K) /\ Cardinality(K) \in Nat /\ Cardinality(B) \in Nat
  <2> HIDE DEF K, B
  <2> QED BY <1>7, <1>8, FS_Subset, FS_CardinalityType
<1>10. Cardinality(B) <= Limit
  <2> HIDE DEF K, B
  <2> QED BY <1>2, <1>9, LimitIsNat
<1>11. OfService(p)' = sv
  BY <1>3 DEF OfService
<1> QED BY <1>10, <1>11 DEF Limited

\* Times are distinct, and the clock is ahead of them.
LEMMA TimedStep ==
  ASSUME SnapInv, TypeOK', Next
  PROVE  Timed'
<1>1. ASSUME NEW p \in Proc, NEW v \in VM, CreateBegin(p, v) PROVE Timed'
  BY <1>1 DEF CreateBegin, Begin, Goto, disk, SnapInv, TypeOK, Timed
<1>2. ASSUME NEW p \in Proc, Pause(p) PROVE Timed'
  BY <1>2 DEF Pause, Step, Goto, disk, request, SnapInv, TypeOK, Timed
<1>3. ASSUME NEW p \in Proc, PauseFail(p) PROVE Timed'
  BY <1>3 DEF PauseFail, Step, Goto, Fault, FaultKinds, disk, request, SnapInv, TypeOK, Timed
<1>4. ASSUME NEW p \in Proc, Take(p) PROVE Timed'
  BY <1>4 DEF Take, Step, Goto, disk, request, SnapInv, TypeOK, Timed
<1>5. ASSUME NEW p \in Proc, TakeFail(p) PROVE Timed'
  BY <1>5 DEF TakeFail, Step, Goto, Fault, FaultKinds, disk, request, SnapInv, TypeOK, Timed
<1>6. ASSUME NEW p \in Proc, Resume(p) PROVE Timed'
  BY <1>6 DEF Resume, AfterResume, Step, Goto, disk, request, SnapInv, TypeOK, Timed
<1>7. ASSUME NEW p \in Proc, ResumeFail(p) PROVE Timed'
  BY <1>7 DEF ResumeFail, AfterResume, Step, Goto, Fault, FaultKinds, disk, request, SnapInv,
    TypeOK, Timed
<1>8. ASSUME NEW p \in Proc, MakeDir(p) PROVE Timed'
  BY <1>8 DEF MakeDir, Step, Goto, disk, request, SnapInv, TypeOK, Timed
<1>9. ASSUME NEW p \in Proc, MoveState(p) PROVE Timed'
  BY <1>9 DEF MoveState, Move, Step, Goto, disk, request, SnapInv, TypeOK, Timed
<1>10. ASSUME NEW p \in Proc, MoveMemory(p) PROVE Timed'
  BY <1>10 DEF MoveMemory, Move, Step, Goto, disk, request, SnapInv, TypeOK, Timed
<1>11. ASSUME NEW p \in Proc, MoveFail(p) PROVE Timed'
  BY <1>11 DEF MoveFail, Goto, Fault, FaultKinds, disk, request, SnapInv, TypeOK, Timed
<1>12. ASSUME NEW p \in Proc, Stamp(p) PROVE Timed'
  BY <1>12 DEF Stamp, Step, Goto, disk, request, SnapInv, TypeOK, Timed
<1>13. ASSUME NEW p \in Proc, SaveMetadata(p) PROVE Timed'
  BY <1>13 DEF SaveMetadata, Step, Goto, disk, request, SnapInv, TypeOK, Timed
<1>14. ASSUME NEW p \in Proc, EnforceMaxSnapshots(p) PROVE Timed'
  BY <1>14 DEF EnforceMaxSnapshots, Step, Goto, Excess, ListedOf, Listed, disk, request,
    SnapInv, TypeOK, Timed
<1>15. ASSUME NEW p \in Proc, NEW s \in Proc, DeleteSnapshot(p, s) PROVE Timed'
  BY <1>15 DEF DeleteSnapshot, Begin, Goto, disk, request, SnapInv, TypeOK, Timed
<1>16. ASSUME NEW p \in Proc, CleanupBegin(p) PROVE Timed'
  BY <1>16 DEF CleanupBegin, Begin, Goto, Listed, disk, request, SnapInv, TypeOK, Timed
<1>17. ASSUME NEW p \in Proc, RemoveFile(p) PROVE Timed'
  BY <1>17 DEF RemoveFile, Removing, NextVictim, disk, request, SnapInv, TypeOK, Timed
<1>18. ASSUME NEW p \in Proc, RemoveDir(p) PROVE Timed'
  BY <1>18 DEF RemoveDir, Removing, NextVictim, disk, request, SnapInv, TypeOK, Timed
<1>19. ASSUME NEW p \in Proc, RemoveFail(p) PROVE Timed'
  BY <1>19 DEF RemoveFail, Removing, NextVictim, Fault, FaultKinds, disk, request, SnapInv,
    TypeOK, Timed
<1>20. ASSUME NEW p \in Proc, RemoveDone(p) PROVE Timed'
  BY <1>20 DEF RemoveDone, Goto, disk, request, SnapInv, TypeOK, Timed
<1>21. ASSUME NEW p \in Proc, NEW s \in Proc, RestoreBegin(p, s) PROVE Timed'
  BY <1>21 DEF RestoreBegin, Begin, Goto, disk, request, SnapInv, TypeOK, Timed
<1>22. ASSUME NEW p \in Proc, Check(p) PROVE Timed'
  BY <1>22 DEF Check, Step, Goto, disk, request, SnapInv, TypeOK, Timed
<1>23. ASSUME NEW p \in Proc, Spawn(p) PROVE Timed'
  BY <1>23 DEF Spawn, Step, Goto, disk, request, SnapInv, TypeOK, Timed
<1>24. ASSUME NEW p \in Proc, Load(p) PROVE Timed'
  BY <1>24 DEF Load, Step, Goto, disk, request, SnapInv, TypeOK, Timed
<1>25. ASSUME NEW p \in Proc, InstanceStart(p) PROVE Timed'
  BY <1>25 DEF InstanceStart, Step, Goto, disk, request, SnapInv, TypeOK, Timed
<1>26. ASSUME NEW p \in Proc, RestoreFail(p) PROVE Timed'
  BY <1>26 DEF RestoreFail, Goto, disk, request, SnapInv, TypeOK, Timed
<1>27. ASSUME NEW p \in Proc, Crash(p) PROVE Timed'
  BY <1>27 DEF Crash, Goto, Fault, FaultKinds, disk, request, SnapInv, TypeOK, Timed
<1>28. ASSUME NEW s \in Proc, Expire(s) PROVE Timed'
  BY <1>28 DEF Expire, disk, request, SnapInv, TypeOK, Timed
<1>29. ASSUME NEW p \in Proc, ListFail(p) PROVE Timed'
  BY <1>29 DEF ListFail, Step, Goto, Fault, FaultKinds, disk, request, SnapInv, TypeOK, Timed
<1> QED BY <1>1, <1>2, <1>3, <1>4, <1>5, <1>6, <1>7, <1>8, <1>9, <1>10, <1>11, <1>12, <1>13,
    <1>14, <1>15, <1>16, <1>17, <1>18, <1>19, <1>20, <1>21, <1>22, <1>23, <1>24, <1>25,
    <1>26, <1>27, <1>28, <1>29 DEF Next, Create, Remove, Restore

\* Only the step that enforces the limit decides what is too much.
LEMMA FewerStep ==
  ASSUME SnapInv, TypeOK', NEW sv,
         \A p \in Proc : EnforceMaxSnapshots(p) => sv # OfService(p), sv # NoService, Next
  PROVE  Fewer(sv)
<1>1. ASSUME NEW p \in Proc, NEW v \in VM, CreateBegin(p, v) PROVE Fewer(sv)
  BY <1>1 DEF CreateBegin, Begin, Goto, disk, SnapInv, TypeOK, Fewer, ToEnforce, Remaining,
    Doomed, ListedOf, Listed, OfService, Stamped, Early, FaultKinds
<1>2. ASSUME NEW p \in Proc, Pause(p) PROVE Fewer(sv)
  BY <1>2 DEF Pause, Step, Goto, disk, request, SnapInv, TypeOK, Fewer, ToEnforce, Remaining,
    Doomed, ListedOf, Listed, OfService, Stamped, Early, FaultKinds
<1>3. ASSUME NEW p \in Proc, PauseFail(p) PROVE Fewer(sv)
  BY <1>3 DEF PauseFail, Step, Goto, Fault, FaultKinds, disk, request, SnapInv, TypeOK, Fewer,
    ToEnforce, Remaining, Doomed, ListedOf, Listed, OfService, Stamped, Early
<1>4. ASSUME NEW p \in Proc, Take(p) PROVE Fewer(sv)
  BY <1>4 DEF Take, Step, Goto, disk, request, SnapInv, TypeOK, Fewer, ToEnforce, Remaining,
    Doomed, ListedOf, Listed, OfService, Stamped, Early, FaultKinds
<1>5. ASSUME NEW p \in Proc, TakeFail(p) PROVE Fewer(sv)
  BY <1>5 DEF TakeFail, Step, Goto, Fault, FaultKinds, disk, request, SnapInv, TypeOK, Fewer,
    ToEnforce, Remaining, Doomed, ListedOf, Listed, OfService, Stamped, Early
<1>6. ASSUME NEW p \in Proc, Resume(p) PROVE Fewer(sv)
  BY <1>6 DEF Resume, AfterResume, Step, Goto, disk, request, SnapInv, TypeOK, Fewer,
    ToEnforce, Remaining, Doomed, ListedOf, Listed, OfService, Stamped, Early, FaultKinds
<1>7. ASSUME NEW p \in Proc, ResumeFail(p) PROVE Fewer(sv)
  BY <1>7 DEF ResumeFail, AfterResume, Step, Goto, Fault, FaultKinds, disk, request, SnapInv,
    TypeOK, Fewer, ToEnforce, Remaining, Doomed, ListedOf, Listed, OfService, Stamped, Early
<1>8. ASSUME NEW p \in Proc, MakeDir(p) PROVE Fewer(sv)
  BY <1>8 DEF MakeDir, Step, Goto, disk, request, SnapInv, TypeOK, Fewer, ToEnforce,
    Remaining, Doomed, ListedOf, Listed, OfService, Stamped, Early, FaultKinds
<1>9. ASSUME NEW p \in Proc, MoveState(p) PROVE Fewer(sv)
  BY <1>9 DEF MoveState, Move, Step, Goto, disk, request, SnapInv, TypeOK, Fewer, ToEnforce,
    Remaining, Doomed, ListedOf, Listed, OfService, Stamped, Early, FaultKinds
<1>10. ASSUME NEW p \in Proc, MoveMemory(p) PROVE Fewer(sv)
  BY <1>10 DEF MoveMemory, Move, Step, Goto, disk, request, SnapInv, TypeOK, Fewer, ToEnforce,
    Remaining, Doomed, ListedOf, Listed, OfService, Stamped, Early, FaultKinds
<1>11. ASSUME NEW p \in Proc, MoveFail(p) PROVE Fewer(sv)
  BY <1>11 DEF MoveFail, Goto, Fault, FaultKinds, disk, request, SnapInv, TypeOK, Fewer,
    ToEnforce, Remaining, Doomed, ListedOf, Listed, OfService, Stamped, Early
<1>12. ASSUME NEW p \in Proc, Stamp(p) PROVE Fewer(sv)
  BY <1>12 DEF Stamp, Step, Goto, disk, request, SnapInv, TypeOK, Fewer, ToEnforce, Remaining,
    Doomed, ListedOf, Listed, OfService, Stamped, Early, FaultKinds
<1>13. ASSUME NEW p \in Proc, SaveMetadata(p) PROVE Fewer(sv)
  BY <1>13 DEF SaveMetadata, Step, Goto, disk, request, SnapInv, TypeOK, Fewer, ToEnforce,
    Remaining, Doomed, ListedOf, Listed, OfService, Stamped, Early, FaultKinds
<1>14. ASSUME NEW p \in Proc, EnforceMaxSnapshots(p) PROVE Fewer(sv)
  <2>1. sv # OfService(p)
    BY <1>14
  <2>2. dir' = dir /\ files' = files /\ task' = task /\ cmd' = cmd /\ stuck' = stuck /\ faults' = faults
        /\ pc' = [pc EXCEPT ![p] = "remove"] /\ (\A q \in Proc \ {p} : todo'[q] = todo[q])
    BY <1>14 DEF EnforceMaxSnapshots, Step, Goto, disk, request, SnapInv, TypeOK
  <2>3. ToEnforce(sv)' = ToEnforce(sv)
    BY <2>1, <2>2 DEF SnapInv, TypeOK, ToEnforce, OfService
  <2>4. ListedOf(sv)' = ListedOf(sv)
    BY <2>2 DEF ListedOf, Listed, OfService
  <2>5. Doomed(sv) \subseteq Doomed(sv)'
    BY <2>1, <2>2, SMTT(60) DEF SnapInv, TypeOK, Doomed, OfService
  <2> QED BY <2>2, <2>3, <2>4, <2>5 DEF Fewer, Remaining
<1>15. ASSUME NEW p \in Proc, NEW s \in Proc, DeleteSnapshot(p, s) PROVE Fewer(sv)
  BY <1>15 DEF DeleteSnapshot, Begin, Goto, disk, request, SnapInv, TypeOK, Fewer, ToEnforce,
    Remaining, Doomed, ListedOf, Listed, OfService, Stamped, Early, FaultKinds
<1>16. ASSUME NEW p \in Proc, CleanupBegin(p) PROVE Fewer(sv)
  BY <1>16, SMTT(60) DEF CleanupBegin, Begin, Goto, Listed, disk, request, SnapInv, TypeOK, Fewer,
    ToEnforce, Remaining, Doomed, ListedOf, OfService, Stamped, Early, FaultKinds
<1>17. ASSUME NEW p \in Proc, RemoveFile(p) PROVE Fewer(sv)
  BY <1>17 DEF RemoveFile, Removing, NextVictim, disk, request, SnapInv, TypeOK, Fewer,
    ToEnforce, Remaining, Doomed, ListedOf, Listed, OfService, Stamped, Early, FaultKinds
<1>18. ASSUME NEW p \in Proc, RemoveDir(p) PROVE Fewer(sv)
  BY <1>18 DEF RemoveDir, Removing, NextVictim, disk, request, SnapInv, TypeOK, Fewer,
    ToEnforce, Remaining, Doomed, ListedOf, Listed, OfService, Stamped, Early, FaultKinds
<1>19. ASSUME NEW p \in Proc, RemoveFail(p) PROVE Fewer(sv)
  BY <1>19 DEF RemoveFail, Removing, NextVictim, Fault, FaultKinds, disk, request, SnapInv,
    TypeOK, Fewer, ToEnforce, Remaining, Doomed, ListedOf, Listed, OfService, Stamped, Early
<1>20. ASSUME NEW p \in Proc, RemoveDone(p) PROVE Fewer(sv)
  BY <1>20 DEF RemoveDone, Goto, disk, request, SnapInv, TypeOK, Fewer, ToEnforce, Remaining,
    Doomed, ListedOf, Listed, OfService, Stamped, Early, FaultKinds
<1>21. ASSUME NEW p \in Proc, NEW s \in Proc, RestoreBegin(p, s) PROVE Fewer(sv)
  BY <1>21 DEF RestoreBegin, Begin, Goto, disk, request, SnapInv, TypeOK, Fewer, ToEnforce,
    Remaining, Doomed, ListedOf, Listed, OfService, Stamped, Early, FaultKinds
<1>22. ASSUME NEW p \in Proc, Check(p) PROVE Fewer(sv)
  BY <1>22 DEF Check, Step, Goto, disk, request, SnapInv, TypeOK, Fewer, ToEnforce, Remaining,
    Doomed, ListedOf, Listed, OfService, Stamped, Early, FaultKinds
<1>23. ASSUME NEW p \in Proc, Spawn(p) PROVE Fewer(sv)
  BY <1>23 DEF Spawn, Step, Goto, disk, request, SnapInv, TypeOK, Fewer, ToEnforce, Remaining,
    Doomed, ListedOf, Listed, OfService, Stamped, Early, FaultKinds
<1>24. ASSUME NEW p \in Proc, Load(p) PROVE Fewer(sv)
  BY <1>24 DEF Load, Step, Goto, disk, request, SnapInv, TypeOK, Fewer, ToEnforce, Remaining,
    Doomed, ListedOf, Listed, OfService, Stamped, Early, FaultKinds
<1>25. ASSUME NEW p \in Proc, InstanceStart(p) PROVE Fewer(sv)
  BY <1>25 DEF InstanceStart, Step, Goto, disk, request, SnapInv, TypeOK, Fewer, ToEnforce,
    Remaining, Doomed, ListedOf, Listed, OfService, Stamped, Early, FaultKinds
<1>26. ASSUME NEW p \in Proc, RestoreFail(p) PROVE Fewer(sv)
  BY <1>26 DEF RestoreFail, Goto, disk, request, SnapInv, TypeOK, Fewer, ToEnforce, Remaining,
    Doomed, ListedOf, Listed, OfService, Stamped, Early, FaultKinds
<1>27. ASSUME NEW p \in Proc, Crash(p) PROVE Fewer(sv)
  BY <1>27 DEF Crash, Goto, Fault, FaultKinds, disk, request, SnapInv, TypeOK, Fewer,
    ToEnforce, Remaining, Doomed, ListedOf, Listed, OfService, Stamped, Early
<1>28. ASSUME NEW s \in Proc, Expire(s) PROVE Fewer(sv)
  BY <1>28 DEF Expire, disk, request, SnapInv, TypeOK, Fewer, ToEnforce, Remaining, Doomed,
    ListedOf, Listed, OfService, Stamped, Early, FaultKinds
<1>29. ASSUME NEW p \in Proc, ListFail(p) PROVE Fewer(sv)
  BY <1>29 DEF ListFail, Step, Goto, Fault, FaultKinds, disk, request, SnapInv, TypeOK, Fewer,
    ToEnforce, Remaining, Doomed, ListedOf, Listed, OfService, Stamped, Early
<1> QED BY <1>1, <1>2, <1>3, <1>4, <1>5, <1>6, <1>7, <1>8, <1>9, <1>10, <1>11, <1>12, <1>13,
    <1>14, <1>15, <1>16, <1>17, <1>18, <1>19, <1>20, <1>21, <1>22, <1>23, <1>24, <1>25,
    <1>26, <1>27, <1>28, <1>29 DEF Next, Create, Remove, Restore

LEMMA SnapInvNext == SnapInv /\ [Next]_vars => SnapInv'
<1>1. ASSUME SnapInv, Next PROVE SnapInv'
  <2>1. TypeOK'
    BY <1>1, TypeStep
  <2>2. \A x \in Proc : created[x] # 0 => created'[x] = created[x] /\ task'[x] = task[x]
    BY <1>1, TimesStay
  <2>3. \A x \in Proc : Superseded(x) => Superseded(x)'
    BY <1>1, <2>1, <2>2, SupersededStays DEF SnapInv
  <2>4. \A r \in Proc : Condemned(r)'
    BY <1>1, <2>1, <2>3, CondemnedStep
  <2>5. \A s \in pruned' : Superseded(s)'
    BY <1>1, <2>1, <2>3, PrunedStep
  <2>6. ASSUME NEW v \in VM PROVE Limited(ServiceOf[v])'
    <3> DEFINE sv == ServiceOf[v]
    <3>1. CASE sv = NoService
      BY <3>1 DEF Limited
    <3>2. CASE \E p \in Proc : EnforceMaxSnapshots(p) /\ sv = OfService(p)
      <4>1. PICK p \in Proc : EnforceMaxSnapshots(p) /\ sv = OfService(p)
        BY <3>2
      <4>2. OfService(p)' = OfService(p)
        BY <4>1 DEF EnforceMaxSnapshots, request, OfService
      <4>3. Limited(OfService(p))'
        BY <1>1, <2>1, <4>1, EnforcedIsLimited
      <4> QED BY <4>1, <4>2, <4>3 DEF Limited, ToEnforce, Remaining, ListedOf, Doomed
    <3>3. CASE sv # NoService /\ \A p \in Proc : EnforceMaxSnapshots(p) => sv # OfService(p)
      <4>1. Fewer(sv)
        <5> HIDE DEF sv
        <5> QED BY <1>1, <2>1, <3>3, FewerStep
      <4>2. Limited(sv) /\ TypeOK
        BY <1>1 DEF SnapInv
      <4> QED BY <4>1, <4>2, FewerIsLimited
    <3> QED BY <3>1, <3>2, <3>3
  <2>7. Timed' /\ NotLeftPaused' /\ (\A s \in Proc : Stamped(s)')
    BY <1>1, <2>1, TimedStep, PausedStep, StampedStep
  <2>8. (\A s \in Proc \ touched : Whole(s))' /\ (\A p \in alive : Restored(p))'
    BY <1>1, <2>1, WholeStep, RestoredStep
  <2> QED BY <2>1, <2>4, <2>5, <2>6, <2>7, <2>8 DEF SnapInv
<1>2. ASSUME SnapInv, UNCHANGED vars PROVE SnapInv'
  <2>1. TypeOK' /\ NotLeftPaused'
    BY <1>2 DEF SnapInv, TypeOK, NotLeftPaused, vars
  <2>2. \A s \in Proc : Superseded(s)' <=> Superseded(s)
    BY <1>2 DEF Superseded, After, Newer, OfService, vars
  <2>3. \A s \in Proc : Condemned(s)'
    BY <1>2, <2>2 DEF SnapInv, TypeOK, Condemned, vars
  <2>4. Timed'
    BY <1>2 DEF SnapInv, Timed, vars
  <2>5. ASSUME NEW v \in VM PROVE Limited(ServiceOf[v])'
    <3> DEFINE sv == ServiceOf[v]
    <3>1. ToEnforce(sv)' = ToEnforce(sv) /\ Remaining(sv)' = Remaining(sv) /\ faults' = faults
      BY <1>2 DEF ToEnforce, Remaining, Doomed, ListedOf, Listed, OfService, vars
    <3>2. Limited(sv)
      BY <1>2 DEF SnapInv
    <3> QED BY <3>1, <3>2 DEF Limited
  <2> QED BY <1>2, <2>1, <2>2, <2>3, <2>4, <2>5 DEF SnapInv, TypeOK, Whole, Stamped, Restored, vars
<1> QED BY <1>1, <1>2

\* The inductive invariant of the snapshot commands.
THEOREM SnapInvariant == Spec => []SnapInv
  BY SnapInvInit, SnapInvNext, PTL DEF Spec

\* A snapshot that is listed has both its files until its removal begins
\* (CreateSnapshot writes the metadata last), whatever fails or crashes.
THEOREM ListedSnapshotsWhole == Spec => []ListedIsWhole
<1>1. SnapInv => ListedIsWhole
  BY DEF SnapInv, TypeOK, ListedIsWhole, Listed, Whole
<1> QED BY <1>1, SnapInvariant, PTL

\* The limit removes only snapshots that are older than Limit others of their
\* service (enforceMaxSnapshots), for any number of overlapping commands.
THEOREM OnlyOldestPruned == Spec => []NewestKept
<1>1. SnapInv => NewestKept
  BY DEF SnapInv, NewestKept, Superseded, After
<1> QED BY <1>1, SnapInvariant, PTL

\* Once no create of a service is under way, no more than Limit of its snapshots are
\* listed but for those whose removal failed (enforceMaxSnapshots), however many
\* creates in other processes overlapped, as long as none of them was killed or failed to
\* list the snapshots.
THEOREM LimitIsKept == Spec => []LimitKept
<1>1. ASSUME SnapInv PROVE LimitKept
  <2> SUFFICES ASSUME faults["crash"] = 0, faults["list"] = 0, NEW v \in VM, ServiceOf[v] # NoService,
                      \A p \in Active : ~(cmd[p] = "create" /\ OfService(p) = ServiceOf[v])
               PROVE  Cardinality(ListedOf(ServiceOf[v]) \ stuck) <= Limit
    BY DEF LimitKept
  <2> DEFINE sv == ServiceOf[v]
  <2>1. \A p \in Proc : pc[p] \in {"list", "remove"} => p \in Active
    BY DEF Active, Finished
  <2>2. ToEnforce(sv) = {} /\ Doomed(sv) = {}
    BY <2>1 DEF ToEnforce, Doomed
  <2>3. Remaining(sv) = ListedOf(sv) \ stuck
    BY <2>2 DEF Remaining
  <2>4. Limited(sv)
    BY <1>1 DEF SnapInv
  <2> QED BY <2>2, <2>3, <2>4 DEF Limited
<1> QED BY <1>1, SnapInvariant, PTL

\* A VM is paused only between the pause and the resume of a create
\* (callSnapshotCreate), unless one of the two fails or the create is killed.
THEOREM PausedIsResumed == Spec => []NotLeftPaused
<1>1. SnapInv => NotLeftPaused
  BY DEF SnapInv
<1> QED BY <1>1, SnapInvariant, PTL

\* A restore that fails leaves no VM (RestoreFromSnapshot).
THEOREM NoVMAfterFailure == Spec => []FailedRestoreLeavesNoVM
<1>1. SnapInv => FailedRestoreLeavesNoVM
  BY DEF SnapInv, FailedRestoreLeavesNoVM, Restored
<1> QED BY <1>1, SnapInvariant, PTL

\* A step of a cleanup takes files of expired snapshots only
\* (CleanupOldSnapshots).
THEOREM YoungAreSpared == Spec => CleanupSparesYoung
<1>1. SnapInv /\ [Next]_vars
      => [\A p \in Proc : cmd[p] = "cleanup" /\ RemoveFile(p) =>
            \A s \in Proc \ expired : files'[s] = files[s]]_vars
  BY DEF SnapInv, TypeOK, Condemned, RemoveFile, NextVictim
<1> QED BY <1>1, SnapInvariant, PTL DEF Spec, CleanupSparesYoung

-----------------------------------------------------------------------------
\* The volume manager.

\* The operations of the others after a step of a that touches v.
OthersTouched(a, v) ==
  /\ op' = [b \in Actor |-> op'[b]]
  /\ \A b \in Actor \ {a} : op'[b] = IF op[b].vol = v THEN [op[b] EXCEPT !.calm = FALSE] ELSE op[b]

\* ... and after one that touches nothing.
OthersSame(a) ==
  /\ op' = [b \in Actor |-> op'[b]]
  /\ \A b \in Actor \ {a} : op'[b] = op[b]

\* ... and after one that writes to the root filesystem of image i.
OthersOnImage(a, i) ==
  /\ op' = [b \in Actor |-> op'[b]]
  /\ \A b \in Actor \ {a} :
       op'[b] = IF b \in Task /\ ImageOf[b] = i /\ op[b].do # "none"
                  THEN [op[b] EXCEPT !.calm = FALSE] ELSE op[b]

LEMMA NothingIsNoDirectory ==
  /\ None \notin Directory /\ None # Torn /\ None \notin Length
  /\ Empty \in Directory /\ None \in File /\ Torn \in File /\ Empty # None
<1>1. None # Torn /\ None \notin Nat /\ MaxLen \in Nat
  BY VolumeAssumptions, Zenon
<1>2. None \notin Directory
  BY VolumeAssumptions, Zenon DEF Directory, File, Length
<1>3. None \notin Length
  BY <1>1 DEF Length
<1>4. Empty \in Directory /\ None \in File /\ Torn \in File
  BY DEF Empty, Directory, File
<1> QED BY <1>1, <1>2, <1>3, <1>4

LEMMA IdleOperation ==
  /\ Idle \in Operation
  /\ Idle.do = "none" /\ Idle.at = "idle"
<1>1. Empty \in Directory
  BY NothingIsNoDirectory
<1> QED BY <1>1 DEF Idle, Operation, Owner

\* Touching a volume changes the others only.
LEMMA TouchedOthers ==
  ASSUME VolumeTypeOK, NEW a \in Actor, NEW v, NEW r, op' = Touched([op EXCEPT ![a] = r], a, v)
  PROVE  op'[a] = r /\ OthersTouched(a, v)
<1> DEFINE o == [op EXCEPT ![a] = r]
<1>1. o[a] = r /\ \A b \in Actor \ {a} : o[b] = op[b]
  BY DEF VolumeTypeOK
<1> HIDE DEF o
<1>2. op' = [b \in Actor |-> IF b # a /\ o[b].vol = v THEN [o[b] EXCEPT !.calm = FALSE] ELSE o[b]]
  BY DEF Touched, o
<1>3. op' = [b \in Actor |-> op'[b]]
  BY <1>2
<1> QED BY <1>1, <1>2, <1>3 DEF OthersTouched

LEMMA RootTouchedOthers ==
  ASSUME VolumeTypeOK, NEW a \in Actor, NEW i, NEW r, op' = RootTouched([op EXCEPT ![a] = r], a, i)
  PROVE  op'[a] = r /\ OthersOnImage(a, i)
<1> DEFINE o == [op EXCEPT ![a] = r]
<1>1. o[a] = r /\ \A b \in Actor \ {a} : o[b] = op[b]
  BY DEF VolumeTypeOK
<1> HIDE DEF o
<1>2. op' = [b \in Actor |-> IF b \in Task \ {a} /\ ImageOf[b] = i /\ o[b].do # "none"
                               THEN [o[b] EXCEPT !.calm = FALSE] ELSE o[b]]
  BY DEF RootTouched, o
<1>3. op' = [b \in Actor |-> op'[b]]
  BY <1>2
<1>4. op'[a] = r
  BY <1>1, <1>2
<1>5. ASSUME NEW b \in Actor \ {a}
      PROVE  op'[b] = IF b \in Task /\ ImageOf[b] = i /\ op[b].do # "none"
                        THEN [op[b] EXCEPT !.calm = FALSE] ELSE op[b]
  <2>1. o[b] = op[b]
    BY <1>1
  <2>2. op'[b] = IF b \in Task \ {a} /\ ImageOf[b] = i /\ o[b].do # "none"
                   THEN [o[b] EXCEPT !.calm = FALSE] ELSE o[b]
    BY <1>2
  <2>3. b \in Task \ {a} <=> b \in Task
    OBVIOUS
  <2> QED BY <2>1, <2>2, <2>3
<1> QED BY <1>3, <1>4, <1>5 DEF OthersOnImage

\* The roll-backs and deletes, during which a stays as it is.
LEMMA TouchedOnly ==
  ASSUME VolumeTypeOK, NEW a \in Actor, NEW v, op' = Touched(op, a, v)
  PROVE  op'[a] = op[a] /\ OthersTouched(a, v)
BY DEF Touched, OthersTouched, VolumeTypeOK

LEMMA SameOthers ==
  ASSUME VolumeTypeOK, NEW a \in Actor, NEW r, op' = [op EXCEPT ![a] = r]
  PROVE  op'[a] = r /\ OthersSame(a)
BY DEF OthersSame, VolumeTypeOK

LEMMA StepKeepsOthers ==
  ASSUME VolumeInv, NEW a,
         \/ OthersSame(a) /\ data' = data /\ root' = root
         \/ \E v \in Volume : OthersTouched(a, v) /\ root' = root /\ \A w \in Volume \ {v} : data'[w] = data[w]
         \/ \E i \in Image : OthersOnImage(a, i) /\ data' = data /\ \A j \in Image \ {i} : root'[j] = root[j],
         NEW b \in Actor, b # a
  PROVE  /\ op'[b] \in Operation /\ (op'[b].do # "none" \/ op'[b].at # "idle" => op'[b].vol \in Volume)
         /\ b \in Task => Copied(b)'
         /\ b \in Command => Extracted(b)'
<1>1. op[b] \in Operation /\ (op[b].do # "none" \/ op[b].at # "idle" => op[b].vol \in Volume)
  BY DEF VolumeInv, VolumeTypeOK
<1>2. \/ op'[b] = [op[b] EXCEPT !.calm = FALSE]
      \/ /\ op'[b] = op[b] /\ (op[b].do # "none" => data'[op[b].vol] = data[op[b].vol])
         /\ b \in Task /\ op[b].do # "none" => Rootfs(b)' = Rootfs(b)
  <2>1. b \in Task => ImageOf[b] \in Image
    BY VolumeAssumptions
  <2>2. CASE OthersSame(a) /\ data' = data /\ root' = root
    BY <2>2 DEF OthersSame, Rootfs
  <2>3. ASSUME NEW v \in Volume, OthersTouched(a, v), root' = root, \A w \in Volume \ {v} : data'[w] = data[w]
        PROVE  <1>2!:
    BY <1>1, <2>3 DEF OthersTouched, Rootfs
  <2>4. ASSUME NEW i \in Image, OthersOnImage(a, i), data' = data, \A j \in Image \ {i} : root'[j] = root[j]
        PROVE  <1>2!:
    BY <2>1, <2>4 DEF OthersOnImage, Rootfs
  <2> QED BY <2>2, <2>3, <2>4
<1>4. b \in Task => Copied(b)
  BY DEF VolumeInv
<1>5. b \in Command => Extracted(b)
  BY DEF VolumeInv
<1>6. CASE op'[b] = [op[b] EXCEPT !.calm = FALSE]
  <2>1. /\ op'[b] \in Operation /\ op'[b].calm = FALSE
        /\ op'[b].do = op[b].do /\ op'[b].at = op[b].at /\ op'[b].vol = op[b].vol /\ op'[b].todo = op[b].todo /\ op'[b].buf = op[b].buf
    BY <1>1, <1>6 DEF Operation
  <2> QED BY <1>1, <1>4, <1>5, <2>1 DEF Copied, Extracted
<1>7. CASE /\ op'[b] = op[b] /\ (op[b].do # "none" => data'[op[b].vol] = data[op[b].vol])
           /\ b \in Task /\ op[b].do # "none" => Rootfs(b)' = Rootfs(b)
  <2>1. op[b].do # "none" => Stored(op[b].vol)' = Stored(op[b].vol)
    BY <1>7 DEF Stored
  <2>2. b \in Task => Copied(b)'
    BY <1>4, <1>7, <2>1 DEF Copied
  <2>3. b \in Command => Extracted(b)'
    BY <1>5, <1>7 DEF Extracted
  <2> QED BY <1>1, <1>7, <2>2, <2>3
<1> QED BY <1>2, <1>6, <1>7

\* What a step of a has to show: the types, and that its own copy is right.
LEMMA StepKeeps ==
  ASSUME VolumeInv, NEW a \in Actor,
         meta' \in [Volume -> Owner], data' \in [Volume -> Directory \cup {None}],
         root' \in [Image -> Directory], archive' \in [Volume -> Directory \cup {None}],
         \/ OthersSame(a) /\ data' = data /\ root' = root
         \/ \E v \in Volume : OthersTouched(a, v) /\ root' = root /\ \A w \in Volume \ {v} : data'[w] = data[w]
         \/ \E i \in Image : OthersOnImage(a, i) /\ data' = data /\ \A j \in Image \ {i} : root'[j] = root[j],
         op'[a] \in Operation, op'[a].do # "none" \/ op'[a].at # "idle" => op'[a].vol \in Volume,
         a \in Task => Copied(a)', a \in Command => Extracted(a)'
  PROVE  VolumeInv'
<1>1. \A b \in Actor :
        /\ op'[b] \in Operation /\ (op'[b].do # "none" \/ op'[b].at # "idle" => op'[b].vol \in Volume)
        /\ b \in Task => Copied(b)'
        /\ b \in Command => Extracted(b)'
  <2> SUFFICES ASSUME NEW b \in Actor
               PROVE  /\ op'[b] \in Operation /\ (op'[b].do # "none" \/ op'[b].at # "idle" => op'[b].vol \in Volume)
                      /\ b \in Task => Copied(b)'
                      /\ b \in Command => Extracted(b)'
    OBVIOUS
  <2>1. CASE b = a
    BY <2>1
  <2>2. CASE b # a
    BY <2>2, StepKeepsOthers
  <2> QED BY <2>1, <2>2
<1>2. op' = [b \in Actor |-> op'[b]]
  BY DEF OthersSame, OthersTouched, OthersOnImage
<1>3. op' \in [Actor -> Operation]
  BY <1>1, <1>2
<1>4. VolumeTypeOK'
  BY <1>1, <1>3 DEF VolumeTypeOK
<1> QED BY <1>1, <1>4 DEF VolumeInv, Actor

\* A step of a that leaves it outside of every copy: it ends, or is at another place.
LEMMA NoCopy ==
  ASSUME NEW a \in Actor,
         op'[a].do \notin {"unmount", "snapshot", "export", "restore", "import"},
         op'[a].do # "mount" \/ op'[a].at # "copy"
  PROVE  Copied(a)' /\ Extracted(a)'
BY DEF Copied, Extracted

\* What an operation is at its beginning.
Started(do, v, l) == [Idle EXCEPT !.do = do, !.vol = v, !.at = l]

LEMMA StartedOperation ==
  ASSUME NEW do \in {"create", "mount", "unmount", "snapshot", "export", "restore", "import"}, NEW v \in Volume,
         NEW l \in {"meta", "stat", "copy"}
  PROVE  /\ Started(do, v, l) \in Operation
         /\ Started(do, v, l) = [do |-> do, vol |-> v, at |-> l, todo |-> {}, seen |-> None, buf |-> Empty, calm |-> TRUE]
<1>1. Started(do, v, l) = [do |-> do, vol |-> v, at |-> l, todo |-> {}, seen |-> None, buf |-> Empty, calm |-> TRUE]
  <2> SUFFICES ASSUME NEW r, r = [Idle EXCEPT !.do = do, !.vol = v, !.at = l]
               PROVE  r = [do |-> do, vol |-> v, at |-> l, todo |-> {}, seen |-> None, buf |-> Empty, calm |-> TRUE]
    BY DEF Started
  <2> QED BY DEF Idle
<1>2. Empty \in Directory /\ None \in Owner
  BY NothingIsNoDirectory DEF Owner
<1>3. [do |-> do, vol |-> v, at |-> l, todo |-> {}, seen |-> None, buf |-> Empty, calm |-> TRUE] \in Operation
  BY <1>2 DEF Operation
<1> QED BY <1>1, <1>3

\* The stores that the driver makes and removes.
LEMMA StoreTypes ==
  ASSUME VolumeTypeOK, NEW v \in Volume
  PROVE  /\ [data EXCEPT ![v] = IF @ = None THEN Empty ELSE @] \in [Volume -> Directory \cup {None}]
         /\ [data EXCEPT ![v] = Empty] \in [Volume -> Directory \cup {None}]
         /\ [data EXCEPT ![v] = None] \in [Volume -> Directory \cup {None}]
         /\ [meta EXCEPT ![v] = None] \in [Volume -> Owner]
         /\ [meta EXCEPT ![v] = Free] \in [Volume -> Owner]
BY NothingIsNoDirectory DEF VolumeTypeOK, Owner

LEMMA RemovedTypes ==
  ASSUME VolumeTypeOK, NEW v \in Volume, RemoveVolumeDir(v)
  PROVE  /\ meta' \in [Volume -> Owner] /\ data' \in [Volume -> Directory \cup {None}]
         /\ \A w \in Volume \ {v} : data'[w] = data[w]
         /\ data'[v] = None
<1>1. meta' = [meta EXCEPT ![v] = None] /\ data' = [data EXCEPT ![v] = None]
  BY DEF RemoveVolumeDir
<1> QED BY <1>1, StoreTypes DEF VolumeTypeOK

LEMMA InvCreate ==
  ASSUME VolumeInv, NEW a \in Actor, NEW v \in Volume, CreateDir(a, v) \/ CreateBlock(a, v)
  PROVE  VolumeInv'
<1>0. VolumeTypeOK
  BY DEF VolumeInv
<1> DEFINE r == Started("create", v, "meta")
<1>1. op' = Touched([op EXCEPT ![a] = r], a, v)
  BY DEF CreateDir, CreateBlock, BeginOp, Started
<1>2. r \in Operation /\ r.do = "create" /\ r.vol = v
  BY StartedOperation
<1> HIDE DEF r
<1>3. op'[a] = r /\ OthersTouched(a, v)
  BY <1>0, <1>1, TouchedOthers
<1>4. /\ data' \in [Volume -> Directory \cup {None}]
      /\ \A w \in Volume \ {v} : data'[w] = data[w]
  BY <1>0, StoreTypes DEF CreateDir, CreateBlock, VolumeTypeOK
<1>5. meta' = meta /\ root' = root /\ archive' = archive
  BY DEF CreateDir, CreateBlock
<1>6. Copied(a)' /\ Extracted(a)'
  BY <1>2, <1>3, NoCopy
<1>7. meta' \in [Volume -> Owner] /\ root' \in [Image -> Directory] /\ archive' \in [Volume -> Directory \cup {None}]
  BY <1>0, <1>5 DEF VolumeTypeOK
<1> QED BY <1>2, <1>3, <1>4, <1>5, <1>6, <1>7, StepKeeps

\* The steps of an idle command that remove the volume or its metadata.
LEMMA InvRemove ==
  ASSUME VolumeInv, NEW a \in Command, NEW v \in Volume,
         CreateBlockFail(a, v) \/ Delete(a, v) \/ SwarmctlCreate(a, v) \/ SwarmctlRemove(a, v)
  PROVE  VolumeInv'
<1>0. VolumeTypeOK /\ a \in Actor
  BY DEF VolumeInv, Actor
<1>1. op' = Touched(op, a, v) /\ op[a] = Idle /\ root' = root /\ archive' = archive
  BY DEF CreateBlockFail, Delete, SwarmctlCreate, SwarmctlRemove
<1>2. op'[a] = Idle /\ OthersTouched(a, v)
  BY <1>0, <1>1, TouchedOnly
<1>3. /\ meta' \in [Volume -> Owner] /\ data' \in [Volume -> Directory \cup {None}]
      /\ \A w \in Volume \ {v} : data'[w] = data[w]
  <2>1. CASE RemoveVolumeDir(v)
    BY <1>0, <2>1, RemovedTypes
  <2>2. CASE SwarmctlCreate(a, v)
    BY <1>0, <2>2, StoreTypes DEF SwarmctlCreate, VolumeTypeOK
  <2> QED BY <2>1, <2>2 DEF CreateBlockFail, Delete, SwarmctlRemove
<1>4. Copied(a)' /\ Extracted(a)'
  BY <1>0, <1>2, IdleOperation, NoCopy
<1>5. root' \in [Image -> Directory] /\ archive' \in [Volume -> Directory \cup {None}]
  BY <1>0, <1>1 DEF VolumeTypeOK
<1> QED BY <1>0, <1>1, <1>2, <1>3, <1>4, <1>5, IdleOperation, StepKeeps

\* A step that ends the operation and leaves the stores alone, or touches the volume.
LEMMA InvDone ==
  ASSUME VolumeInv, NEW a \in Actor,
         meta' \in [Volume -> Owner], root' = root, archive' \in [Volume -> Directory \cup {None}],
         \/ op' = Done(a) /\ data' = data
         \/ /\ op' = Touched(Done(a), a, op[a].vol) /\ op[a].vol \in Volume
            /\ data' \in [Volume -> Directory \cup {None}]
            /\ \A w \in Volume \ {op[a].vol} : data'[w] = data[w]
  PROVE  VolumeInv'
<1>0. VolumeTypeOK
  BY DEF VolumeInv
<1>1. Done(a) = [op EXCEPT ![a] = Idle]
  BY DEF Done
<1>2. /\ op'[a] = Idle
      /\ \/ OthersSame(a) /\ data' = data
         \/ \E v \in Volume : OthersTouched(a, v) /\ \A w \in Volume \ {v} : data'[w] = data[w]
  <2>1. CASE op' = Done(a) /\ data' = data
    BY <1>0, <1>1, <2>1, SameOthers
  <2>2. CASE /\ op' = Touched(Done(a), a, op[a].vol) /\ op[a].vol \in Volume
             /\ \A w \in Volume \ {op[a].vol} : data'[w] = data[w]
    <3>1. op'[a] = Idle /\ OthersTouched(a, op[a].vol)
      BY <1>0, <1>1, <2>2, TouchedOthers
    <3> QED BY <2>2, <3>1
  <2> QED BY <2>1, <2>2
<1>3. Copied(a)' /\ Extracted(a)'
  BY <1>2, IdleOperation, NoCopy
<1>4. root' \in [Image -> Directory] /\ data' \in [Volume -> Directory \cup {None}]
  BY <1>0 DEF VolumeTypeOK
<1> QED BY <1>2, <1>3, <1>4, IdleOperation, StepKeeps

LEMMA InvEnds ==
  ASSUME VolumeInv, NEW a \in Actor,
         \/ Return(a) \/ Abort(a) \/ TouchWrite(a) \/ UnmountEnd(a) \/ ExtractEnd(a)
         \/ WriteMetaFail(a)
         \/ AbortFile(a)
  PROVE  VolumeInv'
<1>0. VolumeTypeOK
  BY DEF VolumeInv
<1>1. CASE Return(a) \/ Abort(a) \/ UnmountEnd(a) \/ ExtractEnd(a)
  <2>1. meta' = meta /\ data' = data /\ root' = root /\ archive' = archive /\ op' = Done(a)
    BY <1>1 DEF Return, Abort, UnmountEnd, ExtractEnd
  <2> QED BY <1>0, <2>1, InvDone DEF VolumeTypeOK
<1>2. CASE TouchWrite(a)
  <2>1. /\ meta' = [meta EXCEPT ![op[a].vol] = op[a].seen]
        /\ data' = data /\ root' = root /\ archive' = archive /\ op' = Done(a)
    BY <1>2 DEF TouchWrite
  <2>2. op[a].seen \in Owner
    BY <1>0 DEF VolumeTypeOK, Operation
  <2>3. meta' \in [Volume -> Owner]
    BY <1>0, <2>1, <2>2 DEF VolumeTypeOK
  <2> QED BY <1>0, <2>1, <2>3, InvDone DEF VolumeTypeOK
<1>3. CASE WriteMetaFail(a)
  <2>1. op[a].vol \in Volume
    BY <1>0, <1>3 DEF VolumeTypeOK, WriteMetaFail
  <2>2. RemoveVolumeDir(op[a].vol) /\ op' = Touched(Done(a), a, op[a].vol) /\ root' = root /\ archive' = archive
    BY <1>3 DEF WriteMetaFail
  <2>3. /\ meta' \in [Volume -> Owner] /\ data' \in [Volume -> Directory \cup {None}]
        /\ \A w \in Volume \ {op[a].vol} : data'[w] = data[w]
    BY <1>0, <2>1, <2>2, RemovedTypes
  <2> QED BY <1>0, <2>1, <2>2, <2>3, InvDone DEF VolumeTypeOK
<1>4. CASE AbortFile(a)
  <2>1. op[a].vol \in Volume /\ op[a].todo \in SUBSET Name
    BY <1>0, <1>4 DEF VolumeTypeOK, AbortFile, Operation
  <2>2. /\ op' = Touched(Done(a), a, op[a].vol) /\ meta' = meta /\ root' = root /\ archive' = archive
        /\ data[op[a].vol] # None
    BY <1>4 DEF AbortFile
  <2>3. PICK n \in op[a].todo : data' = [data EXCEPT ![op[a].vol][n] = Torn]
    BY <1>4 DEF AbortFile
  <2>4. data[op[a].vol] \in Directory
    BY <1>0, <2>1, <2>2 DEF VolumeTypeOK
  <2>5. [data[op[a].vol] EXCEPT ![n] = Torn] \in Directory
    BY <2>1, <2>4, NothingIsNoDirectory DEF Directory
  <2>6. /\ data' \in [Volume -> Directory \cup {None}]
        /\ \A w \in Volume \ {op[a].vol} : data'[w] = data[w]
    BY <1>0, <2>1, <2>3, <2>5 DEF VolumeTypeOK
  <2> QED BY <1>0, <2>1, <2>2, <2>6, InvDone DEF VolumeTypeOK
<1> QED BY <1>1, <1>2, <1>3, <1>4

\* A step that moves an operation on, or notes the metadata, but copies nothing.
LEMMA InvMoves ==
  ASSUME VolumeInv, NEW a \in Actor, NEW r \in Operation, op' = [op EXCEPT ![a] = r],
         meta' \in [Volume -> Owner], data' = data, root' = root, archive' = archive,
         op[a].vol \in Volume, r.do = op[a].do, r.vol = op[a].vol, r.todo = op[a].todo, r.buf = op[a].buf,
         r.calm = op[a].calm, r.do # "mount" \/ r.at # "copy",
         a \in Task => r.do # "unmount"
  PROVE  VolumeInv'
<1>0. VolumeTypeOK
  BY DEF VolumeInv
<1>1. op'[a] = r /\ OthersSame(a)
  BY <1>0, SameOthers
<1>2. /\ data' \in [Volume -> Directory \cup {None}] /\ root' \in [Image -> Directory]
      /\ archive' \in [Volume -> Directory \cup {None}]
  BY <1>0 DEF VolumeTypeOK
<1>3. a \in Task => Copied(a)'
  BY <1>1 DEF VolumeInv, Copied, Rootfs
<1>4. a \in Command => Extracted(a)'
  BY <1>1 DEF VolumeInv, Extracted
<1> QED BY <1>1, <1>2, <1>3, <1>4, StepKeeps

LEMMA InvMetadata ==
  ASSUME VolumeInv, NEW a \in Actor, WriteMeta(a) \/ OwnRead(a) \/ OwnWrite(a) \/ TouchRead(a)
  PROVE  VolumeInv'
<1>0. VolumeTypeOK /\ op[a] \in Operation /\ op[a].seen \in Owner
  BY DEF VolumeInv, VolumeTypeOK, Operation
<1>1. op[a].vol \in Volume
  BY <1>0 DEF VolumeTypeOK, WriteMeta, OwnRead, OwnWrite, TouchRead
<1>2. data' = data /\ root' = root /\ archive' = archive
  BY DEF WriteMeta, OwnRead, OwnWrite, TouchRead
<1>3. a \in Task => op[a].do # "unmount"
  BY DEF WriteMeta, OwnRead, OwnWrite, TouchRead, VolumeInv, Copied
<1>4. CASE WriteMeta(a)
  <2> DEFINE l == IF op[a].do = "import" THEN "copy" ELSE "own"
             r == [op[a] EXCEPT !.at = l, !.seen = None]
  <2>1. op' = [op EXCEPT ![a] = r] /\ meta' = [meta EXCEPT ![op[a].vol] = Free]
    BY <1>0, <1>4 DEF WriteMeta, VolumeTypeOK
  <2>2. None \in Owner
    BY DEF Owner
  <2>3. /\ r \in Operation
        /\ r.do = op[a].do /\ r.vol = op[a].vol /\ r.at = l /\ r.todo = op[a].todo
        /\ r.buf = op[a].buf /\ r.calm = op[a].calm
    <3>1. l \in {"own", "ownw", "stat", "copy", "idle", "touchw"}
      OBVIOUS
    <3> HIDE DEF l
    <3> QED BY <1>0, <2>2, <3>1 DEF Operation
  <2>4. meta' \in [Volume -> Owner]
    BY <1>0, <1>1, <2>1, StoreTypes
  <2>5. r.do # "mount" \/ r.at # "copy"
    BY <2>3
  <2> HIDE DEF r, l
  <2> QED BY <1>1, <1>2, <1>3, <2>1, <2>3, <2>4, <2>5, InvMoves
<1>5. CASE OwnRead(a)
  <2> DEFINE l == IF meta[op[a].vol] # None THEN "ownw" ELSE IF op[a].do = "mount" THEN "stat" ELSE "idle"
             r == [op[a] EXCEPT !.at = l, !.seen = meta[op[a].vol]]
  <2>1. op' = [op EXCEPT ![a] = r] /\ meta' = meta
    BY <1>0, <1>5 DEF OwnRead, VolumeTypeOK
  <2>2. meta[op[a].vol] \in Owner
    BY <1>0, <1>1 DEF VolumeTypeOK
  <2>3. /\ r \in Operation
        /\ r.do = op[a].do /\ r.vol = op[a].vol /\ r.at = l /\ r.todo = op[a].todo
        /\ r.buf = op[a].buf /\ r.calm = op[a].calm
    <3>1. l \in {"own", "ownw", "stat", "copy", "idle", "touchw"}
      OBVIOUS
    <3> HIDE DEF l
    <3> QED BY <1>0, <2>2, <3>1 DEF Operation
  <2>4. meta' \in [Volume -> Owner]
    BY <1>0, <2>1 DEF VolumeTypeOK
  <2>5. r.do # "mount" \/ r.at # "copy"
    BY <2>3
  <2> HIDE DEF r, l
  <2> QED BY <1>1, <1>2, <1>3, <2>1, <2>3, <2>4, <2>5, InvMoves
<1>6. CASE TouchRead(a)
  <2> DEFINE l == IF meta[op[a].vol] = None THEN "idle" ELSE "touchw"
             r == [op[a] EXCEPT !.at = l, !.seen = meta[op[a].vol]]
  <2>1. op' = [op EXCEPT ![a] = r] /\ meta' = meta
    BY <1>0, <1>6 DEF TouchRead, VolumeTypeOK
  <2>2. meta[op[a].vol] \in Owner
    BY <1>0, <1>1 DEF VolumeTypeOK
  <2>3. /\ r \in Operation
        /\ r.do = op[a].do /\ r.vol = op[a].vol /\ r.at = l /\ r.todo = op[a].todo
        /\ r.buf = op[a].buf /\ r.calm = op[a].calm
    <3>1. l \in {"own", "ownw", "stat", "copy", "idle", "touchw"}
      OBVIOUS
    <3> HIDE DEF l
    <3> QED BY <1>0, <2>2, <3>1 DEF Operation
  <2>4. meta' \in [Volume -> Owner]
    BY <1>0, <2>1 DEF VolumeTypeOK
  <2>5. r.do # "mount" \/ r.at # "copy"
    BY <2>3
  <2> HIDE DEF r, l
  <2> QED BY <1>1, <1>2, <1>3, <2>1, <2>3, <2>4, <2>5, InvMoves
<1>7. CASE OwnWrite(a)
  <2>1. meta' \in [Volume -> Owner]
    <3>1. (IF a \in Task THEN a ELSE Free) \in Owner
      BY DEF Owner
    <3> QED BY <1>0, <1>1, <1>7, <3>1 DEF OwnWrite, VolumeTypeOK
  <2>2. CASE op[a].do # "mount"
    <3>1. op' = Done(a)
      BY <1>7, <2>2 DEF OwnWrite
    <3> QED BY <1>0, <1>2, <2>1, <3>1, InvDone DEF VolumeTypeOK
  <2>3. CASE op[a].do = "mount"
    <3> DEFINE r == [op[a] EXCEPT !.at = "stat"]
    <3>1. op' = [op EXCEPT ![a] = r]
      BY <1>0, <1>7, <2>3 DEF OwnWrite, At, VolumeTypeOK
    <3>2. /\ r \in Operation
          /\ r.do = op[a].do /\ r.vol = op[a].vol /\ r.at = "stat" /\ r.todo = op[a].todo
          /\ r.buf = op[a].buf /\ r.calm = op[a].calm
      BY <1>0 DEF Operation
    <3> HIDE DEF r
    <3> QED BY <1>1, <1>2, <1>3, <2>1, <3>1, <3>2, InvMoves
  <2> QED BY <2>2, <2>3
<1> QED BY <1>4, <1>5, <1>6, <1>7

-----------------------------------------------------------------------------
\* Mounting and unmounting.

LEMMA InvMountBegin ==
  ASSUME VolumeInv, NEW t \in Task, NEW v \in Volume, MountKnown(t, v) \/ MountNew(t, v)
  PROVE  VolumeInv'
<1>0. VolumeTypeOK /\ t \in Actor
  BY DEF VolumeInv, Actor
<1>1. meta' = meta /\ root' = root /\ archive' = archive
  BY DEF MountKnown, MountNew
<1>2. meta' \in [Volume -> Owner] /\ root' \in [Image -> Directory] /\ archive' \in [Volume -> Directory \cup {None}]
  BY <1>0, <1>1 DEF VolumeTypeOK
<1>3. CASE MountKnown(t, v)
  <2> DEFINE r == Started("mount", v, "stat")
  <2>1. op' = [op EXCEPT ![t] = r] /\ data' = data
    BY <1>3 DEF MountKnown, BeginOp, Started
  <2>2. r \in Operation /\ r.do = "mount" /\ r.vol = v /\ r.at = "stat"
    BY StartedOperation
  <2> HIDE DEF r
  <2>3. op'[t] = r /\ OthersSame(t)
    BY <1>0, <2>1, SameOthers
  <2>4. Copied(t)' /\ Extracted(t)'
    BY <1>0, <2>2, <2>3, NoCopy
  <2> QED BY <1>0, <1>1, <1>2, <2>1, <2>2, <2>3, <2>4, StepKeeps DEF VolumeTypeOK
<1>4. CASE MountNew(t, v)
  <2> DEFINE r == Started("mount", v, "meta")
  <2>1. op' = Touched([op EXCEPT ![t] = r], t, v)
    BY <1>4 DEF MountNew, BeginOp, Started
  <2>2. r \in Operation /\ r.do = "mount" /\ r.vol = v /\ r.at = "meta"
    BY StartedOperation
  <2> HIDE DEF r
  <2>3. op'[t] = r /\ OthersTouched(t, v)
    BY <1>0, <2>1, TouchedOthers
  <2>4. Copied(t)' /\ Extracted(t)'
    BY <1>0, <2>2, <2>3, NoCopy
  <2>5. /\ data' \in [Volume -> Directory \cup {None}]
        /\ \A w \in Volume \ {v} : data'[w] = data[w]
    BY <1>0, <1>4, StoreTypes DEF MountNew, VolumeTypeOK
  <2> QED BY <1>0, <1>1, <1>2, <2>2, <2>3, <2>4, <2>5, StepKeeps
<1> QED BY <1>3, <1>4

LEMMA InvMountStat ==
  ASSUME VolumeInv, NEW t \in Task, MountStat(t)
  PROVE  VolumeInv'
<1>0. VolumeTypeOK /\ t \in Actor /\ op[t] \in Operation
  BY DEF VolumeInv, VolumeTypeOK, Actor
<1>1. meta' = meta /\ data' = data /\ root' = root /\ archive' = archive
  BY DEF MountStat
<1>2. /\ meta' \in [Volume -> Owner] /\ data' \in [Volume -> Directory \cup {None}]
      /\ root' \in [Image -> Directory] /\ archive' \in [Volume -> Directory \cup {None}]
  BY <1>0, <1>1 DEF VolumeTypeOK
<1>3. CASE op' = Done(t)
  BY <1>0, <1>1, <1>2, <1>3, InvDone
<1>4. CASE op' # Done(t)
  <2> DEFINE v == op[t].vol
             r == [op[t] EXCEPT !.at = "copy", !.todo = Stored(v)]
  <2>1. op' = [op EXCEPT ![t] = r] /\ data[v] # None /\ v \in Volume
    BY <1>0, <1>4 DEF MountStat, VolumeTypeOK
  <2>2. Stored(v) \in SUBSET Name
    BY DEF Stored
  <2>3. r \in Operation /\ r.do = op[t].do /\ r.vol = v /\ r.todo = Stored(v) /\ r.calm = op[t].calm
    BY <1>0, <2>2 DEF Operation
  <2> HIDE DEF r
  <2>4. op'[t] = r /\ OthersSame(t)
    BY <1>0, <2>1, SameOthers
  <2>5. r.do # "unmount"
    <3> SUFFICES ASSUME op[t].do = "unmount" PROVE FALSE
      BY <2>3
    <3> QED BY DEF VolumeInv, Copied, MountStat
  <2>6. Copied(t)'
    BY <1>1, <2>1, <2>3, <2>4, <2>5 DEF Copied, Stored
  <2>7. t \notin Command
    BY VolumeAssumptions
  <2> QED BY <1>0, <1>1, <1>2, <2>1, <2>3, <2>4, <2>6, <2>7, StepKeeps
<1> QED BY <1>3, <1>4

LEMMA InvMountCopy ==
  ASSUME VolumeInv, NEW t \in Task, MountCopy(t)
  PROVE  VolumeInv'
<1> DEFINE v == op[t].vol
<1>0. VolumeTypeOK /\ t \in Actor /\ op[t] \in Operation
  BY DEF VolumeInv, VolumeTypeOK, Actor
<1>1. meta' = meta /\ data' = data /\ archive' = archive /\ v \in Volume /\ op[t].do = "mount" /\ op[t].at = "copy"
  BY <1>0 DEF MountCopy, VolumeTypeOK
<1>2. /\ meta' \in [Volume -> Owner] /\ data' \in [Volume -> Directory \cup {None}]
      /\ archive' \in [Volume -> Directory \cup {None}]
  BY <1>0, <1>1 DEF VolumeTypeOK
<1>3. PICK n \in op[t].todo :
        IF n \in Stored(v)
          THEN /\ root' = [root EXCEPT ![ImageOf[t]][n] = data[v][n]]
               /\ op' = RootTouched([op EXCEPT ![t].todo = @ \ {n}], t, ImageOf[t])
          ELSE root' = root /\ op' = Done(t)
  BY DEF MountCopy
<1>4. CASE n \notin Stored(v)
  BY <1>0, <1>1, <1>2, <1>3, <1>4, InvDone
<1>5. CASE n \in Stored(v)
  <2> DEFINE r == [op[t] EXCEPT !.todo = @ \ {n}]
             i == ImageOf[t]
  <2>0. i \in Image
    BY VolumeAssumptions
  <2>1. /\ op' = RootTouched([op EXCEPT ![t] = r], t, i)
        /\ root' = [root EXCEPT ![i] = [root[i] EXCEPT ![n] = data[v][n]]]
    BY <1>0, <1>3, <1>5 DEF VolumeTypeOK
  <2>2. /\ r \in Operation /\ r.do = "mount" /\ r.at = "copy" /\ r.vol = v
        /\ r.todo = op[t].todo \ {n} /\ r.calm = op[t].calm
    BY <1>0, <1>1 DEF Operation
  <2> HIDE DEF r
  <2>3. op'[t] = r /\ OthersOnImage(t, i)
    BY <1>0, <2>1, RootTouchedOthers
  <2>4. data[v] \in Directory /\ n \in Name /\ root[i] \in Directory
    BY <1>0, <1>1, <1>5, <2>0 DEF VolumeTypeOK, Stored
  <2>5. /\ root'[i] \in Directory /\ root'[i][n] = data[v][n] /\ \A m \in Name \ {n} : root'[i][m] = root[i][m]
        /\ \A j \in Image \ {i} : root'[j] = root[j]
        /\ root' \in [Image -> Directory]
    BY <1>0, <2>0, <2>1, <2>4 DEF VolumeTypeOK, Directory
  <2>6. Copied(t)'
    <3>1. op[t].calm => \A m \in Stored(v) \ op[t].todo : root[i][m] = data[v][m]
      BY <1>1 DEF VolumeInv, Copied, Rootfs
    <3>2. (\A w \in Volume : Stored(w)' = Stored(w)) /\ Stored(v) \subseteq Name /\ data[v] # None
      BY <1>1, <2>4, NothingIsNoDirectory DEF Stored
    <3> QED BY <1>1, <2>2, <2>3, <2>5, <3>1, <3>2 DEF Copied, Rootfs
  <2>7. t \notin Command
    BY VolumeAssumptions
  <2> HIDE DEF i
  <2> QED BY <1>0, <1>1, <1>2, <2>0, <2>2, <2>3, <2>5, <2>6, <2>7, StepKeeps
<1> QED BY <1>4, <1>5

LEMMA InvVMWrite ==
  ASSUME VolumeInv, NEW i \in Image, VMWrite(i)
  PROVE  VolumeInv'
<1>0. VolumeTypeOK /\ None \notin Actor
  BY VolumeAssumptions DEF VolumeInv, Actor
<1>1. meta' = meta /\ data' = data /\ archive' = archive /\ op' = RootTouched(op, None, i)
  BY DEF VMWrite
<1>2. PICK n \in Name, x \in Length \cup {None} : root' = [root EXCEPT ![i][n] = x]
  BY DEF VMWrite
<1>3. x \in File
  BY DEF File
<1>4. root' \in [Image -> Directory] /\ \A j \in Image \ {i} : root'[j] = root[j]
  BY <1>0, <1>2, <1>3 DEF VolumeTypeOK, Directory
<1>5. OthersOnImage(None, i)
  BY <1>0, <1>1 DEF RootTouched, OthersOnImage, Actor
<1>6. ASSUME NEW b \in Actor
      PROVE  /\ op'[b] \in Operation /\ (op'[b].do # "none" \/ op'[b].at # "idle" => op'[b].vol \in Volume)
             /\ b \in Task => Copied(b)'
             /\ b \in Command => Extracted(b)'
  BY <1>0, <1>1, <1>4, <1>5, StepKeepsOthers
<1>7. op' \in [Actor -> Operation]
  BY <1>5, <1>6 DEF OthersOnImage
<1>8. VolumeTypeOK'
  BY <1>0, <1>1, <1>4, <1>6, <1>7 DEF VolumeTypeOK
<1> QED BY <1>6, <1>8 DEF VolumeInv, Actor

LEMMA InvUnmount ==
  ASSUME VolumeInv, NEW t \in Task, NEW v \in Volume, Unmount(t, v)
  PROVE  VolumeInv'
<1> DEFINE S == {n \in Name : Rootfs(t)[n] # None}
           s == Started("unmount", v, "copy")
           r == [s EXCEPT !.todo = S]
<1>0. VolumeTypeOK /\ t \in Actor
  BY DEF VolumeInv, Actor
<1>1. meta' = meta /\ root' = root /\ archive' = archive /\ data' = [data EXCEPT ![v] = IF @ = None THEN Empty ELSE @]
  BY DEF Unmount
<1>2. op' = Touched([op EXCEPT ![t] = r], t, v)
  <2>1. op' = Touched([[op EXCEPT ![t] = s] EXCEPT ![t].todo = S], t, v)
    BY DEF Unmount, BeginOp, Started
  <2>2. [[op EXCEPT ![t] = s] EXCEPT ![t].todo = S] = [op EXCEPT ![t] = r]
    <3> HIDE DEF S, s
    <3> QED BY <1>0 DEF VolumeTypeOK
  <2> QED BY <2>1, <2>2
<1>3. /\ r \in Operation /\ r.do = "unmount" /\ r.vol = v /\ r.at = "copy" /\ r.todo = S
  <2>1. s = [do |-> "unmount", vol |-> v, at |-> "copy", todo |-> {}, seen |-> None, buf |-> Empty, calm |-> TRUE]
    BY StartedOperation
  <2>2. s \in Operation /\ S \in SUBSET Name
    BY StartedOperation
  <2> HIDE DEF S, s
  <2> QED BY <2>1, <2>2 DEF Operation
<1> HIDE DEF r
<1>4. op'[t] = r /\ OthersTouched(t, v)
  BY <1>0, <1>2, TouchedOthers
<1>5. /\ data' \in [Volume -> Directory \cup {None}] /\ data'[v] # None
      /\ \A w \in Volume \ {v} : data'[w] = data[w]
  BY <1>0, <1>1, StoreTypes, NothingIsNoDirectory DEF VolumeTypeOK
<1>6. Copied(t)'
  BY <1>1, <1>3, <1>4, <1>5 DEF Copied, Rootfs
<1>7. t \notin Command
  BY VolumeAssumptions
<1>8. meta' \in [Volume -> Owner] /\ root' \in [Image -> Directory] /\ archive' \in [Volume -> Directory \cup {None}]
  BY <1>0, <1>1 DEF VolumeTypeOK
<1> QED BY <1>0, <1>1, <1>3, <1>4, <1>5, <1>6, <1>7, <1>8, StepKeeps

LEMMA InvUnmountCopy ==
  ASSUME VolumeInv, NEW t \in Task, UnmountCopy(t)
  PROVE  VolumeInv'
<1> DEFINE v == op[t].vol
<1>0. VolumeTypeOK /\ t \in Actor /\ op[t] \in Operation
  BY DEF VolumeInv, VolumeTypeOK, Actor
<1>1. meta' = meta /\ root' = root /\ archive' = archive /\ v \in Volume /\ op[t].do = "unmount"
  BY <1>0 DEF UnmountCopy, VolumeTypeOK
<1>2. meta' \in [Volume -> Owner] /\ root' \in [Image -> Directory] /\ archive' \in [Volume -> Directory \cup {None}]
  BY <1>0, <1>1 DEF VolumeTypeOK
<1>3. PICK n \in op[t].todo :
        IF data[v] = None \/ Rootfs(t)[n] = None
          THEN data' = data /\ op' = Done(t)
          ELSE /\ data' = [data EXCEPT ![v][n] = Rootfs(t)[n]]
               /\ op' = Touched([op EXCEPT ![t].todo = @ \ {n}], t, v)
  BY DEF UnmountCopy
<1>4. CASE data[v] = None \/ Rootfs(t)[n] = None
  BY <1>0, <1>1, <1>2, <1>3, <1>4, InvDone
<1>5. CASE data[v] # None /\ Rootfs(t)[n] # None
  <2> DEFINE r == [op[t] EXCEPT !.todo = @ \ {n}]
  <2>1. op' = Touched([op EXCEPT ![t] = r], t, v) /\ data' = [data EXCEPT ![v] = [data[v] EXCEPT ![n] = Rootfs(t)[n]]]
    BY <1>0, <1>3, <1>5 DEF VolumeTypeOK
  <2>2. /\ r \in Operation /\ r.do = "unmount" /\ r.at = op[t].at /\ r.vol = v
        /\ r.todo = op[t].todo \ {n} /\ r.calm = op[t].calm /\ op[t].todo \subseteq Name
    BY <1>0, <1>1 DEF Operation
  <2> HIDE DEF r
  <2>3. op'[t] = r /\ OthersTouched(t, v)
    BY <1>0, <2>1, TouchedOthers
  <2>4. data[v] \in Directory /\ n \in Name /\ Rootfs(t) \in Directory
    BY <1>0, <1>1, <1>5, <2>2, VolumeAssumptions DEF VolumeTypeOK, Rootfs
  <2>5. /\ data'[v] \in Directory /\ data'[v][n] = Rootfs(t)[n] /\ \A m \in Name \ {n} : data'[v][m] = data[v][m]
        /\ \A w \in Volume \ {v} : data'[w] = data[w]
        /\ data' \in [Volume -> Directory \cup {None}]
    BY <1>0, <1>1, <2>1, <2>4 DEF VolumeTypeOK, Directory
  <2>6. Copied(t)'
    <3>1. /\ op[t].at = "copy" /\ Rootfs(t)' = Rootfs(t)
          /\ op[t].calm => \A m \in Name \ op[t].todo : Rootfs(t)[m] # None => data[v][m] = Rootfs(t)[m]
      BY <1>1 DEF VolumeInv, Copied, Rootfs
    <3>2. data'[v] # None
      BY <2>5, NothingIsNoDirectory
    <3> QED BY <1>1, <2>2, <2>3, <2>5, <3>1, <3>2 DEF Copied
  <2>7. t \notin Command
    BY VolumeAssumptions
  <2> QED BY <1>0, <1>1, <1>2, <2>2, <2>3, <2>5, <2>6, <2>7, StepKeeps
<1> QED BY <1>4, <1>5

-----------------------------------------------------------------------------
\* Archiving, restoring and importing.

\* An operation whose first record is filled in after the others have been touched.
LEMMA TouchedBegun ==
  ASSUME VolumeTypeOK, NEW c \in Actor, NEW v, NEW s, NEW r,
         op' = [Touched([op EXCEPT ![c] = s], c, v) EXCEPT ![c] = r]
  PROVE  op'[c] = r /\ OthersTouched(c, v)
<1> DEFINE o == Touched([op EXCEPT ![c] = s], c, v)
<1>1. DOMAIN o = Actor
  BY DEF Touched
<1>2. \A b \in Actor \ {c} : o[b] = IF op[b].vol = v THEN [op[b] EXCEPT !.calm = FALSE] ELSE op[b]
  BY DEF Touched, VolumeTypeOK
<1> HIDE DEF o
<1>3. op'[c] = r /\ (\A b \in Actor \ {c} : op'[b] = o[b]) /\ op' = [b \in Actor |-> op'[b]]
  BY <1>1 DEF o
<1> QED BY <1>2, <1>3 DEF OthersTouched

LEMMA InvArchive ==
  ASSUME VolumeInv, NEW c \in Command, NEW v \in Volume,
         NEW do \in {"snapshot", "export"}, Archive(c, do, v)
  PROVE  VolumeInv'
<1> DEFINE S == Stored(v)
           s == Started(do, v, "copy")
           r == [s EXCEPT !.todo = S]
<1>0. VolumeTypeOK /\ c \in Actor
  BY DEF VolumeInv, Actor
<1>1. meta' = meta /\ root' = root /\ data' = data /\ archive' = [archive EXCEPT ![v] = Empty] /\ data[v] # None
  BY DEF Archive
<1>2. op'[c] = r /\ OthersTouched(c, v)
  <2> DEFINE o == Touched([op EXCEPT ![c] = s], c, v)
  <2>1. op' = [o EXCEPT ![c].todo = S]
    BY DEF Archive, BeginOp, Started
  <2> HIDE DEF S, s
  <2>2. DOMAIN o = Actor /\ o[c] = s /\ o = [b \in Actor |-> o[b]]
    BY <1>0 DEF Touched, VolumeTypeOK
  <2>3. op' = [o EXCEPT ![c] = r]
    <3> HIDE DEF o
    <3> QED BY <1>0, <2>1, <2>2
  <2> QED BY <1>0, <2>3, TouchedBegun
<1>3. /\ r \in Operation /\ r.do = do /\ r.vol = v /\ r.todo = S /\ r.buf = Empty
  <2>1. s = [do |-> do, vol |-> v, at |-> "copy", todo |-> {}, seen |-> None, buf |-> Empty, calm |-> TRUE]
    BY StartedOperation
  <2>2. s \in Operation /\ S \in SUBSET Name
    BY StartedOperation DEF Stored
  <2> HIDE DEF S, s
  <2> QED BY <2>1, <2>2 DEF Operation
<1> HIDE DEF r
<1>4. Extracted(c)'
  <2>1. \A n \in Name \ S : data[v][n] = None /\ Empty[n] = None
    BY <1>1 DEF Stored, Empty
  <2> HIDE DEF S
  <2> QED BY <1>1, <1>2, <1>3, <2>1 DEF Extracted
<1>5. c \notin Task
  BY VolumeAssumptions
<1>6. /\ meta' \in [Volume -> Owner] /\ root' \in [Image -> Directory]
      /\ data' \in [Volume -> Directory \cup {None}] /\ archive' \in [Volume -> Directory \cup {None}]
  BY <1>0, <1>1, NothingIsNoDirectory DEF VolumeTypeOK
<1> QED BY <1>0, <1>1, <1>2, <1>3, <1>4, <1>5, <1>6, StepKeeps

LEMMA InvArchiveCopy ==
  ASSUME VolumeInv, NEW c \in Command, ArchiveCopy(c)
  PROVE  VolumeInv'
<1> DEFINE v == op[c].vol
<1>0. VolumeTypeOK /\ c \in Actor /\ op[c] \in Operation
  BY DEF VolumeInv, VolumeTypeOK, Actor
<1>1. meta' = meta /\ root' = root /\ data' = data /\ v \in Volume /\ op[c].do \in {"snapshot", "export"}
  BY <1>0 DEF ArchiveCopy, VolumeTypeOK
<1>2. /\ meta' \in [Volume -> Owner] /\ root' \in [Image -> Directory] /\ data' \in [Volume -> Directory \cup {None}]
  BY <1>0, <1>1 DEF VolumeTypeOK
<1>3. PICK n \in op[c].todo \cap Stored(v) : op' = [op EXCEPT ![c].todo = @ \ {n}, ![c].buf[n] = data[v][n]]
  BY DEF ArchiveCopy
<1> DEFINE d == [op[c].buf EXCEPT ![n] = data[v][n]]
           r == [op[c] EXCEPT !.todo = @ \ {n}, !.buf = d]
<1>4. op[c].buf \in Directory /\ op[c].todo \subseteq Name /\ n \in Name /\ data[v] \in Directory /\ data[v] # None
  BY <1>0, <1>1 DEF VolumeTypeOK, Operation, Stored
<1>5. op' = [op EXCEPT ![c] = r]
  BY <1>0, <1>3 DEF VolumeTypeOK, Operation
<1>6. d \in Directory /\ d[n] = data[v][n] /\ \A m \in Name \ {n} : d[m] = op[c].buf[m]
  BY <1>4 DEF Directory
<1> HIDE DEF d
<1>7. /\ r \in Operation /\ r.do = op[c].do /\ r.vol = v
      /\ r.todo = op[c].todo \ {n} /\ r.buf = d /\ r.calm = op[c].calm
  BY <1>0, <1>1, <1>6 DEF Operation
<1> HIDE DEF r
<1>8. op'[c] = r /\ OthersSame(c)
  BY <1>0, <1>5, SameOthers
<1>9. archive' \in [Volume -> Directory \cup {None}]
  <2>1. archive' = [archive EXCEPT ![v] = op'[c].buf]
    BY DEF ArchiveCopy
  <2> QED BY <1>0, <1>1, <1>6, <1>7, <1>8, <2>1 DEF VolumeTypeOK
<1>10. Extracted(c)'
  <2>1. op[c].calm => \A m \in Name \ op[c].todo : op[c].buf[m] = data[v][m]
    BY <1>1 DEF VolumeInv, Extracted
  <2> QED BY <1>1, <1>4, <1>6, <1>7, <1>8, <2>1 DEF Extracted
<1>11. c \notin Task
  BY VolumeAssumptions
<1> QED BY <1>0, <1>1, <1>2, <1>7, <1>8, <1>9, <1>10, <1>11, StepKeeps

LEMMA InvArchiveEnd ==
  ASSUME VolumeInv, NEW c \in Command, SnapshotEnd(c) \/ ExportEnd(c) \/ ArchiveFail(c)
  PROVE  VolumeInv'
<1>0. VolumeTypeOK /\ c \in Actor /\ op[c] \in Operation
  BY DEF VolumeInv, VolumeTypeOK, Actor
<1>1. /\ meta' = meta /\ root' = root /\ data' = data /\ op[c].vol \in Volume
      /\ op' = Touched(Done(c), c, op[c].vol)
  BY <1>0 DEF SnapshotEnd, ExportEnd, ArchiveFail, VolumeTypeOK
<1>2. op[c].buf \in Directory
  BY <1>0 DEF Operation
<1>3. archive' \in [Volume -> Directory \cup {None}]
  <2>1. CASE SnapshotEnd(c)
    BY <1>0, <1>1, <1>2, <2>1 DEF VolumeTypeOK, SnapshotEnd
  <2>2. CASE ArchiveFail(c)
    BY <1>0, <1>1, <2>2 DEF VolumeTypeOK, ArchiveFail
  <2>3. CASE ExportEnd(c)
    <3>1. PICK lost \in SUBSET Name :
            archive' = [archive EXCEPT ![op[c].vol] = [n \in Name |-> IF n \in lost THEN None ELSE op[c].buf[n]]]
      BY <2>3 DEF ExportEnd
    <3>2. [n \in Name |-> IF n \in lost THEN None ELSE op[c].buf[n]] \in Directory
      BY <1>2, NothingIsNoDirectory DEF Directory
    <3> QED BY <1>0, <1>1, <3>1, <3>2 DEF VolumeTypeOK
  <2> QED BY <2>1, <2>2, <2>3
<1> QED BY <1>0, <1>1, <1>3, InvDone DEF VolumeTypeOK

LEMMA InvRestore ==
  ASSUME VolumeInv, NEW c \in Command, NEW v \in Volume, RestoreVolume(c, v)
  PROVE  VolumeInv'
<1> DEFINE S == {n \in Name : archive[v][n] # None}
           s == Started("restore", v, "copy")
           r == [s EXCEPT !.buf = archive[v], !.todo = S]
<1>0. VolumeTypeOK /\ c \in Actor
  BY DEF VolumeInv, Actor
<1>1. /\ meta' = meta /\ root' = root /\ archive' = archive /\ data' = [data EXCEPT ![v] = Empty]
      /\ archive[v] \in Directory
  BY <1>0 DEF RestoreVolume, VolumeTypeOK
<1>2. op'[c] = r /\ OthersTouched(c, v)
  <2> DEFINE o == Touched([op EXCEPT ![c] = s], c, v)
  <2>1. op' = [o EXCEPT ![c].buf = archive[v], ![c].todo = S]
    BY DEF RestoreVolume, BeginOp, Started
  <2> HIDE DEF S, s
  <2>2. DOMAIN o = Actor /\ o[c] = s /\ o = [b \in Actor |-> o[b]]
    BY <1>0 DEF Touched, VolumeTypeOK
  <2>3. op' = [o EXCEPT ![c] = r]
    <3> HIDE DEF o
    <3> QED BY <1>0, <2>1, <2>2
  <2> QED BY <1>0, <2>3, TouchedBegun
<1>3. r \in Operation /\ r.do = "restore" /\ r.vol = v /\ r.todo = S /\ r.buf = archive[v]
  <2>1. s = [do |-> "restore", vol |-> v, at |-> "copy", todo |-> {}, seen |-> None, buf |-> Empty, calm |-> TRUE]
    BY StartedOperation
  <2>2. s \in Operation /\ S \in SUBSET Name
    BY StartedOperation
  <2> HIDE DEF S, s
  <2> QED BY <1>1, <2>1, <2>2 DEF Operation
<1> HIDE DEF r
<1>4. /\ data' \in [Volume -> Directory \cup {None}] /\ data'[v] = Empty /\ data'[v] # None
      /\ \A w \in Volume \ {v} : data'[w] = data[w]
  BY <1>0, <1>1, StoreTypes, NothingIsNoDirectory DEF VolumeTypeOK
<1>5. Extracted(c)'
  <2>1. \A n \in Name : Empty[n] = IF n \in S THEN None ELSE archive[v][n]
    BY DEF Empty
  <2>2. \A n \in S : archive[v][n] # None
    OBVIOUS
  <2> HIDE DEF S
  <2> QED BY <1>2, <1>3, <1>4, <2>1, <2>2 DEF Extracted
<1>6. c \notin Task
  BY VolumeAssumptions
<1>7. meta' \in [Volume -> Owner] /\ root' \in [Image -> Directory] /\ archive' \in [Volume -> Directory \cup {None}]
  BY <1>0, <1>1 DEF VolumeTypeOK
<1> QED BY <1>0, <1>1, <1>2, <1>3, <1>4, <1>5, <1>6, <1>7, StepKeeps

\* An import counts as undisturbed only if it found the directory empty.
LEMMA InvImport ==
  ASSUME VolumeInv, NEW c \in Command, NEW v \in Volume, Import(c, v)
  PROVE  VolumeInv'
<1> DEFINE S == {n \in Name : archive[v][n] # None}
           s == Started("import", v, "meta")
           e == Stored(v) = {}
           r == [s EXCEPT !.buf = archive[v], !.todo = S, !.calm = e]
<1>0. VolumeTypeOK /\ c \in Actor
  BY DEF VolumeInv, Actor
<1>1. /\ meta' = meta /\ root' = root /\ archive' = archive
      /\ data' = [data EXCEPT ![v] = IF @ = None THEN Empty ELSE @]
      /\ archive[v] \in Directory
  BY <1>0 DEF Import, VolumeTypeOK
<1>2. op'[c] = r /\ OthersTouched(c, v)
  <2> DEFINE o == Touched([op EXCEPT ![c] = s], c, v)
  <2>1. op' = [o EXCEPT ![c].buf = archive[v], ![c].todo = S, ![c].calm = e]
    BY DEF Import, BeginOp, Started
  <2> HIDE DEF S, s, e
  <2>2. DOMAIN o = Actor /\ o[c] = s /\ o = [b \in Actor |-> o[b]]
    BY <1>0 DEF Touched, VolumeTypeOK
  <2>3. op' = [o EXCEPT ![c] = r]
    <3> HIDE DEF o
    <3> QED BY <1>0, <2>1, <2>2
  <2> QED BY <1>0, <2>3, TouchedBegun
<1>3. r \in Operation /\ r.do = "import" /\ r.vol = v /\ r.todo = S /\ r.buf = archive[v] /\ r.calm = e
  <2>1. s = [do |-> "import", vol |-> v, at |-> "meta", todo |-> {}, seen |-> None, buf |-> Empty, calm |-> TRUE]
    BY StartedOperation
  <2>2. s \in Operation /\ S \in SUBSET Name /\ e \in BOOLEAN
    BY StartedOperation
  <2> HIDE DEF S, s, e
  <2> QED BY <1>1, <2>1, <2>2 DEF Operation
<1> HIDE DEF r
<1>4. /\ data' \in [Volume -> Directory \cup {None}] /\ data'[v] # None
      /\ data'[v] = IF data[v] = None THEN Empty ELSE data[v]
      /\ \A w \in Volume \ {v} : data'[w] = data[w]
  BY <1>0, <1>1, StoreTypes, NothingIsNoDirectory DEF VolumeTypeOK
<1>5. Extracted(c)'
  <2>1. e => \A n \in Name : data'[v][n] = None
    BY <1>4 DEF Empty, Stored
  <2>2. e => \A n \in Name : data'[v][n] = IF n \in S THEN None ELSE archive[v][n]
    BY <2>1
  <2>3. \A n \in S : archive[v][n] # None
    OBVIOUS
  <2> HIDE DEF S, e
  <2> QED BY <1>2, <1>3, <1>4, <2>2, <2>3 DEF Extracted
<1>6. c \notin Task
  BY VolumeAssumptions
<1>7. meta' \in [Volume -> Owner] /\ root' \in [Image -> Directory] /\ archive' \in [Volume -> Directory \cup {None}]
  BY <1>0, <1>1 DEF VolumeTypeOK
<1> QED BY <1>0, <1>1, <1>2, <1>3, <1>4, <1>5, <1>6, <1>7, StepKeeps

LEMMA InvImportBlock ==
  ASSUME VolumeInv, NEW c \in Command, NEW v \in Volume, ImportBlock(c, v)
  PROVE  VolumeInv'
<1> DEFINE s == Started("import", v, "meta")
           r == [s EXCEPT !.calm = FALSE]
<1>0. VolumeTypeOK /\ c \in Actor
  BY DEF VolumeInv, Actor
<1>1. meta' = meta /\ root' = root /\ archive' = archive /\ data' = data
  BY DEF ImportBlock
<1>2. op'[c] = r /\ OthersTouched(c, v)
  <2> DEFINE o == Touched([op EXCEPT ![c] = s], c, v)
  <2>1. op' = [o EXCEPT ![c].calm = FALSE]
    BY DEF ImportBlock, BeginOp, Started
  <2> HIDE DEF s
  <2>2. DOMAIN o = Actor /\ o[c] = s /\ o = [b \in Actor |-> o[b]]
    BY <1>0 DEF Touched, VolumeTypeOK
  <2>3. op' = [o EXCEPT ![c] = r]
    <3> HIDE DEF o
    <3> QED BY <1>0, <2>1, <2>2
  <2> QED BY <1>0, <2>3, TouchedBegun
<1>3. r \in Operation /\ r.vol = v /\ r.todo = {} /\ r.calm = FALSE
  <2>1. s = [do |-> "import", vol |-> v, at |-> "meta", todo |-> {}, seen |-> None, buf |-> Empty, calm |-> TRUE]
    BY StartedOperation
  <2>2. s \in Operation
    BY StartedOperation
  <2> HIDE DEF s
  <2> QED BY <2>1, <2>2 DEF Operation
<1> HIDE DEF r
<1>4. Extracted(c)'
  BY <1>2, <1>3 DEF Extracted
<1>5. c \notin Task
  BY VolumeAssumptions
<1>6. /\ meta' \in [Volume -> Owner] /\ root' \in [Image -> Directory]
      /\ data' \in [Volume -> Directory \cup {None}] /\ archive' \in [Volume -> Directory \cup {None}]
  BY <1>0, <1>1 DEF VolumeTypeOK
<1> QED BY <1>0, <1>1, <1>2, <1>3, <1>4, <1>5, <1>6, StepKeeps

LEMMA InvExtract ==
  ASSUME VolumeInv, NEW c \in Command, Extract(c)
  PROVE  VolumeInv'
<1> DEFINE v == op[c].vol
           old == IF data[v] = None THEN Empty ELSE data[v]
<1>0. VolumeTypeOK /\ c \in Actor /\ op[c] \in Operation
  BY DEF VolumeInv, VolumeTypeOK, Actor
<1>1. meta' = meta /\ root' = root /\ archive' = archive /\ v \in Volume /\ op[c].do \in {"restore", "import"}
  BY <1>0 DEF Extract, VolumeTypeOK
<1>2. /\ meta' \in [Volume -> Owner] /\ root' \in [Image -> Directory] /\ archive' \in [Volume -> Directory \cup {None}]
  BY <1>0, <1>1 DEF VolumeTypeOK
<1>3. PICK n \in op[c].todo :
        /\ data' = [data EXCEPT ![v] = [old EXCEPT ![n] = Overwrite(@, op[c].buf[n])]]
        /\ op' = Touched([op EXCEPT ![c].todo = @ \ {n}], c, v)
  BY DEF Extract
<1> DEFINE d == [old EXCEPT ![n] = Overwrite(old[n], op[c].buf[n])]
           r == [op[c] EXCEPT !.todo = @ \ {n}]
<1>4. op[c].buf \in Directory /\ op[c].todo \subseteq Name /\ n \in Name
  BY <1>0 DEF Operation
<1>5. old \in Directory
  BY <1>0, <1>1, NothingIsNoDirectory DEF VolumeTypeOK
<1>6. data' = [data EXCEPT ![v] = d]
  <2> HIDE DEF old
  <2> QED BY <1>3, <1>4, <1>5 DEF Directory
<1>7. op' = Touched([op EXCEPT ![c] = r], c, v)
  BY <1>0, <1>3 DEF VolumeTypeOK
<1>8. /\ r \in Operation /\ r.do = op[c].do /\ r.vol = v
      /\ r.todo = op[c].todo \ {n} /\ r.buf = op[c].buf /\ r.calm = op[c].calm
  BY <1>0, <1>1 DEF Operation
<1> HIDE DEF r
<1>9. op'[c] = r /\ OthersTouched(c, v)
  BY <1>0, <1>7, TouchedOthers
<1>10. /\ d \in Directory /\ (old[n] = None => d[n] = op[c].buf[n])
       /\ \A m \in Name \ {n} : d[m] = old[m]
  <2>1. Overwrite(old[n], op[c].buf[n]) \in File
    BY <1>4, <1>5, NothingIsNoDirectory DEF Directory, Overwrite
  <2>2. old[n] = None => Overwrite(old[n], op[c].buf[n]) = op[c].buf[n]
    BY NothingIsNoDirectory DEF Overwrite
  <2> HIDE DEF old
  <2> QED BY <1>4, <1>5, <2>1, <2>2 DEF Directory
<1> HIDE DEF d
<1>11. /\ data' \in [Volume -> Directory \cup {None}] /\ data'[v] = d /\ d # None
       /\ \A w \in Volume \ {v} : data'[w] = data[w]
  BY <1>0, <1>1, <1>6, <1>10, NothingIsNoDirectory DEF VolumeTypeOK
<1>12. Extracted(c)'
  <2>1. /\ \A m \in op[c].todo : op[c].buf[m] # None
        /\ op[c].calm => /\ data[v] # None
                         /\ \A m \in Name : data[v][m] = IF m \in op[c].todo THEN None ELSE op[c].buf[m]
    BY <1>1 DEF VolumeInv, Extracted
  <2>2. op[c].calm => \A m \in Name : d[m] = IF m \in op[c].todo \ {n} THEN None ELSE op[c].buf[m]
    BY <1>4, <1>10, <2>1
  <2> HIDE DEF old
  <2> QED BY <1>1, <1>8, <1>9, <1>11, <2>1, <2>2 DEF Extracted
<1>13. c \notin Task
  BY VolumeAssumptions
<1> QED BY <1>0, <1>1, <1>2, <1>8, <1>9, <1>11, <1>12, <1>13, StepKeeps

-----------------------------------------------------------------------------
LEMMA VolumeInvInit == VolumeInit => VolumeInv
<1> SUFFICES ASSUME VolumeInit PROVE VolumeInv
  OBVIOUS
<1>1. \A a \in Actor : op[a] = Idle
  BY DEF VolumeInit
<1>2. VolumeTypeOK
  <2>1. meta \in [Volume -> Owner]
    BY DEF VolumeInit, Owner
  <2>2. data \in [Volume -> Directory \cup {None}] /\ archive \in [Volume -> Directory \cup {None}]
    BY DEF VolumeInit
  <2>3. root \in [Image -> Directory]
    BY NothingIsNoDirectory DEF VolumeInit
  <2>4. op \in [Actor -> Operation]
    BY IdleOperation DEF VolumeInit
  <2> QED BY <1>1, <2>1, <2>2, <2>3, <2>4, IdleOperation DEF VolumeTypeOK
<1>3. \A t \in Task : Copied(t)
  BY <1>1, IdleOperation DEF Copied, Actor
<1>4. \A c \in Command : Extracted(c)
  BY <1>1, IdleOperation DEF Extracted, Actor
<1> QED BY <1>2, <1>3, <1>4 DEF VolumeInv

\* A stuttering step.
LEMMA VolumeInvSame == ASSUME VolumeInv, UNCHANGED volumeVars PROVE VolumeInv'
<1>1. VolumeTypeOK'
  BY DEF VolumeInv, VolumeTypeOK, volumeVars
<1>2. \A t \in Task : Copied(t)'
  BY DEF VolumeInv, Copied, Stored, Rootfs, volumeVars
<1>3. \A c \in Command : Extracted(c)'
  BY DEF VolumeInv, Extracted, volumeVars
<1> QED BY <1>1, <1>2, <1>3 DEF VolumeInv

LEMMA VolumeInvNext == VolumeInv /\ [VolumeNext]_volumeVars => VolumeInv'
<1> SUFFICES ASSUME VolumeInv, [VolumeNext]_volumeVars PROVE VolumeInv'
  OBVIOUS
<1>1. ASSUME NEW c \in Command, NEW v \in Volume,
             \/ VolumeCreate(c, v) \/ VolumeImport(c, v) \/ Delete(c, v) \/ Snapshot(c, v) \/ Export(c, v)
             \/ RestoreVolume(c, v) \/ SwarmctlCreate(c, v) \/ SwarmctlRemove(c, v)
      PROVE  VolumeInv'
  <2>1. c \in Actor
    BY DEF Actor
  <2>2. CASE VolumeCreate(c, v)
    BY <2>1, <2>2, InvCreate, InvRemove DEF VolumeCreate
  <2>3. CASE VolumeImport(c, v)
    BY <2>3, InvImport, InvImportBlock DEF VolumeImport
  <2>4. CASE Delete(c, v) \/ SwarmctlCreate(c, v) \/ SwarmctlRemove(c, v)
    BY <2>4, InvRemove
  <2>5. CASE Snapshot(c, v) \/ Export(c, v)
    BY <2>5, InvArchive DEF Snapshot, Export
  <2>6. CASE RestoreVolume(c, v)
    BY <2>6, InvRestore
  <2> QED BY <1>1, <2>2, <2>3, <2>4, <2>5, <2>6
<1>2. ASSUME NEW c \in Command,
             \/ ArchiveCopy(c) \/ ArchiveFail(c) \/ SnapshotEnd(c) \/ ExportEnd(c)
             \/ Extract(c) \/ ExtractEnd(c)
      PROVE  VolumeInv'
  <2>1. c \in Actor
    BY DEF Actor
  <2> QED BY <1>2, <2>1, InvArchiveCopy, InvArchiveEnd, InvExtract, InvEnds
<1>3. ASSUME NEW t \in Task, NEW v \in Volume, MountKnown(t, v) \/ MountNew(t, v) \/ Unmount(t, v)
      PROVE  VolumeInv'
  BY <1>3, InvMountBegin, InvUnmount
<1>4. ASSUME NEW t \in Task,
             \/ MountStat(t) \/ MountCopy(t) \/ TouchRead(t) \/ TouchWrite(t)
             \/ UnmountCopy(t) \/ UnmountEnd(t)
      PROVE  VolumeInv'
  <2>1. t \in Actor
    BY DEF Actor
  <2> QED BY <1>4, <2>1, InvMountStat, InvMountCopy, InvMetadata, InvEnds, InvUnmountCopy
<1>5. ASSUME NEW a \in Actor,
             \/ WriteMeta(a) \/ WriteMetaFail(a) \/ OwnRead(a) \/ OwnWrite(a)
             \/ Return(a) \/ Abort(a) \/ AbortFile(a)
      PROVE  VolumeInv'
  BY <1>5, InvMetadata, InvEnds
<1> QED BY <1>1, <1>2, <1>3, <1>4, <1>5, InvVMWrite, VolumeInvSame DEF VolumeNext

\* The invariant of the volume manager: what a copy has still to write exists, and as
\* long as nobody else touches the volume what it has written has arrived.
THEOREM VolumeInvariant == VolumeSpec => []VolumeInv
BY VolumeInvInit, VolumeInvNext, PTL DEF VolumeSpec

\* A copy that ends undisturbed is complete, whatever other tasks and commands did to
\* other volumes, and whatever happened to this one before it began (UnmountVolume,
\* MountVolume, SnapshotVolume, RestoreVolume and Import).
THEOREM CopiesAreFaithful == VolumeSpec => UndisturbedCopies
<1> DEFINE T(t) == /\ UnmountEnd(t) /\ op[t].calm =>
                        \A n \in Name : Rootfs(t)[n] # None => data[op[t].vol][n] = Rootfs(t)[n]
                   /\ TouchRead(t) /\ op[t].calm =>
                        \A n \in Stored(op[t].vol) : Rootfs(t)[n] = data[op[t].vol][n]
           C(c) == op[c].calm =>
                     /\ ExtractEnd(c) => data[op[c].vol] = op[c].buf
                     /\ SnapshotEnd(c) => archive'[op[c].vol] = data[op[c].vol]
                     /\ ExportEnd(c) => \A n \in Name : archive'[op[c].vol][n] \in {None, data[op[c].vol][n]}
           P == (\A t \in Task : T(t)) /\ (\A c \in Command : C(c))
<1>1. VolumeInv => P
  <2> SUFFICES ASSUME VolumeInv PROVE P
    OBVIOUS
  <2>1. ASSUME NEW t \in Task PROVE T(t)
    BY DEF VolumeInv, Copied, UnmountEnd, TouchRead
  <2>2. ASSUME NEW c \in Command, ExtractEnd(c) \/ SnapshotEnd(c) \/ ExportEnd(c), op[c].calm
        PROVE  data[op[c].vol] = op[c].buf /\ op[c].vol \in Volume
    <3>1. op[c] \in Operation /\ op[c].vol \in Volume
      BY <2>2 DEF VolumeInv, VolumeTypeOK, Actor, ExtractEnd, SnapshotEnd, ExportEnd
    <3>2. data[op[c].vol] # None /\ \A n \in Name : data[op[c].vol][n] = op[c].buf[n]
      BY <2>2 DEF VolumeInv, Extracted, ExtractEnd, SnapshotEnd, ExportEnd
    <3>3. data[op[c].vol] \in Directory /\ op[c].buf \in Directory
      BY <3>1, <3>2 DEF VolumeInv, VolumeTypeOK, Operation
    <3> QED BY <3>1, <3>2, <3>3 DEF Directory
  <2>3. ASSUME NEW c \in Command PROVE C(c)
    <3>1. archive \in [Volume -> Directory \cup {None}]
      BY DEF VolumeInv, VolumeTypeOK
    <3>2. CASE ExtractEnd(c) /\ op[c].calm
      BY <2>2, <3>2 DEF ExtractEnd, SnapshotEnd, ExportEnd
    <3>3. CASE SnapshotEnd(c) /\ op[c].calm
      BY <2>2, <3>1, <3>3 DEF ExtractEnd, SnapshotEnd, ExportEnd
    <3>4. CASE ExportEnd(c) /\ op[c].calm
      <4> DEFINE v == op[c].vol
      <4>1. PICK lost \in SUBSET Name :
              archive' = [archive EXCEPT ![v] = [n \in Name |-> IF n \in lost THEN None ELSE op[c].buf[n]]]
        BY <3>4 DEF ExportEnd
      <4>2. v \in Volume /\ data[v] = op[c].buf
        BY <2>2, <3>4
      <4>3. ~ExtractEnd(c) /\ ~SnapshotEnd(c)
        BY <3>4 DEF ExtractEnd, SnapshotEnd, ExportEnd
      <4> HIDE DEF v
      <4>4. \A n \in Name : archive'[v][n] \in {None, data[v][n]}
        BY <3>1, <4>1, <4>2
      <4> QED BY <4>3, <4>4 DEF v
    <3> QED BY <3>2, <3>3, <3>4
  <2> QED BY <2>1, <2>3
<1>2. VolumeInv /\ [VolumeNext]_volumeVars => [P]_volumeVars
  BY <1>1
<1> QED BY <1>2, VolumeInvariant, PTL DEF VolumeSpec, UndisturbedCopies

\* The steps after which every file of every volume is still there: those that make the
\* directory if there is none ...
LEMMA MakingKeepsFiles ==
  ASSUME VolumeTypeOK, NEW w, data' = [data EXCEPT ![w] = IF @ = None THEN Empty ELSE @], NEW v \in Volume
  PROVE  Stored(v) \subseteq Stored(v)'
<1>1. data[v] # None => data'[v] = data[v]
  BY DEF VolumeTypeOK
<1> QED BY <1>1 DEF Stored

\* ... and those that put something into a file.
LEMMA WritingKeepsFiles ==
  ASSUME VolumeTypeOK, NEW w \in Volume, NEW d, NEW n \in Name, NEW x \in File, x # None,
         d \in Directory, data[w] # None => data[w] = d,
         data' = [data EXCEPT ![w] = [d EXCEPT ![n] = x]], NEW v \in Volume
  PROVE  Stored(v) \subseteq Stored(v)'
<1> SUFFICES ASSUME NEW m \in Stored(v) PROVE m \in Stored(v)'
  OBVIOUS
<1> DEFINE e == [d EXCEPT ![n] = x]
<1>1. m \in Name /\ data[v] # None /\ data[v][m] # None
  BY DEF Stored
<1>2. CASE v # w
  <2>1. data'[v] = data[v]
    BY <1>2 DEF VolumeTypeOK
  <2> QED BY <1>1, <2>1 DEF Stored
<1>3. CASE v = w
  <2>1. data'[v] = e
    BY <1>3 DEF VolumeTypeOK
  <2>2. e[m] # None
    BY <1>1, <1>3 DEF Directory
  <2>3. e \in Directory
    BY DEF Directory
  <2>4. e # None
    BY <2>3, NothingIsNoDirectory
  <2> HIDE DEF e
  <2> QED BY <1>1, <2>1, <2>2, <2>4 DEF Stored
<1> QED BY <1>2, <1>3

LEMMA CopiesKeepFiles ==
  ASSUME VolumeInv, NEW v \in Volume,
         \/ \E t \in Task : UnmountCopy(t)
         \/ \E c \in Command : Extract(c)
         \/ \E a \in Actor : AbortFile(a)
  PROVE  Stored(v) \subseteq Stored(v)'
<1>0. VolumeTypeOK
  BY DEF VolumeInv
<1>1. ASSUME NEW t \in Task, UnmountCopy(t) PROVE Stored(v) \subseteq Stored(v)'
  <2> DEFINE w == op[t].vol
  <2>1. op[t] \in Operation /\ w \in Volume /\ op[t].todo \subseteq Name
    BY <1>0, <1>1 DEF UnmountCopy, VolumeTypeOK, Actor, Operation
  <2>2. PICK n \in op[t].todo :
          \/ data' = data
          \/ data[w] # None /\ Rootfs(t)[n] # None /\ data' = [data EXCEPT ![w][n] = Rootfs(t)[n]]
    BY <1>1 DEF UnmountCopy
  <2>3. Rootfs(t)[n] \in File /\ n \in Name
    BY <1>0, <2>1, VolumeAssumptions DEF Rootfs, VolumeTypeOK, Directory
  <2>4. CASE data' = data
    BY <2>4 DEF Stored
  <2>5. CASE data[w] # None /\ Rootfs(t)[n] # None /\ data' = [data EXCEPT ![w][n] = Rootfs(t)[n]]
    <3>1. data[w] \in Directory
      BY <1>0, <2>1, <2>5 DEF VolumeTypeOK
    <3>2. data' = [data EXCEPT ![w] = [data[w] EXCEPT ![n] = Rootfs(t)[n]]]
      BY <2>5
    <3> HIDE DEF w
    <3> QED BY <1>0, <2>1, <2>3, <2>5, <3>1, <3>2, WritingKeepsFiles
  <2> QED BY <2>2, <2>4, <2>5
<1>2. ASSUME NEW c \in Command, Extract(c) PROVE Stored(v) \subseteq Stored(v)'
  <2> DEFINE w == op[c].vol
             old == IF data[w] = None THEN Empty ELSE data[w]
  <2>1. op[c] \in Operation /\ w \in Volume /\ op[c].todo \subseteq Name /\ op[c].buf \in Directory
    BY <1>0, <1>2 DEF Extract, VolumeTypeOK, Actor, Operation
  <2>2. old \in Directory /\ (data[w] # None => data[w] = old)
    BY <1>0, <2>1, NothingIsNoDirectory DEF VolumeTypeOK
  <2>3. PICK n \in op[c].todo : data' = [data EXCEPT ![w] = [old EXCEPT ![n] = Overwrite(@, op[c].buf[n])]]
    BY <1>2 DEF Extract
  <2> HIDE DEF old
  <2> DEFINE x == Overwrite(old[n], op[c].buf[n])
  <2>4. data' = [data EXCEPT ![w] = [old EXCEPT ![n] = x]]
    BY <2>1, <2>2, <2>3 DEF Directory
  <2>5. op[c].buf[n] # None /\ op[c].buf[n] \in File /\ n \in Name
    BY <1>2, <2>1 DEF Extract, VolumeInv, Extracted, Directory
  <2>6. x \in File /\ x # None
    BY <2>5, NothingIsNoDirectory DEF Overwrite
  <2> HIDE DEF w, x
  <2> QED BY <1>0, <2>1, <2>2, <2>4, <2>5, <2>6, WritingKeepsFiles
<1>3. ASSUME NEW a \in Actor, AbortFile(a) PROVE Stored(v) \subseteq Stored(v)'
  <2> DEFINE w == op[a].vol
  <2>1. op[a] \in Operation /\ w \in Volume /\ op[a].todo \subseteq Name /\ data[w] # None
    BY <1>0, <1>3 DEF AbortFile, VolumeTypeOK, Operation
  <2>2. PICK n \in op[a].todo : data' = [data EXCEPT ![w][n] = Torn]
    BY <1>3 DEF AbortFile
  <2>3. data' = [data EXCEPT ![w] = [data[w] EXCEPT ![n] = Torn]] /\ n \in Name
    BY <2>1, <2>2
  <2>4. data[w] \in Directory
    BY <1>0, <2>1 DEF VolumeTypeOK
  <2> HIDE DEF w
  <2> QED BY <1>0, <2>1, <2>3, <2>4, NothingIsNoDirectory, WritingKeepsFiles
<1> QED BY <1>1, <1>2, <1>3

\* Whose steps may take the files of v away.
Removes(v) ==
  \/ \E c \in Command : Delete(c, v) \/ SwarmctlRemove(c, v) \/ RestoreVolume(c, v) \/ CreateBlockFail(c, v)
  \/ \E a \in Actor : WriteMetaFail(a) /\ op[a].vol = v

\* A step that replaces or removes the directory of w leaves those of the others.
LEMMA RemovingKeepsOthers ==
  ASSUME VolumeTypeOK, NEW w, NEW x, data' = [data EXCEPT ![w] = x], NEW v \in Volume, v # w
  PROVE  Stored(v) \subseteq Stored(v)'
<1>1. data'[v] = data[v]
  BY DEF VolumeTypeOK
<1> QED BY <1>1 DEF Stored

LEMMA FilesStay ==
  ASSUME VolumeInv, [VolumeNext]_volumeVars, NEW v \in Volume, ~Removes(v)
  PROVE  Stored(v) \subseteq Stored(v)'
<1>0. VolumeTypeOK
  BY DEF VolumeInv
<1>1. CASE data' = data
  BY <1>1 DEF Stored
<1>2. ASSUME NEW c \in Command, NEW w \in Volume,
             \/ VolumeCreate(c, w) \/ VolumeImport(c, w) \/ Delete(c, w) \/ Snapshot(c, w) \/ Export(c, w)
             \/ RestoreVolume(c, w) \/ SwarmctlCreate(c, w) \/ SwarmctlRemove(c, w)
      PROVE  Stored(v) \subseteq Stored(v)'
  <2>1. CASE CreateDir(c, w) \/ Import(c, w)
    BY <1>0, <2>1, MakingKeepsFiles DEF CreateDir, Import
  <2>2. CASE CreateBlock(c, w) \/ ImportBlock(c, w) \/ Snapshot(c, w) \/ Export(c, w) \/ SwarmctlCreate(c, w)
    BY <1>1, <2>2 DEF CreateBlock, ImportBlock, Snapshot, Export, Archive, SwarmctlCreate
  <2>3. CASE CreateBlockFail(c, w) \/ Delete(c, w) \/ SwarmctlRemove(c, w) \/ RestoreVolume(c, w)
    <3>1. v # w
      BY <2>3 DEF Removes
    <3>2. \E x : data' = [data EXCEPT ![w] = x]
      BY <2>3 DEF CreateBlockFail, Delete, SwarmctlRemove, RestoreVolume, RemoveVolumeDir
    <3> QED BY <1>0, <3>1, <3>2, RemovingKeepsOthers
  <2> QED BY <1>2, <2>1, <2>2, <2>3 DEF VolumeCreate, VolumeImport
<1>3. ASSUME NEW c \in Command,
             \/ ArchiveCopy(c) \/ ArchiveFail(c) \/ SnapshotEnd(c) \/ ExportEnd(c)
             \/ Extract(c) \/ ExtractEnd(c)
      PROVE  Stored(v) \subseteq Stored(v)'
  BY <1>1, <1>3, CopiesKeepFiles DEF ArchiveCopy, ArchiveFail, SnapshotEnd, ExportEnd, ExtractEnd
<1>4. ASSUME NEW t \in Task, NEW w \in Volume, MountKnown(t, w) \/ MountNew(t, w) \/ Unmount(t, w)
      PROVE  Stored(v) \subseteq Stored(v)'
  BY <1>0, <1>1, <1>4, MakingKeepsFiles DEF MountKnown, MountNew, Unmount
<1>5. ASSUME NEW t \in Task,
             \/ MountStat(t) \/ MountCopy(t) \/ TouchRead(t) \/ TouchWrite(t)
             \/ UnmountCopy(t) \/ UnmountEnd(t)
      PROVE  Stored(v) \subseteq Stored(v)'
  BY <1>1, <1>5, CopiesKeepFiles DEF MountStat, MountCopy, TouchRead, TouchWrite, UnmountEnd
<1>6. ASSUME NEW a \in Actor,
             \/ WriteMeta(a) \/ WriteMetaFail(a) \/ OwnRead(a) \/ OwnWrite(a)
             \/ Return(a) \/ Abort(a) \/ AbortFile(a)
      PROVE  Stored(v) \subseteq Stored(v)'
  <2>1. CASE WriteMetaFail(a)
    <3>1. op[a].vol # v
      BY <2>1 DEF Removes
    <3>2. data' = [data EXCEPT ![op[a].vol] = None]
      BY <2>1 DEF WriteMetaFail, RemoveVolumeDir
    <3> QED BY <1>0, <3>1, <3>2, RemovingKeepsOthers
  <2>2. CASE ~WriteMetaFail(a)
    BY <1>1, <1>6, <2>2, CopiesKeepFiles DEF WriteMeta, OwnRead, OwnWrite, Return, Abort
  <2> QED BY <2>1, <2>2
<1>7. CASE UNCHANGED volumeVars
  BY <1>1, <1>7 DEF volumeVars
<1>8. ASSUME NEW i \in Image, VMWrite(i) PROVE Stored(v) \subseteq Stored(v)'
  BY <1>1, <1>8 DEF VMWrite
<1> QED BY <1>2, <1>3, <1>4, <1>5, <1>6, <1>7, <1>8 DEF VolumeNext

\* A file leaves a volume only through a delete, a restore or a roll-back, whatever the
\* tasks and commands do at the same time and wherever they fail (UnmountVolume, Import,
\* MountVolume and CreateVolumeWithOptions keep what they find).
THEOREM FilesAreKept == VolumeSpec => FilesLeaveOnPurpose
<1> DEFINE P == \A v \in Volume : \A n \in Stored(v) : n \notin Stored(v)' => 
                  \/ \E c \in Command : Delete(c, v) \/ SwarmctlRemove(c, v) \/ RestoreVolume(c, v)
                                          \/ CreateBlockFail(c, v)
                  \/ \E a \in Actor : WriteMetaFail(a) /\ op[a].vol = v
<1>1. VolumeInv /\ [VolumeNext]_volumeVars => P
  BY FilesStay DEF Removes
<1>2. VolumeInv /\ [VolumeNext]_volumeVars => [P]_volumeVars
  BY <1>1
<1> QED BY <1>2, VolumeInvariant, PTL DEF VolumeSpec, FilesLeaveOnPurpose

=============================================================================
