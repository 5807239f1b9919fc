--------------------------- MODULE StateFileProofs --------------------------
(***************************************************************************)
(* Proofs about StateFile, for any number of IDs and processes and any     *)
(* number of crashes, failed writes and reboots: as long as no two         *)
(* commands overlap, the file loads, keeps what was saved, and a list      *)
(* leaves no stale entry.                                                  *)
(***************************************************************************)
EXTENDS StateFile, FiniteSetTheorems, TLAPS

\* A copy is complete when it is written into an empty file.
LEMMA OverwriteEmpty ==
  ASSUME NEW m \in Map
  PROVE  Overwrite(Empty, m) = List(m)
<1>1. {i \in ID : Nobody[i] # "none"} = {}
  BY DEF Nobody
<1>2. Entries(Nobody) = 0
  BY <1>1, FS_EmptySet DEF Entries
<1>3. Entries(m) \in Nat
  <2> DEFINE S == {i \in ID : m[i] # "none"}
  <2>1. IsFiniteSet(S)
    BY StateAssumptions, FS_Subset
  <2> QED BY <2>1, FS_CardinalityType DEF Entries
<1>4. ~(Entries(Empty.map) > Entries(m)) /\ Empty # Corrupt
  BY <1>2, <1>3 DEF Empty, Corrupt
<1> QED BY <1>4 DEF Overwrite

LEMMA ContentOf ==
  /\ Nobody \in Map /\ Absent \in Content /\ Empty \in Content /\ Corrupt \in Content
  /\ \A m \in Map : List(m) \in Content /\ List(m).kind = "list" /\ List(m).map = m
  /\ Absent.kind = "absent" /\ Absent.map = Nobody
  /\ \A m \in Map, x \in Content : Overwrite(x, m) \in Content
<1>1. Nobody \in Map
  BY DEF Nobody, Map
<1> QED BY <1>1 DEF Absent, Empty, Corrupt, List, Content, Overwrite

LEMMA StateInvInit == Init => StateInv
<1> SUFFICES ASSUME Init PROVE StateInv
  OBVIOUS
<1>1. TypeOK
  BY ContentOf DEF Init, TypeOK, Ended
<1>2. Active = {}
  BY DEF Init, Active, Ended
<1>3. Solo
  BY <1>2, ContentOf DEF Init, Solo
<1> QED BY <1>1, <1>3 DEF StateInv

\* While a process runs alone, it is the only active one.
LEMMA Alone ==
  ASSUME StateInv, NEW p \in Proc, pc[p] \notin Ended, ~overlap
  PROVE  Active = {p} /\ Knows(p) /\ \A q \in Proc : q # p => pc[q] \in Ended /\ fd[q] = "none"
  BY DEF StateInv, Solo, Active

\* A command begins: it loads the file.
LEMMA StateInvBegin ==
  ASSUME StateInv, NEW p \in Proc, NEW c \in {"run", "stop", "list"}, Begin(p, c)
  PROVE  StateInv'
<1>1. TypeOK'
  <2>1. file.map \in Map
    BY DEF StateInv, TypeOK, Content
  <2> QED BY <2>1 DEF StateInv, TypeOK, Begin, Goto, Ended
<1>2. ASSUME ~overlap' PROVE Solo'
  <2>1. ~overlap /\ Active = {}
    BY <1>2 DEF Begin
  <2>2. \A q \in Proc : pc[q] \in Ended /\ fd[q] = "none"
    BY <2>1 DEF Active, StateInv, Solo
  <2>3. \A q \in Proc : fd'[q] = "none" /\ (q # p => pc'[q] \in Ended)
    BY <2>2 DEF Begin, Goto, StateInv, TypeOK
  <2>4. file'.kind \in {"absent", "list"} /\ \A i \in saved' : file'.map[i] # "none"
    BY <2>1 DEF Begin, StateInv, Solo
  <2>5. mem'[p] = file'.map /\ pc'[p] \in {"start", "edit", "failed"}
    BY DEF Begin, Goto, StateInv, TypeOK
  <2>6. pc'[p] \notin Ended => Knows(p)'
    BY <2>3, <2>4, <2>5 DEF Knows, Saving, Ended
  <2> QED BY <2>3, <2>4, <2>6 DEF Solo, Active
<1>3. ASSUME overlap' PROVE Solo'
  BY <1>3 DEF Solo
<1> QED BY <1>1, <1>2, <1>3 DEF StateInv

\* The VM is started: a socket more.
LEMMA StateInvStart ==
  ASSUME StateInv, NEW p \in Proc, StartVM(p)
  PROVE  StateInv'
<1>1. TypeOK'
  BY ContentOf DEF StartVM, StateInv, TypeOK, Goto, Ended, Map
<1>2. ASSUME ~overlap' PROVE Solo'
  <2>1. ~overlap /\ pc[p] \notin Ended
    BY <1>2 DEF StartVM, Ended, Active
  <2>2. Knows(p) /\ \A q \in Proc : q # p => pc[q] \in Ended /\ fd[q] = "none"
    BY <2>1, Alone
  <2>3. \A q \in Proc : q # p => pc'[q] \in Ended /\ fd'[q] = "none"
    BY <2>2 DEF StartVM, Goto, StateInv, TypeOK
  <2>4. file'.kind \in {"absent", "list"} /\ \A i \in saved' : file'.map[i] # "none"
    BY <2>1 DEF StartVM, StateInv, Solo
  <2>5. IF pc'[p] \in Ended THEN fd'[p] = "none" ELSE Knows(p)'
    BY <2>2 DEF StartVM, Goto, StateInv, TypeOK, Ended, Knows, Saving, Stale, IsRunning, Map
  <2> QED BY <2>3, <2>4, <2>5 DEF Solo, Active
<1>3. ASSUME overlap' PROVE Solo'
  BY <1>3 DEF Solo
<1> QED BY <1>1, <1>2, <1>3 DEF StateInv

LEMMA StateInvStartFail ==
  ASSUME StateInv, NEW p \in Proc, StartFail(p)
  PROVE  StateInv'
<1>1. TypeOK'
  BY ContentOf DEF StartFail, StateInv, TypeOK, Goto, Ended, Map
<1>2. ASSUME ~overlap' PROVE Solo'
  <2>1. ~overlap /\ pc[p] \notin Ended
    BY <1>2 DEF StartFail, Ended, Active
  <2>2. Knows(p) /\ \A q \in Proc : q # p => pc[q] \in Ended /\ fd[q] = "none"
    BY <2>1, Alone
  <2>3. \A q \in Proc : q # p => pc'[q] \in Ended /\ fd'[q] = "none"
    BY <2>2 DEF StartFail, Goto, StateInv, TypeOK
  <2>4. file'.kind \in {"absent", "list"} /\ \A i \in saved' : file'.map[i] # "none"
    BY <2>1 DEF StartFail, StateInv, Solo
  <2>5. IF pc'[p] \in Ended THEN fd'[p] = "none" ELSE Knows(p)'
    BY <2>2 DEF StartFail, Goto, StateInv, TypeOK, Ended, Knows, Saving, Stale, IsRunning, Map
  <2> QED BY <2>3, <2>4, <2>5 DEF Solo, Active
<1>3. ASSUME overlap' PROVE Solo'
  BY <1>3 DEF Solo
<1> QED BY <1>1, <1>2, <1>3 DEF StateInv

\* The copy gets the new entry.
LEMMA StateInvAdd ==
  ASSUME StateInv, NEW p \in Proc, Add(p)
  PROVE  StateInv'
<1>1. TypeOK'
  BY ContentOf DEF Add, StateInv, TypeOK, Goto, Ended, Map
<1>2. ASSUME ~overlap' PROVE Solo'
  <2>1. ~overlap /\ pc[p] \notin Ended
    BY <1>2 DEF Add, Ended, Active
  <2>2. Knows(p) /\ \A q \in Proc : q # p => pc[q] \in Ended /\ fd[q] = "none"
    BY <2>1, Alone
  <2>3. \A q \in Proc : q # p => pc'[q] \in Ended /\ fd'[q] = "none"
    BY <2>2 DEF Add, Goto, StateInv, TypeOK
  <2>4. file'.kind \in {"absent", "list"} /\ \A i \in saved' : file'.map[i] # "none"
    BY <2>1 DEF Add, StateInv, Solo
  <2>5. IF pc'[p] \in Ended THEN fd'[p] = "none" ELSE Knows(p)'
    BY <2>2 DEF Add, Goto, StateInv, TypeOK, Ended, Knows, Saving, Stale, IsRunning, Map
  <2> QED BY <2>3, <2>4, <2>5 DEF Solo, Active
<1>3. ASSUME overlap' PROVE Solo'
  BY <1>3 DEF Solo
<1> QED BY <1>1, <1>2, <1>3 DEF StateInv

LEMMA StateInvStopMissing ==
  ASSUME StateInv, NEW p \in Proc, StopMissing(p)
  PROVE  StateInv'
<1>1. TypeOK'
  BY ContentOf DEF StopMissing, StateInv, TypeOK, Goto, Ended, Map
<1>2. ASSUME ~overlap' PROVE Solo'
  <2>1. ~overlap /\ pc[p] \notin Ended
    BY <1>2 DEF StopMissing, Ended, Active
  <2>2. Knows(p) /\ \A q \in Proc : q # p => pc[q] \in Ended /\ fd[q] = "none"
    BY <2>1, Alone
  <2>3. \A q \in Proc : q # p => pc'[q] \in Ended /\ fd'[q] = "none"
    BY <2>2 DEF StopMissing, Goto, StateInv, TypeOK
  <2>4. file'.kind \in {"absent", "list"} /\ \A i \in saved' : file'.map[i] # "none"
    BY <2>1 DEF StopMissing, StateInv, Solo
  <2>5. IF pc'[p] \in Ended THEN fd'[p] = "none" ELSE Knows(p)'
    BY <2>2 DEF StopMissing, Goto, StateInv, TypeOK, Ended, Knows, Saving, Stale, IsRunning, Map
  <2> QED BY <2>3, <2>4, <2>5 DEF Solo, Active
<1>3. ASSUME overlap' PROVE Solo'
  BY <1>3 DEF Solo
<1> QED BY <1>1, <1>2, <1>3 DEF StateInv

\* The entry of the copy is marked.
LEMMA StateInvStop ==
  ASSUME StateInv, NEW p \in Proc, StopVM(p)
  PROVE  StateInv'
<1>1. TypeOK'
  BY ContentOf DEF StopVM, StateInv, TypeOK, Goto, Ended, Map
<1>2. ASSUME ~overlap' PROVE Solo'
  <2>1. ~overlap /\ pc[p] \notin Ended
    BY <1>2 DEF StopVM, Ended, Active
  <2>2. Knows(p) /\ \A q \in Proc : q # p => pc[q] \in Ended /\ fd[q] = "none"
    BY <2>1, Alone
  <2>3. \A q \in Proc : q # p => pc'[q] \in Ended /\ fd'[q] = "none"
    BY <2>2 DEF StopVM, Goto, StateInv, TypeOK
  <2>4. file'.kind \in {"absent", "list"} /\ \A i \in saved' : file'.map[i] # "none"
    BY <2>1 DEF StopVM, StateInv, Solo
  <2>5. IF pc'[p] \in Ended THEN fd'[p] = "none" ELSE Knows(p)'
    BY <2>2 DEF StopVM, Goto, StateInv, TypeOK, Ended, Knows, Saving, Stale, IsRunning, Map
  <2> QED BY <2>3, <2>4, <2>5 DEF Solo, Active
<1>3. ASSUME overlap' PROVE Solo'
  BY <1>3 DEF Solo
<1> QED BY <1>1, <1>2, <1>3 DEF StateInv

\* No entry of the copy is stale any more.
LEMMA StateInvReconcile ==
  ASSUME StateInv, NEW p \in Proc, Reconcile(p)
  PROVE  StateInv'
<1>1. TypeOK'
  BY ContentOf DEF Reconcile, StateInv, TypeOK, Goto, Ended, Map
<1>2. ASSUME ~overlap' PROVE Solo'
  <2>1. ~overlap /\ pc[p] \notin Ended
    BY <1>2 DEF Reconcile, Ended, Active
  <2>2. Knows(p) /\ \A q \in Proc : q # p => pc[q] \in Ended /\ fd[q] = "none"
    BY <2>1, Alone
  <2>3. \A q \in Proc : q # p => pc'[q] \in Ended /\ fd'[q] = "none"
    BY <2>2 DEF Reconcile, Goto, StateInv, TypeOK
  <2>4. file'.kind \in {"absent", "list"} /\ \A i \in saved' : file'.map[i] # "none"
    BY <2>1 DEF Reconcile, StateInv, Solo
  <2>5. IF pc'[p] \in Ended THEN fd'[p] = "none" ELSE Knows(p)'
    BY <2>2 DEF Reconcile, Goto, StateInv, TypeOK, Ended, Knows, Saving, Stale, IsRunning, Map
  <2> QED BY <2>3, <2>4, <2>5 DEF Solo, Active
<1>3. ASSUME overlap' PROVE Solo'
  BY <1>3 DEF Solo
<1> QED BY <1>1, <1>2, <1>3 DEF StateInv

\* The temporary file is truncated.
LEMMA StateInvOpen ==
  ASSUME StateInv, NEW p \in Proc, SaveOpen(p)
  PROVE  StateInv'
<1>1. TypeOK'
  BY ContentOf DEF SaveOpen, StateInv, TypeOK, Goto, Ended, Map
<1>2. ASSUME ~overlap' PROVE Solo'
  <2>1. ~overlap /\ pc[p] \notin Ended
    BY <1>2 DEF SaveOpen, Ended, Active
  <2>2. Knows(p) /\ \A q \in Proc : q # p => pc[q] \in Ended /\ fd[q] = "none"
    BY <2>1, Alone
  <2>3. \A q \in Proc : q # p => pc'[q] \in Ended /\ fd'[q] = "none"
    BY <2>2 DEF SaveOpen, Goto, StateInv, TypeOK
  <2>4. file'.kind \in {"absent", "list"} /\ \A i \in saved' : file'.map[i] # "none"
    BY <2>1 DEF SaveOpen, StateInv, Solo
  <2>5. IF pc'[p] \in Ended THEN fd'[p] = "none" ELSE Knows(p)'
    BY <2>2 DEF SaveOpen, Goto, StateInv, TypeOK, Ended, Knows, Saving, Stale, IsRunning, Map
  <2> QED BY <2>3, <2>4, <2>5 DEF Solo, Active
<1>3. ASSUME overlap' PROVE Solo'
  BY <1>3 DEF Solo
<1> QED BY <1>1, <1>2, <1>3 DEF StateInv

\* It is empty when the copy is written.
LEMMA StateInvWrite ==
  ASSUME StateInv, NEW p \in Proc, SaveWrite(p)
  PROVE  StateInv'
<1>1. TypeOK'
  BY ContentOf DEF SaveWrite, StateInv, TypeOK, Goto, Ended, Map
<1>2. ASSUME ~overlap' PROVE Solo'
  <2>1. ~overlap /\ pc[p] \notin Ended
    BY <1>2 DEF SaveWrite, Ended, Active
  <2>2. Knows(p) /\ \A q \in Proc : q # p => pc[q] \in Ended /\ fd[q] = "none"
    BY <2>1, Alone
  <2>3. \A q \in Proc : q # p => pc'[q] \in Ended /\ fd'[q] = "none"
    BY <2>2 DEF SaveWrite, Goto, StateInv, TypeOK
  <2>4. file'.kind \in {"absent", "list"} /\ \A i \in saved' : file'.map[i] # "none"
    <3>1. file' = file /\ saved' = saved
      BY <2>1, <2>2 DEF SaveWrite, Knows
    <3> QED BY <2>1, <3>1 DEF StateInv, Solo
  <2>5. IF pc'[p] \in Ended THEN fd'[p] = "none" ELSE Knows(p)'
    <3>1. tmp = Empty /\ fd[p] = "tmp" /\ mem[p] \in Map
      BY <2>2 DEF SaveWrite, Knows, StateInv, TypeOK
    <3>2. tmp' = List(mem[p])
      BY <3>1, OverwriteEmpty DEF SaveWrite
    <3>3. pc'[p] = "rename" /\ fd'[p] = "none" /\ mem'[p] = mem[p] /\ UNCHANGED <<cmd, id, saved, socket>>
      BY DEF SaveWrite, Goto, StateInv, TypeOK
    <3> QED BY <2>2, <3>2, <3>3 DEF Knows, Saving, SaveWrite, Stale, IsRunning, Ended
  <2> QED BY <2>3, <2>4, <2>5 DEF Solo, Active
<1>3. ASSUME overlap' PROVE Solo'
  BY <1>3 DEF Solo
<1> QED BY <1>1, <1>2, <1>3 DEF StateInv

\* A write fails: the state file was not touched.
LEMMA StateInvWriteFail ==
  ASSUME StateInv, NEW p \in Proc, WriteFail(p)
  PROVE  StateInv'
<1>1. TypeOK'
  BY ContentOf DEF WriteFail, Fault, StateInv, TypeOK, Goto, Ended, Map
<1>2. ASSUME ~overlap' PROVE Solo'
  <2>1. ~overlap /\ pc[p] \notin Ended
    BY <1>2 DEF WriteFail, Ended, Active
  <2>2. Knows(p) /\ \A q \in Proc : q # p => pc[q] \in Ended /\ fd[q] = "none"
    BY <2>1, Alone
  <2>3. \A q \in Proc : q # p => pc'[q] \in Ended /\ fd'[q] = "none"
    BY <2>2 DEF WriteFail, Goto, StateInv, TypeOK
  <2>4. file'.kind \in {"absent", "list"} /\ \A i \in saved' : file'.map[i] # "none"
    BY <2>1 DEF WriteFail, StateInv, Solo
  <2>5. IF pc'[p] \in Ended THEN fd'[p] = "none" ELSE Knows(p)'
    BY <2>2 DEF WriteFail, Goto, StateInv, TypeOK, Ended, Knows, Saving, Stale, IsRunning, Map
  <2> QED BY <2>3, <2>4, <2>5 DEF Solo, Active
<1>3. ASSUME overlap' PROVE Solo'
  BY <1>3 DEF Solo
<1> QED BY <1>1, <1>2, <1>3 DEF StateInv

\* The complete copy becomes the state file.
LEMMA StateInvRename ==
  ASSUME StateInv, NEW p \in Proc, SaveRename(p)
  PROVE  StateInv'
<1>1. TypeOK'
  BY ContentOf DEF SaveRename, StateInv, TypeOK, Goto, Ended, Map
<1>2. ASSUME ~overlap' PROVE Solo'
  <2>1. ~overlap /\ pc[p] \notin Ended
    BY <1>2 DEF SaveRename, Ended, Active
  <2>2. Knows(p) /\ \A q \in Proc : q # p => pc[q] \in Ended /\ fd[q] = "none"
    BY <2>1, Alone
  <2>3. \A q \in Proc : q # p => pc'[q] \in Ended /\ fd'[q] = "none"
    BY <2>2 DEF SaveRename, Goto, StateInv, TypeOK
  <2>4. file'.kind \in {"absent", "list"} /\ \A i \in saved' : file'.map[i] # "none"
    <3>1. file' = List(mem[p]) /\ mem[p] \in Map
      BY <2>2 DEF SaveRename, Knows, StateInv, TypeOK
    <3>2. \A i \in saved' : mem[p][i] # "none"
      BY <2>2 DEF SaveRename, Knows, Saving
    <3> QED BY <3>1, <3>2, ContentOf
  <2>5. IF pc'[p] \in Ended THEN fd'[p] = "none" ELSE Knows(p)'
    <3>1. fd[p] = "none"
      BY <2>2 DEF SaveRename, Knows
    <3> QED BY <3>1 DEF SaveRename, Goto, StateInv, TypeOK, Ended
  <2> QED BY <2>3, <2>4, <2>5 DEF Solo, Active
<1>3. ASSUME overlap' PROVE Solo'
  BY <1>3 DEF Solo
<1> QED BY <1>1, <1>2, <1>3 DEF StateInv

LEMMA StateInvRenameFail ==
  ASSUME StateInv, NEW p \in Proc, RenameFail(p)
  PROVE  StateInv'
<1>1. TypeOK'
  BY ContentOf DEF RenameFail, StateInv, TypeOK, Goto, Ended, Map
<1>2. ASSUME ~overlap' PROVE Solo'
  <2>1. ~overlap /\ pc[p] \notin Ended
    BY <1>2 DEF RenameFail, Ended, Active
  <2>2. Knows(p) /\ \A q \in Proc : q # p => pc[q] \in Ended /\ fd[q] = "none"
    BY <2>1, Alone
  <2>3. \A q \in Proc : q # p => pc'[q] \in Ended /\ fd'[q] = "none"
    BY <2>2 DEF RenameFail, Goto, StateInv, TypeOK
  <2>4. file'.kind \in {"absent", "list"} /\ \A i \in saved' : file'.map[i] # "none"
    BY <2>1 DEF RenameFail, StateInv, Solo
  <2>5. IF pc'[p] \in Ended THEN fd'[p] = "none" ELSE Knows(p)'
    BY <2>2 DEF RenameFail, Goto, StateInv, TypeOK, Ended, Knows, Saving, Stale, IsRunning, Map
  <2> QED BY <2>3, <2>4, <2>5 DEF Solo, Active
<1>3. ASSUME overlap' PROVE Solo'
  BY <1>3 DEF Solo
<1> QED BY <1>1, <1>2, <1>3 DEF StateInv

\* The process is killed.
LEMMA StateInvCrash ==
  ASSUME StateInv, NEW p \in Proc, Crash(p)
  PROVE  StateInv'
<1>1. TypeOK'
  BY ContentOf DEF Crash, Fault, StateInv, TypeOK, Goto, Ended, Map
<1>2. ASSUME ~overlap' PROVE Solo'
  <2>1. ~overlap /\ pc[p] \notin Ended
    BY <1>2 DEF Crash, Ended, Active
  <2>2. Knows(p) /\ \A q \in Proc : q # p => pc[q] \in Ended /\ fd[q] = "none"
    BY <2>1, Alone
  <2>3. \A q \in Proc : q # p => pc'[q] \in Ended /\ fd'[q] = "none"
    BY <2>2 DEF Crash, Goto, StateInv, TypeOK
  <2>4. file'.kind \in {"absent", "list"} /\ \A i \in saved' : file'.map[i] # "none"
    BY <2>1 DEF Crash, StateInv, Solo
  <2>5. IF pc'[p] \in Ended THEN fd'[p] = "none" ELSE Knows(p)'
    BY <2>2 DEF Crash, Goto, StateInv, TypeOK, Ended, Knows, Saving, Stale, IsRunning, Map
  <2> QED BY <2>3, <2>4, <2>5 DEF Solo, Active
<1>3. ASSUME overlap' PROVE Solo'
  BY <1>3 DEF Solo
<1> QED BY <1>1, <1>2, <1>3 DEF StateInv

LEMMA StateInvExit ==
  ASSUME StateInv, NEW p \in Proc, Exit(p)
  PROVE  StateInv'
  BY DEF Exit, StateInv, TypeOK, Solo, Active, Knows, Saving, Stale, IsRunning

LEMMA StateInvReboot ==
  ASSUME StateInv, Reboot
  PROVE  StateInv'
<1>1. TypeOK'
  BY DEF Reboot, Fault, StateInv, TypeOK, Ended
<1>2. Active' = {}
  BY DEF Reboot, Active, Ended, StateInv, TypeOK
<1>3. Solo'
  BY <1>2 DEF Reboot, StateInv, Solo
<1> QED BY <1>1, <1>3 DEF StateInv

LEMMA StateInvNext == StateInv /\ [Next]_vars => StateInv'
<1> SUFFICES ASSUME StateInv, [Next]_vars PROVE StateInv'
  OBVIOUS
<1>1. CASE UNCHANGED vars
  BY <1>1 DEF vars, StateInv, TypeOK, Solo, Active, Knows, Saving, Stale, IsRunning
<1> QED BY <1>1, StateInvBegin, StateInvStart, StateInvStartFail, StateInvAdd, StateInvStopMissing,
           StateInvStop, StateInvReconcile, StateInvOpen, StateInvWrite, StateInvWriteFail,
           StateInvRename, StateInvRenameFail, StateInvCrash, StateInvExit, StateInvReboot DEF Next

-----------------------------------------------------------------------------
\* The inductive invariant holds of every sequence of commands, crashes and reboots.
THEOREM StateInvariant == Spec => []StateInv
  BY StateInvInit, StateInvNext, PTL DEF Spec

\* The atomic rename works: without overlapping commands the state file always loads
\* (FileLoads).
THEOREM FileAlwaysLoads == Spec => []FileLoads
<1>1. StateInv => FileLoads
  BY DEF StateInv, Solo, FileLoads
<1> QED BY <1>1, StateInvariant, PTL

\* An entry that was reported as saved stays (SavedStays).
THEOREM SavedEntriesStay == Spec => []SavedStays
<1>1. StateInv => SavedStays
  BY DEF StateInv, Solo, SavedStays
<1> QED BY <1>1, StateInvariant, PTL

\* A list that nothing overlapped leaves no stale entry (Reconciled).
THEOREM ListReconciles == Spec => Reconciled
<1>1. ASSUME StateInv, Next, NEW p \in Proc, ~overlap, cmd[p] = "list",
             pc[p] \in {"edit", "rename"}, pc'[p] = "ok"
      PROVE  Stale(file'.map) = {}
  <2>1. Knows(p) /\ \A q \in Proc : q # p => pc[q] \in Ended
    BY <1>1, Alone DEF Ended
  <2>2. CASE Reconcile(p)
    BY <1>1, <2>1, <2>2 DEF Reconcile, Knows, Goto, StateInv, TypeOK
  <2>3. CASE SaveRename(p)
    <3>1. file' = List(mem[p]) /\ Stale(mem[p]) = {}
      BY <1>1, <2>1, <2>3 DEF SaveRename, Knows, Saving
    <3>2. mem[p] \in Map
      BY <1>1 DEF StateInv, TypeOK
    <3> QED BY <3>1, <3>2, ContentOf
  <2>4. CASE RenameFail(p)
    <3>1. tmp = List(mem[p]) /\ tmp = Absent
      BY <2>1, <2>4 DEF RenameFail, Knows
    <3> QED BY <3>1 DEF List, Absent
  <2> QED
    <3>1. pc'[p] # pc[p]
      BY <1>1
    <3>2. \A q \in Proc : q # p => ~(StartVM(q) \/ StartFail(q) \/ Add(q) \/ StopMissing(q) \/ StopVM(q)
            \/ Reconcile(q) \/ SaveOpen(q) \/ SaveWrite(q) \/ WriteFail(q) \/ SaveRename(q)
            \/ RenameFail(q) \/ Crash(q))
      BY <2>1 DEF StartVM, StartFail, Add, StopMissing, StopVM, Reconcile, SaveOpen, SaveWrite,
                  WriteFail, SaveRename, RenameFail, Crash, Active, Ended
    <3>3. \A q \in Proc, c \in {"run", "stop", "list"} : Begin(q, c) => pc'[p] # "ok"
      BY <1>1 DEF Begin, Goto, StateInv, TypeOK
    <3>4. ~Reboot /\ \A q \in Proc : ~Exit(q)
      BY <1>1 DEF Reboot, Exit, Active, Ended, StateInv, TypeOK
    <3>5. ~(StartVM(p) \/ StartFail(p) \/ Add(p) \/ StopMissing(p) \/ StopVM(p) \/ SaveOpen(p)
            \/ SaveWrite(p) \/ WriteFail(p) \/ Crash(p))
      BY <1>1 DEF StartVM, StartFail, Add, StopMissing, StopVM, SaveOpen, SaveWrite, WriteFail, Crash,
                  Goto, StateInv, TypeOK
    <3> QED BY <1>1, <2>2, <2>3, <2>4, <3>2, <3>3, <3>4, <3>5 DEF Next
<1>2. StateInv /\ [Next]_vars =>
        [ \A p \in Proc :
            (~overlap /\ cmd[p] = "list" /\ pc[p] \in {"edit", "rename"} /\ pc'[p] = "ok")
              => Stale(file'.map) = {} ]_vars
  BY <1>1
<1> QED BY <1>2, StateInvariant, PTL DEF Spec, Reconciled

=============================================================================
