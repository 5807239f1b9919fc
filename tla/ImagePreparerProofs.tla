------------------------ MODULE ImagePreparerProofs -------------------------
(***************************************************************************)
(* Proofs about ImagePreparer, for any number of tasks and images and any  *)
(* contents: the lock and the second look keep a finished root filesystem  *)
(* from being built again, and what Prepare hands out is finished, but for *)
(* the exceptions that HandsOutFinished names.                             *)
(***************************************************************************)
EXTENDS ImagePreparer, TLAPS

LEMMA FileOfTask == ASSUME TypeOK, NEW t \in Task PROVE FileOf(t) \in File
  BY DEF TypeOK, FileOf, File

\* Whatever the tree was, injection leaves an /init in it.
LEMMA InjectedHasInit ==
  ASSUME NEW tree, InitSystem
  PROVE  "init" \in InjectNetworkConfig(InjectEssentials(InjectIntoDir(tree)))
<1>1. "init" \in InjectIntoDir(tree)
  BY DEF InjectIntoDir
<1>2. "init" \in InjectEssentials(InjectIntoDir(tree))
  BY <1>1 DEF InjectEssentials
<1> QED BY <1>2 DEF InjectNetworkConfig

LEMMA ImageInvInit == Init => ImageInv
<1> SUFFICES ASSUME Init PROVE ImageInv
  OBVIOUS
<1>1. TypeOK
  BY DEF Init, TypeOK, Absent, NoTmp
<1>2. \A f \in File : files[f].state = "absent"
  BY DEF Init, Absent
<1> QED BY <1>1, <1>2 DEF Init, ImageInv, Locked, Unbuilt, Finished, Writing, Applied

\* The first look, without the lock.
LEMMA ImageInvCheck ==
  ASSUME ImageInv, NEW t \in Task, Check(t)
  PROVE  ImageInv'
<1> USE DEF ImageInv, Check, Goto
<1>f. \A u \in Task : FileOf(u) \in File
  BY FileOfTask
<1>1. TypeOK'
  BY <1>f DEF TypeOK
<1>2. Locked'
  BY <1>f DEF TypeOK, Locked, FileOf
<1>3. Unbuilt'
  BY <1>f, SMTT(60) DEF TypeOK, Unbuilt, FileOf
<1>4. Applied'
  BY <1>f DEF TypeOK, Applied, FileOf, Good
<1>5. Finished'
  BY <1>f DEF TypeOK, Finished, Writing, FileOf, Good
<1> QED BY <1>1, <1>2, <1>3, <1>4, <1>5

\* The lock is free when it is taken.
LEMMA ImageInvLock ==
  ASSUME ImageInv, NEW t \in Task, Lock(t) \/ LockFail(t)
  PROVE  ImageInv'
<1> USE DEF ImageInv, Lock, LockFail, Goto
<1>f. \A u \in Task : FileOf(u) \in File
  BY FileOfTask
<1>1. TypeOK'
  BY <1>f DEF TypeOK
<1>2. Locked'
  <2>1. CASE Lock(t)
    <3>1. \A u \in Task : pc[u] \in {"recheck", "pull", "inject", "mkfs", "format"} => FileOf(u) # FileOf(t)
      BY <2>1, <1>f, ImageAssumptions DEF Locked
    <3>2. lock'[FileOf(t)] = t /\ \A g \in File : g # FileOf(t) => lock'[g] = lock[g]
      BY <2>1, <1>f DEF TypeOK
    <3>3. \A u \in Task : FileOf(u)' = FileOf(u) /\ (u # t => pc'[u] = pc[u])
      BY <2>1 DEF FileOf, TypeOK
    <3> QED BY <1>f, <3>1, <3>2, <3>3 DEF Locked, FileOf
  <2>2. CASE LockFail(t)
    BY <1>f, <2>2 DEF TypeOK, Locked, FileOf
  <2> QED BY <2>1, <2>2
<1>3. Unbuilt'
  BY <1>f, SMTT(60) DEF TypeOK, Unbuilt, FileOf
<1>4. Applied'
  BY <1>f DEF TypeOK, Applied, FileOf, Good
<1>5. Finished'
  BY <1>f DEF TypeOK, Finished, Writing, FileOf, Good
<1> QED BY <1>1, <1>2, <1>3, <1>4, <1>5

\* The second look, under the lock.
LEMMA ImageInvRecheck ==
  ASSUME ImageInv, NEW t \in Task, Recheck(t)
  PROVE  ImageInv'
<1> USE DEF ImageInv, Recheck, Goto, Unlock
<1>f. \A u \in Task : FileOf(u) \in File
  BY FileOfTask
<1>1. TypeOK'
  BY <1>f DEF TypeOK
<1>2. Locked'
  BY <1>f, ImageAssumptions, ZenonT(60) DEF TypeOK, Locked, FileOf, Unlock
<1>3. Unbuilt'
  BY <1>f, SMTT(60) DEF TypeOK, Unbuilt, FileOf, Verified
<1>4. Applied'
  <2>1. ~Writing(FileOf(t))
    BY <1>f DEF Writing, Locked
  <2>2. Verified(FileOf(t)) => FileOf(t) \in torn \/ Good(FileOf(t))
    BY <1>f, <2>1 DEF Finished, Verified
  <2>3. pc'[t] = "apply" => Verified(FileOf(t))
    BY DEF TypeOK
  <2>4. \A u \in Task : u # t => pc'[u] = pc[u]
    BY DEF TypeOK
  <2> QED BY <2>2, <2>3, <2>4 DEF Applied, FileOf, Good
<1>5. Finished'
  BY <1>f DEF TypeOK, Finished, Writing, FileOf, Good
<1> QED BY <1>1, <1>2, <1>3, <1>4, <1>5

LEMMA ImageInvPull ==
  ASSUME ImageInv, NEW t \in Task, PullRegistry(t) \/ PullFallback(t)
  PROVE  ImageInv'
<1> USE DEF ImageInv, PullRegistry, PullFallback, Goto
<1>f. \A u \in Task : FileOf(u) \in File
  BY FileOfTask
<1>1. TypeOK'
  BY <1>f DEF TypeOK
<1>2. Locked'
  BY <1>f DEF TypeOK, Locked, FileOf
<1>3. Unbuilt'
  BY <1>f DEF TypeOK, Unbuilt, FileOf
<1>4. Applied'
  BY <1>f DEF TypeOK, Applied, FileOf, Good
<1>5. Finished'
  BY <1>f DEF TypeOK, Finished, Writing, FileOf, Good
<1> QED BY <1>1, <1>2, <1>3, <1>4, <1>5

LEMMA ImageInvPullFail ==
  ASSUME ImageInv, NEW t \in Task, PullFail(t)
  PROVE  ImageInv'
<1> USE DEF ImageInv, PullFail, Goto, Unlock
<1>f. \A u \in Task : FileOf(u) \in File
  BY FileOfTask
<1>1. TypeOK'
  BY <1>f DEF TypeOK
<1>2. Locked'
  BY <1>f, ImageAssumptions DEF TypeOK, Locked, FileOf, Unlock
<1>3. Unbuilt'
  BY <1>f DEF TypeOK, Unbuilt, FileOf
<1>4. Applied'
  BY <1>f DEF TypeOK, Applied, FileOf, Good
<1>5. Finished'
  BY <1>f DEF TypeOK, Finished, Writing, FileOf, Good
<1> QED BY <1>1, <1>2, <1>3, <1>4, <1>5

\* The tree gets an /init.
LEMMA ImageInvInject ==
  ASSUME ImageInv, NEW t \in Task, Inject(t)
  PROVE  ImageInv'
<1> USE DEF ImageInv, Inject, Goto
<1>f. \A u \in Task : FileOf(u) \in File
  BY FileOfTask
<1>1. TypeOK'
  BY <1>f DEF TypeOK
<1>2. Locked'
  BY <1>f DEF TypeOK, Locked, FileOf
<1>3. Unbuilt'
  BY <1>f, InjectedHasInit DEF TypeOK, Unbuilt, FileOf
<1>4. Applied'
  BY <1>f DEF TypeOK, Applied, FileOf, Good
<1>5. Finished'
  BY <1>f DEF TypeOK, Finished, Writing, FileOf, Good
<1> QED BY <1>1, <1>2, <1>3, <1>4, <1>5

\* Nothing good is overwritten.
LEMMA ImageInvMkfs ==
  ASSUME ImageInv, NEW t \in Task, Mkfs(t)
  PROVE  ImageInv'
<1> USE DEF ImageInv, Mkfs, Goto
<1>f. \A u \in Task : FileOf(u) \in File
  BY FileOfTask
<1>n. \A u \in Task : pc[u] = "apply" /\ FileOf(u) = FileOf(t) => u \in swept
  BY <1>f DEF Applied, Good, Unbuilt, Finished
<1>o. \A u \in Task : u # t /\ FileOf(u) = FileOf(t) => pc[u] \notin {"recheck", "pull", "inject", "mkfs", "format"}
  BY <1>f DEF Locked
<1>1. TypeOK'
  BY <1>f DEF TypeOK, Absent
<1>2. Locked'
  BY <1>f DEF TypeOK, Locked, FileOf
<1>3. Unbuilt'
  <2>1. files'[FileOf(t)].state = "partial"
    BY <1>f DEF TypeOK, Absent
  <2>2. \A f \in File : f # FileOf(t) => files'[f] = files[f]
    BY <1>f DEF TypeOK
  <2> QED BY <1>f, <1>o, <2>1, <2>2 DEF TypeOK, Unbuilt, FileOf
<1>4. Applied'
  <2>2. \A f \in File : f # FileOf(t) => files'[f] = files[f]
    BY <1>f DEF TypeOK
  <2> QED BY <1>f, <1>n, <2>2 DEF TypeOK, Applied, FileOf, Good
<1>5. Finished'
  <2>1. \A f \in File : f # FileOf(t) => files'[f] = files[f]
    BY <1>f DEF TypeOK
  <2>2. files'[FileOf(t)].state = "partial"
    BY <1>f DEF TypeOK, Absent
  <2>3. FileOf(t) \notin torn
    BY <1>f DEF Finished, Unbuilt
  <2>4. Writing(FileOf(t))' /\ \A f \in File : f # FileOf(t) => Writing(f)' = Writing(f)
    BY DEF TypeOK, Writing, FileOf
  <2>5. \A f \in File : f # FileOf(t) => Good(f)' = Good(f)
    BY <2>1 DEF Good
  <2>6. torn' = torn /\ FileOf(t)' = FileOf(t)
    BY DEF FileOf
  <2> HIDE DEF Mkfs
  <2> QED BY <2>1, <2>2, <2>3, <2>4, <2>5, <2>6 DEF Finished, Good
<1> QED BY <1>1, <1>2, <1>3, <1>4, <1>5

\* What is written has an /init.
LEMMA ImageInvFormat ==
  ASSUME ImageInv, NEW t \in Task, Format(t)
  PROVE  ImageInv'
<1> USE DEF ImageInv, Format, Goto, Unlock
<1>f. \A u \in Task : FileOf(u) \in File
  BY FileOfTask
<1>n. \A u \in Task : pc[u] = "apply" /\ FileOf(u) = FileOf(t) => u \in swept
  <2>1. Writing(FileOf(t)) /\ files[FileOf(t)].state # "whole"
    BY DEF Writing, Unbuilt
  <2> QED BY <1>f, <2>1 DEF Applied, Good, Finished
<1>o. \A u \in Task : u # t /\ FileOf(u) = FileOf(t) => pc[u] \notin {"recheck", "pull", "inject", "mkfs", "format"}
  BY <1>f DEF Locked
<1>1. TypeOK'
  BY <1>f DEF TypeOK, NoTmp
<1>2. Locked'
  BY <1>f, ImageAssumptions DEF TypeOK, Locked, FileOf, Unlock
<1>3. Unbuilt'
  <2>1. \A f \in File : f # FileOf(t) => files'[f] = files[f]
    BY <1>f DEF TypeOK
  <2>2. \A u \in Task : u # t => tmp'[u] = tmp[u]
    BY DEF TypeOK
  <2> QED BY <1>f, <1>o, <2>1, <2>2, ZenonT(60) DEF TypeOK, Unbuilt, FileOf
<1>4. Applied'
  <2>1. \A f \in File : f # FileOf(t) => files'[f] = files[f]
    BY <1>f DEF TypeOK
  <2>2. t \in swept \/ (files'[FileOf(t)].state = "whole" /\ (InitSystem => "init" \in files'[FileOf(t)].tree))
    BY <1>f DEF TypeOK, Unbuilt
  <2> QED BY <1>f, <1>n, <2>1, <2>2 DEF TypeOK, Applied, FileOf, Good
<1>5. Finished'
  <2>1. \A f \in File : f # FileOf(t) => files'[f] = files[f]
    BY <1>f DEF TypeOK
  <2>2. \/ files'[FileOf(t)].state = "absent"
        \/ files'[FileOf(t)].state = "whole" /\ (InitSystem => "init" \in files'[FileOf(t)].tree)
    BY <1>f DEF TypeOK, Unbuilt, Absent
  <2>3. FileOf(t) \notin torn
    BY <1>f DEF Finished, Writing
  <2>4. \A f \in File : f # FileOf(t) => Writing(f)' = Writing(f)
    BY DEF TypeOK, Writing, FileOf
  <2>5. \A f \in File : f # FileOf(t) => Good(f)' = Good(f)
    BY <2>1 DEF Good
  <2>6. torn' = torn /\ FileOf(t)' = FileOf(t)
    BY DEF FileOf
  <2> HIDE DEF Format
  <2> QED BY <2>1, <2>2, <2>3, <2>4, <2>5, <2>6 DEF Finished, Good
<1> QED BY <1>1, <1>2, <1>3, <1>4, <1>5

\* The partial file goes.
LEMMA ImageInvFormatFail ==
  ASSUME ImageInv, NEW t \in Task, FormatFail(t)
  PROVE  ImageInv'
<1> USE DEF ImageInv, FormatFail, Goto, Unlock
<1>f. \A u \in Task : FileOf(u) \in File
  BY FileOfTask
<1>n. \A u \in Task : pc[u] = "apply" /\ FileOf(u) = FileOf(t) => u \in swept
  <2>1. Writing(FileOf(t)) /\ files[FileOf(t)].state # "whole"
    BY DEF Writing, Unbuilt
  <2> QED BY <1>f, <2>1 DEF Applied, Good, Finished
<1>o. \A u \in Task : u # t /\ FileOf(u) = FileOf(t) => pc[u] \notin {"recheck", "pull", "inject", "mkfs", "format"}
  BY <1>f DEF Locked
<1>1. TypeOK'
  BY <1>f DEF TypeOK, NoTmp, Absent
<1>2. Locked'
  BY <1>f, ImageAssumptions DEF TypeOK, Locked, FileOf, Unlock
<1>3. Unbuilt'
  <2>1. \A f \in File : f # FileOf(t) => files'[f] = files[f]
    BY <1>f DEF TypeOK
  <2>2. \A u \in Task : u # t => tmp'[u] = tmp[u]
    BY DEF TypeOK
  <2> QED BY <1>f, <1>o, <2>1, <2>2 DEF TypeOK, Unbuilt, FileOf
<1>4. Applied'
  <2>1. \A f \in File : f # FileOf(t) => files'[f] = files[f]
    BY <1>f DEF TypeOK
  <2> QED BY <1>f, <1>n, <2>1 DEF TypeOK, Applied, FileOf, Good
<1>5. Finished'
  <2>1. \A f \in File : f # FileOf(t) => files'[f] = files[f]
    BY <1>f DEF TypeOK
  <2>2. files'[FileOf(t)].state = "absent"
    BY <1>f DEF TypeOK, Unbuilt, Absent
  <2>3. FileOf(t) \notin torn
    BY <1>f DEF Finished, Writing
  <2>4. \A f \in File : f # FileOf(t) => Writing(f)' = Writing(f)
    BY DEF TypeOK, Writing, FileOf
  <2>5. \A f \in File : f # FileOf(t) => Good(f)' = Good(f)
    BY <2>1 DEF Good
  <2>6. torn' = torn /\ FileOf(t)' = FileOf(t)
    BY DEF FileOf
  <2> HIDE DEF FormatFail
  <2> QED BY <2>1, <2>2, <2>3, <2>4, <2>5, <2>6 DEF Finished, Good
<1> QED BY <1>1, <1>2, <1>3, <1>4, <1>5

LEMMA ImageInvApply ==
  ASSUME ImageInv, NEW t \in Task, Apply(t)
  PROVE  ImageInv'
<1> USE DEF ImageInv, Apply, Goto
<1>f. \A u \in Task : FileOf(u) \in File
  BY FileOfTask
<1>1. TypeOK'
  BY <1>f DEF TypeOK
<1>2. Locked'
  BY <1>f DEF TypeOK, Locked, FileOf
<1>3. Unbuilt'
  BY <1>f DEF TypeOK, Unbuilt, FileOf
<1>4. Applied'
  BY <1>f DEF TypeOK, Applied, FileOf, Good
<1>5. Finished'
  BY <1>f DEF TypeOK, Finished, Writing, FileOf, Good
<1> QED BY <1>1, <1>2, <1>3, <1>4, <1>5

\* An error after the pull: the lock and the temporary tree go.
LEMMA ImageInvFail ==
  ASSUME ImageInv, NEW t \in Task, Fail(t)
  PROVE  ImageInv'
<1> USE DEF ImageInv, Fail, Goto, Unlock
<1>f. \A u \in Task : FileOf(u) \in File
  BY FileOfTask
<1>1. TypeOK'
  BY <1>f DEF TypeOK, NoTmp
<1>2. Locked'
  BY <1>f, ImageAssumptions DEF TypeOK, Locked, FileOf, Unlock
<1>3. Unbuilt'
  BY <1>f DEF TypeOK, Unbuilt, FileOf
<1>4. Applied'
  BY <1>f DEF TypeOK, Applied, FileOf, Good
<1>5. Finished'
  BY <1>f DEF TypeOK, Finished, Writing, FileOf, Good
<1> QED BY <1>1, <1>2, <1>3, <1>4, <1>5

LEMMA ImageInvRelease ==
  ASSUME ImageInv, NEW t \in Task, Release(t)
  PROVE  ImageInv'
<1> USE DEF ImageInv, Release, Goto
<1>f. \A u \in Task : FileOf(u) \in File
  BY FileOfTask
<1>1. TypeOK'
  BY <1>f DEF TypeOK
<1>2. Locked'
  BY <1>f DEF TypeOK, Locked, FileOf
<1>3. Unbuilt'
  BY <1>f DEF TypeOK, Unbuilt, FileOf
<1>4. Applied'
  BY <1>f DEF TypeOK, Applied, FileOf, Good
<1>5. Finished'
  BY <1>f DEF TypeOK, Finished, Writing, FileOf, Good
<1> QED BY <1>1, <1>2, <1>3, <1>4, <1>5

\* A file that is removed is noted for every call that works on it.
LEMMA ImageInvRollback ==
  ASSUME ImageInv, NEW t \in Task, Rollback(t)
  PROVE  ImageInv'
<1> USE DEF ImageInv, Rollback, Goto, Unlink
<1>f. \A u \in Task : FileOf(u) \in File
  BY FileOfTask
<1>n. \A u \in Task : \/ files'[FileOf(u)] = files[FileOf(u)]
                      \/ pc'[u] # "idle" => u \in swept'
  BY <1>f DEF TypeOK
<1>1. TypeOK'
  BY <1>f DEF TypeOK, Absent
<1>2. Locked'
  BY <1>f DEF TypeOK, Locked, FileOf
<1>3. Unbuilt'
  <2>1. \A g \in File : files'[g] = files[g] \/ files'[g].state = "absent"
    BY DEF TypeOK, Absent
  <2> QED BY <1>f, <1>n, <2>1, SMTT(60) DEF TypeOK, Unbuilt, FileOf
<1>4. Applied'
  <2> QED BY <1>f, <1>n DEF TypeOK, Applied, FileOf, Good
<1>5. Finished'
  <2> DEFINE gone == given[t]
  <2>1. \A g \in File : IF g = gone THEN files'[g].state = "absent" ELSE files'[g] = files[g]
    BY DEF TypeOK, Absent
  <2>2. torn' = torn \ {gone}
    OBVIOUS
  <2>3. \A g \in File : Writing(g)' = Writing(g)
    BY DEF TypeOK, Writing, FileOf
  <2>4. \A g \in File : g # gone => Good(g)' = Good(g)
    BY <2>1 DEF Good
  <2> HIDE DEF gone, Rollback
  <2> QED BY <2>1, <2>2, <2>3, <2>4 DEF Finished, Good
<1> QED BY <1>1, <1>2, <1>3, <1>4, <1>5

LEMMA ImageInvRemove ==
  ASSUME ImageInv, NEW f \in File, CleanupRemove(f)
  PROVE  ImageInv'
<1> USE DEF ImageInv, CleanupRemove, Unlink
<1>f. \A u \in Task : FileOf(u) \in File
  BY FileOfTask
<1>n. \A u \in Task : \/ files'[FileOf(u)] = files[FileOf(u)]
                      \/ pc'[u] # "idle" => u \in swept'
  BY <1>f DEF TypeOK
<1>1. TypeOK'
  BY <1>f DEF TypeOK, Absent
<1>2. Locked'
  BY <1>f DEF TypeOK, Locked, FileOf
<1>3. Unbuilt'
  <2>1. \A g \in File : files'[g] = files[g] \/ files'[g].state = "absent"
    BY DEF TypeOK, Absent
  <2> QED BY <1>f, <1>n, <2>1, SMTT(60) DEF TypeOK, Unbuilt, FileOf
<1>4. Applied'
  <2> QED BY <1>f, <1>n DEF TypeOK, Applied, FileOf, Good
<1>5. Finished'
  <2> DEFINE gone == f
  <2>1. \A g \in File : IF g = gone THEN files'[g].state = "absent" ELSE files'[g] = files[g]
    BY DEF TypeOK, Absent
  <2>2. torn' = torn \ {gone}
    OBVIOUS
  <2>3. \A g \in File : Writing(g)' = Writing(g)
    BY DEF TypeOK, Writing, FileOf
  <2>4. \A g \in File : g # gone => Good(g)' = Good(g)
    BY <2>1 DEF Good
  <2> HIDE DEF gone, CleanupRemove
  <2> QED BY <2>1, <2>2, <2>3, <2>4 DEF Finished, Good
<1> QED BY <1>1, <1>2, <1>3, <1>4, <1>5

LEMMA ImageInvStat ==
  ASSUME ImageInv, NEW f \in File, CleanupStat(f)
  PROVE  ImageInv'
<1> USE DEF ImageInv, CleanupStat
<1>f. \A u \in Task : FileOf(u) \in File
  BY FileOfTask
<1>1. TypeOK'
  BY <1>f DEF TypeOK
<1>2. Locked'
  BY <1>f DEF TypeOK, Locked, FileOf
<1>3. Unbuilt'
  BY <1>f DEF TypeOK, Unbuilt, FileOf
<1>4. Applied'
  BY <1>f DEF TypeOK, Applied, FileOf, Good
<1>5. Finished'
  BY <1>f DEF TypeOK, Finished, Writing, FileOf, Good
<1> QED BY <1>1, <1>2, <1>3, <1>4, <1>5

\* A file grows older and stays what it is.
LEMMA ImageInvDay ==
  ASSUME ImageInv, Day
  PROVE  ImageInv'
<1> USE DEF ImageInv, Day
<1>f. \A u \in Task : FileOf(u) \in File
  BY FileOfTask
<1>n. \A g \in File : files'[g].state = files[g].state /\ files'[g].tree = files[g].tree
  BY DEF TypeOK
<1>1. TypeOK'
  BY <1>f DEF TypeOK
<1>2. Locked'
  BY <1>f DEF TypeOK, Locked, FileOf
<1>3. Unbuilt'
  <2>1. \A u \in Task : /\ FileOf(u)' = FileOf(u)
                        /\ files'[FileOf(u)].state = files[FileOf(u)].state
    BY <1>f, <1>n DEF FileOf
  <2>2. UNCHANGED <<pc, tmp, swept>>
    BY DEF Day
  <2> HIDE DEF Day
  <2> QED
    BY <2>1, <2>2 DEF Unbuilt
<1>4. Applied'
  BY <1>f, <1>n, ZenonT(60) DEF TypeOK, Applied, FileOf, Good
<1>5. Finished'
  BY <1>n DEF Finished, Writing, FileOf, Good
<1> QED BY <1>1, <1>2, <1>3, <1>4, <1>5

LEMMA ImageInvCrash ==
  ASSUME ImageInv, Crash
  PROVE  ImageInv'
<1> USE DEF ImageInv, Crash
<1>f. \A u \in Task : FileOf(u) \in File
  BY FileOfTask
<1>1. TypeOK'
  BY DEF TypeOK, NoTmp
<1>2. Locked'
  BY <1>f DEF TypeOK, Locked, FileOf
<1>3. Unbuilt'
  BY <1>f DEF TypeOK, Unbuilt, FileOf
<1>4. Applied'
  BY <1>f DEF TypeOK, Applied, FileOf, Good
<1>5. Finished'
  BY <1>f DEF TypeOK, Finished, Writing, FileOf, Good
<1> QED BY <1>1, <1>2, <1>3, <1>4, <1>5

LEMMA ImageInvNext == ImageInv /\ [Next]_vars => ImageInv'
<1> SUFFICES ASSUME ImageInv, [Next]_vars PROVE ImageInv'
  OBVIOUS
<1>1. CASE UNCHANGED vars
  BY <1>1 DEF vars, ImageInv, TypeOK, Locked, Unbuilt, Finished, Writing, Applied, FileOf, Good
<1>2. ASSUME NEW t \in Task, Check(t) \/ Lock(t) \/ LockFail(t) \/ Step(t) \/ Release(t) \/ Rollback(t)
      PROVE  ImageInv'
  BY <1>2, ImageInvCheck, ImageInvLock, ImageInvRecheck, ImageInvPull, ImageInvPullFail, ImageInvInject,
     ImageInvMkfs, ImageInvFormat, ImageInvFormatFail, ImageInvApply, ImageInvFail, ImageInvRelease,
     ImageInvRollback DEF Step
<1> QED BY <1>1, <1>2, ImageInvStat, ImageInvRemove, ImageInvDay, ImageInvCrash DEF Next

-----------------------------------------------------------------------------
\* The inductive invariant holds of every behaviour of the Prepare calls, Cleanup, the
\* roll-backs and crashes.
THEOREM ImageInvariant == Spec => []ImageInv
  BY ImageInvInit, ImageInvNext, PTL DEF Spec

\* A finished root filesystem is never built again (GoodIsKept).
THEOREM GoodFilesKept == Spec => GoodIsKept
<1>1. ASSUME ImageInv, Next, NEW f \in File, files[f].state = "whole"
      PROVE  files'[f].state # "partial"
  <2> USE FileOfTask DEF ImageInv
  <2>1. ASSUME NEW t \in Task, Mkfs(t) PROVE files'[f].state # "partial"
    <3>1. FileOf(t) # f
      BY <1>1, <2>1 DEF Mkfs, Unbuilt
    <3> QED BY <1>1, <2>1, <3>1 DEF Mkfs, TypeOK
  <2>2. ASSUME NEW t \in Task, Format(t) \/ FormatFail(t) PROVE files'[f].state # "partial"
    BY <1>1, <2>2 DEF Format, FormatFail, TypeOK, Absent
  <2>3. ASSUME NEW t \in Task, Rollback(t) PROVE files'[f].state # "partial"
    BY <1>1, <2>3 DEF Rollback, Unlink, TypeOK, Absent
  <2>4. ASSUME NEW g \in File, CleanupRemove(g) PROVE files'[f].state # "partial"
    BY <1>1, <2>4 DEF CleanupRemove, Unlink, TypeOK, Absent
  <2>5. CASE Day
    BY <1>1, <2>5 DEF Day, TypeOK
  <2>6. CASE UNCHANGED files
    BY <1>1, <2>6
  <2> QED BY <1>1, <2>1, <2>2, <2>3, <2>4, <2>5, <2>6 DEF Next, Step, Check, Lock, LockFail, Recheck,
        PullRegistry, PullFallback, PullFail, Inject, Apply, Fail, Release, CleanupStat, Crash
<1>2. ImageInv /\ [Next]_vars =>
        [\A f \in File : files[f].state = "whole" => files'[f].state # "partial"]_vars
  BY <1>1
<1> QED BY <1>2, ImageInvariant, PTL DEF Spec, GoodIsKept

\* What Prepare hands out is finished and has its /init (HandsOutFinished): a call that
\* took the lock is never given a file that another one writes or has failed to write.
\* What is left are the files that were removed under the call, those that a crash has
\* left, and those that the first look, without the lock, finds while they are written.
THEOREM HandedOutFinished == Spec => HandsOutFinished
<1> DEFINE Fine(t) ==
      \/ /\ files'[given'[t]].state = "whole"
         /\ InitSystem => "init" \in files'[given'[t]].tree
      \/ t \in swept' \/ given'[t] \in torn
      \/ pc[t] = "idle" /\ \E u \in Task : pc[u] = "format" /\ FileOf(u) = given'[t]
<1>1. ASSUME ImageInv, Next, NEW t \in Task, given[t] = None, given'[t] # None
      PROVE  Fine(t)
  <2>f. FileOf(t) \in File
    BY <1>1, FileOfTask DEF ImageInv
  <2>1. CASE Check(t)
    <3>1. given'[t] = FileOf(t) /\ Verified(FileOf(t)) /\ pc[t] = "idle" /\ files' = files
      BY <1>1, <2>1 DEF Check, ImageInv, TypeOK
    <3>2. \/ Good(FileOf(t)) \/ FileOf(t) \in torn \/ Writing(FileOf(t))
      BY <1>1, <2>f, <3>1 DEF ImageInv, Finished, Verified
    <3> QED BY <3>1, <3>2 DEF Good, Writing
  <2>2. CASE Apply(t)
    <3>1. given'[t] = FileOf(t) /\ pc[t] = "apply" /\ files' = files /\ swept' = swept
      BY <1>1, <2>2 DEF Apply, ImageInv, TypeOK
    <3> QED BY <1>1, <3>1 DEF ImageInv, Applied, Good
  <2> HIDE DEF Fine
  <2>3. ASSUME NEW u \in Task, u # t, Check(u) \/ Apply(u) PROVE FALSE
    BY <1>1, <2>3 DEF Check, Apply, TypeOK, ImageInv
  <2>4. ASSUME NEW u \in Task, Release(u) \/ Rollback(u) PROVE FALSE
    BY <1>1, <2>4 DEF Release, Rollback, TypeOK, ImageInv
  <2>5. ~Crash
    BY <1>1 DEF Crash
  <2>6. given' # given
    BY <1>1
  <2> QED BY <1>1, <2>1, <2>2, <2>3, <2>4, <2>5, <2>6 DEF Next, Step, Lock, LockFail, Recheck,
        PullRegistry, PullFallback, PullFail, Inject, Mkfs, Format, FormatFail, Fail, CleanupStat,
        CleanupRemove, Day
<1>2. ImageInv /\ [Next]_vars => [\A t \in Task : given[t] = None /\ given'[t] # None => Fine(t)]_vars
  <2> HIDE DEF Fine
  <2> QED BY <1>1
<1> QED BY <1>2, ImageInvariant, PTL DEF Spec, HandsOutFinished

=============================================================================
