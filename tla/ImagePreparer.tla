--------------------------- MODULE ImagePreparer ---------------------------
(***************************************************************************)
(* The image preparer (pkg/image).  Prepare turns the image of a task into *)
(* an ext4 root filesystem that every task of the image shares: a file     *)
(* that passes verifyCachedRootfs is taken as it is, otherwise             *)
(* prepareWithLock builds it under a lock file, looking again once it has  *)
(* the lock.  Pulling, injecting an init system and running mkfs.ext4 are  *)
(* steps of their own: other Prepare calls, the periodic Cleanup (which    *)
(* takes no lock), the roll-back of the local executor and a crash may     *)
(* come in between.  The configuration of the image that was pulled last   *)
(* is one field of the preparer, ociInfo, which the calls share.           *)
(*                                                                         *)
(* A filesystem tree is the set of the paths the code looks for.  Time is  *)
(* the age of a file in days.                                              *)
(***************************************************************************)
EXTENDS Naturals, Sequences, FiniteSets, SequencesExt

CONSTANTS
  Task,
  Image,      \* references: [name : Seq(components), tag], a component is a Seq of words
  Contents,   \* the tree of each image
  InitSystem, \* an init system is to be injected (InitInjector.IsEnabled)
  KeepDays,   \* MaxImageAgeDays
  Own,        \* the wrapper of a tree that keeps its own init system
  None

\* What the code looks for in a tree; "systemd" stands for its three locations,
\* "init->systemd" for /sbin/init being a link to it, and so on.
Path == {"bin", "usr/bin", "bin/sh", "systemd", "init->systemd", "tini", "dumb-init",
         "openrc", "rc", "rc-status", "init.d", "runlevels", "sbin/init", "init", "glibc",
         "inittab", "interfaces", "resolv.conf", "hosts", "nsswitch", "machine-id", "tmp"}

ASSUME ImageAssumptions ==
  /\ InitSystem \in BOOLEAN
  /\ KeepDays \in Nat \ {0}
  /\ Contents \in [Image -> SUBSET Path]
  /\ None \notin Task \cup Image /\ Own \notin Image \cup {None}

\* Bound: a file older than every limit does not get any older.
MaxAge == KeepDays + 1

\* generateImageID: the components of the name joined by dashes, and the tag.
GenerateImageID(i) == [name |-> FlattenSeq(i.name),
                       tag  |-> IF i.tag = "" THEN "latest" ELSE i.tag]
File == {GenerateImageID(i) : i \in Image}

-----------------------------------------------------------------------------
\* Detection and injection of an init system, on a tree.

IsScratch(tree) == {"bin/sh", "bin", "usr/bin"} \cap tree = {}

IsSystemd(tree) == {"systemd", "init->systemd"} \cap tree # {}

HasOpenRC(tree) ==
  \/ {"openrc", "rc"} \cap tree # {}
  \/ {"init.d", "runlevels"} \cap tree # {} /\ "rc-status" \in tree

HasSysvinit(tree) ==
  /\ ~IsSystemd(tree)
  /\ "sbin/init" \in tree \/ ("init.d" \in tree /\ {"runlevels", "rc"} \cap tree = {})

\* DetectInitType: the order of the questions matters.
DetectInitType(tree) ==
  CASE IsScratch(tree)                                        -> "scratch"
    [] ~IsScratch(tree) /\ IsSystemd(tree)                    -> "incompatible"
    [] ~IsScratch(tree) /\ ~IsSystemd(tree) /\
       ({"tini", "dumb-init"} \cap tree # {} \/ HasOpenRC(tree) \/ HasSysvinit(tree)) -> "preserve"
    [] OTHER                                                  -> "none"

\* injectBusybox
Busybox(tree) == tree \cup {"bin", "bin/sh", "tmp"}

\* InjectIntoDir: an init system that is there is kept and only gets its link, which
\* leads nowhere in an image that has tini or dumb-init but no /sbin/init.
InjectIntoDir(tree) ==
  CASE ~InitSystem -> tree
    [] InitSystem /\ DetectInitType(tree) = "scratch"  -> Busybox(tree) \cup {"tini", "sbin/init", "init"}
    [] InitSystem /\ DetectInitType(tree) = "preserve" -> tree \cup {"init"}
    [] OTHER                                           -> tree \cup {"tini", "sbin/init", "init"}

\* createGenericInitWrapper: /sbin/init runs the command, environment, user and
\* directory of the configuration it is given, or a shell if that is None.
Wrapper(tree, info) == IF InitSystem /\ DetectInitType(tree) # "preserve" THEN info ELSE Own

\* injectEssentialFiles
InjectEssentials(tree) ==
  tree \cup {"resolv.conf", "hosts", "machine-id", "tmp"}
       \cup (IF "glibc" \in tree THEN {"nsswitch"} ELSE {})

\* injectNetworkConfig: only where inittab speaks of OpenRC.
InjectNetworkConfig(tree) ==
  IF {"inittab", "openrc"} \subseteq tree
    THEN tree \cup {"interfaces", "init.d", "runlevels"} ELSE tree

\* validateCriticalSymlinks
HasShell(tree) == "bin/sh" \in tree

-----------------------------------------------------------------------------
VARIABLES
  files,    \* the rootfs directory: what each .ext4 file is
  lock,     \* the holder of each lock file, or None
  ociInfo,  \* ImagePreparer.ociInfo: the image it was parsed from, or None
  pc,       \* where the Prepare call of each task is
  image,    \* the image it prepares
  tmp,      \* its temporary directory: the tree and the configuration of its wrapper
  given,    \* the file in the task's annotations, or None
  doomed,   \* files that a Cleanup pass has found old and is about to remove
  swept,    \* history: calls whose file was removed under them
  torn      \* history: files that a crash left unfinished

vars == <<files, lock, ociInfo, pc, image, tmp, given, doomed, swept, torn>>

Absent == [state |-> "absent", tree |-> {}, wrapper |-> None, of |-> None, age |-> 0]
NoTmp  == [tree |-> {}, wrapper |-> None]

FileOf(t) == GenerateImageID(image[t])

Init ==
  /\ files = [f \in File |-> Absent]
  /\ lock = [f \in File |-> None]
  /\ ociInfo = None
  /\ pc = [t \in Task |-> "idle"]
  /\ image \in [Task -> Image]
  /\ tmp = [t \in Task |-> NoTmp]
  /\ given = [t \in Task |-> None]
  /\ doomed = {}
  /\ swept = {}
  /\ torn = {}

\* verifyCachedRootfs: the file exists.  The status of debugfs is all that is asked for
\* beyond that, and debugfs ends with 0 also where it cannot open the file or does not
\* find /init (external; the quirk that credential_store.go:250 works around).
Verified(f) == files[f].state # "absent"

Goto(t, l) == pc' = [pc EXCEPT ![t] = l]
Unlock(t)  == lock' = [lock EXCEPT ![FileOf(t)] = IF @ = t THEN None ELSE @]

-----------------------------------------------------------------------------
\* Prepare.

\* The cache is looked at without the lock; a hit skips everything else.
Check(t) ==
  /\ pc[t] = "idle" /\ given[t] = None
  /\ swept' = swept \ {t}
  /\ IF Verified(FileOf(t))
       THEN Goto(t, "done") /\ given' = [given EXCEPT ![t] = FileOf(t)]
       ELSE Goto(t, "lock") /\ UNCHANGED given
  /\ UNCHANGED <<files, lock, ociInfo, image, tmp, doomed, torn>>

\* Flock, which blocks.
Lock(t) ==
  /\ pc[t] = "lock" /\ lock[FileOf(t)] = None
  /\ lock' = [lock EXCEPT ![FileOf(t)] = t]
  /\ Goto(t, "recheck")
  /\ UNCHANGED <<files, ociInfo, image, tmp, given, doomed, swept, torn>>

\* The lock file cannot be opened.
LockFail(t) ==
  /\ pc[t] = "lock"
  /\ Goto(t, "idle")
  /\ UNCHANGED <<files, lock, ociInfo, image, tmp, given, doomed, swept, torn>>

\* Mutant: the file is built without a second look.
Recheck_Never(t) ==
  /\ pc[t] = "recheck"
  /\ Goto(t, "pull")
  /\ UNCHANGED <<files, lock, ociInfo, image, tmp, given, doomed, swept, torn>>

\* Another call may have built the file while this one waited.
Recheck(t) ==
  /\ pc[t] = "recheck"
  /\ IF Verified(FileOf(t))
       THEN Goto(t, "apply") /\ Unlock(t)
       ELSE Goto(t, "pull") /\ UNCHANGED lock
  /\ UNCHANGED <<files, ociInfo, image, tmp, given, doomed, swept, torn>>

\* extractWithGGCR: pulling from the registry parses the configuration, where the
\* registry serves one.
PullRegistry(t) ==
  /\ pc[t] = "pull" /\ HasShell(Contents[image[t]])
  /\ ociInfo' \in {image[t], ociInfo}
  /\ tmp' = [tmp EXCEPT ![t].tree = Contents[image[t]]]
  /\ Goto(t, "inject")
  /\ UNCHANGED <<files, lock, image, given, doomed, swept, torn>>

\* extractWithDockerCLI: docker and podman export the tree without its configuration;
\* the registry, which was tried first, failed before it served one.
PullFallback(t) ==
  /\ pc[t] = "pull" /\ HasShell(Contents[image[t]])
  /\ tmp' = [tmp EXCEPT ![t].tree = Contents[image[t]]]
  /\ Goto(t, "inject")
  /\ UNCHANGED <<files, lock, ociInfo, image, given, doomed, swept, torn>>

\* Manifest, extraction or shell are refused, perhaps after the configuration was read.
PullFail(t) ==
  /\ pc[t] = "pull"
  /\ ociInfo' \in {image[t], ociInfo}
  /\ Goto(t, "idle") /\ Unlock(t)
  /\ UNCHANGED <<files, image, tmp, given, doomed, swept, torn>>

\* The wrapper runs the command of ociInfo, as that is now.
Inject(t) ==
  /\ pc[t] = "inject"
  /\ InitSystem => DetectInitType(tmp[t].tree) # "incompatible"
  /\ tmp' = [tmp EXCEPT ![t] =
       [tree    |-> InjectNetworkConfig(InjectEssentials(InjectIntoDir(@.tree))),
        wrapper |-> Wrapper(@.tree, ociInfo)]]
  /\ Goto(t, "mkfs")
  /\ UNCHANGED <<files, lock, ociInfo, image, given, doomed, swept, torn>>

\* mkfs.ext4 creates or truncates the file ...
Mkfs(t) ==
  /\ pc[t] = "mkfs"
  /\ files' = [files EXCEPT ![FileOf(t)] = [Absent EXCEPT !.state = "partial", !.of = image[t]]]
  /\ Goto(t, "format")
  /\ UNCHANGED <<lock, ociInfo, image, tmp, given, doomed, swept, torn>>

\* ... and fills it; a file that was unlinked meanwhile is filled in vain.
Format(t) ==
  /\ pc[t] = "format"
  /\ files' = [files EXCEPT ![FileOf(t)] =
       IF @.state = "absent" THEN @
       ELSE [state |-> "whole", tree |-> tmp[t].tree, wrapper |-> tmp[t].wrapper,
             of |-> image[t], age |-> 0]]
  /\ tmp' = [tmp EXCEPT ![t] = NoTmp]
  /\ Goto(t, "apply") /\ Unlock(t)
  /\ UNCHANGED <<ociInfo, image, given, doomed, swept, torn>>

\* Mutant: what mkfs.ext4 has written stays when it fails.
FormatFail_Keeps(t) ==
  /\ pc[t] = "format"
  /\ tmp' = [tmp EXCEPT ![t] = NoTmp]
  /\ Goto(t, "idle") /\ Unlock(t)
  /\ UNCHANGED <<files, ociInfo, image, given, doomed, swept, torn>>

FormatFail(t) ==
  /\ pc[t] = "format"
  /\ files' = [files EXCEPT ![FileOf(t)] = Absent]
  /\ tmp' = [tmp EXCEPT ![t] = NoTmp]
  /\ Goto(t, "idle") /\ Unlock(t)
  /\ UNCHANGED <<ociInfo, image, given, doomed, swept, torn>>

\* Mounts, secrets and configurations go into the file, without the lock; the
\* task gets the path.
Apply(t) ==
  /\ pc[t] = "apply"
  /\ given' = [given EXCEPT ![t] = FileOf(t)]
  /\ Goto(t, "done")
  /\ UNCHANGED <<files, lock, ociInfo, image, tmp, doomed, swept, torn>>

\* Mutant: the error path keeps the lock.
Fail_Locked(t) ==
  /\ pc[t] \in {"inject", "mkfs", "apply"}
  /\ tmp' = [tmp EXCEPT ![t] = NoTmp]
  /\ Goto(t, "idle")
  /\ UNCHANGED <<files, lock, ociInfo, image, given, doomed, swept, torn>>

\* The image runs systemd, the disk is full, a secret cannot be written:
\* Prepare returns an error and the deferred calls run.
Fail(t) ==
  /\ pc[t] \in {"inject", "mkfs", "apply"}
  /\ tmp' = [tmp EXCEPT ![t] = NoTmp]
  /\ Goto(t, "idle") /\ Unlock(t)
  /\ UNCHANGED <<files, ociInfo, image, given, doomed, swept, torn>>

-----------------------------------------------------------------------------
\* What else touches the files.

\* Unlinks file f under the calls that are about to use it.
Unlink(f) ==
  /\ files' = [files EXCEPT ![f] = Absent]
  /\ swept' = swept \cup {t \in Task : pc[t] # "idle" /\ FileOf(t) = f}
  /\ torn' = torn \ {f}

\* Remove takes <task>.ext4 away, which is never the shared file.  The next task
\* may be of any image.
Release(t) ==
  /\ pc[t] = "done"
  /\ \E i \in Image : image' = [image EXCEPT ![t] = i]
  /\ given' = [given EXCEPT ![t] = None]
  /\ Goto(t, "idle")
  /\ UNCHANGED <<files, lock, ociInfo, tmp, doomed, swept, torn>>

\* The local executor's Prepare fails on the network and rolls back: the file goes.
Rollback(t) ==
  /\ pc[t] = "done"
  /\ Unlink(given[t])
  /\ given' = [given EXCEPT ![t] = None]
  /\ Goto(t, "idle")
  /\ UNCHANGED <<lock, ociInfo, image, tmp, doomed>>

Day ==
  /\ \E f \in File : files[f].state # "absent" /\ files[f].age < MaxAge
  /\ files' = [f \in File |-> IF files[f].state # "absent" /\ files[f].age < MaxAge
                                THEN [files[f] EXCEPT !.age = @ + 1] ELSE files[f]]
  /\ UNCHANGED <<lock, ociInfo, pc, image, tmp, given, doomed, swept, torn>>

\* Cleanup takes the age of a file ...
CleanupStat(f) ==
  /\ files[f].state # "absent" /\ files[f].age > KeepDays
  /\ f \notin doomed
  /\ doomed' = doomed \cup {f}
  /\ UNCHANGED <<files, lock, ociInfo, pc, image, tmp, given, swept, torn>>

\* ... and removes it, whatever it is by then.
CleanupRemove(f) ==
  /\ f \in doomed
  /\ doomed' = doomed \ {f}
  /\ Unlink(f)
  /\ UNCHANGED <<lock, ociInfo, pc, image, tmp, given>>

\* The process dies; its locks go with it, its files stay.
Crash ==
  /\ \E t \in Task : pc[t] # "idle"
  /\ lock' = [f \in File |-> None]
  /\ ociInfo' = None
  /\ pc' = [t \in Task |-> "idle"]
  /\ tmp' = [t \in Task |-> NoTmp]
  /\ given' = [t \in Task |-> None]
  /\ doomed' = {}
  /\ swept' = {}
  /\ torn' = torn \cup {f \in File : files[f].state = "partial"}
  /\ UNCHANGED <<files, image>>

Step(t) == Recheck(t) \/ PullRegistry(t) \/ PullFallback(t) \/ PullFail(t) \/ Inject(t) \/ Mkfs(t) \/ Format(t)
             \/ FormatFail(t) \/ Apply(t) \/ Fail(t)

Next ==
  \/ \E t \in Task : Check(t) \/ Lock(t) \/ LockFail(t) \/ Step(t) \/ Release(t) \/ Rollback(t)
  \/ \E f \in File : CleanupStat(f) \/ CleanupRemove(f)
  \/ Day
  \/ Crash

\* A call that can go on does; the kernel serves those that wait for a lock file.
Fairness == \A t \in Task : WF_vars(Step(t)) /\ SF_vars(Lock(t))

Spec == Init /\ [][Next]_vars /\ Fairness

-----------------------------------------------------------------------------
\* Properties.

\* What a Prepare call hands out is finished, and has the /init that was to be injected,
\* unless the file was removed under this very call by Cleanup or a roll-back, a crash in
\* the middle of mkfs.ext4 has left it, or the call took it on its first look, without
\* the lock, while another call was writing it.  A call that has waited for the lock
\* is never given the unfinished file of another, and a build that fails leaves nothing
\* to be found (Prepare, prepareWithLock, createExt4Image).
HandsOutFinished ==
  [][\A t \in Task :
       given[t] = None /\ given'[t] # None =>
         \/ /\ files'[given'[t]].state = "whole"
            /\ InitSystem => "init" \in files'[given'[t]].tree
         \/ t \in swept' \/ given'[t] \in torn
         \/ pc[t] = "idle" /\ \E u \in Task : pc[u] = "format" /\ FileOf(u) = given'[t]]_vars

\* A root filesystem that is finished is never built again over the tasks that use it:
\* prepareWithLock looks again after it has waited (its "double-check").
GoodIsKept ==
  [][\A f \in File : files[f].state = "whole" => files'[f].state # "partial"]_vars

\* Every Prepare call comes to its end, with a result or an error, although it may
\* have to wait for the lock of a call that fails.
PrepareReturns == \A t \in Task : pc[t] = "lock" ~> pc[t] \in {"idle", "done"}

-----------------------------------------------------------------------------
(***************************************************************************)
(* The inductive invariant behind the first two.                           *)
(***************************************************************************)
\* The type of every variable, as far as it matters.
TypeOK ==
  /\ files = [f \in File |-> files[f]]
  /\ \A f \in File : DOMAIN files[f] = {"state", "tree", "wrapper", "of", "age"}
  /\ lock = [f \in File |-> lock[f]]
  /\ pc \in [Task -> {"idle", "lock", "recheck", "pull", "inject", "mkfs", "format", "apply", "done"}]
  /\ image \in [Task -> Image]
  /\ tmp = [t \in Task |-> tmp[t]]
  /\ \A t \in Task : DOMAIN tmp[t] = {"tree", "wrapper"}
  /\ given = [t \in Task |-> given[t]]

Good(f) == files[f].state = "whole" /\ (InitSystem => "init" \in files[f].tree)

\* A call that builds a file has its lock, so that nobody else builds it.
Locked ==
  \A t \in Task : pc[t] \in {"recheck", "pull", "inject", "mkfs", "format"} => lock[FileOf(t)] = t

\* What it builds is not there yet: what the second look has seen is still so.
Unbuilt ==
  \A t \in Task :
    /\ pc[t] \in {"pull", "inject", "mkfs"} => files[FileOf(t)].state = "absent"
    /\ pc[t] = "format" => \/ files[FileOf(t)].state = "partial"
                           \/ files[FileOf(t)].state = "absent" /\ t \in swept
    /\ pc[t] \in {"mkfs", "format"} /\ InitSystem => "init" \in tmp[t].tree

\* A file that is not finished is being written or was left by a crash, never both.
Writing(f) == \E t \in Task : pc[t] = "format" /\ FileOf(t) = f
Finished ==
  \A f \in File :
    /\ files[f].state = "absent" \/ Good(f) \/ (files[f].state = "partial" /\ (f \in torn \/ Writing(f)))
    /\ f \in torn => files[f].state = "partial" /\ ~Writing(f)

\* What is about to be handed out is finished, unless it was removed or left by a crash.
Applied == \A t \in Task : pc[t] = "apply" => t \in swept \/ FileOf(t) \in torn \/ Good(FileOf(t))

ImageInv == TypeOK /\ Locked /\ Unbuilt /\ Finished /\ Applied

=============================================================================
