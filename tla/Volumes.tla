------------------------------ MODULE Volumes ------------------------------
(***************************************************************************)
(* The volume manager (pkg/storage) as its callers see it: the image       *)
(* preparer mounts volumes into the root filesystem of a task, UnmountVolume*)
(* copies them back, and the volume commands create, delete, snapshot,     *)
(* restore, export and import them.  Nothing but the metadata file has a   *)
(* lock, and that one per driver and process: callers interleave file by   *)
(* file, and the metadata is read under one lock and written under another.*)
(*                                                                         *)
(* The directory and the block driver keep a volume in the same directory, *)
(* and Stat of the directory driver, which is asked first, only reads the  *)
(* metadata: every operation on an existing volume ends up there, a block  *)
(* volume's too.  A volume's data is a function from the names of files to *)
(* their lengths, so that a file that is not truncated before it is        *)
(* rewritten can be told from one that is.                                 *)
(***************************************************************************)
EXTENDS Naturals, FiniteSets

CONSTANTS
  Task,     \* tasks that mount and unmount volumes
  Command,  \* volume commands, each a process of its own
  Image,    \* images the tasks run
  ImageOf,  \* the image of each task
  Volume,
  Name,     \* names of files
  MaxLen,   \* bound: the length of a file
  None,
  Free,     \* the task in the metadata of a volume that has none
  Torn      \* a file half written, or with the tail of an older one

ASSUME VolumeAssumptions ==
  /\ MaxLen \in Nat \ {0}
  /\ Task \cap Command = {}
  /\ ImageOf \in [Task -> Image]
  /\ {None, Free} \cap (Task \cup Command) = {} /\ None # Free
  \* Nothing is neither a length, a torn file nor a directory.
  /\ None \notin Nat /\ None # Torn /\ None \notin [Name -> 1..MaxLen \cup {None, Torn}]

Actor   == Task \cup Command
Length  == 1..MaxLen
Empty   == [n \in Name |-> None]

VARIABLES
  meta,    \* the task meta.json of each volume names, Free, or None where there is no file
  data,    \* its data directory, or None
  root,    \* what is at the mount target in the root filesystem of each image
  archive, \* what is in the newest archive of each volume, finished or not, or None
  op       \* the operation each actor is in

volumeVars == <<meta, data, root, archive, op>>

\* do: the operation, vol: its volume, at: its next step, todo: the files still to be
\* copied, seen: the metadata it has read, buf: the archive it writes, calm: nobody
\* else has touched the volume or, for a task, its root filesystem since it began.
Idle == [do |-> "none", vol |-> None, at |-> "idle", todo |-> {}, seen |-> None,
         buf |-> Empty, calm |-> TRUE]

VolumeInit ==
  /\ meta = [v \in Volume |-> None]
  /\ data = [v \in Volume |-> None]
  /\ root = [i \in Image |-> Empty]
  /\ archive = [v \in Volume |-> None]
  /\ op = [a \in Actor |-> Idle]

\* Begins the operation do of actor a on volume v at step at.
BeginOp(a, do, v, at) == [op EXCEPT ![a] = [Idle EXCEPT !.do = do, !.vol = v, !.at = at]]

\* The operations o after actor a has touched volume v.
Touched(o, a, v) ==
  [b \in Actor |-> IF b # a /\ o[b].vol = v THEN [o[b] EXCEPT !.calm = FALSE] ELSE o[b]]

\* ... or has written to the root filesystem of image i.
RootTouched(o, a, i) ==
  [b \in Actor |-> IF b \in Task \ {a} /\ ImageOf[b] = i /\ o[b].do # "none"
                     THEN [o[b] EXCEPT !.calm = FALSE] ELSE o[b]]

\* Prepare names the file after the image: its tasks, and their microVMs, share it.
Rootfs(t) == root[ImageOf[t]]

At(a, l) == [op EXCEPT ![a].at = l]
Done(a)    == [op EXCEPT ![a] = Idle]

Stored(v) == IF data[v] = None THEN {} ELSE {n \in Name : data[v][n] # None}

\* RemoveAll of the volume's directory.
RemoveVolumeDir(v) ==
  /\ meta' = [meta EXCEPT ![v] = None]
  /\ data' = [data EXCEPT ![v] = None]

-----------------------------------------------------------------------------
\* CreateVolumeWithOptions: the storage, the metadata, then the task in it.

\* Mutant: a new directory takes the place of the old one.
CreateDir_Fresh(a, v) ==
  /\ op[a] = Idle /\ a \in Command
  /\ data' = [data EXCEPT ![v] = Empty]
  /\ op' = Touched(BeginOp(a, "create", v, "meta"), a, v)
  /\ UNCHANGED <<meta, root, archive>>

\* Create of the directory driver keeps what is in the directory.
CreateDir(a, v) ==
  /\ op[a] = Idle /\ a \in Command
  /\ data' = [data EXCEPT ![v] = IF @ = None THEN Empty ELSE @]
  /\ op' = Touched(BeginOp(a, "create", v, "meta"), a, v)
  /\ UNCHANGED <<meta, root, archive>>

\* Create of the block driver makes an image, which no operation on the volume reads.
CreateBlock(a, v) ==
  /\ op[a] = Idle /\ a \in Command
  /\ op' = Touched(BeginOp(a, "create", v, "meta"), a, v)
  /\ UNCHANGED <<meta, data, root, archive>>

\* Making or formatting the image fails: the directory goes, whatever was in it.
CreateBlockFail(a, v) ==
  /\ op[a] = Idle /\ a \in Command
  /\ RemoveVolumeDir(v)
  /\ op' = Touched(op, a, v)
  /\ UNCHANGED <<root, archive>>

\* MetaStore.Write makes the directory again if it is gone.
WriteMeta(a) ==
  /\ op[a].at = "meta"
  /\ meta' = [meta EXCEPT ![op[a].vol] = Free]
  /\ op' = [op EXCEPT ![a].at = IF op[a].do = "import" THEN "copy" ELSE "own", ![a].seen = None]
  /\ UNCHANGED <<data, root, archive>>

\* The metadata cannot be written: Create rolls back, and Import and the mount end.
WriteMetaFail(a) ==
  /\ op[a].at = "meta"
  /\ RemoveVolumeDir(op[a].vol)
  /\ op' = Touched(Done(a), a, op[a].vol)
  /\ UNCHANGED <<root, archive>>

\* UpdateTaskID reads the metadata ...
OwnRead(a) ==
  /\ op[a].at = "own"
  /\ op' = [op EXCEPT ![a].seen = meta[op[a].vol],
                      ![a].at = IF meta[op[a].vol] # None THEN "ownw"
                                ELSE IF op[a].do = "mount" THEN "stat" ELSE "idle"]
  /\ UNCHANGED <<meta, data, root, archive>>

\* ... and writes back what it has read.
OwnWrite(a) ==
  /\ op[a].at = "ownw"
  /\ meta' = [meta EXCEPT ![op[a].vol] =
                IF a \in Task THEN a ELSE Free]
  /\ op' = IF op[a].do = "mount" THEN At(a, "stat") ELSE Done(a)
  /\ UNCHANGED <<data, root, archive>>

\* An operation that has nothing more to do, or whose volume is gone, ends.
Return(a) ==
  /\ op[a].at = "idle" /\ op[a].do # "none"
  /\ op' = Done(a)
  /\ UNCHANGED <<meta, data, root, archive>>

-----------------------------------------------------------------------------
\* handleVolumeMount.

\* GetVolume finds the metadata ...
MountKnown(t, v) ==
  /\ op[t] = Idle
  /\ meta[v] # None
  /\ op' = BeginOp(t, "mount", v, "stat")
  /\ UNCHANGED <<meta, data, root, archive>>

\* ... or the volume is created on the way.
MountNew(t, v) ==
  /\ op[t] = Idle
  /\ meta[v] = None
  /\ data' = [data EXCEPT ![v] = IF @ = None THEN Empty ELSE @]
  /\ op' = Touched(BeginOp(t, "mount", v, "meta"), t, v)
  /\ UNCHANGED <<meta, root, archive>>

\* MountVolume asks for metadata and data; a mount that fails is skipped.
MountStat(t) ==
  /\ op[t].at = "stat"
  /\ op' = IF meta[op[t].vol] # None /\ data[op[t].vol] # None
             THEN [op EXCEPT ![t].at = "copy", ![t].todo = Stored(op[t].vol)]
             ELSE Done(t)
  /\ UNCHANGED <<meta, data, root, archive>>

\* copyDirectory, file by file; a file that has gone meanwhile is an error.
MountCopy(t) ==
  /\ op[t].do = "mount" /\ op[t].at = "copy"
  /\ \E n \in op[t].todo :
       IF n \in Stored(op[t].vol)
         THEN /\ root' = [root EXCEPT ![ImageOf[t]][n] = data[op[t].vol][n]]
              /\ op' = RootTouched([op EXCEPT ![t].todo = @ \ {n}], t, ImageOf[t])
         ELSE UNCHANGED root /\ op' = Done(t)
  /\ UNCHANGED <<meta, data, archive>>

\* TouchLastUsed reads ...
TouchRead(t) ==
  /\ op[t].do = "mount" /\ op[t].at = "copy" /\ op[t].todo = {}
  /\ op' = [op EXCEPT ![t].seen = meta[op[t].vol],
                      ![t].at = IF meta[op[t].vol] = None THEN "idle" ELSE "touchw"]
  /\ UNCHANGED <<meta, data, root, archive>>

\* ... and writes.
TouchWrite(t) ==
  /\ op[t].at = "touchw"
  /\ meta' = [meta EXCEPT ![op[t].vol] = op[t].seen]
  /\ op' = Done(t)
  /\ UNCHANGED <<data, root, archive>>

\* A microVM of the image writes to its root filesystem, whatever its task is doing:
\* Remove copies the volumes back before it stops the VM.
VMWrite(i) ==
  /\ \E n \in Name, x \in Length \cup {None} : root[i][n] # x /\ root' = [root EXCEPT ![i][n] = x]
  /\ op' = RootTouched(op, None, i)
  /\ UNCHANGED <<meta, data, archive>>

-----------------------------------------------------------------------------
\* UnmountVolume, for a mount that is not read-only.

Unmount(t, v) ==
  /\ op[t] = Idle
  /\ meta[v] # None
  /\ data' = [data EXCEPT ![v] = IF @ = None THEN Empty ELSE @]
  /\ op' = Touched([BeginOp(t, "unmount", v, "copy") EXCEPT ![t].todo =
                     {n \in Name : Rootfs(t)[n] # None}], t, v)
  /\ UNCHANGED <<meta, root, archive>>

\* Mutant: files the volume has are kept.
UnmountCopy_Keep(t) ==
  /\ op[t].do = "unmount"
  /\ \E n \in op[t].todo :
       IF data[op[t].vol] = None \/ Rootfs(t)[n] = None
         THEN UNCHANGED data /\ op' = Done(t)
         ELSE /\ data' = [data EXCEPT ![op[t].vol][n] = IF @ = None THEN Rootfs(t)[n] ELSE @]
              /\ op' = Touched([op EXCEPT ![t].todo = @ \ {n}], t, op[t].vol)
  /\ UNCHANGED <<meta, root, archive>>

\* copyDirectory replaces the files; what the VM has deleted before stays in the volume,
\* what it deletes meanwhile is an error.
UnmountCopy(t) ==
  /\ op[t].do = "unmount"
  /\ \E n \in op[t].todo :
       IF data[op[t].vol] = None \/ Rootfs(t)[n] = None
         THEN UNCHANGED data /\ op' = Done(t)
         ELSE /\ data' = [data EXCEPT ![op[t].vol][n] = Rootfs(t)[n]]
              /\ op' = Touched([op EXCEPT ![t].todo = @ \ {n}], t, op[t].vol)
  /\ UNCHANGED <<meta, root, archive>>

UnmountEnd(t) ==
  /\ op[t].do = "unmount" /\ op[t].todo = {}
  /\ op' = Done(t)
  /\ UNCHANGED <<meta, data, root, archive>>

-----------------------------------------------------------------------------
\* Commands on a volume.

Delete(c, v) ==
  /\ op[c] = Idle
  /\ meta[v] # None
  /\ RemoveVolumeDir(v)
  /\ op' = Touched(op, c, v)
  /\ UNCHANGED <<root, archive>>

\* volume create of swarmctl writes metadata of its own format, which MetaStore cannot
\* read: until someone writes it again, the volume has none.
SwarmctlCreate(c, v) ==
  /\ op[c] = Idle
  /\ meta' = [meta EXCEPT ![v] = None]
  /\ op' = Touched(op, c, v)
  /\ UNCHANGED <<data, root, archive>>

\* volume rm of swarmctl asks for no metadata.
SwarmctlRemove(c, v) ==
  /\ op[c] = Idle
  /\ RemoveVolumeDir(v)
  /\ op' = Touched(op, c, v)
  /\ UNCHANGED <<root, archive>>

\* An archive of the data directory; the file is there, unfinished, from the beginning.
Archive(c, do, v) ==
  /\ op[c] = Idle
  /\ data[v] # None
  /\ archive' = [archive EXCEPT ![v] = Empty]
  /\ op' = [Touched(BeginOp(c, do, v, "copy"), c, v) EXCEPT ![c].todo = Stored(v)]
  /\ UNCHANGED <<meta, data, root>>

\* The manager looks for the metadata first; export goes to the driver.
Snapshot(c, v) == meta[v] # None /\ Archive(c, "snapshot", v)

Export(c, v) == Archive(c, "export", v)

ArchiveCopy(c) ==
  /\ op[c].do \in {"snapshot", "export"}
  /\ \E n \in op[c].todo \cap Stored(op[c].vol) :
       op' = [op EXCEPT ![c].todo = @ \ {n}, ![c].buf[n] = data[op[c].vol][n]]
  /\ archive' = [archive EXCEPT ![op[c].vol] = op'[c].buf]
  /\ UNCHANGED <<meta, data, root>>

\* A file that is to be read has gone, or cannot be read: the export command removes the
\* archive, a snapshot stays as it is.
ArchiveFail(c) ==
  /\ op[c].do \in {"snapshot", "export"}
  /\ archive' = [archive EXCEPT ![op[c].vol] = IF op[c].do = "export" THEN None ELSE @]
  /\ op' = Touched(Done(c), c, op[c].vol)
  /\ UNCHANGED <<meta, data, root>>

\* Snapshot returns once both writers are closed.
SnapshotEnd(c) ==
  /\ op[c].do = "snapshot" /\ op[c].todo = {}
  /\ archive' = [archive EXCEPT ![op[c].vol] = op[c].buf]
  /\ op' = Touched(Done(c), c, op[c].vol)
  /\ UNCHANGED <<meta, data, root>>

\* Export closes them on return and loses their errors: the end of the archive may be
\* missing all the same.
ExportEnd(c) ==
  /\ op[c].do = "export" /\ op[c].todo = {}
  /\ \E lost \in SUBSET Name :
       archive' = [archive EXCEPT ![op[c].vol] =
                     [n \in Name |-> IF n \in lost THEN None ELSE op[c].buf[n]]]
  /\ op' = Touched(Done(c), c, op[c].vol)
  /\ UNCHANGED <<meta, data, root>>

\* Restore empties the volume before it opens the archive.
RestoreVolume(c, v) ==
  /\ op[c] = Idle
  /\ meta[v] # None /\ archive[v] # None
  /\ data' = [data EXCEPT ![v] = Empty]
  /\ op' = [Touched(BeginOp(c, "restore", v, "copy"), c, v) EXCEPT ![c].buf = archive[v],
             ![c].todo = {n \in Name : archive[v][n] # None}]
  /\ UNCHANGED <<meta, root, archive>>

\* Import creates the volume, or takes the one that is there as it is.
Import(c, v) ==
  /\ op[c] = Idle
  /\ archive[v] # None
  /\ data' = [data EXCEPT ![v] = IF @ = None THEN Empty ELSE @]
  /\ op' = [Touched(BeginOp(c, "import", v, "meta"), c, v) EXCEPT ![c].buf = archive[v],
             ![c].todo = {n \in Name : archive[v][n] # None},
             ![c].calm = Stored(v) = {}]
  /\ UNCHANGED <<meta, root, archive>>

\* import --type block: a new image, and metadata that is written without an owner.
ImportBlock(c, v) ==
  /\ op[c] = Idle
  /\ op' = [Touched(BeginOp(c, "import", v, "meta"), c, v) EXCEPT ![c].calm = FALSE]
  /\ UNCHANGED <<meta, data, root, archive>>

\* Writing a file that is opened without being truncated.
Overwrite(old, new) == IF old \in Length /\ new \in Length /\ old > new THEN Torn ELSE new

\* The next entry of the archive; missing directories are made again.
Extract(c) ==
  /\ op[c].do \in {"restore", "import"} /\ op[c].at = "copy"
  /\ \E n \in op[c].todo :
       LET old == IF data[op[c].vol] = None THEN Empty ELSE data[op[c].vol] IN
       /\ data' = [data EXCEPT ![op[c].vol] = [old EXCEPT ![n] = Overwrite(@, op[c].buf[n])]]
       /\ op' = Touched([op EXCEPT ![c].todo = @ \ {n}], c, op[c].vol)
  /\ UNCHANGED <<meta, root, archive>>

\* The end of an archive that was finished; another one ends in an error.
ExtractEnd(c) ==
  /\ op[c].do \in {"restore", "import"} /\ op[c].at = "copy" /\ op[c].todo = {}
  /\ op' = Done(c)
  /\ UNCHANGED <<meta, data, root, archive>>

\* Any operation stops where it is, on an I/O error or because the process dies; between
\* the directory and the metadata, too.
Abort(a) ==
  /\ op[a].do # "none"
  /\ op' = Done(a)
  /\ UNCHANGED <<meta, data, root, archive>>

\* ... in the middle of a file.
AbortFile(a) ==
  /\ op[a].at = "copy" /\ op[a].do \in {"unmount", "restore", "import"}
  /\ data[op[a].vol] # None
  /\ \E n \in op[a].todo : data' = [data EXCEPT ![op[a].vol][n] = Torn]
  /\ op' = Touched(Done(a), a, op[a].vol)
  /\ UNCHANGED <<meta, root, archive>>

\* The commands that choose a driver.
VolumeCreate(c, v) == CreateDir(c, v) \/ CreateBlock(c, v) \/ CreateBlockFail(c, v)

VolumeImport(c, v) == Import(c, v) \/ ImportBlock(c, v)

VolumeNext ==
  \/ \E c \in Command, v \in Volume :
       VolumeCreate(c, v) \/ VolumeImport(c, v) \/ Delete(c, v)
         \/ Snapshot(c, v) \/ Export(c, v) \/ RestoreVolume(c, v)
         \/ SwarmctlCreate(c, v) \/ SwarmctlRemove(c, v)
  \/ \E c \in Command : ArchiveCopy(c) \/ ArchiveFail(c) \/ SnapshotEnd(c) \/ ExportEnd(c)
                         \/ Extract(c) \/ ExtractEnd(c)
  \/ \E t \in Task, v \in Volume : MountKnown(t, v) \/ MountNew(t, v) \/ Unmount(t, v)
  \/ \E t \in Task : MountStat(t) \/ MountCopy(t) \/ TouchRead(t) \/ TouchWrite(t)
                       \/ UnmountCopy(t) \/ UnmountEnd(t)
  \/ \E i \in Image : VMWrite(i)
  \/ \E a \in Actor : WriteMeta(a) \/ WriteMetaFail(a) \/ OwnRead(a) \/ OwnWrite(a)
                        \/ Return(a) \/ Abort(a) \/ AbortFile(a)

VolumeSpec == VolumeInit /\ [][VolumeNext]_volumeVars

-----------------------------------------------------------------------------
\* The copies between a volume, a root filesystem and an archive are file by file and
\* without a lock.  One that ends, and during which nobody else touched the volume and
\* no microVM or task of the image wrote to the root filesystem, is faithful all the
\* same: the volume has every file of the task whose UnmountVolume returns; the task has
\* every file of the volume that was mounted; a restored volume, and one imported into
\* an empty directory, is the archive and nothing else, in spite of the missing O_TRUNC;
\* a snapshot is the volume; and an export has no file but the volume's, though it may
\* lack some.
UndisturbedCopies ==
  [][/\ \A t \in Task :
          LET stored == data[op[t].vol] IN
          /\ UnmountEnd(t) /\ op[t].calm =>
               \A n \in Name : Rootfs(t)[n] # None => stored[n] = Rootfs(t)[n]
          /\ TouchRead(t) /\ op[t].calm =>
               \A n \in Stored(op[t].vol) : Rootfs(t)[n] = stored[n]
     /\ \A c \in Command :
          LET stored == data[op[c].vol]
              file   == archive'[op[c].vol] IN
          op[c].calm =>
            /\ ExtractEnd(c) => stored = op[c].buf
            /\ SnapshotEnd(c) => file = stored
            /\ ExportEnd(c) => \A n \in Name : file[n] \in {None, stored[n]}]_volumeVars

\* A microVM's data reaches a volume only through UnmountVolume of a task that mounts
\* it, and leaves it only through a delete, Restore, or the roll-back of a create that
\* failed: no mount, archive, import or create that succeeds takes a file away.
FilesLeaveOnPurpose ==
  [][\A v \in Volume : \A n \in Stored(v) :
       n \notin Stored(v)' =>
         \/ \E c \in Command : Delete(c, v) \/ SwarmctlRemove(c, v) \/ RestoreVolume(c, v)
                             \/ CreateBlockFail(c, v)
         \/ \E a \in Actor : WriteMetaFail(a) /\ op[a].vol = v]_volumeVars

-----------------------------------------------------------------------------
\* The inductive invariant of the proofs in StorageProofs.

File      == Length \cup {None, Torn}
Directory == [Name -> File]
Owner     == Task \cup {Free, None}
Operation ==
  [do : {"none", "create", "mount", "unmount", "snapshot", "export", "restore", "import"},
   vol : Volume \cup {None},
   at : {"idle", "meta", "own", "ownw", "stat", "copy", "touchw"},
   todo : SUBSET Name, seen : Owner, buf : Directory, calm : BOOLEAN]

VolumeTypeOK ==
  /\ meta \in [Volume -> Owner]
  /\ data \in [Volume -> Directory \cup {None}]
  /\ root \in [Image -> Directory]
  /\ archive \in [Volume -> Directory \cup {None}]
  /\ op \in [Actor -> Operation]
  /\ \A a \in Actor : (op[a].do # "none" \/ op[a].at # "idle") => op[a].vol \in Volume

\* A task that copies: as long as nobody else touches the volume and the root filesystem,
\* what is still to be written back is there, and what is no longer to be copied has
\* arrived.
Copied(t) ==
  LET v == op[t].vol IN
  /\ op[t].do = "unmount" => op[t].at = "copy"
  /\ op[t].calm /\ op[t].do = "unmount" =>
       /\ data[v] # None
       /\ \A n \in Name \ op[t].todo : Rootfs(t)[n] # None => data[v][n] = Rootfs(t)[n]
  /\ op[t].calm /\ op[t].do = "mount" /\ op[t].at = "copy" =>
       /\ data[v] # None
       /\ \A n \in Stored(v) \ op[t].todo : Rootfs(t)[n] = data[v][n]

\* The same of a command: an archive that is written has what was read of the volume,
\* a volume that is filled has what was read of the archive and nothing else.
Extracted(c) ==
  LET v == op[c].vol IN
  /\ op[c].do \in {"restore", "import"} => \A n \in op[c].todo : op[c].buf[n] # None
  /\ op[c].calm /\ op[c].do \in {"snapshot", "export"} =>
       /\ data[v] # None
       /\ \A n \in Name \ op[c].todo : op[c].buf[n] = data[v][n]
  /\ op[c].calm /\ op[c].do \in {"restore", "import"} =>
       /\ data[v] # None
       /\ \A n \in Name : data[v][n] = IF n \in op[c].todo THEN None ELSE op[c].buf[n]

VolumeInv ==
  /\ VolumeTypeOK
  /\ \A t \in Task : Copied(t)
  /\ \A c \in Command : Extracted(c)

=============================================================================
