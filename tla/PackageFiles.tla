---------------------------- MODULE PackageFiles ----------------------------
(***************************************************************************)
(* The files of one content package: their rows in acp_files, their bytes  *)
(* on disk, and the snapshots that copy both.                              *)
(*                                                                         *)
(* Rows and disk are not one transaction, and only uploads lock the ACP:   *)
(* deletions, snapshots, restores and the validation that saves its result *)
(* into the rows read rows first and act on what they read.  A request is  *)
(* split where its handler awaits the database or the disk; `stage` holds  *)
(* what the handler has in its local variables at that point.              *)
(***************************************************************************)
EXTENDS Integers, FiniteSets, Functions

CONSTANTS
  Requests,       \* requests that may be served at the same time
  Names,          \* file names, trimmed and in lower case
  Indexes,        \* values of the ACP index
  MaxFiles,       \* bound: rows ever created
  MaxSnapshots,   \* bound: snapshots ever created
  Faults,         \* of "crash" and "disk": what may go wrong
  None            \* a request that is not being served

Ids == 1..MaxFiles
SnapshotIds == 1..MaxSnapshots
Strategies == {"reject", "overwrite", "keep-both"}

ASSUME PackageFilesAssumption ==
  /\ MaxFiles \in Nat /\ MaxSnapshots \in Nat
  /\ Faults \subseteq {"crash", "disk"}

VARIABLES
  rows,         \* acp_files of the package, by id
  disk,         \* the bytes at each path; those of upload i are called i
  snapshots,    \* acp_snapshots with their snapshot files
  index,        \* acp.acpIndex
  stage,        \* where each request is
  nextFile,     \* the next unused row id
  nextSnapshot, \* the next unused snapshot id
  crashed,      \* history: the process has stopped in the middle of something
  dropped,      \* history: rows a restore has replaced, whose bytes it keeps
  resurrected,  \* history: rows inserted again after their deletion
  ambiguous,    \* history: a restore has written two files to one path
  leaked        \* history: paths that could not be removed

vars == <<rows, disk, snapshots, index, stage, nextFile, nextSnapshot,
          crashed, dropped, resurrected, ambiguous, leaked>>
history == <<crashed, dropped, resurrected, ambiguous, leaked>>
counters == <<nextFile, nextSnapshot>>

-----------------------------------------------------------------------------
(* Paths, rows and sets of rows                                            *)

Uploaded(i) == [dir |-> "uploads", of |-> 0, key |-> i]
CopiedUnnumbered(s, i) == [dir |-> "snapshots", of |-> s, key |-> 1]   \* a mutant
Copied(s, i) == [dir |-> "snapshots", of |-> s, key |-> i]
Restored(s, name) == [dir |-> "restore", of |-> s, key |-> name]

Paths ==
  {Uploaded(i) : i \in Ids} \cup {Copied(s, i) : s \in SnapshotIds, i \in Ids}
    \cup {Restored(s, n) : s \in SnapshotIds, n \in Names}

\* A row, and a file of a snapshot: `bytes` stands for size and checksum.
File == [name : Names, path : Paths, bytes : Ids]
\* Rows by id.
Rows == UNION {[I -> File] : I \in SUBSET Ids}
Without(f, I) == Restrict(f, DOMAIN f \ I)
Merged(f, g) == [x \in DOMAIN f \cup DOMAIN g |-> IF x \in DOMAIN g THEN g[x] ELSE f[x]]
With(f, x, v) == Merged(f, [y \in {x} |-> v])
PathsOf(f) == {f[i].path : i \in DOMAIN f}

Idle(r) == stage[r] = None
At(r, at) == stage[r] # None /\ stage[r].at = at
Becomes(r, next) == stage' = [stage EXCEPT ![r] = next]

Init ==
  /\ rows = <<>> /\ disk = <<>> /\ snapshots = <<>>
  /\ index \in Indexes
  /\ stage = [r \in Requests |-> None]
  /\ nextFile = 1 /\ nextSnapshot = 1
  /\ crashed = FALSE /\ dropped = {} /\ resurrected = {} /\ ambiguous = FALSE
  /\ leaked = {}

-----------------------------------------------------------------------------
(* Uploads: stage the bytes, commit the rows, remove what was replaced     *)

Conflicting(names) == {i \in DOMAIN rows : \E j \in DOMAIN names : rows[i].name = names[j]}

\* Archives are expanded, and names that occur twice are refused or the last
\* one is taken, except under "keep-both".
BeginUpload(r) ==
  /\ Idle(r)
  /\ \E n \in 1..2, strategy \in Strategies :
       /\ nextFile + n - 1 <= MaxFiles
       /\ \E names \in [nextFile..(nextFile + n - 1) -> Names] :
            /\ strategy # "keep-both" => IsInjective(names)
            /\ strategy = "reject" => Conflicting(names) = {}
            /\ Becomes(r, [at |-> "upload", strategy |-> strategy, names |-> names, staged |-> {}])
       /\ nextFile' = nextFile + n
  /\ UNCHANGED <<rows, disk, snapshots, index, nextSnapshot, history>>

StageUpload(r) ==
  /\ At(r, "upload")
  /\ \E i \in DOMAIN stage[r].names \ stage[r].staged :
       /\ disk' = With(disk, Uploaded(i), i)
       /\ Becomes(r, [stage[r] EXCEPT !.staged = @ \cup {i}])
  /\ UNCHANGED <<rows, snapshots, index, counters, history>>

\* The rest of an upload or a deletion: unlink these paths, one by one.
Unlinking(paths) == IF paths = {} THEN None ELSE [at |-> "unlink", paths |-> paths]

\* The check before the lock is repeated under it.
MayCommit(r) ==
  stage[r].strategy = "reject" => Conflicting(stage[r].names) = {}

Replaced(r) ==
  IF stage[r].strategy = "overwrite" THEN Conflicting(stage[r].names) ELSE {}

CommitUpload(r) ==
  /\ At(r, "upload")
  /\ stage[r].staged = DOMAIN stage[r].names
  /\ MayCommit(r)
  /\ rows' = Merged(Without(rows, Replaced(r)),
                    [i \in stage[r].staged |->
                       [name |-> stage[r].names[i], path |-> Uploaded(i), bytes |-> i]])
  /\ Becomes(r, Unlinking(PathsOf(Restrict(rows, Replaced(r)))))
  /\ UNCHANGED <<disk, snapshots, index, counters, history>>

\* Files are removed one by one, and an error is ignored: the file stays.
Removes(paths) ==
  \E kept \in SUBSET (paths \cap DOMAIN disk) :
    /\ kept # {} => "disk" \in Faults
    /\ disk' = Without(disk, paths \ kept)
    /\ leaked' = leaked \cup kept

FailUploadAndLeave(r) ==   \* a mutant
  /\ At(r, "upload")
  /\ \/ stage[r].staged = DOMAIN stage[r].names /\ ~MayCommit(r)
     \/ "disk" \in Faults
  /\ Becomes(r, None)
  /\ UNCHANGED <<rows, disk, snapshots, index, counters, history>>
\* A file that cannot be written, a conflict found under the lock, a
\* transaction that fails: what was staged is removed.  A half-written file
\* that stays is not told from one that was staged and stays.
FailUpload(r) ==
  /\ At(r, "upload")
  /\ \/ stage[r].staged = DOMAIN stage[r].names /\ ~MayCommit(r)
     \/ "disk" \in Faults
  /\ Removes({Uploaded(i) : i \in stage[r].staged})
  /\ Becomes(r, None)
  /\ UNCHANGED <<rows, snapshots, index, counters, crashed, dropped, resurrected, ambiguous>>

UnlinkOne(r) ==
  /\ At(r, "unlink")
  /\ \E p \in stage[r].paths :
       /\ Removes({p})
       /\ Becomes(r, Unlinking(stage[r].paths \ {p}))
  /\ UNCHANGED <<rows, snapshots, index, counters, crashed, dropped, resurrected, ambiguous>>

-----------------------------------------------------------------------------
(* Deletions and validation                                                *)

\* One, many or all: the rows are read, removed by their ids, unlinked.
BeginDelete(r) ==
  /\ Idle(r)
  /\ \E I \in SUBSET DOMAIN rows \ {{}} :
       Becomes(r, [at |-> "delete", rows |-> Restrict(rows, I)])
  /\ UNCHANGED <<rows, disk, snapshots, index, counters, history>>

UnlinkBeforeRows(r) ==   \* a mutant
  /\ At(r, "delete")
  /\ LET paths == PathsOf(stage[r].rows)
     IN IF paths \cap DOMAIN disk # {}
        THEN disk' = Without(disk, paths) /\ UNCHANGED <<rows, stage>>
        ELSE rows' = Without(rows, DOMAIN stage[r].rows) /\ Becomes(r, None) /\ UNCHANGED disk
  /\ UNCHANGED <<snapshots, index, counters, history>>
DeleteRows(r) ==
  /\ At(r, "delete")
  /\ rows' = Without(rows, DOMAIN stage[r].rows)
  /\ Becomes(r, Unlinking(PathsOf(stage[r].rows)))
  /\ UNCHANGED <<disk, snapshots, index, counters, history>>

\* Validation reads all rows and their files ...
BeginValidation(r) ==
  /\ Idle(r)
  /\ rows # <<>>
  /\ Becomes(r, [at |-> "validate", rows |-> rows])
  /\ UNCHANGED <<rows, disk, snapshots, index, counters, history>>

\* ... and saves them with their results: save() inserts the rows it does not
\* find any more.
SaveValidation(r) ==
  /\ At(r, "validate")
  /\ rows' = Merged(stage[r].rows, rows)
  /\ resurrected' = resurrected \cup (DOMAIN stage[r].rows \ DOMAIN rows)
  /\ Becomes(r, None)
  /\ UNCHANGED <<disk, snapshots, index, counters, crashed, dropped, ambiguous, leaked>>

-----------------------------------------------------------------------------
(* Snapshots                                                               *)

LatestVersion ==
  LET versions == {snapshots[s].version : s \in DOMAIN snapshots}
  IN IF versions = {} THEN 0 ELSE CHOOSE v \in versions : \A w \in versions : w <= v

BeginSnapshot(r) ==
  /\ Idle(r)
  /\ nextSnapshot <= MaxSnapshots
  /\ Becomes(r, [at |-> "snapshot", version |-> LatestVersion + 1, index |-> index])
  /\ UNCHANGED <<rows, disk, snapshots, index, counters, history>>

SaveSnapshot(r) ==
  /\ At(r, "snapshot")
  /\ nextSnapshot <= MaxSnapshots
  /\ snapshots' = With(snapshots, nextSnapshot,
       [version |-> stage[r].version, index |-> stage[r].index, files |-> <<>>])
  /\ nextSnapshot' = nextSnapshot + 1
  /\ Becomes(r, [at |-> "list", snapshot |-> nextSnapshot])
  /\ UNCHANGED <<rows, disk, index, nextFile, history>>

ListRows(r) ==
  /\ At(r, "list")
  /\ Becomes(r, [at |-> "copy", snapshot |-> stage[r].snapshot, rows |-> rows, files |-> <<>>])
  /\ UNCHANGED <<rows, disk, snapshots, index, counters, history>>

FileInSnapshotAt(file, path) == [file EXCEPT !.path = path]

\* A file that cannot be copied is recorded at its live path.
CopyFile(r) ==
  /\ At(r, "copy")
  /\ \E i \in DOMAIN stage[r].rows \ DOMAIN stage[r].files :
       LET file == stage[r].rows[i]
           copy == Copied(stage[r].snapshot, i)
           recorded(path) == [stage[r] EXCEPT
             !.files = With(@, i, FileInSnapshotAt(file, path))]
       IN \/ /\ file.path \in DOMAIN disk
             /\ disk' = With(disk, copy, disk[file.path])
             /\ Becomes(r, recorded(copy))
          \/ /\ file.path \notin DOMAIN disk \/ "disk" \in Faults
             /\ Becomes(r, recorded(file.path))
             /\ UNCHANGED disk
  /\ UNCHANGED <<rows, snapshots, index, counters, history>>

\* The files of a snapshot that is gone by now are refused by their foreign key.
SaveSnapshotFiles(r) ==
  /\ At(r, "copy")
  /\ DOMAIN stage[r].files = DOMAIN stage[r].rows
  /\ IF stage[r].snapshot \in DOMAIN snapshots
     THEN snapshots' = [snapshots EXCEPT ![stage[r].snapshot].files = stage[r].files]
     ELSE UNCHANGED snapshots
  /\ Becomes(r, None)
  /\ UNCHANGED <<rows, disk, index, counters, history>>

\* The row goes first, then the directories of the copies and of the files
\* restored from it.
DeleteSnapshot(r) ==
  /\ Idle(r)
  /\ \E s \in DOMAIN snapshots :
       /\ snapshots' = Without(snapshots, {s})
       /\ Becomes(r, [at |-> "purge", snapshot |-> s])
  /\ UNCHANGED <<rows, disk, index, counters, history>>

PurgeSnapshot(r) ==
  /\ At(r, "purge")
  /\ Removes({p \in DOMAIN disk :
       p.dir \in {"snapshots", "restore"} /\ p.of = stage[r].snapshot})
  /\ Becomes(r, None)
  /\ UNCHANGED <<rows, snapshots, index, counters, crashed, dropped, resurrected, ambiguous>>

-----------------------------------------------------------------------------
(* Restoring a snapshot                                                    *)

\* findById reads the snapshot with the files it has by now.
BeginRestore(r) ==
  /\ Idle(r)
  /\ \E s \in DOMAIN snapshots :
       Becomes(r, [at |-> "restore", snapshot |-> s, index |-> snapshots[s].index,
                   files |-> snapshots[s].files])
  /\ UNCHANGED <<rows, disk, snapshots, index, counters, history>>

\* The index is saved first ...
RestoreIndex(r) ==
  /\ At(r, "restore")
  /\ index' = stage[r].index
  /\ Becomes(r, [at |-> "fetch", snapshot |-> stage[r].snapshot, files |-> stage[r].files,
                 fetched |-> {}])
  /\ UNCHANGED <<rows, disk, snapshots, counters, history>>

MoveFile(r) ==   \* a mutant
  /\ At(r, "fetch")
  /\ \E i \in DOMAIN stage[r].files \ stage[r].fetched :
       LET file == stage[r].files[i]
       IN /\ file.path \in DOMAIN disk
          /\ disk' = With(Without(disk, {file.path}),
                          Restored(stage[r].snapshot, file.name), disk[file.path])
          /\ Becomes(r, [stage[r] EXCEPT !.fetched = @ \cup {i}])
  /\ UNCHANGED <<rows, snapshots, index, counters, history>>
\* ... then every file is copied back under its name ...
FetchFile(r) ==
  /\ At(r, "fetch")
  /\ \E i \in DOMAIN stage[r].files \ stage[r].fetched :
       LET file == stage[r].files[i]
       IN /\ file.path \in DOMAIN disk
          /\ disk' = With(disk, Restored(stage[r].snapshot, file.name), disk[file.path])
          /\ ambiguous' =
               (ambiguous \/ \E j \in stage[r].fetched : stage[r].files[j].name = file.name)
          /\ Becomes(r, [stage[r] EXCEPT !.fetched = @ \cup {i}])
  /\ UNCHANGED <<rows, snapshots, index, counters, crashed, dropped, resurrected, leaked>>

\* ... and if one is missing or cannot be copied, the restore is refused.  A
\* copy that breaks off removes what was at its target.
FailRestore(r) ==
  /\ At(r, "fetch")
  /\ \E i \in DOMAIN stage[r].files \ stage[r].fetched :
       LET file == stage[r].files[i]
       IN \E lost \in SUBSET {Restored(stage[r].snapshot, file.name)} :
            /\ IF file.path \in DOMAIN disk THEN "disk" \in Faults ELSE lost = {}
            /\ disk' = Without(disk, lost)
  /\ Becomes(r, None)
  /\ UNCHANGED <<rows, snapshots, index, counters, history>>

\* All rows are deleted, their bytes stay ...
ClearRows(r) ==
  LET n == Cardinality(DOMAIN stage[r].files)
  IN /\ At(r, "fetch")
     /\ stage[r].fetched = DOMAIN stage[r].files
     /\ nextFile + n - 1 <= MaxFiles
     /\ rows' = <<>>
     /\ dropped' = dropped \cup DOMAIN rows
     /\ Becomes(r, IF n = 0 THEN None
                   ELSE [at |-> "insert", snapshot |-> stage[r].snapshot,
                         files |-> stage[r].files, ids |-> nextFile..(nextFile + n - 1)])
     /\ nextFile' = nextFile + n
     /\ UNCHANGED <<disk, snapshots, index, nextSnapshot, crashed, resurrected, ambiguous, leaked>>

\* ... and the restored ones are inserted in their place.
InsertRows(r) ==
  /\ At(r, "insert")
  /\ \E of \in Bijection(stage[r].ids, DOMAIN stage[r].files) :
       LET file(i) == stage[r].files[of[i]]
       IN rows' = Merged(rows, [i \in stage[r].ids |->
            [file(i) EXCEPT !.path = Restored(stage[r].snapshot, file(i).name)]])
  /\ Becomes(r, None)
  /\ UNCHANGED <<disk, snapshots, index, counters, history>>

-----------------------------------------------------------------------------
\* The other writers of the index: managers, the server API, its synchronisation
\* with the files.
EditIndex ==
  /\ \E x \in Indexes : index' = x
  /\ UNCHANGED <<rows, disk, snapshots, stage, counters, history>>

\* The process stops: rows and disk stay as they are.
Crash ==
  /\ "crash" \in Faults
  /\ stage' = [r \in Requests |-> None]
  /\ crashed' = TRUE
  /\ UNCHANGED <<rows, disk, snapshots, index, counters, dropped, resurrected, ambiguous, leaked>>

Next ==
  \/ EditIndex \/ Crash
  \/ \E r \in Requests :
       \/ BeginUpload(r) \/ StageUpload(r) \/ CommitUpload(r) \/ FailUpload(r) \/ UnlinkOne(r)
       \/ BeginDelete(r) \/ DeleteRows(r) \/ BeginValidation(r) \/ SaveValidation(r)
       \/ BeginSnapshot(r) \/ SaveSnapshot(r) \/ ListRows(r) \/ CopyFile(r)
       \/ SaveSnapshotFiles(r) \/ DeleteSnapshot(r) \/ PurgeSnapshot(r)
       \/ BeginRestore(r) \/ RestoreIndex(r) \/ FetchFile(r) \/ FailRestore(r)
       \/ ClearRows(r) \/ InsertRows(r)

Spec == Init /\ [][Next]_vars

-----------------------------------------------------------------------------
(* Types                                                                   *)

Snapshot == [version : Nat \ {0}, index : Indexes, files : Rows]
Stage ==
  [at : {"upload"}, strategy : Strategies, names : UNION {[I -> Names] : I \in SUBSET Ids},
   staged : SUBSET Ids]
  \cup [at : {"unlink"}, paths : SUBSET Paths]
  \cup [at : {"delete", "validate"}, rows : Rows]
  \cup [at : {"snapshot"}, version : Nat \ {0}, index : Indexes]
  \cup [at : {"list", "purge"}, snapshot : SnapshotIds]
  \cup [at : {"copy"}, snapshot : SnapshotIds, rows : Rows, files : Rows]
  \cup [at : {"restore"}, snapshot : SnapshotIds, index : Indexes, files : Rows]
  \cup [at : {"fetch"}, snapshot : SnapshotIds, files : Rows, fetched : SUBSET Ids]
  \cup [at : {"insert"}, snapshot : SnapshotIds, files : Rows, ids : SUBSET Ids]

ASSUME NoneAssumption == None \notin Stage

\* Every variable has its type.
TypeOK ==
  /\ rows \in Rows
  /\ DOMAIN disk \subseteq Paths /\ \A p \in DOMAIN disk : disk[p] \in Ids
  /\ DOMAIN snapshots \subseteq SnapshotIds
  /\ \A s \in DOMAIN snapshots : snapshots[s] \in Snapshot
  /\ index \in Indexes
  /\ stage \in [Requests -> Stage \cup {None}]
  /\ nextFile \in 1..(MaxFiles + 1) /\ nextSnapshot \in 1..(MaxSnapshots + 1)
  /\ crashed \in BOOLEAN /\ ambiguous \in BOOLEAN /\ dropped \subseteq Ids /\ resurrected \subseteq Ids
  /\ leaked \subseteq Paths

-----------------------------------------------------------------------------
(* What holds of rows, disk and snapshots                                  *)

\* An uploaded file is on disk, with the bytes its row tells, for as long as
\* its row exists: bytes are staged before the rows commit, and unlinked only
\* after their rows are gone (uploadMultiple, deleteManyForAcp).  Rows that a
\* validation inserted again are the exception.
UploadedRowsHaveTheirFile ==
  \A i \in DOMAIN rows \ resurrected :
    rows[i].path = Uploaded(i) => Uploaded(i) \in DOMAIN disk /\ disk[Uploaded(i)] = i

\* No upload leaves bytes behind that no row names: whatever is on disk is in
\* a row, is still being staged or unlinked by a request, was left by a restore,
\* could not be removed when it was to be (removePath ignores the error), or the
\* process stopped in between.
NothingIsLeftBehind ==
  ~crashed =>
    \A p \in DOMAIN disk : p.dir = "uploads" =>
      \/ p \in PathsOf(rows)
      \/ p.key \in dropped
      \/ p \in leaked
      \/ \E r \in Requests :
           \/ At(r, "upload") /\ p.key \in stage[r].staged
           \/ At(r, "unlink") /\ p \in stage[r].paths

\* The copies a snapshot made stay on disk until it is deleted, whatever
\* happens to the live files: deletions, replacements, restores of this or
\* another snapshot (create, "so restore stays independent from future file
\* deletions or replacements").
SnapshotsKeepTheirFiles ==
  \A s \in DOMAIN snapshots, i \in Ids :
    i \in DOMAIN snapshots[s].files =>
      LET path == snapshots[s].files[i].path
      IN path.dir = "snapshots" => path = Copied(s, i) /\ path \in DOMAIN disk

\* Bytes on disk are the ones that rows and snapshots tell the checksum of,
\* through every chain of copies and restores, whose target paths are written
\* again by the next restore.  It takes a package with a name twice to break
\* this: both files are restored to one path (resolveRestoredFilePath).
ChecksumsAreTrue ==
  ~ambiguous =>
    /\ \A i \in DOMAIN rows :
         rows[i].path \in DOMAIN disk => disk[rows[i].path] = rows[i].bytes
    /\ \A s \in DOMAIN snapshots : \A i \in DOMAIN snapshots[s].files :
         LET file == snapshots[s].files[i]
         IN file.path \in DOMAIN disk => disk[file.path] = file.bytes

(* What is said of the program and does not hold                           *)

\* snapshots.service.ts:157: "only mutate DB state after all files are
\* restorable to avoid partial restores".
RestoresAreNotPartial ==
  [][\A r \in Requests :
       At(r, "restore") /\ stage'[r] # stage[r] /\ index' # index
         => PathsOf(stage[r].files) \subseteq DOMAIN disk]_vars
=============================================================================
