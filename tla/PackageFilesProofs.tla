-------------------------- MODULE PackageFilesProofs --------------------------
(***************************************************************************)
(* Proofs about PackageFiles: rows, disk and snapshots stay together,      *)
(* whatever requests are served at once and wherever the process stops.    *)
(*                                                                         *)
(* The inductive invariant says of every request which rows it is about to *)
(* create (Owned), which it has read (Held) and which files it is about to *)
(* unlink (Going), and that these never meet in the wrong way.  Every      *)
(* action but a crash is shown to be a move of one request (Moves, Leaves, *)
(* Files), and moves to keep the invariant.  For the bytes a second one    *)
(* (ContentInv) tells from the contents of all snapshots ever made which   *)
(* bytes each path must hold.                                              *)
(***************************************************************************)
EXTENDS PackageFiles, FiniteSetTheorems, WellFoundedInduction, TLAPS

-----------------------------------------------------------------------------
(* Numbers. *)

Less == {p \in Nat \X Nat : p[1] < p[2]}

LEMMA LeastElement ==
  ASSUME NEW S \in SUBSET Nat, S # {}
  PROVE  \E n \in S : \A m \in S : n <= m
<1>1. IsWellFoundedOn(Less, Nat)
  BY NatLessThanWellFounded DEF OpToRel, Less
<1>2. PICK n \in S : \A m \in S : ~ (<<m, n>> \in Less)
  BY <1>1, WFMin
<1>3. ASSUME NEW m \in S PROVE n <= m
  <2>1. m < n => <<m, n>> \in Less
    BY DEF Less
  <2> QED BY <2>1, <1>2
<1> QED BY <1>3

LEMMA GreatestElement ==
  ASSUME NEW b \in Nat, NEW S, S # {}, \A n \in S : n \in 0..b
  PROVE  \E n \in S : \A m \in S : m <= n
<1> DEFINE T == {t \in 0..b : b - t \in S}
<1>1. T \in SUBSET Nat /\ T # {}
  <2>1. PICK n \in S : n \in 0..b
    OBVIOUS
  <2>2. b - n \in 0..b /\ b - (b - n) = n
    BY <2>1
  <2>3. b - n \in T
    BY <2>1, <2>2
  <2>4. \A t \in T : t \in Nat
    OBVIOUS
  <2> QED BY <2>3, <2>4
<1>2. PICK t \in T : \A u \in T : t <= u
  <2> HIDE DEF T
  <2> QED BY <1>1, LeastElement
<1>3. b - t \in S /\ t \in 0..b
  OBVIOUS
<1>4. ASSUME NEW m \in S PROVE m <= b - t
  <2>1. m \in 0..b /\ b - m \in 0..b /\ b - (b - m) = m
    OBVIOUS
  <2>2. t <= b - m
    BY <1>2, <2>1
  <2> QED BY <1>3, <2>1, <2>2
<1> QED BY <1>3, <1>4

-----------------------------------------------------------------------------
(* Paths, rows and stages. *)

LEMMA PathTypes ==
  /\ \A i \in Ids : Uploaded(i) \in Paths /\ Uploaded(i).dir = "uploads" /\ Uploaded(i).key = i
  /\ \A s \in SnapshotIds, i \in Ids : /\ Copied(s, i) \in Paths
                                       /\ Copied(s, i).dir = "snapshots" /\ Copied(s, i).of = s
  /\ \A s \in SnapshotIds, n \in Names : /\ Restored(s, n) \in Paths
                                         /\ Restored(s, n).dir = "restore"
  /\ \A p \in Paths : /\ p.dir \in {"uploads", "snapshots", "restore"}
                      /\ p.dir = "uploads" => p.key \in Ids /\ p = Uploaded(p.key)
<1>1. \A i \in Ids : Uploaded(i) \in Paths /\ Uploaded(i).dir = "uploads" /\ Uploaded(i).key = i
  BY DEF Paths, Uploaded
<1>2. \A s \in SnapshotIds, i \in Ids : /\ Copied(s, i) \in Paths
                                        /\ Copied(s, i).dir = "snapshots" /\ Copied(s, i).of = s
  BY DEF Paths, Copied
<1>3. \A s \in SnapshotIds, n \in Names : /\ Restored(s, n) \in Paths
                                          /\ Restored(s, n).dir = "restore"
  BY DEF Paths, Restored
<1>4. ASSUME NEW p \in Paths
      PROVE  /\ p.dir \in {"uploads", "snapshots", "restore"}
             /\ p.dir = "uploads" => p.key \in Ids /\ p = Uploaded(p.key)
  <2>1. CASE \E i \in Ids : p = Uploaded(i)
    BY <1>1, <2>1
  <2>2. CASE \E s \in SnapshotIds, i \in Ids : p = Copied(s, i)
    BY <1>2, <2>2
  <2>3. CASE \E s \in SnapshotIds, n \in Names : p = Restored(s, n)
    BY <1>3, <2>3
  <2> QED BY <2>1, <2>2, <2>3 DEF Paths
<1> QED BY <1>1, <1>2, <1>3, <1>4

LEMMA RowsTypes ==
  /\ <<>> \in Rows /\ DOMAIN <<>> = {}
  /\ \A f \in Rows : /\ DOMAIN f \subseteq Ids /\ \A i \in DOMAIN f : f[i] \in File
                     /\ f = [i \in DOMAIN f |-> f[i]]
  /\ \A I \in SUBSET Ids : \A f : (f = [i \in I |-> f[i]] /\ \A i \in I : f[i] \in File) => f \in Rows
<1>1. \A f \in Rows : \E I \in SUBSET Ids : f \in [I -> File]
  BY DEF Rows
<1>2. \A I \in SUBSET Ids : [I -> File] \subseteq Rows
  BY DEF Rows
<1>3. <<>> \in Rows /\ DOMAIN <<>> = {}
  <2>1. <<>> \in [{} -> File]
    OBVIOUS
  <2> QED BY <2>1, <1>2
<1>4. \A f \in Rows : /\ DOMAIN f \subseteq Ids /\ \A i \in DOMAIN f : f[i] \in File
                      /\ f = [i \in DOMAIN f |-> f[i]]
  BY <1>1
<1>5. ASSUME NEW I \in SUBSET Ids, NEW f, f = [i \in I |-> f[i]], \A i \in I : f[i] \in File
      PROVE  f \in Rows
  <2>1. f \in [I -> File]
    BY <1>5
  <2> QED BY <2>1, <1>2
<1> QED BY <1>3, <1>4, <1>5

LEMMA MergedRows ==
  ASSUME NEW f \in Rows, NEW g \in Rows
  PROVE  /\ Merged(f, g) \in Rows
         /\ DOMAIN Merged(f, g) = DOMAIN f \cup DOMAIN g
         /\ \A i \in DOMAIN g : Merged(f, g)[i] = g[i]
         /\ \A i \in DOMAIN f \ DOMAIN g : Merged(f, g)[i] = f[i]
<1> DEFINE h == Merged(f, g)
<1>1. /\ DOMAIN h = DOMAIN f \cup DOMAIN g
      /\ h = [i \in DOMAIN h |-> h[i]]
      /\ \A i \in DOMAIN g : h[i] = g[i]
      /\ \A i \in DOMAIN f \ DOMAIN g : h[i] = f[i]
  BY DEF Merged
<1> HIDE DEF h
<1>2. DOMAIN h \in SUBSET Ids /\ \A i \in DOMAIN h : h[i] \in File
  BY <1>1, RowsTypes
<1>3. h \in Rows
  BY <1>1, <1>2, RowsTypes
<1> QED BY <1>1, <1>3 DEF h

LEMMA RestrictedRows ==
  ASSUME NEW f \in Rows, NEW I \in SUBSET DOMAIN f
  PROVE  /\ Restrict(f, I) \in Rows /\ DOMAIN Restrict(f, I) = I
         /\ \A i \in I : Restrict(f, I)[i] = f[i]
<1> DEFINE h == Restrict(f, I)
<1>1. /\ DOMAIN h = I /\ h = [i \in I |-> h[i]]
      /\ \A i \in I : h[i] = f[i]
  BY DEF Restrict
<1> HIDE DEF h
<1>2. I \in SUBSET Ids /\ \A i \in I : h[i] \in File
  BY <1>1, RowsTypes
<1>3. h \in Rows
  BY <1>1, <1>2, RowsTypes
<1> QED BY <1>1, <1>3 DEF h

LEMMA WithoutRows ==
  ASSUME NEW f \in Rows, NEW I
  PROVE  /\ Without(f, I) \in Rows /\ DOMAIN Without(f, I) = DOMAIN f \ I
         /\ \A i \in DOMAIN f \ I : Without(f, I)[i] = f[i]
  BY RestrictedRows DEF Without

\* What removing paths from the disk does.
LEMMA DiskLoses ==
  ASSUME NEW d, NEW P
  PROVE  /\ DOMAIN Without(d, P) = DOMAIN d \ P
         /\ \A y \in DOMAIN d \ P : Without(d, P)[y] = d[y]
  BY DEF Without, Restrict

UploadStage ==
  [at : {"upload"}, strategy : Strategies, names : UNION {[I -> Names] : I \in SUBSET Ids},
   staged : SUBSET Ids]
CopyStage == [at : {"copy"}, snapshot : SnapshotIds, rows : Rows, files : Rows]
FetchStage ==
  [at : {"fetch"}, snapshot : SnapshotIds, files : Rows, fetched : SUBSET Ids]
InsertStage ==
  [at : {"insert"}, snapshot : SnapshotIds, files : Rows, ids : SUBSET Ids]

LEMMA StageTypes ==
  ASSUME NEW s \in Stage
  PROVE  /\ s.at = "upload" => s \in UploadStage
         /\ s.at = "unlink" => s.paths \subseteq Paths
         /\ s.at \in {"delete", "validate"} => s.rows \in Rows
         /\ s.at = "snapshot" => s.version \in Nat \ {0} /\ s.index \in Indexes
         /\ s.at \in {"list", "purge"} => s.snapshot \in SnapshotIds
         /\ s.at = "copy" => s \in CopyStage
         /\ s.at = "restore" => /\ s.snapshot \in SnapshotIds
                                /\ s.index \in Indexes /\ s.files \in Rows
         /\ s.at = "fetch" => s \in FetchStage
         /\ s.at = "insert" => s \in InsertStage
         /\ s # None
  BY NoneAssumption DEF Stage, UploadStage, CopyStage, FetchStage, InsertStage

LEMMA StagesExist ==
  /\ UploadStage \subseteq Stage /\ CopyStage \subseteq Stage
  /\ FetchStage \subseteq Stage /\ InsertStage \subseteq Stage
  /\ \A paths \in SUBSET Paths : Unlinking(paths) \in Stage \cup {None}
  /\ \A f \in Rows : /\ [at |-> "delete", rows |-> f] \in Stage
                     /\ [at |-> "validate", rows |-> f] \in Stage
  /\ \A v \in Nat \ {0}, x \in Indexes :
       [at |-> "snapshot", version |-> v, index |-> x] \in Stage
  /\ \A s \in SnapshotIds : /\ [at |-> "list", snapshot |-> s] \in Stage
                            /\ [at |-> "purge", snapshot |-> s] \in Stage
  /\ \A s \in SnapshotIds, x \in Indexes, f \in Rows :
       [at |-> "restore", snapshot |-> s, index |-> x, files |-> f] \in Stage
<1> USE DEF Stage
<1>1. /\ UploadStage \subseteq Stage /\ CopyStage \subseteq Stage
      /\ FetchStage \subseteq Stage /\ InsertStage \subseteq Stage
  BY DEF UploadStage, CopyStage, FetchStage, InsertStage
<1>2. \A paths \in SUBSET Paths : Unlinking(paths) \in Stage \cup {None}
  BY DEF Unlinking
<1> QED BY <1>1, <1>2

-----------------------------------------------------------------------------
(* Types. Versions are bounded by the number of snapshots, so that there is a  *)
(* latest one.                                                             *)

VersionsFit ==
  /\ \A s \in DOMAIN snapshots : snapshots[s].version < nextSnapshot
  /\ \A q \in Requests : At(q, "snapshot") => stage[q].version <= nextSnapshot

TypeInv == TypeOK /\ VersionsFit

LEMMA BecomesType ==
  ASSUME TypeOK, NEW r \in Requests, NEW s \in Stage \cup {None}, Becomes(r, s)
  PROVE  /\ stage' \in [Requests -> Stage \cup {None}] /\ stage'[r] = s
         /\ \A q \in Requests \ {r} : stage'[q] = stage[q]
  BY DEF TypeOK, Becomes

\* A request that goes on and saves no snapshot keeps the versions.
LEMMA SameVersions ==
  ASSUME TypeInv, NEW r \in Requests, NEW s \in Stage \cup {None}, Becomes(r, s),
         s # None /\ s.at = "snapshot" => s.version <= nextSnapshot,
         UNCHANGED <<snapshots, nextSnapshot>>
  PROVE  VersionsFit'
<1>1. stage'[r] = s /\ \A q \in Requests \ {r} : stage'[q] = stage[q]
  BY BecomesType DEF TypeInv
<1>2. ASSUME NEW q \in Requests, At(q, "snapshot")' PROVE stage'[q].version <= nextSnapshot
  <2>1. CASE q = r
    BY <1>1, <1>2, <2>1 DEF At
  <2>2. CASE q # r
    BY <1>1, <1>2, <2>2 DEF At, TypeInv, VersionsFit
  <2> QED BY <2>1, <2>2
<1> QED BY <1>2 DEF TypeInv, VersionsFit

LEMMA LatestVersionType ==
  ASSUME TypeInv
  PROVE  LatestVersion \in Nat /\ LatestVersion + 1 <= nextSnapshot
<1> DEFINE versions == {snapshots[s].version : s \in DOMAIN snapshots}
           IsLatest(v) == v \in versions /\ \A w \in versions : w <= v
<1>1. nextSnapshot \in Nat \ {0}
  BY PackageFilesAssumption DEF TypeInv, TypeOK
<1>2. \A v \in versions : v \in 0..(nextSnapshot - 1)
  <2>1. \A s \in DOMAIN snapshots : snapshots[s].version \in Nat /\ snapshots[s].version < nextSnapshot
    BY DEF TypeInv, TypeOK, VersionsFit, Snapshot
  <2> QED BY <1>1, <2>1
<1>3. CASE versions = {}
  BY <1>1, <1>3 DEF LatestVersion
<1>4. CASE versions # {}
  <2>1. LatestVersion = CHOOSE v \in versions : \A w \in versions : w <= v
    BY <1>4 DEF LatestVersion
  <2> HIDE DEF versions
  <2>2. \E v \in versions : \A w \in versions : w <= v
    BY <1>1, <1>2, <1>4, GreatestElement
  <2>3. LatestVersion \in versions
    BY <2>1, <2>2
  <2> QED BY <1>1, <1>2, <2>3
<1> QED BY <1>3, <1>4

\* What a request has at its point, with its types.
LEMMA AtTypes ==
  ASSUME TypeInv, NEW r \in Requests, stage[r] # None
  PROVE  stage[r] \in Stage
  BY DEF TypeInv, TypeOK

LEMMA DiskAddsTypes ==
  ASSUME TypeOK, NEW p \in Paths, NEW b \in Ids, disk' = With(disk, p, b)
  PROVE  DOMAIN disk' \subseteq Paths /\ \A y \in DOMAIN disk' : disk'[y] \in Ids
<1>1. /\ DOMAIN disk' = DOMAIN disk \cup {p} /\ disk'[p] = b
      /\ \A y \in DOMAIN disk \ {p} : disk'[y] = disk[y]
  BY DEF With, Merged
<1> QED BY <1>1 DEF TypeOK

LEMMA DiskLosesTypes ==
  ASSUME TypeOK, NEW P, disk' = Without(disk, P)
  PROVE  DOMAIN disk' \subseteq Paths /\ \A y \in DOMAIN disk' : disk'[y] \in Ids
<1>1. /\ DOMAIN disk' = DOMAIN disk \ P
      /\ \A y \in DOMAIN disk \ P : disk'[y] = disk[y]
  BY DiskLoses
<1> QED BY <1>1 DEF TypeOK

\* Whatever of some paths is removed, and whatever stays.
LEMMA RemovesTypes ==
  ASSUME TypeOK, NEW P, Removes(P)
  PROVE  /\ DOMAIN disk' \subseteq Paths /\ \A y \in DOMAIN disk' : disk'[y] \in Ids
         /\ leaked' \subseteq Paths
<1>1. PICK kept \in SUBSET (P \cap DOMAIN disk) :
        disk' = Without(disk, P \ kept) /\ leaked' = leaked \cup kept
  BY DEF Removes
<1>2. DOMAIN disk' \subseteq Paths /\ \A y \in DOMAIN disk' : disk'[y] \in Ids
  BY <1>1, DiskLosesTypes
<1>3. leaked' \subseteq Paths
  BY <1>1 DEF TypeOK
<1> QED BY <1>2, <1>3

LEMMA UploadTypes ==
  ASSUME TypeInv, NEW r \in Requests,
         BeginUpload(r) \/ StageUpload(r) \/ CommitUpload(r) \/ FailUpload(r) \/ UnlinkOne(r)
  PROVE  TypeInv'
<1> USE DEF TypeInv
<1>0. /\ rows \in Rows /\ nextFile \in 1..(MaxFiles + 1) /\ MaxFiles \in Nat
      /\ stage[r] \in Stage \cup {None}
  BY PackageFilesAssumption DEF TypeOK
<1>1. CASE BeginUpload(r)
  <2>1. PICK n \in 1..2, strategy \in Strategies :
          /\ nextFile + n - 1 <= MaxFiles
          /\ \E names \in [nextFile..(nextFile + n - 1) -> Names] :
               Becomes(r, [at |-> "upload", strategy |-> strategy, names |-> names, staged |-> {}])
          /\ nextFile' = nextFile + n
    BY <1>1 DEF BeginUpload
  <2>2. PICK names \in [nextFile..(nextFile + n - 1) -> Names] :
          Becomes(r, [at |-> "upload", strategy |-> strategy, names |-> names, staged |-> {}])
    BY <2>1
  <2> DEFINE s == [at |-> "upload", strategy |-> strategy, names |-> names, staged |-> {}]
  <2>3. nextFile..(nextFile + n - 1) \subseteq Ids
    BY <1>0, <2>1 DEF Ids
  <2>4. s \in UploadStage
    BY <2>3 DEF UploadStage
  <2>5. s \in Stage /\ s.at # "snapshot" /\ Becomes(r, s)
    BY <2>2, <2>4, StagesExist
  <2>6. nextFile' \in 1..(MaxFiles + 1)
    BY <1>0, <2>1
  <2>7. UNCHANGED <<rows, disk, snapshots, index, nextSnapshot, history>>
    BY <1>1 DEF BeginUpload
  <2> HIDE DEF s
  <2>8. VersionsFit'
    BY <2>5, <2>7, SameVersions
  <2> QED BY <2>5, <2>6, <2>7, <2>8, BecomesType DEF TypeOK, history
<1>2. CASE StageUpload(r)
  <2>1. PICK i \in DOMAIN stage[r].names \ stage[r].staged :
          /\ disk' = With(disk, Uploaded(i), i)
          /\ Becomes(r, [stage[r] EXCEPT !.staged = @ \cup {i}])
    BY <1>2 DEF StageUpload
  <2>2. stage[r] \in UploadStage
    BY <1>0, <1>2, StageTypes DEF StageUpload, At
  <2> DEFINE s == [stage[r] EXCEPT !.staged = @ \cup {i}]
  <2>3. i \in Ids
    BY <2>2 DEF UploadStage
  <2>4. s \in UploadStage /\ Becomes(r, s)
    BY <2>1, <2>2, <2>3 DEF UploadStage
  <2>5. s \in Stage /\ s.at # "snapshot"
    BY <2>4, StagesExist DEF UploadStage
  <2>6. UNCHANGED <<rows, snapshots, index, counters, history>>
    BY <1>2 DEF StageUpload
  <2>7. DOMAIN disk' \subseteq Paths /\ \A p \in DOMAIN disk' : disk'[p] \in Ids
    BY <2>1, <2>3, PathTypes, DiskAddsTypes DEF TypeInv
  <2> HIDE DEF s
  <2>8. VersionsFit'
    BY <2>4, <2>5, <2>6, SameVersions DEF counters
  <2> QED BY <2>4, <2>5, <2>6, <2>7, <2>8, BecomesType DEF TypeOK, history, counters
<1>3. CASE CommitUpload(r)
  <2> DEFINE new == [i \in stage[r].staged |->
                       [name |-> stage[r].names[i], path |-> Uploaded(i), bytes |-> i]]
             s == Unlinking(PathsOf(Restrict(rows, Replaced(r))))
  <2>1. stage[r] \in UploadStage /\ stage[r].staged = DOMAIN stage[r].names
    BY <1>0, <1>3, StageTypes DEF CommitUpload, At
  <2>2. /\ rows' = Merged(Without(rows, Replaced(r)), new) /\ Becomes(r, s)
        /\ UNCHANGED <<disk, snapshots, index, counters, history>>
    BY <1>3 DEF CommitUpload
  <2>3. new \in Rows
    <3>1. /\ stage[r].staged \in SUBSET Ids
          /\ \A i \in stage[r].staged : stage[r].names[i] \in Names
      BY <2>1 DEF UploadStage
    <3>2. \A i \in stage[r].staged : new[i] \in File
      BY <3>1, PathTypes DEF File
    <3>3. new = [i \in stage[r].staged |-> new[i]]
      OBVIOUS
    <3> HIDE DEF new
    <3> QED BY <3>1, <3>2, <3>3, RowsTypes
  <2>4. rows' \in Rows
    <3> HIDE DEF new
    <3> QED BY <1>0, <2>2, <2>3, WithoutRows, MergedRows
  <2>5. s \in Stage \cup {None} /\ (s # None => s.at = "unlink")
    <3>1. Replaced(r) \in SUBSET DOMAIN rows
      BY DEF Replaced, Conflicting
    <3>2. PathsOf(Restrict(rows, Replaced(r))) \in SUBSET Paths
      BY <1>0, <3>1, RestrictedRows, RowsTypes DEF PathsOf, File
    <3> QED BY <3>2, StagesExist DEF Unlinking
  <2> HIDE DEF s, new
  <2>6. VersionsFit'
    BY <2>2, <2>5, SameVersions DEF counters
  <2> QED BY <2>2, <2>4, <2>5, <2>6, BecomesType DEF TypeOK, history, counters
<1>4. CASE FailUpload(r)
  <2>1. Becomes(r, None) /\ UNCHANGED <<rows, snapshots, index, counters, crashed, dropped, resurrected, ambiguous>>
    BY <1>4 DEF FailUpload
  <2>2. /\ DOMAIN disk' \subseteq Paths /\ \A p \in DOMAIN disk' : disk'[p] \in Ids
        /\ leaked' \subseteq Paths
    BY <1>4, RemovesTypes DEF FailUpload
  <2>3. VersionsFit'
    BY <2>1, SameVersions DEF counters
  <2> QED BY <2>1, <2>2, <2>3, BecomesType DEF TypeOK, counters
<1>5. CASE UnlinkOne(r)
  <2>1. PICK p \in stage[r].paths : Removes({p}) /\ Becomes(r, Unlinking(stage[r].paths \ {p}))
    BY <1>5 DEF UnlinkOne
  <2> DEFINE s == Unlinking(stage[r].paths \ {p})
  <2>2. stage[r].paths \subseteq Paths
    BY <1>0, <1>5, StageTypes DEF UnlinkOne, At
  <2>3. s \in Stage \cup {None} /\ (s # None => s.at = "unlink") /\ Becomes(r, s)
    BY <2>1, <2>2, StagesExist DEF Unlinking
  <2>4. /\ DOMAIN disk' \subseteq Paths /\ \A x \in DOMAIN disk' : disk'[x] \in Ids
        /\ leaked' \subseteq Paths
    BY <2>1, RemovesTypes
  <2>5. UNCHANGED <<rows, snapshots, index, counters, crashed, dropped, resurrected, ambiguous>>
    BY <1>5 DEF UnlinkOne
  <2> HIDE DEF s
  <2>6. VersionsFit'
    BY <2>3, <2>5, SameVersions DEF counters
  <2> QED BY <2>3, <2>4, <2>5, <2>6, BecomesType DEF TypeOK, counters
<1> QED BY <1>1, <1>2, <1>3, <1>4, <1>5

LEMMA RowTypes ==
  ASSUME TypeInv, NEW r \in Requests,
         BeginDelete(r) \/ DeleteRows(r) \/ BeginValidation(r) \/ SaveValidation(r)
  PROVE  TypeInv'
<1> USE DEF TypeInv
<1>0. rows \in Rows /\ stage[r] \in Stage \cup {None}
  BY DEF TypeOK
<1>1. CASE BeginDelete(r)
  <2>1. PICK I \in SUBSET DOMAIN rows : Becomes(r, [at |-> "delete", rows |-> Restrict(rows, I)])
    BY <1>1 DEF BeginDelete
  <2> DEFINE s == [at |-> "delete", rows |-> Restrict(rows, I)]
  <2>2. s \in Stage /\ s.at # "snapshot" /\ Becomes(r, s)
    BY <1>0, <2>1, RestrictedRows, StagesExist
  <2>3. UNCHANGED <<rows, disk, snapshots, index, counters, history>>
    BY <1>1 DEF BeginDelete
  <2> HIDE DEF s
  <2>4. VersionsFit'
    BY <2>2, <2>3, SameVersions DEF counters
  <2> QED BY <2>2, <2>3, <2>4, BecomesType DEF TypeOK, history, counters
<1>2. CASE DeleteRows(r)
  <2> DEFINE s == Unlinking(PathsOf(stage[r].rows))
  <2>1. stage[r].rows \in Rows
    BY <1>0, <1>2, StageTypes DEF DeleteRows, At
  <2>2. PathsOf(stage[r].rows) \in SUBSET Paths
    BY <2>1, RowsTypes DEF PathsOf, File
  <2>3. s \in Stage \cup {None} /\ (s # None => s.at = "unlink")
    BY <2>2, StagesExist DEF Unlinking
  <2>4. /\ rows' = Without(rows, DOMAIN stage[r].rows) /\ Becomes(r, s)
        /\ UNCHANGED <<disk, snapshots, index, counters, history>>
    BY <1>2 DEF DeleteRows
  <2>5. rows' \in Rows
    BY <1>0, <2>4, WithoutRows
  <2> HIDE DEF s
  <2>6. VersionsFit'
    BY <2>3, <2>4, SameVersions DEF counters
  <2> QED BY <2>3, <2>4, <2>5, <2>6, BecomesType DEF TypeOK, history, counters
<1>3. CASE BeginValidation(r)
  <2> DEFINE s == [at |-> "validate", rows |-> rows]
  <2>1. s \in Stage /\ s.at # "snapshot"
    BY <1>0, StagesExist
  <2>2. Becomes(r, s) /\ UNCHANGED <<rows, disk, snapshots, index, counters, history>>
    BY <1>3 DEF BeginValidation
  <2> HIDE DEF s
  <2>3. VersionsFit'
    BY <2>1, <2>2, SameVersions DEF counters
  <2> QED BY <2>1, <2>2, <2>3, BecomesType DEF TypeOK, history, counters
<1>4. CASE SaveValidation(r)
  <2>1. stage[r].rows \in Rows
    BY <1>0, <1>4, StageTypes DEF SaveValidation, At
  <2>2. /\ rows' = Merged(stage[r].rows, rows) /\ Becomes(r, None)
        /\ resurrected' = resurrected \cup (DOMAIN stage[r].rows \ DOMAIN rows)
        /\ UNCHANGED <<disk, snapshots, index, counters, crashed, dropped, ambiguous, leaked>>
    BY <1>4 DEF SaveValidation
  <2>3. rows' \in Rows /\ resurrected' \subseteq Ids
    BY <1>0, <2>1, <2>2, MergedRows, RowsTypes DEF TypeOK
  <2>4. VersionsFit'
    BY <2>2, SameVersions DEF counters
  <2> QED BY <2>2, <2>3, <2>4, BecomesType DEF TypeOK, counters
<1> QED BY <1>1, <1>2, <1>3, <1>4

LEMMA RowsWith ==
  ASSUME NEW f \in Rows, NEW i \in Ids, NEW file \in File
  PROVE  /\ With(f, i, file) \in Rows
         /\ DOMAIN With(f, i, file) = DOMAIN f \cup {i}
         /\ With(f, i, file)[i] = file
         /\ \A j \in DOMAIN f \ {i} : With(f, i, file)[j] = f[j]
<1> DEFINE one == [y \in {i} |-> file]
<1>1. one = [y \in {i} |-> one[y]] /\ DOMAIN one = {i} /\ one[i] = file /\ {i} \in SUBSET Ids
  OBVIOUS
<1>2. With(f, i, file) = Merged(f, one)
  BY DEF With
<1> HIDE DEF one
<1>3. one \in Rows
  BY <1>1, RowsTypes
<1>4. /\ Merged(f, one) \in Rows /\ DOMAIN Merged(f, one) = DOMAIN f \cup DOMAIN one
      /\ \A j \in DOMAIN one : Merged(f, one)[j] = one[j]
      /\ \A j \in DOMAIN f \ DOMAIN one : Merged(f, one)[j] = f[j]
  BY <1>3, MergedRows
<1> QED BY <1>1, <1>2, <1>4

\* What CopyFile does, with its types.
LEMMA CopyTypes ==
  ASSUME TypeInv, NEW r \in Requests, CopyFile(r)
  PROVE  /\ TypeInv'
         /\ \E i \in DOMAIN stage[r].rows \ DOMAIN stage[r].files :
              LET file == stage[r].rows[i]
                  copy == Copied(stage[r].snapshot, i)
              IN /\ i \in Ids
                 /\ stage'[r] \in CopyStage /\ stage'[r].at = "copy"
                 /\ stage'[r].snapshot = stage[r].snapshot
                 /\ stage'[r].rows = stage[r].rows
                 /\ DOMAIN stage'[r].files = DOMAIN stage[r].files \cup {i}
                 /\ \A j \in DOMAIN stage[r].files : stage'[r].files[j] = stage[r].files[j]
                 /\ stage'[r].files[i].name = file.name
                 /\ stage'[r].files[i].bytes = file.bytes
                 /\ \/ /\ file.path \in DOMAIN disk
                       /\ disk' = With(disk, copy, disk[file.path])
                       /\ stage'[r].files[i].path = copy
                    \/ UNCHANGED disk /\ stage'[r].files[i].path = file.path
<1> USE DEF TypeInv
<1>0. stage[r] \in CopyStage
  BY StageTypes DEF CopyFile, At, TypeOK
<1>01. PICK i \in DOMAIN stage[r].rows \ DOMAIN stage[r].files :
         \E path \in {Copied(stage[r].snapshot, i), stage[r].rows[i].path} :
         /\ Becomes(r, [stage[r] EXCEPT
              !.files = With(@, i, FileInSnapshotAt(stage[r].rows[i], path))])
         /\ \/ /\ stage[r].rows[i].path \in DOMAIN disk
               /\ disk' = With(disk, Copied(stage[r].snapshot, i), disk[stage[r].rows[i].path])
               /\ path = Copied(stage[r].snapshot, i)
            \/ UNCHANGED disk /\ path = stage[r].rows[i].path
  BY DEF CopyFile
<1>1. PICK path \in {Copied(stage[r].snapshot, i), stage[r].rows[i].path} :
         /\ Becomes(r, [stage[r] EXCEPT
              !.files = With(@, i, FileInSnapshotAt(stage[r].rows[i], path))])
         /\ \/ /\ stage[r].rows[i].path \in DOMAIN disk
               /\ disk' = With(disk, Copied(stage[r].snapshot, i), disk[stage[r].rows[i].path])
               /\ path = Copied(stage[r].snapshot, i)
            \/ UNCHANGED disk /\ path = stage[r].rows[i].path
  BY <1>01
<1> DEFINE file == stage[r].rows[i]
           copy == Copied(stage[r].snapshot, i)
           files == With(stage[r].files, i, FileInSnapshotAt(file, path))
           s == [stage[r] EXCEPT !.files = files]
<1>2. /\ stage[r].rows \in Rows /\ stage[r].files \in Rows /\ stage[r].snapshot \in SnapshotIds
      /\ i \in DOMAIN stage[r].rows
  BY <1>0 DEF CopyStage
<1>3. i \in Ids /\ file \in File
  BY <1>2, RowsTypes
<1>4. path \in Paths /\ copy \in Paths
  BY <1>2, <1>3, PathTypes DEF File
<1>5. /\ files \in Rows /\ DOMAIN files = DOMAIN stage[r].files \cup {i}
      /\ files[i].path = path /\ files[i].name = file.name /\ files[i].bytes = file.bytes
      /\ \A j \in DOMAIN stage[r].files : files[j] = stage[r].files[j]
  <2> DEFINE old == stage[r].files
             new == FileInSnapshotAt(file, path)
  <2>1. old \in Rows /\ i \notin DOMAIN old
    BY <1>2
  <2>2. new \in File /\ new.path = path /\ new.name = file.name /\ new.bytes = file.bytes
    BY <1>3, <1>4 DEF FileInSnapshotAt, File
  <2>3. files = With(old, i, new)
    OBVIOUS
  <2> HIDE DEF file, files, old, new
  <2>4. /\ With(old, i, new) \in Rows
        /\ DOMAIN With(old, i, new) = DOMAIN old \cup {i}
        /\ With(old, i, new)[i] = new
        /\ \A j \in DOMAIN old \ {i} : With(old, i, new)[j] = old[j]
    BY <1>3, <2>1, <2>2, RowsWith
  <2>5. \A j \in DOMAIN old : files[j] = old[j]
    BY <2>1, <2>3, <2>4
  <2> QED BY <2>2, <2>3, <2>4, <2>5 DEF old
<1>6. Becomes(r, s)
  BY <1>1
<1> HIDE DEF files
<1>7. /\ s \in CopyStage /\ s.at = "copy" /\ s.snapshot = stage[r].snapshot
      /\ s.rows = stage[r].rows /\ s.files = files
  BY <1>0, <1>5 DEF CopyStage
<1> HIDE DEF s
<1>8. s \in Stage /\ UNCHANGED <<rows, snapshots, index, counters, history>>
  BY <1>7, StagesExist DEF CopyFile
<1>9. /\ stage' \in [Requests -> Stage \cup {None}] /\ stage'[r] = s
  BY <1>6, <1>8, BecomesType
<1>10. DOMAIN disk' \subseteq Paths /\ \A y \in DOMAIN disk' : disk'[y] \in Ids
  <2>1. CASE UNCHANGED disk
    BY <2>1 DEF TypeOK
  <2>2. CASE file.path \in DOMAIN disk /\ disk' = With(disk, copy, disk[file.path])
    <3>1. disk[file.path] \in Ids
      BY <2>2 DEF TypeOK
    <3> QED BY <1>4, <2>2, <3>1, DiskAddsTypes
  <2> QED BY <1>1, <2>1, <2>2
<1>11. VersionsFit'
  BY <1>6, <1>7, <1>8, SameVersions DEF counters
<1>12. TypeInv'
  BY <1>8, <1>9, <1>10, <1>11 DEF TypeOK, history, counters
<1> QED BY <1>1, <1>3, <1>5, <1>7, <1>9, <1>12

LEMMA SnapshotTypes ==
  ASSUME TypeInv, NEW r \in Requests,
         \/ BeginSnapshot(r) \/ SaveSnapshot(r) \/ ListRows(r) \/ SaveSnapshotFiles(r)
         \/ DeleteSnapshot(r) \/ PurgeSnapshot(r)
  PROVE  TypeInv'
<1> USE DEF TypeInv
<1>0. /\ rows \in Rows /\ stage[r] \in Stage \cup {None}
      /\ nextSnapshot \in 1..(MaxSnapshots + 1) /\ MaxSnapshots \in Nat
      /\ DOMAIN snapshots \subseteq SnapshotIds
      /\ \A t \in DOMAIN snapshots : snapshots[t] \in Snapshot
  BY PackageFilesAssumption DEF TypeOK
<1>1. CASE BeginSnapshot(r)
  <2> DEFINE s == [at |-> "snapshot", version |-> LatestVersion + 1, index |-> index]
  <2>1. LatestVersion \in Nat /\ LatestVersion + 1 <= nextSnapshot
    BY LatestVersionType
  <2>2. s \in Stage /\ s.version <= nextSnapshot
    <3>1. LatestVersion + 1 \in Nat \ {0} /\ index \in Indexes
      BY <2>1 DEF TypeOK
    <3>2. s \in Stage
      <4> HIDE DEF TypeInv
      <4> QED BY <3>1, StagesExist
    <3> QED BY <2>1, <3>2
  <2>3. Becomes(r, s) /\ UNCHANGED <<rows, disk, snapshots, index, counters, history>>
    BY <1>1 DEF BeginSnapshot
  <2> HIDE DEF s
  <2>4. VersionsFit'
    BY <2>2, <2>3, SameVersions DEF counters
  <2> QED BY <2>2, <2>3, <2>4, BecomesType DEF TypeOK, history, counters
<1>2. CASE SaveSnapshot(r)
  <2> DEFINE new == [version |-> stage[r].version, index |-> stage[r].index, files |-> <<>>]
             s == [at |-> "list", snapshot |-> nextSnapshot]
  <2>1. /\ snapshots' = With(snapshots, nextSnapshot, new)
        /\ nextSnapshot' = nextSnapshot + 1 /\ nextSnapshot <= MaxSnapshots
        /\ Becomes(r, s) /\ UNCHANGED <<rows, disk, index, nextFile, history>>
    BY <1>2 DEF SaveSnapshot
  <2>2. nextSnapshot \in SnapshotIds
    BY <1>0, <2>1 DEF SnapshotIds
  <2>3. s \in Stage /\ s.at # "snapshot"
    BY <2>2, StagesExist
  <2>4. new \in Snapshot /\ new.version <= nextSnapshot
    <3>1. stage[r].version \in Nat \ {0} /\ stage[r].index \in Indexes
      BY <1>0, <1>2, StageTypes DEF SaveSnapshot, At
    <3> QED BY <1>2, <3>1, RowsTypes DEF SaveSnapshot, Snapshot, VersionsFit
  <2> HIDE DEF new, s
  <2>5. /\ DOMAIN snapshots' = DOMAIN snapshots \cup {nextSnapshot}
        /\ snapshots'[nextSnapshot] = new
        /\ \A t \in DOMAIN snapshots \ {nextSnapshot} : snapshots'[t] = snapshots[t]
    BY <2>1 DEF With, Merged
  <2>6. /\ stage' \in [Requests -> Stage \cup {None}] /\ stage'[r] = s
        /\ \A q \in Requests \ {r} : stage'[q] = stage[q]
    BY <2>1, <2>3, BecomesType
  <2>7. nextSnapshot' \in 1..(MaxSnapshots + 1) /\ nextSnapshot' > nextSnapshot
    BY <1>0, <2>1
  <2>8. \A t \in DOMAIN snapshots' : snapshots'[t] \in Snapshot /\ snapshots'[t].version < nextSnapshot'
    BY <1>0, <2>1, <2>4, <2>5 DEF VersionsFit, Snapshot
  <2>9. \A q \in Requests : At(q, "snapshot")' => stage'[q].version <= nextSnapshot'
    <3>1. ASSUME NEW q \in Requests, At(q, "snapshot")' PROVE stage'[q].version <= nextSnapshot'
      <4>1. q # r /\ stage'[q] = stage[q]
        BY <2>3, <2>6, <3>1 DEF At
      <4>2. At(q, "snapshot") /\ stage[q] \in Stage
        BY <3>1, <4>1 DEF At, TypeOK
      <4>3. stage[q].version \in Nat /\ stage[q].version <= nextSnapshot
        BY <4>2, StageTypes DEF At, VersionsFit
      <4> QED BY <1>0, <2>1, <4>1, <4>3
    <3> QED BY <3>1
  <2>10. DOMAIN snapshots' \subseteq SnapshotIds
    BY <1>0, <2>2, <2>5
  <2> QED BY <2>1, <2>6, <2>7, <2>8, <2>9, <2>10 DEF TypeOK, VersionsFit, history
<1>3. CASE ListRows(r)
  <2> DEFINE s == [at |-> "copy", snapshot |-> stage[r].snapshot, rows |-> rows, files |-> <<>>]
  <2>1. stage[r].snapshot \in SnapshotIds
    BY <1>0, <1>3, StageTypes DEF ListRows, At
  <2>2. s \in CopyStage /\ s.at # "snapshot"
    BY <1>0, <2>1, RowsTypes DEF CopyStage
  <2>3. Becomes(r, s) /\ UNCHANGED <<rows, disk, snapshots, index, counters, history>>
    BY <1>3 DEF ListRows
  <2> HIDE DEF s
  <2>4. s \in Stage
    BY <2>2, StagesExist
  <2>5. VersionsFit'
    BY <2>2, <2>3, <2>4, SameVersions DEF counters
  <2> QED BY <2>3, <2>4, <2>5, BecomesType DEF TypeOK, history, counters
<1>4. CASE SaveSnapshotFiles(r)
  <2>1. /\ Becomes(r, None) /\ UNCHANGED <<rows, disk, index, counters, history>>
        /\ \/ UNCHANGED snapshots
           \/ snapshots' = [snapshots EXCEPT ![stage[r].snapshot].files = stage[r].files]
    BY <1>4 DEF SaveSnapshotFiles
  <2>2. stage[r].files \in Rows
    BY <1>0, <1>4, StageTypes DEF SaveSnapshotFiles, At, CopyStage
  <2>3. /\ DOMAIN snapshots' = DOMAIN snapshots
        /\ \A t \in DOMAIN snapshots : /\ snapshots'[t] \in Snapshot
                                       /\ snapshots'[t].version = snapshots[t].version
    BY <1>0, <2>1, <2>2 DEF Snapshot
  <2>4. stage' \in [Requests -> Stage \cup {None}] /\ stage'[r] = None
        /\ \A q \in Requests \ {r} : stage'[q] = stage[q]
    BY <2>1, BecomesType
  <2>5. VersionsFit'
    BY <2>1, <2>3, <2>4 DEF VersionsFit, At, counters
  <2> QED BY <1>0, <2>1, <2>3, <2>4, <2>5 DEF TypeOK, history, counters
<1>5. CASE DeleteSnapshot(r)
  <2>1. PICK t \in DOMAIN snapshots : /\ snapshots' = Without(snapshots, {t})
                                      /\ Becomes(r, [at |-> "purge", snapshot |-> t])
    BY <1>5 DEF DeleteSnapshot
  <2> DEFINE s == [at |-> "purge", snapshot |-> t]
  <2>2. s \in Stage /\ s.at # "snapshot" /\ Becomes(r, s)
    BY <1>0, <2>1, StagesExist
  <2>3. UNCHANGED <<rows, disk, index, counters, history>>
    BY <1>5 DEF DeleteSnapshot
  <2>4. /\ DOMAIN snapshots' = DOMAIN snapshots \ {t}
        /\ \A y \in DOMAIN snapshots \ {t} : snapshots'[y] = snapshots[y]
    BY <2>1, DiskLoses
  <2> HIDE DEF s
  <2>5. stage' \in [Requests -> Stage \cup {None}] /\ stage'[r] = s
        /\ \A q \in Requests \ {r} : stage'[q] = stage[q]
    BY <2>2, BecomesType
  <2>6. VersionsFit'
    BY <2>2, <2>3, <2>4, <2>5 DEF VersionsFit, At, counters
  <2> QED BY <1>0, <2>3, <2>4, <2>5, <2>6 DEF TypeOK, history, counters
<1>6. CASE PurgeSnapshot(r)
  <2>1. Becomes(r, None) /\ UNCHANGED <<rows, snapshots, index, counters, crashed, dropped, resurrected, ambiguous>>
    BY <1>6 DEF PurgeSnapshot
  <2>2. /\ DOMAIN disk' \subseteq Paths /\ \A y \in DOMAIN disk' : disk'[y] \in Ids
        /\ leaked' \subseteq Paths
    BY <1>6, RemovesTypes DEF PurgeSnapshot
  <2>3. VersionsFit'
    BY <2>1, SameVersions DEF counters
  <2> QED BY <2>1, <2>2, <2>3, BecomesType DEF TypeOK, counters
<1> QED BY <1>1, <1>2, <1>3, <1>4, <1>5, <1>6

LEMMA FreshIds ==
  ASSUME NEW files \in Rows, nextFile \in 1..(MaxFiles + 1),
         nextFile + Cardinality(DOMAIN files) - 1 <= MaxFiles
  PROVE  /\ Cardinality(DOMAIN files) \in Nat
         /\ nextFile..(nextFile + Cardinality(DOMAIN files) - 1) \subseteq Ids
         /\ nextFile + Cardinality(DOMAIN files) \in 1..(MaxFiles + 1)
<1>1. Cardinality(DOMAIN files) \in Nat
  <2>1. IsFiniteSet(Ids)
    BY FS_Interval, PackageFilesAssumption DEF Ids
  <2>2. IsFiniteSet(DOMAIN files)
    BY <2>1, FS_Subset, RowsTypes
  <2> QED BY <2>2, FS_CardinalityType
<1>2. MaxFiles \in Nat
  BY PackageFilesAssumption
<1> QED BY <1>1, <1>2 DEF Ids

\* The rows a restore inserts: one for each file of the snapshot.
RestoredFile(snapshot, file) == [file EXCEPT !.path = Restored(snapshot, file.name)]

LEMMA InsertTypes ==
  ASSUME TypeInv, NEW r \in Requests, InsertRows(r)
  PROVE  /\ TypeInv'
         /\ stage[r] \in InsertStage
         /\ \E new \in Rows : /\ DOMAIN new = stage[r].ids /\ rows' = Merged(rows, new)
                              /\ \A i \in stage[r].ids : \E j \in DOMAIN stage[r].files :
                                   new[i] = RestoredFile(stage[r].snapshot, stage[r].files[j])
<1> USE DEF TypeInv
<1>0. stage[r] \in InsertStage /\ rows \in Rows
  BY StageTypes DEF InsertRows, At, TypeOK
<1>1. PICK of \in Bijection(stage[r].ids, DOMAIN stage[r].files) :
         rows' = Merged(rows, [i \in stage[r].ids |->
           RestoredFile(stage[r].snapshot, stage[r].files[of[i]])])
  BY DEF InsertRows, RestoredFile
<1> DEFINE new == [i \in stage[r].ids |-> RestoredFile(stage[r].snapshot, stage[r].files[of[i]])]
<1>2. /\ stage[r].files \in Rows /\ stage[r].snapshot \in SnapshotIds /\ stage[r].ids \in SUBSET Ids
      /\ of \in [stage[r].ids -> DOMAIN stage[r].files]
  BY <1>0 DEF InsertStage, Bijection, Injection
<1>3. \A i \in stage[r].ids : new[i] \in File
  <2>1. ASSUME NEW file \in File PROVE RestoredFile(stage[r].snapshot, file) \in File
    BY <1>2, PathTypes DEF RestoredFile, File
  <2>2. \A i \in stage[r].ids : stage[r].files[of[i]] \in File
    BY <1>2, RowsTypes
  <2> QED BY <2>1, <2>2
<1>4. \A i \in stage[r].ids : \E j \in DOMAIN stage[r].files :
        new[i] = RestoredFile(stage[r].snapshot, stage[r].files[j])
  BY <1>2
<1>5. new = [i \in stage[r].ids |-> new[i]] /\ DOMAIN new = stage[r].ids /\ rows' = Merged(rows, new)
  BY <1>1
<1> HIDE DEF new
<1>6. new \in Rows
  BY <1>2, <1>3, <1>5, RowsTypes
<1>7. rows' \in Rows
  BY <1>0, <1>5, <1>6, MergedRows
<1>8. Becomes(r, None) /\ UNCHANGED <<disk, snapshots, index, counters, history>>
  BY DEF InsertRows
<1>9. VersionsFit'
  BY <1>8, SameVersions DEF counters
<1>10. TypeInv'
  BY <1>7, <1>8, <1>9, BecomesType DEF TypeOK, history, counters
<1> QED BY <1>0, <1>4, <1>5, <1>6, <1>10

\* A restore that is refused may have removed the target of a copy.
LEMMA FailedRestore ==
  ASSUME TypeInv, NEW r \in Requests, FailRestore(r)
  PROVE  /\ Becomes(r, None) /\ UNCHANGED <<rows, snapshots, index, counters, history>>
         /\ stage[r] # None /\ stage[r].at = "fetch"
         /\ \E P : /\ disk' = Without(disk, P)
                   /\ \A i : Uploaded(i) \notin P /\ \A t : Copied(t, i) \notin P
<1>1. /\ Becomes(r, None) /\ UNCHANGED <<rows, snapshots, index, counters, history>>
      /\ stage[r] # None /\ stage[r].at = "fetch"
  BY DEF FailRestore, At
<1>2. PICK i \in DOMAIN stage[r].files \ stage[r].fetched :
        \E lost \in SUBSET {Restored(stage[r].snapshot, stage[r].files[i].name)} :
          disk' = Without(disk, lost)
  BY DEF FailRestore
<1>3. PICK lost \in SUBSET {Restored(stage[r].snapshot, stage[r].files[i].name)} :
        disk' = Without(disk, lost)
  BY <1>2
<1>4. \A j : Uploaded(j) \notin lost /\ \A t : Copied(t, j) \notin lost
  BY <1>3 DEF Uploaded, Copied, Restored
<1> QED BY <1>1, <1>3, <1>4

LEMMA RestoreTypes ==
  ASSUME TypeInv, NEW r \in Requests,
         BeginRestore(r) \/ RestoreIndex(r) \/ FetchFile(r) \/ FailRestore(r) \/ ClearRows(r)
  PROVE  TypeInv'
<1> USE DEF TypeInv
<1>0. /\ rows \in Rows /\ stage[r] \in Stage \cup {None}
      /\ DOMAIN snapshots \subseteq SnapshotIds
      /\ \A t \in DOMAIN snapshots : snapshots[t] \in Snapshot
  BY DEF TypeOK
<1>1. CASE BeginRestore(r)
  <2>1. PICK t \in DOMAIN snapshots :
          Becomes(r, [at |-> "restore", snapshot |-> t, index |-> snapshots[t].index,
                      files |-> snapshots[t].files])
    BY <1>1 DEF BeginRestore
  <2> DEFINE s == [at |-> "restore", snapshot |-> t, index |-> snapshots[t].index,
                   files |-> snapshots[t].files]
  <2>2. snapshots[t].index \in Indexes /\ snapshots[t].files \in Rows /\ t \in SnapshotIds
    BY <1>0 DEF Snapshot
  <2>3. s \in Stage /\ s.at # "snapshot" /\ Becomes(r, s)
    BY <2>1, <2>2, StagesExist
  <2>4. UNCHANGED <<rows, disk, snapshots, index, counters, history>>
    BY <1>1 DEF BeginRestore
  <2> HIDE DEF s
  <2>5. VersionsFit'
    BY <2>3, <2>4, SameVersions DEF counters
  <2> QED BY <2>3, <2>4, <2>5, BecomesType DEF TypeOK, history, counters
<1>2. CASE RestoreIndex(r)
  <2> DEFINE s == [at |-> "fetch", snapshot |-> stage[r].snapshot, files |-> stage[r].files,
                   fetched |-> {}]
  <2>1. stage[r].snapshot \in SnapshotIds /\ stage[r].files \in Rows /\ stage[r].index \in Indexes
    BY <1>0, <1>2, StageTypes DEF RestoreIndex, At
  <2>2. s \in FetchStage /\ s.at # "snapshot"
    BY <2>1 DEF FetchStage
  <2>3. Becomes(r, s) /\ UNCHANGED <<rows, disk, snapshots, counters, history>>
        /\ index' = stage[r].index
    BY <1>2 DEF RestoreIndex
  <2> HIDE DEF s
  <2>4. s \in Stage
    BY <2>2, StagesExist
  <2>5. VersionsFit'
    BY <2>2, <2>3, <2>4, SameVersions DEF counters
  <2> QED BY <2>1, <2>3, <2>4, <2>5, BecomesType DEF TypeOK, history, counters
<1>3. CASE FetchFile(r)
  <2>1. PICK i \in DOMAIN stage[r].files \ stage[r].fetched :
          LET file == stage[r].files[i]
          IN /\ file.path \in DOMAIN disk
             /\ disk' = With(disk, Restored(stage[r].snapshot, file.name), disk[file.path])
             /\ ambiguous' =
                  (ambiguous \/ \E j \in stage[r].fetched : stage[r].files[j].name = file.name)
             /\ Becomes(r, [stage[r] EXCEPT !.fetched = @ \cup {i}])
    BY <1>3 DEF FetchFile
  <2> DEFINE s == [stage[r] EXCEPT !.fetched = @ \cup {i}]
  <2>2. stage[r] \in FetchStage
    BY <1>0, <1>3, StageTypes DEF FetchFile, At
  <2>3. stage[r].files[i] \in File /\ i \in Ids /\ stage[r].snapshot \in SnapshotIds
    BY <2>2, RowsTypes DEF FetchStage
  <2>4. s \in FetchStage /\ Becomes(r, s)
    BY <2>1, <2>2, <2>3 DEF FetchStage
  <2>5. s \in Stage /\ s.at # "snapshot"
    BY <2>4, StagesExist DEF FetchStage
  <2>6. DOMAIN disk' \subseteq Paths /\ \A y \in DOMAIN disk' : disk'[y] \in Ids
    <3> DEFINE path == Restored(stage[r].snapshot, stage[r].files[i].name)
               bytes == disk[stage[r].files[i].path]
    <3>1. path \in Paths /\ bytes \in Ids /\ disk' = With(disk, path, bytes)
      BY <2>1, <2>3, PathTypes DEF File, TypeOK
    <3> HIDE DEF path, bytes
    <3> QED BY <3>1, DiskAddsTypes
  <2>7. /\ UNCHANGED <<rows, snapshots, index, counters, crashed, dropped, resurrected, leaked>>
        /\ ambiguous' \in BOOLEAN
    BY <1>3, <2>1 DEF FetchFile
  <2> HIDE DEF s
  <2>8. VersionsFit'
    BY <2>4, <2>5, <2>7, SameVersions DEF counters
  <2> QED BY <2>4, <2>5, <2>6, <2>7, <2>8, BecomesType DEF TypeOK, counters
<1>4. CASE FailRestore(r)
  <2>1. /\ Becomes(r, None) /\ UNCHANGED <<rows, snapshots, index, counters, history>>
        /\ \E P : disk' = Without(disk, P)
    BY <1>4, FailedRestore
  <2>2. DOMAIN disk' \subseteq Paths /\ \A y \in DOMAIN disk' : disk'[y] \in Ids
    BY <2>1, DiskLosesTypes
  <2>3. VersionsFit'
    BY <2>1, SameVersions DEF counters
  <2> QED BY <2>1, <2>2, <2>3, BecomesType DEF TypeOK, history, counters
<1>5. CASE ClearRows(r)
  <2> DEFINE n == Cardinality(DOMAIN stage[r].files)
             s == IF n = 0 THEN None
                  ELSE [at |-> "insert", snapshot |-> stage[r].snapshot,
                        files |-> stage[r].files, ids |-> nextFile..(nextFile + n - 1)]
  <2>1. stage[r] \in FetchStage
    BY <1>0, <1>5, StageTypes DEF ClearRows, At
  <2>2. /\ nextFile + n - 1 <= MaxFiles /\ rows' = <<>> /\ dropped' = dropped \cup DOMAIN rows
        /\ Becomes(r, s) /\ nextFile' = nextFile + n
        /\ UNCHANGED <<disk, snapshots, index, nextSnapshot, crashed, resurrected, ambiguous, leaked>>
    BY <1>5 DEF ClearRows
  <2>3. nextFile..(nextFile + n - 1) \subseteq Ids /\ nextFile + n \in 1..(MaxFiles + 1)
    BY <2>1, <2>2, FreshIds DEF FetchStage, TypeOK
  <2>4. s \in Stage \cup {None} /\ (s # None => s.at = "insert")
    <3> HIDE DEF n
    <3>1. [at |-> "insert", snapshot |-> stage[r].snapshot, files |-> stage[r].files,
           ids |-> nextFile..(nextFile + n - 1)] \in InsertStage
      BY <2>1, <2>3 DEF FetchStage, InsertStage
    <3> QED BY <3>1, StagesExist
  <2>5. rows' \in Rows /\ dropped' \subseteq Ids
    BY <1>0, <2>2, RowsTypes DEF TypeOK
  <2> HIDE DEF s, n
  <2>6. VersionsFit'
    BY <2>2, <2>4, SameVersions
  <2> QED BY <2>2, <2>3, <2>4, <2>5, <2>6, BecomesType DEF TypeOK
<1> QED BY <1>1, <1>2, <1>3, <1>4, <1>5

\* A step of one request.
Acts(r) ==
  \/ BeginUpload(r) \/ StageUpload(r) \/ CommitUpload(r) \/ FailUpload(r) \/ UnlinkOne(r)
  \/ BeginDelete(r) \/ DeleteRows(r) \/ BeginValidation(r) \/ SaveValidation(r)
  \/ BeginSnapshot(r) \/ SaveSnapshot(r) \/ ListRows(r) \/ CopyFile(r)
  \/ SaveSnapshotFiles(r) \/ DeleteSnapshot(r) \/ PurgeSnapshot(r)
  \/ BeginRestore(r) \/ RestoreIndex(r) \/ FetchFile(r) \/ FailRestore(r)
  \/ ClearRows(r) \/ InsertRows(r)

LEMMA TypesHold ==
  /\ Init => TypeInv
  /\ TypeInv /\ [Next]_vars => TypeInv'
<1>1. ASSUME Init PROVE TypeInv
  <2>1. /\ rows \in Rows /\ DOMAIN disk = {} /\ DOMAIN snapshots = {}
    BY <1>1, RowsTypes DEF Init
  <2>2. nextFile \in 1..(MaxFiles + 1) /\ nextSnapshot \in 1..(MaxSnapshots + 1)
    BY <1>1, PackageFilesAssumption DEF Init
  <2>3. VersionsFit
    BY <1>1, <2>1 DEF Init, VersionsFit, At
  <2> QED BY <1>1, <2>1, <2>2, <2>3 DEF Init, TypeInv, TypeOK
<1>2. ASSUME TypeInv, [Next]_vars PROVE TypeInv'
  <2>1. CASE UNCHANGED vars
    BY <1>2, <2>1 DEF vars, TypeInv, TypeOK, VersionsFit, At
  <2>2. CASE EditIndex
    BY <1>2, <2>2 DEF EditIndex, TypeInv, TypeOK, VersionsFit, At, counters, history
  <2>3. CASE Crash
    BY <1>2, <2>3 DEF Crash, TypeInv, TypeOK, VersionsFit, At, counters
  <2>4. ASSUME NEW r \in Requests, Acts(r) PROVE TypeInv'
    BY <1>2, <2>4, UploadTypes, RowTypes, CopyTypes, SnapshotTypes, RestoreTypes, InsertTypes
       DEF Acts
  <2> QED BY <1>2, <2>1, <2>2, <2>3, <2>4 DEF Next, Acts
<1> QED BY <1>1, <1>2

-----------------------------------------------------------------------------
(* What requests are about to do, and the inductive invariant.             *)

\* The rows r is about to create; those of an upload that are on disk already.
Owned(r) ==
  {i \in Ids : \/ At(r, "upload") /\ i \in DOMAIN stage[r].names
               \/ At(r, "insert") /\ i \in stage[r].ids}
Staged(r) == {i \in Ids : At(r, "upload") /\ i \in stage[r].staged}
\* The rows r has read, to delete them, to save them again or to copy their files.
Held(r) ==
  {i \in Ids : /\ At(r, "delete") \/ At(r, "validate") \/ At(r, "copy")
               /\ i \in DOMAIN stage[r].rows}
\* The uploaded files r is about to unlink.
Going(r) == {i \in Ids : At(r, "unlink") /\ Uploaded(i) \in stage[r].paths}

Used(i) == i < nextFile
Stored(i) == Uploaded(i) \in DOMAIN disk /\ disk[Uploaded(i)] = i
\* Where the file of row i may be while the row is in the package.
LivePath(i, path) ==
  path.dir # "snapshots" /\ (path.dir = "uploads" => path = Uploaded(i))

RequestFits(r) ==
  /\ \A i \in Owned(r) : Used(i) /\ i \notin DOMAIN rows
  /\ \A i \in Held(r) : /\ Used(i) /\ LivePath(i, stage[r].rows[i].path)
                        /\ i \in DOMAIN rows => stage[r].rows[i].path = rows[i].path
  /\ \A i \in Going(r) : Used(i) /\ (i \in DOMAIN rows => i \in resurrected)
  /\ At(r, "unlink") => \A p \in stage[r].paths : p.dir # "snapshots"
  /\ \A i \in Staged(r) : i \in Owned(r) /\ Stored(i)

RequestsAgree(q, r) ==
  /\ \A i \in Owned(q) : i \notin Held(r) /\ i \notin Going(r) /\ (q # r => i \notin Owned(r))
  /\ \A i \in Held(q) \cap Held(r) : stage[q].rows[i].path = stage[r].rows[i].path

RowsFit ==
  \A i \in DOMAIN rows :
    /\ Used(i) /\ LivePath(i, rows[i].path)
    /\ rows[i].path = Uploaded(i) /\ i \notin resurrected => Stored(i)

\* Somebody knows of the uploaded file i.
Tracked(i) ==
  \/ i \in DOMAIN rows /\ rows[i].path = Uploaded(i)
  \/ i \in dropped
  \/ Uploaded(i) \in leaked
  \/ \E r \in Requests : i \in Staged(r) \/ i \in Going(r)

SnapshotKept(s, files) ==
  \A i \in DOMAIN files :
    files[i].path.dir = "snapshots" =>
      /\ files[i].path = Copied(s, i)
      /\ s \in DOMAIN snapshots => Copied(s, i) \in DOMAIN disk

SnapshotsFit ==
  /\ \A s \in DOMAIN snapshots : s < nextSnapshot /\ SnapshotKept(s, snapshots[s].files)
  /\ \A r \in Requests :
       /\ At(r, "list") \/ At(r, "copy") \/ At(r, "purge") => stage[r].snapshot < nextSnapshot
       /\ At(r, "purge") => stage[r].snapshot \notin DOMAIN snapshots
       /\ At(r, "copy") => SnapshotKept(stage[r].snapshot, stage[r].files)

Inv ==
  /\ TypeInv
  /\ RowsFit
  /\ \A r \in Requests : RequestFits(r)
  /\ \A q, r \in Requests : RequestsAgree(q, r)
  /\ SnapshotsFit
  /\ ~crashed => \A i \in Ids : Uploaded(i) \in DOMAIN disk => Tracked(i)

-----------------------------------------------------------------------------
(* What a step of r may do: to rows, requests and bytes (Moves), to what is    *)
(* known of the bytes (Leaves), to the snapshots (Files).                  *)

\* A row that is there afterwards was there before, or r created it with a
\* file that r had staged or restored, or r had read it and inserts it again.
RowsCome(r) ==
  \A i \in DOMAIN rows' :
    \/ i \in DOMAIN rows /\ rows'[i] = rows[i]
    \/ /\ i \in Owned(r) /\ LivePath(i, rows'[i].path)
       /\ rows'[i].path = Uploaded(i) => i \in Staged(r)
    \/ /\ i \in Held(r) \ DOMAIN rows /\ rows'[i].path = stage[r].rows[i].path
       /\ i \in resurrected'

\* What r owns is fresh, what it has read was in the rows, what it unlinks is
\* no more in them.
RequestGoesOn(r) ==
  /\ \A i \in Owned(r)' : i \in Owned(r) \ DOMAIN rows' \/ (~Used(i) /\ Used(i)')
  /\ \A i \in Held(r)' : \/ i \in Held(r) /\ stage'[r].rows[i] = stage[r].rows[i]
                         \/ i \in DOMAIN rows /\ stage'[r].rows[i] = rows[i]
  /\ \A i \in Going(r)' : i \in Going(r) \/ i \in (DOMAIN rows \cup Held(r)) \ DOMAIN rows'
  /\ At(r, "unlink")' => \A p \in stage'[r].paths : p.dir # "snapshots"
  /\ \A i \in Staged(r)' : i \in Owned(r)' /\ (i \in Staged(r) \/ Stored(i)')

\* Bytes only go when r unlinks them, or gives up what it was about to create.
BytesStay(r) ==
  \A i \in Ids : Stored(i) => \/ Stored(i)' \/ i \in Going(r)
                              \/ i \in Owned(r) /\ i \notin Owned(r)' /\ i \notin DOMAIN rows'

Moves(r) ==
  /\ \A q \in Requests \ {r} : stage'[q] = stage[q]
  /\ resurrected \subseteq resurrected' /\ nextFile' >= nextFile
  /\ RowsCome(r) /\ RequestGoesOn(r) /\ BytesStay(r)

Leaves(r) ==
  /\ crashed' = crashed /\ dropped \subseteq dropped' /\ leaked \subseteq leaked'
  /\ \A i \in Ids : Uploaded(i) \in DOMAIN disk' =>
       /\ Uploaded(i) \in DOMAIN disk \/ i \in Staged(r)'
       /\ i \in Staged(r) \cup Going(r) \/ (i \in DOMAIN rows /\ rows[i].path = Uploaded(i))
            => \/ i \in DOMAIN rows' /\ rows'[i].path = Uploaded(i)
               \/ i \in dropped' \/ Uploaded(i) \in leaked' \/ i \in Staged(r)' \cup Going(r)'

Files(r) ==
  /\ nextSnapshot' >= nextSnapshot
  /\ \A s \in DOMAIN snapshots' :
       \/ s \in DOMAIN snapshots /\ snapshots'[s].files = snapshots[s].files
       \/ s \in DOMAIN snapshots /\ At(r, "copy") /\ s = stage[r].snapshot
            /\ snapshots'[s].files = stage[r].files
       \/ s = nextSnapshot /\ s < nextSnapshot' /\ snapshots'[s].files = <<>>
  /\ \A s \in DOMAIN snapshots', i \in Ids :
       Copied(s, i) \in DOMAIN disk => Copied(s, i) \in DOMAIN disk'
  /\ At(r, "list")' \/ At(r, "copy")' \/ At(r, "purge")' => stage'[r].snapshot < nextSnapshot'
  /\ At(r, "purge")' => stage'[r].snapshot \notin DOMAIN snapshots'
  /\ At(r, "copy")' => SnapshotKept(stage[r].snapshot, stage[r].files)'

\* The sets of a request that does nothing are the same.
LEMMA OthersWait ==
  ASSUME NEW r \in Requests, Moves(r), NEW q \in Requests, q # r
  PROVE  /\ stage'[q] = stage[q]
         /\ Owned(q)' = Owned(q) /\ Held(q)' = Held(q) /\ Going(q)' = Going(q)
         /\ Staged(q)' = Staged(q)
<1>1. stage'[q] = stage[q]
  BY DEF Moves
<1> QED BY <1>1 DEF Owned, Held, Going, Staged, At

LEMMA UsedStays ==
  ASSUME TypeInv, TypeInv', NEW r \in Requests, Moves(r), NEW i \in Ids, Used(i)
  PROVE  Used(i)'
  BY PackageFilesAssumption DEF TypeInv, TypeOK, Used, Moves, Ids

LEMMA MovesKeepRows ==
  ASSUME Inv, TypeInv', NEW r \in Requests, Moves(r)
  PROVE  RowsFit'
<1> SUFFICES ASSUME NEW i \in DOMAIN rows'
             PROVE  /\ Used(i)' /\ LivePath(i, rows'[i].path)
                    /\ rows'[i].path = Uploaded(i) /\ i \notin resurrected' => Stored(i)'
  BY DEF RowsFit, Used, LivePath, Stored
<1>1. i \in Ids
  BY RowsTypes DEF TypeInv, TypeOK
<1>2. RequestFits(r) /\ RequestsAgree(r, r) /\ RowsFit /\ TypeInv
  BY DEF Inv
<1>3. resurrected \subseteq resurrected' /\ RowsCome(r) /\ BytesStay(r)
  BY DEF Moves
<1>4. CASE i \in DOMAIN rows /\ rows'[i] = rows[i]
  <2>1. /\ Used(i) /\ LivePath(i, rows[i].path)
        /\ rows[i].path = Uploaded(i) /\ i \notin resurrected => Stored(i)
    BY <1>2, <1>4 DEF RowsFit
  <2>2. i \in Going(r) => i \in resurrected
    BY <1>2, <1>4 DEF RequestFits
  <2>3. Used(i)'
    BY <1>1, <1>2, <2>1, UsedStays
  <2> QED BY <1>1, <1>3, <1>4, <2>1, <2>2, <2>3 DEF BytesStay
<1>5. CASE /\ i \in Owned(r) /\ LivePath(i, rows'[i].path)
           /\ rows'[i].path = Uploaded(i) => i \in Staged(r)
  <2>1. Used(i) /\ i \notin Going(r) /\ (i \in Staged(r) => Stored(i))
    BY <1>2, <1>5 DEF RequestFits, RequestsAgree
  <2>2. Used(i)'
    BY <1>1, <1>2, <2>1, UsedStays
  <2> QED BY <1>1, <1>3, <1>5, <2>1, <2>2 DEF BytesStay
<1>6. CASE /\ i \in Held(r) \ DOMAIN rows /\ rows'[i].path = stage[r].rows[i].path
           /\ i \in resurrected'
  <2>1. Used(i) /\ LivePath(i, stage[r].rows[i].path)
    BY <1>2, <1>6 DEF RequestFits
  <2>2. Used(i)'
    BY <1>1, <1>2, <2>1, UsedStays
  <2> QED BY <1>6, <2>1, <2>2
<1> QED BY <1>3, <1>4, <1>5, <1>6 DEF RowsCome

\* Which rows may come: none that somebody else is about to create.
LEMMA RowsThatCome ==
  ASSUME Inv, TypeInv', NEW r \in Requests, Moves(r), NEW i \in DOMAIN rows'
  PROVE  /\ i \in Ids
         /\ i \in DOMAIN rows \cup Owned(r) \cup Held(r)
         /\ \A q \in Requests \ {r} : i \notin Owned(q)
         /\ i \in DOMAIN rows => rows'[i] = rows[i]
         /\ i \in Held(r) => rows'[i].path = stage[r].rows[i].path
         /\ \A q \in Requests : i \in Held(q) => rows'[i].path = stage[q].rows[i].path
         /\ \A q \in Requests : i \in Going(q) => i \in resurrected'
<1>1. i \in Ids
  BY RowsTypes DEF TypeInv, TypeOK
<1>2. resurrected \subseteq resurrected' /\ RowsCome(r)
  BY DEF Moves
<1>3. \A q \in Requests : RequestFits(q) /\ RequestsAgree(q, r) /\ RequestsAgree(r, q)
  BY DEF Inv
<1>4. CASE i \in DOMAIN rows /\ rows'[i] = rows[i]
  BY <1>1, <1>2, <1>3, <1>4 DEF RequestFits
<1>5. CASE i \in Owned(r)
  <2>1. i \notin DOMAIN rows /\ \A q \in Requests : i \notin Held(q) /\ i \notin Going(q)
    BY <1>3, <1>5 DEF RequestFits, RequestsAgree
  <2>2. \A q \in Requests \ {r} : i \notin Owned(q)
    BY <1>3, <1>5 DEF RequestsAgree
  <2> QED BY <1>1, <1>5, <2>1, <2>2
<1>6. CASE /\ i \in Held(r) \ DOMAIN rows /\ rows'[i].path = stage[r].rows[i].path
           /\ i \in resurrected'
  <2>1. \A q \in Requests : i \in Held(q) => stage[q].rows[i].path = stage[r].rows[i].path
    BY <1>3, <1>6 DEF RequestsAgree
  <2>2. \A q \in Requests : i \notin Owned(q)
    BY <1>3, <1>6 DEF RequestsAgree
  <2> QED BY <1>1, <1>6, <2>1, <2>2
<1> QED BY <1>2, <1>4, <1>5, <1>6 DEF RowsCome

LEMMA MovesKeepRequests ==
  ASSUME Inv, TypeInv', NEW r \in Requests, Moves(r), NEW q \in Requests
  PROVE  RequestFits(q)'
<1> DEFINE Fits ==
      /\ \A i \in Owned(q)' : Used(i)' /\ i \notin DOMAIN rows'
      /\ \A i \in Held(q)' : /\ Used(i)' /\ LivePath(i, stage'[q].rows[i].path)
                             /\ i \in DOMAIN rows' => stage'[q].rows[i].path = rows'[i].path
      /\ \A i \in Going(q)' : Used(i)' /\ (i \in DOMAIN rows' => i \in resurrected')
      /\ At(q, "unlink")' => \A p \in stage'[q].paths : p.dir # "snapshots"
      /\ \A i \in Staged(q)' : i \in Owned(q)' /\ Stored(i)'
<1>0. SUFFICES Fits
  BY DEF RequestFits, LivePath, Used
<1>1. /\ TypeInv /\ RowsFit /\ RequestFits(q) /\ RequestFits(r)
      /\ RequestsAgree(q, r) /\ RequestsAgree(r, r)
  BY DEF Inv
<1>2. /\ Owned(q) \subseteq Ids /\ Held(q) \subseteq Ids /\ Going(q) \subseteq Ids
      /\ Staged(q) \subseteq Ids /\ Staged(q)' \subseteq Ids
      /\ Owned(q)' \subseteq Ids /\ Held(q)' \subseteq Ids /\ Going(q)' \subseteq Ids
  BY DEF Owned, Held, Going, Staged
<1>3. \A i \in Ids : Used(i) => Used(i)'
  BY <1>1, UsedStays
<1>4. \A i \in DOMAIN rows' :
         /\ i \in Ids /\ i \in DOMAIN rows \cup Owned(r) \cup Held(r)
         /\ (q # r => i \notin Owned(q))
         /\ i \in DOMAIN rows => rows'[i] = rows[i]
         /\ i \in Held(q) => rows'[i].path = stage[q].rows[i].path
         /\ i \in Going(q) => i \in resurrected'
  BY RowsThatCome
<1>5. BytesStay(r) /\ RequestGoesOn(r)
  BY DEF Moves
<1>6. CASE q # r
  <2>1. /\ stage'[q] = stage[q] /\ Owned(q)' = Owned(q) /\ Held(q)' = Held(q)
        /\ Going(q)' = Going(q) /\ Staged(q)' = Staged(q)
    BY <1>6, OthersWait
  <2>2. \A i \in Owned(q) : Used(i) /\ i \notin Going(r) /\ i \notin Owned(r)
    BY <1>1, <1>6 DEF RequestFits, RequestsAgree
  <2>3. \A i \in Staged(q) : i \in Owned(q) /\ Stored(i)
    BY <1>1 DEF RequestFits
  <2>4. \A i \in Owned(q)' : Used(i)' /\ i \notin DOMAIN rows'
    BY <1>2, <1>3, <1>4, <1>6, <2>1, <2>2
  <2>5. \A i \in Held(q)' : /\ Used(i)' /\ LivePath(i, stage'[q].rows[i].path)
                            /\ i \in DOMAIN rows' => stage'[q].rows[i].path = rows'[i].path
    BY <1>1, <1>2, <1>3, <1>4, <2>1 DEF RequestFits
  <2>6. \A i \in Going(q)' : Used(i)' /\ (i \in DOMAIN rows' => i \in resurrected')
    BY <1>1, <1>2, <1>3, <1>4, <2>1 DEF RequestFits
  <2>7. At(q, "unlink")' => \A p \in stage'[q].paths : p.dir # "snapshots"
    BY <1>1, <2>1 DEF RequestFits, At
  <2>8. \A i \in Staged(q)' : i \in Owned(q)' /\ Stored(i)'
    BY <1>2, <1>5, <2>1, <2>2, <2>3 DEF BytesStay
  <2> QED BY <2>4, <2>5, <2>6, <2>7, <2>8
<1>7. CASE q = r
  <2>1. \A i \in Owned(r)' : i \in Owned(r) \ DOMAIN rows' \/ (~Used(i) /\ Used(i)')
    BY <1>5 DEF RequestGoesOn
  <2>2. \A i \in Held(r)' : \/ i \in Held(r) /\ stage'[r].rows[i] = stage[r].rows[i]
                            \/ i \in DOMAIN rows /\ stage'[r].rows[i] = rows[i]
    BY <1>5 DEF RequestGoesOn
  <2>3. \A i \in Going(r)' : i \in Going(r) \/ i \in (DOMAIN rows \cup Held(r)) \ DOMAIN rows'
    BY <1>5 DEF RequestGoesOn
  <2>4. ASSUME NEW i \in Owned(q)' PROVE Used(i)' /\ i \notin DOMAIN rows'
    <3>1. CASE i \in Owned(r) \ DOMAIN rows'
      BY <1>1, <1>2, <1>3, <1>7, <2>4, <3>1 DEF RequestFits
    <3>2. CASE ~Used(i) /\ Used(i)'
      <4>1. i \notin DOMAIN rows \cup Owned(r) \cup Held(r)
        BY <1>1, <3>2 DEF RowsFit, RequestFits
      <4> QED BY <1>4, <3>2, <4>1
    <3> QED BY <1>7, <2>1, <2>4, <3>1, <3>2
  <2>5. ASSUME NEW i \in Held(q)'
        PROVE  /\ Used(i)' /\ LivePath(i, stage'[q].rows[i].path)
               /\ i \in DOMAIN rows' => stage'[q].rows[i].path = rows'[i].path
    <3>1. CASE i \in Held(r) /\ stage'[r].rows[i] = stage[r].rows[i]
      BY <1>1, <1>2, <1>3, <1>4, <1>7, <2>5, <3>1 DEF RequestFits
    <3>2. CASE i \in DOMAIN rows /\ stage'[r].rows[i] = rows[i]
      BY <1>1, <1>2, <1>3, <1>4, <1>7, <2>5, <3>2 DEF RowsFit
    <3> QED BY <1>7, <2>2, <2>5, <3>1, <3>2
  <2>6. ASSUME NEW i \in Going(q)' PROVE Used(i)' /\ (i \in DOMAIN rows' => i \in resurrected')
    <3>1. CASE i \in Going(r)
      BY <1>1, <1>2, <1>3, <1>4, <1>7, <2>6, <3>1 DEF RequestFits
    <3>2. CASE i \in (DOMAIN rows \cup Held(r)) \ DOMAIN rows'
      BY <1>1, <1>2, <1>3, <1>7, <2>6, <3>2 DEF RequestFits, RowsFit
    <3> QED BY <1>7, <2>3, <2>6, <3>1, <3>2
  <2>7. At(q, "unlink")' => \A p \in stage'[q].paths : p.dir # "snapshots"
    BY <1>5, <1>7 DEF RequestGoesOn
  <2>8. ASSUME NEW i \in Staged(q)' PROVE i \in Owned(q)' /\ Stored(i)'
    <3>1. i \in Owned(r)' /\ (i \in Staged(r) \/ Stored(i)') /\ i \in Ids
      BY <1>2, <1>5, <1>7, <2>8 DEF RequestGoesOn
    <3>2. i \in Staged(r) => Stored(i)'
      BY <1>1, <1>5, <1>7, <3>1 DEF RequestFits, RequestsAgree, BytesStay
    <3> QED BY <1>7, <3>1, <3>2
  <2> QED BY <2>4, <2>5, <2>6, <2>7, <2>8
<1> QED BY <1>6, <1>7

LEMMA MovesKeepAgreement ==
  ASSUME Inv, TypeInv', NEW r \in Requests, Moves(r), NEW p \in Requests, NEW q \in Requests
  PROVE  RequestsAgree(p, q)'
<1> DEFINE Agree ==
      /\ \A i \in Owned(p)' : i \notin Held(q)' /\ i \notin Going(q)' /\ (p # q => i \notin Owned(q)')
      /\ \A i \in Ids : i \in Held(p)' /\ i \in Held(q)' =>
           stage'[p].rows[i].path = stage'[q].rows[i].path
<1>0. SUFFICES Agree
  BY DEF RequestsAgree, Held
<1>1. /\ RowsFit /\ RequestFits(p) /\ RequestFits(q)
      /\ RequestsAgree(p, q) /\ RequestsAgree(q, p)
      /\ RequestsAgree(p, p) /\ RequestsAgree(q, q)
  BY DEF Inv
<1>2. \A s \in {p, q} : \A i \in Owned(s)' : i \in Owned(s) \ DOMAIN rows \/ (s = r /\ ~Used(i))
  <2>1. ASSUME NEW s \in {p, q}, NEW i \in Owned(s)'
        PROVE  i \in Owned(s) \ DOMAIN rows \/ (s = r /\ ~Used(i))
    <3>1. CASE s = r
      BY <1>1, <2>1, <3>1 DEF Moves, RequestGoesOn, RequestFits
    <3>2. CASE s # r
      BY <1>1, <2>1, <3>2, OthersWait DEF RequestFits
    <3> QED BY <3>1, <3>2
  <2> QED BY <2>1
<1>3. \A s \in {p, q} : \A i \in Held(s)' :
        \/ i \in Held(s) /\ stage'[s].rows[i] = stage[s].rows[i]
        \/ i \in DOMAIN rows /\ stage'[s].rows[i] = rows[i]
  <2>1. ASSUME NEW s \in {p, q}, NEW i \in Held(s)'
        PROVE  \/ i \in Held(s) /\ stage'[s].rows[i] = stage[s].rows[i]
               \/ i \in DOMAIN rows /\ stage'[s].rows[i] = rows[i]
    <3>1. CASE s = r
      BY <2>1, <3>1 DEF Moves, RequestGoesOn
    <3>2. CASE s # r
      BY <2>1, <3>2, OthersWait
    <3> QED BY <3>1, <3>2
  <2> QED BY <2>1
<1>4. \A s \in {p, q} : \A i \in Going(s)' : i \in Going(s) \/ i \in DOMAIN rows \cup Held(s)
  <2>1. ASSUME NEW s \in {p, q}, NEW i \in Going(s)'
        PROVE  i \in Going(s) \/ i \in DOMAIN rows \cup Held(s)
    <3>1. CASE s = r
      BY <2>1, <3>1 DEF Moves, RequestGoesOn
    <3>2. CASE s # r
      BY <2>1, <3>2, OthersWait
    <3> QED BY <3>1, <3>2
  <2> QED BY <2>1
<1>5. \A i \in DOMAIN rows \cup Held(q) \cup Going(q) \cup Owned(q) : Used(i)
  BY <1>1 DEF RowsFit, RequestFits
<1>6. ASSUME NEW i \in Owned(p)'
      PROVE  i \notin Held(q)' /\ i \notin Going(q)' /\ (p # q => i \notin Owned(q)')
  <2>1. CASE i \in Owned(p) \ DOMAIN rows
    <3>1. i \notin Held(q) /\ i \notin Going(q) /\ (p # q => i \notin Owned(q)) /\ Used(i)
      BY <1>1, <2>1 DEF RequestsAgree, RequestFits
    <3> QED BY <1>2, <1>3, <1>4, <2>1, <3>1
  <2>2. CASE p = r /\ ~Used(i)
    BY <1>2, <1>3, <1>4, <1>5, <2>2
  <2> QED BY <1>2, <1>6, <2>1, <2>2
<1>7. ASSUME NEW i \in Ids, i \in Held(p)', i \in Held(q)'
      PROVE  stage'[p].rows[i].path = stage'[q].rows[i].path
  <2>1. \/ i \in Held(p) /\ stage'[p].rows[i] = stage[p].rows[i]
        \/ i \in DOMAIN rows /\ stage'[p].rows[i] = rows[i]
    BY <1>3, <1>7
  <2>2. \/ i \in Held(q) /\ stage'[q].rows[i] = stage[q].rows[i]
        \/ i \in DOMAIN rows /\ stage'[q].rows[i] = rows[i]
    BY <1>3, <1>7
  <2>3. i \in Held(p) /\ i \in Held(q) => stage[p].rows[i].path = stage[q].rows[i].path
    BY <1>1 DEF RequestsAgree
  <2>4. /\ i \in Held(p) /\ i \in DOMAIN rows => stage[p].rows[i].path = rows[i].path
        /\ i \in Held(q) /\ i \in DOMAIN rows => stage[q].rows[i].path = rows[i].path
    BY <1>1 DEF RequestFits
  <2> QED BY <2>1, <2>2, <2>3, <2>4
<1> QED BY <1>6, <1>7

LEMMA LeavesKeepTrack ==
  ASSUME Inv, TypeInv', NEW r \in Requests, Moves(r), Leaves(r), ~crashed',
         NEW i \in Ids, Uploaded(i) \in DOMAIN disk'
  PROVE  Tracked(i)'
<1> DEFINE Known == \/ i \in DOMAIN rows' /\ rows'[i].path = Uploaded(i)
                    \/ i \in dropped'
                    \/ Uploaded(i) \in leaked'
                    \/ \E q \in Requests : i \in Staged(q)' \/ i \in Going(q)'
<1>0. SUFFICES Known
  BY DEF Tracked, Uploaded
<1>1. /\ Uploaded(i) \in DOMAIN disk \/ i \in Staged(r)'
      /\ i \in Staged(r) \cup Going(r) \/ (i \in DOMAIN rows /\ rows[i].path = Uploaded(i)) => Known
      /\ dropped \subseteq dropped' /\ leaked \subseteq leaked' /\ ~crashed
  BY DEF Leaves
<1>2. CASE i \in Staged(r)'
  BY <1>2
<1>3. CASE Uploaded(i) \in DOMAIN disk
  <2>1. Tracked(i)
    BY <1>1, <1>3 DEF Inv
  <2>2. ASSUME NEW q \in Requests, i \in Staged(q) \/ i \in Going(q), q # r PROVE Known
    BY <2>2, OthersWait
  <2> QED BY <1>1, <2>1, <2>2 DEF Tracked
<1> QED BY <1>1, <1>2, <1>3

LEMMA FilesKeepSnapshots ==
  ASSUME Inv, TypeInv', NEW r \in Requests, Moves(r), Files(r)
  PROVE  SnapshotsFit'
<1>1. /\ TypeInv /\ SnapshotsFit
  BY DEF Inv
<1>2. /\ nextSnapshot \in Nat /\ nextSnapshot' \in Nat /\ nextSnapshot' >= nextSnapshot
      /\ DOMAIN snapshots \subseteq SnapshotIds /\ DOMAIN snapshots' \subseteq SnapshotIds
      /\ SnapshotIds \subseteq Nat
  BY <1>1 DEF Files, TypeInv, TypeOK, SnapshotIds
<1>3. \A s \in DOMAIN snapshots' : s \in DOMAIN snapshots \/ (s = nextSnapshot /\ s < nextSnapshot')
  BY DEF Files
<1>4. ASSUME NEW s \in DOMAIN snapshots' PROVE s < nextSnapshot'
  <2>1. s \in Nat /\ (s \in DOMAIN snapshots => s < nextSnapshot)
    BY <1>1, <1>2 DEF SnapshotsFit
  <2> QED BY <1>2, <1>3, <2>1
<1>5. ASSUME NEW s, s < nextSnapshot, s \in DOMAIN snapshots', NEW files \in Rows, SnapshotKept(s, files)
      PROVE  \A i \in DOMAIN files : files[i].path.dir = "snapshots" =>
               files[i].path = Copied(s, i) /\ Copied(s, i) \in DOMAIN disk'
  <2>1. s \in DOMAIN snapshots
    BY <1>2, <1>3, <1>5
  <2>2. DOMAIN files \subseteq Ids
    BY RowsTypes
  <2>3. \A i \in Ids : Copied(s, i) \in DOMAIN disk => Copied(s, i) \in DOMAIN disk'
    BY <1>5 DEF Files
  <2> QED BY <1>5, <2>1, <2>2, <2>3 DEF SnapshotKept
<1>6. ASSUME NEW s \in DOMAIN snapshots' PROVE SnapshotKept(s, snapshots[s].files)'
  <2> DEFINE files == snapshots'[s].files
  <2>1. SUFFICES \A i \in DOMAIN files : files[i].path.dir = "snapshots" =>
                   files[i].path = Copied(s, i) /\ Copied(s, i) \in DOMAIN disk'
    BY DEF SnapshotKept, Copied
  <2>2. CASE s \in DOMAIN snapshots /\ files = snapshots[s].files
    <3>1. s < nextSnapshot /\ SnapshotKept(s, snapshots[s].files) /\ snapshots[s].files \in Rows
      BY <1>1, <2>2 DEF SnapshotsFit, TypeInv, TypeOK, Snapshot
    <3> HIDE DEF files
    <3> QED BY <1>5, <1>6, <2>2, <3>1
  <2>3. CASE s \in DOMAIN snapshots /\ At(r, "copy") /\ s = stage[r].snapshot /\ files = stage[r].files
    <3>1. s < nextSnapshot /\ SnapshotKept(s, stage[r].files)
      BY <1>1, <2>3 DEF SnapshotsFit
    <3>2. stage[r].files \in Rows
      BY <1>1, <2>3, AtTypes, StageTypes DEF At, CopyStage
    <3> HIDE DEF files
    <3> QED BY <1>5, <1>6, <2>3, <3>1, <3>2
  <2>4. CASE files = <<>>
    <3> HIDE DEF files
    <3> QED BY <2>4, RowsTypes
  <2> QED BY <2>2, <2>3, <2>4 DEF Files
<1>7. ASSUME NEW q \in Requests
      PROVE  /\ At(q, "list")' \/ At(q, "copy")' \/ At(q, "purge")' => stage'[q].snapshot < nextSnapshot'
             /\ At(q, "purge")' => stage'[q].snapshot \notin DOMAIN snapshots'
             /\ At(q, "copy")' => SnapshotKept(stage[q].snapshot, stage[q].files)'
  <2>1. CASE q = r
    BY <2>1 DEF Files
  <2>2. CASE q # r
    <3>1. stage'[q] = stage[q]
      BY <2>2, OthersWait
    <3>2. /\ At(q, "list") \/ At(q, "copy") \/ At(q, "purge") => stage[q].snapshot < nextSnapshot
          /\ At(q, "purge") => stage[q].snapshot \notin DOMAIN snapshots
          /\ At(q, "copy") => SnapshotKept(stage[q].snapshot, stage[q].files)
      BY <1>1 DEF SnapshotsFit
    <3>3. At(q, "list") \/ At(q, "copy") \/ At(q, "purge") => stage[q].snapshot \in Nat
      BY <1>1, <1>2, AtTypes, StageTypes DEF At, CopyStage
    <3>4. ASSUME At(q, "list")' \/ At(q, "copy")' \/ At(q, "purge")'
          PROVE  stage'[q].snapshot < nextSnapshot'
      BY <1>2, <3>1, <3>2, <3>3, <3>4 DEF At
    <3>5. ASSUME At(q, "purge")' PROVE stage'[q].snapshot \notin DOMAIN snapshots'
      BY <1>2, <1>3, <3>1, <3>2, <3>3, <3>5 DEF At
    <3>6. ASSUME At(q, "copy")' PROVE SnapshotKept(stage[q].snapshot, stage[q].files)'
      <4> DEFINE s == stage[q].snapshot
                 files == stage[q].files
      <4>1. s < nextSnapshot /\ SnapshotKept(s, files) /\ files \in Rows
        BY <1>1, <3>1, <3>2, <3>6, AtTypes, StageTypes DEF At, CopyStage
      <4> HIDE DEF s, files
      <4>2. s \in DOMAIN snapshots' => \A i \in DOMAIN files :
              files[i].path.dir = "snapshots" =>
                files[i].path = Copied(s, i) /\ Copied(s, i) \in DOMAIN disk'
        BY <1>5, <4>1
      <4>3. \A i \in DOMAIN files : files[i].path.dir = "snapshots" =>
              /\ files[i].path = Copied(s, i)
              /\ s \in DOMAIN snapshots' => Copied(s, i) \in DOMAIN disk'
        BY <4>1, <4>2 DEF SnapshotKept
      <4> QED BY <3>1, <4>3 DEF SnapshotKept, s, files, Copied
    <3> QED BY <3>4, <3>5, <3>6
  <2> QED BY <2>1, <2>2
<1> QED BY <1>4, <1>6, <1>7 DEF SnapshotsFit

LEMMA StepsKeepInv ==
  ASSUME Inv, TypeInv', NEW r \in Requests, Moves(r), Leaves(r), Files(r)
  PROVE  Inv'
<1>1. RowsFit'
  BY MovesKeepRows
<1>2. \A q \in Requests : RequestFits(q)'
  BY MovesKeepRequests
<1>3. \A p, q \in Requests : RequestsAgree(p, q)'
  BY MovesKeepAgreement
<1>4. SnapshotsFit'
  BY FilesKeepSnapshots
<1>5. ~crashed' => \A i \in Ids : Uploaded(i) \in DOMAIN disk' => Tracked(i)'
  BY LeavesKeepTrack
<1> QED BY <1>1, <1>2, <1>3, <1>4, <1>5 DEF Inv, Uploaded

-----------------------------------------------------------------------------
(* Every step of a request moves, leaves and files as it may.              *)

OwnedAt(s) == {i \in Ids : /\ s # None
                           /\ \/ s.at = "upload" /\ i \in DOMAIN s.names
                              \/ s.at = "insert" /\ i \in s.ids}
StagedAt(s) == {i \in Ids : s # None /\ s.at = "upload" /\ i \in s.staged}
HeldAt(s) == {i \in Ids : s # None /\ s.at \in {"delete", "validate", "copy"} /\ i \in DOMAIN s.rows}
GoingAt(s) == {i \in Ids : s # None /\ s.at = "unlink" /\ Uploaded(i) \in s.paths}

LEMMA SetsNow ==
  ASSUME NEW r \in Requests
  PROVE  /\ Owned(r) = OwnedAt(stage[r]) /\ Staged(r) = StagedAt(stage[r])
         /\ Held(r) = HeldAt(stage[r]) /\ Going(r) = GoingAt(stage[r])
<1>1. Owned(r) = OwnedAt(stage[r])
  BY DEF Owned, OwnedAt, At
<1>2. Staged(r) = StagedAt(stage[r])
  BY DEF Staged, StagedAt, At
<1>3. Held(r) = HeldAt(stage[r])
  BY DEF Held, HeldAt, At
<1>4. Going(r) = GoingAt(stage[r])
  BY DEF Going, GoingAt, At
<1> QED BY <1>1, <1>2, <1>3, <1>4

LEMMA SetsAfter ==
  ASSUME TypeInv, NEW r \in Requests, NEW s, Becomes(r, s)
  PROVE  /\ stage'[r] = s /\ \A q \in Requests \ {r} : stage'[q] = stage[q]
         /\ \A at : At(r, at)' <=> s # None /\ s.at = at
         /\ Owned(r)' = OwnedAt(s) /\ Staged(r)' = StagedAt(s)
         /\ Held(r)' = HeldAt(s) /\ Going(r)' = GoingAt(s)
<1>0. stage'[r] = s /\ \A q \in Requests \ {r} : stage'[q] = stage[q]
  BY DEF Becomes, TypeInv, TypeOK
<1>1. Owned(r)' = OwnedAt(s)
  BY <1>0 DEF Owned, OwnedAt, At
<1>2. Staged(r)' = StagedAt(s)
  BY <1>0 DEF Staged, StagedAt, At
<1>3. Held(r)' = HeldAt(s)
  BY <1>0 DEF Held, HeldAt, At
<1>4. Going(r)' = GoingAt(s)
  <2>1. \A i : Uploaded(i)' = Uploaded(i)
    BY DEF Uploaded
  <2> QED BY <1>0, <2>1 DEF Going, GoingAt, At
<1>5. \A at : At(r, at)' <=> s # None /\ s.at = at
  BY <1>0 DEF At
<1> QED BY <1>0, <1>1, <1>2, <1>3, <1>4, <1>5

\* A request that is at none of the points where it stages, holds or unlinks.
LEMMA NoSets ==
  ASSUME NEW s, s # None => s.at \in {"snapshot", "list", "purge", "restore", "fetch"}
  PROVE  OwnedAt(s) = {} /\ StagedAt(s) = {} /\ HeldAt(s) = {} /\ GoingAt(s) = {}
  BY DEF OwnedAt, StagedAt, HeldAt, GoingAt

\* A step that changes neither rows nor disk nor snapshots.
LEMMA QuietSteps ==
  ASSUME Inv, NEW r \in Requests, NEW s, Becomes(r, s),
         UNCHANGED <<rows, disk, snapshots, nextSnapshot, crashed, dropped, resurrected, leaked>>,
         nextFile' >= nextFile,
         stage[r] # None => stage[r].at \in {"list", "restore", "fetch"},
         s # None => s.at # "unlink",
         StagedAt(s) = {},
         \A i \in OwnedAt(s) : ~Used(i) /\ i < nextFile',
         \A i \in HeldAt(s) : i \in DOMAIN rows /\ s.rows[i] = rows[i],
         s # None /\ s.at \in {"list", "copy", "purge"} =>
           /\ s.snapshot < nextSnapshot
           /\ s.at = "copy" /\ s.files = <<>>
  PROVE  Moves(r) /\ Leaves(r) /\ Files(r)
<1>1. /\ stage'[r] = s /\ \A q \in Requests \ {r} : stage'[q] = stage[q]
      /\ \A at : At(r, at)' <=> s # None /\ s.at = at
      /\ Owned(r)' = OwnedAt(s) /\ Staged(r)' = StagedAt(s)
      /\ Held(r)' = HeldAt(s) /\ Going(r)' = GoingAt(s)
  BY SetsAfter DEF Inv
<1>2. Owned(r) = {} /\ Staged(r) = {} /\ Held(r) = {} /\ Going(r) = {}
  BY SetsNow, NoSets
<1>3. GoingAt(s) = {}
  BY DEF GoingAt
<1>4. \A i \in Ids : Stored(i)' <=> Stored(i)
  BY DEF Stored, Uploaded
<1>5. RowsCome(r)
  BY DEF RowsCome
<1>6. RequestGoesOn(r)
  <2>1. \A i \in Owned(r)' : ~Used(i) /\ Used(i)'
    BY <1>1 DEF Used
  <2> QED BY <1>1, <1>2, <1>3, <2>1 DEF RequestGoesOn
<1>7. BytesStay(r)
  BY <1>4 DEF BytesStay
<1>8. Moves(r)
  BY <1>1, <1>5, <1>6, <1>7 DEF Moves
<1>9. Leaves(r)
  BY <1>2 DEF Leaves
<1>10. Files(r)
  <2>1. nextSnapshot' >= nextSnapshot
    BY DEF Inv, TypeInv, TypeOK
  <2>2. At(r, "copy")' => SnapshotKept(stage[r].snapshot, stage[r].files)'
    BY <1>1, RowsTypes DEF SnapshotKept
  <2> QED BY <1>1, <2>1, <2>2 DEF Files
<1> QED BY <1>8, <1>9, <1>10

LEMMA ReadingSteps ==
  ASSUME Inv, NEW r \in Requests,
         \/ BeginUpload(r) \/ BeginDelete(r) \/ BeginValidation(r) \/ BeginSnapshot(r)
         \/ ListRows(r) \/ BeginRestore(r) \/ RestoreIndex(r)
  PROVE  Moves(r) /\ Leaves(r) /\ Files(r)
<1>0. /\ TypeInv /\ rows \in Rows /\ nextFile \in Nat /\ Ids \subseteq Nat
      /\ DOMAIN rows \subseteq Ids /\ DOMAIN snapshots \subseteq SnapshotIds
  BY RowsTypes DEF Inv, TypeInv, TypeOK, Ids
<1>1. CASE BeginUpload(r)
  <2>1. PICK n \in 1..2, strategy \in Strategies :
          /\ \E names \in [nextFile..(nextFile + n - 1) -> Names] :
               Becomes(r, [at |-> "upload", strategy |-> strategy, names |-> names, staged |-> {}])
          /\ nextFile' = nextFile + n
    BY <1>1 DEF BeginUpload
  <2>2. PICK names \in [nextFile..(nextFile + n - 1) -> Names] :
          Becomes(r, [at |-> "upload", strategy |-> strategy, names |-> names, staged |-> {}])
    BY <2>1
  <2> DEFINE s == [at |-> "upload", strategy |-> strategy, names |-> names, staged |-> {}]
  <2>3. /\ s.at = "upload" /\ StagedAt(s) = {} /\ HeldAt(s) = {}
        /\ \A i \in OwnedAt(s) : i \in Nat /\ i \in nextFile..(nextFile + n - 1)
    BY <1>0 DEF OwnedAt, StagedAt, HeldAt
  <2>4. ASSUME NEW i \in OwnedAt(s) PROVE ~Used(i) /\ i < nextFile'
    <3> HIDE DEF s
    <3> QED BY <1>0, <2>1, <2>3 DEF Used
  <2>5. Becomes(r, s) /\ nextFile' >= nextFile
    BY <1>0, <2>1, <2>2
  <2>6. stage[r] = None /\ UNCHANGED <<rows, disk, snapshots, nextSnapshot, crashed, dropped, resurrected, leaked>>
    BY <1>1 DEF BeginUpload, Idle, history
  <2> HIDE DEF s
  <2> QED BY <2>3, <2>4, <2>5, <2>6, QuietSteps
<1>2. CASE BeginDelete(r)
  <2>1. PICK I \in SUBSET DOMAIN rows : Becomes(r, [at |-> "delete", rows |-> Restrict(rows, I)])
    BY <1>2 DEF BeginDelete
  <2> DEFINE s == [at |-> "delete", rows |-> Restrict(rows, I)]
  <2>2. /\ s.at = "delete" /\ StagedAt(s) = {} /\ OwnedAt(s) = {}
        /\ \A i \in HeldAt(s) : i \in DOMAIN s.rows
    BY DEF OwnedAt, StagedAt, HeldAt
  <2>3. \A i \in HeldAt(s) : i \in DOMAIN rows /\ s.rows[i] = rows[i]
    BY <1>0, <2>2, RestrictedRows
  <2>4. /\ Becomes(r, s) /\ stage[r] = None /\ nextFile' >= nextFile
        /\ UNCHANGED <<rows, disk, snapshots, nextSnapshot, crashed, dropped, resurrected, leaked>>
    BY <1>0, <1>2, <2>1 DEF BeginDelete, Idle, history, counters
  <2> HIDE DEF s
  <2> QED BY <2>2, <2>3, <2>4, QuietSteps
<1>3. CASE BeginValidation(r)
  <2> DEFINE s == [at |-> "validate", rows |-> rows]
  <2>1. /\ s.at = "validate" /\ StagedAt(s) = {} /\ OwnedAt(s) = {}
        /\ \A i \in HeldAt(s) : i \in DOMAIN rows /\ s.rows[i] = rows[i]
    BY DEF OwnedAt, StagedAt, HeldAt
  <2>2. /\ Becomes(r, s) /\ stage[r] = None /\ nextFile' >= nextFile
        /\ UNCHANGED <<rows, disk, snapshots, nextSnapshot, crashed, dropped, resurrected, leaked>>
    BY <1>0, <1>3 DEF BeginValidation, Idle, history, counters
  <2> HIDE DEF s
  <2> QED BY <2>1, <2>2, QuietSteps
<1>4. CASE BeginSnapshot(r)
  <2> DEFINE s == [at |-> "snapshot", version |-> LatestVersion + 1, index |-> index]
  <2>1. s.at = "snapshot" /\ StagedAt(s) = {} /\ OwnedAt(s) = {} /\ HeldAt(s) = {}
    BY DEF OwnedAt, StagedAt, HeldAt
  <2>2. /\ Becomes(r, s) /\ stage[r] = None /\ nextFile' >= nextFile
        /\ UNCHANGED <<rows, disk, snapshots, nextSnapshot, crashed, dropped, resurrected, leaked>>
    BY <1>0, <1>4 DEF BeginSnapshot, Idle, history, counters
  <2> HIDE DEF s
  <2> QED BY <2>1, <2>2, QuietSteps
<1>5. CASE ListRows(r)
  <2> DEFINE s == [at |-> "copy", snapshot |-> stage[r].snapshot, rows |-> rows, files |-> <<>>]
  <2>1. /\ s.at = "copy" /\ StagedAt(s) = {} /\ OwnedAt(s) = {} /\ s.files = <<>>
        /\ s.snapshot = stage[r].snapshot
        /\ \A i \in HeldAt(s) : i \in DOMAIN rows /\ s.rows[i] = rows[i]
    BY DEF OwnedAt, StagedAt, HeldAt
  <2>2. /\ Becomes(r, s) /\ stage[r] # None /\ stage[r].at = "list" /\ nextFile' >= nextFile
        /\ UNCHANGED <<rows, disk, snapshots, nextSnapshot, crashed, dropped, resurrected, leaked>>
    BY <1>0, <1>5 DEF ListRows, At, history, counters
  <2>3. stage[r].snapshot < nextSnapshot
    BY <2>2 DEF Inv, SnapshotsFit, At
  <2> HIDE DEF s
  <2> QED BY <2>1, <2>2, <2>3, QuietSteps
<1>6. CASE BeginRestore(r)
  <2>1. PICK t \in DOMAIN snapshots :
          Becomes(r, [at |-> "restore", snapshot |-> t, index |-> snapshots[t].index,
                      files |-> snapshots[t].files])
    BY <1>6 DEF BeginRestore
  <2> DEFINE s == [at |-> "restore", snapshot |-> t, index |-> snapshots[t].index,
                   files |-> snapshots[t].files]
  <2>2. s.at = "restore" /\ StagedAt(s) = {} /\ OwnedAt(s) = {} /\ HeldAt(s) = {}
    BY DEF OwnedAt, StagedAt, HeldAt
  <2>3. /\ Becomes(r, s) /\ stage[r] = None /\ nextFile' >= nextFile
        /\ UNCHANGED <<rows, disk, snapshots, nextSnapshot, crashed, dropped, resurrected, leaked>>
    BY <1>0, <1>6, <2>1 DEF BeginRestore, Idle, history, counters
  <2> HIDE DEF s
  <2> QED BY <2>2, <2>3, QuietSteps
<1>7. CASE RestoreIndex(r)
  <2> DEFINE s == [at |-> "fetch", snapshot |-> stage[r].snapshot, files |-> stage[r].files,
                   fetched |-> {}]
  <2>1. s.at = "fetch" /\ StagedAt(s) = {} /\ OwnedAt(s) = {} /\ HeldAt(s) = {}
    BY DEF OwnedAt, StagedAt, HeldAt
  <2>2. /\ Becomes(r, s) /\ stage[r].at = "restore" /\ nextFile' >= nextFile
        /\ UNCHANGED <<rows, disk, snapshots, nextSnapshot, crashed, dropped, resurrected, leaked>>
    BY <1>0, <1>7 DEF RestoreIndex, At, history, counters
  <2> HIDE DEF s
  <2> QED BY <2>1, <2>2, QuietSteps
<1> QED BY <1>1, <1>2, <1>3, <1>4, <1>5, <1>6, <1>7

\* Steps that leave the snapshots and their files alone.
LEMMA OtherFiles ==
  ASSUME Inv, NEW r \in Requests, NEW s, Becomes(r, s),
         s # None => s.at \notin {"list", "copy", "purge"},
         UNCHANGED <<snapshots, nextSnapshot>>,
         \A t \in SnapshotIds, i \in Ids : Copied(t, i) \in DOMAIN disk => Copied(t, i) \in DOMAIN disk'
  PROVE  Files(r)
<1>1. \A at : At(r, at)' <=> s # None /\ s.at = at
  BY SetsAfter DEF Inv
<1>2. nextSnapshot' >= nextSnapshot /\ DOMAIN snapshots \subseteq SnapshotIds
  BY DEF Inv, TypeInv, TypeOK
<1> QED BY <1>1, <1>2 DEF Files

LEMMA StageUploadStep ==
  ASSUME Inv, NEW r \in Requests, StageUpload(r)
  PROVE  Moves(r) /\ Leaves(r) /\ Files(r)
<1>0. TypeInv /\ stage[r] \in UploadStage /\ stage[r] # None /\ stage[r].at = "upload"
      /\ nextFile \in Nat /\ nextSnapshot \in Nat /\ DOMAIN snapshots \subseteq SnapshotIds
  BY AtTypes, StageTypes DEF Inv, StageUpload, At, TypeInv, TypeOK
<1>1. PICK i \in DOMAIN stage[r].names \ stage[r].staged :
        /\ disk' = With(disk, Uploaded(i), i)
        /\ Becomes(r, [stage[r] EXCEPT !.staged = @ \cup {i}])
  BY DEF StageUpload
<1> DEFINE s == [stage[r] EXCEPT !.staged = @ \cup {i}]
<1>2. UNCHANGED <<rows, snapshots, index, counters, history>>
  BY DEF StageUpload
<1>3. /\ i \in Ids /\ s # None /\ s.at = "upload" /\ s.names = stage[r].names
      /\ s.staged = stage[r].staged \cup {i} /\ i \in DOMAIN s.names
  <2>1. s \in UploadStage /\ i \in Ids
    BY <1>0 DEF UploadStage
  <2>2. s # None
    BY <2>1, NoneAssumption, StagesExist
  <2> QED BY <1>0, <2>1, <2>2 DEF UploadStage
<1>4. Becomes(r, s)
  BY <1>1
<1> HIDE DEF s
<1>5. /\ stage'[r] = s /\ \A q \in Requests \ {r} : stage'[q] = stage[q]
      /\ \A at : At(r, at)' <=> s # None /\ s.at = at
      /\ Owned(r)' = OwnedAt(s) /\ Staged(r)' = StagedAt(s)
      /\ Held(r)' = HeldAt(s) /\ Going(r)' = GoingAt(s)
  BY <1>0, <1>4, SetsAfter
<1>6. /\ Owned(r) = OwnedAt(stage[r]) /\ Staged(r) = StagedAt(stage[r])
      /\ Held(r) = HeldAt(stage[r]) /\ Going(r) = GoingAt(stage[r])
  BY SetsNow
<1>7. OwnedAt(s) = OwnedAt(stage[r])
  BY <1>0, <1>3 DEF OwnedAt
<1>8. StagedAt(s) = StagedAt(stage[r]) \cup {i}
  BY <1>0, <1>3 DEF StagedAt
<1>9. HeldAt(s) = {} /\ GoingAt(s) = {} /\ HeldAt(stage[r]) = {} /\ GoingAt(stage[r]) = {}
  BY <1>0, <1>3 DEF HeldAt, GoingAt
<1>10. i \in Owned(r)' /\ StagedAt(stage[r]) \subseteq OwnedAt(stage[r])
  <2>1. i \in OwnedAt(s)
    BY <1>3 DEF OwnedAt
  <2>2. \A j \in Staged(r) : j \in Owned(r)
    BY DEF Inv, RequestFits
  <2> QED BY <1>5, <1>6, <2>1, <2>2
<1>11. /\ DOMAIN disk' = DOMAIN disk \cup {Uploaded(i)} /\ disk'[Uploaded(i)] = i
       /\ \A y \in DOMAIN disk \ {Uploaded(i)} : disk'[y] = disk[y]
  BY <1>1 DEF With, Merged
<1>12. \A j \in Ids : j # i => Uploaded(j) # Uploaded(i)
  BY <1>3, PathTypes
<1>13. \A j \in Ids : Stored(j) \/ j = i => Stored(j)'
  BY <1>11, <1>12 DEF Stored, Uploaded
<1>14. \A j \in Owned(r) : j \notin DOMAIN rows
  BY DEF Inv, RequestFits
<1>15. Moves(r)
  <2>1. RowsCome(r)
    BY <1>2 DEF RowsCome
  <2>2. RequestGoesOn(r)
    BY <1>0, <1>2, <1>3, <1>5, <1>6, <1>7, <1>8, <1>9, <1>10, <1>13, <1>14 DEF RequestGoesOn
  <2>3. BytesStay(r)
    BY <1>13 DEF BytesStay
  <2> QED BY <1>0, <1>2, <1>5, <2>1, <2>2, <2>3 DEF Moves, history, counters
<1>16. Leaves(r)
  <2>1. \A j \in Ids : Uploaded(j) \in DOMAIN disk' => Uploaded(j) \in DOMAIN disk \/ j \in Staged(r)'
    BY <1>5, <1>8, <1>11, <1>12
  <2> QED BY <1>2, <1>5, <1>6, <1>8, <1>9, <2>1 DEF Leaves, history
<1>17. Files(r)
  BY <1>2, <1>3, <1>4, <1>11, OtherFiles DEF counters
<1> QED BY <1>15, <1>16, <1>17

\* Unlinking the files of live rows.
LEMMA UnlinkingRows ==
  ASSUME NEW f \in Rows, \A i \in DOMAIN f : LivePath(i, f[i].path), NEW s, s = Unlinking(PathsOf(f))
  PROVE  /\ OwnedAt(s) = {} /\ StagedAt(s) = {} /\ HeldAt(s) = {}
         /\ GoingAt(s) = {i \in DOMAIN f : f[i].path = Uploaded(i)}
         /\ s # None => s.at = "unlink" /\ \A p \in s.paths : p.dir # "snapshots"
<1> DEFINE paths == PathsOf(f)
<1>1. CASE paths = {}
  <2>1. s = None /\ DOMAIN f = {}
    BY <1>1 DEF Unlinking, PathsOf
  <2> QED BY <2>1 DEF OwnedAt, StagedAt, HeldAt, GoingAt
<1>2. CASE paths # {}
  <2>1. s = [at |-> "unlink", paths |-> paths]
    BY <1>2 DEF Unlinking
  <2>2. paths \in SUBSET Paths
    BY RowsTypes DEF PathsOf, File
  <2>3. \A p \in paths : \E i \in DOMAIN f : p = f[i].path
    BY DEF PathsOf
  <2>4. \A i \in DOMAIN f : f[i].path \in paths
    BY DEF PathsOf
  <2> HIDE DEF paths
  <2>5. s.at = "unlink" /\ s.paths = paths
    BY <2>1
  <2>6. s \in Stage
    BY <2>1, <2>2 DEF Stage
  <2>7. s # None
    BY <2>6, NoneAssumption
  <2>8. OwnedAt(s) = {} /\ StagedAt(s) = {} /\ HeldAt(s) = {}
    BY <2>5 DEF OwnedAt, StagedAt, HeldAt
  <2>9. \A i \in Ids : Uploaded(i) \in paths <=> i \in DOMAIN f /\ f[i].path = Uploaded(i)
    <3>1. ASSUME NEW i \in Ids, Uploaded(i) \in paths PROVE i \in DOMAIN f /\ f[i].path = Uploaded(i)
      <4>1. PICK j \in DOMAIN f : Uploaded(i) = f[j].path
        BY <2>3, <3>1
      <4>2. Uploaded(i) = Uploaded(j) /\ j \in Ids
        BY <4>1, RowsTypes, PathTypes DEF LivePath
      <4>3. i = j
        BY <4>2, PathTypes
      <4> QED BY <4>1, <4>3
    <3> QED BY <2>4, <3>1
  <2>10. GoingAt(s) = {i \in DOMAIN f : f[i].path = Uploaded(i)}
    BY <2>5, <2>7, <2>9, RowsTypes DEF GoingAt
  <2>11. \A p \in paths : p.dir # "snapshots"
    BY <2>3 DEF LivePath
  <2> QED BY <2>5, <2>8, <2>10, <2>11
<1> QED BY <1>1, <1>2

LEMMA CommitUploadStep ==
  ASSUME Inv, NEW r \in Requests, CommitUpload(r)
  PROVE  Moves(r) /\ Leaves(r) /\ Files(r)
<1>0. /\ TypeInv /\ stage[r] \in UploadStage /\ stage[r] # None /\ stage[r].at = "upload"
      /\ stage[r].staged = DOMAIN stage[r].names /\ rows \in Rows /\ nextFile \in Nat
  BY AtTypes, StageTypes DEF Inv, CommitUpload, At, TypeInv, TypeOK
<1> DEFINE I == Replaced(r)
           gone == Restrict(rows, I)
           s == Unlinking(PathsOf(gone))
           new == [i \in stage[r].staged |->
                    [name |-> stage[r].names[i], path |-> Uploaded(i), bytes |-> i]]
<1>1. /\ rows' = Merged(Without(rows, I), new) /\ Becomes(r, s)
      /\ UNCHANGED <<disk, snapshots, index, counters, history>>
  BY DEF CommitUpload
<1>2. I \in SUBSET DOMAIN rows /\ stage[r].staged \subseteq Ids
  BY <1>0 DEF Replaced, Conflicting, UploadStage
<1>3. gone \in Rows /\ DOMAIN gone = I /\ \A i \in I : gone[i] = rows[i]
  BY <1>0, <1>2, RestrictedRows
<1>4. \A i \in DOMAIN rows : LivePath(i, rows[i].path)
  BY DEF Inv, RowsFit
<1>5. DOMAIN new = stage[r].staged /\ \A i \in stage[r].staged : new[i].path = Uploaded(i)
  OBVIOUS
<1> HIDE DEF gone, new, s
<1>6. /\ OwnedAt(s) = {} /\ StagedAt(s) = {} /\ HeldAt(s) = {}
      /\ GoingAt(s) = {i \in I : rows[i].path = Uploaded(i)}
      /\ s # None => s.at = "unlink" /\ \A p \in s.paths : p.dir # "snapshots"
  <2>1. \A i \in DOMAIN gone : LivePath(i, gone[i].path)
    BY <1>2, <1>3, <1>4
  <2>2. s = Unlinking(PathsOf(gone))
    BY DEF s
  <2>3. /\ OwnedAt(s) = {} /\ StagedAt(s) = {} /\ HeldAt(s) = {}
        /\ GoingAt(s) = {i \in DOMAIN gone : gone[i].path = Uploaded(i)}
        /\ s # None => s.at = "unlink" /\ \A p \in s.paths : p.dir # "snapshots"
    BY <1>3, <2>1, <2>2, UnlinkingRows
  <2> QED BY <1>3, <2>3
<1>7. /\ stage'[r] = s /\ \A q \in Requests \ {r} : stage'[q] = stage[q]
      /\ \A at : At(r, at)' <=> s # None /\ s.at = at
      /\ Owned(r)' = OwnedAt(s) /\ Staged(r)' = StagedAt(s)
      /\ Held(r)' = HeldAt(s) /\ Going(r)' = GoingAt(s)
  BY <1>0, <1>1, SetsAfter
<1>8. Owned(r) = stage[r].staged /\ Staged(r) = stage[r].staged
  BY <1>0, <1>2 DEF Owned, Staged, At
<1>9. Held(r) = {} /\ Going(r) = {} /\ \A i \in Owned(r) : i \notin DOMAIN rows
  BY <1>0 DEF Held, Going, At, Inv, RequestFits
<1>10. /\ DOMAIN rows' = (DOMAIN rows \ I) \cup stage[r].staged
       /\ \A i \in stage[r].staged : rows'[i].path = Uploaded(i)
       /\ \A i \in DOMAIN rows \ I : rows'[i] = rows[i]
  BY <1>1, <1>5, <1>8, <1>9 DEF Merged, Without, Restrict
<1>11. Moves(r)
  <2>1. RowsCome(r)
    <3>1. \A i : LivePath(i, Uploaded(i))
      BY DEF LivePath, Uploaded
    <3> HIDE DEF I
    <3> QED BY <1>8, <1>10, <3>1 DEF RowsCome
  <2>2. RequestGoesOn(r)
    BY <1>2, <1>6, <1>7, <1>8, <1>9, <1>10 DEF RequestGoesOn
  <2>3. BytesStay(r)
    BY <1>1 DEF BytesStay, Stored, Uploaded
  <2> QED BY <1>0, <1>1, <1>7, <2>1, <2>2, <2>3 DEF Moves, history, counters
<1>12. Leaves(r)
  BY <1>1, <1>6, <1>7, <1>8, <1>9, <1>10 DEF Leaves, history
<1>13. Files(r)
  BY <1>1, <1>6, OtherFiles DEF counters
<1> QED BY <1>11, <1>12, <1>13

LEMMA FailUploadStep ==
  ASSUME Inv, NEW r \in Requests, FailUpload(r)
  PROVE  Moves(r) /\ Leaves(r) /\ Files(r)
<1>0. /\ TypeInv /\ stage[r] \in UploadStage /\ stage[r] # None /\ stage[r].at = "upload"
      /\ nextFile \in Nat
  BY AtTypes, StageTypes DEF Inv, FailUpload, At, TypeInv, TypeOK
<1>1. /\ Becomes(r, None)
      /\ UNCHANGED <<rows, snapshots, index, counters, crashed, dropped, resurrected, ambiguous>>
  BY DEF FailUpload
<1> DEFINE P == {Uploaded(i) : i \in stage[r].staged}
<1>11. PICK kept \in SUBSET (P \cap DOMAIN disk) :
         disk' = Without(disk, P \ kept) /\ leaked' = leaked \cup kept
  BY DEF FailUpload, Removes
<1>2. /\ OwnedAt(None) = {} /\ StagedAt(None) = {} /\ HeldAt(None) = {} /\ GoingAt(None) = {}
  BY DEF OwnedAt, StagedAt, HeldAt, GoingAt
<1>3. /\ stage'[r] = None /\ \A q \in Requests \ {r} : stage'[q] = stage[q]
      /\ \A at : ~At(r, at)'
      /\ Owned(r)' = {} /\ Staged(r)' = {} /\ Held(r)' = {} /\ Going(r)' = {}
  BY <1>0, <1>1, <1>2, SetsAfter
<1>4. /\ Staged(r) = stage[r].staged /\ stage[r].staged \subseteq Ids
      /\ Held(r) = {} /\ Going(r) = {}
  BY <1>0 DEF Staged, Held, Going, At, UploadStage
<1>5. \A i \in Staged(r) : i \in Owned(r) /\ i \notin DOMAIN rows
  BY DEF Inv, RequestFits
<1>6. /\ DOMAIN disk' = DOMAIN disk \ (P \ kept)
      /\ \A y \in DOMAIN disk' : disk'[y] = disk[y]
  BY <1>11 DEF Without, Restrict
<1>7. \A i \in Ids : Uploaded(i) \in P <=> i \in Staged(r)
  <2>1. \A i, j \in Ids : Uploaded(i) = Uploaded(j) => i = j
    BY PathTypes
  <2> QED BY <1>4, <2>1
<1>8. Moves(r)
  <2>1. BytesStay(r)
    <3>1. ASSUME NEW i \in Ids, Stored(i), i \notin Staged(r) PROVE Stored(i)'
      BY <1>6, <1>7, <3>1 DEF Stored, Uploaded
    <3> QED BY <1>1, <1>3, <1>5, <3>1 DEF BytesStay
  <2>2. RowsCome(r) /\ RequestGoesOn(r)
    BY <1>1, <1>3 DEF RowsCome, RequestGoesOn
  <2> QED BY <1>0, <1>1, <1>3, <2>1, <2>2 DEF Moves, counters
<1>9. Leaves(r)
  <2>1. ASSUME NEW i \in Ids, Uploaded(i) \in DOMAIN disk', i \in Staged(r)
        PROVE  Uploaded(i) \in leaked'
    BY <1>6, <1>7, <1>11, <2>1
  <2> QED BY <1>1, <1>4, <1>6, <1>11, <2>1 DEF Leaves
<1>10. Files(r)
  <2>1. \A t \in SnapshotIds, i \in Ids : Copied(t, i) \in DOMAIN disk => Copied(t, i) \in DOMAIN disk'
    BY <1>4, <1>6, PathTypes
  <2> QED BY <1>1, <2>1, OtherFiles DEF counters
<1> QED BY <1>8, <1>9, <1>10

LEMMA UnlinkOneStep ==
  ASSUME Inv, NEW r \in Requests, UnlinkOne(r)
  PROVE  Moves(r) /\ Leaves(r) /\ Files(r)
<1>0. /\ TypeInv /\ stage[r] # None /\ stage[r].at = "unlink" /\ stage[r].paths \subseteq Paths
      /\ nextFile \in Nat
  BY AtTypes, StageTypes DEF Inv, UnlinkOne, At, TypeInv, TypeOK
<1>1. PICK p \in stage[r].paths : Removes({p}) /\ Becomes(r, Unlinking(stage[r].paths \ {p}))
  BY DEF UnlinkOne
<1>2. UNCHANGED <<rows, snapshots, index, counters, crashed, dropped, resurrected, ambiguous>>
  BY DEF UnlinkOne
<1>12. PICK kept \in SUBSET ({p} \cap DOMAIN disk) :
         disk' = Without(disk, {p} \ kept) /\ leaked' = leaked \cup kept
  BY <1>1 DEF Removes
<1> DEFINE paths == stage[r].paths \ {p}
           s == Unlinking(paths)
<1>3. /\ OwnedAt(s) = {} /\ StagedAt(s) = {} /\ HeldAt(s) = {}
      /\ GoingAt(s) = {i \in Ids : Uploaded(i) \in paths}
      /\ s # None => s.at = "unlink" /\ s.paths = paths
  <2>1. CASE paths = {}
    <3>1. s = None
      BY <2>1 DEF Unlinking
    <3> HIDE DEF s, paths
    <3> QED BY <2>1, <3>1 DEF OwnedAt, StagedAt, HeldAt, GoingAt
  <2>2. CASE paths # {}
    <3>1. s = [at |-> "unlink", paths |-> paths]
      BY <2>2 DEF Unlinking
    <3>2. paths \in SUBSET Paths
      BY <1>0
    <3> HIDE DEF s, paths
    <3>3. s \in Stage
      BY <3>1, <3>2 DEF Stage
    <3>4. s # None /\ s.at = "unlink" /\ s.paths = paths
      BY <3>1, <3>3, NoneAssumption
    <3> QED BY <3>4 DEF OwnedAt, StagedAt, HeldAt, GoingAt
  <2> QED BY <2>1, <2>2
<1>4. Becomes(r, s)
  BY <1>1
<1> HIDE DEF s
<1>5. /\ stage'[r] = s /\ \A q \in Requests \ {r} : stage'[q] = stage[q]
      /\ \A at : At(r, at)' <=> s # None /\ s.at = at
      /\ Owned(r)' = OwnedAt(s) /\ Staged(r)' = StagedAt(s)
      /\ Held(r)' = HeldAt(s) /\ Going(r)' = GoingAt(s)
  BY <1>0, <1>4, SetsAfter
<1>6. Staged(r) = {} /\ Going(r) = {i \in Ids : Uploaded(i) \in stage[r].paths}
  BY <1>0 DEF Staged, Going, At
<1>7. /\ DOMAIN disk' = DOMAIN disk \ ({p} \ kept)
      /\ \A y \in DOMAIN disk' : disk'[y] = disk[y]
  BY <1>12 DEF Without, Restrict
<1>8. \A x \in stage[r].paths : x.dir # "snapshots"
  BY <1>0 DEF Inv, RequestFits, At
<1>9. Moves(r)
  <2>1. BytesStay(r)
    <3>1. ASSUME NEW i \in Ids, Stored(i), i \notin Going(r) PROVE Stored(i)'
      BY <1>6, <1>7, <3>1 DEF Stored, Uploaded
    <3> QED BY <3>1 DEF BytesStay
  <2>2. RowsCome(r)
    BY <1>2 DEF RowsCome
  <2>3. RequestGoesOn(r)
    BY <1>3, <1>5, <1>6, <1>8 DEF RequestGoesOn
  <2> QED BY <1>0, <1>2, <1>5, <2>1, <2>2, <2>3 DEF Moves, counters
<1>10. Leaves(r)
  BY <1>2, <1>3, <1>5, <1>6, <1>7, <1>12 DEF Leaves
<1>11. Files(r)
  <2>1. \A t \in SnapshotIds, i \in Ids : Copied(t, i) \in DOMAIN disk => Copied(t, i) \in DOMAIN disk'
    BY <1>7, <1>8, PathTypes
  <2> QED BY <1>2, <1>3, <1>4, <2>1, OtherFiles DEF counters
<1> QED BY <1>9, <1>10, <1>11

LEMMA DeleteRowsStep ==
  ASSUME Inv, NEW r \in Requests, DeleteRows(r)
  PROVE  Moves(r) /\ Leaves(r) /\ Files(r)
<1>0. /\ TypeInv /\ stage[r] # None /\ stage[r].at = "delete" /\ stage[r].rows \in Rows
      /\ rows \in Rows /\ nextFile \in Nat
  BY AtTypes, StageTypes DEF Inv, DeleteRows, At, TypeInv, TypeOK
<1> DEFINE held == stage[r].rows
           s == Unlinking(PathsOf(held))
<1>1. /\ rows' = Without(rows, DOMAIN held) /\ Becomes(r, s)
      /\ UNCHANGED <<disk, snapshots, index, counters, history>>
  BY DEF DeleteRows
<1>2. DOMAIN held \subseteq Ids
  BY <1>0, RowsTypes
<1>3. Held(r) = DOMAIN held /\ Owned(r) = {} /\ Staged(r) = {} /\ Going(r) = {}
  BY <1>0, <1>2 DEF Held, Owned, Staged, Going, At
<1>4. \A i \in DOMAIN held : /\ LivePath(i, held[i].path)
                             /\ i \in DOMAIN rows => held[i].path = rows[i].path
  BY <1>3 DEF Inv, RequestFits
<1>5. /\ OwnedAt(s) = {} /\ StagedAt(s) = {} /\ HeldAt(s) = {}
      /\ GoingAt(s) = {i \in DOMAIN held : held[i].path = Uploaded(i)}
      /\ s # None => s.at = "unlink" /\ \A p \in s.paths : p.dir # "snapshots"
  <2>1. held \in Rows
    BY <1>0
  <2> HIDE DEF held
  <2> QED BY <1>4, <2>1, UnlinkingRows
<1> HIDE DEF s, held
<1>6. /\ stage'[r] = s /\ \A q \in Requests \ {r} : stage'[q] = stage[q]
      /\ \A at : At(r, at)' <=> s # None /\ s.at = at
      /\ Owned(r)' = OwnedAt(s) /\ Staged(r)' = StagedAt(s)
      /\ Held(r)' = HeldAt(s) /\ Going(r)' = GoingAt(s)
  BY <1>0, <1>1, SetsAfter
<1>7. /\ DOMAIN rows' = DOMAIN rows \ DOMAIN held
      /\ \A i \in DOMAIN rows' : rows'[i] = rows[i]
  BY <1>1 DEF Without, Restrict
<1>8. Moves(r)
  <2>1. RowsCome(r)
    BY <1>7 DEF RowsCome
  <2>2. RequestGoesOn(r)
    BY <1>3, <1>5, <1>6, <1>7 DEF RequestGoesOn
  <2>3. BytesStay(r)
    BY <1>1 DEF BytesStay, Stored, Uploaded
  <2> QED BY <1>0, <1>1, <1>6, <2>1, <2>2, <2>3 DEF Moves, history, counters
<1>9. Leaves(r)
  BY <1>1, <1>3, <1>4, <1>5, <1>6, <1>7 DEF Leaves, history
<1>10. Files(r)
  BY <1>1, <1>5, OtherFiles DEF counters
<1> QED BY <1>8, <1>9, <1>10

LEMMA SaveValidationStep ==
  ASSUME Inv, NEW r \in Requests, SaveValidation(r)
  PROVE  Moves(r) /\ Leaves(r) /\ Files(r)
<1>0. /\ TypeInv /\ stage[r] # None /\ stage[r].at = "validate" /\ stage[r].rows \in Rows
      /\ rows \in Rows /\ nextFile \in Nat
  BY AtTypes, StageTypes DEF Inv, SaveValidation, At, TypeInv, TypeOK
<1> DEFINE held == stage[r].rows
<1>1. /\ rows' = Merged(held, rows) /\ Becomes(r, None)
      /\ resurrected' = resurrected \cup (DOMAIN held \ DOMAIN rows)
      /\ UNCHANGED <<disk, snapshots, index, counters, crashed, dropped, ambiguous, leaked>>
  BY DEF SaveValidation
<1>2. DOMAIN held \subseteq Ids
  BY <1>0, RowsTypes
<1>3. Held(r) = DOMAIN held /\ Owned(r) = {} /\ Staged(r) = {} /\ Going(r) = {}
  BY <1>0, <1>2 DEF Held, Owned, Staged, Going, At
<1>4. OwnedAt(None) = {} /\ StagedAt(None) = {} /\ HeldAt(None) = {} /\ GoingAt(None) = {}
  BY DEF OwnedAt, StagedAt, HeldAt, GoingAt
<1>5. /\ stage'[r] = None /\ \A q \in Requests \ {r} : stage'[q] = stage[q]
      /\ \A at : ~At(r, at)'
      /\ Owned(r)' = {} /\ Staged(r)' = {} /\ Held(r)' = {} /\ Going(r)' = {}
  BY <1>0, <1>1, <1>4, SetsAfter
<1>6. /\ DOMAIN rows' = DOMAIN held \cup DOMAIN rows
      /\ \A i \in DOMAIN rows : rows'[i] = rows[i]
      /\ \A i \in DOMAIN held \ DOMAIN rows : rows'[i] = held[i]
  BY <1>0, <1>1 DEF Merged
<1>7. Moves(r)
  <2>1. RowsCome(r)
    BY <1>1, <1>3, <1>6 DEF RowsCome
  <2>2. RequestGoesOn(r)
    BY <1>5 DEF RequestGoesOn
  <2>3. BytesStay(r)
    BY <1>1 DEF BytesStay, Stored, Uploaded
  <2> QED BY <1>0, <1>1, <1>5, <2>1, <2>2, <2>3 DEF Moves, counters
<1>8. Leaves(r)
  BY <1>1, <1>3, <1>6 DEF Leaves
<1>9. Files(r)
  BY <1>1, OtherFiles DEF counters
<1> QED BY <1>7, <1>8, <1>9

\* A step that leaves rows and uploaded bytes alone, with nothing in hand
\* before and after.
LEMMA SnapshotMoves ==
  ASSUME Inv, NEW r \in Requests, NEW s, Becomes(r, s),
         UNCHANGED <<rows, crashed, dropped, resurrected, nextFile>>, leaked \subseteq leaked',
         stage[r] # None => stage[r].at \in {"snapshot", "list", "purge", "restore", "fetch", "copy"},
         s # None => s.at \in {"snapshot", "list", "purge", "restore", "fetch"},
         \A i \in Ids : /\ Uploaded(i) \in DOMAIN disk' <=> Uploaded(i) \in DOMAIN disk
                        /\ Uploaded(i) \in DOMAIN disk => disk'[Uploaded(i)] = disk[Uploaded(i)]
  PROVE  Moves(r) /\ Leaves(r)
<1>1. /\ stage'[r] = s /\ \A q \in Requests \ {r} : stage'[q] = stage[q]
      /\ \A at : At(r, at)' <=> s # None /\ s.at = at
      /\ Owned(r)' = {} /\ Staged(r)' = {} /\ Held(r)' = {} /\ Going(r)' = {}
  BY SetsAfter, NoSets DEF Inv
<1>2. Owned(r) = {} /\ Staged(r) = {} /\ Going(r) = {}
  BY DEF Owned, Staged, Going, At
<1>3. RowsCome(r) /\ RequestGoesOn(r)
  BY <1>1 DEF RowsCome, RequestGoesOn
<1>4. BytesStay(r)
  BY DEF BytesStay, Stored, Uploaded
<1>5. nextFile' >= nextFile
  BY DEF Inv, TypeInv, TypeOK
<1>6. Moves(r)
  BY <1>1, <1>3, <1>4, <1>5 DEF Moves
<1>7. Leaves(r)
  BY <1>2 DEF Leaves
<1> QED BY <1>6, <1>7

LEMMA SaveSnapshotStep ==
  ASSUME Inv, NEW r \in Requests, SaveSnapshot(r)
  PROVE  Moves(r) /\ Leaves(r) /\ Files(r)
<1> DEFINE s == [at |-> "list", snapshot |-> nextSnapshot]
           new == [version |-> stage[r].version, index |-> stage[r].index, files |-> <<>>]
<1>1. /\ snapshots' = With(snapshots, nextSnapshot, new)
      /\ nextSnapshot' = nextSnapshot + 1 /\ Becomes(r, s)
      /\ UNCHANGED <<rows, disk, index, nextFile, history>>
      /\ stage[r] # None /\ stage[r].at = "snapshot"
  BY DEF SaveSnapshot, At
<1>2. nextSnapshot \in Nat /\ TypeInv
  BY DEF Inv, TypeInv, TypeOK
<1>3. s.at = "list" /\ s.snapshot = nextSnapshot /\ new.files = <<>>
  OBVIOUS
<1> HIDE DEF s, new
<1>4. \A at : At(r, at)' <=> s # None /\ s.at = at
  BY <1>1, <1>2, SetsAfter
<1>5. stage'[r] = s
  BY <1>1, <1>2, SetsAfter
<1>6. /\ DOMAIN snapshots' = DOMAIN snapshots \cup {nextSnapshot}
      /\ snapshots'[nextSnapshot] = new
      /\ \A t \in DOMAIN snapshots \ {nextSnapshot} : snapshots'[t] = snapshots[t]
  BY <1>1 DEF With, Merged
<1>7. Files(r)
  <2>1. nextSnapshot' >= nextSnapshot /\ nextSnapshot < nextSnapshot'
    BY <1>1, <1>2
  <2>2. ~At(r, "copy")' /\ ~At(r, "purge")'
    BY <1>3, <1>4
  <2>3. \A t \in DOMAIN snapshots' :
          \/ t \in DOMAIN snapshots /\ snapshots'[t].files = snapshots[t].files
          \/ t = nextSnapshot /\ t < nextSnapshot' /\ snapshots'[t].files = <<>>
    BY <1>3, <1>6, <2>1
  <2>4. \A t \in DOMAIN snapshots', i \in Ids : Copied(t, i) \in DOMAIN disk => Copied(t, i) \in DOMAIN disk'
    BY <1>1
  <2>5. stage'[r].snapshot < nextSnapshot'
    BY <1>3, <1>5, <2>1
  <2> QED BY <2>1, <2>2, <2>3, <2>4, <2>5 DEF Files
<1>8. Moves(r) /\ Leaves(r)
  BY <1>1, <1>3, SnapshotMoves DEF history
<1> QED BY <1>7, <1>8

LEMMA SaveSnapshotFilesStep ==
  ASSUME Inv, NEW r \in Requests, SaveSnapshotFiles(r)
  PROVE  Moves(r) /\ Leaves(r) /\ Files(r)
<1>1. /\ Becomes(r, None) /\ UNCHANGED <<rows, disk, index, counters, history>>
      /\ stage[r] # None /\ stage[r].at = "copy" /\ At(r, "copy")
      /\ \/ UNCHANGED snapshots
         \/ snapshots' = [snapshots EXCEPT ![stage[r].snapshot].files = stage[r].files]
  BY DEF SaveSnapshotFiles, At
<1>2. TypeInv /\ \A t \in DOMAIN snapshots : snapshots[t] \in Snapshot
  BY DEF Inv, TypeInv, TypeOK
<1>3. \A at : ~At(r, at)'
  BY <1>1, <1>2, SetsAfter
<1>4. /\ DOMAIN snapshots' = DOMAIN snapshots
      /\ \A t \in DOMAIN snapshots :
           \/ snapshots'[t].files = snapshots[t].files
           \/ t = stage[r].snapshot /\ snapshots'[t].files = stage[r].files
  BY <1>1, <1>2 DEF Snapshot
<1>5. nextSnapshot' >= nextSnapshot
  BY <1>1 DEF counters, Inv, TypeInv, TypeOK
<1>6. Files(r)
  BY <1>1, <1>3, <1>4, <1>5 DEF Files
<1>7. Moves(r) /\ Leaves(r)
  BY <1>1, SnapshotMoves DEF history, counters
<1> QED BY <1>6, <1>7

LEMMA DeleteSnapshotStep ==
  ASSUME Inv, NEW r \in Requests, DeleteSnapshot(r)
  PROVE  Moves(r) /\ Leaves(r) /\ Files(r)
<1>1. PICK t \in DOMAIN snapshots : /\ snapshots' = Without(snapshots, {t})
                                    /\ Becomes(r, [at |-> "purge", snapshot |-> t])
  BY DEF DeleteSnapshot
<1> DEFINE s == [at |-> "purge", snapshot |-> t]
<1>2. UNCHANGED <<rows, disk, index, counters, history>> /\ stage[r] = None
  BY DEF DeleteSnapshot, Idle
<1>3. s.at = "purge" /\ s.snapshot = t /\ Becomes(r, s)
  BY <1>1
<1> HIDE DEF s
<1>4. stage'[r] = s /\ \A at : At(r, at)' <=> s # None /\ s.at = at
  BY <1>3, SetsAfter DEF Inv
<1>5. /\ DOMAIN snapshots' = DOMAIN snapshots \ {t}
      /\ \A y \in DOMAIN snapshots' : snapshots'[y] = snapshots[y]
  BY <1>1 DEF Without, Restrict
<1>6. nextSnapshot' >= nextSnapshot /\ t < nextSnapshot'
  BY <1>2 DEF counters, Inv, TypeInv, TypeOK, SnapshotsFit
<1>7. Files(r)
  BY <1>2, <1>3, <1>4, <1>5, <1>6 DEF Files
<1>8. Moves(r) /\ Leaves(r)
  BY <1>2, <1>3, SnapshotMoves DEF history, counters
<1> QED BY <1>7, <1>8

LEMMA PurgeSnapshotStep ==
  ASSUME Inv, NEW r \in Requests, PurgeSnapshot(r)
  PROVE  Moves(r) /\ Leaves(r) /\ Files(r)
<1> DEFINE P == {p \in DOMAIN disk : p.dir \in {"snapshots", "restore"} /\ p.of = stage[r].snapshot}
<1>1. /\ Becomes(r, None)
      /\ UNCHANGED <<rows, snapshots, index, counters, crashed, dropped, resurrected, ambiguous>>
      /\ stage[r] # None /\ stage[r].at = "purge" /\ At(r, "purge")
  BY DEF PurgeSnapshot, At
<1>8. PICK kept \in SUBSET (P \cap DOMAIN disk) :
        disk' = Without(disk, P \ kept) /\ leaked' = leaked \cup kept
  BY DEF PurgeSnapshot, Removes
<1>2. /\ \A i \in Ids : Uploaded(i) \notin P
      /\ \A t \in DOMAIN snapshots, i \in Ids : Copied(t, i) \notin P
  <2>1. DOMAIN snapshots \subseteq SnapshotIds /\ stage[r].snapshot \notin DOMAIN snapshots
    BY <1>1 DEF Inv, TypeInv, TypeOK, SnapshotsFit
  <2> QED BY <2>1, PathTypes
<1> HIDE DEF P
<1>3. /\ DOMAIN disk' = DOMAIN disk \ (P \ kept)
      /\ \A y \in DOMAIN disk' : disk'[y] = disk[y]
  BY <1>8 DEF Without, Restrict
<1>4. \A at : ~At(r, at)'
  BY <1>1, SetsAfter DEF Inv
<1>5. nextSnapshot' >= nextSnapshot
  BY <1>1 DEF counters, Inv, TypeInv, TypeOK
<1>6. Files(r)
  BY <1>1, <1>2, <1>3, <1>4, <1>5 DEF Files
<1>7. Moves(r) /\ Leaves(r)
  BY <1>1, <1>2, <1>3, <1>8, SnapshotMoves DEF counters
<1> QED BY <1>6, <1>7

LEMMA FailRestoreStep ==
  ASSUME Inv, NEW r \in Requests, FailRestore(r)
  PROVE  Moves(r) /\ Leaves(r) /\ Files(r)
<1>1. /\ Becomes(r, None) /\ UNCHANGED <<rows, snapshots, index, counters, history>>
      /\ stage[r] # None /\ stage[r].at = "fetch" /\ TypeInv
  BY FailedRestore DEF Inv
<1>2. PICK P : /\ disk' = Without(disk, P)
               /\ \A i : Uploaded(i) \notin P /\ \A t : Copied(t, i) \notin P
  BY FailedRestore DEF Inv
<1>3. /\ DOMAIN disk' = DOMAIN disk \ P
      /\ \A y \in DOMAIN disk' : disk'[y] = disk[y]
  BY <1>2 DEF Without, Restrict
<1>4. Files(r)
  BY <1>1, <1>2, <1>3, OtherFiles DEF counters
<1>5. Moves(r) /\ Leaves(r)
  BY <1>1, <1>2, <1>3, SnapshotMoves DEF counters, history
<1> QED BY <1>4, <1>5

LEMMA CopyFileStep ==
  ASSUME Inv, NEW r \in Requests, CopyFile(r)
  PROVE  Moves(r) /\ Leaves(r) /\ Files(r)
<1>0. /\ TypeInv /\ stage[r] \in CopyStage /\ stage[r] # None /\ stage[r].at = "copy" /\ At(r, "copy")
      /\ nextFile \in Nat /\ DOMAIN snapshots \subseteq SnapshotIds /\ nextSnapshot \in Nat
  BY AtTypes, StageTypes DEF Inv, CopyFile, At, TypeInv, TypeOK
<1>1. PICK i \in DOMAIN stage[r].rows \ DOMAIN stage[r].files :
        LET file == stage[r].rows[i]
            copy == Copied(stage[r].snapshot, i)
        IN /\ i \in Ids
           /\ stage'[r] \in CopyStage /\ stage'[r].at = "copy"
           /\ stage'[r].snapshot = stage[r].snapshot
           /\ stage'[r].rows = stage[r].rows
           /\ DOMAIN stage'[r].files = DOMAIN stage[r].files \cup {i}
           /\ \A j \in DOMAIN stage[r].files : stage'[r].files[j] = stage[r].files[j]
           /\ \/ /\ disk' = With(disk, copy, disk[file.path])
                 /\ stage'[r].files[i].path = copy
              \/ UNCHANGED disk /\ stage'[r].files[i].path = file.path
  BY <1>0, CopyTypes
<1>2. /\ UNCHANGED <<rows, snapshots, index, counters, history>>
      /\ \A q \in Requests \ {r} : stage'[q] = stage[q]
  BY <1>0 DEF CopyFile, Becomes, TypeInv, TypeOK
<1>3. stage'[r] # None
  BY <1>1, NoneAssumption, StagesExist
<1>4. /\ Owned(r) = {} /\ Staged(r) = {} /\ Going(r) = {}
      /\ Owned(r)' = {} /\ Staged(r)' = {} /\ Going(r)' = {}
  BY <1>0, <1>1 DEF Owned, Staged, Going, At
<1>5. Held(r)' = Held(r) /\ \A j \in Held(r)' : stage'[r].rows[j] = stage[r].rows[j]
  BY <1>0, <1>1, <1>3 DEF Held, At
<1>6. /\ DOMAIN disk \subseteq DOMAIN disk'
      /\ \A p \in DOMAIN disk' : p \in DOMAIN disk \/ p = Copied(stage[r].snapshot, i)
      /\ \A p \in DOMAIN disk : p # Copied(stage[r].snapshot, i) => disk'[p] = disk[p]
      /\ stage'[r].files[i].path = Copied(stage[r].snapshot, i) => stage'[r].files[i].path \in DOMAIN disk'
         \/ stage'[r].files[i].path = stage[r].rows[i].path
  <2>1. CASE UNCHANGED disk
    BY <1>1, <2>1 DEF With, Merged
  <2>2. CASE disk' = With(disk, Copied(stage[r].snapshot, i), disk[stage[r].rows[i].path])
    BY <2>2 DEF With, Merged
  <2> QED BY <1>1, <2>1, <2>2
<1>7. \A j \in Ids : Uploaded(j) # Copied(stage[r].snapshot, i)
  BY DEF Uploaded, Copied
<1>8. Moves(r)
  <2>1. RowsCome(r)
    BY <1>2 DEF RowsCome
  <2>2. RequestGoesOn(r)
    BY <1>1, <1>4, <1>5 DEF RequestGoesOn, At
  <2>3. BytesStay(r)
    BY <1>6, <1>7 DEF BytesStay, Stored, Uploaded
  <2> QED BY <1>0, <1>2, <2>1, <2>2, <2>3 DEF Moves, counters, history
<1>9. Leaves(r)
  <2>1. \A j \in Ids : Uploaded(j) \in DOMAIN disk' => Uploaded(j) \in DOMAIN disk
    BY <1>6, <1>7
  <2> QED BY <1>2, <1>4, <2>1 DEF Leaves, history
<1>10. Files(r)
  <2>1. stage[r].snapshot < nextSnapshot /\ SnapshotKept(stage[r].snapshot, stage[r].files)
    BY <1>0 DEF Inv, SnapshotsFit
  <2>2. stage[r].rows[i].path.dir # "snapshots"
    <3>1. i \in Held(r)
      BY <1>0, <1>1 DEF Held
    <3> QED BY <3>1 DEF Inv, RequestFits, LivePath
  <2>3. Copied(stage[r].snapshot, i).dir = "snapshots"
    BY DEF Copied
  <2>4. \A j \in DOMAIN stage'[r].files : stage'[r].files[j].path.dir = "snapshots" =>
          /\ stage'[r].files[j].path = Copied(stage'[r].snapshot, j)
          /\ stage'[r].snapshot \in DOMAIN snapshots' => Copied(stage'[r].snapshot, j) \in DOMAIN disk'
    <3>1. CASE UNCHANGED disk /\ stage'[r].files[i].path = stage[r].rows[i].path
      BY <1>1, <1>2, <2>1, <2>2, <3>1 DEF SnapshotKept
    <3>2. CASE /\ disk' = With(disk, Copied(stage[r].snapshot, i), disk[stage[r].rows[i].path])
               /\ stage'[r].files[i].path = Copied(stage[r].snapshot, i)
      <4>1. DOMAIN disk' = DOMAIN disk \cup {Copied(stage[r].snapshot, i)}
        BY <3>2 DEF With, Merged
      <4> QED BY <1>1, <1>2, <2>1, <3>2, <4>1 DEF SnapshotKept
    <3> QED BY <1>1, <3>1, <3>2
  <2>5. SnapshotKept(stage[r].snapshot, stage[r].files)'
    BY <2>4 DEF SnapshotKept, Copied
  <2>6. ~At(r, "list")' /\ ~At(r, "purge")'
    BY <1>1 DEF At
  <2>7. nextSnapshot' = nextSnapshot /\ snapshots' = snapshots
    BY <1>2 DEF counters
  <2>8. nextSnapshot' >= nextSnapshot /\ stage'[r].snapshot < nextSnapshot'
    BY <1>0, <1>1, <2>1, <2>7
  <2> QED BY <1>6, <2>5, <2>6, <2>7, <2>8 DEF Files
<1> QED BY <1>8, <1>9, <1>10

LEMMA FetchFileStep ==
  ASSUME Inv, NEW r \in Requests, FetchFile(r)
  PROVE  Moves(r) /\ Leaves(r) /\ Files(r)
<1>0. /\ TypeInv /\ stage[r] \in FetchStage /\ stage[r] # None /\ stage[r].at = "fetch"
  BY AtTypes, StageTypes DEF Inv, FetchFile, At, TypeInv, TypeOK
<1>1. PICK i \in DOMAIN stage[r].files \ stage[r].fetched :
        LET file == stage[r].files[i]
        IN /\ disk' = With(disk, Restored(stage[r].snapshot, file.name), disk[file.path])
           /\ Becomes(r, [stage[r] EXCEPT !.fetched = @ \cup {i}])
  BY DEF FetchFile
<1> DEFINE path == Restored(stage[r].snapshot, stage[r].files[i].name)
           s == [stage[r] EXCEPT !.fetched = @ \cup {i}]
<1>2. UNCHANGED <<rows, snapshots, index, counters, crashed, dropped, resurrected, leaked>>
  BY DEF FetchFile
<1>3. s.at = "fetch" /\ Becomes(r, s)
  BY <1>0, <1>1 DEF FetchStage
<1>4. /\ DOMAIN disk' = DOMAIN disk \cup {path}
      /\ \A y \in DOMAIN disk \ {path} : disk'[y] = disk[y]
  BY <1>1 DEF With, Merged
<1>5. \A j : Uploaded(j) # path /\ \A t : Copied(t, j) # path
  BY DEF Uploaded, Copied, Restored
<1> HIDE DEF s, path
<1>6. Moves(r) /\ Leaves(r)
  BY <1>0, <1>2, <1>3, <1>4, <1>5, SnapshotMoves DEF counters
<1>7. Files(r)
  BY <1>2, <1>3, <1>4, OtherFiles DEF counters
<1> QED BY <1>6, <1>7

LEMMA ClearRowsStep ==
  ASSUME Inv, NEW r \in Requests, ClearRows(r)
  PROVE  Moves(r) /\ Leaves(r) /\ Files(r)
<1>0. /\ TypeInv /\ stage[r] \in FetchStage /\ stage[r] # None /\ stage[r].at = "fetch"
      /\ rows \in Rows /\ nextFile \in 1..(MaxFiles + 1) /\ MaxFiles \in Nat
  BY AtTypes, StageTypes, PackageFilesAssumption DEF Inv, ClearRows, At, TypeInv, TypeOK
<1> DEFINE n == Cardinality(DOMAIN stage[r].files)
           s == IF n = 0 THEN None
                ELSE [at |-> "insert", snapshot |-> stage[r].snapshot,
                      files |-> stage[r].files, ids |-> nextFile..(nextFile + n - 1)]
<1>1. /\ nextFile + n - 1 <= MaxFiles /\ rows' = <<>> /\ dropped' = dropped \cup DOMAIN rows
      /\ Becomes(r, s) /\ nextFile' = nextFile + n
      /\ UNCHANGED <<disk, snapshots, index, nextSnapshot, crashed, resurrected, ambiguous, leaked>>
  BY DEF ClearRows
<1>2. n \in Nat
  BY <1>0, <1>1, FreshIds DEF FetchStage
<1> HIDE DEF n
<1>3. /\ StagedAt(s) = {} /\ HeldAt(s) = {} /\ GoingAt(s) = {}
      /\ s # None => s.at = "insert"
      /\ \A i \in OwnedAt(s) : i \in nextFile..(nextFile + n - 1)
  <2>1. CASE n = 0
    BY <2>1 DEF OwnedAt, StagedAt, HeldAt, GoingAt
  <2>2. CASE n # 0
    <3>1. /\ s.at = "insert" /\ s.ids = nextFile..(nextFile + n - 1)
      BY <2>2
    <3> HIDE DEF s
    <3> QED BY <3>1 DEF OwnedAt, StagedAt, HeldAt, GoingAt
  <2> QED BY <2>1, <2>2
<1> HIDE DEF s
<1>4. ASSUME NEW i \in OwnedAt(s) PROVE ~Used(i) /\ i < nextFile'
  BY <1>0, <1>1, <1>2, <1>3 DEF Used
<1>5. /\ stage'[r] = s /\ \A q \in Requests \ {r} : stage'[q] = stage[q]
      /\ \A at : At(r, at)' <=> s # None /\ s.at = at
      /\ Owned(r)' = OwnedAt(s) /\ Staged(r)' = StagedAt(s)
      /\ Held(r)' = HeldAt(s) /\ Going(r)' = GoingAt(s)
  BY <1>0, <1>1, SetsAfter
<1>6. Staged(r) = {} /\ Going(r) = {} /\ DOMAIN rows' = {}
  BY <1>0, <1>1, RowsTypes DEF Staged, Going, At
<1>7. Moves(r)
  <2>1. RowsCome(r)
    BY <1>6 DEF RowsCome
  <2>2. \A i \in Owned(r)' : ~Used(i) /\ Used(i)'
    BY <1>4, <1>5 DEF Used
  <2>3. RequestGoesOn(r)
    BY <1>3, <1>5, <2>2 DEF RequestGoesOn
  <2>4. BytesStay(r)
    BY <1>1 DEF BytesStay, Stored, Uploaded
  <2>5. nextFile' >= nextFile
    BY <1>0, <1>1, <1>2
  <2> QED BY <1>1, <1>5, <2>1, <2>3, <2>4, <2>5 DEF Moves
<1>8. Leaves(r)
  BY <1>1, <1>6 DEF Leaves
<1>9. Files(r)
  BY <1>1, <1>3, OtherFiles
<1> QED BY <1>7, <1>8, <1>9

LEMMA InsertRowsStep ==
  ASSUME Inv, NEW r \in Requests, InsertRows(r)
  PROVE  Moves(r) /\ Leaves(r) /\ Files(r)
<1>0. /\ TypeInv /\ stage[r] # None /\ stage[r].at = "insert" /\ rows \in Rows /\ nextFile \in Nat
  BY DEF Inv, InsertRows, At, TypeInv, TypeOK
<1>1. /\ Becomes(r, None) /\ UNCHANGED <<disk, snapshots, index, counters, history>>
  BY DEF InsertRows
<1>2. stage[r] \in InsertStage
  BY <1>0, InsertTypes
<1>3. PICK new \in Rows : /\ DOMAIN new = stage[r].ids /\ rows' = Merged(rows, new)
                          /\ \A i \in stage[r].ids : \E j \in DOMAIN stage[r].files :
                               new[i] = RestoredFile(stage[r].snapshot, stage[r].files[j])
  BY <1>0, InsertTypes
<1>4. \A i \in stage[r].ids : new[i].path.dir = "restore"
  <2>1. ASSUME NEW file \in File PROVE RestoredFile(stage[r].snapshot, file).path.dir = "restore"
    BY <2>1 DEF RestoredFile, File, Restored
  <2>2. \A j \in DOMAIN stage[r].files : stage[r].files[j] \in File
    BY <1>2, RowsTypes DEF InsertStage
  <2> QED BY <1>3, <2>1, <2>2
<1>5. OwnedAt(None) = {} /\ StagedAt(None) = {} /\ HeldAt(None) = {} /\ GoingAt(None) = {}
  BY DEF OwnedAt, StagedAt, HeldAt, GoingAt
<1>6. /\ stage'[r] = None /\ \A q \in Requests \ {r} : stage'[q] = stage[q]
      /\ \A at : ~At(r, at)'
      /\ Owned(r)' = {} /\ Staged(r)' = {} /\ Held(r)' = {} /\ Going(r)' = {}
  BY <1>0, <1>1, <1>5, SetsAfter
<1>7. Owned(r) = stage[r].ids /\ Staged(r) = {} /\ Going(r) = {}
  BY <1>0, <1>2 DEF Owned, Staged, Going, At, InsertStage
<1>8. \A i \in stage[r].ids : i \notin DOMAIN rows
  BY <1>7 DEF Inv, RequestFits
<1>9. /\ DOMAIN rows' = DOMAIN rows \cup stage[r].ids
      /\ \A i \in DOMAIN rows : rows'[i] = rows[i]
      /\ \A i \in stage[r].ids : rows'[i] = new[i]
  BY <1>3, <1>8 DEF Merged
<1>10. Moves(r)
  <2>1. \A i : Uploaded(i).dir = "uploads"
    BY DEF Uploaded
  <2>2. RowsCome(r)
    BY <1>4, <1>7, <1>9, <2>1 DEF RowsCome, LivePath
  <2>3. RequestGoesOn(r)
    BY <1>6 DEF RequestGoesOn
  <2>4. BytesStay(r)
    BY <1>1 DEF BytesStay, Stored, Uploaded
  <2> QED BY <1>0, <1>1, <1>6, <2>2, <2>3, <2>4 DEF Moves, history, counters
<1>11. Leaves(r)
  BY <1>1, <1>7, <1>9 DEF Leaves, history
<1>12. Files(r)
  BY <1>1, OtherFiles DEF counters
<1> QED BY <1>10, <1>11, <1>12

LEMMA InvHolds ==
  /\ Init => Inv
  /\ Inv /\ [Next]_vars => Inv'
<1>1. ASSUME Init PROVE Inv
  <2>1. TypeInv /\ DOMAIN rows = {} /\ DOMAIN disk = {} /\ DOMAIN snapshots = {}
    BY <1>1, TypesHold, RowsTypes DEF Init
  <2>2. \A r \in Requests : /\ \A at : ~At(r, at)
                            /\ Owned(r) = {} /\ Held(r) = {} /\ Going(r) = {} /\ Staged(r) = {}
    BY <1>1 DEF Init, At, Owned, Held, Going, Staged
  <2>3. \A r \in Requests : RequestFits(r)
    BY <2>2 DEF RequestFits
  <2>4. \A q, r \in Requests : RequestsAgree(q, r)
    BY <2>2 DEF RequestsAgree
  <2>5. RowsFit /\ SnapshotsFit
    BY <2>1, <2>2 DEF RowsFit, SnapshotsFit
  <2> QED BY <2>1, <2>3, <2>4, <2>5 DEF Inv
<1>2. ASSUME Inv, [Next]_vars PROVE Inv'
  <2>0. TypeInv'
    BY <1>2, TypesHold DEF Inv
  <2>1. ASSUME UNCHANGED <<rows, disk, snapshots, stage, counters, history>> PROVE Inv'
    <3>1. UNCHANGED <<rows, disk, snapshots, stage, nextFile, nextSnapshot, crashed, dropped,
                     resurrected, leaked>>
      BY <2>1 DEF counters, history
    <3>2. \A r \in Requests : /\ Owned(r)' = Owned(r) /\ Held(r)' = Held(r)
                              /\ Going(r)' = Going(r) /\ Staged(r)' = Staged(r)
                              /\ \A at : At(r, at)' <=> At(r, at)
      BY <3>1 DEF Owned, Held, Going, Staged, At
    <3>3. /\ \A i : Used(i)' <=> Used(i)
          /\ \A i : Stored(i)' <=> Stored(i)
          /\ \A i : Tracked(i)' <=> Tracked(i)
      BY <3>1, <3>2 DEF Used, Stored, Tracked, Uploaded
    <3>4. RowsFit'
      BY <1>2, <3>1, <3>3 DEF Inv, RowsFit, LivePath, Uploaded
    <3>5. \A r \in Requests : RequestFits(r)'
      BY <1>2, <3>1, <3>2, <3>3 DEF Inv, RequestFits, LivePath, Uploaded
    <3>6. \A q, r \in Requests : RequestsAgree(q, r)'
      BY <1>2, <3>1, <3>2 DEF Inv, RequestsAgree
    <3>7. SnapshotsFit'
      BY <1>2, <3>1, <3>2 DEF Inv, SnapshotsFit, SnapshotKept, Copied
    <3> QED BY <1>2, <2>0, <3>1, <3>3, <3>4, <3>5, <3>6, <3>7 DEF Inv, Uploaded
  <2>2. CASE UNCHANGED vars
    BY <2>1, <2>2 DEF vars, counters, history
  <2>3. CASE EditIndex
    BY <2>1, <2>3 DEF EditIndex
  <2>4. CASE Crash
    <3>1. /\ \A r \in Requests : stage'[r] = None
          /\ crashed' = TRUE
          /\ UNCHANGED <<rows, disk, snapshots, counters, dropped, resurrected>>
      BY <2>4 DEF Crash
    <3>2. \A r \in Requests : /\ \A at : ~At(r, at)'
                              /\ Owned(r)' = {} /\ Held(r)' = {} /\ Going(r)' = {} /\ Staged(r)' = {}
      BY <3>1 DEF Owned, Held, Going, Staged, At
    <3>3. \A r \in Requests : RequestFits(r)'
      BY <3>2 DEF RequestFits
    <3>4. \A q, r \in Requests : RequestsAgree(q, r)'
      BY <3>2 DEF RequestsAgree
    <3>5. RowsFit'
      BY <1>2, <3>1 DEF Inv, RowsFit, LivePath, Used, Stored, Uploaded, counters
    <3>6. SnapshotsFit'
      BY <1>2, <3>1, <3>2 DEF Inv, SnapshotsFit, SnapshotKept, Copied, counters
    <3> QED BY <2>0, <3>1, <3>3, <3>4, <3>5, <3>6 DEF Inv
  <2>5. ASSUME NEW r \in Requests, Acts(r) PROVE Inv'
    <3>1. Moves(r) /\ Leaves(r) /\ Files(r)
      BY <1>2, <2>5, ReadingSteps, StageUploadStep, CommitUploadStep, FailUploadStep, UnlinkOneStep,
         DeleteRowsStep, SaveValidationStep, SaveSnapshotStep, SaveSnapshotFilesStep,
         DeleteSnapshotStep, PurgeSnapshotStep, CopyFileStep, FetchFileStep, FailRestoreStep,
         ClearRowsStep,
         InsertRowsStep
         DEF Acts
    <3> QED BY <1>2, <2>0, <3>1, StepsKeepInv
  <2> QED BY <1>2, <2>2, <2>3, <2>4, <2>5 DEF Next, Acts
<1> QED BY <1>1, <1>2

-----------------------------------------------------------------------------
(* Checksums.  A snapshot that has been deleted may still be restored by a     *)
(* request that has read it, and its restored files copied into other          *)
(* snapshots.  What a snapshot once contained is therefore a value C that the  *)
(* invariant says exists: it grows while the snapshot is being created, and    *)
(* tells for every path the bytes that belong there.                           *)

Contents == [SnapshotIds -> Rows]

\* A request at this point is creating snapshot s.
Copies(at, s) == at # None /\ at.at \in {"list", "copy"} /\ at.snapshot = s
Copying == {s \in SnapshotIds : \E r \in Requests : Copies(stage[r], s)}

Distinct(files, I) == \A i, j \in I : files[i].name = files[j].name => i = j

\* With contents C, and the snapshots K being created: b belongs at path p.
Belongs(C, K, p, b) ==
  \/ p.dir = "uploads" /\ b = p.key
  \/ /\ p.dir = "snapshots" /\ p.of \in SnapshotIds
     /\ p.key \in DOMAIN C[p.of]
     /\ C[p.of][p.key].path = p /\ C[p.of][p.key].bytes = b
  \/ /\ p.dir = "restore" /\ p.of \in SnapshotIds \ K
     /\ Distinct(C[p.of], DOMAIN C[p.of])
     /\ \E i \in DOMAIN C[p.of] : C[p.of][i].name = p.key /\ C[p.of][i].bytes = b

Told(C, K, f) == \A i \in DOMAIN f : Belongs(C, K, f[i].path, f[i].bytes)
IsContent(C, K, s, files) == files = <<>> \/ (files = C[s] /\ s \notin K)

DiskTold(C, K, n, d) ==
  \A p \in DOMAIN d : /\ \A b : Belongs(C, K, p, b) => d[p] = b
                      /\ p.dir = "restore" => p.of < n /\ p.of \notin K

StageTold(C, K, at) ==
  at # None =>
    /\ at.at \in {"validate", "copy"} => Told(C, K, at.rows)
    /\ at.at \in {"restore", "fetch", "insert"} => IsContent(C, K, at.snapshot, at.files)
    /\ at.at = "list" => C[at.snapshot] = <<>>
    /\ at.at = "copy" => C[at.snapshot] = at.files
    /\ at.at = "fetch" => at.fetched \subseteq DOMAIN at.files /\ Distinct(at.files, at.fetched)
    /\ at.at = "insert" => Distinct(at.files, DOMAIN at.files)

Consistent(C) ==
  /\ C \in Contents
  /\ \A s \in SnapshotIds : Told(C, Copying, C[s]) /\ (C[s] # <<>> => s < nextSnapshot)
  /\ DiskTold(C, Copying, nextSnapshot, disk)
  /\ Told(C, Copying, rows)
  /\ \A s \in DOMAIN snapshots : IsContent(C, Copying, s, snapshots[s].files)
  /\ \A r \in Requests : StageTold(C, Copying, stage[r])
  /\ \A q, r \in Requests, s \in SnapshotIds :
       Copies(stage[q], s) /\ Copies(stage[r], s) => q = r

ContentInv == ambiguous \/ \E C : Consistent(C)

LEMMA PathParts ==
  /\ \A p \in Paths : p.dir \in {"snapshots", "restore"} => p.of \in SnapshotIds
  /\ \A s, i : Copied(s, i).dir = "snapshots" /\ Copied(s, i).of = s /\ Copied(s, i).key = i
  /\ \A s, n : Restored(s, n).dir = "restore" /\ Restored(s, n).of = s /\ Restored(s, n).key = n
  /\ \A i : Uploaded(i).dir = "uploads" /\ Uploaded(i).key = i
<1>1. \A s, i : Copied(s, i).dir = "snapshots" /\ Copied(s, i).of = s /\ Copied(s, i).key = i
  BY DEF Copied
<1>2. \A s, n : Restored(s, n).dir = "restore" /\ Restored(s, n).of = s /\ Restored(s, n).key = n
  BY DEF Restored
<1>3. \A i : Uploaded(i).dir = "uploads" /\ Uploaded(i).key = i
  BY DEF Uploaded
<1>4. ASSUME NEW p \in Paths, p.dir \in {"snapshots", "restore"}
      PROVE  p.of \in SnapshotIds
  <2>1. CASE \E i \in Ids : p = Uploaded(i)
    BY <1>3, <1>4, <2>1
  <2>2. CASE \E s \in SnapshotIds, i \in Ids : p = Copied(s, i)
    BY <1>1, <2>2
  <2>3. CASE \E s \in SnapshotIds, n \in Names : p = Restored(s, n)
    BY <1>2, <2>3
  <2> QED BY <2>1, <2>2, <2>3 DEF Paths
<1> QED BY <1>1, <1>2, <1>3, <1>4

\* What belongs somewhere still belongs there when the content of one
\* snapshot, being created or empty, grows, and when its creation begins or ends.
LEMMA ContentGrows ==
  ASSUME NEW C \in Contents, NEW D \in Contents, NEW K, NEW L, NEW u,
         \A t \in SnapshotIds \ {u} : D[t] = C[t] /\ (t \in L <=> t \in K),
         u \in SnapshotIds =>
           /\ u \in K \/ C[u] = <<>>
           /\ \A i \in DOMAIN C[u] : i \in DOMAIN D[u] /\ D[u][i] = C[u][i]
  PROVE  /\ \A p, b : Belongs(C, K, p, b) => Belongs(D, L, p, b)
         /\ \A s \in SnapshotIds : \A f : IsContent(C, K, s, f) => IsContent(D, L, s, f)
<1>1. ASSUME NEW p, NEW b, Belongs(C, K, p, b)
      PROVE  Belongs(D, L, p, b)
  <2>1. CASE p.dir = "uploads" /\ b = p.key
    BY <2>1 DEF Belongs
  <2>2. CASE /\ p.dir = "snapshots" /\ p.of \in SnapshotIds
             /\ p.key \in DOMAIN C[p.of]
             /\ C[p.of][p.key].path = p /\ C[p.of][p.key].bytes = b
    <3>1. p.key \in DOMAIN D[p.of] /\ D[p.of][p.key] = C[p.of][p.key]
      BY <2>2
    <3> QED BY <2>2, <3>1 DEF Belongs
  <2>3. CASE /\ p.dir = "restore" /\ p.of \in SnapshotIds \ K
             /\ Distinct(C[p.of], DOMAIN C[p.of])
             /\ \E i \in DOMAIN C[p.of] : C[p.of][i].name = p.key /\ C[p.of][i].bytes = b
    <3>1. p.of # u
      BY <2>3, RowsTypes
    <3>2. D[p.of] = C[p.of] /\ p.of \notin L
      BY <2>3, <3>1
    <3> QED BY <2>3, <3>2 DEF Belongs
  <2> QED BY <1>1, <2>1, <2>2, <2>3 DEF Belongs
<1>2. ASSUME NEW s \in SnapshotIds, NEW f, IsContent(C, K, s, f)
      PROVE  IsContent(D, L, s, f)
  <2>1. CASE s = u
    BY <1>2, <2>1 DEF IsContent
  <2>2. CASE s # u
    BY <1>2, <2>2 DEF IsContent
  <2> QED BY <2>1, <2>2
<1> QED BY <1>1, <1>2

\* The snapshot a request works on.
LEMMA StageSnapshots ==
  ASSUME NEW at \in Stage \cup {None}, at # None
  PROVE  at.at \in {"list", "copy", "purge", "restore", "fetch", "insert"}
           => at.snapshot \in SnapshotIds
  BY StageTypes DEF CopyStage, FetchStage, InsertStage

\* A step of r that changes the content of u at most.
LEMMA StepKeepsContent ==
  ASSUME TypeInv, TypeInv', NEW C, Consistent(C), NEW D \in Contents,
         NEW r \in Requests, NEW u,
         \A q \in Requests \ {r} : stage'[q] = stage[q],
         \A t \in SnapshotIds \ {u} : /\ D[t] = C[t]
                                      /\ Copies(stage'[r], t) <=> Copies(stage[r], t),
         u \in SnapshotIds =>
           /\ u \in Copying \/ C[u] = <<>>
           /\ \A i \in DOMAIN C[u] : i \in DOMAIN D[u] /\ D[u][i] = C[u][i]
           /\ \A q \in Requests \ {r} : ~Copies(stage[q], u)
           /\ Told(D, Copying', D[u]) /\ (D[u] # <<>> => u < nextSnapshot'),
         nextSnapshot' >= nextSnapshot,
         DiskTold(D, Copying', nextSnapshot', disk'),
         Told(D, Copying', rows'),
         \A s \in DOMAIN snapshots' : IsContent(D, Copying', s, snapshots'[s].files),
         StageTold(D, Copying', stage'[r])
  PROVE  Consistent(D)'
<1> DEFINE K == Copying
           L == Copying'
<1>1. \A t \in SnapshotIds \ {u} : t \in L <=> t \in K
  <2>1. \A t \in SnapshotIds \ {u}, q \in Requests : Copies(stage'[q], t) <=> Copies(stage[q], t)
    OBVIOUS
  <2>2. L = {s \in SnapshotIds : \E q \in Requests : Copies(stage'[q], s)}
    BY DEF Copying, Copies
  <2> QED BY <2>1, <2>2 DEF Copying
<1>2. C \in Contents
  BY DEF Consistent
<1>3. /\ \A p, b : Belongs(C, K, p, b) => Belongs(D, L, p, b)
      /\ \A s \in SnapshotIds : \A f : IsContent(C, K, s, f) => IsContent(D, L, s, f)
  <2> HIDE DEF K, L
  <2>1. u \in SnapshotIds => u \in K \/ C[u] = <<>>
    BY DEF K
  <2> QED BY <1>1, <1>2, <2>1, ContentGrows
<1>4. \A f : Told(C, K, f) => Told(D, L, f)
  BY <1>3 DEF Told
<1>5. nextSnapshot \in Nat /\ nextSnapshot' \in Nat /\ SnapshotIds \subseteq Nat
  BY DEF TypeInv, TypeOK, SnapshotIds
<1>6. ASSUME NEW s \in SnapshotIds
      PROVE  Told(D, L, D[s]) /\ (D[s] # <<>> => s < nextSnapshot')
  <2>1. CASE s = u
    BY <2>1
  <2>2. CASE s # u
    <3>1. D[s] = C[s] /\ Told(C, K, C[s]) /\ (C[s] # <<>> => s < nextSnapshot)
      BY <2>2 DEF Consistent
    <3> QED BY <1>4, <1>5, <3>1
  <2> QED BY <2>1, <2>2
<1>7. ASSUME NEW q \in Requests
      PROVE  StageTold(D, L, stage'[q])
  <2>1. CASE q = r
    BY <2>1
  <2>2. CASE q # r
    <3> DEFINE at == stage[q]
    <3>1. stage'[q] = at /\ StageTold(C, K, at) /\ at \in Stage \cup {None}
      BY <2>2 DEF Consistent, TypeInv, TypeOK
    <3>2. SUFFICES ASSUME at # None PROVE StageTold(D, L, at)
      BY <3>1 DEF StageTold
    <3>3. at.at \in {"list", "copy"} => D[at.snapshot] = C[at.snapshot]
      <4>1. ASSUME at.at \in {"list", "copy"} PROVE D[at.snapshot] = C[at.snapshot]
        <5>1. at.snapshot \in SnapshotIds /\ Copies(at, at.snapshot)
          BY <3>1, <3>2, <4>1, StageSnapshots DEF Copies
        <5>2. at.snapshot # u
          BY <2>2, <5>1
        <5> QED BY <5>1, <5>2
      <4> QED BY <4>1
    <3>4. at.at \in {"restore", "fetch", "insert"} => IsContent(D, L, at.snapshot, at.files)
      <4>1. ASSUME at.at \in {"restore", "fetch", "insert"}
            PROVE  IsContent(D, L, at.snapshot, at.files)
        <5>1. at.snapshot \in SnapshotIds
          BY <3>1, <3>2, <4>1, StageSnapshots
        <5>2. IsContent(C, K, at.snapshot, at.files)
          BY <3>1, <3>2, <4>1 DEF StageTold
        <5> QED BY <1>3, <5>1, <5>2
      <4> QED BY <4>1
    <3>5. at.at \in {"validate", "copy"} => Told(D, L, at.rows)
      BY <1>4, <3>1, <3>2 DEF StageTold
    <3> HIDE DEF at, K, L
    <3> QED BY <3>1, <3>2, <3>3, <3>4, <3>5 DEF StageTold
  <2> QED BY <2>1, <2>2
<1>8. ASSUME NEW p \in Requests, NEW q \in Requests, NEW s \in SnapshotIds,
             Copies(stage'[p], s), Copies(stage'[q], s)
      PROVE  p = q
  <2>1. CASE s = u
    BY <1>8, <2>1
  <2>2. CASE s # u
    <3>1. Copies(stage[p], s) /\ Copies(stage[q], s)
      BY <1>8, <2>2
    <3> QED BY <3>1 DEF Consistent
  <2> QED BY <2>1, <2>2
<1> HIDE DEF L
<1> QED
  <2>1. Consistent(D)' <=>
          /\ D \in Contents
          /\ \A s \in SnapshotIds : Told(D, L, D[s]) /\ (D[s] # <<>> => s < nextSnapshot')
          /\ DiskTold(D, L, nextSnapshot', disk')
          /\ Told(D, L, rows')
          /\ \A s \in DOMAIN snapshots' : IsContent(D, L, s, snapshots'[s].files)
          /\ \A q \in Requests : StageTold(D, L, stage'[q])
          /\ \A p, q \in Requests, s \in SnapshotIds :
               Copies(stage'[p], s) /\ Copies(stage'[q], s) => p = q
    BY DEF Consistent, L, Contents, Told, Belongs, Distinct, DiskTold, IsContent, StageTold, Copies
  <2> QED BY <1>6, <1>7, <1>8, <2>1 DEF L

\* A step of r that leaves the contents as they are.
LEMMA CalmStep ==
  ASSUME TypeInv, TypeInv', NEW C, Consistent(C), NEW r \in Requests,
         \A q \in Requests \ {r} : stage'[q] = stage[q],
         \A t \in SnapshotIds : Copies(stage'[r], t) <=> Copies(stage[r], t),
         nextSnapshot' = nextSnapshot,
         DiskTold(C, Copying, nextSnapshot, disk'),
         Told(C, Copying, rows'),
         \A s \in DOMAIN snapshots' : IsContent(C, Copying, s, snapshots'[s].files),
         StageTold(C, Copying, stage'[r])
  PROVE  Consistent(C)'
<1>1. Copying' = Copying
  <2>1. \A t \in SnapshotIds, q \in Requests : Copies(stage'[q], t) <=> Copies(stage[q], t)
    OBVIOUS
  <2>2. Copying' = {s \in SnapshotIds : \E q \in Requests : Copies(stage'[q], s)}
    BY DEF Copying, Copies
  <2> QED BY <2>1, <2>2 DEF Copying
<1>2. 0 \notin SnapshotIds
  BY DEF SnapshotIds
<1>3. nextSnapshot' >= nextSnapshot
  BY DEF TypeInv, TypeOK
<1>4. C \in Contents
  BY DEF Consistent
<1> QED BY <1>1, <1>2, <1>3, <1>4, StepKeepsContent

LEMMA ToldFewer ==
  ASSUME NEW C, NEW K, NEW f \in Rows, NEW I, Told(C, K, f)
  PROVE  Told(C, K, Without(f, I))
<1>1. /\ DOMAIN Without(f, I) = DOMAIN f \ I
      /\ \A i \in DOMAIN f \ I : Without(f, I)[i] = f[i]
  BY WithoutRows
<1> QED BY <1>1 DEF Told

LEMMA ToldMerged ==
  ASSUME NEW C, NEW K, NEW f \in Rows, NEW g \in Rows, Told(C, K, f), Told(C, K, g)
  PROVE  Told(C, K, Merged(f, g))
<1>1. /\ DOMAIN Merged(f, g) = DOMAIN f \cup DOMAIN g
      /\ \A i \in DOMAIN g : Merged(f, g)[i] = g[i]
      /\ \A i \in DOMAIN f \ DOMAIN g : Merged(f, g)[i] = f[i]
  BY MergedRows
<1> QED BY <1>1 DEF Told

LEMMA ToldDiskFewer ==
  ASSUME NEW C, NEW K, NEW n, NEW d, NEW P, DiskTold(C, K, n, d)
  PROVE  DiskTold(C, K, n, Without(d, P))
<1>1. /\ DOMAIN Without(d, P) = DOMAIN d \ P
      /\ \A y \in DOMAIN d \ P : Without(d, P)[y] = d[y]
  BY DiskLoses
<1> QED BY <1>1 DEF DiskTold

\* One path is written.
LEMMA ToldDiskMore ==
  ASSUME NEW C, NEW K, NEW n, NEW d, NEW p, NEW b, DiskTold(C, K, n, d),
         \A c : Belongs(C, K, p, c) => b = c,
         p.dir = "restore" => p.of < n /\ p.of \notin K
  PROVE  DiskTold(C, K, n, With(d, p, b))
<1>1. /\ DOMAIN With(d, p, b) = DOMAIN d \cup {p}
      /\ With(d, p, b)[p] = b
      /\ \A y \in DOMAIN d \ {p} : With(d, p, b)[y] = d[y]
  BY DEF With, Merged
<1>2. ASSUME NEW y \in DOMAIN d \cup {p}
      PROVE  /\ \A c : Belongs(C, K, y, c) => With(d, p, b)[y] = c
             /\ y.dir = "restore" => y.of < n /\ y.of \notin K
  <2>1. CASE y = p
    BY <1>1, <2>1
  <2>2. CASE y # p
    BY <1>1, <1>2, <2>2 DEF DiskTold
  <2> QED BY <2>1, <2>2
<1> QED BY <1>1, <1>2 DEF DiskTold

\* Steps that leave the snapshots and their creation alone.
LEMMA PlainSteps ==
  ASSUME TypeInv, TypeInv', NEW C, Consistent(C), NEW r \in Requests, NEW s, Becomes(r, s),
         UNCHANGED <<snapshots, nextSnapshot>>,
         stage[r] # None => stage[r].at \notin {"list", "copy"},
         s # None => s.at \notin {"list", "copy"},
         DiskTold(C, Copying, nextSnapshot, disk'),
         Told(C, Copying, rows'),
         StageTold(C, Copying, s)
  PROVE  Consistent(C)'
<1>1. stage'[r] = s /\ \A q \in Requests \ {r} : stage'[q] = stage[q]
  BY SetsAfter
<1>2. \A t \in SnapshotIds : Copies(stage'[r], t) <=> Copies(stage[r], t)
  BY <1>1 DEF Copies
<1>3. \A t \in DOMAIN snapshots' : IsContent(C, Copying, t, snapshots'[t].files)
  BY DEF Consistent
<1> QED BY <1>1, <1>2, <1>3, CalmStep

LEMMA UploadContent ==
  ASSUME TypeInv, TypeInv', NEW C, Consistent(C), NEW r \in Requests,
         BeginUpload(r) \/ StageUpload(r) \/ CommitUpload(r) \/ FailUpload(r) \/ UnlinkOne(r)
  PROVE  Consistent(C)'
<1> DEFINE K == Copying
<1>1. /\ DiskTold(C, K, nextSnapshot, disk) /\ Told(C, K, rows) /\ rows \in Rows
      /\ stage[r] \in Stage \cup {None}
  BY DEF Consistent, TypeInv, TypeOK
<1>2. \A i : \A c : Belongs(C, K, Uploaded(i), c) => i = c
  BY PathParts DEF Belongs
<1>3. \A P : DiskTold(C, K, nextSnapshot, Without(disk, P))
  BY <1>1, ToldDiskFewer
<1>4. \A P : /\ Unlinking(P) # None => Unlinking(P).at = "unlink"
             /\ StageTold(C, K, Unlinking(P))
  BY DEF Unlinking, StageTold
<1> HIDE DEF K
<1>5. CASE BeginUpload(r)
  <2>1. PICK s : s.at = "upload" /\ Becomes(r, s)
    BY <1>5 DEF BeginUpload
  <2>2. UNCHANGED <<rows, disk, snapshots, nextSnapshot>> /\ stage[r] = None
    BY <1>5 DEF BeginUpload, Idle
  <2>3. StageTold(C, K, s)
    BY <2>1 DEF StageTold
  <2> QED BY <1>1, <2>1, <2>2, <2>3, PlainSteps DEF K
<1>6. CASE StageUpload(r)
  <2>1. stage[r] # None /\ stage[r].at = "upload" /\ stage[r] \in UploadStage
    BY <1>1, <1>6, StageTypes DEF StageUpload, At
  <2>2. PICK i : /\ disk' = With(disk, Uploaded(i), i)
                 /\ Becomes(r, [stage[r] EXCEPT !.staged = @ \cup {i}])
    BY <1>6 DEF StageUpload
  <2> DEFINE s == [stage[r] EXCEPT !.staged = @ \cup {i}]
  <2>3. s.at = "upload" /\ Becomes(r, s)
    BY <2>1, <2>2 DEF UploadStage
  <2> HIDE DEF s
  <2>4. UNCHANGED <<rows, snapshots, nextSnapshot>>
    BY <1>6 DEF StageUpload, counters
  <2>5. Uploaded(i).dir = "uploads"
    BY PathParts
  <2>6. DiskTold(C, K, nextSnapshot, disk')
    BY <1>1, <1>2, <2>2, <2>5, ToldDiskMore
  <2>7. StageTold(C, K, s)
    BY <2>3 DEF StageTold
  <2> QED BY <1>1, <2>1, <2>3, <2>4, <2>6, <2>7, PlainSteps DEF K
<1>7. CASE CommitUpload(r)
  <2> DEFINE new == [i \in stage[r].staged |->
                       [name |-> stage[r].names[i], path |-> Uploaded(i), bytes |-> i]]
             P == PathsOf(Restrict(rows, Replaced(r)))
  <2>1. /\ stage[r] # None /\ stage[r].at = "upload" /\ stage[r] \in UploadStage
        /\ stage[r].staged = DOMAIN stage[r].names
    BY <1>1, <1>7, StageTypes DEF CommitUpload, At
  <2>2. /\ rows' = Merged(Without(rows, Replaced(r)), new)
        /\ Becomes(r, Unlinking(P)) /\ UNCHANGED <<disk, snapshots, nextSnapshot>>
    BY <1>7 DEF CommitUpload, counters
  <2>3. new \in Rows
    <3>1. stage[r].staged \in SUBSET Ids
      BY <2>1 DEF UploadStage
    <3>2. \A i \in stage[r].staged : stage[r].names[i] \in Names
      BY <2>1 DEF UploadStage
    <3>3. \A i \in stage[r].staged : new[i] \in File
      BY <3>1, <3>2, PathTypes DEF File
    <3>4. new = [i \in stage[r].staged |-> new[i]]
      OBVIOUS
    <3> HIDE DEF new
    <3> QED BY <3>1, <3>3, <3>4, RowsTypes
  <2>4. Told(C, K, new)
    BY PathParts DEF Told, Belongs
  <2> HIDE DEF new, P
  <2>5. Without(rows, Replaced(r)) \in Rows /\ Told(C, K, Without(rows, Replaced(r)))
    BY <1>1, WithoutRows, ToldFewer
  <2>6. Told(C, K, rows')
    BY <2>2, <2>3, <2>4, <2>5, ToldMerged
  <2>7. StageTold(C, K, Unlinking(P)) /\ (Unlinking(P) # None => Unlinking(P).at = "unlink")
    BY <1>4
  <2> QED BY <1>1, <2>1, <2>2, <2>6, <2>7, PlainSteps DEF K
<1>8. CASE FailUpload(r)
  <2>1. /\ stage[r] # None /\ stage[r].at = "upload" /\ Becomes(r, None)
        /\ \E P : disk' = Without(disk, P)
        /\ UNCHANGED <<rows, snapshots, nextSnapshot>>
    BY <1>8 DEF FailUpload, Removes, At, counters
  <2>2. StageTold(C, K, None)
    BY DEF StageTold
  <2> QED BY <1>1, <1>3, <2>1, <2>2, PlainSteps DEF K
<1>9. CASE UnlinkOne(r)
  <2>1. PICK p : Becomes(r, Unlinking(stage[r].paths \ {p})) /\ \E Q : disk' = Without(disk, Q)
    BY <1>9 DEF UnlinkOne, Removes
  <2>2. /\ stage[r] # None /\ stage[r].at = "unlink"
        /\ UNCHANGED <<rows, snapshots, nextSnapshot>>
    BY <1>9 DEF UnlinkOne, At, counters
  <2> DEFINE P == stage[r].paths \ {p}
  <2>3. StageTold(C, K, Unlinking(P)) /\ (Unlinking(P) # None => Unlinking(P).at = "unlink")
    BY <1>4
  <2> HIDE DEF P
  <2> QED BY <1>1, <1>3, <2>1, <2>2, <2>3, PlainSteps DEF K, P
<1> QED BY <1>5, <1>6, <1>7, <1>8, <1>9

LEMMA RowContent ==
  ASSUME TypeInv, TypeInv', NEW C, Consistent(C), NEW r \in Requests,
         BeginDelete(r) \/ DeleteRows(r) \/ BeginValidation(r) \/ SaveValidation(r)
  PROVE  Consistent(C)'
<1> DEFINE K == Copying
<1>1. /\ DiskTold(C, K, nextSnapshot, disk) /\ Told(C, K, rows) /\ rows \in Rows
      /\ stage[r] \in Stage \cup {None} /\ StageTold(C, K, stage[r])
  BY DEF Consistent, TypeInv, TypeOK
<1>2. \A P : /\ Unlinking(P) # None => Unlinking(P).at = "unlink"
             /\ StageTold(C, K, Unlinking(P))
  BY DEF Unlinking, StageTold
<1> HIDE DEF K
<1>3. CASE BeginDelete(r)
  <2>1. PICK s : s.at = "delete" /\ Becomes(r, s)
    BY <1>3 DEF BeginDelete
  <2>2. UNCHANGED <<rows, disk, snapshots, nextSnapshot>> /\ stage[r] = None
    BY <1>3 DEF BeginDelete, Idle, counters
  <2>3. StageTold(C, K, s)
    BY <2>1 DEF StageTold
  <2> QED BY <1>1, <2>1, <2>2, <2>3, PlainSteps DEF K
<1>4. CASE DeleteRows(r)
  <2> DEFINE P == PathsOf(stage[r].rows)
  <2>1. /\ stage[r] # None /\ stage[r].at = "delete"
        /\ \E I : rows' = Without(rows, I)
        /\ Becomes(r, Unlinking(P)) /\ UNCHANGED <<disk, snapshots, nextSnapshot>>
    BY <1>4 DEF DeleteRows, At, counters
  <2> HIDE DEF P
  <2>2. Told(C, K, rows')
    BY <1>1, <2>1, ToldFewer
  <2>3. StageTold(C, K, Unlinking(P)) /\ (Unlinking(P) # None => Unlinking(P).at = "unlink")
    BY <1>2
  <2> QED BY <1>1, <2>1, <2>2, <2>3, PlainSteps DEF K
<1>5. CASE BeginValidation(r)
  <2> DEFINE s == [at |-> "validate", rows |-> rows]
  <2>1. Becomes(r, s) /\ s.at = "validate" /\ s.rows = rows
    BY <1>5 DEF BeginValidation
  <2>2. UNCHANGED <<rows, disk, snapshots, nextSnapshot>> /\ stage[r] = None
    BY <1>5 DEF BeginValidation, Idle, counters
  <2> HIDE DEF s
  <2>3. StageTold(C, K, s)
    BY <1>1, <2>1 DEF StageTold
  <2> QED BY <1>1, <2>1, <2>2, <2>3, PlainSteps DEF K
<1>6. CASE SaveValidation(r)
  <2>1. /\ stage[r] # None /\ stage[r].at = "validate" /\ Becomes(r, None)
        /\ rows' = Merged(stage[r].rows, rows) /\ UNCHANGED <<disk, snapshots, nextSnapshot>>
    BY <1>6 DEF SaveValidation, At, counters
  <2>2. stage[r].rows \in Rows /\ Told(C, K, stage[r].rows)
    BY <1>1, <2>1, StageTypes DEF StageTold
  <2>3. Told(C, K, rows')
    BY <1>1, <2>1, <2>2, ToldMerged
  <2>4. StageTold(C, K, None)
    BY DEF StageTold
  <2> QED BY <1>1, <2>1, <2>3, <2>4, PlainSteps DEF K
<1> QED BY <1>3, <1>4, <1>5, <1>6

LEMMA SnapshotContent ==
  ASSUME TypeInv, TypeInv', NEW C, Consistent(C), NEW r \in Requests,
         BeginSnapshot(r) \/ DeleteSnapshot(r) \/ PurgeSnapshot(r) \/ ListRows(r)
  PROVE  Consistent(C)'
<1> DEFINE K == Copying
<1>1. /\ DiskTold(C, K, nextSnapshot, disk) /\ Told(C, K, rows) /\ rows \in Rows
      /\ stage[r] \in Stage \cup {None} /\ StageTold(C, K, stage[r])
      /\ \A t \in DOMAIN snapshots : IsContent(C, K, t, snapshots[t].files)
  BY DEF Consistent, TypeInv, TypeOK
<1> HIDE DEF K
<1>2. CASE BeginSnapshot(r)
  <2>1. PICK s : s.at = "snapshot" /\ Becomes(r, s)
    BY <1>2 DEF BeginSnapshot
  <2>2. UNCHANGED <<rows, disk, snapshots, nextSnapshot>> /\ stage[r] = None
    BY <1>2 DEF BeginSnapshot, Idle, counters
  <2>3. StageTold(C, K, s)
    BY <2>1 DEF StageTold
  <2> QED BY <1>1, <2>1, <2>2, <2>3, PlainSteps DEF K
<1>3. CASE DeleteSnapshot(r)
  <2>1. PICK t : /\ snapshots' = Without(snapshots, {t})
                 /\ Becomes(r, [at |-> "purge", snapshot |-> t])
    BY <1>3 DEF DeleteSnapshot
  <2> DEFINE s == [at |-> "purge", snapshot |-> t]
  <2>2. UNCHANGED <<rows, disk, nextSnapshot>> /\ stage[r] = None
    BY <1>3 DEF DeleteSnapshot, Idle, counters
  <2>3. s.at = "purge" /\ Becomes(r, s)
    BY <2>1
  <2> HIDE DEF s
  <2>4. stage'[r] = s /\ \A q \in Requests \ {r} : stage'[q] = stage[q]
    BY <2>3, SetsAfter
  <2>5. \A y \in SnapshotIds : Copies(stage'[r], y) <=> Copies(stage[r], y)
    BY <2>2, <2>3, <2>4 DEF Copies
  <2>6. \A y \in DOMAIN snapshots' : y \in DOMAIN snapshots /\ snapshots'[y] = snapshots[y]
    <3>1. /\ DOMAIN snapshots' = DOMAIN snapshots \ {t}
          /\ \A y \in DOMAIN snapshots \ {t} : snapshots'[y] = snapshots[y]
      BY <2>1, DiskLoses
    <3> QED BY <3>1
  <2>7. StageTold(C, K, stage'[r])
    BY <2>3, <2>4 DEF StageTold
  <2>8. \A y \in DOMAIN snapshots' : IsContent(C, K, y, snapshots'[y].files)
    BY <1>1, <2>6
  <2> QED BY <1>1, <2>2, <2>4, <2>5, <2>7, <2>8, CalmStep DEF K
<1>4. CASE PurgeSnapshot(r)
  <2>1. /\ stage[r] # None /\ stage[r].at = "purge" /\ Becomes(r, None)
        /\ \E P : disk' = Without(disk, P)
        /\ UNCHANGED <<rows, snapshots, nextSnapshot>>
    BY <1>4 DEF PurgeSnapshot, Removes, At, counters
  <2>2. StageTold(C, K, None)
    BY DEF StageTold
  <2>3. DiskTold(C, K, nextSnapshot, disk')
    BY <1>1, <2>1, ToldDiskFewer
  <2> QED BY <1>1, <2>1, <2>2, <2>3, PlainSteps DEF K
<1>5. CASE ListRows(r)
  <2> DEFINE s == [at |-> "copy", snapshot |-> stage[r].snapshot, rows |-> rows, files |-> <<>>]
  <2>1. /\ stage[r] # None /\ stage[r].at = "list" /\ Becomes(r, s)
        /\ UNCHANGED <<rows, disk, snapshots, nextSnapshot>>
    BY <1>5 DEF ListRows, At, counters
  <2>2. s \in CopyStage
    BY <1>1, <2>1, StageTypes, RowsTypes DEF CopyStage
  <2>3. s # None
    BY <2>2, StagesExist, NoneAssumption
  <2>4. s.at = "copy" /\ s.snapshot = stage[r].snapshot /\ s.rows = rows /\ s.files = <<>>
    OBVIOUS
  <2> HIDE DEF s
  <2>5. stage'[r] = s /\ \A q \in Requests \ {r} : stage'[q] = stage[q]
    BY <2>1, SetsAfter
  <2>6. \A y \in SnapshotIds : Copies(stage'[r], y) <=> Copies(stage[r], y)
    BY <2>1, <2>3, <2>4, <2>5 DEF Copies
  <2>7. StageTold(C, K, stage'[r])
    BY <1>1, <2>1, <2>4, <2>5 DEF StageTold
  <2> QED BY <1>1, <2>1, <2>5, <2>6, <2>7, CalmStep DEF K
<1> QED BY <1>2, <1>3, <1>4, <1>5

LEMMA ReadingRestoreContent ==
  ASSUME TypeInv, TypeInv', NEW C, Consistent(C), NEW r \in Requests,
         BeginRestore(r) \/ RestoreIndex(r) \/ FailRestore(r)
  PROVE  Consistent(C)'
<1> DEFINE K == Copying
<1>1. /\ DiskTold(C, K, nextSnapshot, disk) /\ Told(C, K, rows) /\ rows \in Rows
      /\ stage[r] \in Stage \cup {None} /\ StageTold(C, K, stage[r])
      /\ \A t \in DOMAIN snapshots : IsContent(C, K, t, snapshots[t].files)
  BY DEF Consistent, TypeInv, TypeOK
<1> HIDE DEF K
<1>2. CASE BeginRestore(r)
  <2>1. PICK t \in DOMAIN snapshots :
          Becomes(r, [at |-> "restore", snapshot |-> t, index |-> snapshots[t].index,
                      files |-> snapshots[t].files])
    BY <1>2 DEF BeginRestore
  <2> DEFINE s == [at |-> "restore", snapshot |-> t, index |-> snapshots[t].index,
                   files |-> snapshots[t].files]
  <2>2. UNCHANGED <<rows, disk, snapshots, nextSnapshot>> /\ stage[r] = None
    BY <1>2 DEF BeginRestore, Idle, counters
  <2>3. s.at = "restore" /\ s.snapshot = t /\ s.files = snapshots[t].files /\ Becomes(r, s)
    BY <2>1
  <2> HIDE DEF s
  <2>4. StageTold(C, K, s)
    BY <1>1, <2>3 DEF StageTold
  <2> QED BY <1>1, <2>2, <2>3, <2>4, PlainSteps DEF K
<1>3. CASE RestoreIndex(r)
  <2> DEFINE s == [at |-> "fetch", snapshot |-> stage[r].snapshot, files |-> stage[r].files,
                   fetched |-> {}]
  <2>1. /\ stage[r] # None /\ stage[r].at = "restore" /\ Becomes(r, s)
        /\ UNCHANGED <<rows, disk, snapshots, nextSnapshot>>
    BY <1>3 DEF RestoreIndex, At, counters
  <2>2. s.at = "fetch" /\ s.snapshot = stage[r].snapshot /\ s.files = stage[r].files
        /\ s.fetched = {}
    OBVIOUS
  <2> HIDE DEF s
  <2>3. StageTold(C, K, s)
    BY <1>1, <2>1, <2>2 DEF StageTold, Distinct
  <2> QED BY <1>1, <2>1, <2>2, <2>3, PlainSteps DEF K
<1>4. CASE FailRestore(r)
  <2>1. /\ stage[r] # None /\ stage[r].at = "fetch" /\ Becomes(r, None)
        /\ \E P : disk' = Without(disk, P)
        /\ UNCHANGED <<rows, snapshots, nextSnapshot>>
    BY <1>4, FailedRestore DEF counters
  <2>2. StageTold(C, K, None)
    BY DEF StageTold
  <2>3. DiskTold(C, K, nextSnapshot, disk')
    BY <1>1, <2>1, ToldDiskFewer
  <2> QED BY <1>1, <2>1, <2>2, <2>3, PlainSteps DEF K
<1> QED BY <1>2, <1>3, <1>4

\* A file is copied back to the path of its name.
LEMMA FetchContent ==
  ASSUME TypeInv, TypeInv', NEW C, Consistent(C), NEW r \in Requests, FetchFile(r), ~ambiguous'
  PROVE  Consistent(C)'
<1> DEFINE K == Copying
           files == stage[r].files
           u == stage[r].snapshot
<1>1. /\ DiskTold(C, K, nextSnapshot, disk) /\ Told(C, K, rows) /\ rows \in Rows
      /\ stage[r] \in FetchStage /\ stage[r] # None /\ stage[r].at = "fetch"
      /\ StageTold(C, K, stage[r]) /\ C \in Contents
  BY StageTypes DEF Consistent, TypeInv, TypeOK, FetchFile, At
<1>2. PICK i \in DOMAIN files \ stage[r].fetched :
        /\ files[i].path \in DOMAIN disk
        /\ disk' = With(disk, Restored(u, files[i].name), disk[files[i].path])
        /\ ambiguous' = (ambiguous \/ \E j \in stage[r].fetched : files[j].name = files[i].name)
        /\ Becomes(r, [stage[r] EXCEPT !.fetched = @ \cup {i}])
  BY DEF FetchFile
<1> DEFINE s == [stage[r] EXCEPT !.fetched = @ \cup {i}]
           path == Restored(u, files[i].name)
<1>3. /\ s.at = "fetch" /\ s.snapshot = u /\ s.files = files
      /\ s.fetched = stage[r].fetched \cup {i} /\ Becomes(r, s)
  BY <1>1, <1>2 DEF FetchStage
<1>4. UNCHANGED <<rows, snapshots, nextSnapshot>>
  BY DEF FetchFile, counters
<1>5. u \in SnapshotIds /\ files \in Rows
  BY <1>1 DEF FetchStage
<1>6. files = C[u] /\ u \notin K
  BY <1>1, <1>2, RowsTypes DEF StageTold, IsContent
<1>7. C[u] # <<>> /\ u < nextSnapshot /\ Told(C, K, C[u])
  BY <1>2, <1>5, <1>6, RowsTypes DEF Consistent
<1> HIDE DEF K, s
<1>8. disk[files[i].path] = files[i].bytes
  BY <1>1, <1>2, <1>6, <1>7 DEF Told, DiskTold
<1>9. path.dir = "restore" /\ path.of = u /\ path.key = files[i].name
  BY PathParts
<1>10. \A c : Belongs(C, K, path, c) => files[i].bytes = c
  <2> SUFFICES ASSUME NEW c, Belongs(C, K, path, c) PROVE files[i].bytes = c
    OBVIOUS
  <2>1. /\ Distinct(C[u], DOMAIN C[u])
        /\ \E j \in DOMAIN C[u] : C[u][j].name = files[i].name /\ C[u][j].bytes = c
    BY <1>9 DEF Belongs
  <2> QED BY <1>2, <1>6, <2>1 DEF Distinct
<1> HIDE DEF path
<1>11. DiskTold(C, K, nextSnapshot, disk')
  <2>1. disk' = With(disk, path, files[i].bytes)
    BY <1>2, <1>8 DEF path
  <2> QED BY <1>1, <1>6, <1>7, <1>9, <1>10, <2>1, ToldDiskMore
<1>12. StageTold(C, K, s)
  <2>1. \A j \in stage[r].fetched : files[j].name # files[i].name
    BY <1>2
  <2>2. Distinct(files, stage[r].fetched) /\ stage[r].fetched \subseteq DOMAIN files
    BY <1>1 DEF StageTold
  <2>3. Distinct(files, s.fetched)
    BY <1>3, <2>1, <2>2 DEF Distinct
  <2>4. s.fetched \subseteq DOMAIN files
    BY <1>3, <2>2
  <2>5. IsContent(C, K, u, files)
    BY <1>6 DEF IsContent
  <2> QED BY <1>3, <2>3, <2>4, <2>5 DEF StageTold
<1>13. Told(C, K, rows')
  BY <1>1, <1>4
<1> QED BY <1>1, <1>3, <1>4, <1>11, <1>12, <1>13, PlainSteps DEF K

LEMMA RestoreContent ==
  ASSUME TypeInv, TypeInv', NEW C, Consistent(C), NEW r \in Requests,
         ClearRows(r) \/ InsertRows(r)
  PROVE  Consistent(C)'
<1> DEFINE K == Copying
<1>1. /\ DiskTold(C, K, nextSnapshot, disk) /\ Told(C, K, rows) /\ rows \in Rows
      /\ stage[r] \in Stage \cup {None} /\ StageTold(C, K, stage[r])
  BY DEF Consistent, TypeInv, TypeOK
<1> HIDE DEF K
<1>2. CASE ClearRows(r)
  <2> DEFINE n == Cardinality(DOMAIN stage[r].files)
             s == IF n = 0 THEN None
                  ELSE [at |-> "insert", snapshot |-> stage[r].snapshot,
                        files |-> stage[r].files, ids |-> nextFile..(nextFile + n - 1)]
  <2>1. /\ stage[r] # None /\ stage[r].at = "fetch" /\ Becomes(r, s) /\ rows' = <<>>
        /\ stage[r].fetched = DOMAIN stage[r].files
        /\ UNCHANGED <<disk, snapshots, nextSnapshot>>
    BY <1>2 DEF ClearRows, At
  <2>2. s # None => s.at = "insert" /\ s.snapshot = stage[r].snapshot /\ s.files = stage[r].files
    <3> HIDE DEF n
    <3> QED OBVIOUS
  <2> HIDE DEF s
  <2>3. StageTold(C, K, s)
    BY <1>1, <2>1, <2>2 DEF StageTold
  <2>4. Told(C, K, rows')
    BY <2>1, RowsTypes DEF Told
  <2> QED BY <1>1, <2>1, <2>2, <2>3, <2>4, PlainSteps DEF K
<1>3. CASE InsertRows(r)
  <2> DEFINE files == stage[r].files
             u == stage[r].snapshot
  <2>1. /\ stage[r] # None /\ stage[r].at = "insert" /\ Becomes(r, None)
        /\ UNCHANGED <<disk, snapshots, nextSnapshot>>
    BY <1>3 DEF InsertRows, At, counters
  <2>2. stage[r] \in InsertStage
    BY <1>1, <2>1, StageTypes
  <2>3. PICK new \in Rows : /\ DOMAIN new = stage[r].ids /\ rows' = Merged(rows, new)
                            /\ \A i \in stage[r].ids : \E j \in DOMAIN files :
                                 new[i] = RestoredFile(u, files[j])
    BY <1>3, InsertTypes
  <2>4. IsContent(C, K, u, files) /\ Distinct(files, DOMAIN files) /\ u \in SnapshotIds
        /\ files \in Rows
    BY <1>1, <2>1, <2>2 DEF StageTold, InsertStage
  <2>5. ASSUME NEW i \in DOMAIN new
        PROVE  Belongs(C, K, new[i].path, new[i].bytes)
    <3>1. PICK j \in DOMAIN files : new[i] = RestoredFile(u, files[j])
      BY <2>3
    <3>2. files[j] \in File
      BY <2>4, RowsTypes
    <3>3. new[i].path = Restored(u, files[j].name) /\ new[i].bytes = files[j].bytes
      BY <3>1, <3>2 DEF RestoredFile, File
    <3>4. files = C[u] /\ u \notin K
      BY <2>4, <3>1, RowsTypes DEF IsContent
    <3>5. new[i].path.dir = "restore" /\ new[i].path.of = u /\ new[i].path.key = files[j].name
      BY <3>3, PathParts
    <3> HIDE DEF files, u
    <3> QED BY <2>4, <3>1, <3>3, <3>4, <3>5 DEF Belongs
  <2>6. Told(C, K, new)
    BY <2>5 DEF Told
  <2>7. Told(C, K, rows')
    BY <1>1, <2>3, <2>6, ToldMerged
  <2>8. StageTold(C, K, None)
    BY DEF StageTold
  <2> QED BY <1>1, <2>1, <2>7, <2>8, PlainSteps DEF K
<1> QED BY <1>2, <1>3

\* Who is creating snapshots after a step of r.
LEMMA CopyingAfter ==
  ASSUME NEW r \in Requests, \A q \in Requests \ {r} : stage'[q] = stage[q]
  PROVE  \A t \in SnapshotIds :
           t \in Copying' <=> Copies(stage'[r], t) \/ \E q \in Requests \ {r} : Copies(stage[q], t)
<1>1. Copying' = {s \in SnapshotIds : \E q \in Requests : Copies(stage'[q], s)}
  BY DEF Copying, Copies
<1> QED BY <1>1

\* The creation of a snapshot begins with no content and ends with what was copied.
LEMMA CreationContent ==
  ASSUME Inv, TypeInv', NEW C, Consistent(C), NEW r \in Requests,
         SaveSnapshot(r) \/ SaveSnapshotFiles(r)
  PROVE  Consistent(C)'
<1> DEFINE K == Copying
           L == Copying'
<1>1. /\ DiskTold(C, K, nextSnapshot, disk) /\ Told(C, K, rows) /\ rows \in Rows
      /\ stage[r] \in Stage \cup {None} /\ StageTold(C, K, stage[r]) /\ C \in Contents
      /\ \A t \in DOMAIN snapshots : IsContent(C, K, t, snapshots[t].files)
      /\ \A t \in SnapshotIds : Told(C, K, C[t]) /\ (C[t] # <<>> => t < nextSnapshot)
      /\ \A t \in DOMAIN snapshots : snapshots[t] \in Snapshot
      /\ DOMAIN snapshots \subseteq SnapshotIds /\ nextSnapshot \in Nat /\ SnapshotIds \subseteq Nat
      /\ disk \in [DOMAIN disk -> Ids] \/ DOMAIN disk \subseteq Paths
  BY DEF Consistent, Inv, TypeInv, TypeOK, SnapshotIds
<1>2. K = {t \in SnapshotIds : \E q \in Requests : Copies(stage[q], t)}
  BY DEF Copying
<1>3. CASE SaveSnapshot(r)
  <2> DEFINE u == nextSnapshot
             s == [at |-> "list", snapshot |-> u]
             new == [version |-> stage[r].version, index |-> stage[r].index, files |-> <<>>]
  <2>1. /\ stage[r] # None /\ stage[r].at = "snapshot" /\ Becomes(r, s)
        /\ snapshots' = With(snapshots, u, new) /\ nextSnapshot' = u + 1 /\ u <= MaxSnapshots
        /\ UNCHANGED <<rows, disk>>
    BY <1>3 DEF SaveSnapshot, At
  <2>2. s.at = "list" /\ s.snapshot = u /\ new.files = <<>>
    OBVIOUS
  <2> HIDE DEF s, new
  <2>3. stage'[r] = s /\ \A q \in Requests \ {r} : stage'[q] = stage[q]
    BY <2>1, SetsAfter DEF Inv
  <2>4. u \in SnapshotIds /\ C[u] = <<>>
    <3>1. u \in SnapshotIds
      BY <2>1, PackageFilesAssumption DEF SnapshotIds, Inv, TypeInv, TypeOK
    <3> QED BY <1>1, <3>1
  <2>5. \A q \in Requests : ~Copies(stage[q], u)
    <3>1. ASSUME NEW q \in Requests, Copies(stage[q], u) PROVE FALSE
      <4>1. (At(q, "list") \/ At(q, "copy")) /\ stage[q].snapshot = u
        BY <3>1 DEF Copies, At
      <4>2. u < nextSnapshot
        BY <4>1 DEF Inv, SnapshotsFit
      <4> QED BY <1>1, <4>2
    <3> QED BY <3>1
  <2>6. \A t \in SnapshotIds \ {u} : Copies(stage'[r], t) <=> Copies(stage[r], t)
    BY <2>1, <2>2, <2>3 DEF Copies
  <2>7. \A t \in SnapshotIds \ {u} : t \in L <=> t \in K
    BY <1>2, <2>3, <2>6, CopyingAfter
  <2>8. K \subseteq L
    BY <1>2, <2>5, <2>7
  <2> HIDE DEF K, L
  <2>9. /\ \A p, b : Belongs(C, K, p, b) => Belongs(C, L, p, b)
        /\ \A t \in SnapshotIds : \A f : IsContent(C, K, t, f) => IsContent(C, L, t, f)
    BY <1>1, <2>4, <2>7, ContentGrows
  <2>10. \A p, b : Belongs(C, L, p, b) => Belongs(C, K, p, b)
    BY <2>8 DEF Belongs
  <2>11. DiskTold(C, L, nextSnapshot', disk')
    <3>1. ASSUME NEW p \in DOMAIN disk, p.dir = "restore"
          PROVE  p.of < nextSnapshot' /\ p.of \notin L
      <4>1. p.of < nextSnapshot /\ p.of \notin K
        BY <1>1, <3>1 DEF DiskTold
      <4>2. p.of \in SnapshotIds
        BY <3>1, PathParts DEF Inv, TypeInv, TypeOK
      <4> QED BY <1>1, <2>1, <2>7, <4>1, <4>2
    <3> QED BY <1>1, <2>1, <2>10, <3>1 DEF DiskTold
  <2>12. Told(C, L, rows') /\ Told(C, L, C[u])
    BY <1>1, <2>1, <2>4, <2>9 DEF Told
  <2>13. \A t \in DOMAIN snapshots' : IsContent(C, L, t, snapshots'[t].files)
    <3>1. /\ DOMAIN snapshots' = DOMAIN snapshots \cup {u} /\ snapshots'[u] = new
          /\ \A t \in DOMAIN snapshots \ {u} : snapshots'[t] = snapshots[t]
      BY <2>1 DEF With, Merged
    <3>2. IsContent(C, L, u, <<>>)
      BY DEF IsContent
    <3> QED BY <1>1, <2>2, <2>9, <3>1, <3>2
  <2>14. StageTold(C, L, stage'[r])
    BY <2>2, <2>3, <2>4 DEF StageTold
  <2>15. nextSnapshot' >= nextSnapshot
    BY <1>1, <2>1
  <2>16. TypeInv
    BY DEF Inv
  <2> HIDE DEF u
  <2> QED BY <1>1, <2>3, <2>4, <2>5, <2>6, <2>11, <2>12, <2>13, <2>14, <2>15, <2>16,
             StepKeepsContent DEF L
<1>4. CASE SaveSnapshotFiles(r)
  <2> DEFINE u == stage[r].snapshot
  <2>1. /\ stage[r] # None /\ stage[r].at = "copy" /\ At(r, "copy") /\ Becomes(r, None)
        /\ \/ UNCHANGED snapshots
           \/ snapshots' = [snapshots EXCEPT ![u].files = stage[r].files]
        /\ UNCHANGED <<rows, disk, nextSnapshot>>
    BY <1>4 DEF SaveSnapshotFiles, At, counters
  <2>2. stage'[r] = None /\ \A q \in Requests \ {r} : stage'[q] = stage[q]
    BY <2>1, SetsAfter DEF Inv
  <2>3. u \in SnapshotIds /\ Copies(stage[r], u) /\ u \in K
    <3>1. u \in SnapshotIds
      BY <1>1, <2>1, StageSnapshots
    <3> QED BY <1>2, <2>1, <3>1 DEF Copies
  <2>4. C[u] = stage[r].files /\ u < nextSnapshot
    BY <1>1, <2>1 DEF StageTold, Inv, SnapshotsFit
  <2>5. \A q \in Requests \ {r} : ~Copies(stage[q], u)
    BY <2>3 DEF Consistent
  <2>6. \A t \in SnapshotIds \ {u} : Copies(stage'[r], t) <=> Copies(stage[r], t)
    BY <2>2 DEF Copies
  <2>7. (\A t \in SnapshotIds \ {u} : t \in L <=> t \in K) /\ u \notin L
    <3>1. ~Copies(stage'[r], u)
      BY <2>2 DEF Copies
    <3> QED BY <1>2, <2>2, <2>3, <2>5, <2>6, <3>1, CopyingAfter
  <2> HIDE DEF K, L, u
  <2>8. /\ \A p, b : Belongs(C, K, p, b) => Belongs(C, L, p, b)
        /\ \A t \in SnapshotIds : \A f : IsContent(C, K, t, f) => IsContent(C, L, t, f)
    BY <1>1, <2>3, <2>7, ContentGrows
  <2>9. DiskTold(C, L, nextSnapshot', disk')
    <3>1. ASSUME NEW p \in DOMAIN disk
          PROVE  /\ \A b : Belongs(C, L, p, b) => disk[p] = b
                 /\ p.dir = "restore" => p.of < nextSnapshot /\ p.of \notin L
      <4>1. p.dir = "restore" => p.of < nextSnapshot /\ p.of \notin K /\ p.of \in SnapshotIds
        BY <1>1, PathParts DEF DiskTold, Inv, TypeInv, TypeOK
      <4>2. p.dir = "restore" => p.of \notin L
        BY <2>3, <2>7, <4>1
      <4>3. \A b : Belongs(C, L, p, b) => Belongs(C, K, p, b)
        BY <4>1 DEF Belongs
      <4> QED BY <1>1, <4>1, <4>2, <4>3 DEF DiskTold
    <3> QED BY <2>1, <3>1 DEF DiskTold
  <2>10. Told(C, L, rows') /\ Told(C, L, C[u])
    BY <1>1, <2>1, <2>3, <2>8 DEF Told
  <2>11. \A t \in DOMAIN snapshots' : IsContent(C, L, t, snapshots'[t].files)
    <3>1. /\ DOMAIN snapshots' = DOMAIN snapshots
          /\ \A t \in DOMAIN snapshots :
               \/ snapshots'[t].files = snapshots[t].files
               \/ t = u /\ snapshots'[t].files = stage[r].files
      BY <1>1, <2>1 DEF Snapshot
    <3>2. IsContent(C, L, u, stage[r].files)
      BY <2>4, <2>7 DEF IsContent
    <3> QED BY <1>1, <2>8, <3>1, <3>2
  <2>12. StageTold(C, L, stage'[r])
    BY <2>2 DEF StageTold
  <2>13. nextSnapshot' >= nextSnapshot /\ nextSnapshot' = nextSnapshot
    BY <1>1, <2>1
  <2>14. TypeInv
    BY DEF Inv
  <2> QED BY <1>1, <2>2, <2>3, <2>4, <2>5, <2>6, <2>9, <2>10, <2>11, <2>12, <2>13, <2>14,
             StepKeepsContent DEF K, L
<1> QED BY <1>3, <1>4

\* Every copy adds to the content of the snapshot being created.
LEMMA CopyContent ==
  ASSUME Inv, TypeInv', NEW C, Consistent(C), NEW r \in Requests, CopyFile(r)
  PROVE  \E D : Consistent(D)'
<1> DEFINE K == Copying
           L == Copying'
           u == stage[r].snapshot
           files == stage'[r].files
<1>1. /\ TypeInv
      /\ DiskTold(C, K, nextSnapshot, disk) /\ Told(C, K, rows) /\ rows \in Rows
      /\ stage[r] \in Stage \cup {None} /\ StageTold(C, K, stage[r]) /\ C \in Contents
      /\ \A t \in DOMAIN snapshots : IsContent(C, K, t, snapshots[t].files)
      /\ DOMAIN snapshots \subseteq SnapshotIds
      /\ \A t \in SnapshotIds : Told(C, K, C[t])
      /\ nextSnapshot \in Nat
  BY DEF Consistent, Inv, TypeInv, TypeOK
<1>2. K = {t \in SnapshotIds : \E q \in Requests : Copies(stage[q], t)}
  BY DEF Copying
<1>3. /\ stage[r] # None /\ stage[r].at = "copy" /\ At(r, "copy") /\ stage[r] \in CopyStage
      /\ UNCHANGED <<rows, snapshots, nextSnapshot>>
      /\ \A q \in Requests \ {r} : stage'[q] = stage[q]
  BY <1>1, StageTypes DEF CopyFile, At, counters, Becomes, TypeInv, TypeOK
<1>4. PICK i \in DOMAIN stage[r].rows \ DOMAIN stage[r].files :
        LET file == stage[r].rows[i]
            copy == Copied(u, i)
        IN /\ stage'[r] \in CopyStage /\ stage'[r].at = "copy"
           /\ stage'[r].snapshot = u
           /\ stage'[r].rows = stage[r].rows
           /\ DOMAIN files = DOMAIN stage[r].files \cup {i}
           /\ \A j \in DOMAIN stage[r].files : files[j] = stage[r].files[j]
           /\ files[i].bytes = file.bytes
           /\ \/ /\ file.path \in DOMAIN disk
                 /\ disk' = With(disk, copy, disk[file.path])
                 /\ files[i].path = copy
              \/ UNCHANGED disk /\ files[i].path = file.path
  BY <1>1, CopyTypes
<1> DEFINE file == stage[r].rows[i]
           copy == Copied(u, i)
<1>5. u \in SnapshotIds /\ files \in Rows /\ stage'[r] # None
  BY <1>3, <1>4, StagesExist, NoneAssumption DEF CopyStage
<1>6. Copies(stage[r], u) /\ Copies(stage'[r], u) /\ u \in K
  BY <1>2, <1>3, <1>4, <1>5 DEF Copies
<1>7. C[u] = stage[r].files /\ u < nextSnapshot /\ Told(C, K, stage[r].rows)
  BY <1>1, <1>3 DEF StageTold, Inv, SnapshotsFit
<1>8. \A q \in Requests \ {r} : ~Copies(stage[q], u)
  BY <1>5, <1>6 DEF Consistent
<1>9. \A t \in SnapshotIds \ {u} : Copies(stage'[r], t) <=> Copies(stage[r], t)
  BY <1>3, <1>4, <1>6 DEF Copies
<1>10. \A t \in SnapshotIds : t \in L <=> t \in K
  BY <1>2, <1>3, <1>6, <1>9, CopyingAfter
<1> HIDE DEF K, L, u, files
<1>11. PICK D \in Contents :
         /\ D[u] = files
         /\ \A t \in SnapshotIds \ {u} : D[t] = C[t]
         /\ \A j \in DOMAIN C[u] : j \in DOMAIN D[u] /\ D[u][j] = C[u][j]
  <2> DEFINE new == [C EXCEPT ![u] = files]
  <2>1. /\ new \in Contents /\ new[u] = files
        /\ \A t \in SnapshotIds \ {u} : new[t] = C[t]
    BY <1>1, <1>5 DEF Contents
  <2>2. \A j \in DOMAIN C[u] : j \in DOMAIN new[u] /\ new[u][j] = C[u][j]
    BY <1>4, <1>7, <2>1 DEF files
  <2> HIDE DEF new
  <2> QED BY <2>1, <2>2
<1>12. /\ \A p, b : Belongs(C, K, p, b) => Belongs(D, L, p, b)
       /\ \A t \in SnapshotIds : \A f : IsContent(C, K, t, f) => IsContent(D, L, t, f)
  BY <1>1, <1>6, <1>10, <1>11, ContentGrows
<1>13. Belongs(C, K, file.path, file.bytes)
  BY <1>4, <1>7 DEF Told
<1>14. copy.dir = "snapshots" /\ copy.of = u /\ copy.key = i
  BY PathParts
<1> HIDE DEF copy, file
\* What belongs to a path afterwards belonged there before, or was copied.
<1>15. ASSUME NEW p, NEW b, Belongs(D, L, p, b)
       PROVE  \/ Belongs(C, K, p, b)
              \/ p = copy /\ files[i].path = copy /\ b = file.bytes
  <2>1. CASE p.dir = "uploads" /\ b = p.key
    BY <2>1 DEF Belongs
  <2>2. CASE /\ p.dir = "snapshots" /\ p.of \in SnapshotIds
             /\ p.key \in DOMAIN D[p.of]
             /\ D[p.of][p.key].path = p /\ D[p.of][p.key].bytes = b
    <3>1. CASE p.of # u
      <4>1. D[p.of] = C[p.of]
        BY <1>11, <2>2, <3>1
      <4> QED BY <2>2, <4>1 DEF Belongs
    <3>2. CASE p.of = u /\ p.key # i
      <4>1. p.key \in DOMAIN C[u] /\ D[u][p.key] = C[u][p.key]
        BY <1>4, <1>7, <1>11, <2>2, <3>2
      <4> QED BY <2>2, <3>2, <4>1 DEF Belongs
    <3>3. CASE p.of = u /\ p.key = i
      <4>1. files[i].path = p /\ b = file.bytes
        BY <1>4, <1>11, <2>2, <3>3 DEF file
      <4>2. files[i].path = copy \/ files[i].path = file.path
        BY <1>4 DEF copy, file
      <4> QED BY <1>13, <4>1, <4>2
    <3> QED BY <3>1, <3>2, <3>3
  <2>3. CASE /\ p.dir = "restore" /\ p.of \in SnapshotIds \ L
             /\ Distinct(D[p.of], DOMAIN D[p.of])
             /\ \E j \in DOMAIN D[p.of] : D[p.of][j].name = p.key /\ D[p.of][j].bytes = b
    <3>1. p.of # u /\ p.of \notin K
      BY <1>5, <1>6, <1>10, <2>3
    <3>2. D[p.of] = C[p.of]
      BY <1>11, <2>3, <3>1
    <3> QED BY <2>3, <3>1, <3>2 DEF Belongs
  <2> QED BY <1>15, <2>1, <2>2, <2>3 DEF Belongs
<1>16. \A b : ~Belongs(C, K, copy, b)
  BY <1>4, <1>7, <1>14 DEF Belongs
<1>17. /\ \A p \in DOMAIN disk' : p = copy \/ (p \in DOMAIN disk /\ disk'[p] = disk[p])
       /\ files[i].path = copy /\ file.path # copy => disk'[copy] = file.bytes
  <2>1. CASE UNCHANGED disk /\ files[i].path = file.path
    BY <2>1
  <2>2. CASE /\ file.path \in DOMAIN disk
             /\ disk' = With(disk, copy, disk[file.path])
             /\ files[i].path = copy
    <3>1. disk[file.path] = file.bytes
      BY <1>1, <1>13, <2>2 DEF DiskTold
    <3>2. /\ DOMAIN disk' = DOMAIN disk \cup {copy} /\ disk'[copy] = disk[file.path]
          /\ \A p \in DOMAIN disk \ {copy} : disk'[p] = disk[p]
      BY <2>2 DEF With, Merged
    <3> QED BY <2>2, <3>1, <3>2
  <2> QED BY <1>4, <2>1, <2>2 DEF copy, file
<1>18. DiskTold(D, L, nextSnapshot', disk')
  <2>1. ASSUME NEW p \in DOMAIN disk'
        PROVE  /\ \A b : Belongs(D, L, p, b) => disk'[p] = b
               /\ p.dir = "restore" => p.of < nextSnapshot /\ p.of \notin L
    <3>1. CASE p = copy
      <4>1. file.path # copy
        BY <1>13, <1>16
      <4> QED BY <1>14, <1>15, <1>16, <1>17, <3>1, <4>1
    <3>2. CASE p # copy
      <4>1. p \in DOMAIN disk /\ disk'[p] = disk[p]
        BY <1>17, <3>2
      <4>2. p.dir = "restore" => p.of \in SnapshotIds
        BY <4>1, PathParts DEF Inv, TypeInv, TypeOK
      <4> QED BY <1>1, <1>10, <1>15, <3>2, <4>1, <4>2 DEF DiskTold
    <3> QED BY <3>1, <3>2
  <2> QED BY <1>3, <2>1 DEF DiskTold
<1>19. Told(D, L, D[u])
  <2>1. ASSUME NEW j \in DOMAIN files
        PROVE  Belongs(D, L, files[j].path, files[j].bytes)
    <3>1. CASE j # i
      <4>1. j \in DOMAIN C[u] /\ files[j] = C[u][j]
        BY <1>4, <1>7, <3>1
      <4>2. Belongs(C, K, files[j].path, files[j].bytes)
        BY <1>1, <1>5, <4>1 DEF Told
      <4> QED BY <1>12, <4>2
    <3>2. CASE j = i /\ files[i].path = copy
      BY <1>4, <1>5, <1>11, <1>14, <3>2 DEF Belongs
    <3>3. CASE j = i /\ files[i].path = file.path
      <4>1. files[i].bytes = file.bytes
        BY <1>4 DEF file
      <4> QED BY <1>12, <1>13, <3>3, <4>1
    <3> QED BY <1>4, <3>1, <3>2, <3>3 DEF copy, file
  <2> QED BY <1>11, <2>1 DEF Told
<1>20. Told(D, L, rows') /\ Told(D, L, stage'[r].rows)
  BY <1>1, <1>3, <1>4, <1>7, <1>12 DEF Told
<1>21. \A t \in DOMAIN snapshots' : IsContent(D, L, t, snapshots'[t].files)
  BY <1>1, <1>3, <1>12
<1>22. StageTold(D, L, stage'[r])
  BY <1>4, <1>11, <1>20 DEF StageTold, files
<1>23. nextSnapshot' >= nextSnapshot /\ u < nextSnapshot'
  BY <1>1, <1>3, <1>7
<1>24. Consistent(D)'
  BY <1>1, <1>3, <1>6, <1>8, <1>9, <1>11, <1>18, <1>19, <1>20, <1>21, <1>22, <1>23,
     StepKeepsContent DEF K, L
<1> QED BY <1>24

\* The process stops: nothing is being created any more.
LEMMA CrashContent ==
  ASSUME TypeInv, NEW C, Consistent(C), Crash
  PROVE  Consistent(C)'
<1> DEFINE K == Copying
           L == Copying'
<1>1. /\ \A r \in Requests : stage'[r] = None
      /\ UNCHANGED <<rows, disk, snapshots, nextSnapshot>>
  BY DEF Crash, counters
<1>2. /\ DiskTold(C, K, nextSnapshot, disk) /\ Told(C, K, rows) /\ C \in Contents
      /\ \A t \in DOMAIN snapshots : IsContent(C, K, t, snapshots[t].files)
      /\ \A t \in SnapshotIds : Told(C, K, C[t]) /\ (C[t] # <<>> => t < nextSnapshot)
      /\ DOMAIN disk \subseteq Paths
  BY DEF Consistent, TypeInv, TypeOK
<1>3. L = {} /\ \A r \in Requests, t \in SnapshotIds : ~Copies(stage'[r], t)
  BY <1>1 DEF Copying, Copies
<1> HIDE DEF K, L
<1>4. \A p, b : Belongs(C, K, p, b) => Belongs(C, L, p, b)
  BY <1>3 DEF Belongs
<1>5. DiskTold(C, L, nextSnapshot, disk)
  <2>1. \A p \in DOMAIN disk : \A b : Belongs(C, L, p, b) => Belongs(C, K, p, b)
    BY <1>2 DEF Belongs, DiskTold
  <2> QED BY <1>2, <1>3, <2>1 DEF DiskTold
<1>6. \A f : Told(C, K, f) => Told(C, L, f)
  BY <1>4 DEF Told
<1>7. \A t, f : IsContent(C, K, t, f) => IsContent(C, L, t, f)
  BY <1>3 DEF IsContent
<1>8. \A r \in Requests : StageTold(C, L, stage'[r])
  BY <1>1 DEF StageTold
<1>9. Consistent(C)' <=>
        /\ C \in Contents
        /\ \A s \in SnapshotIds : Told(C, L, C[s]) /\ (C[s] # <<>> => s < nextSnapshot')
        /\ DiskTold(C, L, nextSnapshot', disk')
        /\ Told(C, L, rows')
        /\ \A s \in DOMAIN snapshots' : IsContent(C, L, s, snapshots'[s].files)
        /\ \A q \in Requests : StageTold(C, L, stage'[q])
        /\ \A p, q \in Requests, s \in SnapshotIds :
             Copies(stage'[p], s) /\ Copies(stage'[q], s) => p = q
  BY DEF Consistent, L, Contents, Told, Belongs, Distinct, DiskTold, IsContent, StageTold, Copies
<1> QED BY <1>1, <1>2, <1>3, <1>5, <1>6, <1>7, <1>8, <1>9

LEMMA ContentHolds ==
  /\ Init => ContentInv
  /\ Inv /\ ContentInv /\ [Next]_vars => ContentInv'
<1>1. ASSUME Init PROVE ContentInv
  <2> DEFINE C == [s \in SnapshotIds |-> <<>>]
  <2>1. C \in Contents /\ \A s \in SnapshotIds : C[s] = <<>>
    BY RowsTypes DEF Contents
  <2>2. \A r \in Requests : stage[r] = None
    BY <1>1 DEF Init
  <2>3. DOMAIN rows = {} /\ DOMAIN disk = {} /\ DOMAIN snapshots = {}
    BY <1>1, RowsTypes DEF Init
  <2> HIDE DEF C
  <2>4. Consistent(C)
    BY <2>1, <2>2, <2>3, RowsTypes DEF Consistent, Told, DiskTold, StageTold, Copies
  <2> QED BY <2>4 DEF ContentInv
<1>2. ASSUME Inv, ContentInv, [Next]_vars PROVE ContentInv'
  <2>1. TypeInv /\ TypeInv'
    BY <1>2, TypesHold DEF Inv
  <2>2. CASE UNCHANGED vars \/ EditIndex
    <3>1. UNCHANGED <<rows, disk, snapshots, stage, nextSnapshot, ambiguous>>
      BY <2>2 DEF vars, EditIndex, counters, history
    <3>2. \A C : Consistent(C)' <=> Consistent(C)
      BY <3>1 DEF Consistent, Copying, Contents, Told, Belongs, Distinct, DiskTold, IsContent,
                  StageTold, Copies
    <3> QED BY <1>2, <3>1, <3>2 DEF ContentInv
  <2>3. ASSUME ~ambiguous', Crash \/ \E r \in Requests : Acts(r)
        PROVE  \E C : Consistent(C)'
    <3>1. ~ambiguous
      BY <2>1, <2>3 DEF Crash, Acts, BeginUpload, StageUpload, CommitUpload, FailUpload, UnlinkOne,
        BeginDelete, DeleteRows, BeginValidation, SaveValidation, BeginSnapshot, SaveSnapshot,
        ListRows, CopyFile, SaveSnapshotFiles, DeleteSnapshot, PurgeSnapshot, BeginRestore,
        RestoreIndex, FetchFile, FailRestore, ClearRows, InsertRows, history
    <3>2. PICK C : Consistent(C)
      BY <1>2, <3>1 DEF ContentInv
    <3>3. CASE Crash
      BY <2>1, <3>2, <3>3, CrashContent
    <3>4. ASSUME NEW r \in Requests, Acts(r)
          PROVE  \E D : Consistent(D)'
      <4>1. CASE CopyFile(r)
        BY <1>2, <2>1, <3>2, <4>1, CopyContent
      <4>2. CASE ~CopyFile(r)
        <5>1. Consistent(C)'
          BY <1>2, <2>1, <2>3, <3>2, <3>4, <4>2, UploadContent, RowContent, SnapshotContent,
             ReadingRestoreContent, FetchContent, RestoreContent, CreationContent DEF Acts
        <5> QED BY <5>1
      <4> QED BY <4>1, <4>2
    <3> QED BY <2>3, <3>3, <3>4
  <2>4. CASE Crash \/ \E r \in Requests : Acts(r)
    BY <2>3, <2>4 DEF ContentInv
  <2> QED BY <1>2, <2>2, <2>4 DEF Next, Acts
<1> QED BY <1>1, <1>2

-----------------------------------------------------------------------------
(* Theorems                                                                *)

\* Every variable has its type, whatever requests are served at once.
THEOREM TypeCorrect == Spec => []TypeOK
<1>1. TypeInv => TypeOK
  BY DEF TypeInv
<1> QED BY TypesHold, <1>1, PTL DEF Spec

\* The bytes of an uploaded file stay on disk as long as its row, for any
\* number of requests, files and snapshots, and across restarts (uploadMultiple,
\* deleteManyForAcp, restoreSnapshot).
THEOREM UploadsAreOnDisk == Spec => []UploadedRowsHaveTheirFile
<1>1. Inv => UploadedRowsHaveTheirFile
  BY DEF Inv, RowsFit, Stored, UploadedRowsHaveTheirFile
<1> QED BY InvHolds, <1>1, PTL DEF Spec

\* Uploaded bytes that no row names any more are still known to a request, a
\* restore replaced their row, or their removal was tried and failed
\* (removePath), unless the process stopped in between.
THEOREM NothingIsLost == Spec => []NothingIsLeftBehind
<1>1. Inv => NothingIsLeftBehind
  <2> SUFFICES ASSUME Inv, ~crashed, NEW p \in DOMAIN disk, p.dir = "uploads"
               PROVE  \/ p \in PathsOf(rows)
                      \/ p.key \in dropped
                      \/ p \in leaked
                      \/ \E r \in Requests :
                           \/ At(r, "upload") /\ p.key \in stage[r].staged
                           \/ At(r, "unlink") /\ p \in stage[r].paths
    BY DEF NothingIsLeftBehind
  <2>1. p.key \in Ids /\ p = Uploaded(p.key)
    BY PathTypes DEF Inv, TypeInv, TypeOK
  <2>2. Tracked(p.key)
    BY <2>1 DEF Inv
  <2>3. p.key \in DOMAIN rows /\ rows[p.key].path = p => p \in PathsOf(rows)
    BY DEF PathsOf
  <2> QED BY <2>1, <2>2, <2>3 DEF Tracked, Staged, Going
<1> QED BY InvHolds, <1>1, PTL DEF Spec

\* The copies of a snapshot stay on disk until it is deleted (create: "so
\* restore stays independent from future file deletions or replacements").
THEOREM CopiesStay == Spec => []SnapshotsKeepTheirFiles
<1>1. Inv => SnapshotsKeepTheirFiles
  BY DEF Inv, SnapshotsFit, SnapshotKept, SnapshotsKeepTheirFiles
<1> QED BY InvHolds, <1>1, PTL DEF Spec


\* Bytes on disk are the ones whose checksum rows and snapshots tell, through any chain
\* of copies and restores, until a restore writes two files to one path
\* (resolveRestoredFilePath).
THEOREM BytesAreTold == Spec => []ChecksumsAreTrue
<1>1. Init => Inv /\ ContentInv
  BY InvHolds, ContentHolds
<1>2. Inv /\ ContentInv /\ [Next]_vars => Inv' /\ ContentInv'
  BY InvHolds, ContentHolds
<1>3. Inv /\ ContentInv => ChecksumsAreTrue
  <2> SUFFICES ASSUME Inv, NEW C, Consistent(C) PROVE ChecksumsAreTrue
    BY DEF ContentInv, ChecksumsAreTrue
  <2>1. /\ DiskTold(C, Copying, nextSnapshot, disk) /\ Told(C, Copying, rows)
        /\ \A s \in DOMAIN snapshots : IsContent(C, Copying, s, snapshots[s].files)
        /\ \A s \in SnapshotIds : Told(C, Copying, C[s])
        /\ DOMAIN snapshots \subseteq SnapshotIds
    BY DEF Consistent, Inv, TypeInv, TypeOK
  <2>2. ASSUME NEW i \in DOMAIN rows, rows[i].path \in DOMAIN disk
        PROVE  disk[rows[i].path] = rows[i].bytes
    BY <2>1, <2>2 DEF Told, DiskTold
  <2>3. ASSUME NEW s \in DOMAIN snapshots, NEW i \in DOMAIN snapshots[s].files,
               snapshots[s].files[i].path \in DOMAIN disk
        PROVE  disk[snapshots[s].files[i].path] = snapshots[s].files[i].bytes
    <3>1. snapshots[s].files = C[s]
      BY <2>1, <2>3, RowsTypes DEF IsContent
    <3> QED BY <2>1, <2>3, <3>1 DEF Told, DiskTold
  <2> QED BY <2>2, <2>3 DEF ChecksumsAreTrue
<1> QED BY <1>1, <1>2, <1>3, PTL DEF Spec

=============================================================================
