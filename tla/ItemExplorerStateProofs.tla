----------------------- MODULE ItemExplorerStateProofs -----------------------
(***************************************************************************)
(* Machine-checked proofs about ItemExplorerState, for every set of        *)
(* clients, every payload and every bound on the versions: its types; that *)
(* the change log is a complete history with which every copy of the state *)
(* agrees, so that a write that names a version replaces exactly what its  *)
(* client saw; that reads through the viewer cache are fresh; that         *)
(* immediate publications keep what they are not about; and that the       *)
(* service implements GuardedDocument.                                     *)
(***************************************************************************)
EXTENDS ItemExplorerState, ItemExplorerDocument, WellFoundedInduction, TLAPS

-----------------------------------------------------------------------------
(* The pure operators stay within their types. *)

LEMMA IdleType == Idle \in Request
BY DEF Idle, Request, PCs, Operations, NoBase, KeepAll, Patch

LEMMA DefaultStateType ==
    ASSUME itemProperties \in ItemProperties, metadataColumns \in Columns
    PROVE  DefaultState \in Payload
BY DEF DefaultState, Payload, ItemProperties

LEMMA FirstRecordType ==
    ASSUME itemProperties \in ItemProperties, metadataColumns \in Columns
    PROVE  FirstRecord \in Record
BY DefaultStateType DEF FirstRecord, Record

LEMMA EnvelopeType ==
    ASSUME NEW c \in Clients, NEW r \in Record
    PROVE  Envelope(c, r) \in Record
BY DEF Envelope, Record

LEMMA MergeType ==
    ASSUME NEW p \in Payload, NEW patch \in Patch
    PROVE  MergeDraftPatch(p, patch) \in Payload
BY DEF MergeDraftPatch, Merge, Payload, Patch

LEMMA ReplaceTagsType ==
    ASSUME NEW p \in Payload, NEW tags \in Tags
    PROVE  ReplaceTags(p, tags) \in Payload
BY DEF ReplaceTags, Payload, ItemProperties

LEMMA VersionOfType ==
    ASSUME NEW r \in Record \cup {NoRecord}
    PROVE  VersionOf(r) \in Nat
BY DEF VersionOf, Record

LEMMA KeepAllType == KeepAll \in Patch
BY DEF KeepAll, Patch

-----------------------------------------------------------------------------
(* Type correctness, strengthened by what a request's phase says about it. *)

RequestFits(q) ==
    /\ q.pc \in {"validate", "hit", "stale", "fill"} => q.held # NoRecord
    /\ q.pc = "transact" => record # NoRecord
    /\ q.op = "PUBLISH_PROPERTIES" => q.patch.itemProperties \in ItemProperties
    /\ q.op = "PUBLISH_TAGS" => q.patch.tags \in Tags

RequestsFit == \A c \in Clients : RequestFits(request[c])

TypeInv == TypeOK /\ RequestsFit

\* Taking a request to its next phase.
LEMMA GoToFits ==
    ASSUME TypeInv, NEW c \in Clients, NEW x \in PCs, GoTo(c, x),
           record' = record,
           x = "transact" => record # NoRecord,
           x \in {"validate", "hit", "stale", "fill"} => request[c].held # NoRecord
    PROVE  request' \in [Clients -> Request] /\ RequestsFit'
<1>1. request \in [Clients -> Request] /\ request[c] \in Request
  BY DEF TypeInv, TypeOK
<1>2. PICK q \in Request :
        /\ request' = [request EXCEPT ![c] = q]
        /\ q.op = request[c].op /\ q.patch = request[c].patch
        /\ q.pc = x /\ q.held = request[c].held
  <2> DEFINE moved == [request[c] EXCEPT !.pc = x]
  <2>1. moved \in Request /\ moved.op = request[c].op /\ moved.patch = request[c].patch
          /\ moved.pc = x /\ moved.held = request[c].held
    BY <1>1 DEF Request
  <2>2. request' = [request EXCEPT ![c] = moved]
    BY <1>1 DEF GoTo
  <2> QED BY <2>1, <2>2
<1>3. RequestFits(request[c])
  BY DEF TypeInv, RequestsFit
<1>4. RequestFits(q)'
  BY <1>2, <1>3 DEF RequestFits
<1>5. ASSUME NEW d \in Clients PROVE RequestFits(request[d])'
  <2>1. CASE d = c
    BY <1>1, <1>2, <1>4, <2>1
  <2>2. CASE d # c
    BY <1>1, <1>2, <2>2 DEF TypeInv, RequestsFit, RequestFits
  <2> QED BY <2>1, <2>2
<1> QED BY <1>1, <1>2, <1>5 DEF RequestsFit

LEMMA ProceedFits ==
    ASSUME TypeInv, NEW c \in Clients, NEW r \in Record, Proceed(c, r),
           record' # NoRecord
    PROVE  request' \in [Clients -> Request] /\ RequestsFit'
<1>1. request \in [Clients -> Request] /\ request[c] \in Request
  BY DEF TypeInv, TypeOK
<1>2. PICK q \in Request :
        /\ request' = [request EXCEPT ![c] = q]
        /\ q.op = request[c].op /\ q.patch = request[c].patch
        /\ (q.pc = "fill" /\ q.held = r) \/ q.pc = "transact"
  <2> DEFINE filled == [request[c] EXCEPT !.pc = "fill", !.held = r]
             locked == [request[c] EXCEPT !.pc = "transact"]
  <2>1. CASE request[c].op = "READ"
    <3>1. filled \in Request /\ filled.op = request[c].op
            /\ filled.patch = request[c].patch /\ filled.pc = "fill" /\ filled.held = r
      BY <1>1 DEF Request, PCs
    <3>2. request' = [request EXCEPT ![c] = filled]
      BY <1>1, <2>1 DEF Proceed
    <3> QED BY <3>1, <3>2
  <2>2. CASE request[c].op # "READ"
    <3>1. locked \in Request /\ locked.op = request[c].op
            /\ locked.patch = request[c].patch /\ locked.pc = "transact"
      BY <1>1 DEF Request, PCs
    <3>2. request' = [request EXCEPT ![c] = locked]
      BY <1>1, <2>2 DEF Proceed
    <3> QED BY <3>1, <3>2
  <2> QED BY <2>1, <2>2
<1>3. RequestFits(request[c])
  BY DEF TypeInv, RequestsFit
<1>4. RequestFits(q)'
  BY <1>2, <1>3, NoRecordAssumption DEF RequestFits
<1>5. ASSUME NEW d \in Clients PROVE RequestFits(request[d])'
  <2>1. CASE d = c
    BY <1>1, <1>2, <1>4, <2>1
  <2>2. CASE d # c
    BY <1>1, <1>2, <2>2 DEF TypeInv, RequestsFit, RequestFits
  <2> QED BY <2>1, <2>2
<1> QED BY <1>1, <1>2, <1>5 DEF RequestsFit

\* A request that ends leaves an idle client.
LEMMA IdleFits ==
    ASSUME TypeInv, NEW c \in Clients, request' = [request EXCEPT ![c] = Idle],
           record' = record \/ record' # NoRecord
    PROVE  request' \in [Clients -> Request] /\ RequestsFit'
<1>1. RequestFits(Idle)'
  BY DEF RequestFits, Idle
<1>2. request' \in [Clients -> Request]
  BY IdleType DEF TypeInv, TypeOK
<1>3. ASSUME NEW d \in Clients PROVE RequestFits(request[d])'
  BY <1>1, <1>2 DEF TypeInv, TypeOK, RequestsFit, RequestFits
<1> QED BY <1>2, <1>3 DEF RequestsFit

\* A request that starts.
LEMMA SubmitFits ==
    ASSUME TypeInv, NEW c \in Clients, NEW op \in Operations, NEW base \in Nat,
           NEW patch \in Patch, Submit(c, op, base, patch),
           op = "PUBLISH_PROPERTIES" => patch.itemProperties \in ItemProperties,
           op = "PUBLISH_TAGS" => patch.tags \in Tags
    PROVE  TypeInv'
<1> DEFINE q == [Idle EXCEPT !.pc = "ensure", !.op = op, !.base = base,
                             !.patch = patch]
<1>1. /\ request' = [request EXCEPT ![c] = q]
      /\ UNCHANGED <<rows, cache, copy>>
  BY DEF Submit
<1>2. q \in Request
  BY IdleType DEF Request, PCs
<1>3. RequestFits(q)'
  BY DEF RequestFits, Idle
<1>4. TypeOK'
  <2> HIDE DEF q
  <2> QED BY <1>1, <1>2 DEF TypeInv, TypeOK, rows
<1>5. ASSUME NEW d \in Clients PROVE RequestFits(request[d])'
  <2> HIDE DEF q
  <2> QED BY <1>1, <1>3 DEF TypeInv, TypeOK, RequestsFit, RequestFits, rows
<1> QED BY <1>4, <1>5 DEF TypeInv, RequestsFit

-----------------------------------------------------------------------------
(* Every action keeps the type invariant. *)

LEMMA LookUpType == ASSUME TypeInv, NEW c \in Clients, LookUp(c) PROVE TypeInv'
<1> DEFINE q == [Idle EXCEPT !.pc = IF cache = NoRecord THEN "ensure" ELSE "validate",
                             !.held = cache, !.started = VersionOf(record)]
<1>1. q \in Request
  BY IdleType, VersionOfType DEF TypeInv, TypeOK, Request, PCs
<1>2. /\ q.pc \in {"ensure", "validate"} /\ q.op = "READ"
      /\ q.pc = "validate" => q.held # NoRecord
  BY DEF Idle
<1>3. request' = [request EXCEPT ![c] = q] /\ UNCHANGED <<rows, cache, copy>>
  BY DEF LookUp
<1>4. TypeOK'
  <2> HIDE DEF q
  <2> QED BY <1>1, <1>3 DEF TypeInv, TypeOK, rows
<1>5. ASSUME NEW d \in Clients PROVE RequestFits(request[d])'
  <2> HIDE DEF q
  <2> QED BY <1>2, <1>3 DEF TypeInv, TypeOK, RequestsFit, RequestFits, rows
<1> QED BY <1>4, <1>5 DEF TypeInv, RequestsFit

LEMMA ValidateType ==
    ASSUME TypeInv, NEW c \in Clients, ValidateVersion(c) PROVE TypeInv'
<1>1. PICK x \in {"hit", "stale"} : GoTo(c, x)
  BY DEF ValidateVersion
<1>2. UNCHANGED <<rows, cache, copy>> /\ request[c].held # NoRecord
  BY DEF ValidateVersion, TypeInv, RequestsFit, RequestFits, At
<1>3. request' \in [Clients -> Request] /\ RequestsFit'
  BY <1>1, <1>2, GoToFits DEF rows, PCs
<1> QED BY <1>2, <1>3 DEF TypeInv, TypeOK, rows

LEMMA ServeType ==
    ASSUME TypeInv, NEW c \in Clients, At(c, "hit") \/ At(c, "fill"), Serve(c)
    PROVE  TypeInv'
<1>1. request[c].held \in Record
  BY DEF TypeInv, TypeOK, RequestsFit, RequestFits, At, Request
<1>2. Envelope(c, request[c].held) \in Record
  BY <1>1, EnvelopeType
<1>3. request' \in [Clients -> Request] /\ RequestsFit'
  BY IdleFits DEF Serve, rows
<1> QED BY <1>1, <1>2, <1>3 DEF TypeInv, TypeOK, Serve, rows

LEMMA DropStaleType ==
    ASSUME TypeInv, NEW c \in Clients, DropStale(c) PROVE TypeInv'
<1>1. request' \in [Clients -> Request] /\ RequestsFit'
  BY GoToFits DEF DropStale, rows, PCs
<1> QED BY <1>1 DEF TypeInv, TypeOK, DropStale, rows

LEMMA EnsureType ==
    ASSUME TypeInv, NEW c \in Clients, EnsureRecord(c) PROVE TypeInv'
<1>1. request' \in [Clients -> Request] /\ RequestsFit'
  <2>1. CASE record = NoRecord
    BY <2>1, GoToFits DEF EnsureRecord, rows, PCs
  <2>2. CASE record # NoRecord
    BY <2>2, ProceedFits DEF EnsureRecord, rows, TypeInv, TypeOK
  <2> QED BY <2>1, <2>2
<1> QED BY <1>1 DEF TypeInv, TypeOK, EnsureRecord, rows

LEMMA InitialiseType ==
    ASSUME TypeInv, NEW c \in Clients, Initialise(c) PROVE TypeInv'
<1>1. record' \in Record /\ record' # NoRecord
  BY FirstRecordType, NoRecordAssumption DEF TypeInv, TypeOK, Initialise
<1>2. request' \in [Clients -> Request] /\ RequestsFit'
  BY <1>1, ProceedFits DEF Initialise
<1> QED BY <1>1, <1>2 DEF TypeInv, TypeOK, Initialise

LEMMA AskType ==
    ASSUME TypeInv, NEW c \in Editors, Ask(c) PROVE TypeInv'
<1>1. c \in Clients
  BY DEF Clients
<1>2. Bases(c) \subseteq Nat
  <2>1. VersionOf(copy[c]) \in Nat
    BY <1>1, VersionOfType DEF TypeInv, TypeOK
  <2> QED BY <2>1 DEF Bases, NoBase
<1>3. CASE SubmitPatch(c)
  BY <1>1, <1>2, <1>3, SubmitFits, PatchesAssumption DEF SubmitPatch, Operations
<1>4. CASE SubmitSave(c)
  BY <1>1, <1>2, <1>4, SubmitFits, KeepAllType
  DEF SubmitSave, Operations, Publications
<1>5. CASE SubmitDiscard(c)
  BY <1>1, <1>2, <1>5, SubmitFits, KeepAllType DEF SubmitDiscard, Operations
<1>6. CASE SubmitProperties(c)
  <2> DEFINE next(params) ==
        [copy[c].published.itemProperties EXCEPT !.params = params]
  <2>1. PICK params \in Params :
          Submit(c, "PUBLISH_PROPERTIES", copy[c].version,
                 [KeepAll EXCEPT !.itemProperties = next(params)])
    BY <1>6 DEF SubmitProperties
  <2>2. copy[c] \in Record
    BY <1>1, <1>6 DEF SubmitProperties, TypeInv, TypeOK
  <2>3. next(params) \in ItemProperties /\ copy[c].version \in Nat
    BY <2>2 DEF Record, Payload, ItemProperties
  <2> HIDE DEF next
  <2>4. [KeepAll EXCEPT !.itemProperties = next(params)] \in Patch
    BY <2>3, KeepAllType DEF Patch
  <2>5. [KeepAll EXCEPT !.itemProperties = next(params)].itemProperties
          = next(params)
    BY DEF KeepAll
  <2> QED BY <1>1, <2>1, <2>3, <2>4, <2>5, SubmitFits DEF Operations, Publications
<1>7. CASE SubmitTags(c)
  <2>1. PICK tags \in Tags :
          Submit(c, "PUBLISH_TAGS", NoBase, [KeepAll EXCEPT !.tags = tags])
    BY <1>7 DEF SubmitTags
  <2>2. [KeepAll EXCEPT !.tags = tags] \in Patch
    BY KeepAllType DEF Patch
  <2>3. [KeepAll EXCEPT !.tags = tags].tags = tags
    BY DEF KeepAll
  <2> QED
    BY <1>1, <2>1, <2>2, <2>3, SubmitFits DEF Operations, Publications, NoBase
<1> QED BY <1>3, <1>4, <1>5, <1>6, <1>7 DEF Ask

LEMMA CommitType ==
    ASSUME TypeInv, NEW c \in Clients, NEW next \in Record, NEW before \in Payload,
           Commit(c, next, before),
           itemProperties' \in ItemProperties, metadataColumns' \in Columns
    PROVE  TypeInv'
<1>1. LogEntryFor(c, next, before) \in LogEntry
  BY DEF LogEntryFor, LogEntry, TypeInv, TypeOK, Request, Record
<1>2. changeLog' \in Seq(LogEntry)
  BY <1>1 DEF Commit, TypeInv, TypeOK
<1>3. copy' \in [Clients -> Record \cup {NoRecord}]
  BY DEF Commit, TypeInv, TypeOK
<1>4. record' \in Record /\ record' # NoRecord
  BY NoRecordAssumption DEF Commit
<1>5. request' \in [Clients -> Request] /\ RequestsFit'
  BY <1>4, IdleFits DEF Commit
<1> QED BY <1>2, <1>3, <1>4, <1>5 DEF TypeInv, TypeOK, Commit

\* What a transaction may rely on.
LEMMA TransactingType ==
    ASSUME TypeInv, NEW c \in Clients, At(c, "transact")
    PROVE  /\ record \in Record /\ record # NoRecord
           /\ record.draft \in Payload /\ record.published \in Payload
           /\ record.version \in Nat /\ record.publishedVersion \in Nat
           /\ request[c].patch \in Patch
           /\ RequestFits(request[c])
BY DEF TypeInv, TypeOK, RequestsFit, RequestFits, At, Record, Request

\* The records the transactions save.
PatchedRecord(after, reordered) ==
    [record EXCEPT !.draft = after, !.status = StatusAfterPatch(after, reordered),
                   !.version = @ + 1]

DiscardedRecord ==
    [record EXCEPT !.draft = record.published, !.status = "CLEAN",
                   !.version = @ + 1]

PublishedRecord(payload) ==
    [published |-> payload, draft |-> payload, status |-> "CLEAN",
     version |-> record.version + 1,
     publishedVersion |-> record.publishedVersion + 1]

LEMMA UpdatedRecordType ==
    ASSUME NEW r \in Record, NEW draft \in Payload, NEW status \in {"CLEAN", "DIRTY"},
           NEW version \in Nat
    PROVE  [r EXCEPT !.draft = draft, !.status = status, !.version = version]
             \in Record
BY DEF Record

LEMMA SavedRecordTypes ==
    ASSUME record \in Record, NEW payload \in Payload, NEW reordered \in BOOLEAN
    PROVE  /\ PatchedRecord(payload, reordered) \in Record
           /\ DiscardedRecord \in Record
           /\ PublishedRecord(payload) \in Record
<1>1. StatusAfterPatch(payload, reordered) \in {"CLEAN", "DIRTY"}
  BY DEF StatusAfterPatch
<1>2. record.version + 1 \in Nat /\ record.published \in Payload
  BY DEF Record
<1>3. PatchedRecord(payload, reordered) \in Record
  BY <1>1, <1>2, UpdatedRecordType DEF PatchedRecord
<1>4. DiscardedRecord \in Record
  BY <1>2, UpdatedRecordType DEF DiscardedRecord
<1>5. PublishedRecord(payload) \in Record
  BY DEF PublishedRecord, Record
<1> QED BY <1>3, <1>4, <1>5

LEMMA PublishType ==
    ASSUME TypeInv, NEW c \in Clients, At(c, "transact"),
           NEW payload \in Payload, Publish(c, payload)
    PROVE  TypeInv'
<1>1. Commit(c, PublishedRecord(payload), record.published)
  BY DEF Publish, PublishedRecord
<1>2. PublishedRecord(payload) \in Record
  BY TransactingType, SavedRecordTypes
<1>3. itemProperties' \in ItemProperties /\ metadataColumns' \in Columns
  BY DEF Publish, Payload
<1> QED BY <1>1, <1>2, <1>3, TransactingType, CommitType

\* The payloads the publications publish.
LEMMA PublishedPayloadTypes ==
    ASSUME TypeInv, NEW c \in Clients, At(c, "transact")
    PROVE  /\ request[c].op = "PUBLISH_PROPERTIES" =>
                [record.published EXCEPT
                   !.itemProperties = request[c].patch.itemProperties] \in Payload
           /\ request[c].op = "PUBLISH_TAGS" =>
                ReplaceTags(record.published, request[c].patch.tags) \in Payload
<1>1. record.published \in Payload /\ RequestFits(request[c])
  BY TransactingType
<1> QED BY <1>1, ReplaceTagsType DEF RequestFits, Payload

LEMMA WriteType ==
    ASSUME TypeInv, NEW c \in Editors, Write(c) PROVE TypeInv'
<1>1. c \in Clients
  BY DEF Clients
<1>2. CASE PatchDraft(c)
  <2> DEFINE after == MergeDraftPatch(record.draft, request[c].patch)
  <2>1. PICK reordered \in BOOLEAN :
          Commit(c, PatchedRecord(after, reordered), record.draft)
    BY <1>2 DEF PatchDraft, PatchedRecord
  <2>2. At(c, "transact")
    BY <1>2 DEF PatchDraft, Transacting
  <2>3. after \in Payload
    BY <1>1, <2>2, TransactingType, MergeType
  <2>4. PatchedRecord(after, reordered) \in Record
    <3> HIDE DEF after
    <3> QED BY <1>1, <2>2, <2>3, TransactingType, SavedRecordTypes
  <2>5. itemProperties' \in ItemProperties /\ metadataColumns' \in Columns
    BY <1>2 DEF PatchDraft, TypeInv, TypeOK
  <2> HIDE DEF after
  <2> QED BY <1>1, <2>1, <2>2, <2>4, <2>5, TransactingType, CommitType
<1>3. CASE DiscardDraft(c)
  <2>1. At(c, "transact") /\ Commit(c, DiscardedRecord, record.draft)
    BY <1>3 DEF DiscardDraft, DiscardedRecord, Transacting
  <2>2. DiscardedRecord \in Record
    BY <1>1, <2>1, TransactingType, SavedRecordTypes
  <2>3. itemProperties' \in ItemProperties /\ metadataColumns' \in Columns
    BY <1>3 DEF DiscardDraft, TypeInv, TypeOK
  <2> QED BY <1>1, <2>1, <2>2, <2>3, TransactingType, CommitType
<1>4. CASE SaveDraft(c)
  BY <1>1, <1>4, TransactingType, PublishType DEF SaveDraft, Transacting
<1>5. CASE PublishItemProperties(c)
  BY <1>1, <1>5, PublishedPayloadTypes, PublishType
  DEF PublishItemProperties, Transacting
<1>6. CASE PublishTags(c)
  BY <1>1, <1>6, PublishedPayloadTypes, PublishType DEF PublishTags, Transacting
<1>7. CASE Abandon(c)
  <2>1. request' \in [Clients -> Request] /\ RequestsFit'
    BY <1>1, <1>7, IdleFits DEF Abandon, rows
  <2> QED BY <1>7, <2>1 DEF TypeInv, TypeOK, Abandon, rows
<1> QED BY <1>2, <1>3, <1>4, <1>5, <1>6, <1>7 DEF Write

LEMMA TypeInvInit == Init => TypeInv
<1> SUFFICES ASSUME Init PROVE TypeInv
  OBVIOUS
<1>1. request \in [Clients -> Request]
  BY IdleType DEF Init
<1>2. RequestsFit
  BY DEF Init, RequestsFit, RequestFits, Idle
<1> QED BY <1>1, <1>2 DEF Init, TypeInv, TypeOK

LEMMA TypeInvStep == TypeInv /\ [Next]_vars => TypeInv'
<1> SUFFICES ASSUME TypeInv, [Next]_vars PROVE TypeInv'
  OBVIOUS
<1>1. CASE \E c \in Clients : Read(c)
  <2>1. PICK c \in Clients : Read(c)
    BY <1>1
  <2> QED
    BY <2>1, LookUpType, ValidateType, ServeType, DropStaleType, EnsureType,
       InitialiseType
    DEF Read, ServeHit, FillCache
<1>2. CASE \E c \in Editors : Ask(c) \/ Write(c)
  BY <1>2, AskType, WriteType
<1>3. CASE EvictEntry
  BY <1>3 DEF EvictEntry, TypeInv, TypeOK, RequestsFit, RequestFits, rows
<1>4. CASE Restart
  <2>1. request' \in [Clients -> Request]
    BY <1>4, IdleType DEF Restart
  <2>2. RequestsFit'
    BY <1>4 DEF Restart, RequestsFit, RequestFits, Idle
  <2> QED BY <1>4, <2>1, <2>2 DEF Restart, TypeInv, TypeOK, rows
<1>5. CASE UNCHANGED vars
  BY <1>5 DEF vars, TypeInv, TypeOK, RequestsFit, RequestFits
<1> QED BY <1>1, <1>2, <1>3, <1>4, <1>5 DEF Next

\* Every variable keeps its type, whoever reads, writes, fails or restarts.
THEOREM TypeCorrect == Spec => []TypeOK
<1>1. Spec => []TypeInv
  BY TypeInvInit, TypeInvStep, PTL DEF Spec
<1> QED BY <1>1, PTL DEF TypeInv

-----------------------------------------------------------------------------
(* What a log explains. *)

\* A longer log still explains what it explained.
LEMMA AppendExplains ==
    ASSUME NEW log \in Seq(LogEntry), NEW e \in LogEntry, NEW origin,
           NEW r \in Record, ExplainedBy(r, log, origin)
    PROVE  ExplainedBy(r, Append(log, e), origin)
<1> DEFINE longer == Append(log, e)
<1>1. Len(longer) = Len(log) + 1 /\ Len(log) \in Nat
  OBVIOUS
<1>2. \A i \in 1 .. Len(log) : longer[i] = log[i]
  OBVIOUS
<1>3. r.version \in Nat /\ r.publishedVersion \in Nat
  BY DEF Record
<1> HIDE DEF longer
<1>4. DraftExplained(r, longer, origin)
  BY <1>1, <1>2, <1>3 DEF ExplainedBy, DraftExplained
<1>5. CountersExplained(r, longer)
  BY <1>1, <1>2, <1>3 DEF ExplainedBy, DraftExplained, CountersExplained
<1>6. PublishedExplained(r, longer, origin)
  BY <1>1, <1>2 DEF ExplainedBy, PublishedExplained
<1> QED BY <1>4, <1>5, <1>6 DEF ExplainedBy, longer

\* The counters in a log are naturals.
LEMMA LogCounters ==
    ASSUME NEW log \in Seq(LogEntry), NEW i \in 1 .. Len(log)
    PROVE  log[i].publishedVersion \in Nat /\ log[i].draftVersion \in Nat
<1>1. log[i] \in LogEntry
  OBVIOUS
<1> QED BY <1>1 DEF LogEntry

\* Two records a log explains under one version are equal in content.
LEMMA EqualVersionsEqualContent ==
    ASSUME NEW log \in Seq(LogEntry), NEW origin, NEW r \in Record, NEW s \in Record,
           ExplainedBy(r, log, origin), ExplainedBy(s, log, origin),
           PublicationsInOrder(log), r.version = s.version
    PROVE  r.draft = s.draft /\ r.published = s.published
<1>1. r.version \in Nat /\ r.version >= 1 /\ Len(log) \in Nat
  BY DEF Record, ExplainedBy, DraftExplained
<1>2. r.draft = s.draft
  BY <1>1 DEF ExplainedBy, DraftExplained
<1>3. r.publishedVersion = s.publishedVersion
  BY <1>1 DEF ExplainedBy, CountersExplained
<1>4. CASE r.publishedVersion = 1
  <2>1. \A i \in 1 .. Len(log) :
          log[i].changeType \in Publications => log[i].publishedVersion # 1
    BY LogCounters DEF PublicationsInOrder
  <2> QED BY <1>2, <1>3, <1>4, <2>1 DEF ExplainedBy, PublishedExplained
<1>5. CASE r.publishedVersion # 1
  <2>1. PICK i \in 1 .. Len(log) :
          /\ log[i].changeType \in Publications
          /\ log[i].publishedVersion = r.publishedVersion
          /\ log[i].after = r.published
    BY <1>5 DEF ExplainedBy, PublishedExplained
  <2>2. PICK j \in 1 .. Len(log) :
          /\ log[j].changeType \in Publications
          /\ log[j].publishedVersion = s.publishedVersion
          /\ log[j].after = s.published
    BY <1>3, <1>5 DEF ExplainedBy, PublishedExplained
  <2>3. \A k, m \in 1 .. Len(log) :
          k < m /\ log[m].changeType \in Publications
            => log[k].publishedVersion # log[m].publishedVersion
    <3> TAKE k, m \in 1 .. Len(log)
    <3> HAVE k < m /\ log[m].changeType \in Publications
    <3>1. k \in 1 .. m - 1
      BY <1>1
    <3>2. log[k].publishedVersion < log[m].publishedVersion
      BY <3>1 DEF PublicationsInOrder
    <3> QED BY <3>2, LogCounters
  <2>4. ~(i < j) /\ ~(j < i)
    BY <1>3, <2>1, <2>2, <2>3
  <2>5. i = j
    BY <1>1, <2>4
  <2> QED BY <1>2, <2>1, <2>2, <2>5
<1> QED BY <1>4, <1>5

-----------------------------------------------------------------------------
(* What a commit does to the log. *)

\* A transaction saves next and appends e: the two kinds of change.
Revision(next, e) ==
    /\ next.version = record.version + 1
    /\ e.draftVersion = next.version
    /\ e.publishedVersion = next.publishedVersion
    /\ e.after = next.draft
    /\ \/ /\ e.changeType \notin Publications
          /\ e.before = record.draft
          /\ next.published = record.published
          /\ next.publishedVersion = record.publishedVersion
       \/ /\ e.changeType \in Publications
          /\ e.before = record.published
          /\ next.published = next.draft
          /\ next.publishedVersion = record.publishedVersion + 1

\* The first payload stays what it was.
LEMMA OriginKept ==
    ASSUME TypeOK, LogTellsTheHistory, record # NoRecord,
           NEW next \in Record, NEW e \in LogEntry, Revision(next, e),
           record' = next, changeLog' = Append(changeLog, e)
    PROVE  Origin' = Origin
<1>1. Explained(record) /\ changeLog \in Seq(LogEntry)
  BY DEF LogTellsTheHistory, TypeOK
<1>2. changeLog' # <<>>
  BY <1>1
<1>3. CASE changeLog = <<>>
  <2>1. record.published = record.draft
    <3>1. Origin = record.draft
      BY <1>3 DEF Origin
    <3>2. Len(changeLog) = 0
      BY <1>3
    <3> QED
      BY <1>1, <3>1, <3>2 DEF Explained, ExplainedBy, PublishedExplained
  <2>2. changeLog'[1] = e
    BY <1>3
  <2> QED BY <1>2, <1>3, <2>1, <2>2 DEF Origin, Revision
<1>4. CASE changeLog # <<>>
  <2>1. changeLog'[1] = changeLog[1]
    BY <1>1, <1>4
  <2> QED BY <1>2, <1>4, <2>1 DEF Origin
<1> QED BY <1>3, <1>4

\* The published versions in the log do not exceed the record's.
LEMMA PublishedVersionsBounded ==
    ASSUME TypeOK, LogTellsTheHistory, record # NoRecord
    PROVE  /\ record.publishedVersion >= 1
           /\ \A i \in 1 .. Len(changeLog) :
                changeLog[i].publishedVersion <= record.publishedVersion
<1> DEFINE n == Len(changeLog)
<1>1. /\ record.version = n + 1 /\ CountersExplained(record, changeLog)
      /\ PublicationsInOrder(changeLog) /\ n \in Nat
  BY DEF LogTellsTheHistory, Explained, ExplainedBy, TypeOK
<1>2. \A i \in 1 .. n : changeLog[i].publishedVersion \in Nat
  BY LogCounters DEF TypeOK
<1>3. CASE n = 0
  BY <1>1, <1>3 DEF CountersExplained
<1>4. CASE n > 0
  <2>1. record.publishedVersion = changeLog[n].publishedVersion
    BY <1>1, <1>4 DEF CountersExplained
  <2>2. \A i \in 1 .. n :
          changeLog[i].publishedVersion <= changeLog[n].publishedVersion
    <3> TAKE i \in 1 .. n
    <3>1. CASE i = n
      BY <1>2, <3>1
    <3>2. CASE i < n
      BY <1>1, <1>4, <3>2 DEF PublicationsInOrder
    <3> QED BY <1>1, <3>1, <3>2
  <2> QED BY <1>1, <1>4, <2>1, <2>2 DEF PublicationsInOrder
<1> QED BY <1>1, <1>3, <1>4

LEMMA CommitKeepsLogOrder ==
    ASSUME TypeOK, LogTellsTheHistory, record # NoRecord,
           NEW next \in Record, NEW e \in LogEntry, Revision(next, e)
    PROVE  /\ LogInOrder(Append(changeLog, e))
           /\ PublicationsInOrder(Append(changeLog, e))
<1> DEFINE n == Len(changeLog)
           log == Append(changeLog, e)
<1>1. /\ record.version = n + 1 /\ n \in Nat /\ changeLog \in Seq(LogEntry)
      /\ LogInOrder(changeLog) /\ PublicationsInOrder(changeLog)
      /\ DraftExplained(record, changeLog, Origin)
  BY DEF LogTellsTheHistory, Explained, ExplainedBy, TypeOK
<1>2. /\ Len(log) = n + 1 /\ log[n + 1] = e
      /\ \A i \in 1 .. n : log[i] = changeLog[i]
  BY <1>1
<1>3. record.publishedVersion \in Nat
  BY DEF TypeOK, Record
<1> HIDE DEF log, n
<1>4. LogInOrder(log)
  <2> SUFFICES ASSUME NEW i \in 1 .. n + 1
               PROVE  /\ log[i].draftVersion = i + 1
                      /\ i > 1 /\ log[i].changeType \notin Publications
                           => log[i].before = log[i - 1].after
    BY <1>2 DEF LogInOrder
  <2>1. CASE i = n + 1
    <3>1. log[i].draftVersion = i + 1
      BY <1>1, <1>2, <2>1 DEF Revision
    <3>2. ASSUME i > 1, log[i].changeType \notin Publications
          PROVE  log[i].before = log[i - 1].after
      <4>1. log[i].before = record.draft
        BY <1>2, <2>1, <3>2 DEF Revision
      <4>2. record.draft = changeLog[n].after
        BY <1>1, <2>1, <3>2 DEF DraftExplained
      <4> QED BY <1>1, <1>2, <2>1, <3>2, <4>1, <4>2
    <3> QED BY <3>1, <3>2
  <2>2. CASE i \in 1 .. n
    <3>1. log[i] = changeLog[i] /\ (i > 1 => log[i - 1] = changeLog[i - 1])
      BY <1>1, <1>2, <2>2
    <3> QED BY <1>1, <2>2, <3>1 DEF LogInOrder, n
  <2> QED BY <1>1, <2>1, <2>2
<1>5. \A i \in 1 .. n + 1 :
        /\ log[i].publishedVersion >= 1
        /\ log[i].changeType \in Publications => log[i].publishedVersion > 1
  <2> TAKE i \in 1 .. n + 1
  <2>1. CASE i = n + 1
    BY <1>2, <1>3, <2>1, PublishedVersionsBounded DEF Revision
  <2>2. CASE i \in 1 .. n
    BY <1>1, <1>2, <2>2 DEF PublicationsInOrder, n
  <2> QED BY <1>1, <2>1, <2>2
<1>6. \A j \in 1 .. n + 1 : \A i \in 1 .. j - 1 :
        /\ log[i].publishedVersion <= log[j].publishedVersion
        /\ log[j].changeType \in Publications
             => log[i].publishedVersion < log[j].publishedVersion
  <2> TAKE j \in 1 .. n + 1
  <2> TAKE i \in 1 .. j - 1
  <2>1. i \in 1 .. n /\ log[i] = changeLog[i]
    BY <1>1, <1>2
  <2>2. CASE j = n + 1
    <3>1. /\ log[i].publishedVersion <= record.publishedVersion
          /\ log[i].publishedVersion \in Nat
      BY <1>1, <2>1, PublishedVersionsBounded, LogCounters DEF n
    <3> QED BY <1>2, <1>3, <2>2, <3>1 DEF Revision
  <2>3. CASE j \in 1 .. n
    <3>1. log[j] = changeLog[j]
      BY <1>2, <2>3
    <3> QED BY <1>1, <2>1, <2>3, <3>1 DEF PublicationsInOrder, n
  <2> QED BY <1>1, <2>2, <2>3
<1> QED BY <1>2, <1>4, <1>5, <1>6 DEF PublicationsInOrder, log, n

\* The record a transaction saves is explained by the log it wrote.
LEMMA CommitExplainsRecord ==
    ASSUME TypeOK, LogTellsTheHistory, record # NoRecord,
           NEW next \in Record, NEW e \in LogEntry, Revision(next, e)
    PROVE  /\ next.version = Len(Append(changeLog, e)) + 1
           /\ ExplainedBy(next, Append(changeLog, e), Origin)
<1> DEFINE n == Len(changeLog)
           log == Append(changeLog, e)
<1>1. /\ record.version = n + 1 /\ n \in Nat /\ changeLog \in Seq(LogEntry)
      /\ PublishedExplained(record, changeLog, Origin)
  BY DEF LogTellsTheHistory, Explained, ExplainedBy, TypeOK
<1>2. /\ Len(log) = n + 1 /\ log[n + 1] = e
      /\ \A i \in 1 .. n : log[i] = changeLog[i]
  BY <1>1
<1>3. next.version = n + 2
  BY <1>1 DEF Revision
<1> HIDE DEF log, n
<1>4. DraftExplained(next, log, Origin) /\ CountersExplained(next, log)
  BY <1>1, <1>2, <1>3 DEF DraftExplained, CountersExplained, Revision
<1>5. PublishedExplained(next, log, Origin)
  <2>1. CASE e.changeType \in Publications
    BY <1>1, <1>2, <2>1 DEF PublishedExplained, Revision
  <2>2. CASE e.changeType \notin Publications
    <3>1. /\ next.published = record.published
          /\ next.publishedVersion = record.publishedVersion
      BY <2>2 DEF Revision
    <3> QED BY <1>1, <1>2, <3>1 DEF PublishedExplained, n
  <2> QED BY <2>1, <2>2
<1> QED BY <1>1, <1>2, <1>3, <1>4, <1>5 DEF ExplainedBy, log

-----------------------------------------------------------------------------
(* Every step is quiet, creates the record, or commits a revision. *)

\* The row and its log stay; copies move between row, requests, cache and clients.
Quiet ==
    /\ UNCHANGED <<record, changeLog>>
    /\ cache' \in {cache, NoRecord} \cup {request[c].held : c \in Clients}
    /\ \A c \in Clients :
         /\ request'[c].held \in {request[c].held, cache, record, NoRecord}
         /\ \/ copy'[c] = copy[c] /\ request'[c].base \in {request[c].base} \cup Bases(c)
            \/ /\ request[c].held # NoRecord
               /\ copy'[c] = Envelope(c, request[c].held)
               /\ request'[c].base = NoBase

Creates(c) ==
    /\ record = NoRecord
    /\ record' = FirstRecord
    /\ Proceed(c, record')
    /\ UNCHANGED <<changeLog, cache, copy>>

Commits(c, next, e) ==
    /\ At(c, "transact")
    /\ VersionAccepted(c)
    /\ Revision(next, e)
    /\ next.status = "CLEAN" => next.draft = next.published
    /\ record' = next
    /\ changeLog' = Append(changeLog, e)
    /\ copy' \in {copy, [copy EXCEPT ![c] = next]}
    /\ request' = [request EXCEPT ![c] = Idle]
    /\ UNCHANGED cache

SomeCommit ==
    \E c \in Editors, next \in Record, e \in LogEntry : Commits(c, next, e)

LEMMA GoToQuiet ==
    ASSUME TypeInv, NEW c \in Clients, NEW x, GoTo(c, x), UNCHANGED <<rows, copy>>,
           cache' \in {cache, NoRecord}
    PROVE  Quiet
BY DEF TypeInv, TypeOK, Request, GoTo, Quiet, rows

LEMMA ServeQuiet ==
    ASSUME TypeInv, NEW c \in Clients, At(c, "hit") \/ At(c, "fill"), Serve(c)
    PROVE  Quiet
<1>1. request[c].held # NoRecord
  BY DEF TypeInv, RequestsFit, RequestFits, At
<1> QED BY <1>1 DEF TypeInv, TypeOK, Serve, Idle, Quiet, rows

LEMMA ProceedQuiet ==
    ASSUME TypeInv, NEW c \in Clients, Proceed(c, record),
           UNCHANGED <<record, changeLog, cache, copy>>
    PROVE  Quiet
BY DEF TypeInv, TypeOK, Request, Proceed, Quiet

LEMMA ReadCases ==
    ASSUME TypeInv, NEW c \in Clients, Read(c)
    PROVE  Quiet \/ Creates(c)
<1>1. CASE LookUp(c)
  BY <1>1 DEF LookUp, Idle, TypeInv, TypeOK, Quiet, Bases, rows
<1>2. CASE ValidateVersion(c)
  <2>1. PICK x : GoTo(c, x)
    BY <1>2 DEF ValidateVersion
  <2> QED BY <1>2, <2>1, GoToQuiet DEF ValidateVersion
<1>3. CASE ServeHit(c) \/ FillCache(c)
  BY <1>3, ServeQuiet DEF ServeHit, FillCache
<1>4. CASE DropStale(c)
  BY <1>4, GoToQuiet DEF DropStale
<1>5. CASE EnsureRecord(c)
  BY <1>5, GoToQuiet, ProceedQuiet DEF EnsureRecord, rows
<1>6. CASE Initialise(c)
  BY <1>6, ProceedQuiet DEF Initialise, Creates
<1> QED BY <1>1, <1>2, <1>3, <1>4, <1>5, <1>6 DEF Read

LEMMA SubmitQuiet ==
    ASSUME TypeInv, NEW c \in Clients, NEW op, NEW base \in Bases(c), NEW patch,
           Submit(c, op, base, patch)
    PROVE  Quiet
BY DEF TypeInv, TypeOK, Submit, Idle, Quiet, rows

LEMMA AskQuiet ==
    ASSUME TypeInv, NEW c \in Editors, Ask(c)
    PROVE  Quiet
<1>1. \E op, patch : \E base \in Bases(c) : Submit(c, op, base, patch)
  BY DEF Ask, SubmitPatch, SubmitSave, SubmitDiscard, SubmitProperties, SubmitTags,
         Bases, VersionOf
<1> QED BY <1>1, SubmitQuiet DEF Clients

LEMMA PublishCommits ==
    ASSUME TypeInv, NEW c \in Editors, NEW payload \in Payload, Publish(c, payload),
           At(c, "transact"), VersionAccepted(c), request[c].op \in Publications
    PROVE  SomeCommit
<1> DEFINE next == PublishedRecord(payload)
           e == LogEntryFor(c, next, record.published)
<1>1. c \in Clients /\ next \in Record /\ record.published \in Payload
  BY TransactingType, SavedRecordTypes DEF Clients
<1>2. e \in LogEntry
  BY <1>1 DEF LogEntryFor, LogEntry, TypeInv, TypeOK, Request, Record
<1>3. Commit(c, next, record.published)
  BY DEF Publish, PublishedRecord
<1>4. Revision(next, e)
  BY DEF Revision, PublishedRecord, LogEntryFor
<1>5. next.draft = next.published
  BY DEF PublishedRecord
<1> HIDE DEF next
<1>6. Commits(c, next, e)
  BY <1>3, <1>4, <1>5 DEF Commits, Commit
<1> QED BY <1>1, <1>2, <1>6 DEF SomeCommit

LEMMA DraftCommits ==
    ASSUME TypeInv, NEW c \in Editors, NEW next \in Record,
           Commit(c, next, record.draft),
           At(c, "transact"), VersionAccepted(c), request[c].op \notin Publications,
           next.version = record.version + 1, next.published = record.published,
           next.publishedVersion = record.publishedVersion,
           next.status = "CLEAN" => next.draft = next.published
    PROVE  SomeCommit
<1> DEFINE e == LogEntryFor(c, next, record.draft)
<1>1. c \in Clients /\ record.draft \in Payload
  BY TransactingType DEF Clients
<1>2. e \in LogEntry
  BY <1>1 DEF LogEntryFor, LogEntry, TypeInv, TypeOK, Request, Record
<1>3. Revision(next, e)
  BY DEF Revision, LogEntryFor
<1>4. Commits(c, next, e)
  BY <1>3 DEF Commits, Commit
<1> QED BY <1>2, <1>4 DEF SomeCommit

LEMMA WriteCases ==
    ASSUME TypeInv, NEW c \in Editors, Write(c)
    PROVE  Quiet \/ SomeCommit
<1>1. c \in Clients
  BY DEF Clients
<1>2. CASE PatchDraft(c)
  <2> DEFINE after == MergeDraftPatch(record.draft, request[c].patch)
  <2>1. At(c, "transact") /\ VersionAccepted(c) /\ request[c].op = "PATCH_DRAFT"
    BY <1>2 DEF PatchDraft, Transacting
  <2>2. PICK reordered \in BOOLEAN :
          Commit(c, PatchedRecord(after, reordered), record.draft)
    BY <1>2 DEF PatchDraft, PatchedRecord
  <2>3. after \in Payload /\ record \in Record
    BY <1>1, <2>1, TransactingType, MergeType
  <2> HIDE DEF after
  <2> DEFINE next == PatchedRecord(after, reordered)
  <2>4. next \in Record
    BY <2>3, SavedRecordTypes
  <2>5. /\ next.version = record.version + 1 /\ next.published = record.published
        /\ next.publishedVersion = record.publishedVersion
        /\ next.draft = after /\ next.status = StatusAfterPatch(after, reordered)
    BY <2>3 DEF PatchedRecord, Record
  <2>6. next.status = "CLEAN" => next.draft = next.published
    BY <2>5 DEF StatusAfterPatch, StatesEqual
  <2> HIDE DEF next
  <2> QED
    BY <2>1, <2>2, <2>4, <2>5, <2>6, DraftCommits DEF Publications, next
<1>3. CASE DiscardDraft(c)
  <2>1. /\ At(c, "transact") /\ VersionAccepted(c)
        /\ request[c].op = "DISCARD_DRAFT"
        /\ Commit(c, DiscardedRecord, record.draft)
    BY <1>3 DEF DiscardDraft, DiscardedRecord, Transacting
  <2>2. record \in Record /\ DiscardedRecord \in Record
    BY <1>1, <2>1, TransactingType, SavedRecordTypes
  <2>3. /\ DiscardedRecord.version = record.version + 1
        /\ DiscardedRecord.published = record.published
        /\ DiscardedRecord.publishedVersion = record.publishedVersion
        /\ DiscardedRecord.draft = record.published
    BY <2>2 DEF DiscardedRecord, Record
  <2> QED BY <2>1, <2>2, <2>3, DraftCommits DEF Publications
<1>4. CASE SaveDraft(c)
  BY <1>1, <1>4, TransactingType, PublishCommits
  DEF SaveDraft, Transacting, Publications
<1>5. CASE PublishItemProperties(c)
  BY <1>1, <1>5, PublishedPayloadTypes, PublishCommits
  DEF PublishItemProperties, Transacting, Publications
<1>6. CASE PublishTags(c)
  BY <1>1, <1>6, PublishedPayloadTypes, PublishCommits
  DEF PublishTags, Transacting, Publications
<1>7. CASE Abandon(c)
  BY <1>1, <1>7 DEF Abandon, Idle, TypeInv, TypeOK, Quiet, Bases, rows
<1> QED BY <1>2, <1>3, <1>4, <1>5, <1>6, <1>7 DEF Write

LEMMA NextCases ==
    ASSUME TypeInv, [Next]_vars
    PROVE  Quiet \/ (\E c \in Clients : Creates(c)) \/ SomeCommit
<1>1. CASE \E c \in Clients : Read(c)
  BY <1>1, ReadCases
<1>2. CASE \E c \in Editors : Ask(c) \/ Write(c)
  BY <1>2, AskQuiet, WriteCases
<1>3. CASE EvictEntry
  BY <1>3 DEF EvictEntry, Quiet, rows
<1>4. CASE Restart
  BY <1>4 DEF Restart, Idle, Quiet, Bases, rows
<1>5. CASE UNCHANGED vars
  BY <1>5 DEF vars, Quiet
<1> QED BY <1>1, <1>2, <1>3, <1>4, <1>5 DEF Next

-----------------------------------------------------------------------------
(* The inductive invariant. *)

\* Nothing is held, cached or copied before the record exists.
NothingBeforeTheRecord ==
    record = NoRecord =>
      /\ cache = NoRecord
      /\ \A c \in Clients : request[c].held = NoRecord /\ copy[c] = NoRecord

\* The version a request names is that of the client's copy.
BasesAreCopies ==
    \A c \in Clients : request[c].base # NoBase =>
      copy[c] # NoRecord /\ request[c].base = copy[c].version

HistoryInv ==
    /\ TypeInv
    /\ CleanMeansPublished
    /\ LogTellsTheHistory
    /\ CopiesTellTheHistory
    /\ ViewersSeePublications
    /\ NothingBeforeTheRecord
    /\ BasesAreCopies

LEMMA HistoryInit == Init => HistoryInv
<1> SUFFICES ASSUME Init PROVE HistoryInv
  OBVIOUS
<1>1. TypeInv
  BY TypeInvInit
<1>2. \A c \in Clients :
        /\ request[c].held = NoRecord /\ request[c].base = NoBase
        /\ copy[c] = NoRecord
  BY DEF Init, Idle
<1> QED
  BY <1>1, <1>2
  DEF Init, HistoryInv, CleanMeansPublished, LogTellsTheHistory, Clients,
      CopiesTellTheHistory, ViewersSeePublications, NothingBeforeTheRecord,
      BasesAreCopies

\* Quiet steps only move around what the log already explains.
LEMMA QuietKeepsHistory ==
    ASSUME HistoryInv, TypeInv', Quiet
    PROVE  HistoryInv'
<1>1. Origin' = Origin
  BY DEF Quiet, Origin
<1>2. \A r : ExplainedBy(r, changeLog, Origin)
              <=> ExplainedBy(r, changeLog', Origin')
  BY <1>1 DEF Quiet
<1>3. CleanMeansPublished' /\ LogTellsTheHistory'
  BY <1>1 DEF HistoryInv, Quiet, CleanMeansPublished, LogTellsTheHistory, Explained
<1>4. \A c \in Clients : request[c].held # NoRecord =>
        ExplainedBy(request[c].held, changeLog, Origin)
  BY DEF HistoryInv, CopiesTellTheHistory, Explained
<1>5. /\ cache # NoRecord => ExplainedBy(cache, changeLog, Origin)
      /\ record # NoRecord => ExplainedBy(record, changeLog, Origin)
  BY DEF HistoryInv, CopiesTellTheHistory, LogTellsTheHistory, Explained
<1>6. cache' # NoRecord => Explained(cache)'
  BY <1>2, <1>4, <1>5 DEF Quiet, Explained
<1>7. \A c \in Clients : request'[c].held # NoRecord =>
        ExplainedBy(request'[c].held, changeLog', Origin')
  BY <1>2, <1>4, <1>5 DEF Quiet
<1>8. \A c \in Editors : copy'[c] # NoRecord =>
        ExplainedBy(copy'[c], changeLog', Origin')
  <2> TAKE c \in Editors
  <2>1. c \in Clients
    BY DEF Clients
  <2>2. CASE copy'[c] = copy[c]
    BY <1>2, <2>2 DEF HistoryInv, CopiesTellTheHistory, Explained
  <2>3. CASE request[c].held # NoRecord /\ copy'[c] = Envelope(c, request[c].held)
    BY <1>2, <1>4, <2>1, <2>3 DEF Envelope
  <2> QED BY <2>1, <2>2, <2>3 DEF Quiet
<1>9. CopiesTellTheHistory'
  BY <1>6, <1>7, <1>8 DEF CopiesTellTheHistory, Explained
<1>10. \A c \in Viewers : copy'[c] # NoRecord =>
         /\ copy'[c].draft = copy'[c].published
         /\ PublishedExplained(copy'[c], changeLog', Origin')
  <2> TAKE c \in Viewers
  <2>1. c \in Clients /\ c \notin Editors
    BY ClientsAssumption DEF Clients
  <2>2. CASE copy'[c] = copy[c]
    BY <1>1, <2>2 DEF HistoryInv, ViewersSeePublications, Quiet
  <2>3. CASE request[c].held # NoRecord /\ copy'[c] = Envelope(c, request[c].held)
    <3> DEFINE r == request[c].held
    <3>1. r \in Record
      BY <2>1, <2>3 DEF HistoryInv, TypeInv, TypeOK, Request
    <3>2. PublishedExplained(r, changeLog', Origin')
      BY <1>2, <1>4, <2>1, <2>3 DEF ExplainedBy
    <3>3. copy'[c] = [r EXCEPT !.draft = r.published]
      BY <2>1, <2>3 DEF Envelope
    <3> HIDE DEF r
    <3>4. /\ copy'[c].draft = r.published /\ copy'[c].published = r.published
          /\ copy'[c].publishedVersion = r.publishedVersion
      BY <3>1, <3>3 DEF Record
    <3> QED BY <3>2, <3>4 DEF PublishedExplained
  <2> QED BY <2>1, <2>2, <2>3 DEF Quiet
<1>11. ViewersSeePublications'
  BY <1>10 DEF ViewersSeePublications
<1>12. NothingBeforeTheRecord'
  BY DEF HistoryInv, NothingBeforeTheRecord, Quiet
<1>13. BasesAreCopies'
  <2> SUFFICES ASSUME NEW c \in Clients, request'[c].base # NoBase
               PROVE  copy'[c] # NoRecord /\ request'[c].base = copy'[c].version
    BY DEF BasesAreCopies
  <2>1. copy'[c] = copy[c] /\ request'[c].base \in {request[c].base} \cup Bases(c)
    BY DEF Quiet
  <2> QED
    BY <2>1 DEF HistoryInv, BasesAreCopies, Bases, VersionOf, NoBase
<1> QED
  BY <1>3, <1>9, <1>11, <1>12, <1>13 DEF HistoryInv

\* The first record starts the history.
LEMMA CreationKeepsHistory ==
    ASSUME HistoryInv, TypeInv', NEW c \in Clients, Creates(c)
    PROVE  HistoryInv'
<1>1. changeLog' = <<>> /\ cache' = NoRecord
  BY DEF HistoryInv, LogTellsTheHistory, NothingBeforeTheRecord, Creates
<1>2. /\ record' \in Record /\ record' # NoRecord /\ record'.version = 1
      /\ record'.publishedVersion = 1 /\ record'.draft = record'.published
  BY FirstRecordType, NoRecordAssumption
  DEF HistoryInv, TypeInv, TypeOK, Creates, FirstRecord
<1>3. Explained(record)'
  BY <1>1, <1>2
  DEF Explained, ExplainedBy, DraftExplained, CountersExplained, PublishedExplained,
      Origin
<1>4. LogTellsTheHistory' /\ CleanMeansPublished'
  BY <1>1, <1>2, <1>3
  DEF LogTellsTheHistory, LogInOrder, PublicationsInOrder, CleanMeansPublished
<1>5. \A d \in Clients :
        request'[d].held \in {NoRecord, record'} /\ copy'[d] = NoRecord
  BY DEF HistoryInv, NothingBeforeTheRecord, TypeInv, TypeOK, Request, Creates, Proceed
<1>6. CopiesTellTheHistory' /\ ViewersSeePublications'
  BY <1>1, <1>3, <1>5
  DEF CopiesTellTheHistory, ViewersSeePublications, Clients, Explained
<1>7. BasesAreCopies'
  <2>1. \A d \in Clients : request'[d].base = request[d].base /\ copy'[d] = copy[d]
    BY DEF HistoryInv, TypeInv, TypeOK, Request, Creates, Proceed
  <2> QED BY <2>1 DEF HistoryInv, BasesAreCopies
<1> QED
  BY <1>2, <1>4, <1>6, <1>7 DEF HistoryInv, NothingBeforeTheRecord

\* A commit adds the entry that explains the record it saves.
LEMMA CommitKeepsHistory ==
    ASSUME HistoryInv, TypeInv', NEW c \in Editors, NEW next \in Record,
           NEW e \in LogEntry, Commits(c, next, e)
    PROVE  HistoryInv'
<1>1. /\ TypeOK /\ LogTellsTheHistory /\ c \in Clients /\ record # NoRecord
      /\ Revision(next, e) /\ changeLog \in Seq(LogEntry)
  BY TransactingType DEF HistoryInv, TypeInv, TypeOK, Commits, Clients
<1>2. Origin' = Origin /\ changeLog' = Append(changeLog, e) /\ record' = next
  BY <1>1, OriginKept DEF Commits
<1>3. \A r \in Record : ExplainedBy(r, changeLog, Origin)
                            => ExplainedBy(r, changeLog', Origin')
  BY <1>1, <1>2, AppendExplains
<1>4. ExplainedBy(next, changeLog', Origin') /\ next.version = Len(changeLog') + 1
  BY <1>1, <1>2, CommitExplainsRecord
<1>5. LogTellsTheHistory'
  BY <1>1, <1>2, <1>4, CommitKeepsLogOrder, NoRecordAssumption
  DEF LogTellsTheHistory, Explained
<1>6. CleanMeansPublished'
  BY <1>2 DEF Commits, CleanMeansPublished
<1>7. \A d \in Clients :
        /\ request'[d] = IF d = c THEN Idle ELSE request[d]
        /\ (copy'[d] = copy[d]) \/ (d = c /\ copy'[d] = next)
  BY <1>1 DEF Commits, TypeOK
<1>8. CopiesTellTheHistory'
  <2>1. cache' # NoRecord => ExplainedBy(cache', changeLog', Origin')
    BY <1>1, <1>3
    DEF Commits, HistoryInv, CopiesTellTheHistory, Explained, TypeOK
  <2>2. \A d \in Clients : request'[d].held # NoRecord =>
          ExplainedBy(request'[d].held, changeLog', Origin')
    <3> TAKE d \in Clients
    <3>1. request[d].held \in Record \cup {NoRecord}
      BY <1>1 DEF TypeOK, Request
    <3>2. Idle.held = NoRecord
      BY DEF Idle
    <3> QED
      BY <1>3, <1>7, <3>1, <3>2 DEF HistoryInv, CopiesTellTheHistory, Explained
  <2>3. \A d \in Editors : copy'[d] # NoRecord =>
          ExplainedBy(copy'[d], changeLog', Origin')
    <3> TAKE d \in Editors
    <3>1. d \in Clients /\ copy[d] \in Record \cup {NoRecord}
      BY <1>1 DEF TypeOK, Clients
    <3> QED
      BY <1>3, <1>4, <1>7, <3>1 DEF HistoryInv, CopiesTellTheHistory, Explained
  <2> QED BY <2>1, <2>2, <2>3 DEF CopiesTellTheHistory, Explained
<1>9. ViewersSeePublications'
  <2> SUFFICES ASSUME NEW d \in Viewers, copy'[d] # NoRecord
               PROVE  /\ copy'[d].draft = copy'[d].published
                      /\ PublishedExplained(copy'[d], changeLog', Origin')
    BY DEF ViewersSeePublications
  <2>1. copy'[d] = copy[d]
    BY <1>7, ClientsAssumption DEF Clients
  <2>2. /\ copy[d].draft = copy[d].published
        /\ PublishedExplained(copy[d], changeLog, Origin)
    BY <2>1 DEF HistoryInv, ViewersSeePublications
  <2>3. /\ Len(changeLog') = Len(changeLog) + 1 /\ Len(changeLog) \in Nat
        /\ \A i \in 1 .. Len(changeLog) : changeLog'[i] = changeLog[i]
    BY <1>1, <1>2
  <2>4. PublishedExplained(copy[d], changeLog', Origin')
    BY <1>2, <2>2, <2>3 DEF PublishedExplained
  <2> QED BY <2>1, <2>2, <2>4
<1>10. NothingBeforeTheRecord'
  BY <1>2, NoRecordAssumption DEF NothingBeforeTheRecord
<1>11. BasesAreCopies'
  <2> SUFFICES ASSUME NEW d \in Clients, request'[d].base # NoBase
               PROVE  copy'[d] # NoRecord /\ request'[d].base = copy'[d].version
    BY DEF BasesAreCopies
  <2>1. d # c
    BY <1>7 DEF Idle
  <2> QED BY <1>7, <2>1 DEF HistoryInv, BasesAreCopies
<1> QED
  BY <1>5, <1>6, <1>8, <1>9, <1>10, <1>11 DEF HistoryInv

LEMMA HistoryStep == HistoryInv /\ [Next]_vars => HistoryInv'
<1> SUFFICES ASSUME HistoryInv, [Next]_vars PROVE HistoryInv'
  OBVIOUS
<1>1. TypeInv /\ TypeInv'
  BY TypeInvStep DEF HistoryInv
<1> QED
  BY <1>1, NextCases, QuietKeepsHistory, CreationKeepsHistory, CommitKeepsHistory
  DEF SomeCommit

LEMMA HistoryInvariant == Spec => []HistoryInv
BY HistoryInit, HistoryStep, PTL DEF Spec

-----------------------------------------------------------------------------
(* Theorems. *)

\* A CLEAN record's draft is its published payload, for any payloads and clients:
\* runWithLockedCleanState, which asks for CLEAN only, destroys no edit.
THEOREM CleanStatusIsRight == Spec => []CleanMeansPublished
BY HistoryInvariant, PTL DEF HistoryInv

\* The change log written in each transaction is the record's complete history.
THEOREM LogIsComplete == Spec => []LogTellsTheHistory
BY HistoryInvariant, PTL DEF HistoryInv

\* However requests interleave, are lost or die in a restart, what is cached, held
\* across an await or shown to an editor is what the record held under its version.
THEOREM CopiesAreTrue == Spec => []CopiesTellTheHistory
BY HistoryInvariant, PTL DEF HistoryInv

\* Read-only clients never see a draft, through the cache or past it.
THEOREM DraftsStayHidden == Spec => []ViewersSeePublications
BY HistoryInvariant, PTL DEF HistoryInv

\* assertVersion's comparison of numbers protects content: a write that names a
\* version finds the row exactly as its client saw it.
THEOREM NoLostUpdate == Spec => NamedVersionsLoseNothing
<1> DEFINE Kept ==
      \A c \in Clients : Writes(c) /\ request[c].base # NoBase =>
          /\ copy[c].draft = record.draft
          /\ copy[c].published = record.published
<1>1. HistoryInv /\ HistoryInv' /\ [Next]_vars => Kept
  <2> SUFFICES ASSUME HistoryInv, HistoryInv', [Next]_vars,
                      NEW c \in Clients, Writes(c), request[c].base # NoBase
               PROVE  /\ copy[c].draft = record.draft
                      /\ copy[c].published = record.published
    OBVIOUS
  <2>1. record' # record /\ At(c, "transact") /\ request'[c].pc = "idle"
    BY DEF Writes
  <2>2. record # NoRecord /\ TypeInv /\ TypeOK
    BY <2>1, TransactingType DEF HistoryInv, TypeInv
  <2>3. PICK d \in Editors, next \in Record, e \in LogEntry : Commits(d, next, e)
    BY <2>1, <2>2, NextCases DEF Quiet, Creates, SomeCommit
  <2>4. d = c
    BY <2>1, <2>2, <2>3 DEF Commits, TypeOK, At, Clients
  <2>5. request[c].base = record.version
    BY <2>3, <2>4 DEF Commits, VersionAccepted
  <2>6. /\ copy[c] \in Record /\ record \in Record
        /\ copy[c].version = record.version
    BY <2>2, <2>5 DEF HistoryInv, BasesAreCopies, TypeOK
  <2>7. c \in Editors /\ copy[c] # NoRecord
    BY <2>4, <2>6, NoRecordAssumption
  <2>8. /\ ExplainedBy(copy[c], changeLog, Origin)
        /\ ExplainedBy(record, changeLog, Origin)
        /\ PublicationsInOrder(changeLog) /\ changeLog \in Seq(LogEntry)
    BY <2>2, <2>7
    DEF HistoryInv, CopiesTellTheHistory, LogTellsTheHistory, Explained, TypeOK
  <2> QED BY <2>6, <2>8, EqualVersionsEqualContent
<1>2. HistoryInv /\ HistoryInv' /\ [Next]_vars => [Kept]_vars
  BY <1>1
<1> QED BY <1>2, HistoryInvariant, PTL DEF Spec, NamedVersionsLoseNothing

\* Versions count the changes one by one, also across crashes and creation races.
THEOREM VersionsOnlyGrow == Spec => VersionsGrow
<1> DEFINE Grows ==
      record # NoRecord =>
          /\ record' # NoRecord
          /\ record'.version = record.version + (IF record' = record THEN 0 ELSE 1)
          /\ record'.publishedVersion >= record.publishedVersion
          /\ record'.published # record.published
               => record'.publishedVersion = record.publishedVersion + 1
<1>1. HistoryInv /\ [Next]_vars => Grows
  <2> SUFFICES ASSUME HistoryInv, [Next]_vars, record # NoRecord
               PROVE  Grows
    OBVIOUS
  <2>1. /\ record.version \in Nat /\ record.publishedVersion \in Nat
        /\ TypeInv
    BY DEF HistoryInv, TypeInv, TypeOK, Record
  <2>2. CASE record' = record
    BY <2>1, <2>2
  <2>3. CASE record' # record
    <3>1. PICK c \in Editors, next \in Record, e \in LogEntry : Commits(c, next, e)
      BY <2>1, <2>3, NextCases DEF Quiet, Creates, SomeCommit
    <3>2. record' = next /\ Revision(next, e) /\ next # NoRecord
      BY <3>1, NoRecordAssumption DEF Commits
    <3> QED BY <2>1, <2>3, <3>2 DEF Revision
  <2> QED BY <2>2, <2>3
<1>2. HistoryInv /\ [Next]_vars => [Grows]_vars
  BY <1>1
<1> QED BY <1>2, HistoryInvariant, PTL DEF Spec, VersionsGrow

-----------------------------------------------------------------------------
(* Reads. *)

\* No step lowers the version of the record.
LEMMA VersionNotLowered ==
    ASSUME TypeInv, [Next]_vars
    PROVE  VersionOf(record) <= VersionOf(record')
<1>1. /\ VersionOf(record) \in Nat
      /\ record = NoRecord => VersionOf(record) = 0
      /\ record # NoRecord => VersionOf(record) = record.version
  BY VersionOfType DEF TypeInv, TypeOK, VersionOf
<1>2. CASE record' = record
  BY <1>1, <1>2
<1>3. CASE \E c \in Clients : Creates(c)
  <2>1. record = NoRecord /\ VersionOf(record') \in Nat
    BY <1>3, FirstRecordType, VersionOfType DEF Creates, TypeInv, TypeOK
  <2> QED BY <1>1, <2>1
<1>4. CASE SomeCommit
  <2>1. PICK c \in Editors, next \in Record, e \in LogEntry : Commits(c, next, e)
    BY <1>4 DEF SomeCommit
  <2>2. record # NoRecord /\ record' # NoRecord /\ record'.version = record.version + 1
    BY <2>1, TransactingType, NoRecordAssumption DEF Commits, Revision, Clients
  <2> QED BY <1>1, <2>2 DEF VersionOf
<1> QED BY <1>2, <1>3, <1>4, NextCases DEF Quiet

\* A request that reaches the end of its read holds what the record was seen to be.
Held(q, r) == r # NoRecord /\ q.held.version = r.version

\* What a step makes of a request: nothing, a new one, the same one further on,
\* or one that is about to be answered.
Moved(old, new) ==
    \/ new = old
    \/ new.started \in {0, VersionOf(record)} /\ new.pc \notin {"hit", "fill"}
    \/ new.started = old.started /\ new.pc \notin {"hit", "fill"}
    \/ new.started = old.started /\ Held(new, record')

LEMMA ReadMoves ==
    ASSUME TypeInv, NEW c \in Clients, Read(c), NEW d \in Clients
    PROVE  Moved(request[d], request'[d])
<1>1. request \in [Clients -> Request]
  BY DEF TypeInv, TypeOK
<1>2. CASE LookUp(c)
  BY <1>1, <1>2 DEF LookUp, Idle, Moved
<1>3. CASE ValidateVersion(c)
  BY <1>1, <1>3 DEF ValidateVersion, GoTo, Request, Moved, Held, rows
<1>4. CASE ServeHit(c) \/ FillCache(c)
  BY <1>1, <1>4 DEF ServeHit, FillCache, Serve, Idle, Moved
<1>5. CASE DropStale(c)
  BY <1>1, <1>5 DEF DropStale, GoTo, Request, Moved
<1>6. CASE EnsureRecord(c)
  BY <1>1, <1>6 DEF EnsureRecord, GoTo, Proceed, Request, Moved, Held, rows
<1>7. CASE Initialise(c)
  <2>1. record' # NoRecord
    BY <1>7, FirstRecordType, NoRecordAssumption DEF Initialise, TypeInv, TypeOK
  <2> QED BY <1>1, <1>7, <2>1 DEF Initialise, Proceed, Request, Moved, Held
<1> QED BY <1>2, <1>3, <1>4, <1>5, <1>6, <1>7 DEF Read

LEMMA WriteMoves ==
    ASSUME TypeInv, NEW c \in Editors, Ask(c) \/ Write(c), NEW d \in Clients
    PROVE  Moved(request[d], request'[d])
<1>1. c \in Clients /\ request \in [Clients -> Request]
  BY DEF TypeInv, TypeOK, Clients
<1>2. CASE \E op, base, patch : Submit(c, op, base, patch)
  BY <1>1, <1>2 DEF Submit, Idle, Moved
<1>3. CASE request' = [request EXCEPT ![c] = Idle]
  BY <1>1, <1>3 DEF Idle, Moved
<1>4. Ask(c) => \E op, base, patch : Submit(c, op, base, patch)
  BY DEF Ask, SubmitPatch, SubmitSave, SubmitDiscard, SubmitProperties, SubmitTags
<1>5. Write(c) => request' = [request EXCEPT ![c] = Idle]
  BY DEF Write, PatchDraft, DiscardDraft, SaveDraft, PublishItemProperties, PublishTags,
         Publish, Commit, Abandon
<1> QED BY <1>2, <1>3, <1>4, <1>5

LEMMA RequestMoves ==
    ASSUME TypeInv, [Next]_vars, NEW d \in Clients
    PROVE  Moved(request[d], request'[d])
<1>1. CASE EvictEntry \/ UNCHANGED vars
  BY <1>1 DEF EvictEntry, vars, Moved
<1>2. CASE Restart
  BY <1>2 DEF Restart, Idle, Moved
<1> QED BY <1>1, <1>2, ReadMoves, WriteMoves DEF Next

\* What a request about to be answered holds is no older than its beginning.
Fresh(q) ==
    /\ q.started <= VersionOf(record)
    /\ q.pc \in {"hit", "fill"} => q.started <= q.held.version

FreshInv == \A c \in Clients : Fresh(request[c])

LEMMA FreshStep ==
    ASSUME TypeInv, TypeInv', FreshInv, [Next]_vars
    PROVE  FreshInv'
<1> SUFFICES ASSUME NEW c \in Clients PROVE Fresh(request[c])'
  BY DEF FreshInv
<1>1. /\ VersionOf(record) \in Nat /\ VersionOf(record') \in Nat
      /\ request[c].started \in Nat /\ request'[c].started \in Nat
  BY VersionOfType DEF TypeInv, TypeOK, Request
<1>2. VersionOf(record) <= VersionOf(record') /\ Fresh(request[c])
  BY VersionNotLowered DEF FreshInv
<1>3. request'[c].started <= VersionOf(record')
  BY <1>1, <1>2, RequestMoves DEF Moved, Fresh
<1>4. Held(request'[c], record') => request'[c].held.version = VersionOf(record')
  BY DEF Held, VersionOf
<1>5. request'[c].pc \in {"hit", "fill"} => request'[c].started <= request'[c].held.version
  BY <1>1, <1>2, <1>3, <1>4, RequestMoves DEF Moved, Fresh
<1> QED BY <1>3, <1>5 DEF Fresh

LEMMA FreshInvariant == Spec => []FreshInv
<1>1. Init => FreshInv
  BY DEF Init, FreshInv, Fresh, Idle, VersionOf
<1>2. HistoryInv /\ HistoryInv' /\ FreshInv /\ [Next]_vars => FreshInv'
  BY FreshStep DEF HistoryInv
<1> QED BY <1>1, <1>2, HistoryInvariant, PTL DEF Spec

\* Only the end of its read answers a client that is reading.
LEMMA ReadersAreAnswered ==
    ASSUME TypeInv, [Next]_vars, NEW c \in Clients, request[c].pc \in {"hit", "fill"},
           copy'[c] # copy[c]
    PROVE  copy'[c] = Envelope(c, request[c].held)
<1>1. copy \in [Clients -> Record \cup {NoRecord}]
  BY DEF TypeInv, TypeOK
<1>2. CASE \E d \in Clients : Read(d)
  BY <1>1, <1>2 DEF Read, LookUp, ValidateVersion, ServeHit, FillCache, Serve, DropStale,
     EnsureRecord, Initialise
<1>3. CASE \E d \in Editors : Ask(d)
  BY <1>3 DEF Ask, SubmitPatch, SubmitSave, SubmitDiscard, SubmitProperties, SubmitTags,
     Submit
<1>4. CASE \E d \in Editors : Write(d)
  <2>1. PICK d \in Editors : Write(d)
    BY <1>4
  <2>2. /\ At(d, "transact")
        /\ copy' = copy \/ \E next : copy' = [copy EXCEPT ![d] = next]
    BY <2>1 DEF Write, PatchDraft, DiscardDraft, SaveDraft, PublishItemProperties,
       PublishTags, Publish, Commit, Abandon, Transacting
  <2> QED BY <1>1, <2>2 DEF At
<1> QED BY <1>2, <1>3, <1>4 DEF Next, EvictEntry, Restart, vars

\* However slow a read is, and whatever is cached, evicted or committed around its
\* awaits (getCachedViewerState): it shows nothing older than its beginning.
THEOREM ReadsStayFresh == Spec => ReadsAreFresh
<1> DEFINE FreshCopies ==
      \A c \in Clients :
          request[c].pc \in {"hit", "fill"} /\ copy'[c] # copy[c]
            => copy'[c].version >= request[c].started
<1>1. HistoryInv /\ FreshInv /\ [Next]_vars => FreshCopies
  <2> SUFFICES ASSUME HistoryInv, FreshInv, [Next]_vars, NEW c \in Clients,
                      request[c].pc \in {"hit", "fill"}, copy'[c] # copy[c]
               PROVE  copy'[c].version >= request[c].started
    OBVIOUS
  <2>1. TypeInv /\ request[c].held \in Record
    BY DEF HistoryInv, TypeInv, TypeOK, RequestsFit, RequestFits, Request
  <2>2. copy'[c].version = request[c].held.version
    BY <2>1, ReadersAreAnswered DEF Envelope, Record
  <2>3. /\ request[c].held.version \in Nat /\ request[c].started \in Nat
        /\ request[c].started <= request[c].held.version
    BY <2>1 DEF FreshInv, Fresh, TypeInv, TypeOK, Request, Record
  <2> QED BY <2>2, <2>3
<1>2. HistoryInv /\ FreshInv /\ [Next]_vars => [FreshCopies]_vars
  BY <1>1
<1> QED BY <1>2, HistoryInvariant, FreshInvariant, PTL DEF Spec, ReadsAreFresh

-----------------------------------------------------------------------------
(* Immediate publications. *)

\* The record a publication of parameters or of tags leaves, on a CLEAN record.
LEMMA ImmediateRecord ==
    ASSUME HistoryInv, NEW c \in Clients, NEW d \in Editors, Write(d),
           At(c, "transact"), request'[c].pc = "idle", record' # record,
           request[c].op \in {"PUBLISH_PROPERTIES", "PUBLISH_TAGS"}
    PROVE  /\ record \in Record /\ record.draft \in Payload
           /\ record.draft = record.published
           /\ \/ /\ request[c].op = "PUBLISH_PROPERTIES"
                 /\ record'.draft = [record.published EXCEPT
                                       !.itemProperties = request[c].patch.itemProperties]
              \/ /\ request[c].op = "PUBLISH_TAGS"
                 /\ record'.draft = ReplaceTags(record.published, request[c].patch.tags)
<1>1. TypeInv /\ request \in [Clients -> Request] /\ d \in Clients
  BY DEF HistoryInv, TypeInv, TypeOK, Clients
<1>2. request' = [request EXCEPT ![d] = Idle]
  BY DEF Write, PatchDraft, DiscardDraft, SaveDraft, PublishItemProperties, PublishTags,
         Publish, Commit, Abandon
<1>3. d = c
  BY <1>1, <1>2 DEF At
<1>4. record \in Record /\ record # NoRecord /\ record.draft \in Payload
  BY <1>1, TransactingType
<1>5. \/ PublishItemProperties(c) /\ request[c].op = "PUBLISH_PROPERTIES"
      \/ PublishTags(c) /\ request[c].op = "PUBLISH_TAGS"
  BY <1>3 DEF Write, PatchDraft, DiscardDraft, SaveDraft, PublishItemProperties,
     PublishTags, Abandon, Transacting, rows
<1>6. record.draft = record.published
  BY <1>4, <1>5 DEF PublishItemProperties, PublishTags, HistoryInv, CleanMeansPublished
<1> QED
  BY <1>4, <1>5, <1>6 DEF PublishItemProperties, PublishTags, Publish, Commit

\* publishTagsImmediately and publishItemPropertiesImmediately build on the published
\* payload, and nothing that only the draft holds is lost by it.
THEOREM ImmediateIsNarrow == Spec => ImmediateKeepsTheRest
<1> DEFINE Narrow ==
      \A c \in Clients :
          Writes(c) /\ request[c].op \in {"PUBLISH_PROPERTIES", "PUBLISH_TAGS"} =>
            /\ record'.draft.columns = record.draft.columns
            /\ record'.draft.itemProperties.params # record.draft.itemProperties.params
                 => request[c].op = "PUBLISH_PROPERTIES"
            /\ record'.draft.tags # record.draft.tags => request[c].op = "PUBLISH_TAGS"
<1>1. HistoryInv /\ [Next]_vars => Narrow
  <2> SUFFICES ASSUME HistoryInv, [Next]_vars, NEW c \in Clients, Writes(c),
                      request[c].op \in {"PUBLISH_PROPERTIES", "PUBLISH_TAGS"}
               PROVE  /\ record'.draft.columns = record.draft.columns
                      /\ record'.draft.itemProperties.params
                            # record.draft.itemProperties.params
                           => request[c].op = "PUBLISH_PROPERTIES"
                      /\ record'.draft.tags # record.draft.tags
                           => request[c].op = "PUBLISH_TAGS"
    OBVIOUS
  <2>1. At(c, "transact") /\ request'[c].pc = "idle" /\ record' # record
    BY DEF Writes
  <2>2. TypeInv /\ record # NoRecord /\ request \in [Clients -> Request]
    BY <2>1, TransactingType DEF HistoryInv, TypeInv, TypeOK
  <2>3. \E d \in Editors : Write(d)
    <3>1. ~\E d \in Clients : Read(d)
      BY <2>1, <2>2 DEF Read, LookUp, ValidateVersion, ServeHit, FillCache, Serve,
         DropStale, EnsureRecord, Initialise, rows
    <3>2. ~\E d \in Editors : Ask(d)
      BY <2>1 DEF Ask, SubmitPatch, SubmitSave, SubmitDiscard, SubmitProperties,
         SubmitTags, Submit, rows
    <3> QED BY <2>1, <3>1, <3>2 DEF Next, EvictEntry, Restart, vars, rows
  <2>4. record.draft \in Payload
    BY <2>1, <2>3, ImmediateRecord
  <2>5. /\ record.draft = record.published
        /\ \/ /\ request[c].op = "PUBLISH_PROPERTIES"
              /\ record'.draft = [record.published EXCEPT
                                    !.itemProperties = request[c].patch.itemProperties]
           \/ /\ request[c].op = "PUBLISH_TAGS"
              /\ record'.draft = ReplaceTags(record.published, request[c].patch.tags)
    <3>1. PICK d \in Editors : Write(d)
      BY <2>3
    <3> HIDE DEF Narrow
    <3> QED BY <2>1, <3>1, ImmediateRecord
  <2>6. record.published \in Payload
    BY <2>4, <2>5
  <2>7. CASE /\ request[c].op = "PUBLISH_PROPERTIES"
             /\ record'.draft = [record.published EXCEPT
                                   !.itemProperties = request[c].patch.itemProperties]
    BY <2>5, <2>6, <2>7 DEF Payload
  <2>8. CASE /\ request[c].op = "PUBLISH_TAGS"
             /\ record'.draft = ReplaceTags(record.published, request[c].patch.tags)
    <3> DEFINE p == record.published
               t == request[c].patch.tags
    <3>1. p \in Payload /\ p.itemProperties \in ItemProperties
      BY <2>6 DEF Payload
    <3>2. /\ ReplaceTags(p, t).columns = p.columns
          /\ ReplaceTags(p, t).itemProperties.params = p.itemProperties.params
      <4> HIDE DEF p, t
      <4> QED BY <3>1 DEF ReplaceTags, Payload, ItemProperties
    <3> QED BY <2>5, <2>8, <3>2
  <2> QED BY <2>5, <2>7, <2>8
<1>2. HistoryInv /\ [Next]_vars => [Narrow]_vars
  BY <1>1
<1> QED BY <1>2, HistoryInvariant, PTL DEF Spec, ImmediateKeepsTheRest

-----------------------------------------------------------------------------
(* The service implements GuardedDocument: each of its steps, seen through the  *)
(* change log, is a step of the guarded document or leaves it alone.  The past, *)
(* read off the change log.                                                     *)

Below == {p \in Nat \X Nat : p[1] < p[2]}

\* A set of the first n positive numbers has a greatest element.
LEMMA LastOf ==
    ASSUME NEW n \in Nat, NEW S \in SUBSET (1 .. n), S # {}
    PROVE  \E i \in S : \A j \in S : j <= i
<1> DEFINE Distances == {d \in 0 .. n : n - d \in S}
<1>1. IsWellFoundedOn(Below, Nat)
  BY NatLessThanWellFounded DEF OpToRel, Below
<1>2. Distances \subseteq Nat /\ Distances # {}
  <2>1. PICK i \in S : i \in 1 .. n
    OBVIOUS
  <2>2. n - i \in 0 .. n /\ n - (n - i) = i
    BY <2>1
  <2>3. n - i \in Distances
    BY <2>1, <2>2
  <2>4. \A d \in Distances : d \in Nat
    OBVIOUS
  <2> QED BY <2>3, <2>4
<1>3. PICK d \in Distances : \A e \in Distances : ~ (<<e, d>> \in Below)
  <2> HIDE DEF Distances
  <2> QED BY <1>1, <1>2, WFMin
<1>4. n - d \in S /\ d \in 0 .. n
  OBVIOUS
<1>5. ASSUME NEW j \in S PROVE j <= n - d
  <2>1. j \in 1 .. n /\ n - j \in Distances
    <3>1. j \in 1 .. n /\ n - j \in 0 .. n /\ n - (n - j) = j
      OBVIOUS
    <3> QED BY <3>1
  <2>2. n - j \in Nat /\ d \in Nat /\ ~ (<<n - j, d>> \in Below)
    BY <1>3, <1>4, <2>1
  <2>3. ~ (n - j < d)
    BY <2>2 DEF Below
  <2> QED BY <1>4, <2>1, <2>3
<1> QED BY <1>4, <1>5

\* The log reads back what the record held: the document of a version is that of
\* whatever the log explains under this version.
LEMMA DocumentsAreExplained ==
    ASSUME NEW log \in Seq(LogEntry), NEW origin, NEW r \in Record,
           ExplainedBy(r, log, origin), PublicationsInOrder(log)
    PROVE  DocumentAt(log, origin, r.version) = DocumentOf(r)
<1> DEFINE n == r.version
           N == Len(log)
           Past == {i \in 1 .. n - 1 : log[i].changeType \in Publications}
<1>1. /\ n \in 1 .. N + 1 /\ N \in Nat /\ r.publishedVersion \in Nat
      /\ n = 1 => r.publishedVersion = 1
      /\ n > 1 => r.publishedVersion = log[n - 1].publishedVersion
      /\ n = 1 => r.draft = origin
      /\ n > 1 => r.draft = log[n - 1].after
  BY DEF ExplainedBy, DraftExplained, CountersExplained, Record
<1>2. \A i \in 1 .. N : log[i].publishedVersion \in Nat
  BY LogCounters
<1>3. \A j \in 1 .. N : \A i \in 1 .. j - 1 :
        /\ log[i].publishedVersion <= log[j].publishedVersion
        /\ log[j].changeType \in Publications
             => log[i].publishedVersion < log[j].publishedVersion
  BY DEF PublicationsInOrder
<1>4. \A i \in 1 .. N : log[i].changeType \in Publications => log[i].publishedVersion > 1
  BY DEF PublicationsInOrder
<1>5. ASSUME NEW i \in 1 .. N, log[i].changeType \in Publications,
             log[i].publishedVersion = r.publishedVersion
      PROVE  i \in Past
  <2>1. n > 1
    BY <1>1, <1>4, <1>5
  <2>2. ~ (n - 1 < i)
    BY <1>1, <1>2, <1>3, <1>5, <2>1
  <2> QED BY <1>1, <1>5, <2>1, <2>2
<1>6. PublishedAt(log, origin, n) = r.published
  <2>1. CASE Past = {}
    <3>1. r.published = origin
      BY <1>5, <2>1 DEF ExplainedBy, PublishedExplained
    <3> QED BY <2>1, <3>1 DEF PublishedAt
  <2>2. CASE Past # {}
    <3>1. \E i \in Past : \A j \in Past : j <= i
      <4>1. n - 1 \in Nat /\ Past \in SUBSET (1 .. n - 1)
        BY <1>1
      <4> HIDE DEF Past
      <4> QED BY <2>2, <4>1, LastOf
    <3> DEFINE last == CHOOSE i \in Past : \A j \in Past : j <= i
    <3>2. last \in Past /\ \A j \in Past : j <= last
      BY <3>1
    <3> HIDE DEF last
    <3>3. /\ last \in 1 .. N /\ n > 1 /\ last <= n - 1 /\ n - 1 \in 1 .. N
          /\ log[last].changeType \in Publications
      BY <1>1, <3>2
    <3>4. log[last].publishedVersion <= r.publishedVersion
      BY <1>1, <1>2, <1>3, <3>3
    <3>5. r.publishedVersion > 1
      BY <1>1, <1>2, <1>4, <3>3, <3>4
    <3>6. PICK i \in 1 .. N :
            /\ log[i].changeType \in Publications
            /\ log[i].publishedVersion = r.publishedVersion
            /\ log[i].after = r.published
      BY <3>5 DEF ExplainedBy, PublishedExplained
    <3>7. i \in Past /\ i <= last
      BY <1>5, <3>2, <3>6
    <3>8. ~ (i < last)
      BY <1>1, <1>2, <1>3, <3>3, <3>4, <3>6
    <3>9. i = last
      BY <3>3, <3>7, <3>8
    <3>10. PublishedAt(log, origin, n) = log[last].after
      BY <2>2 DEF PublishedAt, last
    <3> QED BY <3>6, <3>9, <3>10
  <2> QED BY <2>1, <2>2
<1>7. DocumentOf(r) = [draft |-> r.draft, published |-> r.published]
  BY NoRecordAssumption DEF DocumentOf
<1> QED BY <1>1, <1>6, <1>7 DEF DocumentAt

\* Entries appended later leave the documents of earlier versions alone.
LEMMA DocumentsStay ==
    ASSUME NEW log \in Seq(LogEntry), NEW e \in LogEntry, NEW origin,
           NEW n \in 1 .. Len(log) + 1
    PROVE  DocumentAt(Append(log, e), origin, n) = DocumentAt(log, origin, n)
<1> DEFINE longer == Append(log, e)
           Past == {i \in 1 .. n - 1 : log[i].changeType \in Publications}
<1>1. \A i \in 1 .. n - 1 : longer[i] = log[i]
  OBVIOUS
<1>2. n \in Nat /\ n # 1 => n - 1 \in 1 .. n - 1
  OBVIOUS
<1> HIDE DEF longer
<1>3. Past = {i \in 1 .. n - 1 : longer[i].changeType \in Publications}
  BY <1>1
<1>4. PublishedAt(longer, origin, n) = PublishedAt(log, origin, n)
  <2>1. CASE Past = {}
    BY <1>3, <2>1 DEF PublishedAt
  <2>2. CASE Past # {}
    <3> DEFINE last == CHOOSE i \in Past : \A j \in Past : j <= i
    <3>1. last \in Past
      <4>1. Past \in SUBSET (1 .. n - 1) /\ n - 1 \in Nat
        OBVIOUS
      <4> HIDE DEF Past
      <4> QED BY <2>2, <4>1, LastOf
    <3>2. longer[last] = log[last]
      BY <1>1, <3>1
    <3>3. PublishedAt(log, origin, n) = log[last].after
      BY <2>2 DEF PublishedAt
    <3> DEFINE Longer == {i \in 1 .. n - 1 : longer[i].changeType \in Publications}
    <3>4. PublishedAt(longer, origin, n) =
            IF Longer = {} THEN origin
            ELSE longer[CHOOSE i \in Longer : \A j \in Longer : j <= i].after
      BY DEF PublishedAt
    <3>5. Longer = Past
      BY <1>3
    <3> HIDE DEF Past, Longer
    <3> QED BY <2>2, <3>2, <3>3, <3>4, <3>5
  <2> QED BY <2>1, <2>2
<1>5. n # 1 => longer[n - 1] = log[n - 1]
  BY <1>1, <1>2
<1> QED BY <1>4, <1>5 DEF DocumentAt, longer

\* Whatever the log explains is a document the record had.
LEMMA ExplainedIsPast ==
    ASSUME HistoryInv, record # NoRecord, NEW r \in Record, Explained(r)
    PROVE  DocumentOf(r) \in PastDocuments
<1>1. /\ PublicationsInOrder(changeLog) /\ changeLog \in Seq(LogEntry)
      /\ record.version = Len(changeLog) + 1
  BY DEF HistoryInv, LogTellsTheHistory, TypeInv, TypeOK
<1>2. r.version \in 1 .. record.version
  BY <1>1 DEF Explained, ExplainedBy, DraftExplained
<1>3. VersionOf(record) = record.version
  BY DEF VersionOf
<1> QED BY <1>1, <1>2, <1>3, DocumentsAreExplained DEF PastDocuments, Explained

\* A commit adds the document of its record to the past.
LEMMA CommitAddsToThePast ==
    ASSUME HistoryInv, NEW c \in Editors, NEW next \in Record,
           NEW e \in LogEntry, Commits(c, next, e)
    PROVE  PastDocuments' = PastDocuments \cup {DocumentOf(next)}
<1>1. /\ TypeOK /\ LogTellsTheHistory /\ record # NoRecord
      /\ changeLog \in Seq(LogEntry) /\ Len(changeLog) \in Nat
      /\ Revision(next, e) /\ record.version = Len(changeLog) + 1
  BY TransactingType
  DEF HistoryInv, TypeInv, TypeOK, LogTellsTheHistory, Commits, Clients
<1>2. PICK v \in Nat : v = record.version
  BY <1>1
<1>3. PICK log \in Seq(LogEntry) : log = changeLog
  BY <1>1
<1>4. PICK origin : origin = Origin
  OBVIOUS
<1>5. Origin' = origin /\ changeLog' = Append(log, e) /\ record' = next
  BY <1>1, <1>3, <1>4, OriginKept DEF Commits
<1>6. next # NoRecord /\ next.version = v + 1 /\ v = Len(log) + 1
  BY <1>1, <1>2, <1>3, NoRecordAssumption DEF Revision
<1>7. \A n \in 1 .. v :
        DocumentAt(Append(log, e), origin, n) = DocumentAt(log, origin, n)
  BY <1>6, DocumentsStay
<1>8. DocumentAt(Append(log, e), origin, v + 1) = DocumentOf(next)
  <2>1. ExplainedBy(next, Append(log, e), origin)
    BY <1>1, <1>3, <1>4, CommitExplainsRecord
  <2>2. PublicationsInOrder(Append(log, e))
    BY <1>1, <1>3, CommitKeepsLogOrder
  <2>3. Append(log, e) \in Seq(LogEntry)
    OBVIOUS
  <2> QED BY <1>6, <2>1, <2>2, <2>3, DocumentsAreExplained
<1>9. VersionOf(record) = v /\ VersionOf(record)' = v + 1
  BY <1>1, <1>2, <1>5, <1>6 DEF VersionOf
<1>10. 1 .. v + 1 = (1 .. v) \cup {v + 1}
  BY <1>6
<1>11. PastDocuments = {DocumentAt(log, origin, n) : n \in 1 .. v}
  BY <1>3, <1>4, <1>9 DEF PastDocuments
<1>12. PastDocuments' = {DocumentAt(Append(log, e), origin, n) : n \in 1 .. v + 1}
  BY <1>5, <1>9 DEF PastDocuments
<1> QED BY <1>7, <1>8, <1>10, <1>11, <1>12

-----------------------------------------------------------------------------
(* What a step is to the guarded document. *)

\* Requests at the end of a read are reads.
ReadersRead ==
    \A c \in Clients :
      request[c].pc \in {"validate", "hit", "stale", "fill"} => request[c].op = "READ"

\* Nothing an editor knows or wants changes.
LEMMA Unseen ==
    ASSUME UNCHANGED <<record, changeLog, copy>>,
           \A c \in Editors : Intent(c)' = Intent(c)
    PROVE  UNCHANGED Promise!vars
<1>1. Origin' = Origin
  BY DEF Origin
<1>2. PastDocuments' = PastDocuments
  BY <1>1 DEF PastDocuments
<1>3. [c \in Editors |-> Intent(c)]' = [c \in Editors |-> Intent(c)]
  OBVIOUS
<1>4. [c \in Editors |-> DocumentOf(copy[c])]' = [c \in Editors |-> DocumentOf(copy[c])]
  OBVIOUS
<1> QED BY <1>2, <1>3, <1>4 DEF Promise!vars

\* A request goes on: its client wants what it wanted.
LEMMA GoesOn ==
    ASSUME TypeInv, NEW c \in Clients, NEW q \in Request,
           request' = [request EXCEPT ![c] = q], UNCHANGED <<record, changeLog, copy>>,
           \/ q.op = "READ" /\ (At(c, "idle") \/ request[c].op = "READ")
           \/ /\ q.pc # "idle" /\ ~At(c, "idle")
              /\ q.op = request[c].op /\ q.base = request[c].base
    PROVE  UNCHANGED Promise!vars
<1>1. request \in [Clients -> Request]
  BY DEF TypeInv, TypeOK
<1>2. \A d \in Clients : request'[d] = IF d = c THEN q ELSE request[d]
  BY <1>1
<1>3. ASSUME NEW d \in Editors PROVE Intent(d)' = Intent(d)
  BY <1>2 DEF Intent, At, Clients
<1> QED BY <1>3, Unseen

\* A request is given up.
LEMMA GivenUp ==
    ASSUME NEW E \in SUBSET Editors, UNCHANGED <<record, changeLog, copy>>,
           \A c \in Editors : request'[c] = IF c \in E THEN Idle ELSE request[c]
    PROVE  Promise!GiveUp
<1>1. Origin' = Origin
  BY DEF Origin
<1>2. PastDocuments' = PastDocuments
  BY <1>1 DEF PastDocuments
<1>3. ASSUME NEW c \in Editors
      PROVE  Intent(c)' = IF c \in E THEN "none" ELSE Intent(c)
  BY DEF Intent, At, Idle
<1>4. [c \in Editors |-> Intent(c)]'
        = [c \in Editors |-> IF c \in E THEN "none"
                             ELSE [d \in Editors |-> Intent(d)][c]]
  BY <1>3
<1>5. [c \in Editors |-> DocumentOf(copy[c])]' = [c \in Editors |-> DocumentOf(copy[c])]
  OBVIOUS
<1> QED BY <1>2, <1>4, <1>5 DEF Promise!GiveUp

\* A commit is a write of its editor: a named version means the document it has a
\* copy of.
LEMMA CommitWrites ==
    ASSUME HistoryInv, NEW c \in Editors, NEW next \in Record, NEW e \in LogEntry,
           Commits(c, next, e), request[c].op # "READ"
    PROVE  Promise!Write(c, DocumentOf(next))
<1>1. /\ TypeInv /\ TypeOK /\ c \in Clients /\ record \in Record /\ record # NoRecord
      /\ request \in [Clients -> Request]
      /\ copy \in [Clients -> Record \cup {NoRecord}]
  BY TransactingType DEF HistoryInv, TypeInv, TypeOK, Commits, Clients
<1>2. /\ VersionAccepted(c) /\ At(c, "transact") /\ record' = next
      /\ request' = [request EXCEPT ![c] = Idle]
      /\ copy' \in {copy, [copy EXCEPT ![c] = next]}
  BY DEF Commits
<1>3. DocumentOf(record) # NoRecord
  <2>1. DocumentOf(record) = [draft |-> record.draft, published |-> record.published]
    BY <1>1 DEF DocumentOf
  <2>2. record.draft \in Payload /\ record.published \in Payload
    BY <1>1 DEF Record
  <2> QED BY <2>1, <2>2, NoDocumentAssumption
<1>4. Intent(c) \in {"blind", "guarded"}
  BY <1>2 DEF Intent, At
<1>5. Intent(c) = "guarded" => DocumentOf(copy[c]) = DocumentOf(record)
  <2> SUFFICES ASSUME Intent(c) = "guarded"
               PROVE  DocumentOf(copy[c]) = DocumentOf(record)
    OBVIOUS
  <2>1. request[c].base # NoBase
    BY DEF Intent
  <2>2. copy[c] # NoRecord /\ copy[c] \in Record /\ copy[c].version = record.version
    BY <1>1, <1>2, <2>1 DEF HistoryInv, BasesAreCopies, VersionAccepted
  <2>3. /\ ExplainedBy(copy[c], changeLog, Origin)
        /\ ExplainedBy(record, changeLog, Origin)
        /\ PublicationsInOrder(changeLog) /\ changeLog \in Seq(LogEntry)
    BY <1>1, <2>2
    DEF HistoryInv, CopiesTellTheHistory, LogTellsTheHistory, Explained, TypeOK
  <2>4. copy[c].draft = record.draft /\ copy[c].published = record.published
    BY <1>1, <2>2, <2>3, EqualVersionsEqualContent
  <2> QED BY <1>1, <2>2, <2>4 DEF DocumentOf
<1>6. DocumentOf(record)' = DocumentOf(next)
  BY <1>2 DEF DocumentOf
<1>7. PastDocuments' = PastDocuments \cup {DocumentOf(next)}
  BY CommitAddsToThePast
<1> DEFINE copies == [d \in Editors |-> DocumentOf(copy[d])]
           intents == [d \in Editors |-> Intent(d)]
<1>8. copies' \in {copies, [copies EXCEPT ![c] = DocumentOf(next)]}
  <2>1. CASE copy' = copy
    BY <2>1
  <2>2. CASE copy' = [copy EXCEPT ![c] = next]
    <3>1. \A d \in Editors : copy'[d] = IF d = c THEN next ELSE copy[d]
      BY <1>1, <2>2 DEF Clients
    <3>2. copies' = [copies EXCEPT ![c] = DocumentOf(next)]
      BY <3>1
    <3> QED BY <3>2
  <2> QED BY <1>2, <2>1, <2>2
<1>9. intents' = [intents EXCEPT ![c] = "none"]
  <2>1. \A d \in Editors : request'[d] = IF d = c THEN Idle ELSE request[d]
    BY <1>1, <1>2 DEF Clients
  <2>2. \A d \in Editors : Intent(d)' = IF d = c THEN "none" ELSE Intent(d)
    BY <2>1 DEF Intent, At, Idle
  <2> QED BY <2>2
<1> QED BY <1>3, <1>4, <1>5, <1>6, <1>7, <1>8, <1>9 DEF Promise!Write

\* What is common to the transactions that commit.
LEMMA TransactionWrites ==
    ASSUME HistoryInv, NEW c \in Editors, Write(c), NEW op \in Operations,
           Transacting(c, op), op # "READ", record' # record
    PROVE  /\ Promise!Write(c, DocumentOf(record)')
           /\ record \in Record /\ record # NoRecord /\ record' # NoRecord
<1>1. /\ TypeInv /\ c \in Clients /\ request \in [Clients -> Request]
      /\ At(c, "transact") /\ request[c].op # "READ"
      /\ record \in Record /\ record # NoRecord
  BY TransactingType DEF HistoryInv, TypeInv, TypeOK, Clients, Transacting
<1>2. request' = [request EXCEPT ![c] = Idle]
  BY DEF Write, PatchDraft, DiscardDraft, SaveDraft, PublishItemProperties, PublishTags,
         Publish, Commit, Abandon
<1>3. PICK d \in Editors, next \in Record, e \in LogEntry : Commits(d, next, e)
  BY <1>1, WriteCases DEF Quiet, SomeCommit
<1>4. d = c
  BY <1>1, <1>2, <1>3 DEF Commits, At, Clients, Idle
<1>5. record' = next /\ next # NoRecord
  BY <1>3, NoRecordAssumption DEF Commits
<1>6. Promise!Write(c, DocumentOf(next))
  BY <1>1, <1>3, <1>4, CommitWrites
<1>7. DocumentOf(record)' = DocumentOf(next)
  BY <1>5 DEF DocumentOf
<1>8. Promise!Write(c, DocumentOf(record)')
  BY <1>6, <1>7
<1> QED BY <1>1, <1>5, <1>8

LEMMA WriteIsGuarded ==
    ASSUME HistoryInv, NEW c \in Editors, Write(c)
    PROVE  Promise!Next \/ UNCHANGED Promise!vars
<1>1. TypeInv /\ c \in Clients
  BY DEF HistoryInv, Clients
<1> DEFINE document == DocumentOf(record)
<1>2. CASE PatchDraft(c)
  <2> DEFINE after == MergeDraftPatch(record.draft, request[c].patch)
  <2>1. Transacting(c, "PATCH_DRAFT") /\ At(c, "transact")
    BY <1>2 DEF PatchDraft, Transacting
  <2>2. record \in Record /\ record.version \in Nat /\ after \in Payload
    BY <1>1, <2>1, TransactingType, MergeType
  <2>3. PICK reordered \in BOOLEAN : record' = PatchedRecord(after, reordered)
    BY <1>2 DEF PatchDraft, Commit, PatchedRecord
  <2> HIDE DEF after
  <2>4. /\ record'.version = record.version + 1 /\ record'.draft = after
        /\ record'.published = record.published
    BY <2>2, <2>3 DEF PatchedRecord, Record
  <2>5. /\ Promise!Write(c, DocumentOf(record)')
        /\ record \in Record /\ record # NoRecord /\ record' # NoRecord
    BY <2>1, <2>2, <2>4, TransactionWrites DEF Operations
  <2>6. DocumentOf(record)' = [document EXCEPT !.draft = after]
    BY <2>4, <2>5 DEF DocumentOf
  <2>7. Promise!Write(c, [document EXCEPT !.draft = after])
    BY <2>5, <2>6
  <2>8. Promise!Edit(c)
    BY <2>2, <2>7 DEF Promise!Edit
  <2> QED BY <2>8 DEF Promise!Next
<1>3. CASE DiscardDraft(c)
  <2>1. Transacting(c, "DISCARD_DRAFT") /\ At(c, "transact")
    BY <1>3 DEF DiscardDraft, Transacting
  <2>2. record \in Record /\ record.version \in Nat /\ record.published \in Payload
    BY <1>1, <2>1, TransactingType
  <2>3. record' = DiscardedRecord
    BY <1>3 DEF DiscardDraft, Commit, DiscardedRecord
  <2>4. /\ record'.version = record.version + 1 /\ record'.draft = record.published
        /\ record'.published = record.published
    BY <2>2, <2>3 DEF DiscardedRecord, Record
  <2>5. /\ Promise!Write(c, DocumentOf(record)')
        /\ record \in Record /\ record # NoRecord /\ record' # NoRecord
    BY <2>1, <2>2, <2>4, TransactionWrites DEF Operations
  <2>6. DocumentOf(record)' = [document EXCEPT !.draft = record.published]
    BY <2>4, <2>5 DEF DocumentOf
  <2>7. Promise!Write(c, [document EXCEPT !.draft = record.published])
    BY <2>5, <2>6
  <2>8. Promise!Edit(c)
    BY <2>2, <2>7 DEF Promise!Edit
  <2> QED BY <2>8 DEF Promise!Next
<1>4. CASE SaveDraft(c)
  <2>1. Transacting(c, "SAVE_DRAFT") /\ At(c, "transact")
    BY <1>4 DEF SaveDraft, Transacting
  <2>2. record \in Record /\ record.version \in Nat
    BY <1>1, <2>1, TransactingType
  <2>3. /\ record'.version = record.version + 1 /\ record'.draft = record.draft
        /\ record'.published = record.draft
    BY <1>4 DEF SaveDraft, Publish, Commit
  <2>4. /\ Promise!Write(c, DocumentOf(record)')
        /\ record \in Record /\ record # NoRecord /\ record' # NoRecord
    BY <2>1, <2>2, <2>3, TransactionWrites DEF Operations, Publications
  <2>5. DocumentOf(record)' = [document EXCEPT !.published = document.draft]
    BY <2>3, <2>4 DEF DocumentOf
  <2>6. Promise!PublishDraft(c)
    BY <2>4, <2>5 DEF Promise!PublishDraft
  <2> QED BY <2>6 DEF Promise!Next
<1>5. ASSUME NEW p \in Payload, NEW op \in Publications, Transacting(c, op),
             record.status = "CLEAN", Publish(c, p)
      PROVE  Promise!Next
  <2>1. At(c, "transact")
    BY <1>5 DEF Transacting
  <2>2. /\ record \in Record /\ record.version \in Nat /\ record.draft = record.published
        /\ record.draft \in Payload
    BY <1>1, <1>5, <2>1, TransactingType DEF HistoryInv, CleanMeansPublished
  <2>3. /\ record'.version = record.version + 1 /\ record'.draft = p
        /\ record'.published = p
    BY <1>5 DEF Publish, Commit
  <2>4. /\ Promise!Write(c, DocumentOf(record)')
        /\ record \in Record /\ record # NoRecord /\ record' # NoRecord
    BY <1>5, <2>2, <2>3, TransactionWrites DEF Operations, Publications
  <2>5. DocumentOf(record)' = [draft |-> p, published |-> p]
    BY <2>3, <2>4 DEF DocumentOf
  <2>6. document # NoRecord /\ document.draft = document.published
    BY <2>2, <2>4, NoDocumentAssumption DEF DocumentOf
  <2>7. Promise!PublishImmediately(c)
    BY <2>4, <2>5, <2>6 DEF Promise!PublishImmediately
  <2> QED BY <2>7 DEF Promise!Next
<1>6. CASE PublishItemProperties(c)
  <2>1. At(c, "transact") /\ Transacting(c, "PUBLISH_PROPERTIES")
    BY <1>6 DEF PublishItemProperties, Transacting
  <2> QED BY <1>1, <1>5, <1>6, <2>1, PublishedPayloadTypes
          DEF PublishItemProperties, Publications, Transacting
<1>7. CASE PublishTags(c)
  <2>1. At(c, "transact") /\ Transacting(c, "PUBLISH_TAGS")
    BY <1>7 DEF PublishTags, Transacting
  <2> QED BY <1>1, <1>5, <1>7, <2>1, PublishedPayloadTypes
          DEF PublishTags, Publications, Transacting
<1>8. CASE Abandon(c)
  <2>1. \A d \in Editors : request'[d] = IF d \in {c} THEN Idle ELSE request[d]
    BY <1>1, <1>8 DEF Abandon, TypeInv, TypeOK, Clients
  <2>2. Promise!GiveUp
    BY <1>8, <2>1, GivenUp DEF Abandon, rows
  <2> QED BY <2>2 DEF Promise!Next
<1> QED BY <1>2, <1>3, <1>4, <1>6, <1>7, <1>8 DEF Write

LEMMA AskIsSeen ==
    ASSUME TypeInv, NEW c \in Editors, Ask(c)
    PROVE  Promise!Next
<1>0. PICK op \in Operations \ {"READ"} : \E base, patch : Submit(c, op, base, patch)
  BY DEF Ask, SubmitPatch, SubmitSave, SubmitDiscard, SubmitProperties, SubmitTags,
     Operations, Publications
<1>1. PICK base, patch : Submit(c, op, base, patch)
  BY <1>0
<1> DEFINE q == [Idle EXCEPT !.pc = "ensure", !.op = op, !.base = base, !.patch = patch]
           wish == IF base = NoBase THEN "blind" ELSE "guarded"
           intents == [d \in Editors |-> Intent(d)]
<1>2. /\ request \in [Clients -> Request] /\ request[c].pc = "idle" /\ c \in Clients
      /\ request' = [request EXCEPT ![c] = q]
      /\ UNCHANGED <<record, changeLog, copy>>
  BY <1>1 DEF Submit, At, rows, TypeInv, TypeOK, Clients
<1>3. q.pc = "ensure" /\ q.op # "READ" /\ q.base = base
  BY <1>1 DEF Idle
<1> HIDE DEF q
<1>4. \A d \in Editors : request'[d] = IF d = c THEN q ELSE request[d]
  BY <1>2 DEF Clients
<1>5. \A d \in Editors : Intent(d)' = IF d = c THEN wish ELSE Intent(d)
  BY <1>3, <1>4 DEF Intent, At
<1>6. intents' = [intents EXCEPT ![c] = wish]
  BY <1>5
<1>7. intents[c] = "none"
  BY <1>2 DEF Intent, At
<1>8. Origin' = Origin
  BY <1>2 DEF Origin
<1>9. PastDocuments' = PastDocuments
  BY <1>2, <1>8 DEF PastDocuments
<1>10. [d \in Editors |-> DocumentOf(copy[d])]' = [d \in Editors |-> DocumentOf(copy[d])]
  BY <1>2
<1>11. wish \in {"guarded", "blind"}
  OBVIOUS
<1> HIDE DEF wish, intents
<1>12. intents' \in {[intents EXCEPT ![c] = i] : i \in {"guarded", "blind"}}
  BY <1>6, <1>11
<1>13. Promise!Ask(c)
  BY <1>2, <1>7, <1>9, <1>10, <1>12 DEF Promise!Ask, intents
<1> QED BY <1>13 DEF Promise!Next

\* The answer of a read: an editor obtains a past document, a viewer does not count.
LEMMA ServeIsSeen ==
    ASSUME HistoryInv, ReadersRead, NEW c \in Clients, At(c, "hit") \/ At(c, "fill"),
           Serve(c)
    PROVE  Promise!Next \/ UNCHANGED Promise!vars
<1> DEFINE r == request[c].held
           copies == [d \in Editors |-> DocumentOf(copy[d])]
<1>1. /\ TypeInv /\ request \in [Clients -> Request]
      /\ copy \in [Clients -> Record \cup {NoRecord}]
      /\ r \in Record /\ r # NoRecord /\ request[c].op = "READ"
      /\ UNCHANGED <<record, changeLog>>
  BY DEF HistoryInv, TypeInv, TypeOK, RequestsFit, RequestFits, Request, At, ReadersRead,
     Serve, rows
<1>2. record # NoRecord
  BY <1>1 DEF HistoryInv, NothingBeforeTheRecord
<1>3. /\ \A d \in Clients : request'[d] = IF d = c THEN Idle ELSE request[d]
      /\ \A d \in Clients : copy'[d] = IF d = c THEN Envelope(c, r) ELSE copy[d]
  BY <1>1 DEF Serve
<1>4. \A d \in Editors : Intent(d)' = Intent(d)
  BY <1>1, <1>3 DEF Intent, At, Idle, Clients
<1>5. [d \in Editors |-> Intent(d)]' = [d \in Editors |-> Intent(d)]
  BY <1>4
<1>6. Origin' = Origin
  BY <1>1 DEF Origin
<1>7. PastDocuments' = PastDocuments /\ DocumentOf(record)' = DocumentOf(record)
  BY <1>1, <1>6 DEF PastDocuments, DocumentOf
<1>8. CASE c \in Editors
  <2>1. DocumentOf(r) \in PastDocuments
    BY <1>1, <1>2, ExplainedIsPast DEF HistoryInv, CopiesTellTheHistory
  <2> HIDE DEF r
  <2>2. \A d \in Editors : copy'[d] = IF d = c THEN r ELSE copy[d]
    BY <1>3, <1>8 DEF Envelope, Clients
  <2>3. copies' = [copies EXCEPT ![c] = DocumentOf(r)]
    BY <2>2
  <2> HIDE DEF copies
  <2>4. copies' \in {[copies EXCEPT ![c] = d] : d \in PastDocuments}
    BY <2>1, <2>3
  <2>5. Promise!Obtain(c)
    BY <1>5, <1>7, <2>4 DEF Promise!Obtain, copies
  <2> QED BY <1>8, <2>5 DEF Promise!Next
<1>9. CASE c \notin Editors
  <2>1. \A d \in Editors : copy'[d] = copy[d]
    BY <1>3, <1>9 DEF Clients
  <2>2. copies' = copies
    BY <2>1
  <2> QED BY <1>5, <1>7, <2>2 DEF Promise!vars
<1> QED BY <1>8, <1>9

LEMMA ReadIsSeen ==
    ASSUME HistoryInv, ReadersRead, NEW c \in Clients, Read(c)
    PROVE  Promise!Next \/ UNCHANGED Promise!vars
<1>1. /\ TypeInv /\ request \in [Clients -> Request] /\ request[c] \in Request
      /\ TypeInv'
  BY TypeInvStep DEF HistoryInv, TypeInv, TypeOK, Next
<1>2. request'[c] \in Request
  BY <1>1 DEF TypeInv, TypeOK
<1>3. ASSUME NEW q, request' = [request EXCEPT ![c] = q],
             UNCHANGED <<record, changeLog, copy>>,
             \/ q.op = "READ" /\ (At(c, "idle") \/ request[c].op = "READ")
             \/ /\ q.pc # "idle" /\ ~At(c, "idle")
                /\ q.op = request[c].op /\ q.base = request[c].base
      PROVE  UNCHANGED Promise!vars
  <2>1. q \in Request
    BY <1>1, <1>2, <1>3
  <2> QED BY <1>1, <1>3, <2>1, GoesOn
<1>4. ASSUME NEW x, x # "idle", GoTo(c, x), ~At(c, "idle"),
             UNCHANGED <<record, changeLog, copy>>
      PROVE  UNCHANGED Promise!vars
  <2> DEFINE q == [request[c] EXCEPT !.pc = x]
  <2>1. /\ request' = [request EXCEPT ![c] = q] /\ q.pc # "idle"
        /\ q.op = request[c].op /\ q.base = request[c].base
    BY <1>1, <1>4 DEF GoTo, Request
  <2> HIDE DEF q
  <2> QED BY <1>3, <1>4, <2>1
<1>5. ASSUME NEW r, Proceed(c, r), ~At(c, "idle"), UNCHANGED <<record, changeLog, copy>>
      PROVE  UNCHANGED Promise!vars
  <2>1. CASE request[c].op = "READ"
    <3> DEFINE q == [request[c] EXCEPT !.pc = "fill", !.held = r]
    <3>1. /\ request' = [request EXCEPT ![c] = q] /\ q.pc # "idle"
          /\ q.op = request[c].op /\ q.base = request[c].base
      BY <1>1, <1>5, <2>1 DEF Proceed, Request
    <3> HIDE DEF q
    <3> QED BY <1>3, <1>5, <3>1
  <2>2. CASE request[c].op # "READ"
    <3>1. GoTo(c, "transact")
      BY <1>1, <1>5, <2>2 DEF Proceed, GoTo
    <3> QED BY <1>4, <1>5, <3>1
  <2> QED BY <2>1, <2>2
<1>6. CASE LookUp(c)
  <2> DEFINE q == [Idle EXCEPT !.pc = IF cache = NoRecord THEN "ensure" ELSE "validate",
                               !.held = cache, !.started = VersionOf(record)]
  <2>1. /\ request' = [request EXCEPT ![c] = q] /\ q.op = "READ" /\ At(c, "idle")
        /\ UNCHANGED <<record, changeLog, copy>>
    BY <1>6 DEF LookUp, Idle, rows
  <2> HIDE DEF q
  <2> QED BY <1>3, <2>1
<1>7. CASE ValidateVersion(c)
  <2>1. /\ \E x \in {"hit", "stale"} : GoTo(c, x)
        /\ ~At(c, "idle") /\ UNCHANGED <<record, changeLog, copy>>
    BY <1>7 DEF ValidateVersion, At, rows
  <2> QED BY <1>4, <2>1
<1>8. CASE ServeHit(c) \/ FillCache(c)
  BY <1>8, ServeIsSeen DEF ServeHit, FillCache
<1>9. CASE DropStale(c)
  <2>1. GoTo(c, "ensure") /\ ~At(c, "idle") /\ UNCHANGED <<record, changeLog, copy>>
    BY <1>9 DEF DropStale, At, rows
  <2> QED BY <1>4, <2>1
<1>10. CASE EnsureRecord(c)
  <2>1. /\ GoTo(c, "initialise") \/ Proceed(c, record)
        /\ ~At(c, "idle") /\ UNCHANGED <<record, changeLog, copy>>
    BY <1>10 DEF EnsureRecord, At, rows
  <2> QED BY <1>4, <1>5, <2>1
<1>11. CASE Initialise(c)
  <2>1. Proceed(c, record') /\ ~At(c, "idle") /\ UNCHANGED <<changeLog, copy>>
    BY <1>11 DEF Initialise, At
  <2>2. CASE record # NoRecord
    BY <1>5, <1>11, <2>1, <2>2 DEF Initialise
  <2>3. CASE record = NoRecord
    <3>1. record' = FirstRecord /\ changeLog = <<>> /\ changeLog' = <<>>
      BY <1>11, <2>1, <2>3 DEF Initialise, HistoryInv, LogTellsTheHistory
    <3>2. \A d \in Editors :
            /\ request'[d].pc = "idle" <=> request[d].pc = "idle"
            /\ request'[d].op = request[d].op /\ request'[d].base = request[d].base
      BY <1>1, <2>1 DEF Proceed, At, Request, Clients
    <3>3. \A d \in Editors : Intent(d)' = Intent(d)
      BY <3>2 DEF Intent, At
    <3>4. [d \in Editors |-> Intent(d)]' = [d \in Editors |-> Intent(d)]
      BY <3>3
    <3>5. [d \in Editors |-> DocumentOf(copy[d])]'
            = [d \in Editors |-> DocumentOf(copy[d])]
      BY <2>1
    <3>6. DefaultState \in Payload /\ FirstRecord \in Record
      BY <1>1, DefaultStateType, FirstRecordType DEF TypeInv, TypeOK
    <3>7. DocumentOf(record)' = [draft |-> DefaultState, published |-> DefaultState]
      BY <3>1, <3>6, NoRecordAssumption DEF DocumentOf, FirstRecord
    <3>8. PastDocuments' = {DocumentOf(record)'}
      <4>1. Origin' = DefaultState /\ VersionOf(record)' = 1
        BY <3>1, <3>6, NoRecordAssumption DEF Origin, VersionOf, FirstRecord
      <4>2. PastDocuments' = {DocumentAt(<<>>, DefaultState, n) : n \in 1 .. 1}
        BY <3>1, <4>1 DEF PastDocuments
      <4>3. DocumentAt(<<>>, DefaultState, 1) = DocumentOf(record)'
        BY <3>7 DEF DocumentAt, PublishedAt
      <4> QED BY <4>2, <4>3
    <3>9. DocumentOf(record) = NoRecord
      BY <2>3 DEF DocumentOf
    <3>10. Promise!Create
      BY <3>4, <3>5, <3>6, <3>7, <3>8, <3>9 DEF Promise!Create
    <3> QED BY <3>10 DEF Promise!Next
  <2> QED BY <2>2, <2>3
<1> QED BY <1>6, <1>7, <1>8, <1>9, <1>10, <1>11 DEF Read

-----------------------------------------------------------------------------
(* Theorem. *)

LEMMA ReadersReadStep ==
    ASSUME TypeInv, ReadersRead, [Next]_vars
    PROVE  ReadersRead'
<1> SUFFICES ASSUME NEW d \in Clients,
                    request'[d].pc \in {"validate", "hit", "stale", "fill"}
             PROVE  request'[d].op = "READ"
  BY DEF ReadersRead
<1>1. request \in [Clients -> Request]
  BY DEF TypeInv, TypeOK
<1>2. CASE \E c \in Clients : Read(c)
  <2>1. PICK c \in Clients : Read(c)
    BY <1>2
  <2>2. CASE LookUp(c)
    BY <1>1, <2>2 DEF LookUp, Idle, ReadersRead
  <2>3. CASE ValidateVersion(c)
    BY <1>1, <2>3 DEF ValidateVersion, GoTo, At, Request, ReadersRead
  <2>4. CASE ServeHit(c) \/ FillCache(c)
    BY <1>1, <2>4 DEF ServeHit, FillCache, Serve, Idle, ReadersRead
  <2>5. CASE DropStale(c)
    BY <1>1, <2>5 DEF DropStale, GoTo, Request, ReadersRead
  <2>6. CASE EnsureRecord(c)
    BY <1>1, <2>6 DEF EnsureRecord, GoTo, Proceed, Request, ReadersRead
  <2>7. CASE Initialise(c)
    BY <1>1, <2>7 DEF Initialise, Proceed, Request, ReadersRead
  <2> QED BY <2>1, <2>2, <2>3, <2>4, <2>5, <2>6, <2>7 DEF Read
<1>3. CASE \E c \in Editors : Ask(c)
  <2>1. PICK c \in Editors : \E op, base, patch : Submit(c, op, base, patch)
    BY <1>3 DEF Ask, SubmitPatch, SubmitSave, SubmitDiscard, SubmitProperties, SubmitTags
  <2>2. PICK op, base, patch : Submit(c, op, base, patch)
    BY <2>1
  <2> QED BY <1>1, <2>2 DEF Submit, Idle, ReadersRead
<1>4. CASE \E c \in Editors : Write(c)
  <2>1. \E c \in Editors : request' = [request EXCEPT ![c] = Idle]
    BY <1>4 DEF Write, PatchDraft, DiscardDraft, SaveDraft, PublishItemProperties,
       PublishTags, Publish, Commit, Abandon
  <2> QED BY <1>1, <2>1 DEF Idle, ReadersRead
<1>5. CASE EvictEntry \/ Restart \/ UNCHANGED vars
  BY <1>5 DEF EvictEntry, Restart, vars, Idle, ReadersRead
<1> QED BY <1>2, <1>3, <1>4, <1>5 DEF Next

LEMMA InitIsSeen == Init => Promise!Init /\ ReadersRead
<1> SUFFICES ASSUME Init PROVE Promise!Init /\ ReadersRead
  OBVIOUS
<1>1. \A c \in Clients : request[c] = Idle /\ copy[c] = NoRecord
  BY DEF Init
<1>2. ReadersRead
  BY <1>1 DEF ReadersRead, Idle
<1>3. \A c \in Editors : Intent(c) = "none" /\ DocumentOf(copy[c]) = NoRecord
  BY <1>1 DEF Intent, At, Idle, DocumentOf, Clients
<1>4. record = NoRecord /\ PastDocuments = {}
  BY DEF Init, PastDocuments, VersionOf
<1>5. Promise!Init
  BY <1>3, <1>4 DEF Promise!Init, DocumentOf
<1> QED BY <1>2, <1>5

LEMMA StepIsSeen ==
    ASSUME HistoryInv, ReadersRead, [Next]_vars
    PROVE  Promise!Next \/ UNCHANGED Promise!vars
<1>1. CASE \E c \in Clients : Read(c)
  BY <1>1, ReadIsSeen
<1>2. CASE \E c \in Editors : Ask(c)
  BY <1>2, AskIsSeen DEF HistoryInv
<1>3. CASE \E c \in Editors : Write(c)
  BY <1>3, WriteIsGuarded
<1>4. CASE EvictEntry \/ UNCHANGED vars
  <2>1. UNCHANGED <<record, changeLog, copy>> /\ request' = request
    BY <1>4 DEF EvictEntry, vars, rows
  <2>2. \A c \in Editors : Intent(c)' = Intent(c)
    BY <2>1 DEF Intent, At
  <2> QED BY <2>1, <2>2, Unseen
<1>5. CASE Restart
  <2>1. /\ UNCHANGED <<record, changeLog, copy>>
        /\ \A c \in Editors : request'[c] = IF c \in Editors THEN Idle ELSE request[c]
    BY <1>5 DEF Restart, rows, Clients
  <2>2. Promise!GiveUp
    BY <2>1, GivenUp
  <2> QED BY <2>2 DEF Promise!Next
<1> QED BY <1>1, <1>2, <1>3, <1>4, <1>5 DEF Next

\* The service implements the guarded document: comparing version numbers under the
\* row lock (assertVersion) is as good as comparing content, through the cache, lost
\* answers, creation races and restarts.
THEOREM DocumentIsGuarded == Spec => ImplementsGuardedDocument
<1>1. Init => Promise!Init /\ ReadersRead
  BY InitIsSeen
<1>2. HistoryInv /\ ReadersRead /\ [Next]_vars => ReadersRead'
  BY ReadersReadStep DEF HistoryInv
<1>3. HistoryInv /\ ReadersRead /\ [Next]_vars => [Promise!Next]_Promise!vars
  BY StepIsSeen
<1> QED
  BY <1>1, <1>2, <1>3, HistoryInvariant, PTL
  DEF Spec, ImplementsGuardedDocument, Promise!Spec

=============================================================================
