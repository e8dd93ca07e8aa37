-------------------------- MODULE ItemExplorerState --------------------------
(***************************************************************************)
(* The shared Item Explorer state of one ACP: a published payload, a draft *)
(* payload, two version counters and a change log, kept by                 *)
(* ItemExplorerStateService, together with the columns of other tables a   *)
(* publication writes (acp.itemProperties and                              *)
(* featureConfig.metadataColumns) and the in-memory viewer cache.          *)
(*                                                                         *)
(* A request is split at its awaits: looking the cache up, reading the     *)
(* version row, making sure the record exists, creating it, and the        *)
(* transaction.  A transaction holds the row lock of the state record from *)
(* its first read to its commit, so it is one step here.                   *)
(***************************************************************************)
EXTENDS Integers, Sequences

CONSTANTS
    Editors,        \* clients with "item-explorer:edit"
    Viewers,        \* read-only clients
    Columns,        \* contents of metadataColumns
    Tags,           \* contents of the tag map
    Params,         \* contents of the item parameters other than tags
    Patches,        \* the draft patches clients send
    Keep,           \* a patch's "undefined": the field is left alone
    NoRecord,       \* no state row, no cache entry, nothing loaded
    MaxVersion      \* bound: no transaction commits beyond this version

Clients == Editors \cup Viewers

ItemProperties == [tags : Tags, params : Params]
Payload == [columns : Columns, tags : Tags, itemProperties : ItemProperties]
Patch == [columns : Columns \cup {Keep}, tags : Tags \cup {Keep},
          itemProperties : ItemProperties \cup {Keep}]

Record == [published : Payload, draft : Payload, status : {"CLEAN", "DIRTY"},
           version : Nat, publishedVersion : Nat]

NoBase == 0         \* the request carries no baseVersion

Publications == {"SAVE_DRAFT", "PUBLISH_PROPERTIES", "PUBLISH_TAGS"}
Operations == {"READ", "PATCH_DRAFT", "DISCARD_DRAFT"} \cup Publications

LogEntry == [changeType : Operations, before : Payload, after : Payload,
             draftVersion : Nat, publishedVersion : Nat]

KeepAll == [columns |-> Keep, tags |-> Keep, itemProperties |-> Keep]

PCs == {"idle", "validate", "hit", "stale", "ensure", "initialise", "fill",
        "transact"}

\* A request under way: where it stands, what the client asked for, the entry or
\* row it holds across an await, and (history) the version when a read began.
Request == [pc : PCs, op : Operations, base : Nat, patch : Patch,
            held : Record \cup {NoRecord}, started : Nat]

Idle == [pc |-> "idle", op |-> "READ", base |-> NoBase, patch |-> KeepAll,
         held |-> NoRecord, started |-> 0]

ASSUME ClientsAssumption == Editors \cap Viewers = {}
ASSUME KeepAssumption == Keep \notin Columns \cup Tags \cup ItemProperties
ASSUME NoRecordAssumption == NoRecord \notin Record
ASSUME PatchesAssumption == Patches \subseteq Patch
ASSUME MaxVersionAssumption == MaxVersion \in Nat

VARIABLES
    record,             \* the acp_item_explorer_state row
    changeLog,          \* acp_item_explorer_change_log, oldest first
    itemProperties,     \* acp.itemProperties
    metadataColumns,    \* featureConfig.metadataColumns
    cache,              \* viewerStateCache's entry for this ACP
    request,            \* each client's request
    copy                \* the envelope each client received last

rows == <<record, changeLog, itemProperties, metadataColumns>>
vars == <<record, changeLog, itemProperties, metadataColumns, cache, request,
          copy>>

TypeOK ==
    /\ record \in Record \cup {NoRecord}
    /\ changeLog \in Seq(LogEntry)
    /\ itemProperties \in ItemProperties
    /\ metadataColumns \in Columns
    /\ cache \in Record \cup {NoRecord}
    /\ request \in [Clients -> Request]
    /\ copy \in [Clients -> Record \cup {NoRecord}]

Init ==
    /\ record = NoRecord
    /\ changeLog = <<>>
    /\ itemProperties \in ItemProperties
    /\ metadataColumns \in Columns
    /\ cache = NoRecord
    /\ request = [c \in Clients |-> Idle]
    /\ copy = [c \in Clients |-> NoRecord]

-----------------------------------------------------------------------------
(* Pure parts of the service. *)

VersionOf(r) == IF r = NoRecord THEN 0 ELSE r.version

\* The payload a record starts with, from the ACP and its access config.
DefaultState ==
    [columns |-> metadataColumns, tags |-> itemProperties.tags,
     itemProperties |-> itemProperties]

FirstRecord ==
    [published |-> DefaultState, draft |-> DefaultState, status |-> "CLEAN",
     version |-> 1, publishedVersion |-> 1]

\* Mutant: the draft reaches everyone.
EnvelopeForAll(c, r) == r

\* What a client is shown: without edit rights the draft is the published one.
Envelope(c, r) ==
    IF c \in Editors THEN r ELSE [r EXCEPT !.draft = r.published]

Merge(old, new) == IF new = Keep THEN old ELSE new

MergeDraftPatch(p, patch) ==
    [columns |-> Merge(p.columns, patch.columns),
     tags |-> Merge(p.tags, patch.tags),
     itemProperties |-> Merge(p.itemProperties, patch.itemProperties)]

\* Direct tag publication writes the tag map and the tags of the properties.
ReplaceTags(p, tags) ==
    [p EXCEPT !.tags = tags, !.itemProperties.tags = tags]

\* statesEqual compares texts: a key that a patch inserted again comes last in the
\* text until jsonb stores it in its own order, and then the texts differ.
StatesEqual(a, b, reordered) == a = b /\ ~reordered

\* Mutant: the draft is compared with itself.
StatusOfSelf(after, reordered) ==
    IF StatesEqual(after, record.draft, reordered) THEN "CLEAN" ELSE "DIRTY"

StatusAfterPatch(after, reordered) ==
    IF StatesEqual(after, record.published, reordered) THEN "CLEAN" ELSE "DIRTY"

\* Mutant: any version up to the current one is accepted.
VersionNotAhead(c) ==
    request[c].base = NoBase \/ request[c].base <= record.version

\* assertVersion: only a request that names a version can conflict.
VersionAccepted(c) ==
    request[c].base = NoBase \/ request[c].base = record.version

-----------------------------------------------------------------------------
(* Reading: getStateForViewer through the viewer cache. *)

At(c, pc) == request[c].pc = pc

GoTo(c, pc) == request' = [request EXCEPT ![c].pc = pc]

\* The request reaches the cache and goes on to the version row or the record.
LookUp(c) ==
    /\ At(c, "idle")
    /\ request' = [request EXCEPT ![c] =
         [Idle EXCEPT !.pc = IF cache = NoRecord THEN "ensure" ELSE "validate",
                      !.held = cache, !.started = VersionOf(record)]]
    /\ UNCHANGED <<rows, cache, copy>>

\* Mutant: only the published version is compared.
ValidatePublishedOnly(c) ==
    /\ At(c, "validate")
    /\ GoTo(c, IF /\ record # NoRecord
                  /\ record.publishedVersion = request[c].held.publishedVersion
               THEN "hit" ELSE "stale")
    /\ UNCHANGED <<rows, cache, copy>>

\* The version columns are read; the entry captured before counts if they agree.
ValidateVersion(c) ==
    /\ At(c, "validate")
    /\ GoTo(c, IF /\ record # NoRecord
                  /\ record.version = request[c].held.version
                  /\ record.publishedVersion = request[c].held.publishedVersion
               THEN "hit" ELSE "stale")
    /\ UNCHANGED <<rows, cache, copy>>

\* The request's entry goes (back) into the cache and to the client.
Serve(c) ==
    /\ cache' = request[c].held
    /\ copy' = [copy EXCEPT ![c] = Envelope(c, request[c].held)]
    /\ request' = [request EXCEPT ![c] = Idle]
    /\ UNCHANGED rows

ServeHit(c) == At(c, "hit") /\ Serve(c)

DropStale(c) ==
    /\ At(c, "stale")
    /\ cache' = NoRecord
    /\ GoTo(c, "ensure")
    /\ UNCHANGED <<rows, copy>>

\* With the row in hand a read fills the cache, a write starts its transaction.
Proceed(c, r) ==
    request' = IF request[c].op = "READ"
               THEN [request EXCEPT ![c].pc = "fill", ![c].held = r]
               ELSE [request EXCEPT ![c].pc = "transact"]

\* ensureStateRecord's first, unlocked read.
EnsureRecord(c) ==
    /\ At(c, "ensure")
    /\ IF record = NoRecord THEN GoTo(c, "initialise") ELSE Proceed(c, record)
    /\ UNCHANGED <<rows, cache, copy>>

\* Its transaction: with the ACP row locked the record is looked for again.
Initialise(c) ==
    /\ At(c, "initialise")
    /\ record' = IF record = NoRecord THEN FirstRecord ELSE record
    /\ Proceed(c, record')
    /\ UNCHANGED <<changeLog, itemProperties, metadataColumns, cache, copy>>

FillCache(c) == At(c, "fill") /\ Serve(c)

\* Another ACP's entry pushes this one out of the bounded cache.
EvictEntry ==
    /\ cache # NoRecord
    /\ cache' = NoRecord
    /\ UNCHANGED <<rows, request, copy>>

-----------------------------------------------------------------------------
(* Writing. *)

Submit(c, op, base, patch) ==
    /\ At(c, "idle")
    /\ request' = [request EXCEPT ![c] =
         [Idle EXCEPT !.pc = "ensure", !.op = op, !.base = base, !.patch = patch]]
    /\ UNCHANGED <<rows, cache, copy>>

\* The optional baseVersion: the version of the client's copy, or none.
Bases(c) == {NoBase, VersionOf(copy[c])}

SubmitPatch(c) ==
    \E base \in Bases(c), patch \in Patches : Submit(c, "PATCH_DRAFT", base, patch)

SubmitSave(c) ==
    \E base \in Bases(c) : Submit(c, "SAVE_DRAFT", base, KeepAll)

SubmitDiscard(c) ==
    \E base \in Bases(c) : Submit(c, "DISCARD_DRAFT", base, KeepAll)

\* A direct parameter import or removal computes the next properties from the
\* envelope it loaded, refuses a pending draft, and always names its version.
SubmitProperties(c) ==
    /\ copy[c] # NoRecord
    /\ copy[c].status = "CLEAN"
    /\ LET properties == copy[c].published.itemProperties
       IN  \E params \in Params \ {properties.params} :
             Submit(c, "PUBLISH_PROPERTIES", copy[c].version,
                    [KeepAll EXCEPT !.itemProperties =
                                        [properties EXCEPT !.params = params]])

\* PUT tags names no version.
SubmitTags(c) ==
    \E tags \in Tags :
      Submit(c, "PUBLISH_TAGS", NoBase, [KeepAll EXCEPT !.tags = tags])

\* The transaction of c's operation is open on the locked record.
Transacting(c, op) ==
    /\ At(c, "transact")
    /\ request[c].op = op
    /\ record.version < MaxVersion

\* Mutant: the entry is written with the version before the save.
LogEntryBeforeSave(c, next, before) ==
    [changeType |-> request[c].op, before |-> before, after |-> next.draft,
     draftVersion |-> record.version, publishedVersion |-> next.publishedVersion]

LogEntryFor(c, next, before) ==
    [changeType |-> request[c].op, before |-> before, after |-> next.draft,
     draftVersion |-> next.version, publishedVersion |-> next.publishedVersion]

\* Save the record, append the log entry, commit and answer; the answer may be
\* lost on its way to the client.
Commit(c, next, before) ==
    /\ record' = next
    /\ changeLog' = Append(changeLog, LogEntryFor(c, next, before))
    /\ copy' \in {copy, [copy EXCEPT ![c] = next]}
    /\ request' = [request EXCEPT ![c] = Idle]
    /\ UNCHANGED cache

PatchDraft(c) ==
    /\ Transacting(c, "PATCH_DRAFT")
    /\ VersionAccepted(c)
    /\ \E reordered \in BOOLEAN :
         LET after == MergeDraftPatch(record.draft, request[c].patch)
         IN  /\ reordered => request[c].patch.itemProperties # Keep
             /\ Commit(c, [record EXCEPT
                    !.draft = after,
                    !.status = StatusAfterPatch(after, reordered),
                    !.version = @ + 1], record.draft)
    /\ UNCHANGED <<itemProperties, metadataColumns>>

\* Mutant: discarding does not count as a change.
DiscardQuietly(c) ==
    /\ Transacting(c, "DISCARD_DRAFT")
    /\ VersionAccepted(c)
    /\ Commit(c, [record EXCEPT !.draft = record.published, !.status = "CLEAN"],
              record.draft)
    /\ UNCHANGED <<itemProperties, metadataColumns>>

DiscardDraft(c) ==
    /\ Transacting(c, "DISCARD_DRAFT")
    /\ VersionAccepted(c)
    /\ Commit(c, [record EXCEPT !.draft = record.published, !.status = "CLEAN",
                                !.version = @ + 1], record.draft)
    /\ UNCHANGED <<itemProperties, metadataColumns>>

\* applyPublishedStateToDomain, the state row, the log, in one transaction.
Publish(c, payload) ==
    /\ itemProperties' = payload.itemProperties
    /\ metadataColumns' = payload.columns
    /\ Commit(c, [published |-> payload, draft |-> payload, status |-> "CLEAN",
                  version |-> record.version + 1,
                  publishedVersion |-> record.publishedVersion + 1],
              record.published)

SaveDraft(c) ==
    /\ Transacting(c, "SAVE_DRAFT")
    /\ VersionAccepted(c)
    /\ Publish(c, record.draft)

PublishItemProperties(c) ==
    /\ Transacting(c, "PUBLISH_PROPERTIES")
    /\ record.status = "CLEAN"
    /\ VersionAccepted(c)
    /\ Publish(c, [record.published EXCEPT
                     !.itemProperties = request[c].patch.itemProperties])

\* Mutant: a pending draft does not stop it.
PublishTagsOverDraft(c) ==
    /\ Transacting(c, "PUBLISH_TAGS")
    /\ VersionAccepted(c)
    /\ Publish(c, ReplaceTags(record.published, request[c].patch.tags))

PublishTags(c) ==
    /\ Transacting(c, "PUBLISH_TAGS")
    /\ record.status = "CLEAN"
    /\ VersionAccepted(c)
    /\ Publish(c, ReplaceTags(record.published, request[c].patch.tags))

\* A conflict, or a database error that rolls the transaction back.
Abandon(c) ==
    /\ At(c, "transact")
    /\ request' = [request EXCEPT ![c] = Idle]
    /\ UNCHANGED <<rows, cache, copy>>

\* The backend restarts: its cache and the requests under way are gone.
Restart ==
    /\ cache' = NoRecord
    /\ request' = [c \in Clients |-> Idle]
    /\ UNCHANGED <<rows, copy>>

-----------------------------------------------------------------------------

Read(c) ==
    \/ LookUp(c) \/ ValidateVersion(c) \/ ServeHit(c) \/ DropStale(c)
    \/ EnsureRecord(c) \/ Initialise(c) \/ FillCache(c)

Ask(c) ==
    \/ SubmitPatch(c) \/ SubmitSave(c) \/ SubmitDiscard(c)
    \/ SubmitProperties(c) \/ SubmitTags(c)

Write(c) ==
    \/ PatchDraft(c) \/ DiscardDraft(c) \/ SaveDraft(c)
    \/ PublishItemProperties(c) \/ PublishTags(c) \/ Abandon(c)

Next ==
    \/ \E c \in Clients : Read(c)
    \/ \E c \in Editors : Ask(c) \/ Write(c)
    \/ EvictEntry
    \/ Restart

Spec == Init /\ [][Next]_vars

-----------------------------------------------------------------------------
(* Properties. *)

\* The payload the row starts with, as the first log entry remembers it.
Origin == IF changeLog = <<>> THEN record.draft ELSE changeLog[1].before

\* A log explains the row, or a copy of it: its draft and counters are what the
\* entry of its version left, and its published payload is the one published under
\* its publishedVersion.
DraftExplained(r, log, origin) ==
    /\ r.version \in 1 .. Len(log) + 1
    /\ r.version = 1 => r.draft = origin
    /\ r.version > 1 => r.draft = log[r.version - 1].after

CountersExplained(r, log) ==
    /\ r.version = 1 => r.publishedVersion = 1
    /\ r.version > 1 => r.publishedVersion = log[r.version - 1].publishedVersion

PublishedExplained(r, log, origin) ==
    \/ r.publishedVersion = 1 /\ r.published = origin
    \/ \E i \in 1 .. Len(log) :
         /\ log[i].changeType \in Publications
         /\ log[i].publishedVersion = r.publishedVersion
         /\ log[i].after = r.published

ExplainedBy(r, log, origin) ==
    /\ DraftExplained(r, log, origin)
    /\ CountersExplained(r, log)
    /\ PublishedExplained(r, log, origin)

Explained(r) == ExplainedBy(r, changeLog, Origin)

\* A CLEAN record has nothing to publish: immediate publications, which are
\* refused on DIRTY, can then replace the draft without losing an edit.
CleanMeansPublished ==
    record # NoRecord /\ record.status = "CLEAN" => record.draft = record.published

\* The change log is a complete history of the record: one entry per version, in
\* order, each draft change starting from the payload the entry before left;
\* exactly the publications raise publishedVersion; and it ends in the record.
LogInOrder(log) ==
    \A i \in 1 .. Len(log) :
      /\ log[i].draftVersion = i + 1
      /\ i > 1 /\ log[i].changeType \notin Publications
           => log[i].before = log[i - 1].after

PublicationsInOrder(log) ==
    /\ \A i \in 1 .. Len(log) :
         /\ log[i].publishedVersion >= 1
         /\ log[i].changeType \in Publications => log[i].publishedVersion > 1
    /\ \A j \in 1 .. Len(log) : \A i \in 1 .. j - 1 :
         /\ log[i].publishedVersion <= log[j].publishedVersion
         /\ log[j].changeType \in Publications
              => log[i].publishedVersion < log[j].publishedVersion

LogTellsTheHistory ==
    IF record = NoRecord THEN changeLog = <<>>
    ELSE /\ record.version = Len(changeLog) + 1
         /\ Explained(record)
         /\ LogInOrder(changeLog)
         /\ PublicationsInOrder(changeLog)

\* What the cache, a request or an editor holds under a version is what the
\* record held under that version, so equal versions mean equal content.
CopiesTellTheHistory ==
    /\ cache # NoRecord => Explained(cache)
    /\ \A c \in Clients : request[c].held # NoRecord => Explained(request[c].held)
    /\ \A c \in Editors : copy[c] # NoRecord => Explained(copy[c])

\* A read-only client sees published payloads only, each under its own
\* publishedVersion.
ViewersSeePublications ==
    \A c \in Viewers : copy[c] # NoRecord =>
        /\ copy[c].draft = copy[c].published
        /\ PublishedExplained(copy[c], changeLog, Origin)

\* Client c's transaction changes the record in this step.
Writes(c) == At(c, "transact") /\ request'[c].pc = "idle" /\ record' # record

\* A write that names a version replaces exactly the state its client saw:
\* nobody's work is silently overwritten.
NamedVersionsLoseNothing ==
    [][\A c \in Clients : Writes(c) /\ request[c].base # NoBase =>
          /\ copy[c].draft = record.draft
          /\ copy[c].published = record.published]_vars

\* An immediate publication keeps everything but the fields it is about, and no
\* draft is pending that it would destroy.
ImmediateKeepsTheRest ==
    [][\A c \in Clients :
          Writes(c) /\ request[c].op \in {"PUBLISH_PROPERTIES", "PUBLISH_TAGS"} =>
            /\ record'.draft.columns = record.draft.columns
            /\ record'.draft.itemProperties.params # record.draft.itemProperties.params
                 => request[c].op = "PUBLISH_PROPERTIES"
            /\ record'.draft.tags # record.draft.tags => request[c].op = "PUBLISH_TAGS"
      ]_vars

\* The cache never shows a state older than the one committed when the read began.
ReadsAreFresh ==
    [][\A c \in Clients :
          request[c].pc \in {"hit", "fill"} /\ copy'[c] # copy[c]
            => copy'[c].version >= request[c].started]_vars

\* Versions only grow, a record is created once, and the published payload
\* changes only under a new publishedVersion.
VersionsGrow ==
    [][record # NoRecord =>
          /\ record' # NoRecord
          /\ record'.version = record.version + (IF record' = record THEN 0 ELSE 1)
          /\ record'.publishedVersion >= record.publishedVersion
          /\ record'.published # record.published
               => record'.publishedVersion = record.publishedVersion + 1]_vars

=============================================================================
