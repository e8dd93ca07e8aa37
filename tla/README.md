# Content Hub: TLA+ models, checks and proofs

Content Hub keeps Assessment Content Packages (ACPs): an index, files, access rules,
a shared Item Explorer with drafts and publications, a review with comments, and the
jobs that process files. This directory models the parts of it where several people,
requests and caches meet over one row of the database.

Paths below are relative to the repository; `backend` stands for `src/backend/src`.

## 1. Inventory

A NestJS backend (one process, TypeORM over PostgreSQL, a volume of files) serves an
Angular page; Keycloak supplies identities. Handlers are asynchronous functions: between
two `await`s nothing else of the process runs, at every `await` anything may. Some
writers run in a transaction that locks a row (`pessimistic_write`), many read a row,
change the entity and `save()` it later.

| Component | State | Operations | Meets | What is hard | What makes it correct |
| --- | --- | --- | --- | --- | --- |
| Item Explorer state (`backend/item-explorer`) | row with draft, published payload, status, two counters; change log; `acp.itemProperties`; `featureConfig.metadataColumns`; viewer cache | read, patch, save, discard, direct publication of parameters and tags, creation on demand | items, views, collections (read it); access config (written by it) | stale editors, creation race, cache filled by slow reads, lost answers | no unseen work overwritten; read-only clients see publications only; the log is the history |
| Review configuration and readiness (`backend/review`) | feature settings, groups, categories, version (`acp_access_configs`); last readiness result | configure, check, read | comments, files, index | decision before the lock, package changing during a check, unlocked writers | activated only after a check; stored result never shown as current when it is not |
| Comments and votes (`backend/comments`) | comments with thread root, group, category, soft deletion; votes | open, reply, edit, delete, vote, count, export | review configuration | configuration changing under comments | references survive; threads stay in one group; no exposure but by a confirmed switch |
| File processing jobs (`backend/files/file-processing-jobs*`) | rows; runners and replay streams in memory; ZIP files | create, run by phases, complete, fail, stream, poll | file page, validation, index sync | check-then-insert, bootstrap read against emitted snapshots, restart, failing to save a failure | an outcome is final, is what every page hears, and is heard |
| Package files (`backend/files`) | rows, files on disk | upload (reject, overwrite, keep both), delete, expand archives | jobs, snapshots, caches, index | rows and disk are not one transaction; some writers lock the ACP, some do not | no row without its file |
| Snapshots (`backend/snapshots`) | rows, copies on disk | create, restore, diff, delete | files, index | several unlocked steps, partial failure | restore gives back what was saved, or nothing changes |
| Item catalogue (`backend/files/unit-parser*`, caches, row numbers) | caches by file revision, numbered rows | list, assign, renumber, invalidate | files, Explorer state | loads in flight while files change, provisional numbers | a number names one row |
| Collections and preferences (`backend/item-collections`, `views`) | one jsonb row per identity and package: lists with versions, personal rows, views and columns | versioned changes of lists, patches of single rows | Explorer state, files, the page | rows read before the lock, other browsers of the same identity | a change meets the content its author saw; a row reaches nobody else's record |
| ACP, roles, credentials (`backend/acp`) | packages, roles, credentials, access config | assign, remove, upload, configure | everything | count-then-remove, check-then-insert, whole-entity saves | a manager remains; user names are unique |
| Authentication, server API, administration | users, tokens, audit log, login attempts in memory | log in, bind an OIDC identity, transfer packages, revoke tokens | ACP, files | first login twice, transfer in several steps | capabilities are parameters of the models |
| Item Explorer page (`src/frontend/.../item-explorer-draft.service.ts`, `-personal-data.service.ts`, `-collections.service.ts`, facade) | pending patch, flush in flight, recovery, publication; queue of personal rows and its suspended copy in the tab's storage; lists shown before they are stored | queue, flush, save, discard, recover, reload; edit, suspend, restore; change, load, take back | Explorer state, views, collections | edits during every phase, answers out of order, sessions that end | an edit is sent, still pending, or reported lost; a page at rest shows what is stored |
| Validation, parsers, views, other pages, deployment | none, or none of their own | pure functions, projections, scripts | | | not modelled |

The row locks: the Explorer locks its own row and updates ACP and configuration, the
review and the comments lock the configuration and reference the ACP by a foreign key,
uploads and renumbering lock the ACP. Reading `withLockedState`, `configure`, the comment
transaction and the uploads together, no two of them wait for each other in a cycle
(the foreign key's share lock does not conflict with a non-key update), so no model of
the locks themselves is planned.

`PROJECT.json` lists the hazards line by line, with the properties that cover them.

## 2. Modules

Each component has one module with its state, one action per step between two awaits,
its types and its properties. `MC...` modules supply values, bounds and symmetry for TLC;
`...Proofs` modules hold theorems. The modules stand side by side because the code's
components meet through few facts, and each model takes those facts as they are: the page
(`ItemExplorerDraft`) works against what `ItemExplorerState` is shown to promise - one
version, one draft, and refusal of old versions - and the review sees the package as
something that changes.

| Module | Content |
| --- | --- |
| `ItemExplorerState` | the Explorer state of one ACP: requests split at their awaits, transactions, cache, restart |
| `GuardedDocument` | what it promises its editors: a document, copies, and guarded writes compared by content |
| `ItemExplorerDocument` | the refinement mapping from the one to the other, through the change log |
| `MCItemExplorerState`, `ItemExplorerStateProofs` | instances; theorems about the state and the refinement |
| `ReviewComments`, `MCReviewComments`, `ReviewCommentsProofs` | one review: configuration row and all its writers, readiness checks, comments, votes, visibility |
| `MCReviewParts` | `ReviewComments` with and without an unlocked writer in one run of TLC |
| `FileProcessingJobs`, `MCFileProcessingJobs`, `FileProcessingJobsProofs` | the jobs of one ACP with their runners, streams and pages |
| `PackageFiles`, `MCPackageFiles`, `PackageFilesProofs` | rows, bytes on disk and snapshots of one ACP |
| `ItemExplorerDraft`, `MCItemExplorerDraft`, `ItemExplorerDraftProofs` | the page's pending edits, publication, discarding, recovery and reloads |
| `PersonalItemData`, `MCPersonalItemData`, `PersonalItemDataProofs` | the page's queue of personal rows and the records of the identities that sign in |
| `ItemCollections`, `ItemCollectionsProofs` | the lists of one identity, one page in detail and all other browsers |
| `ItemCatalogue`, `ItemCatalogueProofs` | item lists through four caches, row numbers and their recalculation |
| `MCItemServices` | `ItemCatalogue` and `ItemCollections` in one run of TLC |

### ItemExplorerState

| Code | Model |
| --- | --- |
| `acp_item_explorer_states` row, change log, `acp.itemProperties`, `featureConfig.metadataColumns`, `viewerStateCache` | `record`, `changeLog`, `itemProperties`, `metadataColumns`, `cache` |
| a request between two awaits; the envelope its client got last | `request[c]`, `copy[c]` |
| `getCachedViewerState` | `LookUp`, `ValidateVersion`, `ServeHit` / `DropStale`, `EnsureRecord`, `Initialise`, `FillCache`; `EvictEntry` for the bound of the cache |
| `withLockedState` | `EnsureRecord`, `Initialise`, then one action per operation: the transaction holds the row from its first read to its commit |
| `patchDraft`, `saveDraft`, `discardDraft`, `publishItemPropertiesImmediately`, `publishTagsImmediately` | `PatchDraft`, `SaveDraft`, `DiscardDraft`, `PublishItemProperties`, `PublishTags`, each with log entry and answer |
| a 409 or a database error; a process restart | `Abandon`; `Restart` |

A client names the version of its copy or none (`Bases`); the answer to a commit may be
lost. `statesEqual` compares JSON texts, and a patch can change the order of keys, so an
equal draft may be DIRTY (`reordered`). Payloads have one column setting, one tag map
and item properties with tags and parameters; `ui` and `itemOrder` merge as columns do
and are left out; `itemPropertiesPatch` appears as the properties it results in.
Both the editors' and the viewers' copies are envelopes of `toViewerEnvelope`.

### ReviewComments

| Code | Model |
| --- | --- |
| `acp_access_configs` row (feature settings, groups, categories, version) | `config`, the jsonb lists as functions on ids |
| comments and votes | `comments` (deleted ones keep their place), `votes` in each |
| what a readiness check reads; `review_readiness_snapshots` | `package` with a stamp for its fingerprint, `lastCheck` |
| a manager's page and request | `pages[m]`, `requests[m]` |
| `ReviewReadinessService.check` | `TakeFingerprint`, `Evaluate`, `FinishCheck`; `PackageChanges` at any time |
| `ReviewController.configure` | `PutConfig` (unlocked decision), perhaps a check, `CommitConfig` (the transaction) or `RefuseConfig` |
| `updateAccessConfig`, `updateMetadataColumns` | `UpdateAccessConfig`, `UpdateMetadataColumns` (locked) |
| `applyPublishedStateToDomain`, `ensureShowOnlyItemsWithEmpiricalDifficulty` | `ReadRow`, `CompareRow`, `WriteRow`: TypeORM's `save()` reloads the row and writes the columns that differ |
| `createReviewComment`, `updateOwnComment`, `deleteOwnComment`, `setVote` | `OpenThread`, `Reply`, `EditComment`, `DeleteComment` (with the trigger on votes), `Vote` |

What is abstracted: the rules of a check are a verdict, and a package that changed
between fingerprint and rules may look like anything; an index edited and edited back
during one check is not modelled (a stamp never returns); the body of a configuration
request is chosen when it commits, and edits one entry of each list; group members are
assumed to exist; `columns` stands for the setting an unlocked writer sets; comment
text, its version check, targets and legacy read-only comments are left out, as is
`review_revision`. `overwritten` is a history variable: an unlocked save has undone a
change it had not seen. Properties of the configuration say nothing after that.

### FileProcessingJobs

| Code | Model |
| --- | --- |
| `acp_file_processing_jobs` row; `runningJobs`; `streams` (ReplaySubject of one) | `row[j]`, `runner[j]` with its phases, `stream[j]` |
| `ensureNoActiveJob`, then `createAndStartJob` | `CheckNoActiveJob`, `Create`: two steps, no lock |
| `runJob` and its reporter | `Run` (phases, `WriteArchive`, completion, failure), `LoseOutcome` (saving the failure fails) |
| `bootstrapStream` | `BootRead`, `BootEmit`, `BootFail` |
| the file page: `waitForJob`, `pollJob` | `Follow` (subscribe, receive, end of stream, poll), `Disconnect`, `Forget` |
| process restart | `Restart`: runners and streams are gone, rows stay |

Saving a row and emitting its snapshot are one step, as is the last save with the end
of the stream. Progress within a phase is left out.

### PackageFiles

| Code | Model |
| --- | --- |
| `acp_files`; the volume; `acp_snapshots` and `acp_snapshot_files`; `acp.acpIndex` | `rows`, `disk`, `snapshots`, `index` |
| a handler's local variables at an await | `stage[r]` |
| `uploadMultiple` with its strategies | `BeginUpload`, `StageUpload` (a file is written), `CommitUpload` (the transaction under the ACP's lock) or `FailUpload` (what was staged is removed), `UnlinkOne` per replaced file |
| `removePath`, which ignores every error | `Removes`: with disk failures any of the files may stay (`leaked`) |
| `deleteManyForAcp` | `BeginDelete`, `DeleteRows`, `UnlinkOne` |
| the automatic validation | `BeginValidation` reads entities, `SaveValidation` saves them, and inserts those deleted meanwhile (`resurrected`) |
| `SnapshotsService.create` | `BeginSnapshot` (version number), `SaveSnapshot`, `ListRows`, `CopyFile` per row with its fall-back to the row's own path, `SaveSnapshotFiles` |
| `delete` | `DeleteSnapshot`, `PurgeSnapshot` (row, then directory) |
| `restoreSnapshot` | `BeginRestore`, `RestoreIndex`, `FetchFile` per file or `FailRestore` (a copy that breaks off may lose its target), `ClearRows`, `InsertRows` |
| the process stops; the disk fails to write, copy or remove | `Crash`: the requests are gone, rows and disk stay; the failing branches of the steps |

Bytes are the number of the upload that wrote them; a checksum is the `bytes` of a row.
`dropped`, `resurrected`, `crashed`, `ambiguous`, `leaked` are histories that say after which
accidents a property no longer speaks: rows a restore replaced keep their bytes on disk
for ever, a file that cannot be removed stays without a row, and a restore that finds two
files of one name writes both to one path. A transaction that throws is assumed to have
stored nothing, also when the answer to its commit is lost.

### ItemExplorerDraft

`page` holds the fields of the service and of the facade (what is shown, the version and
status, the pending patch and its timer, the request under way, the publication or
discard that waits, the reloads). An action is one event of the browser with all promise
callbacks it triggers: `EditTags`, `EditProps`, `TimerFires`, `Save`, `Discard`; `Accept`,
`Refuse`, `OtherEdits` at the backend; `Answer` (a patch stored, in conflict or failed, an
operation stored, in conflict or failed), `Load` (state and list, each read and arriving
separately). `record` has one draft and published state per version. The tag map is sent
as a whole, item properties one by one, which is what makes their losses differ. `owed`
is a history of the user's edits neither stored nor discarded nor reported lost,
`hidden` of tag edits that a reload took off the page. Left out: the read-only
perspective, parameter imports, preview, table.

### PersonalItemData

| Code | Model |
| --- | --- |
| `ch_token` in the local storage, shared by all tabs | `token`, read when a request is sent (`Save`, `RetryLoad`, `Discard`), as in the interceptor |
| storage events of `ch_token`; messages in the channel `ch_auth` | `events`, `messages`, delivered in order, each at any time after the change |
| login, logout and refreshed session in this tab | `SignIn`, `SignOut`: storing the token and `currentUser$` are one callback, so the page follows at once |
| the same in another tab | `SignInElsewhere`, `SignOutElsewhere`: the token changes at once, the tab hears later |
| the listeners of this tab | `HearToken`, `HearSession`, `HearLogout`, `ProfileArrives` |
| `syncPersonalItemDataSession` | `Sync`: the page takes over an identity, its queue is suspended or goes |
| the interceptor sends a request again after a refresh | `SaveAgain`, `LateAgain`, `LoadAgain`, with the token there is by then |
| route entered and left, tab reloaded | `OpenPage`, `Leave`, `DestroyPage`, `ReloadTab` |
| `restorePendingPersonalSession` | `Restored` in `LoadAnswered` |
| `saveNextPersonalItemRow` and its answer | `SaveNext`; `Store` or refusal at the server, `Saved`, `SaveFails`; `LateStore` of a save whose page is gone |

The server refuses a row that is not in the item list or is one too many (`MaxRows`), and
everything without a token. `foreign` is a history of rows stored, or read, past the page
that shows them; `crossed` of rows sent or read with the token of an identity the page had not
heard of, or sent again with another session. The window in which the page's identity and the
token differ is the state `RowsCrossOnlyBetweenSessions` is about.

### ItemCollections

The record of one identity, changed by a page in steps - asked, rows or source read before
the lock (`Read`), stored or refused under it (`Store...`), answered (`RowsAnswered`,
`Answered`, `Conflict`, `CallFails`) - and by other browsers in whole steps
(`Elsewhere...`). The page shows a change before it is stored and takes it back
(`Reverted`). `blurred` is a history of lists whose version was set on rows a load had
brought in between.

### ItemCatalogue

`log` keeps the sets of file rows now and before, `numberings` the stored row numbers now
and before (only their last entries, `Current` and `numbers`, have an effect), `caches` the four maps of the process
with their loads in flight, which several requests share. A request goes through
`ReadSignature`, `LoadFiles`, `Parse`, numbers without or with the lock (`Assign`,
`AssignLocked`, `AssignProvisionally`, `ReadHighest`), `CheckRevision`, or
`StrictParse` and `Renumber`; `ChangeFiles`, `Unlink`, `Invalidate` (also by another
process, which invalidates nothing here), `EditDraft` and `Publish` go on around them.
Cache keys are the content they stand for (a set of files, the numbers) instead of
version tokens; evictions, the read-only path of review transactions and the unit view
are left out.

## 3. Runs

| Run | Instance | Shows |
| --- | --- | --- |
| `explorer_editors` | 2 editors, 2 contents of the item properties, 3 versions | equal versions mean equal content (`CopiesTellTheHistory`); a write that names a version replaces what its client saw (`NamedVersionsLoseNothing`); the service is a `GuardedDocument` (`ImplementsGuardedDocument`) |
| `explorer_viewer` | an editor and a viewer, 2 columns, 2 tag maps, 3 versions | viewers see publications only (`ViewersSeePublications`), none older than their read (`ReadsAreFresh`); the log is the history (`LogTellsTheHistory`); CLEAN means nothing pending (`CleanMeansPublished`); direct publications keep the rest (`ImmediateKeepsTheRest`) |
| `review_config` | 1 manager, 2 participants, a category, a comment; a group and 5 versions, or an unlocked writer and 4 | comments without a group stay hidden through every sequence of configurations (`UngroupedStayHidden`); references hold until a save undoes a change (`CommentsKeepTheirReferences`) |
| `review_threads` | a manager who participates, a participant, 3 comments, a group | threads are flat and stay in their group (`ThreadsHoldTogether`); votes are by others and end with the comment (`VotesStand`) |
| `review_activation` | 2 managers, the package changes once, 4 versions | no activation without a passed check (`ActivationFollowsACheck`); no outdated result shown as current (`ReadinessIsCurrent`) |
| `jobs` | 2 pages, 2 jobs with archives, restarts and database failures | outcomes are final (`OutcomeIsFinal`); ended streams and pages tell them (`EndedStreamsTell`, `PagesTellTheOutcome`); who started a job learns how it ended, unless a fault took it (`PagesLearnTheOutcome`) |
| `files` | 2 requests, 2 names, 3 rows, 1 snapshot, crashes, a disk that fails to write, copy or remove | uploaded rows have their file (`UploadedRowsHaveTheirFile`); no file without a row, except after a crash or a removal that failed (`NothingIsLeftBehind`); snapshots keep their copies (`SnapshotsKeepTheirFiles`); bytes are those of the checksum (`ChecksumsAreTrue`) |
| `files_restore` (violated) | 2 requests, 2 indexes, 2 rows, 1 snapshot | `RestoresAreNotPartial`: a restore replaces the index although it cannot restore the files |
| `draft_page` | 3 edits, 5 versions, another editor, a failing network | no edit lost without a message (`EditsAreNotLostSilently`), none left behind unasked (`NothingUnsentWhenLeaving`); a page at rest shows its draft (`ShownIsTheDraft`); operations end (`OperationsEnd`); edits are sent or an error is shown (`EditsAreSentOrReported`) |
| `personal_page` | 2 identities, 2 rows of which 1 may have data, 2 edits; a failing network, or another tab and expired sessions | no unconfirmed edit forgotten (`UnsavedEditsAreKept`); what waits for nothing is shown as stored (`ShownIsStored`); rows reach another record only by requests sent before the page has heard of a change of the token, or sent again (`RowsCrossOnlyBetweenSessions`); waiting ends, queues are sent or an error is shown (`WaitingEnds`, `QueueIsSentOrReported`) |
| `personal_switch` (violated) | as `personal_page` | `RowsStayWithTheirAuthor`: another tab signs in, and a queued row is stored for the new identity before the page hears of it |
| `item_services` | 2 clients, 2 files, one divided item, ten budgets; or 1 list of 2 ever made, 3 versions, 1 row | lists show every file that stayed and none that never was (`ListsShowThePackage`), with numbers of one moment (`NumbersAreOfOneMoment`); drafts take up no numbers (`DraftRowsStayUnnumbered`); recalculations count what is there at their commit (`RenumberingCountsThePackage`); a change is stored only on the rows its page showed (`ChangesAreInformed`), and no page shows a version with other rows than stored (`NothingAnsweredIsLost`) |

`item_services` holds two services that share no variable; `part` chooses one of them at
the start, so that each is explored as if alone and the sum, not the product, of their
states is visited. `review_config` and the runs of the personal data choose a `part` in the same way:
what the two parts bring together (a group and an unlocked writer; a failing network and another tab)
is explored apart, and in the proofs together. Neither part of `review_config` has votes, which
`review_threads` is about.

**Bounds.** `MaxVersion` bounds commits; three versions of the Explorer hold two
transactions after the creation, which is one to be stale about and one to be stale
in. `MaxVersion` of 5 in `review_config` allows GROUP to be entered, left and entered
again around a change of the list. `MaxComments` of 3 gives a reply to a reply.
`MaxStamp` of 1 lets the package change at any point of both managers' checks. `Jobs`
are used once each; two of them are enough for two runners at once and for a job after
one a restart left active. `MaxFiles` of 3 and `MaxSnapshots` of 1 allow a file, its
replacement and a third beside them, a snapshot of two of them and its restore into new
rows; `QuietAfterAccidents` lets only one request go on after a crash, a resurrected row or a file
that could not be removed, and allows two of these, since what two requests do to each other is
explored before. `MaxEdits` of 3 and
`MaxVersion` of 5 on the page let a patch fail, be merged under a second and conflict with
a third, and other editors commit while it recovers; a state that is too old for its list
is read again twice, then the reload fails; one reload in the background at a time.
`MaxEdits` of 2 with `MaxRows` of 1 lets a row be edited again while its save is under way, and lets
the limit refuse the second row; `MaxNews` of 1 is one change the tab has still to hear of, `MaxChanges` of 3
lets an identity come, give way to another and come back; writes to the same row from other
browsers are not modelled. One own list and one created later, three versions and one load
at a time let a list be changed, deleted and made again around a slow load. The
budgets of the catalogue give each pair of what can go wrong together (lists, row keys,
recalculations, changed files, changed drafts) with two or three requests; each file holds one
item, and one item may be divided.

Actions past a bound are disabled. Runs whose bounds can leave nothing to do
say `CHECK_DEADLOCK FALSE`; in the others reads, restarts and refusals always go on. `NotOverwritten`
keeps `review_config` to the states its properties speak of. Symmetry is over clients,
participants, columns, parameters, requests and names, which no definition tells
apart; no run with symmetry checks a liveness property. In the `ReadySpec` runs the
package has passed its rules, which `review_activation` is about.

**Fairness.** `FileProcessingJobs`: the event loop goes on with every promise that can
(`Run`, `BootRead`, `BootEmit`), and a page whose connection is open, or whose timer
polls every second, receives (`Follow`). `ItemExplorerDraft` and `PersonalItemData`:
timers fire, a request that was sent is answered or fails, a load arrives or fails - the
HTTP client settles every request it was given. Nothing is assumed of users, of other
browsers, of restarts or of which way a request ends; the liveness properties therefore allow
an error that is shown.

## 4. Proofs

Eight modules hold the theorems `PROJECT.json` lists. They hold for any number of clients,
requests, payloads, files, edits and versions, from the named assumptions on the constants
in the modules, which TLC evaluates on its instances: bounds are natural numbers, the
values of absence (`None`, `NoJob`, `NoRecord`, ...) are none of the values they
stand beside (`NoDocumentAssumption`, `NothingAssumption`, `NoneAssumption`,
`CollectionsAssumption`, `UnsetAssumption`), and a package has finitely many files, which hold items. Nothing else is assumed of the environment, and no
theorem uses fairness.

*ItemExplorerStateProofs.* `TypeCorrect`: inductive once the loop of a request is typed by its
`pc` (a transaction has a record, a fill has a row). `CleanStatusIsRight`,
`LogIsComplete`, `CopiesAreTrue`, `DraftsStayHidden`, `NoLostUpdate`,
`VersionsOnlyGrow`: no property of a copy is inductive without the log. `HistoryInv` says
that the log is in order, ends in the record, and *explains* every copy that exists
anywhere (cache, request, client). Steps either leave record and log alone and only move
copies, or create the record, or append one entry; an entry appended keeps what was explained
explained, because explanations look at earlier entries. `NoLostUpdate` compares two
explanations under one version; `BasesAreCopies` says that a request under way still names
the version of its client's copy. `ReadsStayFresh`: `FreshInv` holds as no step
lowers the record's version, and a read that reaches its end holds the version the record
had when it was last looked at. `ImmediateIsNarrow`: a direct publication starts from a CLEAN
record, whose published payload is the draft.

`DocumentIsGuarded`, in the same module: the refinement. The abstract document
is the record's, the abstract past the set of documents that can be read off the log, one
per version (`DocumentsAreExplained`, `PastDocuments`); editors' copies and intentions are
those of their envelopes and requests. Every action is a stutter, a move of an intention or an
answer, or one commit; a commit that names a version lands, by `NoLostUpdate`'s
invariant, on the document the editor's copy has. `ReadersRead` adds that a request in the
stages of a read is one.

*ReviewCommentsProofs.* `TypeCorrect`, `ReferencesAreKept`, `ThreadsAreFlat`,
`VotesAreByOthers`: inductive together with the types. `ShownReadinessIsTrue`: a result carries
the verdict of the package whenever its stamp is current, at every stage of a check.
`ActivationsAreChecked`: a configure request at its commit that asks for an active
review has passed a check or has read, under its version, a review that was already active; the
version check makes the row it locks the row it read. `UngroupedAreNotExposed`.

*FileProcessingJobsProofs.* `TypeCorrect`, `StreamsTellTheOutcome`, `PagesAreRight`,
`OutcomesAreFinal`. The invariant relates a row to its runner (only an active job runs), to
what its stream replays, to what a bootstrap read still holds (an outcome once read is the row's), and
a page to the row of the job it follows.

*PackageFilesProofs.* `TypeCorrect`, `UploadsAreOnDisk`, `NothingIsLost` (what is left is in `leaked`,
when nothing crashed and no restore dropped its row), `CopiesStay`: `Inv`
says which rows a request is about to create, which it has read and which files it will
unlink, and that these do not meet: an id is created by one request, files to be unlinked belong
to no row that stays, copies of a snapshot lie in its own directory. Each action is shown to be
one of a few kinds of move, and each kind to keep the invariant. `BytesAreTold` needs more: bytes
wander through copies of snapshots that may be deleted since and whose restored files go into further
snapshots. `ContentInv` therefore speaks of the contents that all snapshots ever had, those
deleted included: there is a function `C` from snapshot ids to file lists such that `Belongs`
- a path under the uploads holds the upload it is named after, a copy the bytes `C` lists at its place,
a restored path the bytes of the one file of that name in `C` - tells true of every
path on disk, every row, every list a request still holds. `C` is no variable of the model; each
step shows that the old `C` still does, or, when a file is copied, that one with one more entry does.
The invariant ends where `ambiguous` says that a restore wrote two files to one path.

*ItemExplorerDraftProofs.* `TypeCorrect`. `EditsNotLost`, `LeavingLosesNothing`: `OwedInv`
says that tags the user is owed wait, are under way, or were hidden by a reload, and are on
the page unless hidden, so that the next edit sends them again; that of the item property the newest
edit waits; and that nothing is owed once a draft is being discarded. `PagesAtRestShowTheDraft`:
`SettledInv` says that the page shows the draft of its version, or something waits, is under way, is
reported as failed, is not listed, or the page recovers from a conflict. Every operator the actions are
made of (`Flushed`, `Showing`, `Finished`, `Reloaded`, ...) has a lemma for each of the three invariants.

*PersonalItemDataProofs.* `TypesHold`, `EditsAreKept`, `PagesShowWhatIsStored`,
`RowsCrossOnlyBeforeNews`: `PersonalInv` says that the page's identity is the token's unless an event
is still to be delivered; that a queue holds one update per row, numbered within the
edits made, as shown, and of one author (`Authentic`: or of rows in `crossed`); that a suspended queue belongs to whoever signs in next, or goes;
that a save in flight is for the first row of the queue and is that very update or an older edit; and that
what it has stored is in the record unless a late save came after it.

*ItemCollectionsProofs.* `TypesHold` (with the limit of lists), `AnswersStayTrue`,
`StoredChangesAreInformed`: `CollectionsInv` relates three versions of the truth - what is
stored, what a load or an answer under way was stored as, what the page shows and showed before a
change - by `Behind` (not newer than stored) and `Agrees` (same version, same rows), with the exception
`blurred` names.

*ItemCatalogueProofs.* `TypesHold` (no number twice), `ListsAreTrue`, `NumbersFitTogether`,
`DraftsTakeNoNumbers`, `RenumberingIsCurrent`. A list is true of nothing the model holds when it is
answered: it was read from files that may be gone, by another request, or kept in a cache under a key that may
have come back. `CatalogueInv` therefore ties all of it to the histories `log` and `numberings`. `Loaded` and `Seen`
say that files read under a signature are those of a later moment, and that what was not found of them on
the disk is gone for good, as nothing uploaded is uploaded again; `Agrees`, that numbers differ and are those
of one moment. `Waits` makes those who wait for a load wait for its owner, at the same key, so that what the owner
finds is what each of them could have found; `CachesFit` says the same of what is kept. Of a request that
has read numbers twice (`provisional`, `highest`) nothing holds until its look at the revision, so the invariant
says what would be true if the revision were unchanged. Every way in which a request goes on
(`Catalogued`, `Parsed`, `Served`, `Numbered`, `Wake`, ...) has a lemma, and a change of files or of numbers
one that says what older facts become. A recalculation counts what is there because a version of the
Explorer state has one publication, and the rows it parsed are those of the files it compares.

Where an argument needs a least or last element (the last log entry below a version, the first free
id), it is obtained from the library's theorem on well-founded relations: induction theorems
that take an operator as a parameter are outside what the prover can instantiate. The type
invariants of the Explorer, the review, the jobs, the files, the page and the collections are proved
and in no run.

What TLC alone checks: liveness under fairness and `ENABLED` (`PagesLearnTheOutcome`, `OperationsEnd`,
`EditsAreSentOrReported`, `WaitingEnds`, `QueueIsSentOrReported`), which are outside what the
prover can do. Every invariant and every action property of a passing run is a theorem. TLC checked
`CatalogueInv` itself, with two clients and two files, before it was proved.

## 5. Findings

*A restore is partial* (`backend/snapshots/snapshots.service.ts:155`, run `files_restore`). The index
of the snapshot is saved before the files are looked at; a missing copy then ends the restore with the
old files under it. The comment at line 157 promises to "avoid partial restores".

*A row is stored for whoever signed in last* (`src/frontend/src/app/core/interceptors/auth.interceptor.ts:26`,
run `personal_switch`). The token is read from the storage all tabs share when a row is sent; the queue is
given up when the storage event arrives. A debounce timer that fires in between sends the first identity's row
with the second one's token, and the server stores it there. `docs/features/item-explorer.md:419-420` says that pending
rows are "discarded when a different identity signs in".

### Seen while modelling

Disagreements and weaknesses that no run is spent on:

- *Jobs.* Check and insert are separate, so two jobs can run at once; rows that a restart left active
  block the ACP, as nothing fails or resumes them (`file-processing-jobs.service.ts:332`, `:343`).
- *Explorer.* The tags of a saved draft reach the state row, not `acp.itemProperties`
  (`item-explorer-state.service.ts:744`, against `docs/features/item-explorer.md:386-391`). An equal
  draft can stay DIRTY (`statesEqual`). Whole-entity saves write an old review configuration or index
  back (`item-explorer-state.service.ts:724`, `:747`, `items.service.ts:392`, `unit-parser.service.ts:503`,
  `acp.service.ts:248`).
- *Review.* Counts read configuration and comments in separate statements (`comments.service.ts:514`,
  against `docs/review-visibility-groups.md:108`); replies in an archived group are refused by looking
  the group up among the actor's groups, which hold archived ones for managers only (`:641`).
- *Snapshots.* Deleting a snapshot takes the files away that were restored from it
  (`snapshots.service.ts:93`); restoring one whose files are still being recorded
  restores an empty package. A restore deletes and inserts the rows in two statements (`:178`), so two restores, or a
restore and an upload, leave rows of both. A file that cannot be copied is recorded at its live path (`:242`),
which later deletions take away.
- *Files.* A file that cannot be removed stays on disk without a row, as the error is ignored
  (`file-storage.service.ts:73-79`). A validation that read a row before its deletion inserts it again without its
  file (`validation.service.ts:219`).
- *Page of the Explorer.* A tag edit queued during the recovery from a conflict is sent under the
  reloaded version (`item-explorer-draft.service.ts:295`, against `docs/features/item-explorer.md:50`);
  a reload in the background can clear ERROR while an edit stays queued, hide tag edits that are not sent
  yet, and move the version back.
- *Personal rows.* A late save of an ended session can overwrite a newer row; a row that is refused
  holds up all others until it is discarded. A request that is sent again after a refresh takes the session of
  another tab, if that has signed in meanwhile (`auth.interceptor.ts:70-82`).
- *Collections.* A load answered during a change of rows leaves the older rows under the new version
  (`item-explorer-collections.service.ts:448`).
- *Catalogue.* A load overtaken by an upload and its deletion refills a cache after its invalidation
  (`unit-parser.service.ts:1033-1045`), which is why `ListsShowThePackage` leaves out a package that was before
  what it is now. An item that two files hold in turn may be missing from a list that read the first too late
  and the second too early (`item-list.parser.ts:434-443`): the property is stated for files, not for items.
  Provisional numbers may coincide (`item-row-numbering.service.ts:157-170`), on a draft's list with a file gone, which
  is answered without a look at the revision, and when recalculations bring the numbers back to what they were
  between the look at the known numbers and the one at the highest: a revision is a digest of the numbers
  (`item-row-numbering.service.ts:35-76`), and an equal digest passes. `NumbersAreOfOneMoment` names both exceptions.
- *Preview.* (`item-explorer-player.service.ts`, read but not modelled.) Toggling the solution before
  the first report of the regular flow loses the stored answers with the next change of view (175-191, 528-547,
  against `docs/item-explorer-preview-context.md:20-21`); deleting stored answers resets `flowStarted`, so
  the next restart of the frame drops later inputs (217-227, against line 16 of the same page); two changes
  of the paging mode within 50 ms leave no frame (273-286); a load that has already read the state undoes on
  screen a deletion confirmed meanwhile; a late earlier save can overwrite a newer row, and two
  inserts meet in the unique index (`item-response-state.service.ts:32-53`).

## 6. Not modelled, and why

Parsers, validators and exports are functions of their input without state; they stand behind a
verdict, an item per file or a set of rows. Views are projections. Tokens and passwords are
cryptography. Deployment, proxies and the identity provider are not this program's protocols.
Item response states and the preview around them follow the messages of an external player and the life of
an iframe; what was seen there is listed above. Roles, credentials and administration
save one row at a time against unique indexes; their check-then-act steps (the last manager,
an existing user name) are left out. Tables, dialogs and layout of the pages hold no state others depend on.

## 7. Plan

Done: the Explorer and its refinement, the review, the jobs, package files and snapshots, the page's draft and
personal data, collections, the catalogue, and the proofs of section 4, which hold every safety property
of the passing runs. What is left:

1. Safety facts behind the liveness properties, as action properties with proofs: what a step that
   ends an operation of the page or a job may not leave behind.
2. An abstract specification of the personal rows (one record per identity, written by its owner only) and
   of the jobs (one outcome per job), with their refinements.
3. Roles of a package (`backend/acp`), should they be modelled: at least one manager remains.

## 8. Running

    tlc -workers 2 -config ItemExplorerState_editors.cfg MCItemExplorerState.tla
    tlapm PackageFilesProofs.tla

`PROJECT.json` names the module of every configuration, the lines each definition
stands for, and for every property a mutated definition that violates it.
