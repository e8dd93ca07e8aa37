--------------------------- MODULE ItemExplorerDraft ---------------------------
(***************************************************************************)
(* The browser's side of the Item Explorer: ItemExplorerDraftService and   *)
(* the methods of the facade that coordinate it.  The page collects edits  *)
(* in a patch, sends it after a pause or at once, publishes or discards    *)
(* the draft, recovers from conflicts and reloads the list of items, while *)
(* its user goes on editing.                                               *)
(*                                                                         *)
(* The backend appears by what ItemExplorerState promises: a version names *)
(* one draft and one published state, and a write that names an old        *)
(* version is refused.  An envelope is therefore the number of a version.  *)
(* JavaScript runs one event at a time: an action is an event (an edit, a  *)
(* timer, an answer) with all the promise callbacks it triggers.           *)
(***************************************************************************)
EXTENDS Integers, Sequences, FiniteSets

CONSTANTS
  MaxEdits,     \* bound: edits made by anyone
  MaxVersion,   \* bound: the version up to which drafts are published or edited by others
  Faults,       \* of "network": requests whose answer is an error
  None          \* no request, no reload

ASSUME DraftAssumption ==
  /\ MaxEdits \in Nat /\ MaxVersion \in Nat \ {0}
  /\ Faults \subseteq {"network"}

Edits == 1..MaxEdits
Loaders == {"awaited", "background"}

\* The tag map is edited and sent as a whole; the other fields one at a time.
Content == [tags : SUBSET Edits, props : 0..MaxEdits]
IsPatch(patch) ==
  /\ DOMAIN patch \subseteq {"tags", "props"}
  /\ "tags" \in DOMAIN patch => patch.tags \subseteq Edits
  /\ "props" \in DOMAIN patch => patch.props \in Edits
NoPatch == <<>>
Patch ==
  {NoPatch} \cup [tags : SUBSET Edits] \cup [props : Edits]
    \cup [tags : SUBSET Edits, props : Edits]
Request ==
  [kind : {"patch", "save", "discard"}, patch : Patch, base : Nat,
   answer : {"none", "ok", "conflict", "failed"}, version : Nat]
ASSUME NoneAssumption == None \notin Request

Nothing == [tags |-> {}, props |-> 0]

VARIABLES
  record,     \* what the backend keeps: draft and published state by version
  page,       \* the fields of service and facade
  nextEdit,   \* the next unused edit
  owed,       \* history: the user's edits that are neither stored, nor discarded,
              \*   nor replaced by the user, nor reported as lost
  hidden      \* history: tag edits a reload took off the page before they were stored

vars == <<record, page, nextEdit, owed, hidden>>

Version == Len(record)
DraftOf(v) == record[v].draft
Dirty(v) == record[v].draft # record[v].published
\* The fields of new, and those of old that new does not have.
Over(new, old) ==
  [x \in DOMAIN new \cup DOMAIN old |-> IF x \in DOMAIN new THEN new[x] ELSE old[x]]
Apply(patch, content) == Over(patch, content)

Init ==
  /\ record = <<[draft |-> Nothing, published |-> Nothing]>>
  /\ page = [shown |-> Nothing, listed |-> TRUE, version |-> 1, status |-> "CLEAN",
             pending |-> NoPatch, timer |-> FALSE, call |-> None,
             op |-> "none", waits |-> "none", recovering |-> FALSE,
             fetch |-> [o \in Loaders |-> None], list |-> None]
  /\ nextEdit = 1
  /\ owed = Nothing
  /\ hidden = {}

-----------------------------------------------------------------------------
(* What the page knows                                                     *)

InFlight(p) == p.call # None /\ p.call.kind = "patch"
Publishing(p) == p.op = "save" /\ p.waits # "flush"
Discarding(p) == p.op = "discard"

\* Mutant: a patch under way is as good as stored.
HasQueuedChanges(p) ==
  \/ p.pending # NoPatch \/ p.op # "none" \/ Dirty(p.version) \/ p.status = "DIRTY"

HasPendingDraftChanges(p) ==
  \/ p.pending # NoPatch
  \/ InFlight(p)
  \/ p.op # "none"
  \/ Dirty(p.version)
  \/ p.status = "DIRTY"

-----------------------------------------------------------------------------
(* Steps of the service, from page to page                                 *)

Sent(p, kind, patch) ==
  [p EXCEPT !.call = [kind |-> kind, patch |-> patch, base |-> p.version,
                      answer |-> "none", version |-> 0],
            !.status = "SAVING"]

\* performDraftPatch
SentPatch(p) == [Sent(p, "patch", p.pending) EXCEPT !.pending = NoPatch, !.timer = FALSE]

\* flushDraftPatch
Flushed(p) ==
  IF p.pending = NoPatch \/ Discarding(p) \/ Publishing(p) \/ p.recovering \/ InFlight(p)
  THEN p ELSE SentPatch(p)

\* Mutant: the version is adopted and nothing is shown.
Adopted(p, v) ==
  [p EXCEPT !.version = v, !.status = IF Dirty(v) THEN "DIRTY" ELSE "CLEAN"]

\* acceptEnvelope and applySharedExplorerEnvelope
Showing(p, v) ==
  [p EXCEPT !.version = v, !.shown = DraftOf(v),
            !.status = IF Dirty(v) THEN "DIRTY" ELSE "CLEAN"]

\* Mutant: what was queued during a publication stays queued.
FinishedQuietly(p) == [p EXCEPT !.op = "none", !.waits = "none"]

\* finishOperation, which flushes what was queued during a publication
Finished(p) ==
  LET q == [p EXCEPT !.op = "none", !.waits = "none"]
  IN  IF Publishing(p) /\ p.status # "ERROR" THEN Flushed(q) ELSE q

\* reloadItems without a state to go with: the list of the state on the page.
Listing(p) == [p EXCEPT !.list = [owner |-> "background", expected |-> 0, attempt |-> 1,
                                  answer |-> 0]]

\* reloadSharedExplorerStateAndItems; bound: one reload in the background at a time.
Fetching(p, o, attempt) ==
  [p EXCEPT !.fetch[o] = [attempt |-> attempt, version |-> 0]]

\* An awaited reload ends: finishConflictRecovery, and the operation that waited.
Reloaded(p, loaded) ==
  LET q == IF loaded THEN p ELSE [p EXCEPT !.status = IF p.recovering THEN "ERROR" ELSE @]
      r == [q EXCEPT !.recovering = FALSE]
      s == IF p.recovering /\ loaded /\ ~Discarding(p) THEN Flushed(r) ELSE r
  IN  IF p.op = "none" THEN s ELSE Finished(s)

\* Where a save or a discard goes on when nothing is being flushed any more.
Posted(p) == [Sent(p, p.op, NoPatch) EXCEPT !.waits = "post"]

-----------------------------------------------------------------------------
(* The user                                                                *)

\* queueDraftPatch; dialogs cover the page while a draft is discarded.
Queued(p, patch, immediately) ==
  LET q == [p EXCEPT !.pending = Over(patch, @), !.status = "DIRTY", !.timer = ~immediately]
  IN  IF immediately THEN Flushed(q) ELSE q

EditTags ==
  /\ nextEdit <= MaxEdits /\ page.listed /\ ~Discarding(page)
  /\ LET tags == page.shown.tags \cup {nextEdit}
     IN  page' = Queued([page EXCEPT !.shown.tags = tags], [tags |-> tags], FALSE)
  /\ owed' = [owed EXCEPT !.tags = @ \cup {nextEdit}]
  /\ nextEdit' = nextEdit + 1
  /\ UNCHANGED <<record, hidden>>

EditProps ==
  /\ nextEdit <= MaxEdits /\ page.listed /\ ~Discarding(page)
  /\ page' = Queued([page EXCEPT !.shown.props = nextEdit], [props |-> nextEdit], TRUE)
  /\ owed' = [owed EXCEPT !.props = nextEdit]
  /\ nextEdit' = nextEdit + 1
  /\ UNCHANGED <<record, hidden>>

TimerFires ==
  /\ page.timer
  /\ page' = Flushed([page EXCEPT !.timer = FALSE])
  /\ UNCHANGED <<record, nextEdit, owed, hidden>>

\* saveExplorerDraft flushes first, or waits for the flush or the recovery under way.
Save ==
  /\ page.op = "none" /\ HasPendingDraftChanges(page) /\ Version < MaxVersion
  /\ LET p == Flushed([page EXCEPT !.op = "save", !.waits = "flush"])
     IN  page' = IF InFlight(p) \/ p.recovering THEN p ELSE Posted(p)
  /\ UNCHANGED <<record, nextEdit, owed, hidden>>

\* discardExplorerDraft drops what is queued.
Discard ==
  /\ page.op = "none" /\ HasPendingDraftChanges(page) /\ Version < MaxVersion
  /\ LET p == [page EXCEPT !.op = "discard", !.waits = "flush", !.pending = NoPatch,
                           !.timer = FALSE]
     IN  page' = IF InFlight(p) \/ p.recovering THEN p ELSE Posted(p)
  /\ owed' = Nothing
  /\ UNCHANGED <<record, nextEdit, hidden>>

-----------------------------------------------------------------------------
(* The backend                                                             *)

Stored(entry) == record' = Append(record, entry)

Effect(call) ==
  CASE call.kind = "patch" -> [record[Version] EXCEPT !.draft = Apply(call.patch, @)]
    [] call.kind = "save" -> [record[Version] EXCEPT !.published = record[Version].draft]
    [] call.kind = "discard" -> [record[Version] EXCEPT !.draft = record[Version].published]

Answered(answer, v) ==
  page' = [page EXCEPT !.call.answer = answer, !.call.version = v]

Accept ==
  /\ page.call # None /\ page.call.answer = "none"
  /\ page.call.base = Version
  /\ Stored(Effect(page.call))
  /\ \/ Answered("ok", Version + 1)
     \/ "network" \in Faults /\ Answered("failed", 0)    \* the answer is lost
  /\ UNCHANGED <<nextEdit, owed, hidden>>

Refuse ==
  /\ page.call # None /\ page.call.answer = "none"
  /\ \/ page.call.base # Version /\ Answered("conflict", 0)
     \/ "network" \in Faults /\ Answered("failed", 0)
  /\ UNCHANGED <<record, nextEdit, owed, hidden>>

\* Another editor changes the draft or publishes it.
OtherEdits ==
  /\ Version < MaxVersion
  /\ \/ /\ nextEdit <= MaxEdits
        /\ \/ Stored([record[Version] EXCEPT !.draft.tags = @ \cup {nextEdit}])
           \/ Stored([record[Version] EXCEPT !.draft.props = nextEdit])
        /\ nextEdit' = nextEdit + 1
     \/ /\ Dirty(Version)
        /\ Stored([record[Version] EXCEPT !.published = record[Version].draft])
        /\ UNCHANGED nextEdit
  /\ UNCHANGED <<page, owed, hidden>>

-----------------------------------------------------------------------------
(* Answers to patches                                                      *)

Owing(tags, props) == owed' = [tags |-> tags, props |-> props]

\* The loop of drainDraftPatches sends what was queued meanwhile.
PatchStored ==
  /\ InFlight(page) /\ page.call.answer = "ok"
  /\ LET p == [page EXCEPT !.version = page.call.version, !.call = None]
         q == Showing(p, p.version)
     IN  page' = IF p.pending # NoPatch THEN SentPatch(p)
                 ELSE IF Discarding(p) THEN Posted(p)
                 ELSE IF p.op = "save" THEN Posted(q)
                 ELSE q
  /\ LET patch == page.call.patch
     IN  Owing(IF "tags" \in DOMAIN patch THEN owed.tags \ patch.tags ELSE owed.tags,
               IF "props" \in DOMAIN patch /\ patch.props = owed.props THEN 0
               ELSE owed.props)
  /\ UNCHANGED <<record, nextEdit, hidden>>

\* A conflict drops the patch and what was queued behind it, says so and reloads.
PatchConflicts ==
  /\ InFlight(page) /\ page.call.answer = "conflict"
  /\ page' = Fetching([page EXCEPT !.call = None, !.status = "ERROR", !.pending = NoPatch,
                                   !.recovering = TRUE], "awaited", 1)
  /\ Owing({}, 0)
  /\ UNCHANGED <<record, nextEdit, hidden>>

Untagged(patch) == [f \in DOMAIN patch \ {"tags"} |-> patch[f]]

\* Mutant: what was queued behind the failed patch is forgotten.
PatchFailsAlone ==
  /\ InFlight(page) /\ page.call.answer = "failed"
  /\ LET patch == page.call.patch
         tagged == "tags" \in DOMAIN patch
         p == [page EXCEPT !.call = None, !.status = "ERROR",
                 !.pending = IF Discarding(page) THEN NoPatch ELSE Untagged(patch),
                 !.shown.tags = IF tagged THEN DraftOf(page.version).tags ELSE @]
     IN  /\ page' = IF Discarding(p) THEN Posted(p)
                    ELSE IF p.op = "save" THEN Finished(p)
                    ELSE p
         /\ Owing(IF tagged THEN {} ELSE owed.tags, owed.props)
  /\ UNCHANGED <<record, nextEdit, hidden>>

\* Another error: the patch is kept for a retry behind the next edit, but for its
\* tags, which are taken back from the page.
PatchFails ==
  /\ InFlight(page) /\ page.call.answer = "failed"
  /\ LET patch == page.call.patch
         tagged == "tags" \in DOMAIN patch
         p == [page EXCEPT !.call = None, !.status = "ERROR",
                 !.pending = IF Discarding(page) THEN NoPatch
                             ELSE IF tagged THEN Over(Untagged(@), Untagged(patch))
                             ELSE Over(@, patch),
                 !.shown.tags = IF tagged THEN DraftOf(page.version).tags ELSE @]
     IN  /\ page' = IF Discarding(p) THEN Posted(p)
                    ELSE IF p.op = "save" THEN Finished(p)
                    ELSE p
         /\ Owing(IF tagged THEN {} ELSE owed.tags, owed.props)
  /\ UNCHANGED <<record, nextEdit, hidden>>

-----------------------------------------------------------------------------
(* Answers to publications and discards                                    *)

Operating == page.call # None /\ page.call.kind # "patch"

OperationStored ==
  /\ Operating /\ page.call.answer = "ok"
  /\ LET p == [page EXCEPT !.version = page.call.version, !.call = None]
     IN  page' = IF p.pending # NoPatch
                 THEN Finished([p EXCEPT !.status = "DIRTY"])
                 ELSE Finished(Listing(Showing(p, p.version)))
  /\ UNCHANGED <<record, nextEdit, owed, hidden>>

OperationConflicts ==
  /\ Operating /\ page.call.answer = "conflict"
  /\ page' = Fetching([page EXCEPT !.call = None, !.status = "ERROR", !.waits = "reload"],
                      "awaited", 1)
  /\ UNCHANGED <<record, nextEdit, owed, hidden>>

OperationFails ==
  /\ Operating /\ page.call.answer = "failed"
  /\ page' = Finished([page EXCEPT !.call = None, !.status = "ERROR"])
  /\ UNCHANGED <<record, nextEdit, owed, hidden>>

-----------------------------------------------------------------------------
(* Reloads: the state, then the list of items that goes with it            *)

FetchRead(o) ==
  /\ page.fetch[o] # None /\ page.fetch[o].version = 0
  /\ page' = [page EXCEPT !.fetch[o].version = Version]
  /\ UNCHANGED <<record, nextEdit, owed, hidden>>

\* Mutant: nothing tells the reload.
Replaced(p) == [p EXCEPT !.list = None]

\* The list load under way is superseded: its answer will be ignored, and a reload
\* that waits for it ends (here at once, in the code when that answer arrives).
Superseded(p) ==
  IF p.list # None /\ p.list.owner = "awaited" THEN Reloaded([p EXCEPT !.list = None], FALSE)
  ELSE p

FetchArrives(o) ==
  /\ page.fetch[o] # None /\ page.fetch[o].version # 0
  /\ LET p == [Superseded(page) EXCEPT !.fetch[o] = None]
     IN  page' = [p EXCEPT !.list = [owner |-> o, expected |-> page.fetch[o].version,
                                     attempt |-> page.fetch[o].attempt, answer |-> 0]]
  /\ UNCHANGED <<record, nextEdit, owed, hidden>>

FetchFails(o) ==
  /\ "network" \in Faults
  /\ page.fetch[o] # None
  /\ LET p == [page EXCEPT !.fetch[o] = None, !.status = "ERROR"]
     IN  page' = IF o = "awaited" THEN Reloaded(p, FALSE) ELSE p
  /\ UNCHANGED <<record, nextEdit, owed, hidden>>

ListRead ==
  /\ page.list # None /\ page.list.answer = 0
  /\ page' = [page EXCEPT !.list.answer = Version]
  /\ UNCHANGED <<record, nextEdit, owed, hidden>>

ListAnswered == page.list # None /\ page.list.answer # 0

Matches(p) == p.list.answer = IF p.list.expected = 0 THEN p.version ELSE p.list.expected

\* The list comes with its state, or with the state the page already has.
ListArrives ==
  /\ ListAnswered /\ Matches(page)
  /\ LET p == [page EXCEPT !.list = None, !.listed = TRUE]
     IN  /\ page' = IF page.list.expected = 0 THEN [p EXCEPT !.shown = DraftOf(p.version)]
                    ELSE IF page.list.owner = "awaited"
                    THEN Reloaded([Showing(p, page.list.expected) EXCEPT !.status = "ERROR"],
                                  TRUE)
                    ELSE Showing(p, page.list.expected)
         /\ hidden' = hidden \cup (owed.tags \ DraftOf(page.list.answer).tags)
  /\ UNCHANGED <<record, nextEdit, owed>>

\* Another version: the pair is fetched again, three times at most.
ListMismatches ==
  /\ ListAnswered /\ ~Matches(page)
  /\ LET p == [page EXCEPT !.list = None]
         o == page.list.owner
     IN  page' = IF page.list.expected = 0 THEN Fetching(p, o, 1)
                 ELSE IF page.list.attempt < 3 THEN Fetching(p, o, page.list.attempt + 1)
                 ELSE IF o = "awaited" THEN Reloaded([p EXCEPT !.status = "ERROR"], FALSE)
                 ELSE [p EXCEPT !.status = "ERROR"]
  /\ UNCHANGED <<record, nextEdit, owed, hidden>>

\* The page has no items then, and no tags to edit.
ListFails ==
  /\ "network" \in Faults
  /\ page.list # None
  /\ LET p == [page EXCEPT !.list = None, !.listed = FALSE]
     IN  page' = IF page.list.owner = "awaited" THEN Reloaded(p, FALSE) ELSE p
  /\ UNCHANGED <<record, nextEdit, owed, hidden>>

-----------------------------------------------------------------------------

Answer ==
  \/ PatchStored \/ PatchConflicts \/ PatchFails
  \/ OperationStored \/ OperationConflicts \/ OperationFails

Load ==
  \/ \E o \in Loaders : FetchRead(o) \/ FetchArrives(o) \/ FetchFails(o)
  \/ ListRead \/ ListArrives \/ ListMismatches \/ ListFails

Next ==
  \/ EditTags \/ EditProps \/ TimerFires \/ Save \/ Discard
  \/ Accept \/ Refuse \/ OtherEdits
  \/ Answer \/ Load

Spec == Init /\ [][Next]_vars

\* Timers fire, and a request is answered, or fails by the browser's time limit.
Fairness ==
  /\ WF_vars(TimerFires) /\ WF_vars(Accept \/ Refuse) /\ WF_vars(Answer)
  /\ \A o \in Loaders : WF_vars(FetchRead(o)) /\ WF_vars(FetchArrives(o))
  /\ WF_vars(ListRead) /\ WF_vars(ListArrives \/ ListMismatches)

FairSpec == Spec /\ Fairness

-----------------------------------------------------------------------------
(* Properties                                                              *)

Fetch == [attempt : 1..3, version : Nat]

TypeOK ==
  /\ \A v \in DOMAIN record : record[v] \in [draft : Content, published : Content]
  /\ page.shown \in Content /\ page.listed \in BOOLEAN
  /\ page.version \in DOMAIN record
  /\ page.status \in {"CLEAN", "DIRTY", "SAVING", "ERROR"}
  /\ IsPatch(page.pending) /\ page.timer \in BOOLEAN
  /\ page.call # None => /\ page.call.kind \in {"patch", "save", "discard"}
                         /\ IsPatch(page.call.patch)
                         /\ page.call.base \in DOMAIN record
                         /\ page.call.answer \in {"none", "ok", "conflict", "failed"}
                         /\ page.call.answer = "ok" => page.call.version \in DOMAIN record
  /\ page.op \in {"none", "save", "discard"}
  /\ page.waits \in {"none", "flush", "post", "reload"}
  /\ page.recovering \in BOOLEAN
  /\ \A o \in Loaders : page.fetch[o] # None => page.fetch[o] \in Fetch
  /\ nextEdit \in 1..(MaxEdits + 1)
  /\ owed \in Content /\ hidden \subseteq Edits

Tags(patch) == IF "tags" \in DOMAIN patch THEN patch.tags ELSE {}
Props(patch) == IF "props" \in DOMAIN patch THEN {patch.props} ELSE {}
Waiting == {page.pending} \cup (IF InFlight(page) THEN {page.call.patch} ELSE {})

\* An edit that has not been stored waits to be sent or is under way, through every
\* mixture of patches, publications, discards, conflicts and failures, unless the user
\* was told that it is lost.  The exception are tags that a reload took off the page:
\* the next edit of the tag map, which is sent as it is shown, drops them.
EditsAreNotLostSilently ==
  /\ owed.tags \subseteq (UNION {Tags(patch) : patch \in Waiting}) \cup hidden
  /\ owed.props \in (UNION {Props(patch) : patch \in Waiting}) \cup {0}

\* A user whom the page lets leave without a question owes nothing to the backend.
NothingUnsentWhenLeaving ==
  ~HasPendingDraftChanges(page) => owed.tags \subseteq hidden /\ owed.props = 0

\* A page at rest that does not show an error shows the draft of its version.
ShownIsTheDraft ==
  page.pending = NoPatch /\ page.call = None /\ page.op = "none" /\ page.listed
  /\ ~page.recovering /\ page.status # "ERROR"
    => page.shown = DraftOf(page.version)

\* Saving and discarding wait for patches, for conflict recovery and for reloads,
\* which wait for one another: they always come to an end.
OperationsEnd == page.op # "none" ~> page.op = "none"

\* An edit that waits for its pause, or for what is under way, is sent, or the page
\* shows an error.  (After the error it waits for the next edit or the next save.)
EditsAreSentOrReported ==
  (/\ page.pending # NoPatch
   /\ page.timer \/ InFlight(page) \/ page.recovering \/ Publishing(page))
     ~> (page.pending = NoPatch \/ page.status = "ERROR")

=============================================================================
