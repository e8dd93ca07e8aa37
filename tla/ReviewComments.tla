--------------------------- MODULE ReviewComments ---------------------------
(***************************************************************************)
(* The review of one content package: its configuration (one row of        *)
(* acp_access_configs: feature settings, review groups, comment categories *)
(* and the configuration version), the readiness check that guards its     *)
(* activation, and the comments and votes whose visibility it decides.     *)
(*                                                                         *)
(* A transaction that locks the row is one step, its commit.  What the     *)
(* code does without that lock is a step of its own: the reads before      *)
(* `configure` locks, the parts of a readiness check, and the read, the    *)
(* reload and the write of those who save a row they have not locked.      *)
(***************************************************************************)
EXTENDS Integers, Sequences, FiniteSets

CONSTANTS
  Managers,         \* identities with review:manage
  Participants,     \* identities with review:participate
  Groups,           \* ids a review group may have
  Categories,       \* ids a comment category may have
  Columns,          \* values of the metadata columns in the feature settings
  UnlockedWriters,  \* services that save the row without locking it
  MaxVersion,       \* bound: configuration saves
  MaxComments,      \* bound: comments, deleted ones included
  MaxStamp,         \* bound: changes of the package's files and index
  None              \* no group, no category, no thread root, no request

Verdicts == {"READY", "WARNING", "BLOCKED"}

ASSUME ReviewAssumption ==
  /\ MaxVersion \in Nat \ {0} /\ MaxComments \in Nat /\ MaxStamp \in Nat
  /\ None \notin Groups \cup Categories \cup Nat \cup Verdicts

VARIABLES
  config,      \* the row; its fields are the columns of the table
  comments,    \* the ACP's comments, in the order of their creation
  package,     \* what the readiness check looks at
  lastCheck,   \* review_readiness_snapshots: the last stored result
  pages,       \* the configuration version each manager's page shows
  requests,    \* each manager's request being served
  saves,       \* each unlocked writer's copy of the row
  overwritten  \* history: an unlocked save undid a change it had not seen

vars == <<config, comments, package, lastCheck, pages, requests, saves, overwritten>>

Actors == Managers \cup Participants
Modes == {"PRIVATE", "SHARED", "GROUP"}
VoteValues == {"UP", "DOWN", "NONE"}

Group == [archived : BOOLEAN, members : SUBSET Actors]
Feature ==
  [enabled : BOOLEAN, mode : Modes, ungrouped : {"PRIVATE", "SHARED"},
   commenting : BOOLEAN, columns : Columns]
\* The jsonb lists of the row: entries under their ids.
Lists(ids, values) == UNION {[I -> values] : I \in SUBSET ids}
Row ==
  [feature : Feature,
   groups : Lists(Groups, Group),
   categories : Lists(Categories, BOOLEAN),
   version : 1..MaxVersion]

Comment ==
  [author : Participants, group : Groups \cup {None},
   category : Categories \cup {None}, root : (1..MaxComments) \cup {None},
   deleted : BOOLEAN, votes : [Participants -> VoteValues]]

\* A request is a readiness check of its own or a PUT of the configuration.
Request ==
  [kind : {"check", "configure"}, stage : {"begin", "evaluate", "finish", "commit"},
   version : 1..MaxVersion, enable : BOOLEAN,
   stamp : (0..MaxStamp) \cup {None}, verdict : Verdicts \cup {None}]

Init ==
  /\ \E c \in Columns :
       config =
         [feature |-> [enabled |-> FALSE, mode |-> "PRIVATE", ungrouped |-> "PRIVATE",
                       commenting |-> FALSE, columns |-> c],
          groups |-> <<>>, categories |-> <<>>, version |-> 1]
  /\ comments = <<>>
  /\ \E v \in Verdicts : package = [stamp |-> 0, verdict |-> v]
  /\ lastCheck = None
  /\ pages = [m \in Managers |-> None]
  /\ requests = [m \in Managers |-> None]
  /\ saves = [w \in UnlockedWriters |-> None]
  /\ overwritten = FALSE

-----------------------------------------------------------------------------
(* The visibility rule                                                     *)

\* The groups the policy puts into the request's actor.
ActorGroups(row, a) ==
  {g \in DOMAIN row.groups :
     a \in Managers \/ (~row.groups[g].archived /\ a \in row.groups[g].members)}

CanView(row, a, c) ==
  \/ a \in Managers
  \/ IF row.feature.mode = "GROUP" /\ c.group # None
     THEN c.group \in ActorGroups(row, a)
     ELSE \/ row.feature.mode = "SHARED"
          \/ row.feature.mode = "GROUP" /\ row.feature.ungrouped = "SHARED"
          \/ c.author = a

\* What a participant's reads return: deleted comments have lost their text.
Sees(row, cs, a, i) == ~cs[i].deleted /\ CanView(row, a, cs[i])

CanComment(row, a) == row.feature.commenting \/ a \in Managers

CanVote(row, a, c) ==
  /\ row.feature.enabled
  /\ row.feature.commenting
  /\ row.feature.mode = "SHARED"
  /\ ~c.deleted
  /\ c.author # a

-----------------------------------------------------------------------------
(* Readiness checks, on request or on the way to an activation             *)

\* Files are uploaded or deleted, or the index is edited: none of it locks
\* the configuration, and any of it changes the fingerprint.
PackageChanges ==
  /\ package.stamp < MaxStamp
  /\ \E v \in Verdicts : package' = [stamp |-> package.stamp + 1, verdict |-> v]
  /\ UNCHANGED <<config, comments, lastCheck, pages, requests, saves, overwritten>>

AskForCheck(m) ==
  /\ requests[m] = None
  /\ requests' = [requests EXCEPT ![m] =
       [kind |-> "check", stage |-> "begin", version |-> 1, enable |-> FALSE,
        stamp |-> None, verdict |-> None]]
  /\ UNCHANGED <<config, comments, package, lastCheck, pages, saves, overwritten>>

At(m, stage) == requests[m] # None /\ requests[m].stage = stage

TakeFingerprint(m) ==
  /\ At(m, "begin")
  /\ requests' = [requests EXCEPT ![m].stage = "evaluate", ![m].stamp = package.stamp]
  /\ UNCHANGED <<config, comments, package, lastCheck, pages, saves, overwritten>>

\* The rules read files, units and manifest one after the other; a package
\* that has changed meanwhile can look like anything.
Evaluate(m) ==
  /\ At(m, "evaluate")
  /\ \E v \in Verdicts :
       /\ requests[m].stamp = package.stamp => v = package.verdict
       /\ requests' = [requests EXCEPT ![m].stage = "finish", ![m].verdict = v]
  /\ UNCHANGED <<config, comments, package, lastCheck, pages, saves, overwritten>>

IsStale(check, now) == check.stamp # now.stamp

StoredAfterTheRules(check) ==   \* a mutant
  [stamp |-> package.stamp, verdict |-> check.verdict, stale |-> FALSE]
Stored(check) ==
  [stamp |-> check.stamp, verdict |-> check.verdict, stale |-> IsStale(check, package)]

Passes(m) ==
  /\ requests[m].kind = "configure"
  /\ ~IsStale(requests[m], package)
  /\ requests[m].verdict # "BLOCKED"

\* The second fingerprint, the stored snapshot, and the answer: a stale or
\* blocked package is not activated, warnings have to be confirmed.
FinishCheck(m) ==
  /\ At(m, "finish")
  /\ lastCheck' = Stored(requests[m])
  /\ \/ Passes(m) /\ requests' = [requests EXCEPT ![m].stage = "commit"]
     \/ /\ ~Passes(m) \/ requests[m].verdict = "WARNING"
        /\ requests' = [requests EXCEPT ![m] = None]
  /\ UNCHANGED <<config, comments, package, pages, saves, overwritten>>

\* What getLast tells: the stored result, and whether it is stale by now.
ShownAsCurrent == lastCheck # None /\ ~lastCheck.stale /\ ~IsStale(lastCheck, package)

-----------------------------------------------------------------------------
(* Configuring the review                                                  *)

LoadPage(m) ==
  /\ pages' = [pages EXCEPT ![m] = config.version]
  /\ UNCHANGED <<config, comments, package, lastCheck, requests, saves, overwritten>>

\* PUT review/config.  The row is read without a lock to decide whether the
\* request has to pass a readiness check first.
PutConfig(m) ==
  /\ requests[m] = None
  /\ pages[m] # None
  /\ \E enable \in BOOLEAN :
       requests' = [requests EXCEPT ![m] =
         [kind |-> "configure", version |-> pages[m], enable |-> enable,
          stage |-> IF enable /\ ~config.feature.enabled THEN "begin" ELSE "commit",
          stamp |-> None, verdict |-> None]]
  /\ UNCHANGED <<config, comments, package, lastCheck, pages, saves, overwritten>>

\* What a request may send: the list as it is, or with one entry added,
\* changed or left out.
Edits(list, ids, values) ==
  {list} \cup
  {next \in Lists(ids, values) :
     \E i \in ids :
       /\ DOMAIN next \ {i} = DOMAIN list \ {i}
       /\ \A j \in DOMAIN next \ {i} : next[j] = list[j]}

\* An entry that a comment refers to is never dropped, not even when that
\* comment is deleted: its history has to survive.
MayDropDeleted(i, field) ==   \* a mutant
  \A k \in DOMAIN comments : ~comments[k].deleted => comments[k][field] # i
MayDrop(i, field) == \A k \in DOMAIN comments : comments[k][field] # i

KeepsReferences(list, next, field) ==
  \A i \in DOMAIN list \ DOMAIN next : MayDrop(i, field)

AnyVersion(m) == requests[m].version <= config.version   \* a mutant
FreshVersion(m) == config.version = requests[m].version

UngroupedForgotten(mode) ==   \* a mutant
  IF mode = "GROUP" /\ config.feature.mode = "SHARED" THEN "SHARED" ELSE config.feature.ungrouped
\* Entering GROUP, comments without a group keep the visibility they had.
UngroupedAfter(mode) ==
  IF mode = "GROUP" /\ config.feature.mode # "GROUP"
  THEN config.feature.mode
  ELSE config.feature.ungrouped

\* The transaction.  That a switch to SHARED and the removal of an entry are
\* confirmed is part of the request: an unconfirmed one is refused.
CommitConfig(m) ==
  /\ At(m, "commit")
  /\ FreshVersion(m)
  /\ config.version < MaxVersion
  /\ \E mode \in Modes,
        groups \in Edits(config.groups, Groups, Group),
        categories \in Edits(config.categories, Categories, BOOLEAN) :
       /\ KeepsReferences(config.groups, groups, "group")
       /\ KeepsReferences(config.categories, categories, "category")
       /\ config' =
            [feature |-> [config.feature EXCEPT !.enabled = requests[m].enable, !.mode = mode,
                                                !.ungrouped = UngroupedAfter(mode)],
             groups |-> groups, categories |-> categories, version |-> config.version + 1]
  /\ requests' = [requests EXCEPT ![m] = None]
  /\ UNCHANGED <<comments, package, lastCheck, pages, saves, overwritten>>

\* A version conflict, a confirmation that is missing, an unknown id.
RefuseConfig(m) ==
  /\ At(m, "commit")
  /\ requests' = [requests EXCEPT ![m] = None]
  /\ UNCHANGED <<config, comments, package, lastCheck, pages, saves, overwritten>>

-----------------------------------------------------------------------------
(* The other writers of the row                                            *)

\* PUT access-config, under the lock: everything but what the review owns.
UpdateAccessConfig ==
  /\ \E commenting \in BOOLEAN, columns \in Columns :
       config' = [config EXCEPT !.feature.commenting = commenting, !.feature.columns = columns]
  /\ UNCHANGED <<comments, package, lastCheck, pages, requests, saves, overwritten>>

\* PUT metadata-columns, under the lock as well.
UpdateMetadataColumns ==
  /\ \E columns \in Columns : config' = [config EXCEPT !.feature.columns = columns]
  /\ UNCHANGED <<comments, package, lastCheck, pages, requests, saves, overwritten>>

\* Publishing an Explorer draft and marking the empirical difficulties read
\* the row, set their own setting in it and save the whole entity.
ReadRow(w) ==
  /\ saves[w] = None
  /\ \E columns \in Columns :
       saves' = [saves EXCEPT ![w] =
         [base |-> config, columns |-> columns, dirty |-> None]]
  /\ UNCHANGED <<config, comments, package, lastCheck, pages, requests, overwritten>>

Entity(save) == [save.base EXCEPT !.feature.columns = save.columns]

\* save() reloads the row to find the columns in which the entity differs ...
CompareRow(w) ==
  /\ saves[w] # None
  /\ saves[w].dirty = None
  /\ saves' = [saves EXCEPT ![w].dirty =
       {c \in DOMAIN config : Entity(saves[w])[c] # config[c]}]
  /\ UNCHANGED <<config, comments, package, lastCheck, pages, requests, overwritten>>

\* ... and updates exactly those.
WriteRow(w) ==
  /\ saves[w] # None
  /\ saves[w].dirty # None
  /\ config' = [c \in DOMAIN config |->
       IF c \in saves[w].dirty THEN Entity(saves[w])[c] ELSE config[c]]
  /\ overwritten' = (overwritten \/ \E c \in saves[w].dirty : config[c] # saves[w].base[c])
  /\ saves' = [saves EXCEPT ![w] = None]
  /\ UNCHANGED <<comments, package, lastCheck, pages, requests>>

-----------------------------------------------------------------------------
(* Comments and votes, each under the lock on the row                      *)

NoVotes == [p \in Participants |-> "NONE"]

\* A category that is archived may stay but is not chosen anew.
MaySelect(category, current) ==
  \/ category \in {None, current}
  \/ category \in DOMAIN config.categories /\ ~config.categories[category]

\* A new thread has a group exactly when the mode is GROUP.
MayOpenIn(a, group) ==
  IF config.feature.mode = "GROUP"
  THEN group \in ActorGroups(config, a) /\ ~config.groups[group].archived
  ELSE group = None

OpenThread(a) ==
  /\ Len(comments) < MaxComments
  /\ CanComment(config, a)
  /\ \E group \in Groups \cup {None}, category \in Categories \cup {None} :
       /\ MayOpenIn(a, group)
       /\ MaySelect(category, None)
       /\ comments' = Append(comments,
            [author |-> a, group |-> group, category |-> category, root |-> None,
             deleted |-> FALSE, votes |-> NoVotes])
  /\ UNCHANGED <<config, package, lastCheck, pages, requests, saves, overwritten>>

ParentOf(i) == i   \* a mutant
RootOf(i) == IF comments[i].root = None THEN i ELSE comments[i].root

\* The refusal of replies in an archived group looks the group up among the
\* actor's groups, which hold archived ones for managers only.
ArchivedForActor(a, group) ==
  group \in ActorGroups(config, a) /\ config.groups[group].archived

Reply(a, i) ==
  /\ Len(comments) < MaxComments
  /\ CanComment(config, a)
  /\ Sees(config, comments, a, i)
  /\ ~ArchivedForActor(a, comments[i].group)
  /\ \E category \in Categories \cup {None} :
       /\ MaySelect(category, None)
       /\ comments' = Append(comments,
            [author |-> a, group |-> comments[i].group, category |-> category,
             root |-> RootOf(i), deleted |-> FALSE, votes |-> NoVotes])
  /\ UNCHANGED <<config, package, lastCheck, pages, requests, saves, overwritten>>

\* Only the author, and only while the comment is visible to them.
MayChange(a, i) ==
  /\ Sees(config, comments, a, i)
  /\ comments[i].author = a
  /\ CanComment(config, a)

EditComment(a, i) ==
  /\ MayChange(a, i)
  /\ \E category \in Categories \cup {None} :
       /\ MaySelect(category, comments[i].category)
       /\ comments' = [comments EXCEPT ![i].category = category]
  /\ UNCHANGED <<config, package, lastCheck, pages, requests, saves, overwritten>>

DeleteCommentOnly(a, i) ==   \* a mutant
  /\ MayChange(a, i)
  /\ comments' = [comments EXCEPT ![i].deleted = TRUE]
  /\ UNCHANGED <<config, package, lastCheck, pages, requests, saves, overwritten>>
\* A soft delete: the references stay, a trigger removes the votes.
DeleteComment(a, i) ==
  /\ MayChange(a, i)
  /\ comments' = [comments EXCEPT ![i].deleted = TRUE, ![i].votes = NoVotes]
  /\ UNCHANGED <<config, package, lastCheck, pages, requests, saves, overwritten>>

Vote(a, i) ==
  /\ Sees(config, comments, a, i)
  /\ CanVote(config, a, comments[i])
  /\ \E v \in VoteValues : comments' = [comments EXCEPT ![i].votes[a] = v]
  /\ UNCHANGED <<config, package, lastCheck, pages, requests, saves, overwritten>>

-----------------------------------------------------------------------------
Next ==
  \/ PackageChanges
  \/ UpdateAccessConfig \/ UpdateMetadataColumns
  \/ \E m \in Managers :
       \/ AskForCheck(m) \/ TakeFingerprint(m) \/ Evaluate(m) \/ FinishCheck(m)
       \/ LoadPage(m) \/ PutConfig(m) \/ CommitConfig(m) \/ RefuseConfig(m)
  \/ \E w \in UnlockedWriters : ReadRow(w) \/ CompareRow(w) \/ WriteRow(w)
  \/ \E a \in Participants :
       \/ OpenThread(a)
       \/ \E i \in DOMAIN comments :
            Reply(a, i) \/ EditComment(a, i) \/ DeleteComment(a, i) \/ Vote(a, i)

Spec == Init /\ [][Next]_vars

-----------------------------------------------------------------------------
(* Types                                                                   *)

Save ==
  [base : Row, columns : Columns,
   dirty : (SUBSET {"feature", "groups", "categories", "version"}) \cup {None}]
Result ==
  [stamp : (0..MaxStamp) \cup {None}, verdict : Verdicts \cup {None}, stale : BOOLEAN]

\* Every variable has its type.
TypeOK ==
  /\ config \in Row
  /\ comments \in Seq(Comment) /\ Len(comments) <= MaxComments
  /\ package \in [stamp : 0..MaxStamp, verdict : Verdicts]
  /\ lastCheck \in Result \cup {None}
  /\ pages \in [Managers -> (1..MaxVersion) \cup {None}]
  /\ requests \in [Managers -> Request \cup {None}]
  /\ saves \in [UnlockedWriters -> Save \cup {None}]
  /\ overwritten \in BOOLEAN

(* What the review promises                                                *)

\* No comment, deleted or not, loses the group or the category it refers to:
\* `configure` counts the references under the lock that every new comment
\* takes (comments.service.ts transaction), so neither overtakes the other.
\* An unlocked save that undoes a change is the one exception.
CommentsKeepTheirReferences ==
  ~overwritten =>
    \A i \in DOMAIN comments :
      /\ comments[i].group \in DOMAIN config.groups \cup {None}
      /\ comments[i].category \in DOMAIN config.categories \cup {None}

\* A comment without a group that a participant could not read becomes
\* readable to them only by a confirmed switch to SHARED, whatever modes the
\* review went through before (ungroupedVisibilityMode in `configure`).
UngroupedStayHidden ==
  [][\A i \in DOMAIN comments, a \in Participants :
       /\ comments[i].group = None
       /\ ~Sees(config, comments, a, i)
       /\ Sees(config, comments, a, i)'
       => \/ config'.feature.mode = "SHARED" /\ config'.version = config.version + 1
          \/ overwritten']_vars

\* A review becomes active only through a request that a readiness check let
\* pass.  `configure` decides without a lock whether it needs one, so this
\* rests on the version check: an active review that was seen then is still
\* the same configuration when the row is locked.
ActivationFollowsACheck ==
  [][~config.feature.enabled /\ config'.feature.enabled
       => \/ \E m \in Managers :
               /\ At(m, "commit")
               /\ requests[m].verdict \in {"READY", "WARNING"}
               /\ requests'[m] = None
          \/ overwritten']_vars

\* A stored readiness result that is shown as current tells the verdict the
\* package has now, however checks and changes interleave (readiness.check
\* compares fingerprints from before and after the rules).
ReadinessIsCurrent == ShownAsCurrent => lastCheck.verdict = package.verdict

\* A reply hangs below the first comment of its thread, in that thread's
\* group: threads are two levels deep and never span groups, so hiding a
\* group hides whole threads (createReviewComment).
ThreadsHoldTogether ==
  \A i \in DOMAIN comments :
    LET r == comments[i].root
    IN r # None => /\ r < i
                   /\ comments[r].root = None
                   /\ comments[r].group = comments[i].group

\* Nobody votes on a comment of their own, and a deleted comment keeps no
\* votes (setVote, and the trigger on deleted_at).
VotesStand ==
  \A i \in DOMAIN comments :
    /\ comments[i].votes[comments[i].author] = "NONE"
    /\ comments[i].deleted => comments[i].votes = NoVotes
=============================================================================
