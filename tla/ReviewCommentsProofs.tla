------------------------ MODULE ReviewCommentsProofs ------------------------
(***************************************************************************)
(* Machine-checked proofs about ReviewComments, for every set of           *)
(* identities, groups and categories and every bound.                      *)
(***************************************************************************)
EXTENDS ReviewComments, TLAPS

-----------------------------------------------------------------------------
(* What a request may send keeps the lists lists                           *)

LEMMA EditsAreLists ==
  ASSUME NEW ids, NEW values, NEW list \in Lists(ids, values),
         NEW next \in Edits(list, ids, values)
  PROVE  next \in Lists(ids, values)
BY DEF Edits

LEMMA ActorTypes ==
  /\ Managers \subseteq Actors
  /\ Participants \subseteq Actors
BY DEF Actors

-----------------------------------------------------------------------------
(* Type correctness                                                        *)

LEMMA InitType == Init => TypeOK
<1> SUFFICES ASSUME Init PROVE TypeOK
  OBVIOUS
<1>1. \A ids, values : <<>> \in Lists(ids, values)
  <2>1. \A values : <<>> \in [{} -> values]
    OBVIOUS
  <2>2. \A ids : {} \in SUBSET ids
    OBVIOUS
  <2> QED BY <2>1, <2>2 DEF Lists
<1>2. config \in Row
  BY <1>1, ReviewAssumption DEF Init, Row, Feature, Modes
<1>3. package \in [stamp : 0..MaxStamp, verdict : Verdicts]
  BY ReviewAssumption DEF Init
<1>4. comments \in Seq(Comment) /\ Len(comments) <= MaxComments
  BY ReviewAssumption DEF Init
<1>5. /\ pages \in [Managers -> (1..MaxVersion) \cup {None}]
      /\ requests \in [Managers -> Request \cup {None}]
      /\ saves \in [UnlockedWriters -> Save \cup {None}]
  BY DEF Init
<1>6. lastCheck = None /\ overwritten = FALSE
  BY DEF Init
<1> QED BY <1>2, <1>3, <1>4, <1>5, <1>6 DEF TypeOK

\* Changing a comment, and adding one.
LEMMA ChangedSeq ==
  ASSUME NEW S, NEW s \in Seq(S), NEW i \in DOMAIN s, NEW e \in S
  PROVE  /\ [s EXCEPT ![i] = e] \in Seq(S)
         /\ Len([s EXCEPT ![i] = e]) = Len(s)
OBVIOUS

LEMMA AddedComment ==
  ASSUME TypeOK, NEW c \in Comment, Len(comments) < MaxComments,
         comments' = Append(comments, c)
  PROVE  comments' \in Seq(Comment) /\ Len(comments') <= MaxComments
BY ReviewAssumption DEF TypeOK

LEMMA ChangedComment ==
  ASSUME TypeOK, NEW i \in DOMAIN comments, NEW c \in Comment,
         comments' = [comments EXCEPT ![i] = c]
  PROVE  comments' \in Seq(Comment) /\ Len(comments') <= MaxComments
BY ChangedSeq DEF TypeOK

LEMMA CommentTyped ==
  ASSUME TypeOK, NEW i \in DOMAIN comments
  PROVE  comments[i] \in Comment /\ i \in 1..MaxComments
BY ReviewAssumption DEF TypeOK

LEMMA StepType == TypeOK /\ [Next]_vars => TypeOK'
<1> SUFFICES ASSUME TypeOK, [Next]_vars PROVE TypeOK'
  OBVIOUS
<1>1. CASE PackageChanges
  BY <1>1, ReviewAssumption DEF PackageChanges, TypeOK
<1>2. CASE UpdateAccessConfig \/ UpdateMetadataColumns
  <2>1. config \in Row /\ config.feature \in Feature
    BY DEF TypeOK, Row
  <2>2. \A x \in BOOLEAN, c \in Columns :
          /\ [config.feature EXCEPT !.commenting = x, !.columns = c] \in Feature
          /\ [config.feature EXCEPT !.columns = c] \in Feature
    BY <2>1 DEF Feature
  <2>3. \A f \in Feature : [config EXCEPT !.feature = f] \in Row
    BY <2>1 DEF Row
  <2>4. \E f \in Feature : config' = [config EXCEPT !.feature = f]
    <3>1. CASE UpdateAccessConfig
      <4>1. PICK x \in BOOLEAN, c \in Columns :
              config' = [config EXCEPT !.feature.commenting = x, !.feature.columns = c]
        BY <3>1 DEF UpdateAccessConfig
      <4>2. config' = [config EXCEPT !.feature =
                         [config.feature EXCEPT !.commenting = x, !.columns = c]]
        BY <2>1, <4>1 DEF Row
      <4> QED BY <2>2, <4>2
    <3>2. CASE UpdateMetadataColumns
      BY <2>2, <3>2 DEF UpdateMetadataColumns
    <3> QED BY <1>2, <3>1, <3>2
  <2>5. config' \in Row
    BY <2>3, <2>4
  <2> QED BY <2>5, <1>2 DEF UpdateAccessConfig, UpdateMetadataColumns, TypeOK
<1>3. ASSUME NEW m \in Managers, AskForCheck(m) PROVE TypeOK'
  BY <1>3, ReviewAssumption DEF AskForCheck, TypeOK, Request
<1>4. ASSUME NEW m \in Managers, TakeFingerprint(m) PROVE TypeOK'
  <2>1. [requests[m] EXCEPT !.stage = "evaluate", !.stamp = package.stamp] \in Request
    BY <1>4 DEF TakeFingerprint, At, TypeOK, Request
  <2>2. requests' = [requests EXCEPT ![m] =
                       [requests[m] EXCEPT !.stage = "evaluate", !.stamp = package.stamp]]
    BY <1>4 DEF TakeFingerprint, At, TypeOK, Request
  <2> QED BY <1>4, <2>1, <2>2 DEF TakeFingerprint, TypeOK
<1>5. ASSUME NEW m \in Managers, Evaluate(m) PROVE TypeOK'
  <2>1. PICK v \in Verdicts :
          requests' = [requests EXCEPT ![m].stage = "finish", ![m].verdict = v]
    BY <1>5 DEF Evaluate
  <2>2. [requests[m] EXCEPT !.stage = "finish", !.verdict = v] \in Request
    <3>1. requests[m] \in Request
      BY <1>5 DEF Evaluate, At, TypeOK
    <3> QED BY <3>1 DEF Request
  <2>3. requests' = [requests EXCEPT ![m] =
                       [requests[m] EXCEPT !.stage = "finish", !.verdict = v]]
    BY <1>5, <2>1 DEF Evaluate, At, TypeOK, Request
  <2> QED BY <1>5, <2>2, <2>3 DEF Evaluate, TypeOK
<1>6. ASSUME NEW m \in Managers, FinishCheck(m) PROVE TypeOK'
  <2>1. requests' \in [Managers -> Request \cup {None}]
    BY <1>6 DEF FinishCheck, At, TypeOK, Request
  <2>2. lastCheck' \in Result
    <3>1. requests[m] \in Request /\ IsStale(requests[m], package) \in BOOLEAN
      BY <1>6 DEF FinishCheck, At, TypeOK, IsStale
    <3>2. lastCheck' = Stored(requests[m])
      BY <1>6 DEF FinishCheck
    <3> QED BY <3>1, <3>2 DEF Stored, Request, Result
  <2> QED BY <2>1, <2>2, <1>6 DEF FinishCheck, TypeOK
<1>7. ASSUME NEW m \in Managers, LoadPage(m) PROVE TypeOK'
  BY <1>7 DEF LoadPage, TypeOK, Row
<1>8. ASSUME NEW m \in Managers, PutConfig(m) PROVE TypeOK'
  <2>1. requests' \in [Managers -> Request \cup {None}]
    BY <1>8 DEF PutConfig, TypeOK, Request
  <2> QED BY <2>1, <1>8 DEF PutConfig, TypeOK
<1>9. ASSUME NEW m \in Managers, CommitConfig(m) PROVE TypeOK'
  <2>1. config' \in Row
    <3>1. config.version + 1 \in 1..MaxVersion
      BY <1>9, ReviewAssumption DEF CommitConfig, TypeOK, Row
    <3>2. requests[m].enable \in BOOLEAN
      BY <1>9 DEF CommitConfig, At, TypeOK, Request
    <3>3. \A mode \in Modes : UngroupedAfter(mode) \in {"PRIVATE", "SHARED"}
      BY DEF UngroupedAfter, TypeOK, Row, Feature, Modes
    <3>4. PICK mode \in Modes, groups \in Edits(config.groups, Groups, Group),
               categories \in Edits(config.categories, Categories, BOOLEAN) :
            config' =
              [feature |-> [config.feature EXCEPT !.enabled = requests[m].enable, !.mode = mode,
                                                  !.ungrouped = UngroupedAfter(mode)],
               groups |-> groups, categories |-> categories, version |-> config.version + 1]
      BY <1>9 DEF CommitConfig
    <3>5. [config.feature EXCEPT !.enabled = requests[m].enable, !.mode = mode,
                                 !.ungrouped = UngroupedAfter(mode)] \in Feature
      BY <3>2, <3>3 DEF TypeOK, Row, Feature
    <3>6. groups \in Lists(Groups, Group) /\ categories \in Lists(Categories, BOOLEAN)
      BY EditsAreLists DEF TypeOK, Row
    <3> QED BY <3>1, <3>4, <3>5, <3>6 DEF Row
  <2> QED BY <2>1, <1>9 DEF CommitConfig, TypeOK
<1>10. ASSUME NEW m \in Managers, RefuseConfig(m) PROVE TypeOK'
  BY <1>10 DEF RefuseConfig, TypeOK
<1>11. ASSUME NEW w \in UnlockedWriters, ReadRow(w) PROVE TypeOK'
  <2>1. \A c \in Columns : [base |-> config, columns |-> c, dirty |-> None] \in Save
    BY DEF TypeOK, Save
  <2> QED BY <1>11, <2>1 DEF ReadRow, TypeOK
<1>12. ASSUME NEW w \in UnlockedWriters, CompareRow(w) PROVE TypeOK'
  <2>1. saves[w] \in Save
    BY <1>12 DEF CompareRow, TypeOK
  <2>2. DOMAIN config = {"feature", "groups", "categories", "version"}
    BY DEF TypeOK, Row
  <2>3. ASSUME NEW D \in SUBSET DOMAIN config
        PROVE  [saves[w] EXCEPT !.dirty = D] \in Save
    BY <2>1, <2>2 DEF Save
  <2>4. saves' \in [UnlockedWriters -> Save \cup {None}]
    BY <1>12, <2>3 DEF CompareRow, TypeOK
  <2> QED BY <2>4, <1>12 DEF CompareRow, TypeOK
<1>13. ASSUME NEW w \in UnlockedWriters, WriteRow(w) PROVE TypeOK'
  <2>1. Entity(saves[w]) \in Row
    BY <1>13 DEF WriteRow, TypeOK, Save, Entity, Row, Feature
  <2>2. config' \in Row
    BY <1>13, <2>1 DEF WriteRow, TypeOK, Row
  <2> QED BY <2>2, <1>13 DEF WriteRow, TypeOK
<1>14. ASSUME NEW a \in Participants, OpenThread(a) PROVE TypeOK'
  <2>1. NoVotes \in [Participants -> VoteValues]
    BY DEF NoVotes, VoteValues
  <2>2. comments' \in Seq(Comment) /\ Len(comments') <= MaxComments
    BY <1>14, <2>1, AddedComment DEF OpenThread, Comment
  <2> QED BY <2>2, <1>14 DEF OpenThread, TypeOK
<1>15. ASSUME NEW a \in Participants, NEW i \in DOMAIN comments, Reply(a, i) PROVE TypeOK'
  <2>1. NoVotes \in [Participants -> VoteValues]
    BY DEF NoVotes, VoteValues
  <2>2. comments[i].group \in Groups \cup {None} /\ RootOf(i) \in (1..MaxComments) \cup {None}
    BY CommentTyped DEF RootOf, Comment
  <2>3. comments' \in Seq(Comment) /\ Len(comments') <= MaxComments
    BY <1>15, <2>1, <2>2, AddedComment DEF Reply, Comment
  <2> QED BY <2>3, <1>15 DEF Reply, TypeOK
<1>16. ASSUME NEW a \in Participants, NEW i \in DOMAIN comments, EditComment(a, i) PROVE TypeOK'
  <2>1. \A category \in Categories \cup {None} :
          [comments[i] EXCEPT !.category = category] \in Comment
    BY CommentTyped DEF Comment
  <2>2. comments' \in Seq(Comment) /\ Len(comments') <= MaxComments
    BY <1>16, <2>1, ChangedComment DEF EditComment
  <2> QED BY <2>2, <1>16 DEF EditComment, TypeOK
<1>17. ASSUME NEW a \in Participants, NEW i \in DOMAIN comments, DeleteComment(a, i) PROVE TypeOK'
  <2>1. [comments[i] EXCEPT !.deleted = TRUE, !.votes = NoVotes] \in Comment
    BY CommentTyped DEF Comment, NoVotes, VoteValues
  <2>2. comments' = [comments EXCEPT ![i] =
                       [comments[i] EXCEPT !.deleted = TRUE, !.votes = NoVotes]]
    BY <1>17, CommentTyped DEF DeleteComment, TypeOK, Comment
  <2>3. comments' \in Seq(Comment) /\ Len(comments') <= MaxComments
    BY <2>1, <2>2, ChangedComment
  <2> QED BY <2>3, <1>17 DEF DeleteComment, TypeOK
<1>18. ASSUME NEW a \in Participants, NEW i \in DOMAIN comments, Vote(a, i) PROVE TypeOK'
  <2>1. \A v \in VoteValues : [comments[i] EXCEPT !.votes[a] = v] \in Comment
    BY CommentTyped DEF Comment
  <2>2. comments' \in Seq(Comment) /\ Len(comments') <= MaxComments
    BY <1>18, <2>1, ChangedComment DEF Vote
  <2> QED BY <2>2, <1>18 DEF Vote, TypeOK
<1>19. CASE UNCHANGED vars
  BY <1>19 DEF vars, TypeOK
<1> QED
  BY <1>1, <1>2, <1>3, <1>4, <1>5, <1>6, <1>7, <1>8, <1>9, <1>10, <1>11, <1>12, <1>13,
     <1>14, <1>15, <1>16, <1>17, <1>18, <1>19 DEF Next

\* Every variable has its type, whoever configures, comments and saves.
THEOREM TypeCorrect == Spec => []TypeOK
<1>1. Init => TypeOK
  BY InitType
<1>2. TypeOK /\ [Next]_vars => TypeOK'
  BY StepType
<1> QED BY <1>1, <1>2, PTL DEF Spec

-----------------------------------------------------------------------------
(* What a step leaves of the row's lists, modes and version, when no       *)
(* unlocked save undoes a change                                           *)

LEMMA WriteKeeps ==
  ASSUME TypeOK, NEW w \in UnlockedWriters, WriteRow(w), ~overwritten'
  PROVE  /\ config'.groups = config.groups
         /\ config'.categories = config.categories
         /\ config'.version = config.version
         /\ config'.feature.enabled = config.feature.enabled
         /\ config'.feature.mode = config.feature.mode
         /\ config'.feature.ungrouped = config.feature.ungrouped
<1> DEFINE q == saves[w]
<1>1. q \in Save /\ q.base \in Row /\ q.base.feature \in Feature
  BY DEF WriteRow, TypeOK, Save, Row
<1>2. /\ Entity(q).groups = q.base.groups
      /\ Entity(q).categories = q.base.categories
      /\ Entity(q).version = q.base.version
      /\ Entity(q).feature = [q.base.feature EXCEPT !.columns = q.columns]
  BY <1>1 DEF Entity, Row
<1>3. /\ DOMAIN config = {"feature", "groups", "categories", "version"}
      /\ config \in Row /\ config.feature \in Feature
  BY DEF TypeOK, Row
<1>4. \A c \in DOMAIN config :
        config'[c] = IF c \in q.dirty THEN Entity(q)[c] ELSE config[c]
  BY DEF WriteRow
<1>5. \A c \in q.dirty : config[c] = q.base[c]
  BY DEF WriteRow
<1>6. config'.feature \in {config.feature, [config.feature EXCEPT !.columns = q.columns]}
  BY <1>2, <1>3, <1>4, <1>5
<1>7. /\ config'.groups = config.groups
      /\ config'.categories = config.categories
      /\ config'.version = config.version
  BY <1>2, <1>3, <1>4, <1>5
<1> QED BY <1>3, <1>6, <1>7 DEF Feature

LEMMA SettingsKeep ==
  ASSUME TypeOK, UpdateAccessConfig \/ UpdateMetadataColumns
  PROVE  /\ config'.groups = config.groups
         /\ config'.categories = config.categories
         /\ config'.version = config.version
         /\ config'.feature.enabled = config.feature.enabled
         /\ config'.feature.mode = config.feature.mode
         /\ config'.feature.ungrouped = config.feature.ungrouped
<1>1. config \in Row /\ config.feature \in Feature
  BY DEF TypeOK, Row
<1>2. CASE UpdateAccessConfig
  <2>1. PICK x \in BOOLEAN, c \in Columns :
          config' = [config EXCEPT !.feature.commenting = x, !.feature.columns = c]
    BY <1>2 DEF UpdateAccessConfig
  <2>2. config' = [config EXCEPT !.feature =
                     [config.feature EXCEPT !.commenting = x, !.columns = c]]
    BY <1>1, <2>1 DEF Row
  <2> QED BY <1>1, <2>2 DEF Row, Feature
<1>3. CASE UpdateMetadataColumns
  BY <1>1, <1>3 DEF UpdateMetadataColumns, Row, Feature
<1> QED BY <1>2, <1>3

\* The steps that change neither the row nor the comments.
Elsewhere ==
  \/ PackageChanges
  \/ \E m \in Managers :
       \/ AskForCheck(m) \/ TakeFingerprint(m) \/ Evaluate(m) \/ FinishCheck(m)
       \/ LoadPage(m) \/ PutConfig(m) \/ RefuseConfig(m)
  \/ \E w \in UnlockedWriters : ReadRow(w) \/ CompareRow(w)

LEMMA ElsewhereKeeps ==
  ASSUME Elsewhere \/ UNCHANGED vars
  PROVE  UNCHANGED <<config, comments, overwritten>>
BY DEF Elsewhere, vars, PackageChanges, AskForCheck, TakeFingerprint, Evaluate, FinishCheck,
       LoadPage, PutConfig, RefuseConfig, ReadRow, CompareRow

-----------------------------------------------------------------------------
(* No reference of a comment is dropped                                    *)

LEMMA StepReferences ==
  ASSUME TypeOK, CommentsKeepTheirReferences, [Next]_vars
  PROVE  CommentsKeepTheirReferences'
<1> SUFFICES ASSUME ~overwritten'
             PROVE  \A i \in DOMAIN comments' :
                      /\ comments'[i].group \in DOMAIN config'.groups \cup {None}
                      /\ comments'[i].category \in DOMAIN config'.categories \cup {None}
  BY DEF CommentsKeepTheirReferences
<1>1. ~overwritten
  BY DEF Next, vars, PackageChanges, AskForCheck, TakeFingerprint, Evaluate, FinishCheck,
     LoadPage, PutConfig, RefuseConfig, ReadRow, CompareRow, CommitConfig,
     UpdateAccessConfig, UpdateMetadataColumns, WriteRow, OpenThread, Reply, EditComment,
     DeleteComment, Vote
<1>2. \A i \in DOMAIN comments :
        /\ comments[i].group \in DOMAIN config.groups \cup {None}
        /\ comments[i].category \in DOMAIN config.categories \cup {None}
  BY <1>1 DEF CommentsKeepTheirReferences
<1>3. CASE Elsewhere \/ UNCHANGED vars
  BY <1>2, <1>3, ElsewhereKeeps
<1>4. CASE UpdateAccessConfig \/ UpdateMetadataColumns
  BY <1>2, <1>4, SettingsKeep DEF UpdateAccessConfig, UpdateMetadataColumns
<1>5. ASSUME NEW w \in UnlockedWriters, WriteRow(w) PROVE UNCHANGED comments
  BY <1>5 DEF WriteRow
<1>6. CASE \E w \in UnlockedWriters : WriteRow(w)
  BY <1>2, <1>5, <1>6, WriteKeeps
<1>7. ASSUME NEW m \in Managers, CommitConfig(m)
      PROVE  /\ UNCHANGED comments
             /\ KeepsReferences(config.groups, config'.groups, "group")
             /\ KeepsReferences(config.categories, config'.categories, "category")
  BY <1>7 DEF CommitConfig
<1>8. CASE \E m \in Managers : CommitConfig(m)
  <2>1. PICK m \in Managers : CommitConfig(m)
    BY <1>8
  <2>2. ASSUME NEW i \in DOMAIN comments
        PROVE  /\ comments[i].group \in DOMAIN config'.groups \cup {None}
               /\ comments[i].category \in DOMAIN config'.categories \cup {None}
    BY <1>2, <1>7, <2>1 DEF KeepsReferences, MayDrop
  <2> QED BY <1>7, <2>1, <2>2
<1>9. ASSUME NEW c \in Comment, comments' = Append(comments, c), UNCHANGED config,
             c.group \in DOMAIN config.groups \cup {None},
             c.category \in DOMAIN config.categories \cup {None}
      PROVE  \A i \in DOMAIN comments' :
               /\ comments'[i].group \in DOMAIN config'.groups \cup {None}
               /\ comments'[i].category \in DOMAIN config'.categories \cup {None}
  BY <1>2, <1>9 DEF TypeOK
<1>10. ASSUME NEW a \in Participants, OpenThread(a) PROVE CommentsKeepTheirReferences'
  <2>1. PICK group \in Groups \cup {None}, category \in Categories \cup {None} :
          /\ MayOpenIn(a, group)
          /\ MaySelect(category, None)
          /\ comments' = Append(comments,
               [author |-> a, group |-> group, category |-> category, root |-> None,
                deleted |-> FALSE, votes |-> NoVotes])
    BY <1>10 DEF OpenThread
  <2>2. group \in DOMAIN config.groups \cup {None}
    BY <2>1 DEF MayOpenIn, ActorGroups
  <2>3. category \in DOMAIN config.categories \cup {None}
    BY <2>1 DEF MaySelect
  <2>4. [author |-> a, group |-> group, category |-> category, root |-> None,
         deleted |-> FALSE, votes |-> NoVotes] \in Comment
    BY DEF Comment, NoVotes, VoteValues
  <2> QED BY <1>9, <1>10, <2>1, <2>2, <2>3, <2>4 DEF OpenThread, CommentsKeepTheirReferences
<1>11. ASSUME NEW a \in Participants, NEW i \in DOMAIN comments, Reply(a, i)
       PROVE  CommentsKeepTheirReferences'
  <2>1. PICK category \in Categories \cup {None} :
          /\ MaySelect(category, None)
          /\ comments' = Append(comments,
               [author |-> a, group |-> comments[i].group, category |-> category,
                root |-> RootOf(i), deleted |-> FALSE, votes |-> NoVotes])
    BY <1>11 DEF Reply
  <2>2. category \in DOMAIN config.categories \cup {None}
    BY <2>1 DEF MaySelect
  <2>3. [author |-> a, group |-> comments[i].group, category |-> category,
         root |-> RootOf(i), deleted |-> FALSE, votes |-> NoVotes] \in Comment
    BY CommentTyped DEF Comment, NoVotes, VoteValues, RootOf
  <2> QED BY <1>2, <1>9, <1>11, <2>1, <2>2, <2>3 DEF Reply, CommentsKeepTheirReferences
<1>12. ASSUME NEW a \in Participants, NEW i \in DOMAIN comments, EditComment(a, i)
       PROVE  CommentsKeepTheirReferences'
  <2>1. PICK category \in Categories \cup {None} :
          /\ MaySelect(category, comments[i].category)
          /\ comments' = [comments EXCEPT ![i].category = category]
    BY <1>12 DEF EditComment
  <2>2. category \in DOMAIN config.categories \cup {None}
    BY <1>2, <2>1 DEF MaySelect
  <2> QED BY <1>2, <1>12, <2>1, <2>2, CommentTyped
          DEF EditComment, CommentsKeepTheirReferences, Comment
<1>13. ASSUME NEW a \in Participants, NEW i \in DOMAIN comments, DeleteComment(a, i)
       PROVE  CommentsKeepTheirReferences'
  BY <1>2, <1>13, CommentTyped DEF DeleteComment, CommentsKeepTheirReferences, Comment
<1>14. ASSUME NEW a \in Participants, NEW i \in DOMAIN comments, Vote(a, i)
       PROVE  CommentsKeepTheirReferences'
  BY <1>2, <1>14, CommentTyped DEF Vote, CommentsKeepTheirReferences, Comment
<1> QED
  BY <1>3, <1>4, <1>6, <1>8, <1>10, <1>11, <1>12, <1>13, <1>14
     DEF Next, Elsewhere, CommentsKeepTheirReferences

\* As long as no unlocked save has undone a change, no comment loses the
\* group or category it refers to, for every number of managers, groups and
\* categories.
THEOREM ReferencesAreKept == Spec => []CommentsKeepTheirReferences
<1>1. Init => CommentsKeepTheirReferences
  BY DEF Init, CommentsKeepTheirReferences
<1>2. TypeOK /\ CommentsKeepTheirReferences /\ [Next]_vars => CommentsKeepTheirReferences'
  BY StepReferences
<1> QED BY <1>1, <1>2, TypeCorrect, PTL DEF Spec

-----------------------------------------------------------------------------
(* Threads and votes                                                       *)

ThreadInv == ThreadsHoldTogether /\ VotesStand

\* The steps that leave the comments alone.
LeavesComments ==
  \/ Elsewhere \/ UpdateAccessConfig \/ UpdateMetadataColumns
  \/ \E m \in Managers : CommitConfig(m)
  \/ \E w \in UnlockedWriters : WriteRow(w)

LEMMA CommentsLeft ==
  ASSUME LeavesComments \/ UNCHANGED vars
  PROVE  UNCHANGED comments
BY ElsewhereKeeps DEF LeavesComments, vars, UpdateAccessConfig, UpdateMetadataColumns,
   CommitConfig, WriteRow

LEMMA AddedThread ==
  ASSUME TypeOK, ThreadInv, NEW c \in Comment, comments' = Append(comments, c),
         c.votes = NoVotes,
         c.root # None => /\ c.root \in DOMAIN comments
                          /\ comments[c.root].root = None
                          /\ comments[c.root].group = c.group
  PROVE  ThreadInv'
<1>1. /\ comments \in Seq(Comment) /\ Len(comments) \in Nat
      /\ DOMAIN comments = 1..Len(comments)
      /\ DOMAIN comments' = 1..(Len(comments) + 1)
      /\ \A i \in DOMAIN comments : comments'[i] = comments[i]
      /\ comments'[Len(comments) + 1] = c
  BY DEF TypeOK
<1>2. ASSUME NEW i \in DOMAIN comments', comments'[i].root # None
      PROVE  /\ comments'[i].root < i
             /\ comments'[comments'[i].root].root = None
             /\ comments'[comments'[i].root].group = comments'[i].group
  <2>1. CASE i \in DOMAIN comments
    <3>1. /\ comments[i].root \in 1..MaxComments
          /\ comments[i].root < i
          /\ comments[comments[i].root].root = None
          /\ comments[comments[i].root].group = comments[i].group
      BY <1>1, <1>2, <2>1, CommentTyped DEF ThreadInv, ThreadsHoldTogether, Comment
    <3>2. comments[i].root \in DOMAIN comments
      BY <1>1, <2>1, <3>1
    <3> QED BY <1>1, <2>1, <3>1, <3>2
  <2>2. CASE i = Len(comments) + 1
    BY <1>1, <1>2, <2>2
  <2>3. i \in DOMAIN comments \/ i = Len(comments) + 1
    BY <1>1
  <2> QED BY <2>1, <2>2, <2>3
<1>3. c.author \in Participants
  BY DEF Comment
<1>4. ASSUME NEW i \in DOMAIN comments'
      PROVE  /\ comments'[i].votes[comments'[i].author] = "NONE"
             /\ comments'[i].deleted => comments'[i].votes = NoVotes
  <2>1. CASE i \in DOMAIN comments
    BY <1>1, <2>1 DEF ThreadInv, VotesStand
  <2>2. CASE i = Len(comments) + 1
    BY <1>1, <1>3, <2>2 DEF NoVotes
  <2> QED BY <1>1, <2>1, <2>2
<1>5. ThreadsHoldTogether'
  BY <1>2 DEF ThreadsHoldTogether
<1>6. VotesStand'
  BY <1>4 DEF VotesStand
<1> QED BY <1>5, <1>6 DEF ThreadInv

LEMMA ChangedThread ==
  ASSUME TypeOK, ThreadInv, NEW i \in DOMAIN comments, NEW c \in Comment,
         comments' = [comments EXCEPT ![i] = c],
         c.root = comments[i].root, c.group = comments[i].group,
         c.votes[c.author] = "NONE",
         c.deleted => c.votes = NoVotes
  PROVE  ThreadInv'
<1>1. /\ DOMAIN comments' = DOMAIN comments
      /\ DOMAIN comments = 1..Len(comments)
      /\ Len(comments) \in Nat
      /\ \A j \in DOMAIN comments :
           /\ comments'[j].root = comments[j].root
           /\ comments'[j].group = comments[j].group
           /\ j # i => comments'[j] = comments[j]
      /\ comments'[i] = c
  BY DEF TypeOK
<1>2. ASSUME NEW j \in DOMAIN comments, comments[j].root # None
      PROVE  comments[j].root \in DOMAIN comments
  BY <1>1, <1>2, CommentTyped DEF ThreadInv, ThreadsHoldTogether, Comment
<1>3. ThreadsHoldTogether'
  BY <1>1, <1>2 DEF ThreadInv, ThreadsHoldTogether
<1>4. VotesStand'
  BY <1>1 DEF ThreadInv, VotesStand
<1> QED BY <1>3, <1>4 DEF ThreadInv

LEMMA StepThreads ==
  ASSUME TypeOK, ThreadInv, [Next]_vars
  PROVE  ThreadInv'
<1>1. CASE LeavesComments \/ UNCHANGED vars
  BY <1>1, CommentsLeft DEF ThreadInv, ThreadsHoldTogether, VotesStand
<1>2. ASSUME NEW a \in Participants, OpenThread(a) PROVE ThreadInv'
  <2>1. PICK group \in Groups \cup {None}, category \in Categories \cup {None} :
          comments' = Append(comments,
            [author |-> a, group |-> group, category |-> category, root |-> None,
             deleted |-> FALSE, votes |-> NoVotes])
    BY <1>2 DEF OpenThread
  <2>2. [author |-> a, group |-> group, category |-> category, root |-> None,
         deleted |-> FALSE, votes |-> NoVotes] \in Comment
    BY DEF Comment, NoVotes, VoteValues
  <2> QED BY <2>1, <2>2, AddedThread
<1>3. ASSUME NEW a \in Participants, NEW i \in DOMAIN comments, Reply(a, i) PROVE ThreadInv'
  <2>1. PICK category \in Categories \cup {None} :
          comments' = Append(comments,
            [author |-> a, group |-> comments[i].group, category |-> category,
             root |-> RootOf(i), deleted |-> FALSE, votes |-> NoVotes])
    BY <1>3 DEF Reply
  <2>2. [author |-> a, group |-> comments[i].group, category |-> category,
         root |-> RootOf(i), deleted |-> FALSE, votes |-> NoVotes] \in Comment
    BY CommentTyped DEF Comment, NoVotes, VoteValues, RootOf
  <2>3. /\ RootOf(i) \in DOMAIN comments
        /\ comments[RootOf(i)].root = None
        /\ comments[RootOf(i)].group = comments[i].group
    <3>1. CASE comments[i].root = None
      BY <3>1 DEF RootOf
    <3>2. CASE comments[i].root # None
      <4>1. comments[i].root \in 1..MaxComments
        BY <3>2, CommentTyped DEF Comment
      <4>2. comments[i].root < i
        BY <3>2 DEF ThreadInv, ThreadsHoldTogether
      <4>3. comments[i].root \in DOMAIN comments
        BY <4>1, <4>2 DEF TypeOK
      <4> QED BY <3>2, <4>3 DEF RootOf, ThreadInv, ThreadsHoldTogether
    <3> QED BY <3>1, <3>2
  <2> QED BY <2>1, <2>2, <2>3, AddedThread
<1>4. ASSUME NEW a \in Participants, NEW i \in DOMAIN comments, EditComment(a, i)
      PROVE  ThreadInv'
  <2>1. PICK category \in Categories \cup {None} :
          comments' = [comments EXCEPT ![i].category = category]
    BY <1>4 DEF EditComment
  <2>2. [comments[i] EXCEPT !.category = category] \in Comment
    BY CommentTyped DEF Comment
  <2>3. comments' = [comments EXCEPT ![i] = [comments[i] EXCEPT !.category = category]]
    BY <2>1
  <2> QED BY <2>2, <2>3, ChangedThread, CommentTyped DEF Comment, ThreadInv, VotesStand
<1>5. ASSUME NEW a \in Participants, NEW i \in DOMAIN comments, DeleteComment(a, i)
      PROVE  ThreadInv'
  <2> DEFINE c == [comments[i] EXCEPT !.deleted = TRUE, !.votes = NoVotes]
  <2>1. comments[i] \in Comment
    BY CommentTyped
  <2>2. c \in Comment
    BY <2>1 DEF Comment, NoVotes, VoteValues
  <2>3. /\ c.root = comments[i].root /\ c.group = comments[i].group
        /\ c.votes = NoVotes /\ c.author \in Participants
    BY <2>1 DEF Comment
  <2>4. c.votes[c.author] = "NONE"
    BY <2>3 DEF NoVotes
  <2>5. comments' = [comments EXCEPT ![i] = c]
    BY <1>5, <2>1 DEF DeleteComment, Comment
  <2> HIDE DEF c
  <2> QED BY <2>2, <2>3, <2>4, <2>5, ChangedThread
<1>6. ASSUME NEW a \in Participants, NEW i \in DOMAIN comments, Vote(a, i) PROVE ThreadInv'
  <2>1. PICK v \in VoteValues : comments' = [comments EXCEPT ![i].votes[a] = v]
    BY <1>6 DEF Vote
  <2>2. ~comments[i].deleted /\ comments[i].author # a
    BY <1>6 DEF Vote, Sees, CanVote
  <2> DEFINE c == [comments[i] EXCEPT !.votes[a] = v]
  <2>3. c \in Comment
    BY CommentTyped DEF Comment
  <2>4. /\ c.root = comments[i].root /\ c.group = comments[i].group
        /\ c.deleted = comments[i].deleted /\ c.author = comments[i].author
        /\ c.votes[c.author] = comments[i].votes[comments[i].author]
    BY <2>2, CommentTyped DEF Comment
  <2>5. comments' = [comments EXCEPT ![i] = c]
    BY <2>1
  <2>6. c.votes[c.author] = "NONE" /\ ~c.deleted
    BY <2>2, <2>4 DEF ThreadInv, VotesStand
  <2> HIDE DEF c
  <2> QED BY <2>3, <2>4, <2>5, <2>6, ChangedThread
<1> QED
  BY <1>1, <1>2, <1>3, <1>4, <1>5, <1>6 DEF Next, LeavesComments, Elsewhere

LEMMA ThreadsInv == Spec => []ThreadInv
<1>1. Init => ThreadInv
  BY DEF Init, ThreadInv, ThreadsHoldTogether, VotesStand
<1>2. TypeOK /\ ThreadInv /\ [Next]_vars => ThreadInv'
  BY StepThreads
<1> QED BY <1>1, <1>2, TypeCorrect, PTL DEF Spec

\* Replies hang below the first comment of their thread and share its group,
\* however long the threads grow.
THEOREM ThreadsAreFlat == Spec => []ThreadsHoldTogether
<1>1. ThreadInv => ThreadsHoldTogether
  BY DEF ThreadInv
<1> QED BY <1>1, ThreadsInv, PTL

\* Nobody votes on a comment of their own, and deleted comments have no votes.
THEOREM VotesAreByOthers == Spec => []VotesStand
<1>1. ThreadInv => VotesStand
  BY DEF ThreadInv
<1> QED BY <1>1, ThreadsInv, PTL

-----------------------------------------------------------------------------
(* Readiness and activation                                                *)

\* What a request knows of the package.
CheckFits(q) ==
  /\ q.stamp # None => q.stamp <= package.stamp
  /\ q.stage = "finish" =>
       /\ q.stamp # None /\ q.verdict # None
       /\ q.stamp = package.stamp => q.verdict = package.verdict
  /\ q.stage = "evaluate" => q.stamp # None

ReadinessInv ==
  /\ \A m \in Managers : requests[m] # None => CheckFits(requests[m])
  /\ lastCheck # None =>
       /\ lastCheck.stamp \in Nat /\ lastCheck.stamp <= package.stamp
       /\ ~lastCheck.stale /\ lastCheck.stamp = package.stamp
            => lastCheck.verdict = package.verdict

LEMMA RequestTyped ==
  ASSUME TypeOK, NEW m \in Managers, requests[m] # None
  PROVE  requests[m] \in Request
BY DEF TypeOK

LEMMA StepReadiness ==
  ASSUME TypeOK, ReadinessInv, [Next]_vars
  PROVE  ReadinessInv'
<1>0. /\ package.stamp \in Nat /\ requests \in [Managers -> Request \cup {None}]
      /\ MaxStamp \in Nat /\ None \notin Nat
  BY ReviewAssumption DEF TypeOK
<1>1. CASE UNCHANGED <<package, requests, lastCheck>>
  BY <1>1 DEF ReadinessInv, CheckFits
<1>2. CASE PackageChanges
  <2>1. /\ package'.stamp = package.stamp + 1
        /\ UNCHANGED <<requests, lastCheck>>
    BY <1>2 DEF PackageChanges
  <2>2. ASSUME NEW m \in Managers, requests[m] # None PROVE CheckFits(requests[m])'
    <3>1. requests[m].stamp \in Nat \cup {None}
      BY <1>0, <2>2, RequestTyped DEF Request
    <3> QED BY <1>0, <2>1, <2>2, <3>1 DEF ReadinessInv, CheckFits
  <2> QED BY <1>0, <2>1, <2>2 DEF ReadinessInv
<1>3. ASSUME NEW m \in Managers, UNCHANGED <<package, lastCheck>>, NEW q,
             requests' = [requests EXCEPT ![m] = q], q # None => CheckFits(q)
      PROVE  ReadinessInv'
  BY <1>0, <1>3 DEF ReadinessInv, CheckFits
<1>4. ASSUME NEW m \in Managers, AskForCheck(m) PROVE ReadinessInv'
  BY <1>3, <1>4 DEF AskForCheck, CheckFits
<1>5. ASSUME NEW m \in Managers, PutConfig(m) PROVE ReadinessInv'
  <2>1. PICK enable \in BOOLEAN :
          requests' = [requests EXCEPT ![m] =
            [kind |-> "configure", version |-> pages[m], enable |-> enable,
             stage |-> IF enable /\ ~config.feature.enabled THEN "begin" ELSE "commit",
             stamp |-> None, verdict |-> None]]
    BY <1>5 DEF PutConfig
  <2> QED BY <1>3, <1>5, <2>1 DEF PutConfig, CheckFits
<1>6. ASSUME NEW m \in Managers, TakeFingerprint(m) PROVE ReadinessInv'
  <2> DEFINE q == [requests[m] EXCEPT !.stage = "evaluate", !.stamp = package.stamp]
  <2>1. requests[m] \in Request
    BY <1>6, RequestTyped DEF TakeFingerprint, At
  <2>2. requests' = [requests EXCEPT ![m] = q]
    BY <1>0, <1>6 DEF TakeFingerprint
  <2>3. CheckFits(q)
    BY <1>0, <2>1 DEF CheckFits, Request
  <2> QED BY <1>3, <1>6, <2>2, <2>3 DEF TakeFingerprint
<1>7. ASSUME NEW m \in Managers, Evaluate(m) PROVE ReadinessInv'
  <2>1. PICK v \in Verdicts :
          /\ requests[m].stamp = package.stamp => v = package.verdict
          /\ requests' = [requests EXCEPT ![m].stage = "finish", ![m].verdict = v]
    BY <1>7 DEF Evaluate
  <2> DEFINE q == [requests[m] EXCEPT !.stage = "finish", !.verdict = v]
  <2>2. requests[m] \in Request /\ CheckFits(requests[m]) /\ requests[m].stage = "evaluate"
    BY <1>7, RequestTyped DEF Evaluate, At, ReadinessInv
  <2>3. requests' = [requests EXCEPT ![m] = q]
    BY <1>0, <2>1
  <2>4. q.stamp = requests[m].stamp /\ q.stage = "finish" /\ q.verdict = v
    BY <2>2 DEF Request
  <2>5. CheckFits(q)
    BY <2>1, <2>2, <2>4, ReviewAssumption DEF CheckFits, Verdicts
  <2> QED BY <1>3, <1>7, <2>3, <2>5 DEF Evaluate
<1>8. ASSUME NEW m \in Managers, FinishCheck(m) PROVE ReadinessInv'
  <2>1. requests[m] \in Request /\ CheckFits(requests[m]) /\ requests[m].stage = "finish"
    BY <1>8, RequestTyped DEF FinishCheck, At, ReadinessInv
  <2>2. UNCHANGED package /\ lastCheck' = Stored(requests[m])
    BY <1>8 DEF FinishCheck
  <2>3. requests[m].stamp \in Nat /\ requests[m].stamp <= package.stamp
    BY <1>0, <2>1 DEF CheckFits, Request
  <2>4. /\ lastCheck'.stamp = requests[m].stamp /\ lastCheck'.verdict = requests[m].verdict
        /\ lastCheck'.stamp = package.stamp => lastCheck'.verdict = package.verdict
    BY <2>1, <2>2 DEF Stored, CheckFits
  <2>5. \/ requests' = [requests EXCEPT ![m] = None]
        \/ requests' = [requests EXCEPT ![m] = [requests[m] EXCEPT !.stage = "commit"]]
    BY <1>0, <1>8 DEF FinishCheck
  <2>6. CheckFits([requests[m] EXCEPT !.stage = "commit"])
    BY <1>0, <2>1, <2>3 DEF CheckFits, Request
  <2>7. \A n \in Managers : requests'[n] # None => CheckFits(requests'[n])
    BY <1>0, <2>5, <2>6 DEF ReadinessInv
  <2> QED BY <2>2, <2>3, <2>4, <2>7 DEF ReadinessInv, CheckFits
<1>9. ASSUME NEW m \in Managers, CommitConfig(m) \/ RefuseConfig(m) PROVE ReadinessInv'
  BY <1>3, <1>9 DEF CommitConfig, RefuseConfig
<1>10. CASE UNCHANGED vars
  BY <1>1, <1>10 DEF vars
<1>11. ASSUME NEW m \in Managers, LoadPage(m) PROVE ReadinessInv'
  BY <1>1, <1>11 DEF LoadPage
<1>12. CASE UpdateAccessConfig \/ UpdateMetadataColumns
  BY <1>1, <1>12 DEF UpdateAccessConfig, UpdateMetadataColumns
<1>13. ASSUME NEW w \in UnlockedWriters, ReadRow(w) \/ CompareRow(w) \/ WriteRow(w)
       PROVE  ReadinessInv'
  BY <1>1, <1>13 DEF ReadRow, CompareRow, WriteRow
<1>14. ASSUME NEW a \in Participants,
              \/ OpenThread(a)
              \/ \E i \in DOMAIN comments :
                   Reply(a, i) \/ EditComment(a, i) \/ DeleteComment(a, i) \/ Vote(a, i)
       PROVE  ReadinessInv'
  BY <1>1, <1>14 DEF OpenThread, Reply, EditComment, DeleteComment, Vote
<1> QED
  BY <1>2, <1>4, <1>5, <1>6, <1>7, <1>8, <1>9, <1>10, <1>11, <1>12, <1>13, <1>14
     DEF Next

LEMMA ReadinessHolds == Spec => []ReadinessInv
<1>1. Init => ReadinessInv
  BY DEF Init, ReadinessInv
<1>2. TypeOK /\ ReadinessInv /\ [Next]_vars => ReadinessInv'
  BY StepReadiness
<1> QED BY <1>1, <1>2, TypeCorrect, PTL DEF Spec

\* A readiness result shown as current is the package's verdict now.
THEOREM ShownReadinessIsTrue == Spec => []ReadinessIsCurrent
<1>1. ReadinessInv => ReadinessIsCurrent
  BY DEF ReadinessInv, ReadinessIsCurrent, ShownAsCurrent, IsStale
<1> QED BY <1>1, ReadinessHolds, PTL

\* What lets a request activate the review: it was checked, or it saw the
\* review active in the configuration that it is about to replace.
ActivationFits(q) ==
  /\ q.version <= config.version
  /\ q.stage = "commit" /\ q.enable =>
       \/ q.verdict \in {"READY", "WARNING"}
       \/ q.version = config.version => config.feature.enabled

ActivationInv ==
  ~overwritten =>
    \A m \in Managers :
      /\ pages[m] # None => pages[m] <= config.version
      /\ requests[m] # None => ActivationFits(requests[m])

\* The steps that change neither the row nor what managers hold.
LeavesReview ==
  \/ PackageChanges
  \/ \E w \in UnlockedWriters : ReadRow(w) \/ CompareRow(w)
  \/ \E a \in Participants :
       \/ OpenThread(a)
       \/ \E i \in DOMAIN comments :
            Reply(a, i) \/ EditComment(a, i) \/ DeleteComment(a, i) \/ Vote(a, i)

LEMMA ReviewLeft ==
  ASSUME LeavesReview \/ UNCHANGED vars
  PROVE  UNCHANGED <<config, pages, requests, overwritten>>
BY DEF LeavesReview, vars, PackageChanges, ReadRow, CompareRow, OpenThread, Reply,
   EditComment, DeleteComment, Vote

\* A request takes its next phase and the row stays as it is.
LEMMA PhaseKeepsActivation ==
  ASSUME TypeOK, ActivationInv, NEW m \in Managers, NEW q,
         UNCHANGED <<config, pages, overwritten>>,
         requests' = [requests EXCEPT ![m] = q],
         q # None /\ ~overwritten => ActivationFits(q)
  PROVE  ActivationInv'
BY DEF TypeOK, ActivationInv, ActivationFits

LEMMA StepActivation ==
  ASSUME TypeOK, ReadinessInv, ActivationInv, [Next]_vars
  PROVE  ActivationInv'
<1>0. /\ requests \in [Managers -> Request \cup {None}]
      /\ pages \in [Managers -> (1..MaxVersion) \cup {None}]
      /\ config.version \in 1..MaxVersion
  BY DEF TypeOK, Row
<1>1. CASE LeavesReview \/ UNCHANGED vars
  BY <1>1, ReviewLeft DEF ActivationInv, ActivationFits
<1>2. ASSUME UNCHANGED <<pages, requests>>,
             ~overwritten' => /\ ~overwritten
                              /\ config'.version = config.version
                              /\ config'.feature.enabled = config.feature.enabled
      PROVE  ActivationInv'
  BY <1>2 DEF ActivationInv, ActivationFits
<1>3. CASE UpdateAccessConfig \/ UpdateMetadataColumns
  BY <1>2, <1>3, SettingsKeep DEF UpdateAccessConfig, UpdateMetadataColumns
<1>4. ASSUME NEW w \in UnlockedWriters, WriteRow(w) PROVE ActivationInv'
  <2>1. UNCHANGED <<pages, requests>> /\ (~overwritten' => ~overwritten)
    BY <1>4 DEF WriteRow
  <2> QED BY <1>2, <1>4, <2>1, WriteKeeps
<1>5. ASSUME NEW m \in Managers, AskForCheck(m) PROVE ActivationInv'
  <2> DEFINE q == [kind |-> "check", stage |-> "begin", version |-> 1, enable |-> FALSE,
                   stamp |-> None, verdict |-> None]
  <2>1. ActivationFits(q)
    BY <1>0, ReviewAssumption DEF ActivationFits
  <2> QED BY <1>5, <2>1, PhaseKeepsActivation DEF AskForCheck
<1>6. ASSUME NEW m \in Managers, TakeFingerprint(m) PROVE ActivationInv'
  <2> DEFINE q == [requests[m] EXCEPT !.stage = "evaluate", !.stamp = package.stamp]
  <2>1. requests[m] \in Request /\ (~overwritten => ActivationFits(requests[m]))
    BY <1>6, RequestTyped DEF TakeFingerprint, At, ActivationInv
  <2>2. requests' = [requests EXCEPT ![m] = q]
    BY <1>0, <1>6 DEF TakeFingerprint
  <2>3. ~overwritten => ActivationFits(q)
    BY <2>1 DEF ActivationFits, Request
  <2> QED BY <1>6, <2>2, <2>3, PhaseKeepsActivation DEF TakeFingerprint
<1>7. ASSUME NEW m \in Managers, Evaluate(m) PROVE ActivationInv'
  <2>1. PICK v \in Verdicts :
          requests' = [requests EXCEPT ![m].stage = "finish", ![m].verdict = v]
    BY <1>7 DEF Evaluate
  <2> DEFINE q == [requests[m] EXCEPT !.stage = "finish", !.verdict = v]
  <2>2. requests[m] \in Request /\ (~overwritten => ActivationFits(requests[m]))
    BY <1>7, RequestTyped DEF Evaluate, At, ActivationInv
  <2>3. requests' = [requests EXCEPT ![m] = q]
    BY <1>0, <2>1
  <2>4. ~overwritten => ActivationFits(q)
    BY <2>2 DEF ActivationFits, Request
  <2> QED BY <1>7, <2>3, <2>4, PhaseKeepsActivation DEF Evaluate
<1>8. ASSUME NEW m \in Managers, FinishCheck(m) PROVE ActivationInv'
  <2> DEFINE q == [requests[m] EXCEPT !.stage = "commit"]
  <2>1. /\ requests[m] \in Request /\ requests[m].stage = "finish"
        /\ ~overwritten => ActivationFits(requests[m])
        /\ CheckFits(requests[m])
    BY <1>8, RequestTyped DEF FinishCheck, At, ActivationInv, ReadinessInv
  <2>2. CASE requests' = [requests EXCEPT ![m] = None]
    BY <1>8, <2>2, PhaseKeepsActivation DEF FinishCheck
  <2>3. CASE Passes(m) /\ requests' = [requests EXCEPT ![m].stage = "commit"]
    <3>1. requests' = [requests EXCEPT ![m] = q]
      BY <1>0, <2>3
    <3>2. q.verdict \in {"READY", "WARNING"}
      BY <2>1, <2>3 DEF CheckFits, Passes, Request, Verdicts
    <3>3. ~overwritten => ActivationFits(q)
      BY <2>1, <3>2 DEF ActivationFits, Request
    <3> QED BY <1>8, <3>1, <3>3, PhaseKeepsActivation DEF FinishCheck
  <2> QED BY <1>8, <2>2, <2>3 DEF FinishCheck
<1>9. ASSUME NEW m \in Managers, LoadPage(m) PROVE ActivationInv'
  BY <1>0, <1>9 DEF LoadPage, ActivationInv, ActivationFits
<1>10. ASSUME NEW m \in Managers, PutConfig(m) PROVE ActivationInv'
  <2>1. PICK enable \in BOOLEAN :
          requests' = [requests EXCEPT ![m] =
            [kind |-> "configure", version |-> pages[m], enable |-> enable,
             stage |-> IF enable /\ ~config.feature.enabled THEN "begin" ELSE "commit",
             stamp |-> None, verdict |-> None]]
    BY <1>10 DEF PutConfig
  <2> DEFINE q == [kind |-> "configure", version |-> pages[m], enable |-> enable,
             stage |-> IF enable /\ ~config.feature.enabled THEN "begin" ELSE "commit",
             stamp |-> None, verdict |-> None]
  <2>2. ~overwritten => ActivationFits(q)
    BY <1>10 DEF PutConfig, ActivationInv, ActivationFits
  <2> QED BY <1>10, <2>1, <2>2, PhaseKeepsActivation DEF PutConfig
<1>11. ASSUME NEW m \in Managers, RefuseConfig(m) PROVE ActivationInv'
  BY <1>11, PhaseKeepsActivation DEF RefuseConfig
<1>12. ASSUME NEW m \in Managers, CommitConfig(m) PROVE ActivationInv'
  <2>1. /\ config'.version = config.version + 1
        /\ requests' = [requests EXCEPT ![m] = None]
        /\ UNCHANGED <<pages, overwritten>>
    BY <1>12 DEF CommitConfig
  <2>2. ASSUME ~overwritten, NEW n \in Managers, pages[n] # None
        PROVE  pages[n] <= config'.version
    <3>1. pages[n] <= config.version /\ pages[n] \in Nat
      BY <1>0, <2>2 DEF ActivationInv
    <3> QED BY <1>0, <2>1, <3>1
  <2>3. ASSUME ~overwritten, NEW n \in Managers, requests'[n] # None
        PROVE  ActivationFits(requests[n])' /\ requests'[n] = requests[n]
    <3>1. requests'[n] = requests[n] /\ requests[n] \in Request
      BY <1>0, <2>1, <2>3, RequestTyped
    <3>2. requests[n].version <= config.version /\ requests[n].version \in Nat
      BY <2>3, <3>1 DEF ActivationInv, ActivationFits, Request
    <3>3. requests'[n].version <= config'.version /\ requests'[n].version # config'.version
      BY <1>0, <2>1, <3>1, <3>2
    <3> QED BY <3>1, <3>3 DEF ActivationFits
  <2> QED BY <2>1, <2>2, <2>3 DEF ActivationInv
<1> QED
  BY <1>1, <1>3, <1>4, <1>5, <1>6, <1>7, <1>8, <1>9, <1>10, <1>11, <1>12
     DEF Next, LeavesReview

LEMMA ActivationHolds == Spec => []ActivationInv
<1>1. Init => ActivationInv
  BY DEF Init, ActivationInv
<1>2. TypeOK /\ ReadinessInv /\ ActivationInv /\ [Next]_vars => ActivationInv'
  BY StepActivation
<1> QED BY <1>1, <1>2, TypeCorrect, ReadinessHolds, PTL DEF Spec

LEMMA OverwrittenStays ==
  ASSUME [Next]_vars
  PROVE  overwritten => overwritten'
BY DEF Next, vars, PackageChanges, AskForCheck, TakeFingerprint, Evaluate, FinishCheck,
   LoadPage, PutConfig, RefuseConfig, ReadRow, CompareRow, CommitConfig,
   UpdateAccessConfig, UpdateMetadataColumns, WriteRow, OpenThread, Reply, EditComment,
   DeleteComment, Vote

\* What the transaction of `configure` does to the settings of the review.
LEMMA CommitSets ==
  ASSUME TypeOK, NEW m \in Managers, CommitConfig(m)
  PROVE  /\ requests[m] \in Request
         /\ requests[m].stage = "commit" /\ requests[m].version = config.version
         /\ requests' = [requests EXCEPT ![m] = None]
         /\ config'.version = config.version + 1
         /\ config'.feature.enabled = requests[m].enable
         /\ config'.feature.ungrouped = UngroupedAfter(config'.feature.mode)
         /\ config'.feature.mode \in Modes
         /\ UNCHANGED <<comments, overwritten>>
<1>0. PICK mode \in Modes, groups \in Edits(config.groups, Groups, Group),
           categories \in Edits(config.categories, Categories, BOOLEAN) :
        config' =
          [feature |-> [config.feature EXCEPT !.enabled = requests[m].enable, !.mode = mode,
                                              !.ungrouped = UngroupedAfter(mode)],
           groups |-> groups, categories |-> categories, version |-> config.version + 1]
  BY DEF CommitConfig
<1>1. config'.feature = [config.feature EXCEPT !.enabled = requests[m].enable, !.mode = mode,
                                               !.ungrouped = UngroupedAfter(mode)]
  BY <1>0
<1>2. config.feature \in Feature
  BY DEF TypeOK, Row
<1>3. /\ config'.feature.enabled = requests[m].enable
      /\ config'.feature.mode = mode
      /\ config'.feature.ungrouped = UngroupedAfter(mode)
  BY <1>1, <1>2 DEF Feature
<1> QED BY <1>3, RequestTyped DEF CommitConfig, At, FreshVersion

LEMMA StepActivates ==
  ASSUME TypeOK, ActivationInv, [Next]_vars,
         ~config.feature.enabled, config'.feature.enabled, ~overwritten'
  PROVE  \E m \in Managers :
           /\ At(m, "commit")
           /\ requests[m].verdict \in {"READY", "WARNING"}
           /\ requests'[m] = None
<1>1. ~overwritten
  BY OverwrittenStays
<1>2. config' # config
  OBVIOUS
<1>3. ~(\E w \in UnlockedWriters : WriteRow(w))
  BY WriteKeeps
<1>4. ~(UpdateAccessConfig \/ UpdateMetadataColumns)
  BY SettingsKeep
<1>5. PICK m \in Managers : CommitConfig(m)
  BY <1>2, <1>3, <1>4 DEF Next, vars, PackageChanges, AskForCheck, TakeFingerprint, Evaluate,
     FinishCheck, LoadPage, PutConfig, RefuseConfig, ReadRow, CompareRow,
     OpenThread, Reply, EditComment, DeleteComment, Vote
<1>6. requests[m] # None /\ At(m, "commit")
  BY <1>5 DEF CommitConfig, At
<1>7. ActivationFits(requests[m])
  BY <1>1, <1>6 DEF ActivationInv
<1>8. requests[m].verdict \in {"READY", "WARNING"}
  BY <1>5, <1>7, CommitSets DEF ActivationFits
<1>9. requests'[m] = None
  BY <1>5, CommitSets DEF TypeOK
<1> QED BY <1>6, <1>8, <1>9

\* The review is activated by a request that a readiness check let pass.
THEOREM ActivationsAreChecked == Spec => ActivationFollowsACheck
<1>1. TypeOK /\ ActivationInv /\ [Next]_vars =>
        [~config.feature.enabled /\ config'.feature.enabled
           => \/ \E m \in Managers :
                   /\ At(m, "commit")
                   /\ requests[m].verdict \in {"READY", "WARNING"}
                   /\ requests'[m] = None
              \/ overwritten']_vars
  BY StepActivates
<1> QED BY <1>1, TypeCorrect, ActivationHolds, PTL DEF Spec, ActivationFollowsACheck

-----------------------------------------------------------------------------
(* Comments without a group stay hidden                                    *)

\* Seeing a comment without a group depends on the mode, on the visibility
\* kept for such comments and on who wrote it.
LEMMA SeeingUngrouped ==
  ASSUME NEW row, NEW cs, NEW a, NEW i, cs[i].group = None
  PROVE  Sees(row, cs, a, i) <=>
           /\ ~cs[i].deleted
           /\ \/ a \in Managers
              \/ row.feature.mode = "SHARED"
              \/ row.feature.mode = "GROUP" /\ row.feature.ungrouped = "SHARED"
              \/ cs[i].author = a
BY DEF Sees, CanView

\* A step of the comments leaves who wrote a comment, and never undeletes it.
LEMMA CommentsStay ==
  ASSUME TypeOK, [Next]_vars, NEW i \in DOMAIN comments
  PROVE  /\ comments'[i].group = comments[i].group
         /\ comments'[i].author = comments[i].author
         /\ comments[i].deleted => comments'[i].deleted
<1>1. comments[i] \in Comment /\ comments \in Seq(Comment)
  BY CommentTyped DEF TypeOK
<1>2. CASE UNCHANGED comments
  BY <1>2
<1>3. CASE \E a \in Participants : OpenThread(a)
  BY <1>1, <1>3 DEF OpenThread
<1>4. ASSUME NEW a \in Participants, NEW k \in DOMAIN comments,
             Reply(a, k) \/ EditComment(a, k) \/ DeleteComment(a, k) \/ Vote(a, k)
      PROVE  /\ comments'[i].group = comments[i].group
             /\ comments'[i].author = comments[i].author
             /\ comments[i].deleted => comments'[i].deleted
  <2>1. CASE Reply(a, k)
    BY <1>1, <2>1 DEF Reply
  <2>2. CASE EditComment(a, k)
    BY <1>1, <2>2 DEF EditComment, Comment
  <2>3. CASE DeleteComment(a, k)
    BY <1>1, <2>3 DEF DeleteComment, Comment
  <2>4. CASE Vote(a, k)
    BY <1>1, <2>4 DEF Vote, Comment
  <2> QED BY <1>4, <2>1, <2>2, <2>3, <2>4
<1> QED
  BY <1>2, <1>3, <1>4 DEF Next, vars, PackageChanges, AskForCheck, TakeFingerprint, Evaluate,
     FinishCheck, LoadPage, PutConfig, RefuseConfig, ReadRow, CompareRow, WriteRow, CommitConfig, UpdateAccessConfig, UpdateMetadataColumns

\* The visibility of comments without a group, as a function of the row,
\* changes in `configure` alone.
LEMMA VisibilityChanges ==
  ASSUME TypeOK, [Next]_vars, ~overwritten'
  PROVE  \/ /\ config'.feature.mode = config.feature.mode
            /\ config'.feature.ungrouped = config.feature.ungrouped
         \/ \E m \in Managers : CommitConfig(m)
<1>1. CASE UNCHANGED config
  BY <1>1
<1>2. CASE UpdateAccessConfig \/ UpdateMetadataColumns
  BY <1>2, SettingsKeep
<1>3. CASE \E w \in UnlockedWriters : WriteRow(w)
  BY <1>3, WriteKeeps
<1> QED
  BY <1>1, <1>2, <1>3 DEF Next, vars, PackageChanges, AskForCheck, TakeFingerprint, Evaluate,
     FinishCheck, LoadPage, PutConfig, RefuseConfig, ReadRow, CompareRow,
     OpenThread, Reply, EditComment, DeleteComment, Vote

LEMMA StepHides ==
  ASSUME TypeOK, [Next]_vars, ~overwritten', NEW i \in DOMAIN comments, NEW a \in Participants,
         comments[i].group = None, ~Sees(config, comments, a, i), Sees(config, comments, a, i)'
  PROVE  config'.feature.mode = "SHARED" /\ config'.version = config.version + 1
<1>1. /\ comments'[i].group = None
      /\ comments'[i].author = comments[i].author
      /\ comments[i].deleted => comments'[i].deleted
  BY CommentsStay
<1>2. /\ ~comments'[i].deleted /\ ~comments[i].deleted
      /\ a \notin Managers /\ comments[i].author # a
      /\ config.feature.mode # "SHARED"
      /\ ~(config.feature.mode = "GROUP" /\ config.feature.ungrouped = "SHARED")
      /\ \/ config'.feature.mode = "SHARED"
         \/ config'.feature.mode = "GROUP" /\ config'.feature.ungrouped = "SHARED"
  BY <1>1, SeeingUngrouped
<1>3. PICK m \in Managers : CommitConfig(m)
  BY <1>2, VisibilityChanges
<1>4. /\ config'.version = config.version + 1
      /\ config'.feature.ungrouped = UngroupedAfter(config'.feature.mode)
  BY <1>3, CommitSets
<1> QED BY <1>2, <1>4 DEF UngroupedAfter

\* A comment without a group is exposed by a switch to SHARED and by nothing
\* else.
THEOREM UngroupedAreNotExposed == Spec => UngroupedStayHidden
<1>1. TypeOK /\ [Next]_vars =>
        [\A i \in DOMAIN comments, a \in Participants :
           /\ comments[i].group = None
           /\ ~Sees(config, comments, a, i)
           /\ Sees(config, comments, a, i)'
           => \/ config'.feature.mode = "SHARED" /\ config'.version = config.version + 1
              \/ overwritten']_vars
  BY StepHides
<1> QED BY <1>1, TypeCorrect, PTL DEF Spec, UngroupedStayHidden
=============================================================================
