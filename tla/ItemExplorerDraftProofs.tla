----------------------- MODULE ItemExplorerDraftProofs -----------------------
(***************************************************************************)
(* Proofs about the browser's side of the Item Explorer, for every number  *)
(* of edits and versions: the types, that no edit is lost silently, and    *)
(* that a page at rest shows the draft of its version.                     *)
(*                                                                         *)
(* Most actions put the page through one or several steps of the service   *)
(* (Flushed, Showing, Finished, Reloaded, ...).  Each of these operators   *)
(* has a lemma for the types and one for the edits the user is owed.       *)
(***************************************************************************)
EXTENDS ItemExplorerDraft, TLAPS

-----------------------------------------------------------------------------
(* Types                                                                   *)

Patches ==
  {f \in UNION {[D -> (SUBSET Edits) \cup Edits] : D \in SUBSET {"tags", "props"}} : IsPatch(f)}
Entry == [draft : Content, published : Content]

\* With n versions stored.
CallType(n) ==
  [kind : {"patch", "save", "discard"}, patch : Patches, base : 1..n,
   answer : {"none", "ok", "conflict", "failed"}, version : 0..n]
FetchType(n) == [attempt : 1..3, version : 0..n]
ListType(n) == [owner : Loaders, expected : 0..n, attempt : 1..3, answer : 0..n]
PageType(n) ==
  [shown : Content, listed : BOOLEAN, version : 1..n,
   status : {"CLEAN", "DIRTY", "SAVING", "ERROR"},
   pending : Patches, timer : BOOLEAN, call : CallType(n) \cup {None},
   op : {"none", "save", "discard"}, waits : {"none", "flush", "post", "reload"},
   recovering : BOOLEAN, fetch : [Loaders -> FetchType(n) \cup {None}],
   list : ListType(n) \cup {None}]

AnswersFit(p) ==
  p.call # None /\ p.call.answer = "ok" => p.call.version # 0

TypeInv ==
  /\ record \in Seq(Entry) /\ Version >= 1
  /\ page \in PageType(Version) /\ AnswersFit(page)
  /\ nextEdit \in 1..(MaxEdits + 1)
  /\ owed \in Content /\ hidden \subseteq Edits

LEMMA EmptyPatch == NoPatch \in Patches
  <1>1. NoPatch = [x \in {} |-> {}]
    BY DEF NoPatch
  <1>2. NoPatch \in [{} -> (SUBSET Edits) \cup Edits]
    BY <1>1
  <1> QED
    BY <1>2 DEF Patches, IsPatch

LEMMA OverPatch ==
  ASSUME NEW f \in Patches, NEW g \in Patches
  PROVE  Over(g, f) \in Patches
  <1> DEFINE V == (SUBSET Edits) \cup Edits
             h == Over(g, f)
  <1>1. PICK D \in SUBSET {"tags", "props"} : f \in [D -> V]
    BY DEF Patches
  <1>2. PICK E \in SUBSET {"tags", "props"} : g \in [E -> V]
    BY DEF Patches
  <1>3. h = [x \in E \cup D |-> IF x \in E THEN g[x] ELSE f[x]]
    BY <1>1, <1>2 DEF Over
  <1>4. h \in [E \cup D -> V]
    BY <1>1, <1>2, <1>3
  <1>5. IsPatch(f) /\ IsPatch(g)
    BY DEF Patches
  <1>6. DOMAIN h = E \cup D /\ DOMAIN f = D /\ DOMAIN g = E
    BY <1>1, <1>2, <1>3
  <1>7. ASSUME NEW x \in DOMAIN h
        PROVE  (h[x] = g[x] /\ x \in DOMAIN g) \/ (h[x] = f[x] /\ x \in DOMAIN f)
    BY <1>3, <1>6, <1>7
  <1>8. IsPatch(h)
    BY <1>5, <1>6, <1>7 DEF IsPatch
  <1> QED
    BY <1>4, <1>8 DEF Patches

LEMMA UntaggedPatch ==
  ASSUME NEW f \in Patches
  PROVE  Untagged(f) \in Patches
  <1> DEFINE V == (SUBSET Edits) \cup Edits
  <1>1. PICK D \in SUBSET {"tags", "props"} : f \in [D -> V]
    BY DEF Patches
  <1>2. Untagged(f) \in [D \ {"tags"} -> V]
    BY <1>1 DEF Untagged
  <1>3. IsPatch(Untagged(f))
    BY <1>1, <1>2 DEF IsPatch, Untagged, Patches
  <1> QED
    BY <1>2, <1>3 DEF Patches

LEMMA TagsPatch ==
  ASSUME NEW tags \in SUBSET Edits
  PROVE  [tags |-> tags] \in Patches
  <1>1. [tags |-> tags] \in [{"tags"} -> (SUBSET Edits) \cup Edits]
    OBVIOUS
  <1> QED
    BY <1>1 DEF Patches, IsPatch

LEMMA PropsPatch ==
  ASSUME NEW e \in Edits
  PROVE  [props |-> e] \in Patches
  <1>1. [props |-> e] \in [{"props"} -> (SUBSET Edits) \cup Edits]
    OBVIOUS
  <1> QED
    BY <1>1 DEF Patches, IsPatch

LEMMA AppliedPatch ==
  ASSUME NEW f \in Patches, NEW content \in Content
  PROVE  Apply(f, content) \in Content
  <1> DEFINE h == Over(f, content)
  <1>1. PICK D \in SUBSET {"tags", "props"} : f \in [D -> (SUBSET Edits) \cup Edits]
    BY DEF Patches
  <1>2. h = [x \in {"tags", "props"} |-> IF x \in D THEN f[x] ELSE content[x]]
    BY <1>1 DEF Over, Content
  <1>3. IsPatch(f)
    BY DEF Patches
  <1>4. h["tags"] \in SUBSET Edits /\ h["props"] \in 0..MaxEdits
    <2>1. content["tags"] \in SUBSET Edits /\ content["props"] \in 0..MaxEdits
      BY DEF Content
    <2>2. "tags" \in D => f["tags"] \in SUBSET Edits
      BY <1>1, <1>3 DEF IsPatch
    <2>3. "props" \in D => f["props"] \in 0..MaxEdits
      BY <1>1, <1>3, DraftAssumption DEF IsPatch, Edits
    <2> QED
      BY <1>2, <2>1, <2>2, <2>3
  <1>5. h = [tags |-> h["tags"], props |-> h["props"]]
    BY <1>2
  <1> QED
    BY <1>4, <1>5 DEF Apply, Content

(* Steps of the service keep the type of the page, and that an answer which *)
(* says "ok" names a version.                                               *)

Page(n, p) == p \in PageType(n) /\ AnswersFit(p)

LEMMA PageFields ==
  ASSUME NEW n \in Nat, NEW p, Page(n, p)
  PROVE  /\ p.shown \in Content /\ p.listed \in BOOLEAN /\ p.version \in 1..n
         /\ p.status \in {"CLEAN", "DIRTY", "SAVING", "ERROR"}
         /\ p.pending \in Patches /\ p.timer \in BOOLEAN
         /\ p.call \in CallType(n) \cup {None}
         /\ p.op \in {"none", "save", "discard"}
         /\ p.waits \in {"none", "flush", "post", "reload"}
         /\ p.recovering \in BOOLEAN
         /\ p.fetch \in [Loaders -> FetchType(n) \cup {None}]
         /\ p.list \in ListType(n) \cup {None}
  BY DEF Page, PageType

LEMMA SentPage ==
  ASSUME NEW n \in Nat, NEW p, Page(n, p), NEW patch \in Patches,
         NEW kind \in {"patch", "save", "discard"}
  PROVE  Page(n, Sent(p, kind, patch))
  <1> DEFINE call == [kind |-> kind, patch |-> patch, base |-> p.version,
                      answer |-> "none", version |-> 0]
  <1>1. call \in CallType(n)
    BY PageFields DEF CallType
  <1> QED
    BY <1>1 DEF Page, PageType, Sent, AnswersFit

LEMMA FlushedPage ==
  ASSUME NEW n \in Nat, NEW p, Page(n, p)
  PROVE  Page(n, Flushed(p))
  <1>1. Page(n, Sent(p, "patch", p.pending))
    BY SentPage, PageFields
  <1>2. Page(n, SentPatch(p))
    BY <1>1, EmptyPatch DEF Page, PageType, SentPatch, AnswersFit
  <1> QED
    BY <1>2 DEF Flushed

LEMMA DraftTyped ==
  ASSUME record \in Seq(Entry), NEW v \in 1..Version
  PROVE  DraftOf(v) \in Content
  <1>1. v \in DOMAIN record
    BY DEF Version
  <1>2. record[v] \in Entry
    BY <1>1
  <1> QED
    BY <1>2 DEF DraftOf, Entry

LEMMA ShowingPage ==
  ASSUME record \in Seq(Entry), NEW p, Page(Version, p), NEW v \in 1..Version
  PROVE  Page(Version, Showing(p, v))
  <1>1. DraftOf(v) \in Content
    BY DraftTyped
  <1> QED
    BY <1>1 DEF Page, PageType, Showing, AnswersFit

LEMMA FinishedPage ==
  ASSUME NEW n \in Nat, NEW p, Page(n, p)
  PROVE  Page(n, Finished(p))
  <1> DEFINE q == [p EXCEPT !.op = "none", !.waits = "none"]
  <1>1. Page(n, q)
    BY DEF Page, PageType, AnswersFit
  <1>2. Page(n, Flushed(q))
    BY <1>1, FlushedPage
  <1> QED
    BY <1>1, <1>2 DEF Finished

LEMMA ListingPage ==
  ASSUME NEW n \in Nat, NEW p, Page(n, p)
  PROVE  Page(n, Listing(p))
  <1> DEFINE list == [owner |-> "background", expected |-> 0, attempt |-> 1, answer |-> 0]
  <1>1. list \in ListType(n)
    BY DEF ListType, Loaders
  <1> QED
    BY <1>1 DEF Page, PageType, Listing, AnswersFit

LEMMA FetchingPage ==
  ASSUME NEW n \in Nat, NEW p, Page(n, p), NEW o \in Loaders, NEW attempt \in 1..3
  PROVE  Page(n, Fetching(p, o, attempt))
  <1> DEFINE fetch == [attempt |-> attempt, version |-> 0]
  <1>1. fetch \in FetchType(n)
    BY DEF FetchType
  <1>2. [p.fetch EXCEPT ![o] = fetch] \in [Loaders -> FetchType(n) \cup {None}]
    BY <1>1, PageFields
  <1> QED
    BY <1>2 DEF Page, PageType, Fetching, AnswersFit

LEMMA ReloadedPage ==
  ASSUME NEW n \in Nat, NEW p, Page(n, p), NEW loaded \in BOOLEAN
  PROVE  Page(n, Reloaded(p, loaded))
  <1> DEFINE q == IF loaded THEN p
                  ELSE [p EXCEPT !.status = IF p.recovering THEN "ERROR" ELSE @]
             r == [q EXCEPT !.recovering = FALSE]
             s == IF p.recovering /\ loaded /\ ~Discarding(p) THEN Flushed(r) ELSE r
  <1>1. Page(n, q)
    <2>1. [p EXCEPT !.status = IF p.recovering THEN "ERROR" ELSE @] \in PageType(n)
      <3>1. (IF p.recovering THEN "ERROR" ELSE p.status)
              \in {"CLEAN", "DIRTY", "SAVING", "ERROR"}
        BY PageFields
      <3> QED
        BY <3>1 DEF Page, PageType
    <2> QED
      BY <2>1 DEF Page, PageType, AnswersFit
  <1>2. Page(n, r)
    <2> HIDE DEF q
    <2> QED
      BY <1>1 DEF Page, PageType, AnswersFit
  <1>3. Page(n, s)
    BY <1>2, FlushedPage
  <1>4. Page(n, Finished(s))
    BY <1>3, FinishedPage
  <1> QED
    BY <1>3, <1>4 DEF Reloaded

LEMMA PostedPage ==
  ASSUME NEW n \in Nat, NEW p, Page(n, p), p.op # "none"
  PROVE  Page(n, Posted(p))
  <1>1. Page(n, Sent(p, p.op, NoPatch))
    BY SentPage, EmptyPatch, PageFields
  <1> QED
    BY <1>1 DEF Posted, Page, PageType, AnswersFit

LEMMA QueuedPage ==
  ASSUME NEW n \in Nat, NEW p, Page(n, p), NEW patch \in Patches, NEW now \in BOOLEAN
  PROVE  Page(n, Queued(p, patch, now))
  <1> DEFINE q == [p EXCEPT !.pending = Over(patch, @), !.status = "DIRTY", !.timer = ~now]
  <1>1. Over(patch, p.pending) \in Patches
    BY OverPatch, PageFields
  <1>2. Page(n, q)
    BY <1>1 DEF Page, PageType, AnswersFit
  <1>3. Page(n, Flushed(q))
    BY <1>2, FlushedPage
  <1> QED
    BY <1>2, <1>3 DEF Queued

LEMMA SupersededPage ==
  ASSUME NEW n \in Nat, NEW p, Page(n, p)
  PROVE  Page(n, Superseded(p))
  <1>1. Page(n, [p EXCEPT !.list = None])
    BY DEF Page, PageType, AnswersFit
  <1> QED
    BY <1>1, ReloadedPage DEF Superseded

(* Every action keeps the types.                                            *)

LEMMA TypesFields ==
  ASSUME TypeInv
  PROVE  /\ Version \in Nat /\ Version >= 1 /\ Page(Version, page)
         /\ owed.tags \subseteq Edits /\ owed.props \in 0..MaxEdits
         /\ page.shown.tags \subseteq Edits /\ page.shown.props \in 0..MaxEdits
  BY DEF TypeInv, Page, PageType, Content, Version

LEMMA InitTypes == Init => TypeInv
  <1> SUFFICES ASSUME Init PROVE TypeInv
    OBVIOUS
  <1>1. Nothing \in Content
    BY DraftAssumption DEF Nothing, Content
  <1>2. record \in Seq(Entry) /\ Version = 1
    BY <1>1 DEF Init, Version, Entry
  <1>3. page \in PageType(1) /\ AnswersFit(page)
    BY <1>1, EmptyPatch DEF Init, PageType, AnswersFit
  <1> QED
    BY <1>1, <1>2, <1>3, DraftAssumption DEF Init, TypeInv, Page

\* A step that stores no version.
LEMMA KeptTypes ==
  ASSUME TypeInv, record' = record, Page(Version, page'),
         nextEdit' \in 1..(MaxEdits + 1), owed' \in Content, hidden' \subseteq Edits
  PROVE  TypeInv'
  <1>1. Version' = Version
    BY DEF Version
  <1> QED
    BY <1>1 DEF TypeInv, Page

\* What the user does.
LEMMA UserTypes ==
  ASSUME TypeInv, EditTags \/ EditProps \/ TimerFires \/ Save \/ Discard
  PROVE  TypeInv'
  <1> USE TypesFields
  <1>1. CASE EditTags
    <2> DEFINE tags == page.shown.tags \cup {nextEdit}
               p == [page EXCEPT !.shown.tags = tags]
    <2>1. nextEdit \in Edits /\ tags \in SUBSET Edits
      BY <1>1 DEF EditTags, TypeInv, Edits
    <2>2. Page(Version, p)
      BY <2>1 DEF Page, PageType, AnswersFit, Content
    <2>3. Page(Version, Queued(p, [tags |-> tags], FALSE))
      BY <2>1, <2>2, TagsPatch, QueuedPage
    <2>4. page' = Queued(p, [tags |-> tags], FALSE)
      BY <1>1 DEF EditTags
    <2>5. owed' \in Content
      BY <1>1, <2>1 DEF EditTags, TypeInv, Content
    <2>6. nextEdit' \in 1..(MaxEdits + 1)
      BY <1>1, DraftAssumption DEF EditTags, TypeInv
    <2>7. record' = record /\ hidden' \subseteq Edits
      BY <1>1 DEF EditTags, TypeInv
    <2> QED
      BY <2>3, <2>4, <2>5, <2>6, <2>7, KeptTypes
  <1>2. CASE EditProps
    <2> DEFINE p == [page EXCEPT !.shown.props = nextEdit]
    <2>1. nextEdit \in Edits
      BY <1>2 DEF EditProps, TypeInv, Edits
    <2>2. nextEdit \in 0..MaxEdits
      BY <2>1, DraftAssumption DEF Edits
    <2>3. Page(Version, p)
      BY <2>2 DEF Page, PageType, AnswersFit, Content
    <2>4. Page(Version, Queued(p, [props |-> nextEdit], TRUE))
      BY <2>1, <2>3, PropsPatch, QueuedPage
    <2>5. page' = Queued(p, [props |-> nextEdit], TRUE)
      BY <1>2 DEF EditProps
    <2>6. owed' \in Content
      BY <1>2, <2>2 DEF EditProps, TypeInv, Content
    <2>7. nextEdit' \in 1..(MaxEdits + 1)
      BY <1>2, DraftAssumption DEF EditProps, TypeInv
    <2>8. record' = record /\ hidden' \subseteq Edits
      BY <1>2 DEF EditProps, TypeInv
    <2> QED
      BY <2>4, <2>5, <2>6, <2>7, <2>8, KeptTypes
  <1>3. CASE TimerFires
    <2>1. Page(Version, [page EXCEPT !.timer = FALSE])
      BY DEF Page, PageType, AnswersFit
    <2>2. Page(Version, page')
      BY <1>3, <2>1, FlushedPage DEF TimerFires
    <2> QED
      BY <1>3, <2>2 DEF TimerFires, TypeInv, Page, Version
  <1>4. CASE Save
    <2> DEFINE q == [page EXCEPT !.op = "save", !.waits = "flush"]
               p == Flushed(q)
    <2>1. Page(Version, q)
      BY DEF Page, PageType, AnswersFit
    <2>2. Page(Version, p)
      BY <2>1, FlushedPage
    <2>3. p.op = "save"
      BY DEF Flushed, SentPatch, Sent, PageType, Page
    <2>4. Page(Version, Posted(p))
      BY <2>2, <2>3, PostedPage
    <2>5. Page(Version, page')
      BY <1>4, <2>2, <2>4 DEF Save
    <2> QED
      BY <1>4, <2>5 DEF Save, TypeInv, Page, Version
  <1>5. CASE Discard
    <2> DEFINE p == [page EXCEPT !.op = "discard", !.waits = "flush", !.pending = NoPatch,
                                 !.timer = FALSE]
    <2>1. Page(Version, p) /\ p.op = "discard"
      BY EmptyPatch DEF Page, PageType, AnswersFit
    <2>2. Page(Version, Posted(p))
      BY <2>1, PostedPage
    <2>3. Page(Version, page')
      BY <1>5, <2>1, <2>2 DEF Discard
    <2>4. owed' \in Content
      BY <1>5, DraftAssumption DEF Discard, Nothing, Content
    <2> QED
      BY <1>5, <2>3, <2>4 DEF Discard, TypeInv, Page, Version
  <1> QED
    BY <1>1, <1>2, <1>3, <1>4, <1>5

\* What the backend does: a version is stored at most, and none is forgotten.
LEMMA MoreVersions ==
  ASSUME NEW n \in Nat, NEW p, Page(n, p)
  PROVE  Page(n + 1, p)
  <1>1. 1..n \subseteq 1..(n + 1) /\ 0..n \subseteq 0..(n + 1)
    OBVIOUS
  <1>2. CallType(n) \subseteq CallType(n + 1)
    BY <1>1 DEF CallType
  <1>3. FetchType(n) \subseteq FetchType(n + 1)
    BY <1>1 DEF FetchType
  <1>4. ListType(n) \subseteq ListType(n + 1)
    BY <1>1 DEF ListType
  <1>5. [Loaders -> FetchType(n) \cup {None}] \subseteq [Loaders -> FetchType(n + 1) \cup {None}]
    BY <1>3
  <1> QED
    BY <1>1, <1>2, <1>4, <1>5 DEF Page, PageType

LEMMA StoredTypes ==
  ASSUME TypeInv, NEW entry \in Entry, Stored(entry), Page(Version + 1, page'),
         nextEdit' \in 1..(MaxEdits + 1), owed' \in Content, hidden' \subseteq Edits
  PROVE  TypeInv'
  <1>1. record' \in Seq(Entry) /\ Version' = Version + 1
    BY DEF TypeInv, Stored, Version
  <1> QED
    BY <1>1, TypesFields DEF TypeInv, Page

LEMMA EffectTyped ==
  ASSUME TypeInv, page.call # None
  PROVE  Effect(page.call) \in Entry
  <1> DEFINE call == page.call
             last == record[Version]
  <1>1. last \in Entry
    BY TypesFields DEF TypeInv, Version
  <1>2. call.patch \in Patches /\ call.kind \in {"patch", "save", "discard"}
    BY TypesFields, PageFields DEF CallType
  <1>3. Apply(call.patch, last.draft) \in Content
    BY <1>1, <1>2, AppliedPatch DEF Entry
  <1>4. CASE call.kind = "patch"
    <2>1. Effect(call) = [last EXCEPT !.draft = Apply(call.patch, last.draft)]
      BY <1>4 DEF Effect
    <2> QED
      BY <1>1, <1>3, <2>1 DEF Entry
  <1>5. CASE call.kind = "save"
    <2>1. Effect(call) = [last EXCEPT !.published = last.draft]
      BY <1>5 DEF Effect
    <2> QED
      BY <1>1, <2>1 DEF Entry
  <1>6. CASE call.kind = "discard"
    <2>1. Effect(call) = [last EXCEPT !.draft = last.published]
      BY <1>6 DEF Effect
    <2> QED
      BY <1>1, <2>1 DEF Entry
  <1> QED
    BY <1>2, <1>4, <1>5, <1>6

LEMMA AnsweredPage ==
  ASSUME NEW n \in Nat, Page(n, page), page.call # None,
         NEW answer \in {"none", "ok", "conflict", "failed"}, NEW v \in 0..n,
         answer = "ok" => v # 0, Answered(answer, v)
  PROVE  Page(n, page')
  <1> DEFINE call == [page.call EXCEPT !.answer = answer, !.version = v]
  <1>1. page.call \in CallType(n)
    BY PageFields
  <1>2. call \in CallType(n) /\ call.answer = answer /\ call.version = v
    BY <1>1 DEF CallType
  <1>3. page' = [page EXCEPT !.call = call]
    BY <1>1 DEF Answered, Page, PageType, CallType
  <1> HIDE DEF call
  <1>4. page'.call = call
    BY <1>3 DEF Page, PageType
  <1> QED
    BY <1>2, <1>3, <1>4 DEF Page, PageType, AnswersFit

LEMMA BackendTypes ==
  ASSUME TypeInv, Accept \/ Refuse \/ OtherEdits
  PROVE  TypeInv'
  <1> USE TypesFields
  <1>1. CASE Accept
    <2>1. Page(Version + 1, page)
      BY MoreVersions
    <2>2. Page(Version + 1, page')
      <3>1. CASE Answered("ok", Version + 1)
        BY <1>1, <2>1, <3>1, AnsweredPage DEF Accept
      <3>2. CASE Answered("failed", 0)
        BY <1>1, <2>1, <3>2, AnsweredPage DEF Accept
      <3> QED
        BY <1>1, <3>1, <3>2 DEF Accept
    <2>3. Effect(page.call) \in Entry /\ Stored(Effect(page.call))
      BY <1>1, EffectTyped DEF Accept
    <2>4. nextEdit' \in 1..(MaxEdits + 1) /\ owed' \in Content /\ hidden' \subseteq Edits
      BY <1>1 DEF Accept, TypeInv
    <2> QED
      BY <2>2, <2>3, <2>4, StoredTypes
  <1>2. CASE Refuse
    <2>1. Page(Version, page')
      <3>1. CASE Answered("conflict", 0)
        BY <1>2, <3>1, AnsweredPage DEF Refuse
      <3>2. CASE Answered("failed", 0)
        BY <1>2, <3>2, AnsweredPage DEF Refuse
      <3> QED
        BY <1>2, <3>1, <3>2 DEF Refuse
    <2>2. nextEdit' \in 1..(MaxEdits + 1) /\ owed' \in Content /\ hidden' \subseteq Edits
          /\ record' = record
      BY <1>2 DEF Refuse, TypeInv
    <2> QED
      BY <2>1, <2>2, KeptTypes
  <1>3. CASE OtherEdits
    <2> DEFINE last == record[Version]
    <2>1. last \in Entry
      BY DEF TypeInv, Version
    <2>2. Page(Version + 1, page') /\ owed' \in Content /\ hidden' \subseteq Edits
      BY <1>3, MoreVersions DEF OtherEdits, TypeInv
    <2>3. CASE nextEdit <= MaxEdits /\ nextEdit' = nextEdit + 1
      <3>1. nextEdit' \in 1..(MaxEdits + 1) /\ nextEdit \in Edits /\ nextEdit \in 0..MaxEdits
        BY <2>3, DraftAssumption DEF TypeInv, Edits
      <3>2. ASSUME Stored([last EXCEPT !.draft.tags = @ \cup {nextEdit}])
            PROVE  TypeInv'
        <4>1. [last EXCEPT !.draft.tags = @ \cup {nextEdit}] \in Entry
          BY <2>1, <3>1 DEF Entry, Content
        <4> QED
          BY <2>2, <3>1, <3>2, <4>1, StoredTypes
      <3>3. ASSUME Stored([last EXCEPT !.draft.props = nextEdit])
            PROVE  TypeInv'
        <4>1. [last EXCEPT !.draft.props = nextEdit] \in Entry
          BY <2>1, <3>1 DEF Entry, Content
        <4> QED
          BY <2>2, <3>1, <3>3, <4>1, StoredTypes
      <3>4. CASE Stored([last EXCEPT !.published = last.draft])
        <4>1. [last EXCEPT !.published = last.draft] \in Entry
          BY <2>1 DEF Entry
        <4> QED
          BY <2>2, <3>1, <3>4, <4>1, StoredTypes
      <3> QED
        BY <1>3, <2>3, <3>2, <3>3, <3>4 DEF OtherEdits
    <2>4. CASE Stored([last EXCEPT !.published = last.draft]) /\ nextEdit' = nextEdit
      <3>1. [last EXCEPT !.published = last.draft] \in Entry
        BY <2>1 DEF Entry
      <3>2. nextEdit' \in 1..(MaxEdits + 1)
        BY <2>4 DEF TypeInv
      <3> QED
        BY <2>2, <2>4, <3>1, <3>2, StoredTypes
    <2> QED
      BY <1>3, <2>3, <2>4 DEF OtherEdits
  <1> QED
    BY <1>1, <1>2, <1>3

\* The answers to patches.
LEMMA PatchAnswerTypes ==
  ASSUME TypeInv, PatchStored \/ PatchConflicts \/ PatchFails
  PROVE  TypeInv'
  <1> USE TypesFields
  <1> DEFINE call == page.call
  <1>1. call \in CallType(Version) /\ call.patch \in Patches
    BY PageFields DEF PatchStored, PatchConflicts, PatchFails, InFlight, CallType
  <1>2. page.pending \in Patches /\ owed \in Content
    BY PageFields DEF TypeInv
  <1>3. record' = record /\ nextEdit' \in 1..(MaxEdits + 1) /\ hidden' \subseteq Edits
    BY DEF PatchStored, PatchConflicts, PatchFails, TypeInv
  <1>4. CASE PatchStored
    <2> DEFINE p == [page EXCEPT !.version = page.call.version, !.call = None]
               q == Showing(p, p.version)
    <2>1. call.version \in 1..Version
      BY <1>1, <1>4 DEF PatchStored, InFlight, CallType, Page, AnswersFit
    <2>2. Page(Version, p) /\ p.version \in 1..Version
      BY <2>1 DEF Page, PageType, AnswersFit
    <2>3. Page(Version, SentPatch(p))
      <3>1. Page(Version, Sent(p, "patch", p.pending))
        BY <2>2, SentPage, PageFields
      <3> QED
        BY <3>1, EmptyPatch DEF Page, PageType, SentPatch, AnswersFit
    <2>4. Page(Version, q)
      BY <2>2, ShowingPage DEF TypeInv
    <2>5. q.op = p.op
      BY <2>2 DEF Showing, Page, PageType
    <2>6. Page(Version, Posted(p)) \/ ~Discarding(p)
      BY <2>2, PostedPage DEF Discarding
    <2>7. Page(Version, Posted(q)) \/ p.op # "save"
      BY <2>4, <2>5, PostedPage
    <2>8. Page(Version, page')
      BY <1>4, <2>3, <2>4, <2>6, <2>7 DEF PatchStored
    <2>9. owed' \in Content
      <3> DEFINE tags == IF "tags" \in DOMAIN call.patch THEN owed.tags \ call.patch.tags
                         ELSE owed.tags
                 props == IF "props" \in DOMAIN call.patch /\ call.patch.props = owed.props
                          THEN 0 ELSE owed.props
      <3>1. tags \in SUBSET Edits /\ props \in 0..MaxEdits
        BY <1>2, DraftAssumption DEF Content
      <3>2. owed' = [tags |-> tags, props |-> props]
        BY <1>4 DEF PatchStored, Owing
      <3> QED
        BY <3>1, <3>2 DEF Content
    <2> QED
      BY <1>3, <2>8, <2>9, KeptTypes
  <1>5. CASE PatchConflicts
    <2> DEFINE p == [page EXCEPT !.call = None, !.status = "ERROR", !.pending = NoPatch,
                                 !.recovering = TRUE]
    <2>1. Page(Version, p)
      BY EmptyPatch DEF Page, PageType, AnswersFit
    <2>2. Page(Version, page')
      <3> HIDE DEF p
      <3>1. page' = Fetching(p, "awaited", 1)
        BY <1>5 DEF PatchConflicts, p
      <3> QED
        BY <2>1, <3>1, FetchingPage DEF Loaders
    <2>3. owed' \in Content
      BY <1>5, DraftAssumption DEF PatchConflicts, Owing, Content
    <2> QED
      BY <1>3, <2>2, <2>3, KeptTypes
  <1>6. CASE PatchFails
    <2> DEFINE tagged == "tags" \in DOMAIN call.patch
               left == IF Discarding(page) THEN NoPatch
                       ELSE IF tagged THEN Over(Untagged(page.pending), Untagged(call.patch))
                       ELSE Over(page.pending, call.patch)
               tags == IF tagged THEN DraftOf(page.version).tags ELSE page.shown.tags
               p == [page EXCEPT !.call = None, !.status = "ERROR", !.pending = left,
                                 !.shown.tags = tags]
    <2>1. left \in Patches
      BY <1>1, <1>2, EmptyPatch, OverPatch, UntaggedPatch
    <2>2. tags \in SUBSET Edits
      <3>1. DraftOf(page.version) \in Content
        BY PageFields, DraftTyped DEF TypeInv
      <3> QED
        BY <3>1 DEF Content
    <2>3. /\ page' = IF Discarding(p) THEN Posted(p)
                     ELSE IF p.op = "save" THEN Finished(p)
                     ELSE p
          /\ owed' = [tags |-> IF tagged THEN {} ELSE owed.tags, props |-> owed.props]
      BY <1>6 DEF PatchFails, Owing
    <2>4. Page(Version, p)
      <3> HIDE DEF left, tags, tagged
      <3> QED
        BY <2>1, <2>2 DEF Page, PageType, AnswersFit, Content
    <2>5. Page(Version, page')
      <3> HIDE DEF p
      <3>1. Page(Version, Posted(p)) \/ ~Discarding(p)
        BY <2>4, PostedPage DEF Discarding
      <3> QED
        BY <2>3, <2>4, <3>1, FinishedPage
    <2>6. owed' \in Content
      BY <1>2, <2>3 DEF Content
    <2> QED
      BY <1>3, <2>5, <2>6, KeptTypes
  <1> QED
    BY <1>4, <1>5, <1>6

\* The answers to publications and discards.
LEMMA OperationAnswerTypes ==
  ASSUME TypeInv, OperationStored \/ OperationConflicts \/ OperationFails
  PROVE  TypeInv'
  <1> USE TypesFields
  <1>1. /\ record' = record /\ nextEdit' \in 1..(MaxEdits + 1)
        /\ owed' \in Content /\ hidden' \subseteq Edits
    BY DEF OperationStored, OperationConflicts, OperationFails, TypeInv
  <1>2. CASE OperationStored
    <2> DEFINE p == [page EXCEPT !.version = page.call.version, !.call = None]
               q == [p EXCEPT !.status = "DIRTY"]
    <2>1. page.call.version \in 1..Version
      BY <1>2, PageFields DEF OperationStored, Operating, CallType, Page, AnswersFit
    <2>2. Page(Version, p) /\ p.version \in 1..Version /\ Page(Version, q)
      BY <2>1 DEF Page, PageType, AnswersFit
    <2>3. page' = IF p.pending # NoPatch THEN Finished(q)
                  ELSE Finished(Listing(Showing(p, p.version)))
      BY <1>2 DEF OperationStored
    <2>4. Page(Version, Listing(Showing(p, p.version)))
      <3> HIDE DEF p
      <3>1. Page(Version, Showing(p, p.version))
        BY <2>2, ShowingPage DEF TypeInv
      <3> QED
        BY <3>1, ListingPage
    <2>5. Page(Version, page')
      <3> HIDE DEF p, q
      <3> QED
        BY <2>2, <2>3, <2>4, FinishedPage
    <2> QED
      BY <1>1, <2>5, KeptTypes
  <1>3. CASE OperationConflicts
    <2> DEFINE p == [page EXCEPT !.call = None, !.status = "ERROR", !.waits = "reload"]
    <2>1. Page(Version, p)
      BY DEF Page, PageType, AnswersFit
    <2>2. page' = Fetching(p, "awaited", 1)
      BY <1>3 DEF OperationConflicts
    <2>3. Page(Version, page')
      <3> HIDE DEF p
      <3> QED
        BY <2>1, <2>2, FetchingPage DEF Loaders
    <2> QED
      BY <1>1, <2>3, KeptTypes
  <1>4. CASE OperationFails
    <2> DEFINE p == [page EXCEPT !.call = None, !.status = "ERROR"]
    <2>1. Page(Version, p)
      BY DEF Page, PageType, AnswersFit
    <2>2. page' = Finished(p)
      BY <1>4 DEF OperationFails
    <2>3. Page(Version, page')
      <3> HIDE DEF p
      <3> QED
        BY <2>1, <2>2, FinishedPage
    <2> QED
      BY <1>1, <2>3, KeptTypes
  <1> QED
    BY <1>2, <1>3, <1>4

\* A load of the list begins.
LEMMA LoadingPage ==
  ASSUME NEW n \in Nat, NEW p, Page(n, p), NEW list \in ListType(n)
  PROVE  Page(n, [p EXCEPT !.list = list])
  BY DEF Page, PageType, AnswersFit

\* A step of a reload changes the page alone, or the tags it hides.
LEMMA LoadKeeps ==
  ASSUME TypeInv, Load
  PROVE  record' = record /\ nextEdit' = nextEdit /\ owed' = owed
  BY DEF Load, FetchRead, FetchArrives, FetchFails, ListRead, ListArrives, ListMismatches,
         ListFails

LEMMA FetchTypes ==
  ASSUME TypeInv, NEW o \in Loaders, FetchRead(o) \/ FetchArrives(o) \/ FetchFails(o)
  PROVE  Page(Version, page') /\ hidden' = hidden
  <1> USE TypesFields
  <1> DEFINE fetch == page.fetch[o]
  <1>1. hidden' = hidden
    BY DEF FetchRead, FetchArrives, FetchFails
  <1>2. page.fetch \in [Loaders -> FetchType(Version) \cup {None}]
    BY PageFields
  <1>3. fetch \in FetchType(Version) \cup {None}
    BY <1>2
  <1>4. CASE FetchRead(o)
    <2> DEFINE read == [fetch EXCEPT !.version = Version]
               fetches == [page.fetch EXCEPT ![o] = read]
    <2>1. read \in FetchType(Version)
      BY <1>3, <1>4 DEF FetchRead, FetchType
    <2>2. fetches \in [Loaders -> FetchType(Version) \cup {None}]
      BY <1>2, <2>1
    <2>3. page' = [page EXCEPT !.fetch = fetches]
      BY <1>2, <1>4 DEF FetchRead
    <2> HIDE DEF fetches
    <2>4. Page(Version, page')
      BY <2>2, <2>3 DEF Page, PageType, AnswersFit
    <2> QED
      BY <1>1, <2>4
  <1>5. CASE FetchArrives(o)
    <2> DEFINE q == Superseded(page)
               p == [q EXCEPT !.fetch[o] = None]
               list == [owner |-> o, expected |-> fetch.version, attempt |-> fetch.attempt,
                        answer |-> 0]
    <2>1. Page(Version, q)
      BY SupersededPage
    <2>2. Page(Version, p)
      <3> HIDE DEF q
      <3>1. q.fetch \in [Loaders -> FetchType(Version) \cup {None}]
        BY <2>1, PageFields
      <3>2. [q.fetch EXCEPT ![o] = None] \in [Loaders -> FetchType(Version) \cup {None}]
        BY <3>1
      <3> QED
        BY <2>1, <3>2 DEF Page, PageType, AnswersFit
    <2>3. list \in ListType(Version)
      BY <1>3, <1>5 DEF FetchArrives, FetchType, ListType
    <2>4. page' = [p EXCEPT !.list = list]
      BY <1>5 DEF FetchArrives
    <2>5. Page(Version, page')
      <3> HIDE DEF p, list
      <3> QED
        BY <2>2, <2>3, <2>4, LoadingPage
    <2> QED
      BY <1>1, <2>5
  <1>6. CASE FetchFails(o)
    <2> DEFINE p == [page EXCEPT !.fetch[o] = None, !.status = "ERROR"]
    <2>1. [page.fetch EXCEPT ![o] = None] \in [Loaders -> FetchType(Version) \cup {None}]
      BY <1>2
    <2>2. Page(Version, p)
      BY <2>1 DEF Page, PageType, AnswersFit
    <2>3. page' = IF o = "awaited" THEN Reloaded(p, FALSE) ELSE p
      BY <1>6 DEF FetchFails
    <2>4. Page(Version, page')
      <3> HIDE DEF p
      <3> QED
        BY <2>2, <2>3, ReloadedPage
    <2> QED
      BY <1>1, <2>4
  <1> QED
    BY <1>4, <1>5, <1>6

LEMMA ListTypes ==
  ASSUME TypeInv, ListRead \/ ListArrives \/ ListMismatches \/ ListFails
  PROVE  Page(Version, page') /\ hidden' \subseteq Edits
  <1> USE TypesFields
  <1> DEFINE list == page.list
             p == [page EXCEPT !.list = None]
  <1>1. list \in ListType(Version)
    BY PageFields DEF ListRead, ListArrives, ListMismatches, ListFails, ListAnswered
  <1>2. Page(Version, p)
    BY DEF Page, PageType, AnswersFit
  <1>3. hidden \subseteq Edits
    BY DEF TypeInv
  <1>4. CASE ListRead
    <2> DEFINE read == [list EXCEPT !.answer = Version]
    <2>1. read \in ListType(Version)
      BY <1>1 DEF ListType
    <2>2. page' = [page EXCEPT !.list = read]
      BY <1>4 DEF ListRead
    <2>3. Page(Version, page')
      <3> HIDE DEF read
      <3> QED
        BY <2>1, <2>2, LoadingPage
    <2> QED
      BY <1>3, <1>4, <2>3 DEF ListRead
  <1>5. CASE ListArrives
    <2> DEFINE q == [p EXCEPT !.listed = TRUE]
    <2>1. Page(Version, q) /\ q.version \in 1..Version
      BY DEF Page, PageType, AnswersFit
    <2>2. /\ page' = IF list.expected = 0 THEN [q EXCEPT !.shown = DraftOf(q.version)]
                     ELSE IF list.owner = "awaited"
                     THEN Reloaded([Showing(q, list.expected) EXCEPT !.status = "ERROR"], TRUE)
                     ELSE Showing(q, list.expected)
          /\ hidden' = hidden \cup (owed.tags \ DraftOf(list.answer).tags)
      BY <1>5 DEF ListArrives
    <2>3. [q EXCEPT !.shown = DraftOf(q.version)] \in PageType(Version)
          /\ AnswersFit([q EXCEPT !.shown = DraftOf(q.version)])
      <3> HIDE DEF q
      <3>1. DraftOf(q.version) \in Content
        BY <2>1, DraftTyped DEF TypeInv
      <3> QED
        BY <2>1, <3>1 DEF Page, PageType, AnswersFit
    <2>4. ASSUME list.expected # 0
          PROVE  /\ Page(Version, Showing(q, list.expected))
                 /\ Page(Version, Reloaded([Showing(q, list.expected) EXCEPT !.status = "ERROR"],
                                           TRUE))
      <3> HIDE DEF q
      <3>1. list.expected \in 1..Version
        BY <1>1, <2>4 DEF ListType
      <3> DEFINE s == Showing(q, list.expected)
      <3>2. Page(Version, s)
        BY <2>1, <3>1, ShowingPage DEF TypeInv
      <3> HIDE DEF s
      <3>3. Page(Version, [s EXCEPT !.status = "ERROR"])
        BY <3>2 DEF Page, PageType, AnswersFit
      <3>4. Page(Version, Reloaded([s EXCEPT !.status = "ERROR"], TRUE))
        BY <3>3, ReloadedPage
      <3> QED
        BY <3>2, <3>4 DEF s
    <2>5. Page(Version, page')
      <3> HIDE DEF q
      <3>1. CASE list.expected = 0
        BY <2>2, <2>3, <3>1 DEF Page
      <3>2. CASE list.expected # 0 /\ list.owner = "awaited"
        BY <2>2, <2>4, <3>2
      <3>3. CASE list.expected # 0 /\ list.owner # "awaited"
        BY <2>2, <2>4, <3>3
      <3> QED
        BY <3>1, <3>2, <3>3
    <2> QED
      BY <1>3, <2>2, <2>5
  <1>6. CASE ListMismatches
    <2> DEFINE q == [p EXCEPT !.status = "ERROR"]
    <2>1. Page(Version, q)
      BY DEF Page, PageType, AnswersFit
    <2>2. /\ page' = IF list.expected = 0 THEN Fetching(p, list.owner, 1)
                     ELSE IF list.attempt < 3 THEN Fetching(p, list.owner, list.attempt + 1)
                     ELSE IF list.owner = "awaited" THEN Reloaded(q, FALSE)
                     ELSE q
          /\ hidden' = hidden
      BY <1>6 DEF ListMismatches
    <2>3. list.owner \in Loaders /\ (list.attempt < 3 => list.attempt + 1 \in 1..3)
      BY <1>1 DEF ListType
    <2>4. Page(Version, page')
      <3> HIDE DEF p, q
      <3>1. Page(Version, Fetching(p, list.owner, 1))
        BY <1>2, <2>3, FetchingPage
      <3>2. list.attempt < 3 => Page(Version, Fetching(p, list.owner, list.attempt + 1))
        BY <1>2, <2>3, FetchingPage
      <3>3. Page(Version, Reloaded(q, FALSE))
        BY <2>1, ReloadedPage
      <3> QED
        BY <2>1, <2>2, <3>1, <3>2, <3>3
    <2> QED
      BY <1>3, <2>2, <2>4
  <1>7. CASE ListFails
    <2> DEFINE q == [p EXCEPT !.listed = FALSE]
    <2>1. Page(Version, q)
      BY DEF Page, PageType, AnswersFit
    <2>2. /\ page' = IF list.owner = "awaited" THEN Reloaded(q, FALSE) ELSE q
          /\ hidden' = hidden
      BY <1>7 DEF ListFails
    <2>3. Page(Version, page')
      <3> HIDE DEF q
      <3> QED
        BY <2>1, <2>2, ReloadedPage
    <2> QED
      BY <1>3, <2>2, <2>3
  <1> QED
    BY <1>4, <1>5, <1>6, <1>7

LEMMA LoadTypes ==
  ASSUME TypeInv, Load
  PROVE  TypeInv'
  <1>1. Page(Version, page') /\ hidden' \subseteq Edits
    <2>1. ASSUME NEW o \in Loaders, FetchRead(o) \/ FetchArrives(o) \/ FetchFails(o)
          PROVE  Page(Version, page') /\ hidden' \subseteq Edits
      BY <2>1, FetchTypes DEF TypeInv
    <2> QED
      BY <2>1, ListTypes DEF Load
  <1>2. record' = record /\ nextEdit' \in 1..(MaxEdits + 1) /\ owed' \in Content
    BY LoadKeeps DEF TypeInv
  <1> QED
    BY <1>1, <1>2, KeptTypes

LEMMA NextTypes == TypeInv /\ [Next]_vars => TypeInv'
  <1> SUFFICES ASSUME TypeInv, [Next]_vars PROVE TypeInv'
    OBVIOUS
  <1>1. CASE UNCHANGED vars
    BY <1>1 DEF vars, TypeInv, Version, AnswersFit
  <1>2. CASE Answer
    BY <1>2, PatchAnswerTypes, OperationAnswerTypes DEF Answer
  <1> QED
    BY <1>1, <1>2, UserTypes, BackendTypes, LoadTypes DEF Next

LEMMA TypesImply == TypeInv => TypeOK
  <1> SUFFICES ASSUME TypeInv PROVE TypeOK
    OBVIOUS
  <1> USE TypesFields
  <1>1. ASSUME NEW v \in DOMAIN record
        PROVE  record[v] \in [draft : Content, published : Content]
    <2>1. v \in 1..Len(record) /\ record \in Seq(Entry)
      BY DEF TypeInv
    <2>2. record[v] \in Entry
      BY <2>1
    <2> QED
      BY <2>2 DEF Entry
  <1>2. DOMAIN record = 1..Version
    BY DEF TypeInv, Version
  <1>3. page.call # None => /\ page.call.kind \in {"patch", "save", "discard"}
                            /\ IsPatch(page.call.patch)
                            /\ page.call.base \in DOMAIN record
                            /\ page.call.answer \in {"none", "ok", "conflict", "failed"}
                            /\ page.call.answer = "ok" => page.call.version \in DOMAIN record
    <2> SUFFICES ASSUME page.call # None
                 PROVE  /\ page.call.kind \in {"patch", "save", "discard"}
                        /\ IsPatch(page.call.patch)
                        /\ page.call.base \in DOMAIN record
                        /\ page.call.answer \in {"none", "ok", "conflict", "failed"}
                        /\ page.call.answer = "ok" => page.call.version \in DOMAIN record
      OBVIOUS
    <2>1. page.call \in CallType(Version)
      BY PageFields
    <2>2. page.call.answer = "ok" => page.call.version # 0
      BY DEF Page, AnswersFit
    <2> QED
      BY <1>2, <2>1, <2>2 DEF CallType, Patches
  <1>4. \A o \in Loaders : page.fetch[o] # None => page.fetch[o] \in Fetch
    <2>1. page.fetch \in [Loaders -> FetchType(Version) \cup {None}]
      BY PageFields
    <2>2. FetchType(Version) \subseteq Fetch
      BY DEF FetchType, Fetch
    <2> QED
      BY <2>1, <2>2
  <1>5. IsPatch(page.pending) /\ page.version \in DOMAIN record
    BY <1>2, PageFields DEF Patches
  <1> QED
    BY <1>1, <1>3, <1>4, <1>5, PageFields DEF TypeOK, TypeInv

\* The page, the record of the backend and the history keep their types, whatever the
\* user, the other editors, the network and the timers do
\* (ItemExplorerDraftService, ItemExplorerFacade).
THEOREM TypeCorrect == Spec => []TypeOK
  <1>1. Init => TypeInv
    BY InitTypes
  <1>2. TypeInv /\ [Next]_vars => TypeInv'
    BY NextTypes
  <1>3. TypeInv => TypeOK
    BY TypesImply
  <1> QED
    BY <1>1, <1>2, <1>3, PTL DEF Spec

-----------------------------------------------------------------------------
(* No edit is lost silently                                                *)

\* The edits the page still has to store: those that wait, and those under way.
TagsOut(p) == Tags(p.pending) \cup (IF InFlight(p) THEN Tags(p.call.patch) ELSE {})
PropsOut(p) == Props(p.pending) \cup (IF InFlight(p) THEN Props(p.call.patch) ELSE {})

\* What is owed is still to be stored, or hidden (tags alone); the tags that are owed are
\* on the page, so the next edit of the tag map sends them again; of the other field
\* the newest edit is the one that waits; and nothing is owed once a draft is discarded.
Owes(p, tags, props, hid) ==
  /\ tags \subseteq TagsOut(p) \cup hid
  /\ tags \subseteq p.shown.tags \cup hid
  /\ props \in PropsOut(p) \cup {0}
  /\ "props" \in DOMAIN p.pending => props \in {p.pending.props, 0}
  /\ Discarding(p) => tags = {} /\ props = 0

OwedInv == Owes(page, owed.tags, owed.props, hidden)

LEMMA PatchesArePatch == Patches \subseteq Patch
  <1> SUFFICES ASSUME NEW f \in Patches PROVE f \in Patch
    OBVIOUS
  <1> DEFINE V == (SUBSET Edits) \cup Edits
  <1>1. PICK D \in SUBSET {"tags", "props"} : f \in [D -> V]
    BY DEF Patches
  <1>2. DOMAIN f = D /\ f = [x \in D |-> f[x]] /\ IsPatch(f)
    BY <1>1 DEF Patches
  <1>3. CASE D = {}
    BY <1>2, <1>3 DEF Patch, NoPatch
  <1>4. CASE D = {"tags"}
    <2>1. f = [tags |-> f["tags"]] /\ f["tags"] \in SUBSET Edits
      BY <1>2, <1>4 DEF IsPatch
    <2> QED
      BY <2>1 DEF Patch
  <1>5. CASE D = {"props"}
    <2>1. f = [props |-> f["props"]] /\ f["props"] \in Edits
      BY <1>2, <1>5 DEF IsPatch
    <2> QED
      BY <2>1 DEF Patch
  <1>6. CASE D = {"tags", "props"}
    <2>1. f = [tags |-> f["tags"], props |-> f["props"]]
      BY <1>2, <1>6
    <2>2. f["tags"] \in SUBSET Edits /\ f["props"] \in Edits
      BY <1>2, <1>6 DEF IsPatch
    <2> QED
      BY <2>1, <2>2 DEF Patch
  <1>7. D = {} \/ D = {"tags"} \/ D = {"props"} \/ D = {"tags", "props"}
    OBVIOUS
  <1> QED
    BY <1>3, <1>4, <1>5, <1>6, <1>7

LEMMA RequestIsNotNone ==
  ASSUME NEW kind \in {"patch", "save", "discard"}, NEW patch \in Patches, NEW base \in Nat
  PROVE  [kind |-> kind, patch |-> patch, base |-> base, answer |-> "none", version |-> 0]
           # None
  BY PatchesArePatch, NoneAssumption DEF Request

LEMMA EmptyOut == Tags(NoPatch) = {} /\ Props(NoPatch) = {} /\ DOMAIN NoPatch = {}
  BY DEF Tags, Props, NoPatch

\* A request that carries no patch replaces one that carried none.
LEMMA SentOwes ==
  ASSUME NEW n \in Nat, NEW p, Page(n, p), ~InFlight(p), NEW kind \in {"save", "discard"},
         NEW tags, NEW props, NEW hid, Owes(p, tags, props, hid)
  PROVE  Owes(Sent(p, kind, NoPatch), tags, props, hid)
  <1> DEFINE s == Sent(p, kind, NoPatch)
  <1>1. s.pending = p.pending /\ s.shown = p.shown /\ s.op = p.op /\ ~InFlight(s)
    BY DEF Sent, Page, PageType, InFlight
  <1> HIDE DEF s
  <1>2. TagsOut(s) = TagsOut(p) /\ PropsOut(s) = PropsOut(p)
    BY <1>1 DEF TagsOut, PropsOut
  <1>3. Discarding(s) <=> Discarding(p)
    BY <1>1 DEF Discarding
  <1> QED
    BY <1>1, <1>2, <1>3 DEF Owes, s

LEMMA PostedOwes ==
  ASSUME NEW n \in Nat, NEW p, Page(n, p), ~InFlight(p), p.op # "none",
         NEW tags, NEW props, NEW hid, Owes(p, tags, props, hid)
  PROVE  Owes(Posted(p), tags, props, hid)
  <1> DEFINE s == Sent(p, p.op, NoPatch)
  <1>1. p.op \in {"save", "discard"}
    BY PageFields
  <1>2. Owes(s, tags, props, hid) /\ Page(n, s)
    BY <1>1, SentOwes, SentPage, EmptyPatch
  <1>3. Posted(p) = [s EXCEPT !.waits = "post"]
    BY DEF Posted
  <1> HIDE DEF s
  <1>4. /\ Posted(p).pending = s.pending /\ Posted(p).shown = s.shown
        /\ Posted(p).op = s.op /\ Posted(p).call = s.call
    BY <1>2, <1>3 DEF Page, PageType
  <1> QED
    BY <1>2, <1>4 DEF Owes, TagsOut, PropsOut, InFlight, Discarding

\* The patch that waited is under way: between them they hold the same edits.
LEMMA SentPatchOwes ==
  ASSUME NEW n \in Nat, NEW p, Page(n, p), ~InFlight(p),
         NEW tags, NEW props, NEW hid, Owes(p, tags, props, hid)
  PROVE  Owes(SentPatch(p), tags, props, hid)
  <1> DEFINE call == [kind |-> "patch", patch |-> p.pending, base |-> p.version,
                      answer |-> "none", version |-> 0]
             s == SentPatch(p)
  <1>1. /\ s.pending = NoPatch /\ s.shown = p.shown /\ s.op = p.op /\ s.call = call
    BY DEF SentPatch, Sent, Page, PageType
  <1>2. call # None
    BY RequestIsNotNone, PageFields
  <1>3. InFlight(s) /\ s.call.patch = p.pending
    BY <1>1, <1>2 DEF InFlight
  <1> HIDE DEF s
  <1>4. TagsOut(p) = Tags(p.pending) /\ PropsOut(p) = Props(p.pending)
    BY DEF TagsOut, PropsOut
  <1>5. TagsOut(s) = Tags(p.pending) /\ PropsOut(s) = Props(p.pending)
    BY <1>1, <1>3, EmptyOut DEF TagsOut, PropsOut
  <1>6. Discarding(s) <=> Discarding(p)
    BY <1>1 DEF Discarding
  <1>7. "props" \notin DOMAIN s.pending
    BY <1>1, EmptyOut
  <1> QED
    BY <1>1, <1>4, <1>5, <1>6, <1>7 DEF Owes, s

\* The other fields do not matter, and an operation may end.
LEMMA SameOwes ==
  ASSUME NEW p, NEW q, NEW tags, NEW props, NEW hid, Owes(p, tags, props, hid),
         q.pending = p.pending, q.call = p.call, q.shown = p.shown,
         Discarding(q) => Discarding(p)
  PROVE  Owes(q, tags, props, hid)
  <1>1. TagsOut(q) = TagsOut(p) /\ PropsOut(q) = PropsOut(p)
    BY DEF TagsOut, PropsOut, InFlight
  <1> QED
    BY <1>1 DEF Owes

LEMMA FlushedOwes ==
  ASSUME NEW n \in Nat, NEW p, Page(n, p),
         NEW tags, NEW props, NEW hid, Owes(p, tags, props, hid)
  PROVE  Owes(Flushed(p), tags, props, hid)
  BY SentPatchOwes DEF Flushed

\* What is shown changes; what is owed is still to be stored.
LEMMA ShowingOwes ==
  ASSUME NEW p, Page(Version, p), record \in Seq(Entry), NEW v \in 1..Version,
         NEW tags, NEW props, NEW hid, Owes(p, tags, props, hid),
         tags \subseteq DraftOf(v).tags \cup hid
  PROVE  Owes(Showing(p, v), tags, props, hid)
  <1> DEFINE s == Showing(p, v)
  <1>1. /\ s.pending = p.pending /\ s.call = p.call /\ s.op = p.op
        /\ s.shown = DraftOf(v)
    BY DEF Showing, Page, PageType
  <1> HIDE DEF s
  <1>2. TagsOut(s) = TagsOut(p) /\ PropsOut(s) = PropsOut(p)
    BY <1>1 DEF TagsOut, PropsOut, InFlight
  <1>3. Discarding(s) <=> Discarding(p)
    BY <1>1 DEF Discarding
  <1> QED
    BY <1>1, <1>2, <1>3 DEF Owes, s

LEMMA FinishedOwes ==
  ASSUME NEW n \in Nat, NEW p, Page(n, p),
         NEW tags, NEW props, NEW hid, Owes(p, tags, props, hid)
  PROVE  Owes(Finished(p), tags, props, hid)
  <1> DEFINE q == [p EXCEPT !.op = "none", !.waits = "none"]
  <1>1. Page(n, q)
    BY DEF Page, PageType, AnswersFit
  <1>2. q.pending = p.pending /\ q.call = p.call /\ q.shown = p.shown /\ ~Discarding(q)
    BY DEF Page, PageType, Discarding
  <1>3. Finished(p) = Flushed(q) \/ Finished(p) = q
    BY DEF Finished
  <1> HIDE DEF q
  <1>4. Owes(q, tags, props, hid)
    BY <1>2, SameOwes
  <1>5. Owes(Flushed(q), tags, props, hid)
    BY <1>1, <1>4, FlushedOwes
  <1> QED
    BY <1>3, <1>4, <1>5

LEMMA ReloadedOwes ==
  ASSUME NEW n \in Nat, NEW p, Page(n, p), NEW loaded \in BOOLEAN,
         NEW tags, NEW props, NEW hid, Owes(p, tags, props, hid)
  PROVE  Owes(Reloaded(p, loaded), tags, props, hid)
  <1> DEFINE status == IF p.recovering THEN "ERROR" ELSE p.status
             q == IF loaded THEN p ELSE [p EXCEPT !.status = status]
             r == [q EXCEPT !.recovering = FALSE]
             s == IF p.recovering /\ loaded /\ ~Discarding(p) THEN Flushed(r) ELSE r
  <1>1. status \in {"CLEAN", "DIRTY", "SAVING", "ERROR"}
    BY PageFields
  <1>2. Page(n, [p EXCEPT !.status = status])
    <2> HIDE DEF status
    <2> QED
      BY <1>1 DEF Page, PageType, AnswersFit
  <1>3. Page(n, q) /\ q.pending = p.pending /\ q.call = p.call /\ q.shown = p.shown
        /\ q.op = p.op
    BY <1>2 DEF Page, PageType
  <1>4. Page(n, r) /\ r.pending = p.pending /\ r.call = p.call /\ r.shown = p.shown
        /\ r.op = p.op
    <2> HIDE DEF q
    <2> QED
      BY <1>3 DEF Page, PageType, AnswersFit
  <1>5. Reloaded(p, loaded) = IF p.op = "none" THEN s ELSE Finished(s)
    BY DEF Reloaded
  <1> HIDE DEF r
  <1>6. Owes(r, tags, props, hid)
    BY <1>4, SameOwes DEF Discarding
  <1>7. Page(n, s) /\ Owes(s, tags, props, hid)
    BY <1>4, <1>6, FlushedPage, FlushedOwes
  <1> HIDE DEF s
  <1>8. Owes(Finished(s), tags, props, hid)
    BY <1>7, FinishedOwes
  <1> QED
    BY <1>5, <1>7, <1>8

LEMMA SupersededOwes ==
  ASSUME NEW n \in Nat, NEW p, Page(n, p),
         NEW tags, NEW props, NEW hid, Owes(p, tags, props, hid)
  PROVE  Owes(Superseded(p), tags, props, hid)
  <1> DEFINE q == [p EXCEPT !.list = None]
  <1>1. Page(n, q) /\ q.pending = p.pending /\ q.call = p.call /\ q.shown = p.shown
        /\ q.op = p.op
    BY DEF Page, PageType, AnswersFit
  <1>2. Superseded(p) = p \/ Superseded(p) = Reloaded(q, FALSE)
    BY DEF Superseded
  <1> HIDE DEF q
  <1>3. Owes(q, tags, props, hid)
    BY <1>1, SameOwes DEF Discarding
  <1>4. Owes(Reloaded(q, FALSE), tags, props, hid)
    BY <1>1, <1>3, ReloadedOwes
  <1> QED
    BY <1>2, <1>4

LEMMA ShownMoreOwes ==
  ASSUME NEW p, NEW tags, NEW props, NEW hid, NEW more, Owes(p, tags, props, hid)
  PROVE  Owes(p, tags, props, hid \cup more)
  BY DEF Owes

LEMMA OverTags ==
  ASSUME NEW f \in Patches, NEW tags
  PROVE  LET g == Over([tags |-> tags], f)
         IN  /\ Tags(g) = tags /\ Props(g) = Props(f)
             /\ "props" \in DOMAIN g => "props" \in DOMAIN f /\ g.props = f.props
  <1> DEFINE g == Over([tags |-> tags], f)
  <1>1. DOMAIN g = {"tags"} \cup DOMAIN f /\ g["tags"] = tags
    BY DEF Over
  <1>2. "props" \in DOMAIN f => g["props"] = f["props"]
    BY DEF Over
  <1> HIDE DEF g
  <1>3. Tags(g) = tags /\ Props(g) = Props(f)
    BY <1>1, <1>2 DEF Tags, Props
  <1> QED
    BY <1>1, <1>2, <1>3 DEF g

LEMMA OverProps ==
  ASSUME NEW f \in Patches, NEW e
  PROVE  LET g == Over([props |-> e], f)
         IN  Tags(g) = Tags(f) /\ Props(g) = {e} /\ g.props = e
  <1> DEFINE g == Over([props |-> e], f)
  <1>1. DOMAIN g = {"props"} \cup DOMAIN f /\ g["props"] = e
    BY DEF Over
  <1>2. "tags" \in DOMAIN f => g["tags"] = f["tags"]
    BY DEF Over
  <1> HIDE DEF g
  <1>3. Tags(g) = Tags(f) /\ Props(g) = {e}
    BY <1>1, <1>2 DEF Tags, Props
  <1> QED
    BY <1>1, <1>3 DEF g

\* What the user does.
LEMMA UserOwes ==
  ASSUME TypeInv, OwedInv, EditTags \/ EditProps \/ TimerFires \/ Save \/ Discard
  PROVE  OwedInv'
  <1> USE TypesFields
  <1> DEFINE Owed(p) == Owes(p, owed.tags, owed.props, hidden)
  <1>1. owed \in Content
    BY DEF TypeInv
  <1>2. CASE EditTags
    <2> DEFINE tags == page.shown.tags \cup {nextEdit}
               pending == Over([tags |-> tags], page.pending)
               p == [page EXCEPT !.shown.tags = tags]
               q == [p EXCEPT !.pending = pending, !.status = "DIRTY", !.timer = TRUE]
    <2>1. page' = q
      BY <1>2 DEF EditTags, Queued
    <2>2. /\ q.pending = pending /\ q.shown.tags = tags /\ q.call = page.call
          /\ q.op = page.op
      <3> HIDE DEF tags, pending
      <3> QED
        BY DEF Page, PageType, Content
    <2>3. /\ Tags(pending) = tags /\ Props(pending) = Props(page.pending)
          /\ "props" \in DOMAIN pending
               => "props" \in DOMAIN page.pending /\ pending.props = page.pending.props
      <3> HIDE DEF tags
      <3> QED
        BY OverTags, PageFields
    <2>4. owed'.tags = owed.tags \cup {nextEdit} /\ owed'.props = owed.props
          /\ hidden' = hidden /\ ~Discarding(page)
      BY <1>1, <1>2 DEF EditTags, Content
    <2> HIDE DEF q, pending
    <2>5. tags \subseteq TagsOut(q)
      BY <2>2, <2>3 DEF TagsOut
    <2>6. PropsOut(q) = PropsOut(page)
      BY <2>2, <2>3 DEF PropsOut, InFlight
    <2>7. Owes(q, owed'.tags, owed'.props, hidden)
      BY <2>2, <2>3, <2>4, <2>5, <2>6 DEF OwedInv, Owes, Discarding
    <2> QED
      BY <2>1, <2>4, <2>7 DEF OwedInv
  <1>3. CASE EditProps
    <2> DEFINE pending == Over([props |-> nextEdit], page.pending)
               p == [page EXCEPT !.shown.props = nextEdit]
               q == [p EXCEPT !.pending = pending, !.status = "DIRTY", !.timer = FALSE]
    <2>1. page' = Flushed(q)
      BY <1>3 DEF EditProps, Queued
    <2>2. /\ q.pending = pending /\ q.shown.tags = page.shown.tags /\ q.call = page.call
          /\ q.op = page.op
      <3> HIDE DEF pending
      <3> QED
        BY DEF Page, PageType, Content
    <2>3. /\ Tags(pending) = Tags(page.pending) /\ Props(pending) = {nextEdit}
          /\ pending.props = nextEdit
      BY OverProps, PageFields
    <2>4. owed'.tags = owed.tags /\ owed'.props = nextEdit
          /\ hidden' = hidden /\ ~Discarding(page)
      BY <1>1, <1>3 DEF EditProps, Content
    <2>5. Page(Version, q)
      <3>1. nextEdit \in Edits /\ nextEdit \in 0..MaxEdits
        BY <1>3, DraftAssumption DEF EditProps, TypeInv, Edits
      <3>2. pending \in Patches
        BY <3>1, OverPatch, PropsPatch, PageFields
      <3> HIDE DEF pending
      <3> QED
        BY <3>1, <3>2 DEF Page, PageType, AnswersFit, Content
    <2> HIDE DEF q, pending
    <2>6. TagsOut(q) = TagsOut(page)
      BY <2>2, <2>3 DEF TagsOut, InFlight
    <2>7. nextEdit \in PropsOut(q)
      BY <2>2, <2>3 DEF PropsOut
    <2>8. Owes(q, owed'.tags, owed'.props, hidden)
      BY <2>2, <2>3, <2>4, <2>6, <2>7 DEF OwedInv, Owes, Discarding
    <2>9. Owes(Flushed(q), owed'.tags, owed'.props, hidden)
      BY <2>5, <2>8, FlushedOwes
    <2> QED
      BY <2>1, <2>4, <2>9 DEF OwedInv
  <1>4. CASE TimerFires
    <2> DEFINE q == [page EXCEPT !.timer = FALSE]
    <2>1. Page(Version, q) /\ q.pending = page.pending /\ q.call = page.call
          /\ q.shown = page.shown /\ q.op = page.op
      BY DEF Page, PageType, AnswersFit
    <2>2. page' = Flushed(q) /\ owed' = owed /\ hidden' = hidden
      BY <1>4 DEF TimerFires
    <2> HIDE DEF q
    <2>3. Owed(q)
      BY <2>1, SameOwes DEF Discarding, OwedInv
    <2>4. Owed(Flushed(q))
      BY <2>1, <2>3, FlushedOwes
    <2> QED
      BY <2>2, <2>4 DEF OwedInv
  <1>5. CASE Save
    <2> DEFINE q == [page EXCEPT !.op = "save", !.waits = "flush"]
               p == Flushed(q)
    <2>1. Page(Version, q) /\ q.pending = page.pending /\ q.call = page.call
          /\ q.shown = page.shown /\ q.op = "save"
      BY DEF Page, PageType, AnswersFit
    <2>2. /\ page' = IF InFlight(p) \/ p.recovering THEN p ELSE Posted(p)
          /\ owed' = owed /\ hidden' = hidden
      BY <1>5 DEF Save
    <2> HIDE DEF q
    <2>3. Owed(q)
      BY <2>1, SameOwes DEF Discarding, OwedInv
    <2>4. Page(Version, p) /\ Owed(p)
      BY <2>1, <2>3, FlushedPage, FlushedOwes
    <2>5. p.op = "save"
      BY <2>1 DEF Flushed, SentPatch, Sent, PageType, Page
    <2> HIDE DEF p
    <2>6. InFlight(p) \/ Owed(Posted(p))
      BY <2>4, <2>5, PostedOwes
    <2> QED
      BY <2>2, <2>4, <2>6 DEF OwedInv
  <1>6. CASE Discard
    <2> DEFINE p == [page EXCEPT !.op = "discard", !.waits = "flush", !.pending = NoPatch,
                                 !.timer = FALSE]
    <2>1. Page(Version, p) /\ p.op = "discard" /\ p.pending = NoPatch
      BY EmptyPatch DEF Page, PageType, AnswersFit
    <2>2. /\ page' = IF InFlight(p) \/ p.recovering THEN p ELSE Posted(p)
          /\ owed'.tags = {} /\ owed'.props = 0 /\ hidden' = hidden
      BY <1>6 DEF Discard, Nothing
    <2> HIDE DEF p
    <2>3. Owes(p, {}, 0, hidden)
      BY <2>1, EmptyOut DEF Owes
    <2>4. InFlight(p) \/ Owes(Posted(p), {}, 0, hidden)
      BY <2>1, <2>3, PostedOwes
    <2> QED
      BY <2>2, <2>3, <2>4 DEF OwedInv
  <1> QED
    BY <1>2, <1>3, <1>4, <1>5, <1>6

LEMMA CallsAreRequests ==
  ASSUME NEW n \in Nat, NEW call \in CallType(n)
  PROVE  call # None
  <1>1. 1..n \subseteq Nat /\ 0..n \subseteq Nat
    OBVIOUS
  <1>2. call \in Request
    BY <1>1, PatchesArePatch DEF CallType, Request
  <1> QED
    BY <1>2, NoneAssumption

\* What the backend does leaves the page as it is, but for the answer it gives.
LEMMA AnsweredOwes ==
  ASSUME TypeInv, OwedInv, page.call # None,
         NEW answer \in {"none", "ok", "conflict", "failed"}, NEW v \in 0..(Version + 1),
         Answered(answer, v), owed' = owed, hidden' = hidden
  PROVE  OwedInv'
  <1> USE TypesFields
  <1> DEFINE call == [page.call EXCEPT !.answer = answer, !.version = v]
  <1>1. Page(Version + 1, page) /\ Version + 1 \in Nat
    BY MoreVersions
  <1>2. page.call \in CallType(Version + 1)
    BY <1>1, PageFields
  <1>3. call \in CallType(Version + 1) /\ call.kind = page.call.kind
        /\ call.patch = page.call.patch
    BY <1>2 DEF CallType
  <1>4. page' = [page EXCEPT !.call = call]
    BY <1>2 DEF Answered, Page, PageType, CallType
  <1> HIDE DEF call
  <1>5. page'.call = call /\ page'.pending = page.pending /\ page'.shown = page.shown
        /\ page'.op = page.op
    BY <1>4 DEF Page, PageType
  <1>6. call # None
    BY <1>1, <1>3, CallsAreRequests
  <1>7. InFlight(page') <=> InFlight(page)
    BY <1>3, <1>5, <1>6 DEF InFlight
  <1>8. TagsOut(page') = TagsOut(page) /\ PropsOut(page') = PropsOut(page)
    BY <1>3, <1>5, <1>7 DEF TagsOut, PropsOut
  <1>9. Discarding(page') <=> Discarding(page)
    BY <1>5 DEF Discarding
  <1> QED
    BY <1>5, <1>8, <1>9 DEF OwedInv, Owes

LEMMA BackendOwes ==
  ASSUME TypeInv, OwedInv, Accept \/ Refuse \/ OtherEdits
  PROVE  OwedInv'
  <1> USE TypesFields
  <1>1. CASE Accept
    <2>1. page.call # None /\ owed' = owed /\ hidden' = hidden
          /\ (Answered("ok", Version + 1) \/ Answered("failed", 0))
      BY <1>1 DEF Accept
    <2> QED
      BY <2>1, AnsweredOwes
  <1>2. CASE Refuse
    <2>1. page.call # None /\ owed' = owed /\ hidden' = hidden
          /\ (Answered("conflict", 0) \/ Answered("failed", 0))
      BY <1>2 DEF Refuse
    <2> QED
      BY <2>1, AnsweredOwes
  <1>3. CASE OtherEdits
    BY <1>3 DEF OtherEdits, OwedInv
  <1> QED
    BY <1>1, <1>2, <1>3

\* The answers to patches.
LEMMA PatchStoredOwes ==
  ASSUME TypeInv, OwedInv, PatchStored
  PROVE  OwedInv'
  <1> USE TypesFields
  <1> DEFINE patch == page.call.patch
             tags == IF "tags" \in DOMAIN patch THEN owed.tags \ patch.tags ELSE owed.tags
             props == IF "props" \in DOMAIN patch /\ patch.props = owed.props THEN 0
                      ELSE owed.props
             p == [page EXCEPT !.version = page.call.version, !.call = None]
             q == Showing(p, p.version)
  <1>1. InFlight(page) /\ page.call \in CallType(Version) /\ page.call.version \in 1..Version
    BY PageFields DEF PatchStored, InFlight, CallType, Page, AnswersFit
  <1>2. /\ page' = IF p.pending # NoPatch THEN SentPatch(p)
                   ELSE IF Discarding(p) THEN Posted(p)
                   ELSE IF p.op = "save" THEN Posted(q)
                   ELSE q
        /\ owed'.tags = tags /\ owed'.props = props /\ hidden' = hidden
    BY DEF PatchStored, Owing
  <1>3. /\ Page(Version, p) /\ p.version \in 1..Version /\ ~InFlight(p)
        /\ p.pending = page.pending /\ p.shown = page.shown /\ p.op = page.op
    BY <1>1 DEF Page, PageType, AnswersFit, InFlight
  <1> HIDE DEF p
  <1>4. TagsOut(p) = Tags(page.pending) /\ PropsOut(p) = Props(page.pending)
    BY <1>3 DEF TagsOut, PropsOut
  <1>5. tags \subseteq Tags(page.pending) \cup hidden
    <2>1. owed.tags \subseteq Tags(page.pending) \cup Tags(patch) \cup hidden
      BY <1>1 DEF OwedInv, Owes, TagsOut
    <2> QED
      BY <2>1 DEF Tags
  <1>6. props \in Props(page.pending) \cup {0}
    <2>1. owed.props \in Props(page.pending) \cup Props(patch) \cup {0}
      BY <1>1 DEF OwedInv, Owes, PropsOut
    <2> QED
      BY <2>1 DEF Props
  <1>7. /\ tags \subseteq owed.tags /\ props \in {owed.props, 0}
    OBVIOUS
  <1> HIDE DEF tags, props
  <1>8. Owes(p, tags, props, hidden)
    BY <1>3, <1>4, <1>5, <1>6, <1>7 DEF OwedInv, Owes, Discarding
  <1>9. CASE page.pending # NoPatch
    <2>1. Owes(SentPatch(p), tags, props, hidden)
      BY <1>3, <1>8, SentPatchOwes
    <2> QED
      BY <1>2, <1>3, <1>9, <2>1 DEF OwedInv
  <1>10. CASE page.pending = NoPatch
    <2>1. tags \subseteq hidden
      BY <1>5, <1>10, EmptyOut
    <2>2. Page(Version, q) /\ Owes(q, tags, props, hidden)
      BY <1>3, <1>8, <2>1, ShowingPage, ShowingOwes DEF TypeInv
    <2>3. q.op = p.op /\ q.call = p.call
      BY <1>3 DEF Showing, Page, PageType
    <2> HIDE DEF q
    <2>4. ~InFlight(q)
      BY <1>3, <2>3 DEF InFlight
    <2>5. p.op = "save" => Owes(Posted(q), tags, props, hidden)
      BY <2>2, <2>3, <2>4, PostedOwes
    <2>6. Discarding(p) => Owes(Posted(p), tags, props, hidden)
      BY <1>3, <1>8, PostedOwes DEF Discarding
    <2> QED
      BY <1>2, <1>3, <1>10, <2>2, <2>5, <2>6 DEF OwedInv
  <1> QED
    BY <1>9, <1>10

LEMMA PatchConflictsOwes ==
  ASSUME TypeInv, PatchConflicts
  PROVE  OwedInv'
  <1>1. owed'.tags = {} /\ owed'.props = 0 /\ hidden' = hidden
    BY DEF PatchConflicts, Owing
  <1>2. page'.pending = NoPatch
    <2> DEFINE p == [page EXCEPT !.call = None, !.status = "ERROR", !.pending = NoPatch,
                                 !.recovering = TRUE]
    <2>1. page' = Fetching(p, "awaited", 1)
      BY DEF PatchConflicts
    <2>2. p.pending = NoPatch /\ p \in PageType(Version)
      BY TypesFields, EmptyPatch DEF Page, PageType
    <2> HIDE DEF p
    <2> QED
      BY <2>1, <2>2 DEF Fetching, PageType
  <1> QED
    BY <1>1, <1>2, EmptyOut DEF OwedInv, Owes

\* What waited and what failed are one patch again, the newer field winning.
LEMMA MergedOut ==
  ASSUME NEW f \in Patches, NEW g \in Patches
  PROVE  LET h == Over(f, g)
         IN  /\ "tags" \notin DOMAIN g => Tags(h) = Tags(f)
             /\ "props" \in DOMAIN f => Props(h) = {f.props} /\ h.props = f.props
             /\ "props" \notin DOMAIN f => Props(h) = Props(g)
             /\ "props" \in DOMAIN g /\ "props" \notin DOMAIN f => h.props = g.props
             /\ "props" \in DOMAIN h => "props" \in DOMAIN f \/ "props" \in DOMAIN g
  <1> DEFINE h == Over(f, g)
  <1>1. /\ DOMAIN h = DOMAIN f \cup DOMAIN g
        /\ \A x \in DOMAIN h : h[x] = IF x \in DOMAIN f THEN f[x] ELSE g[x]
    BY DEF Over
  <1> HIDE DEF h
  <1>2. "props" \in DOMAIN f => h["props"] = f["props"]
    BY <1>1
  <1>3. "props" \in DOMAIN g /\ "props" \notin DOMAIN f => h["props"] = g["props"]
    BY <1>1
  <1>4. "tags" \notin DOMAIN g => Tags(h) = Tags(f)
    <2>1. "tags" \in DOMAIN f => h["tags"] = f["tags"]
      BY <1>1
    <2> QED
      BY <1>1, <2>1 DEF Tags
  <1>5. "props" \notin DOMAIN f => Props(h) = Props(g)
    BY <1>1, <1>3 DEF Props
  <1>6. "props" \in DOMAIN f => Props(h) = {f.props}
    BY <1>1, <1>2 DEF Props
  <1> QED
    BY <1>1, <1>2, <1>3, <1>4, <1>5, <1>6 DEF h

LEMMA UntaggedOut ==
  ASSUME NEW f \in Patches
  PROVE  LET g == Untagged(f)
         IN  /\ Props(g) = Props(f) /\ "tags" \notin DOMAIN g
             /\ "props" \in DOMAIN g <=> "props" \in DOMAIN f
             /\ "props" \in DOMAIN f => g.props = f.props
  <1> DEFINE g == Untagged(f)
  <1>1. DOMAIN g = DOMAIN f \ {"tags"}
    BY DEF Untagged
  <1>2. "props" \in DOMAIN f => g["props"] = f["props"]
    BY DEF Untagged
  <1> HIDE DEF g
  <1>3. Props(g) = Props(f)
    BY <1>1, <1>2 DEF Props
  <1> QED
    BY <1>1, <1>2, <1>3 DEF g

LEMMA PatchFailsOwes ==
  ASSUME TypeInv, OwedInv, PatchFails
  PROVE  OwedInv'
  <1> USE TypesFields
  <1> DEFINE patch == page.call.patch
             tagged == "tags" \in DOMAIN patch
             f == IF tagged THEN Untagged(page.pending) ELSE page.pending
             g == IF tagged THEN Untagged(patch) ELSE patch
             left == IF Discarding(page) THEN NoPatch ELSE Over(f, g)
             shown == IF tagged THEN DraftOf(page.version).tags ELSE page.shown.tags
             tags == IF tagged THEN {} ELSE owed.tags
             p == [page EXCEPT !.call = None, !.status = "ERROR", !.pending = left,
                               !.shown.tags = shown]
  <1>1. InFlight(page) /\ patch \in Patches /\ page.pending \in Patches
    BY PageFields DEF PatchFails, InFlight, CallType
  <1>2. /\ page' = IF Discarding(p) THEN Posted(p)
                   ELSE IF p.op = "save" THEN Finished(p)
                   ELSE p
        /\ owed'.tags = tags /\ owed'.props = owed.props /\ hidden' = hidden
    <2>1. left = IF Discarding(page) THEN NoPatch
                 ELSE IF tagged THEN Over(Untagged(page.pending), Untagged(patch))
                 ELSE Over(page.pending, patch)
      OBVIOUS
    <2> HIDE DEF left
    <2> QED
      BY <2>1 DEF PatchFails, Owing
  <1>3. f \in Patches /\ g \in Patches /\ left \in Patches
    BY <1>1, EmptyPatch, OverPatch, UntaggedPatch
  <1>4. shown \in SUBSET Edits
    <2>1. DraftOf(page.version) \in Content
      BY PageFields, DraftTyped DEF TypeInv
    <2> QED
      BY <2>1 DEF Content
  <1>5. /\ Page(Version, p) /\ p.call = None /\ p.pending = left /\ p.op = page.op
        /\ p.shown.tags = shown
    <2> HIDE DEF left, shown, tagged
    <2> QED
      BY <1>3, <1>4 DEF Page, PageType, AnswersFit, Content
  <1> HIDE DEF p
  <1>6. ~InFlight(p) /\ TagsOut(p) = Tags(left) /\ PropsOut(p) = Props(left)
        /\ (Discarding(p) <=> Discarding(page))
    BY <1>5 DEF InFlight, TagsOut, PropsOut, Discarding
  <1>7. owed.props \in Props(left) \cup {0}
        /\ ("props" \in DOMAIN left => owed.props \in {left.props, 0})
    <2>1. CASE Discarding(page)
      BY <2>1, EmptyOut DEF OwedInv, Owes
    <2>2. CASE ~Discarding(page)
      <3>1. owed.props \in Props(page.pending) \cup Props(patch) \cup {0}
            /\ ("props" \in DOMAIN page.pending => owed.props \in {page.pending.props, 0})
        BY <1>1 DEF OwedInv, Owes, PropsOut
      <3>2. /\ Props(f) = Props(page.pending) /\ Props(g) = Props(patch)
            /\ "props" \in DOMAIN f <=> "props" \in DOMAIN page.pending
            /\ "props" \in DOMAIN f => f.props = page.pending.props
        BY <1>1, UntaggedOut
      <3>3. left = Over(f, g)
        BY <2>2
      <3> HIDE DEF f, g, left
      <3>4. CASE "props" \in DOMAIN f
        <4>1. Props(left) = {f.props} /\ left.props = f.props
          BY <1>3, <3>3, <3>4, MergedOut
        <4> QED
          BY <3>1, <3>2, <3>4, <4>1
      <3>5. CASE "props" \notin DOMAIN f
        <4>1. Props(f) = {}
          BY <3>5 DEF Props
        <4>2. Props(left) = Props(g)
          BY <1>3, <3>3, <3>5, MergedOut
        <4>3. owed.props \in Props(left) \cup {0}
          BY <3>1, <3>2, <4>1, <4>2
        <4>4. "props" \in DOMAIN left => Props(left) = {left.props}
          BY DEF Props
        <4> QED
          BY <4>3, <4>4
      <3> QED
        BY <3>4, <3>5
    <2> QED
      BY <2>1, <2>2
  <1>8. tags \subseteq Tags(left) \cup hidden /\ tags \subseteq shown \cup hidden
    <2>1. CASE tagged
      BY <2>1
    <2>2. CASE ~tagged /\ Discarding(page)
      BY <2>2 DEF OwedInv, Owes
    <2>3. CASE ~tagged /\ ~Discarding(page)
      <3>1. Tags(patch) = {}
        BY <2>3 DEF Tags
      <3>2. owed.tags \subseteq Tags(page.pending) \cup hidden
            /\ owed.tags \subseteq page.shown.tags \cup hidden
        BY <1>1, <3>1 DEF OwedInv, Owes, TagsOut
      <3>3. Tags(left) = Tags(page.pending)
        BY <1>1, <2>3, MergedOut
      <3> QED
        BY <2>3, <3>2, <3>3
    <2> QED
      BY <2>1, <2>2, <2>3
  <1>9. Discarding(page) => tags = {} /\ owed.props = 0
    BY DEF OwedInv, Owes
  <1> HIDE DEF left, shown, tags
  <1>10. Owes(p, tags, owed.props, hidden)
    BY <1>5, <1>6, <1>7, <1>8, <1>9 DEF Owes
  <1>11. Owes(Finished(p), tags, owed.props, hidden)
    BY <1>5, <1>10, FinishedOwes
  <1>12. Discarding(p) => Owes(Posted(p), tags, owed.props, hidden)
    BY <1>5, <1>6, <1>10, PostedOwes DEF Discarding
  <1> QED
    BY <1>2, <1>10, <1>11, <1>12 DEF OwedInv

\* The answers to publications and discards.
LEMMA OperationAnswerOwes ==
  ASSUME TypeInv, OwedInv, OperationStored \/ OperationConflicts \/ OperationFails
  PROVE  OwedInv'
  <1> USE TypesFields
  <1> DEFINE Owed(p) == Owes(p, owed.tags, owed.props, hidden)
  <1>1. owed' = owed /\ hidden' = hidden /\ ~InFlight(page)
    BY DEF OperationStored, OperationConflicts, OperationFails, Operating, InFlight
  <1>2. TagsOut(page) = Tags(page.pending) /\ PropsOut(page) = Props(page.pending)
    BY <1>1 DEF TagsOut, PropsOut
  \* Without its call the page owes what it owed.
  <1>3. ASSUME NEW p, p.call = None, p.pending = page.pending, p.shown = page.shown,
               p.op = page.op
        PROVE  Owed(p) /\ ~InFlight(p)
    <2>1. ~InFlight(p) /\ TagsOut(p) = TagsOut(page) /\ PropsOut(p) = PropsOut(page)
      BY <1>2, <1>3 DEF InFlight, TagsOut, PropsOut
    <2>2. Discarding(p) <=> Discarding(page)
      BY <1>3 DEF Discarding
    <2> QED
      BY <1>3, <2>1, <2>2 DEF OwedInv, Owes
  <1>4. CASE OperationStored
    <2> DEFINE p == [page EXCEPT !.version = page.call.version, !.call = None]
               q == [p EXCEPT !.status = "DIRTY"]
               shown == Showing(p, p.version)
               r == Listing(shown)
    <2>1. page.call.version \in 1..Version
      BY <1>4, PageFields DEF OperationStored, Operating, CallType, Page, AnswersFit
    <2>2. /\ Page(Version, p) /\ p.version \in 1..Version /\ p.call = None
          /\ p.pending = page.pending /\ p.shown = page.shown /\ p.op = page.op
      BY <2>1 DEF Page, PageType, AnswersFit
    <2>3. page' = IF p.pending # NoPatch THEN Finished(q) ELSE Finished(r)
      BY <1>4 DEF OperationStored
    <2> HIDE DEF p
    <2>4. /\ Page(Version, q) /\ q.call = None
          /\ q.pending = page.pending /\ q.shown = page.shown /\ q.op = page.op
      BY <2>2 DEF Page, PageType, AnswersFit
    <2>5. Owed(p) /\ Owed(q)
      BY <1>3, <2>2, <2>4
    <2>6. Owed(Finished(q))
      BY <2>4, <2>5, FinishedOwes
    <2>7. CASE page.pending = NoPatch
      <3>1. owed.tags \subseteq hidden
        BY <1>2, <2>7, EmptyOut DEF OwedInv, Owes
      <3>2. Page(Version, shown) /\ Owed(shown)
        BY <2>2, <2>5, <3>1, ShowingPage, ShowingOwes DEF TypeInv
      <3> HIDE DEF shown
      <3>3. r.pending = shown.pending /\ r.call = shown.call /\ r.shown = shown.shown
            /\ r.op = shown.op
        BY <3>2 DEF Listing, Page, PageType
      <3>4. Page(Version, r)
        BY <3>2, ListingPage
      <3> HIDE DEF r
      <3>5. Owed(r)
        BY <3>2, <3>3, SameOwes DEF Discarding
      <3>6. Owed(Finished(r))
        BY <3>4, <3>5, FinishedOwes
      <3> QED
        BY <1>1, <2>2, <2>3, <2>7, <3>6 DEF OwedInv
    <2>8. CASE page.pending # NoPatch
      BY <1>1, <2>2, <2>3, <2>6, <2>8 DEF OwedInv
    <2> QED
      BY <2>7, <2>8
  <1>5. CASE OperationConflicts
    <2> DEFINE p == [page EXCEPT !.call = None, !.status = "ERROR", !.waits = "reload"]
    <2>1. page' = Fetching(p, "awaited", 1)
      BY <1>5 DEF OperationConflicts
    <2>2. Page(Version, p)
      BY DEF Page, PageType, AnswersFit
    <2>3. p.call = None /\ p.pending = page.pending /\ p.shown = page.shown /\ p.op = page.op
      BY DEF Page, PageType
    <2> HIDE DEF p
    <2>4. page'.call = None /\ page'.pending = page.pending /\ page'.shown = page.shown
          /\ page'.op = page.op
      BY <2>1, <2>2, <2>3 DEF Fetching, Page, PageType
    <2> QED
      BY <1>1, <1>3, <2>4 DEF OwedInv
  <1>6. CASE OperationFails
    <2> DEFINE p == [page EXCEPT !.call = None, !.status = "ERROR"]
    <2>1. page' = Finished(p)
      BY <1>6 DEF OperationFails
    <2>2. /\ Page(Version, p) /\ p.call = None /\ p.pending = page.pending
          /\ p.shown = page.shown /\ p.op = page.op
      BY DEF Page, PageType, AnswersFit
    <2> HIDE DEF p
    <2>3. Owed(Finished(p))
      BY <1>3, <2>2, FinishedOwes
    <2> QED
      BY <1>1, <2>1, <2>3 DEF OwedInv
  <1> QED
    BY <1>4, <1>5, <1>6

\* Reloads.
LEMMA FetchOwes ==
  ASSUME TypeInv, OwedInv, NEW o \in Loaders, FetchRead(o) \/ FetchArrives(o) \/ FetchFails(o)
  PROVE  OwedInv'
  <1> USE TypesFields
  <1> DEFINE Owed(p) == Owes(p, owed.tags, owed.props, hidden)
  <1>1. owed' = owed /\ hidden' = hidden
    BY DEF FetchRead, FetchArrives, FetchFails
  <1>2. Owed(page)
    BY DEF OwedInv
  <1>3. CASE FetchRead(o)
    <2>1. page'.pending = page.pending /\ page'.call = page.call /\ page'.shown = page.shown
          /\ page'.op = page.op
      BY <1>3 DEF FetchRead, Page, PageType
    <2> QED
      BY <1>1, <1>2, <2>1, SameOwes DEF Discarding, OwedInv
  <1>4. CASE FetchArrives(o)
    <2> DEFINE q == Superseded(page)
               p == [q EXCEPT !.fetch[o] = None]
    <2>1. PICK list : page' = [p EXCEPT !.list = list]
      BY <1>4 DEF FetchArrives
    <2>2. Page(Version, q) /\ Owed(q)
      BY <1>2, SupersededPage, SupersededOwes
    <2> HIDE DEF q
    <2>3. page'.pending = q.pending /\ page'.call = q.call /\ page'.shown = q.shown
          /\ page'.op = q.op
      BY <2>1, <2>2 DEF Page, PageType
    <2> QED
      BY <1>1, <2>2, <2>3, SameOwes DEF Discarding, OwedInv
  <1>5. CASE FetchFails(o)
    <2> DEFINE p == [page EXCEPT !.fetch[o] = None, !.status = "ERROR"]
    <2>1. page' = IF o = "awaited" THEN Reloaded(p, FALSE) ELSE p
      BY <1>5 DEF FetchFails
    <2>2. [page.fetch EXCEPT ![o] = None] \in [Loaders -> FetchType(Version) \cup {None}]
      BY PageFields
    <2>3. /\ Page(Version, p) /\ p.pending = page.pending /\ p.call = page.call
          /\ p.shown = page.shown /\ p.op = page.op
      BY <2>2 DEF Page, PageType, AnswersFit
    <2> HIDE DEF p
    <2>4. Owed(p)
      BY <1>2, <2>3, SameOwes DEF Discarding
    <2>5. Owed(Reloaded(p, FALSE))
      BY <2>3, <2>4, ReloadedOwes
    <2> QED
      BY <1>1, <2>1, <2>4, <2>5 DEF OwedInv
  <1> QED
    BY <1>3, <1>4, <1>5

LEMMA ListOwes ==
  ASSUME TypeInv, OwedInv, ListRead \/ ListArrives \/ ListMismatches \/ ListFails
  PROVE  OwedInv'
  <1> USE TypesFields
  <1> DEFINE list == page.list
             p == [page EXCEPT !.list = None]
             Owed(q) == Owes(q, owed.tags, owed.props, hidden)
  <1>1. list \in ListType(Version)
    BY PageFields DEF ListRead, ListArrives, ListMismatches, ListFails, ListAnswered
  <1>2. owed' = owed
    BY DEF ListRead, ListArrives, ListMismatches, ListFails
  <1>3. Owed(page)
    BY DEF OwedInv
  <1>4. CASE ListRead
    <2>1. page'.pending = page.pending /\ page'.call = page.call /\ page'.shown = page.shown
          /\ page'.op = page.op /\ hidden' = hidden
      BY <1>4 DEF ListRead, Page, PageType
    <2> QED
      BY <1>2, <1>3, <2>1, SameOwes DEF Discarding, OwedInv
  <1>5. CASE ListArrives
    <2> DEFINE q == [p EXCEPT !.listed = TRUE]
               v == IF list.expected = 0 THEN page.version ELSE list.expected
               more == hidden \cup (owed.tags \ DraftOf(v).tags)
               OwedMore(r) == Owes(r, owed.tags, owed.props, more)
               bare == [q EXCEPT !.shown = DraftOf(q.version)]
               s == Showing(q, v)
               t == [s EXCEPT !.status = "ERROR"]
    <2>1. /\ page' = IF list.expected = 0 THEN bare
                     ELSE IF list.owner = "awaited" THEN Reloaded(t, TRUE)
                     ELSE s
          /\ hidden' = more
      <3>1. list.answer = v
        BY <1>5 DEF ListArrives, Matches
      <3>2. CASE list.expected = 0
        BY <1>5, <3>1, <3>2 DEF ListArrives
      <3>3. CASE list.expected # 0
        BY <1>5, <3>1, <3>3 DEF ListArrives
      <3> QED
        BY <3>2, <3>3
    <2>2. v \in 1..Version
      BY <1>1, PageFields DEF ListType
    <2>3. /\ Page(Version, q) /\ q.pending = page.pending /\ q.call = page.call
          /\ q.shown = page.shown /\ q.op = page.op /\ q.version = page.version
      BY DEF Page, PageType, AnswersFit
    <2> HIDE DEF q
    <2>4. OwedMore(q) /\ owed.tags \subseteq DraftOf(v).tags \cup more
      <3>1. OwedMore(page)
        BY <1>3, ShownMoreOwes
      <3> QED
        BY <2>3, <3>1, SameOwes DEF Discarding
    <2>5. Page(Version, s) /\ OwedMore(s)
      <3> HIDE DEF v, more
      <3> QED
        BY <2>2, <2>3, <2>4, ShowingPage, ShowingOwes DEF TypeInv
    <2>6. CASE list.expected = 0
      <3>1. bare.pending = s.pending /\ bare.call = s.call /\ bare.shown = s.shown
            /\ bare.op = s.op
        BY <2>3, <2>6 DEF Showing, Page, PageType
      <3> HIDE DEF bare, s, more
      <3>2. OwedMore(bare)
        BY <2>5, <3>1, SameOwes DEF Discarding
      <3> QED
        BY <1>2, <2>1, <2>6, <3>2 DEF OwedInv
    <2>7. CASE list.expected # 0
      <3> HIDE DEF s, more
      <3>1. /\ Page(Version, t) /\ t.pending = s.pending /\ t.call = s.call
            /\ t.shown = s.shown /\ t.op = s.op
        BY <2>5 DEF Page, PageType, AnswersFit
      <3> HIDE DEF t
      <3>2. OwedMore(t)
        BY <2>5, <3>1, SameOwes DEF Discarding
      <3>3. OwedMore(Reloaded(t, TRUE))
        BY <3>1, <3>2, ReloadedOwes
      <3> QED
        BY <1>2, <2>1, <2>5, <2>7, <3>3 DEF OwedInv
    <2> QED
      BY <2>6, <2>7
  <1>6. CASE ListMismatches
    <2> DEFINE q == [p EXCEPT !.status = "ERROR"]
               o == list.owner
    <2>1. /\ \/ page' = Fetching(p, o, 1)
             \/ page' = Fetching(p, o, list.attempt + 1)
             \/ page' = Reloaded(q, FALSE)
             \/ page' = q
          /\ hidden' = hidden
      BY <1>6 DEF ListMismatches
    <2>2. /\ Page(Version, p) /\ p.pending = page.pending /\ p.call = page.call
          /\ p.shown = page.shown /\ p.op = page.op
      BY DEF Page, PageType, AnswersFit
    <2>3. /\ Page(Version, q) /\ q.pending = page.pending /\ q.call = page.call
          /\ q.shown = page.shown /\ q.op = page.op
      BY DEF Page, PageType, AnswersFit
    <2> HIDE DEF p, q
    <2>4. Owed(q)
      BY <1>3, <2>3, SameOwes DEF Discarding
    <2>5. Owed(Reloaded(q, FALSE))
      BY <2>3, <2>4, ReloadedOwes
    <2>6. ASSUME NEW attempt, page' = Fetching(p, o, attempt)
          PROVE  Owed(page')
      <3>1. page'.pending = page.pending /\ page'.call = page.call
            /\ page'.shown = page.shown /\ page'.op = page.op
        BY <2>2, <2>6 DEF Fetching, Page, PageType
      <3> QED
        BY <1>3, <3>1, SameOwes DEF Discarding
    <2> QED
      BY <1>2, <2>1, <2>4, <2>5, <2>6 DEF OwedInv
  <1>7. CASE ListFails
    <2> DEFINE q == [p EXCEPT !.listed = FALSE]
    <2>1. /\ page' = IF list.owner = "awaited" THEN Reloaded(q, FALSE) ELSE q
          /\ hidden' = hidden
      BY <1>7 DEF ListFails
    <2>2. /\ Page(Version, q) /\ q.pending = page.pending /\ q.call = page.call
          /\ q.shown = page.shown /\ q.op = page.op
      BY DEF Page, PageType, AnswersFit
    <2> HIDE DEF q
    <2>3. Owed(q)
      BY <1>3, <2>2, SameOwes DEF Discarding
    <2>4. Owed(Reloaded(q, FALSE))
      BY <2>2, <2>3, ReloadedOwes
    <2> QED
      BY <1>2, <2>1, <2>3, <2>4 DEF OwedInv
  <1> QED
    BY <1>4, <1>5, <1>6, <1>7

LEMMA InitOwes == Init => OwedInv
  BY EmptyOut DEF Init, Nothing, OwedInv, Owes, Discarding

LEMMA NextOwes == TypeInv /\ OwedInv /\ [Next]_vars => OwedInv'
  <1> SUFFICES ASSUME TypeInv, OwedInv, [Next]_vars PROVE OwedInv'
    OBVIOUS
  <1>1. CASE UNCHANGED vars
    BY <1>1 DEF vars, OwedInv
  <1>2. CASE Answer
    BY <1>2, PatchStoredOwes, PatchConflictsOwes, PatchFailsOwes, OperationAnswerOwes
    DEF Answer
  <1>3. CASE Load
    BY <1>3, FetchOwes, ListOwes DEF Load
  <1> QED
    BY <1>1, <1>2, <1>3, UserOwes, BackendOwes DEF Next

\* An edit that is neither stored nor reported as lost waits to be sent or is under way,
\* through every mixture of edits, publications, discards, conflicts, failures and reloads
\* (ItemExplorerDraftService).
THEOREM EditsNotLost == Spec => []EditsAreNotLostSilently
  <1>1. Init => TypeInv /\ OwedInv
    BY InitTypes, InitOwes
  <1>2. TypeInv /\ OwedInv /\ [Next]_vars => TypeInv' /\ OwedInv'
    BY NextTypes, NextOwes
  <1>3. OwedInv => EditsAreNotLostSilently
    <2> SUFFICES ASSUME OwedInv PROVE EditsAreNotLostSilently
      OBVIOUS
    <2>1. UNION {Tags(patch) : patch \in Waiting} = TagsOut(page)
      BY DEF Waiting, TagsOut
    <2>2. UNION {Props(patch) : patch \in Waiting} = PropsOut(page)
      BY DEF Waiting, PropsOut
    <2> QED
      BY <2>1, <2>2 DEF OwedInv, Owes, EditsAreNotLostSilently
  <1> QED
    BY <1>1, <1>2, <1>3, PTL DEF Spec

\* A user whom the page lets leave without a question leaves no edit behind
\* (ItemExplorerDraftService.hasPendingDraftChanges).
THEOREM LeavingLosesNothing == Spec => []NothingUnsentWhenLeaving
  <1>1. Init => TypeInv /\ OwedInv
    BY InitTypes, InitOwes
  <1>2. TypeInv /\ OwedInv /\ [Next]_vars => TypeInv' /\ OwedInv'
    BY NextTypes, NextOwes
  <1>3. OwedInv => NothingUnsentWhenLeaving
    <2> SUFFICES ASSUME OwedInv, ~HasPendingDraftChanges(page)
                 PROVE  owed.tags \subseteq hidden /\ owed.props = 0
      BY DEF NothingUnsentWhenLeaving
    <2>1. page.pending = NoPatch /\ ~InFlight(page)
      BY DEF HasPendingDraftChanges
    <2>2. TagsOut(page) = {} /\ PropsOut(page) = {}
      BY <2>1, EmptyOut DEF TagsOut, PropsOut
    <2> QED
      BY <2>2 DEF OwedInv, Owes
  <1> QED
    BY <1>1, <1>2, <1>3, PTL DEF Spec


-----------------------------------------------------------------------------
(* What is shown.  A page shows the draft of its version unless something   *)
(* is waiting, under way, reported as failed, or not listed; or while it    *)
(* recovers from a conflict, which ends with a draft shown or an error.     *)

Settled(p) ==
  \/ p.pending # NoPatch \/ p.call # None \/ p.status = "ERROR" \/ ~p.listed
  \/ p.shown = DraftOf(p.version)
SettledInv == Settled(page) \/ page.recovering

LEMMA SameSettled ==
  ASSUME NEW p, NEW q, Settled(p) \/ q.status = "ERROR",
         q.pending = p.pending, q.call = p.call, q.shown = p.shown, q.listed = p.listed,
         q.version = p.version, q.status = p.status \/ q.status = "ERROR"
  PROVE  Settled(q)
  BY DEF Settled

\* Something is under way.
LEMMA SentSettled ==
  ASSUME NEW n \in Nat, NEW p, Page(n, p), NEW kind \in {"patch", "save", "discard"},
         NEW patch \in Patches
  PROVE  Sent(p, kind, patch).call # None
  <1> DEFINE call == [kind |-> kind, patch |-> patch, base |-> p.version,
                      answer |-> "none", version |-> 0]
  <1>1. call # None
    BY PageFields, RequestIsNotNone
  <1>2. Sent(p, kind, patch).call = call
    BY DEF Sent, Page, PageType
  <1> QED
    BY <1>1, <1>2

LEMMA SentPatchSettled ==
  ASSUME NEW n \in Nat, NEW p, Page(n, p)
  PROVE  Settled(SentPatch(p))
  <1> DEFINE sent == Sent(p, "patch", p.pending)
  <1>1. Page(n, sent) /\ sent.call # None
    BY SentPage, SentSettled, PageFields
  <1> HIDE DEF sent
  <1>2. SentPatch(p).call = sent.call
    <2>1. SentPatch(p) = [sent EXCEPT !.pending = NoPatch, !.timer = FALSE]
      BY DEF SentPatch, sent
    <2> QED
      BY <1>1, <2>1 DEF Page, PageType
  <1> QED
    BY <1>1, <1>2 DEF Settled

LEMMA PostedSettled ==
  ASSUME NEW n \in Nat, NEW p, Page(n, p), p.op # "none"
  PROVE  Settled(Posted(p))
  <1> DEFINE sent == Sent(p, p.op, NoPatch)
  <1>1. p.op \in {"patch", "save", "discard"} /\ NoPatch \in Patches
    BY PageFields, EmptyPatch
  <1>2. Page(n, sent)
    BY <1>1, SentPage
  <1>3. sent.call # None
    BY <1>1, SentSettled
  <1> HIDE DEF sent
  <1>4. Posted(p).call = sent.call
    <2>1. Posted(p) = [sent EXCEPT !.waits = "post"]
      BY DEF Posted, sent
    <2> QED
      BY <1>2, <2>1 DEF Page, PageType
  <1> QED
    BY <1>3, <1>4 DEF Settled

LEMMA FlushedSettled ==
  ASSUME NEW n \in Nat, NEW p, Page(n, p), Settled(p)
  PROVE  Settled(Flushed(p))
  BY SentPatchSettled DEF Flushed

LEMMA ShowingSettled ==
  ASSUME NEW n \in Nat, NEW p, Page(n, p), NEW v
  PROVE  Settled(Showing(p, v))
  BY DEF Settled, Showing, Page, PageType

LEMMA FinishedSettled ==
  ASSUME NEW n \in Nat, NEW p, Page(n, p), Settled(p)
  PROVE  Settled(Finished(p))
  <1> DEFINE q == [p EXCEPT !.op = "none", !.waits = "none"]
  <1>1. Page(n, q)
    BY DEF Page, PageType, AnswersFit
  <1>2. q.pending = p.pending /\ q.call = p.call /\ q.shown = p.shown
        /\ q.listed = p.listed /\ q.version = p.version /\ q.status = p.status
    BY DEF Page, PageType
  <1>3. Finished(p) = Flushed(q) \/ Finished(p) = q
    BY DEF Finished
  <1> HIDE DEF q
  <1>4. Settled(q)
    BY <1>2, SameSettled
  <1> QED
    BY <1>1, <1>3, <1>4, FlushedSettled

\* A reload that ends a recovery has loaded a draft, or the page shows an error.
LEMMA ReloadedSettled ==
  ASSUME NEW n \in Nat, NEW p, Page(n, p), NEW loaded \in BOOLEAN,
         Settled(p) \/ (~loaded /\ p.recovering)
  PROVE  Settled(Reloaded(p, loaded))
  <1> DEFINE status == IF p.recovering THEN "ERROR" ELSE p.status
             q == IF loaded THEN p ELSE [p EXCEPT !.status = status]
             r == [q EXCEPT !.recovering = FALSE]
             s == IF p.recovering /\ loaded /\ ~Discarding(p) THEN Flushed(r) ELSE r
  <1>1. status \in {"CLEAN", "DIRTY", "SAVING", "ERROR"}
    BY PageFields
  <1>2. /\ Page(n, q) /\ q.pending = p.pending /\ q.call = p.call /\ q.shown = p.shown
        /\ q.listed = p.listed /\ q.version = p.version
        /\ q.status = p.status \/ q.status = "ERROR"
        /\ ~loaded /\ p.recovering => q.status = "ERROR"
    <2> DEFINE failed == [p EXCEPT !.status = status]
    <2> HIDE DEF status
    <2>1. /\ Page(n, failed) /\ failed.pending = p.pending /\ failed.call = p.call
          /\ failed.shown = p.shown /\ failed.listed = p.listed
          /\ failed.version = p.version /\ failed.status = status
      BY <1>1 DEF Page, PageType, AnswersFit
    <2>2. status \in {p.status, "ERROR"} /\ (p.recovering => status = "ERROR")
      BY DEF status
    <2> HIDE DEF failed
    <2>3. q = IF loaded THEN p ELSE failed
      BY DEF failed
    <2> QED
      BY <2>1, <2>2, <2>3
  <1> HIDE DEF q
  <1>3. Settled(q)
    BY <1>2, SameSettled DEF Settled
  <1>4. /\ Page(n, r) /\ r.pending = q.pending /\ r.call = q.call /\ r.shown = q.shown
        /\ r.listed = q.listed /\ r.version = q.version /\ r.status = q.status
    BY <1>2 DEF Page, PageType, AnswersFit
  <1>5. Reloaded(p, loaded) = IF p.op = "none" THEN s ELSE Finished(s)
    BY DEF Reloaded, q
  <1> HIDE DEF r
  <1>6. Settled(r)
    BY <1>3, <1>4, SameSettled
  <1>7. Page(n, s) /\ Settled(s)
    BY <1>4, <1>6, FlushedPage, FlushedSettled
  <1> HIDE DEF s
  <1>8. Settled(Finished(s))
    BY <1>7, FinishedSettled
  <1> QED
    BY <1>5, <1>7, <1>8

LEMMA SupersededSettled ==
  ASSUME NEW n \in Nat, NEW p, Page(n, p), Settled(p) \/ p.recovering
  PROVE  Settled(Superseded(p)) \/ Superseded(p).recovering
  <1> DEFINE q == [p EXCEPT !.list = None]
  <1>1. /\ Page(n, q) /\ q.pending = p.pending /\ q.call = p.call /\ q.shown = p.shown
        /\ q.listed = p.listed /\ q.version = p.version /\ q.status = p.status
        /\ q.recovering = p.recovering
    BY DEF Page, PageType, AnswersFit
  <1>2. Superseded(p) = p \/ Superseded(p) = Reloaded(q, FALSE)
    BY DEF Superseded
  <1> HIDE DEF q
  <1>3. Settled(q) \/ q.recovering
    BY <1>1, SameSettled
  <1>4. Settled(Reloaded(q, FALSE))
    BY <1>1, <1>3, ReloadedSettled
  <1> QED
    BY <1>2, <1>4

\* What is queued waits or is sent.
LEMMA QueuedSettled ==
  ASSUME NEW n \in Nat, NEW p, Page(n, p), NEW patch \in Patches, DOMAIN patch # {},
         NEW now \in BOOLEAN
  PROVE  Settled(Queued(p, patch, now))
  <1> DEFINE pending == Over(patch, p.pending)
             q == [p EXCEPT !.pending = pending, !.status = "DIRTY", !.timer = ~now]
  <1>1. pending \in Patches
    BY OverPatch, PageFields
  <1>2. pending # NoPatch
    <2>1. DOMAIN patch \subseteq DOMAIN pending
      BY DEF Over
    <2> QED
      BY <2>1, EmptyOut
  <1>3. Queued(p, patch, now) = IF now THEN Flushed(q) ELSE q
    BY DEF Queued
  <1> HIDE DEF pending
  <1>4. Page(n, q) /\ q.pending = pending
    BY <1>1 DEF Page, PageType, AnswersFit
  <1> HIDE DEF q
  <1>5. Settled(q)
    BY <1>2, <1>4 DEF Settled
  <1> QED
    BY <1>3, <1>4, <1>5, FlushedSettled

(* Every action leaves the page settled, or recovering.                     *)

LEMMA UserSettled ==
  ASSUME TypeInv, SettledInv, EditTags \/ EditProps \/ TimerFires \/ Save \/ Discard
  PROVE  SettledInv'
  <1> USE TypesFields
  <1>1. record' = record
    BY DEF EditTags, EditProps, TimerFires, Save, Discard
  <1>2. ASSUME Settled(page') \/ page'.recovering
        PROVE  SettledInv'
    BY <1>1, <1>2 DEF SettledInv, Settled, DraftOf
  <1>3. CASE EditTags
    <2> DEFINE tags == page.shown.tags \cup {nextEdit}
               p == [page EXCEPT !.shown.tags = tags]
    <2>1. tags \in SUBSET Edits
      BY <1>3 DEF EditTags, TypeInv, Edits
    <2>2. Page(Version, p)
      BY <2>1 DEF Page, PageType, AnswersFit, Content
    <2>3. page' = Queued(p, [tags |-> tags], FALSE)
      BY <1>3 DEF EditTags
    <2> HIDE DEF p
    <2>4. Settled(Queued(p, [tags |-> tags], FALSE))
      BY <2>1, <2>2, TagsPatch, QueuedSettled
    <2> QED
      BY <1>2, <2>3, <2>4
  <1>4. CASE EditProps
    <2> DEFINE p == [page EXCEPT !.shown.props = nextEdit]
    <2>1. nextEdit \in Edits /\ nextEdit \in 0..MaxEdits
      BY <1>4, DraftAssumption DEF EditProps, TypeInv, Edits
    <2>2. Page(Version, p)
      BY <2>1 DEF Page, PageType, AnswersFit, Content
    <2>3. page' = Queued(p, [props |-> nextEdit], TRUE)
      BY <1>4 DEF EditProps
    <2> HIDE DEF p
    <2>4. Settled(Queued(p, [props |-> nextEdit], TRUE))
      BY <2>1, <2>2, PropsPatch, QueuedSettled
    <2> QED
      BY <1>2, <2>3, <2>4
  <1>5. CASE TimerFires
    <2> DEFINE q == [page EXCEPT !.timer = FALSE]
    <2>1. /\ Page(Version, q) /\ q.pending = page.pending /\ q.call = page.call
          /\ q.shown = page.shown /\ q.listed = page.listed /\ q.version = page.version
          /\ q.status = page.status /\ q.recovering = page.recovering
      BY DEF Page, PageType, AnswersFit
    <2>2. page' = Flushed(q)
      BY <1>5 DEF TimerFires
    <2> HIDE DEF q
    <2>3. CASE q.recovering
      BY <1>2, <2>2, <2>3 DEF Flushed
    <2>4. CASE ~q.recovering
      <3>1. Settled(q)
        BY <2>1, <2>4, SameSettled DEF SettledInv
      <3> QED
        BY <1>2, <2>1, <2>2, <3>1, FlushedSettled
    <2> QED
      BY <2>3, <2>4
  <1>6. CASE Save
    <2> DEFINE q == [page EXCEPT !.op = "save", !.waits = "flush"]
               p == Flushed(q)
    <2>1. Page(Version, q) /\ q.op = "save"
      BY DEF Page, PageType, AnswersFit
    <2>2. page' = IF InFlight(p) \/ p.recovering THEN p ELSE Posted(p)
      BY <1>6 DEF Save
    <2> HIDE DEF q
    <2>3. Page(Version, p) /\ p.op = "save"
      BY <2>1, FlushedPage DEF Flushed, SentPatch, Sent, Page, PageType
    <2> HIDE DEF p
    <2>4. InFlight(p) => Settled(p)
      BY DEF InFlight, Settled
    <2>5. Settled(Posted(p))
      BY <2>3, PostedSettled
    <2> QED
      BY <1>2, <2>2, <2>4, <2>5
  <1>7. CASE Discard
    <2> DEFINE p == [page EXCEPT !.op = "discard", !.waits = "flush", !.pending = NoPatch,
                                 !.timer = FALSE]
    <2>1. Page(Version, p) /\ p.op = "discard"
      BY EmptyPatch DEF Page, PageType, AnswersFit
    <2>2. page' = IF InFlight(p) \/ p.recovering THEN p ELSE Posted(p)
      BY <1>7 DEF Discard
    <2> HIDE DEF p
    <2>3. InFlight(p) => Settled(p)
      BY DEF InFlight, Settled
    <2>4. Settled(Posted(p))
      BY <2>1, PostedSettled
    <2> QED
      BY <1>2, <2>2, <2>3, <2>4
  <1> QED
    BY <1>3, <1>4, <1>5, <1>6, <1>7

\* What the backend stores leaves the draft of every earlier version as it was.
LEMMA BackendSettled ==
  ASSUME TypeInv, SettledInv, Accept \/ Refuse \/ OtherEdits
  PROVE  SettledInv'
  <1> USE TypesFields
  <1>1. CASE Accept \/ Refuse
    <2>1. page.call # None
      BY <1>1 DEF Accept, Refuse
    <2>2. PICK answer \in {"ok", "conflict", "failed"} :
               \E v \in 0..(Version + 1) : Answered(answer, v)
      BY <1>1 DEF Accept, Refuse
    <2>3. PICK v \in 0..(Version + 1) : Answered(answer, v)
      BY <2>2
    <2> DEFINE call == [page.call EXCEPT !.answer = answer, !.version = v]
    <2>4. Page(Version + 1, page) /\ Version + 1 \in Nat
      BY MoreVersions
    <2>5. page.call \in CallType(Version + 1)
      BY <2>1, <2>4, PageFields
    <2>6. call \in CallType(Version + 1)
      BY <2>5 DEF CallType
    <2>7. page' = [page EXCEPT !.call = call]
      BY <2>3, <2>5 DEF Answered, Page, PageType, CallType
    <2> HIDE DEF call
    <2>8. page'.call = call
      BY <2>7 DEF Page, PageType
    <2>9. call # None
      BY <2>4, <2>6, CallsAreRequests
    <2> QED
      BY <2>8, <2>9 DEF SettledInv, Settled
  <1>2. CASE OtherEdits
    <2>1. page' = page /\ \E entry : Stored(entry)
      BY <1>2 DEF OtherEdits
    <2>2. DraftOf(page.version)' = DraftOf(page.version)
      <3>1. page.version \in 1..Version
        BY PageFields
      <3>2. DraftOf(page.version)' = record'[page'.version].draft
        BY DEF DraftOf
      <3> QED
        BY <2>1, <3>1, <3>2 DEF TypeInv, Stored, DraftOf, Version
    <2> QED
      BY <2>1, <2>2 DEF SettledInv, Settled
  <1> QED
    BY <1>1, <1>2

LEMMA PatchAnswerSettled ==
  ASSUME TypeInv, PatchStored \/ PatchConflicts \/ PatchFails
  PROVE  SettledInv'
  <1> USE TypesFields
  <1>1. record' = record
    BY DEF PatchStored, PatchConflicts, PatchFails
  <1>2. ASSUME Settled(page')
        PROVE  SettledInv'
    BY <1>1, <1>2 DEF SettledInv, Settled, DraftOf
  <1>3. CASE PatchStored
    <2> DEFINE p == [page EXCEPT !.version = page.call.version, !.call = None]
               q == Showing(p, p.version)
    <2>1. page.call.version \in 1..Version
      BY <1>3, PageFields DEF PatchStored, InFlight, CallType, Page, AnswersFit
    <2>2. page' = IF p.pending # NoPatch THEN SentPatch(p)
                  ELSE IF Discarding(p) THEN Posted(p)
                  ELSE IF p.op = "save" THEN Posted(q)
                  ELSE q
      BY <1>3 DEF PatchStored
    <2>3. Page(Version, p) /\ p.version \in 1..Version
      BY <2>1 DEF Page, PageType, AnswersFit
    <2> HIDE DEF p
    <2>4. Page(Version, q) /\ Settled(q) /\ q.op = p.op
      <3>1. Page(Version, q)
        BY <2>3, ShowingPage DEF TypeInv
      <3>2. Settled(q)
        BY <2>3, ShowingSettled
      <3>3. q.op = p.op
        BY <2>3 DEF Showing, Page, PageType
      <3> QED
        BY <3>1, <3>2, <3>3
    <2> HIDE DEF q
    <2>5. Settled(SentPatch(p))
      BY <2>3, SentPatchSettled
    <2>6. Discarding(p) => Settled(Posted(p))
      BY <2>3, PostedSettled DEF Discarding
    <2>7. p.op = "save" => Settled(Posted(q))
      BY <2>4, PostedSettled
    <2> QED
      BY <1>2, <2>2, <2>4, <2>5, <2>6, <2>7
  <1>4. CASE PatchConflicts
    <2> DEFINE p == [page EXCEPT !.call = None, !.status = "ERROR", !.pending = NoPatch,
                                 !.recovering = TRUE]
    <2>1. page' = Fetching(p, "awaited", 1)
      BY <1>4 DEF PatchConflicts
    <2>2. Page(Version, p) /\ p.status = "ERROR"
      BY EmptyPatch DEF Page, PageType, AnswersFit
    <2> HIDE DEF p
    <2>3. page'.status = "ERROR"
      BY <2>1, <2>2 DEF Fetching, Page, PageType
    <2> QED
      BY <1>2, <2>3 DEF Settled
  <1>5. CASE PatchFails
    <2> DEFINE patch == page.call.patch
               tagged == "tags" \in DOMAIN patch
               left == IF Discarding(page) THEN NoPatch
                       ELSE IF tagged THEN Over(Untagged(page.pending), Untagged(patch))
                       ELSE Over(page.pending, patch)
               tags == IF tagged THEN DraftOf(page.version).tags ELSE page.shown.tags
               p == [page EXCEPT !.call = None, !.status = "ERROR", !.pending = left,
                                 !.shown.tags = tags]
    <2>1. page' = IF Discarding(p) THEN Posted(p)
                  ELSE IF p.op = "save" THEN Finished(p)
                  ELSE p
      BY <1>5 DEF PatchFails
    <2>2. page.call \in CallType(Version) /\ patch \in Patches
      BY <1>5, PageFields DEF PatchFails, InFlight, CallType
    <2>3. left \in Patches
      BY <2>2, PageFields, EmptyPatch, OverPatch, UntaggedPatch
    <2>4. tags \in SUBSET Edits
      BY PageFields, DraftTyped DEF TypeInv, Content
    <2> HIDE DEF left, tags
    <2>5. Page(Version, p) /\ p.status = "ERROR"
      BY <2>3, <2>4 DEF Page, PageType, AnswersFit, Content
    <2> HIDE DEF p
    <2>6. Settled(p)
      BY <2>5 DEF Settled
    <2>7. Settled(Finished(p)) /\ (Discarding(p) => Settled(Posted(p)))
      BY <2>5, <2>6, FinishedSettled, PostedSettled DEF Discarding
    <2> QED
      BY <1>2, <2>1, <2>6, <2>7
  <1> QED
    BY <1>3, <1>4, <1>5

LEMMA OperationAnswerSettled ==
  ASSUME TypeInv, OperationStored \/ OperationConflicts \/ OperationFails
  PROVE  SettledInv'
  <1> USE TypesFields
  <1>1. record' = record
    BY DEF OperationStored, OperationConflicts, OperationFails
  <1>2. ASSUME Settled(page')
        PROVE  SettledInv'
    BY <1>1, <1>2 DEF SettledInv, Settled, DraftOf
  <1>3. CASE OperationStored
    <2> DEFINE p == [page EXCEPT !.version = page.call.version, !.call = None]
               q == [p EXCEPT !.status = "DIRTY"]
               shown == Showing(p, p.version)
               r == Listing(shown)
    <2>1. page.call.version \in 1..Version
      BY <1>3, PageFields DEF OperationStored, Operating, CallType, Page, AnswersFit
    <2>2. Page(Version, p) /\ p.version \in 1..Version
      BY <2>1 DEF Page, PageType, AnswersFit
    <2>3. page' = IF p.pending # NoPatch THEN Finished(q) ELSE Finished(r)
      BY <1>3 DEF OperationStored
    <2> HIDE DEF p
    <2>4. CASE p.pending # NoPatch
      <3>1. Page(Version, q) /\ q.pending = p.pending
        BY <2>2 DEF Page, PageType, AnswersFit
      <3> HIDE DEF q
      <3>2. Settled(Finished(q))
        BY <2>4, <3>1, FinishedSettled DEF Settled
      <3> QED
        BY <1>2, <2>3, <2>4, <3>2
    <2>5. CASE p.pending = NoPatch
      <3>1. Page(Version, shown) /\ Settled(shown)
        BY <2>2, ShowingPage, ShowingSettled DEF TypeInv
      <3> HIDE DEF shown
      <3>2. Page(Version, r)
        BY <3>1, ListingPage
      <3>3. r.pending = shown.pending /\ r.call = shown.call /\ r.shown = shown.shown
            /\ r.listed = shown.listed /\ r.version = shown.version
            /\ r.status = shown.status
        BY <3>1 DEF Listing, Page, PageType
      <3> HIDE DEF r
      <3>4. Settled(Finished(r))
        BY <3>1, <3>2, <3>3, SameSettled, FinishedSettled
      <3> QED
        BY <1>2, <2>3, <2>5, <3>4
    <2> QED
      BY <2>4, <2>5
  <1>4. CASE OperationConflicts
    <2> DEFINE p == [page EXCEPT !.call = None, !.status = "ERROR", !.waits = "reload"]
    <2>1. page' = Fetching(p, "awaited", 1)
      BY <1>4 DEF OperationConflicts
    <2>2. Page(Version, p) /\ p.status = "ERROR"
      BY DEF Page, PageType, AnswersFit
    <2> HIDE DEF p
    <2>3. page'.status = "ERROR"
      BY <2>1, <2>2 DEF Fetching, Page, PageType
    <2> QED
      BY <1>2, <2>3 DEF Settled
  <1>5. CASE OperationFails
    <2> DEFINE p == [page EXCEPT !.call = None, !.status = "ERROR"]
    <2>1. page' = Finished(p)
      BY <1>5 DEF OperationFails
    <2>2. Page(Version, p) /\ p.status = "ERROR"
      BY DEF Page, PageType, AnswersFit
    <2> HIDE DEF p
    <2>3. Settled(Finished(p))
      BY <2>2, FinishedSettled DEF Settled
    <2> QED
      BY <1>2, <2>1, <2>3
  <1> QED
    BY <1>3, <1>4, <1>5

LEMMA FetchSettled ==
  ASSUME TypeInv, SettledInv, NEW o \in Loaders,
         FetchRead(o) \/ FetchArrives(o) \/ FetchFails(o)
  PROVE  SettledInv'
  <1> USE TypesFields
  <1>1. record' = record
    BY DEF FetchRead, FetchArrives, FetchFails
  <1>2. ASSUME Settled(page') \/ page'.recovering
        PROVE  SettledInv'
    BY <1>1, <1>2 DEF SettledInv, Settled, DraftOf
  <1>3. CASE FetchRead(o)
    <2>1. /\ page'.pending = page.pending /\ page'.call = page.call
          /\ page'.shown = page.shown /\ page'.listed = page.listed
          /\ page'.version = page.version /\ page'.status = page.status
          /\ page'.recovering = page.recovering
      BY <1>3 DEF FetchRead, Page, PageType
    <2> QED
      BY <1>2, <2>1, SameSettled DEF SettledInv
  <1>4. CASE FetchArrives(o)
    <2> DEFINE q == Superseded(page)
               p == [q EXCEPT !.fetch[o] = None]
    <2>1. PICK list : page' = [p EXCEPT !.list = list]
      BY <1>4 DEF FetchArrives
    <2>2. Page(Version, q) /\ (Settled(q) \/ q.recovering)
      BY SupersededPage, SupersededSettled DEF SettledInv
    <2> HIDE DEF q
    <2>3. /\ page'.pending = q.pending /\ page'.call = q.call /\ page'.shown = q.shown
          /\ page'.listed = q.listed /\ page'.version = q.version
          /\ page'.status = q.status /\ page'.recovering = q.recovering
      BY <2>1, <2>2 DEF Page, PageType
    <2> QED
      BY <1>2, <2>2, <2>3, SameSettled
  <1>5. CASE FetchFails(o)
    <2> DEFINE p == [page EXCEPT !.fetch[o] = None, !.status = "ERROR"]
    <2>1. page' = IF o = "awaited" THEN Reloaded(p, FALSE) ELSE p
      BY <1>5 DEF FetchFails
    <2>2. [page.fetch EXCEPT ![o] = None] \in [Loaders -> FetchType(Version) \cup {None}]
      BY PageFields
    <2>3. Page(Version, p) /\ p.status = "ERROR"
      BY <2>2 DEF Page, PageType, AnswersFit
    <2> HIDE DEF p
    <2>4. Settled(p) /\ Settled(Reloaded(p, FALSE))
      BY <2>3, ReloadedSettled DEF Settled
    <2> QED
      BY <1>2, <2>1, <2>4
  <1> QED
    BY <1>3, <1>4, <1>5

LEMMA ListSettled ==
  ASSUME TypeInv, SettledInv, ListRead \/ ListArrives \/ ListMismatches \/ ListFails
  PROVE  SettledInv'
  <1> USE TypesFields
  <1> DEFINE list == page.list
             p == [page EXCEPT !.list = None]
  <1>1. list \in ListType(Version)
    BY PageFields DEF ListRead, ListArrives, ListMismatches, ListFails, ListAnswered
  <1>2. record' = record
    BY DEF ListRead, ListArrives, ListMismatches, ListFails
  <1>3. ASSUME Settled(page') \/ page'.recovering
        PROVE  SettledInv'
    BY <1>2, <1>3 DEF SettledInv, Settled, DraftOf
  <1>4. CASE ListRead
    <2>1. /\ page'.pending = page.pending /\ page'.call = page.call
          /\ page'.shown = page.shown /\ page'.listed = page.listed
          /\ page'.version = page.version /\ page'.status = page.status
          /\ page'.recovering = page.recovering
      BY <1>4 DEF ListRead, Page, PageType
    <2> QED
      BY <1>3, <2>1, SameSettled DEF SettledInv
  <1>5. CASE ListArrives
    <2> DEFINE q == [p EXCEPT !.listed = TRUE]
               bare == [q EXCEPT !.shown = DraftOf(q.version)]
               s == Showing(q, list.expected)
               t == [s EXCEPT !.status = "ERROR"]
    <2>1. page' = IF list.expected = 0 THEN bare
                  ELSE IF list.owner = "awaited" THEN Reloaded(t, TRUE)
                  ELSE s
      BY <1>5 DEF ListArrives
    <2>2. Page(Version, q)
      BY DEF Page, PageType, AnswersFit
    <2> HIDE DEF q
    <2>3. Settled(bare)
      BY <2>2 DEF Settled, Page, PageType
    <2>4. CASE list.expected = 0
      BY <1>3, <2>1, <2>3, <2>4
    <2>5. CASE list.expected # 0
      <3>1. list.expected \in 1..Version
        BY <1>1, <2>5 DEF ListType
      <3>2. Page(Version, s) /\ Settled(s)
        BY <2>2, <3>1, ShowingPage, ShowingSettled DEF TypeInv
      <3> HIDE DEF s
      <3>3. Page(Version, t) /\ t.status = "ERROR"
        BY <3>2 DEF Page, PageType, AnswersFit
      <3> HIDE DEF t
      <3>4. Settled(Reloaded(t, TRUE))
        BY <3>3, ReloadedSettled DEF Settled
      <3> QED
        BY <1>3, <2>1, <2>5, <3>2, <3>4
    <2> QED
      BY <2>4, <2>5
  <1>6. CASE ListMismatches
    <2> DEFINE q == [p EXCEPT !.status = "ERROR"]
               o == list.owner
    <2>1. \/ page' = Fetching(p, o, 1)
          \/ page' = Fetching(p, o, list.attempt + 1)
          \/ page' = Reloaded(q, FALSE)
          \/ page' = q
      BY <1>6 DEF ListMismatches
    <2>2. /\ Page(Version, p) /\ p.pending = page.pending /\ p.call = page.call
          /\ p.shown = page.shown /\ p.listed = page.listed /\ p.version = page.version
          /\ p.status = page.status /\ p.recovering = page.recovering
      BY DEF Page, PageType, AnswersFit
    <2>3. Page(Version, q) /\ q.status = "ERROR"
      BY DEF Page, PageType, AnswersFit
    <2> HIDE DEF p, q
    <2>4. Settled(q) /\ Settled(Reloaded(q, FALSE))
      BY <2>3, ReloadedSettled DEF Settled
    <2>5. ASSUME NEW attempt, page' = Fetching(p, o, attempt)
          PROVE  SettledInv'
      <3>1. /\ page'.pending = page.pending /\ page'.call = page.call
            /\ page'.shown = page.shown /\ page'.listed = page.listed
            /\ page'.version = page.version /\ page'.status = page.status
            /\ page'.recovering = page.recovering
        BY <2>2, <2>5 DEF Fetching, Page, PageType
      <3> QED
        BY <1>3, <3>1, SameSettled DEF SettledInv
    <2> QED
      BY <1>3, <2>1, <2>4, <2>5
  <1>7. CASE ListFails
    <2> DEFINE q == [p EXCEPT !.listed = FALSE]
    <2>1. page' = IF list.owner = "awaited" THEN Reloaded(q, FALSE) ELSE q
      BY <1>7 DEF ListFails
    <2>2. Page(Version, q) /\ ~q.listed
      BY DEF Page, PageType, AnswersFit
    <2> HIDE DEF q
    <2>3. Settled(q) /\ Settled(Reloaded(q, FALSE))
      BY <2>2, ReloadedSettled DEF Settled
    <2> QED
      BY <1>3, <2>1, <2>3
  <1> QED
    BY <1>4, <1>5, <1>6, <1>7

LEMMA NextSettled == TypeInv /\ SettledInv /\ [Next]_vars => SettledInv'
  <1> SUFFICES ASSUME TypeInv, SettledInv, [Next]_vars PROVE SettledInv'
    OBVIOUS
  <1>1. CASE UNCHANGED vars
    BY <1>1 DEF vars, SettledInv, Settled, DraftOf
  <1>2. CASE Answer
    BY <1>2, PatchAnswerSettled, OperationAnswerSettled DEF Answer
  <1>3. CASE Load
    BY <1>3, FetchSettled, ListSettled DEF Load
  <1> QED
    BY <1>1, <1>2, <1>3, UserSettled, BackendSettled DEF Next

\* A page at rest, with nothing queued, nothing under way and no error shown, shows the
\* draft of the version it would edit next (acceptEnvelope, finishConflictRecovery and the
\* facade's reloads of state and items).
THEOREM PagesAtRestShowTheDraft == Spec => []ShownIsTheDraft
  <1>1. Init => TypeInv /\ SettledInv
    <2>1. Init => SettledInv
      BY DEF Init, SettledInv, Settled, DraftOf
    <2> QED
      BY <2>1, InitTypes
  <1>2. TypeInv /\ SettledInv /\ [Next]_vars => TypeInv' /\ SettledInv'
    BY NextTypes, NextSettled
  <1>3. SettledInv => ShownIsTheDraft
    BY DEF SettledInv, Settled, ShownIsTheDraft
  <1> QED
    BY <1>1, <1>2, <1>3, PTL DEF Spec

=============================================================================
