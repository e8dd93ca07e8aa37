-------------------------- MODULE ItemCollections --------------------------
(***************************************************************************)
(* The item collections ("Auswahllisten") of one identity.                 *)
(*                                                                         *)
(* The server (item-collections.service.ts, item-collection.store.ts)      *)
(* keeps them in the identity's preference record: every change runs in a  *)
(* transaction that locks the record, but reads the item rows, the shared  *)
(* lists or the source of a copy before it.  Changes of a list name the    *)
(* version they build on.                                                  *)
(*                                                                         *)
(* One page (item-explorer-collections.service.ts) is modelled in detail:  *)
(* it shows a change before it is stored, takes it back when it fails, and *)
(* loads the lists again after a conflict.  Whatever the identity does in  *)
(* other browsers, late requests of earlier sessions included, are the     *)
(* actions called Elsewhere.                                               *)
(*                                                                         *)
(* Left out: names and whether a list is shared (an update only sets the   *)
(* version), the view mode (storing it activates the active list again),   *)
(* the order of rows and their limit, summaries and exports.               *)
(***************************************************************************)
EXTENDS Integers, FiniteSets

CONSTANTS
  Rows,        \* row keys of the Explorer
  MaxLists,    \* MAX_ITEM_COLLECTIONS
  MaxCreated,  \* bound: lists ever created
  MaxVersion,  \* bound: versions of a list
  Loads,       \* bound: requests for all lists that are under way at once
  None

Foreign == 0                 \* the list another identity may share
Ids == 1..MaxCreated         \* own lists, in the order in which they were made
AnyId == Ids \cup {Foreign}
List == [rows : SUBSET Rows, version : 1..MaxVersion]

VARIABLES
  db,         \* collections and activeCollectionId
  created,    \* number of lists made so far
  offer,      \* the rows of the list another identity shares, or None
  catalogue,  \* the rows the files of the package have
  page,       \* the service of the open page, or None without a session
  call,       \* the page's request that changes something (collectionBusy)
  loads,      \* the page's requests for all lists
  blurred     \* history: lists whose version was set after a load had come between

vars == <<db, created, offer, catalogue, page, call, loads, blurred>>

-----------------------------------------------------------------------------
(* The stored state                                                        *)

\* The function f without x.
Drop(f, x) == [y \in DOMAIN f \ {x} |-> f[y]]
\* The function f with x mapped to v.
With(f, x, v) == [y \in DOMAIN f \cup {x} |-> IF y = x THEN v ELSE f[y]]

FirstOf(S) == IF S = {} THEN None ELSE CHOOSE i \in S : \A j \in S : i <= j

\* normalizeState: without an active list the first one is.
Normalised(s) ==
  [s EXCEPT !.active = IF @ = None THEN FirstOf(DOMAIN s.lists) ELSE @]

Created(s, id, rows) ==
  [s EXCEPT !.lists = With(@, id, [rows |-> rows, version |-> 1]),
            !.active = id]
\* Mutant: the content changes under the same version.
RewrittenInPlace(s, id, rows) == [s EXCEPT !.lists[id].rows = rows]
Rewritten(s, id, rows) ==
  [s EXCEPT !.lists[id] = [rows |-> rows, version |-> @.version + 1]]
Deleted(s, id) ==
  LET rest == Drop(s.lists, id)
  IN [lists |-> rest, active |-> IF s.active = id THEN FirstOf(DOMAIN rest) ELSE s.active]
Activated(s, id) == [s EXCEPT !.active = id]

\* resolveViews: own and shared lists; an active list that is gone is replaced.
Payload(s) ==
  LET shown == IF offer = None THEN s.lists
               ELSE With(s.lists, Foreign, [rows |-> offer, version |-> 1])
  IN [lists |-> shown,
      active |-> IF s.active \in DOMAIN shown THEN s.active ELSE FirstOf(DOMAIN s.lists)]

-----------------------------------------------------------------------------
(* The page                                                                *)

NoLoads == [l \in Loads |-> None]
Asked == [stage |-> "asked", state |-> None]
FreshPage ==
  [load |-> "loading", lists |-> [i \in {} |-> None], active |-> None]

Open == page # None
Idle == Open /\ call = None
Bar == Idle /\ page.load = "loaded"
\* The dialog of the active list stays open while the lists are loaded again.
Dialog == Idle /\ page.active # None
Shown == page.lists[page.active]
OwnActive == page.active \in Ids

FreeLoads == {l \in Loads : loads[l] = None}
LoadAgain(free) == [loads EXCEPT ![CHOOSE l \in free : TRUE] = Asked]

\* applyItemCollectionsPayload
Applied(p, answer) ==
  [p EXCEPT !.load = "loaded", !.lists = answer.lists, !.active = answer.active]

Request(op, id, change) ==
  [op |-> op, id |-> id, change |-> change, stage |-> "asked", seen |-> {},
   state |-> None, previous |-> None, between |-> FALSE]

SignIn ==
  /\ ~Open
  /\ page' = FreshPage
  /\ loads' = LoadAgain(Loads)
  /\ UNCHANGED <<db, created, offer, catalogue, call, blurred>>

\* syncItemCollectionSession: what was under way is ignored from now on.
SignOut ==
  /\ Open
  /\ page' = None /\ call' = None /\ loads' = NoLoads /\ blurred' = {}
  /\ UNCHANGED <<db, created, offer, catalogue>>

\* "Erneut laden", which the page offers once something has failed.
Reload ==
  /\ Idle /\ page.load # "loading" /\ FreeLoads # {}
  /\ page' = [page EXCEPT !.load = "loading"]
  /\ loads' = LoadAgain(FreeLoads)
  /\ UNCHANGED <<db, created, offer, catalogue, call, blurred>>

Begin(p, request) ==
  /\ page' = p
  /\ call' = request
  /\ UNCHANGED <<db, created, offer, catalogue, loads, blurred>>

\* persistActiveCollectionRowsMutation and persistActiveCollectionUpdate show
\* the change at once and remember the list as it was.
Changing(p, op, change, list) ==
  [page |-> [p EXCEPT !.lists[p.active] = list],
   call |-> [Request(op, p.active, change) EXCEPT !.previous = p.lists[p.active]]]
Adding(p, r) == Changing(p, "add", r, [p.lists[p.active] EXCEPT !.rows = @ \cup {r}])
Removing(p, r) == Changing(p, "remove", r, [p.lists[p.active] EXCEPT !.rows = @ \ {r}])

BeginChange(c) == Begin(c.page, c.call)

\* A row's checkbox; without an active list one is created first.
Toggle(r) ==
  /\ Bar
  /\ \/ /\ page.active = None
        /\ Begin(page, Request("create", None, r))
     \/ /\ OwnActive
        /\ BeginChange(IF r \in Shown.rows THEN Removing(page, r) ELSE Adding(page, r))

RemoveRow(r) ==
  /\ Dialog /\ OwnActive /\ r \in Shown.rows
  /\ BeginChange(Removing(page, r))

Clear ==
  /\ Bar /\ OwnActive /\ Shown.rows # {}
  /\ BeginChange(Changing(page, "clear", None, [Shown EXCEPT !.rows = {}]))

\* Renaming and sharing.
Update ==
  /\ Dialog /\ OwnActive
  /\ BeginChange(Changing(page, "update", None, Shown))

Create ==
  /\ Bar
  /\ Begin(page, Request("create", None, None))

Copy ==
  /\ Bar \/ Dialog
  /\ page.active = Foreign
  /\ Begin(page, Request("copy", Foreign, None))

Delete ==
  /\ Dialog /\ OwnActive
  /\ Begin(page, Request("delete", page.active, None))

\* Choosing a list, and setCollectionViewMode for the active one.
Activate(id) ==
  /\ Bar /\ id \in DOMAIN page.lists
  /\ Begin(page, Request("activate", id, None))

-----------------------------------------------------------------------------
(* The server                                                              *)

ReadsFirst == {"add", "activate", "copy"}
Versioned == {"add", "remove", "clear", "update"}

\* What a request reads before the record is locked.
Read ==
  /\ call # None /\ call.stage = "asked" /\ call.op \in ReadsFirst
  /\ call' =
       CASE call.op = "add" -> [call EXCEPT !.stage = "read", !.seen = catalogue]
         [] call.op = "activate" -> [call EXCEPT !.stage = "read",
                                       !.seen = IF offer = None THEN {} ELSE {Foreign}]
         [] call.op = "copy" -> IF offer = None THEN [call EXCEPT !.stage = "failed"]
                                ELSE [call EXCEPT !.stage = "read", !.seen = offer]
  /\ UNCHANGED <<db, created, offer, catalogue, page, loads, blurred>>

Reached == call # None /\ call.stage = IF call.op \in ReadsFirst THEN "read" ELSE "asked"

\* mutateState: the transaction has stored s.
Commit(s) ==
  /\ db' = s
  /\ call' = [call EXCEPT !.stage = "stored", !.state = s]
  /\ UNCHANGED <<offer, catalogue, page, loads, blurred>>
Refuse(stage) ==
  /\ call' = [call EXCEPT !.stage = stage]
  /\ UNCHANGED <<db, created, offer, catalogue, page, loads, blurred>>

\* Mutant: one list too many.
CanCreateOneMore(s) == Cardinality(DOMAIN s.lists) <= MaxLists
CanCreate(s) == Cardinality(DOMAIN s.lists) < MaxLists

StoreNew ==
  /\ Reached /\ call.op \in {"create", "copy"}
  /\ LET s == Normalised(db)
     IN \/ ~CanCreate(s) /\ Refuse("failed")
        \/ /\ CanCreate(s) /\ created < MaxCreated
           /\ created' = created + 1
           /\ Commit(Created(s, created + 1, call.seen))

\* The rows a list has after the change, and whether the list was touched.
RowsAfter(rows, c) ==
  CASE c.op = "add" -> rows \cup {c.change}
    [] c.op = "remove" -> rows \ {c.change}
    [] c.op = "clear" -> {}
    [] OTHER -> rows
Known(rows, c) == c.op = "add" => c.change \in rows \cup c.seen
Touched(rows, c) == c.op = "update" \/ RowsAfter(rows, c) # rows

\* Mutant: any base version will do.
UpToDateAnyway(list, c) == list.version > 0
UpToDate(list, c) == list.version = c.previous.version

StoreChange ==
  /\ Reached /\ call.op \in Versioned
  /\ LET s == Normalised(db)
         list == s.lists[call.id]
     IN \/ call.id \notin DOMAIN s.lists /\ Refuse("failed")
        \/ /\ call.id \in DOMAIN s.lists
           /\ \/ ~UpToDate(list, call) /\ Refuse("conflict")
              \/ UpToDate(list, call) /\ ~Known(list.rows, call) /\ Refuse("failed")
              \/ /\ UpToDate(list, call) /\ Known(list.rows, call)
                 /\ Touched(list.rows, call) => list.version < MaxVersion
                 /\ Commit(IF Touched(list.rows, call)
                             THEN Rewritten(s, call.id, RowsAfter(list.rows, call))
                             ELSE s)
                 /\ UNCHANGED created

StoreActive ==
  /\ Reached /\ call.op = "activate"
  /\ LET s == Normalised(db)
     IN \/ call.id \notin DOMAIN s.lists \cup call.seen /\ Refuse("failed")
        \/ /\ call.id \in DOMAIN s.lists \cup call.seen
           /\ Commit(Activated(s, call.id))
           /\ UNCHANGED created

StoreDeletion ==
  /\ Reached /\ call.op = "delete"
  /\ LET s == Normalised(db)
     IN \/ call.id \notin DOMAIN s.lists /\ Refuse("failed")
        \/ call.id \in DOMAIN s.lists /\ Commit(Deleted(s, call.id)) /\ UNCHANGED created

Elsewhere(s) ==
  /\ db' = s
  /\ UNCHANGED <<offer, catalogue, page, call, loads, blurred>>
ElsewhereCreates ==
  /\ CanCreate(db) /\ created < MaxCreated
  /\ created' = created + 1
  /\ Elsewhere(Created(Normalised(db), created + 1, {}))
ElsewhereChanges(id, r) ==
  /\ id \in DOMAIN db.lists /\ db.lists[id].version < MaxVersion
  /\ LET list == db.lists[id]
     IN Elsewhere(Rewritten(Normalised(db), id,
                            IF r \in list.rows THEN list.rows \ {r} ELSE list.rows \cup {r}))
  /\ UNCHANGED created
ElsewhereDeletes(id) ==
  /\ id \in DOMAIN db.lists
  /\ Elsewhere(Deleted(Normalised(db), id)) /\ UNCHANGED created
ElsewhereActivates(id) ==
  /\ id \in DOMAIN db.lists \cup (IF offer = None THEN {} ELSE {Foreign})
  /\ Elsewhere(Activated(Normalised(db), id)) /\ UNCHANGED created

\* Another identity shares its list, changes it or takes it back.
OfferChanges(o) ==
  /\ o # offer /\ offer' = o
  /\ UNCHANGED <<db, created, catalogue, page, call, loads, blurred>>
CatalogueChanges(rows) ==
  /\ rows # catalogue /\ catalogue' = rows
  /\ UNCHANGED <<db, created, offer, page, call, loads, blurred>>

-----------------------------------------------------------------------------
(* Answers                                                                 *)

LoadRead(l) ==
  /\ loads[l] = Asked
  /\ loads' = [loads EXCEPT ![l] = [stage |-> "read", state |-> Normalised(db)]]
  /\ UNCHANGED <<db, created, offer, catalogue, page, call, blurred>>

\* Every list shown now has the content of its version, except for the one a
\* change under way will give its version.
LoadAnswered(l) ==
  /\ loads[l] # None /\ loads[l].stage = "read"
  /\ page' = Applied(page, Payload(loads[l].state))
  /\ call' = IF call = None THEN None ELSE [call EXCEPT !.between = TRUE]
  /\ loads' = [loads EXCEPT ![l] = None]
  /\ blurred' = IF call = None THEN {} ELSE blurred \cap {call.id}
  /\ UNCHANGED <<db, created, offer, catalogue>>

LoadFails(l) ==
  /\ loads[l] # None
  /\ page' = [page EXCEPT !.load = "error"]
  /\ loads' = [loads EXCEPT ![l] = None]
  /\ UNCHANGED <<db, created, offer, catalogue, call, blurred>>

\* The answer to a row change carries the new version only.
RowsAnswered ==
  /\ call # None /\ call.stage = "stored" /\ call.op \in {"add", "remove", "clear"}
  /\ page' = IF call.id \in DOMAIN page.lists
               THEN [page EXCEPT !.lists[call.id].version = call.state.lists[call.id].version]
               ELSE page
  /\ blurred' = IF call.between THEN blurred \cup {call.id} ELSE blurred
  /\ call' = None
  /\ UNCHANGED <<db, created, offer, catalogue, loads>>

\* Every other answer carries all lists.  The checkbox that had to create a
\* list goes on with its row.
Answered ==
  /\ call # None /\ call.stage = "stored" /\ call.op \notin {"add", "remove", "clear"}
  /\ LET p == Applied(page, Payload(call.state))
         next == Adding(p, call.change)
     IN IF call.op = "create" /\ call.change # None
          THEN page' = next.page /\ call' = next.call
          ELSE page' = p /\ call' = None
  /\ blurred' = {}
  /\ UNCHANGED <<db, created, offer, catalogue, loads>>

\* The page takes back what it showed in advance; a conflict loads all lists.
Reverted(p) ==
  IF call.op \in Versioned /\ call.id \in DOMAIN p.lists
    THEN [p EXCEPT !.lists[call.id] = call.previous]
    ELSE p

Conflict ==
  /\ call # None /\ call.stage = "conflict" /\ FreeLoads # {}
  /\ page' = [Reverted(page) EXCEPT !.load = "loading"]
  /\ loads' = LoadAgain(FreeLoads)
  /\ call' = None
  /\ UNCHANGED <<db, created, offer, catalogue, blurred>>

\* The request was refused, or it or its answer was lost.
CallFails ==
  /\ call # None /\ call.stage # "conflict"
  /\ page' = Reverted(page)
  /\ call' = None
  /\ UNCHANGED <<db, created, offer, catalogue, loads, blurred>>

-----------------------------------------------------------------------------
Init ==
  /\ db = [lists |-> [i \in {} |-> None], active |-> None]
  /\ created = 0
  /\ offer = None /\ catalogue = Rows
  /\ page = None /\ call = None /\ loads = NoLoads
  /\ blurred = {}

PageActs ==
  \/ SignIn \/ SignOut \/ Reload
  \/ \E r \in Rows : Toggle(r) \/ RemoveRow(r)
  \/ Clear \/ Update \/ Create \/ Copy \/ Delete
  \/ \E id \in AnyId : Activate(id)
Store == StoreNew \/ StoreChange \/ StoreActive \/ StoreDeletion
OthersAct ==
  \/ ElsewhereCreates
  \/ \E id \in Ids : ElsewhereDeletes(id) \/ \E r \in Rows : ElsewhereChanges(id, r)
  \/ \E id \in AnyId : ElsewhereActivates(id)
  \/ \E o \in {Rows, None} : OfferChanges(o)
  \/ \E rows \in {Rows, {}} : CatalogueChanges(rows)
Answer ==
  \/ \E l \in Loads : LoadRead(l) \/ LoadAnswered(l) \/ LoadFails(l)
  \/ RowsAnswered \/ Answered \/ Conflict \/ CallFails

Next == PageActs \/ Read \/ Store \/ OthersAct \/ Answer

Spec == Init /\ [][Next]_vars

-----------------------------------------------------------------------------
(* Types                                                                   *)

ListsOf(ids) == UNION {[own -> List] : own \in SUBSET ids}
State == [lists : ListsOf(Ids), active : AnyId \cup {None}]
Page ==
  [load : {"loading", "loaded", "error"}, lists : ListsOf(AnyId),
   active : AnyId \cup {None}]
Call ==
  [op : Versioned \cup {"create", "copy", "activate", "delete"}, id : AnyId \cup {None},
   change : Rows \cup {None},
   stage : {"asked", "read", "stored", "conflict", "failed"},
   seen : SUBSET (Rows \cup {Foreign}), state : State \cup {None},
   previous : List \cup {None}, between : BOOLEAN]
ReadLoad == [stage : {"read"}, state : State]

ConstantsFit ==
  /\ MaxLists \in Nat /\ MaxCreated \in Nat /\ MaxVersion \in Nat \ {0}
  /\ None \notin Rows /\ None \notin Int
  /\ None \notin List \cup State \cup Page \cup Call \cup ReadLoad \cup {Asked}

ASSUME CollectionsAssumption == ConstantsFit

\* Besides the types: however many browsers create and copy at once, an identity
\* has no more lists than MAX_ITEM_COLLECTIONS.
TypeOK ==
  /\ db \in State /\ Cardinality(DOMAIN db.lists) <= MaxLists
  /\ created \in 0..MaxCreated
  /\ offer \in (SUBSET Rows) \cup {None} /\ catalogue \subseteq Rows
  /\ page \in Page \cup {None} /\ (Open => page.active \in DOMAIN page.lists \cup {None})
  /\ call \in Call \cup {None}
  /\ loads \in [Loads -> {None, Asked} \cup ReadLoad]
  /\ blurred \subseteq AnyId

(* What the collections promise                                            *)

\* A change is stored only on the content its author saw: when
\* updateItemCollection or mutateItemCollectionRows accepts a base version, the
\* stored rows are those the page showed before the change.  The one exception is
\* a list whose version was set after a load had come between.
ChangesAreInformed ==
  [][\A id \in Ids :
       /\ call # None /\ call.stage # "stored"
       /\ call.op \in Versioned /\ call.id = id
       /\ call' # None /\ call'.stage = "stored"
       => \/ db.lists[id].rows = call.previous.rows
          \/ id \in blurred]_vars

\* What a page has been told is stored stays stored, and a version has one content:
\* no list falls behind the version a page shows, whichever of loads, answers and
\* taken-back changes the page shows it from, and while the versions agree so do the
\* rows.  The exceptions are a change under way and a list as above.
NothingAnsweredIsLost ==
  Open =>
    \A id \in DOMAIN page.lists \cap DOMAIN db.lists :
      LET shown == page.lists[id]
          stored == db.lists[id]
      IN /\ shown.version <= stored.version
         /\ \/ shown.version < stored.version
            \/ shown.rows = stored.rows
            \/ id \in blurred
            \/ call # None /\ call.id = id
=============================================================================
