------------------------- MODULE ItemCollectionsProofs -------------------------
(***************************************************************************)
(* Machine-checked proofs about ItemCollections, for any rows, lists and   *)
(* limits: a page never shows a version of a list with other rows than the *)
(* stored ones, and a change is stored only on the rows its author saw.    *)
(***************************************************************************)
EXTENDS ItemCollections, FiniteSetTheorems, WellFoundedInduction, TLAPS

-----------------------------------------------------------------------------
(* Lists. *)

LEMMA ListsAre ==
  ASSUME NEW ids, NEW f \in ListsOf(ids)
  PROVE  /\ DOMAIN f \subseteq ids /\ f \in [DOMAIN f -> List]
         /\ \A i \in DOMAIN f : f[i] \in List
BY DEF ListsOf

LEMMA AreListsOf ==
  ASSUME NEW ids, NEW own \in SUBSET ids, NEW f \in [own -> List]
  PROVE  f \in ListsOf(ids)
BY DEF ListsOf

LEMMA ListFields ==
  ASSUME ConstantsFit, NEW list \in List
  PROVE  list.rows \subseteq Rows /\ list.version \in 1 .. MaxVersion /\ list.version \in Nat
BY DEF List, ConstantsFit

LEMMA WithLists ==
  ASSUME NEW ids, NEW f \in ListsOf(ids), NEW x \in ids, NEW v \in List
  PROVE  /\ With(f, x, v) \in ListsOf(ids)
         /\ \A y : y \in DOMAIN With(f, x, v) <=> y \in DOMAIN f \/ y = x
         /\ With(f, x, v)[x] = v
         /\ \A y \in DOMAIN f : y # x => With(f, x, v)[y] = f[y]
<1>1. DOMAIN f \subseteq ids /\ \A i \in DOMAIN f : f[i] \in List
  BY ListsAre
<1>2. With(f, x, v) \in [DOMAIN f \cup {x} -> List]
  BY <1>1 DEF With
<1>3. With(f, x, v) \in ListsOf(ids)
  BY <1>1, <1>2, AreListsOf
<1> QED BY <1>3 DEF With

LEMMA DropLists ==
  ASSUME NEW ids, NEW f \in ListsOf(ids), NEW x
  PROVE  /\ Drop(f, x) \in ListsOf(ids) /\ DOMAIN Drop(f, x) = DOMAIN f \ {x}
         /\ \A y \in DOMAIN f \ {x} : Drop(f, x)[y] = f[y]
<1>1. DOMAIN f \subseteq ids /\ \A i \in DOMAIN f : f[i] \in List
  BY ListsAre
<1>2. Drop(f, x) \in [DOMAIN f \ {x} -> List]
  BY <1>1 DEF Drop
<1>3. Drop(f, x) \in ListsOf(ids)
  BY <1>1, <1>2, AreListsOf
<1> QED BY <1>3 DEF Drop

LEMMA ChangedLists ==
  ASSUME NEW ids, NEW f \in ListsOf(ids), NEW x \in DOMAIN f, NEW v \in List
  PROVE  /\ [f EXCEPT ![x] = v] \in ListsOf(ids)
         /\ DOMAIN [f EXCEPT ![x] = v] = DOMAIN f
         /\ [f EXCEPT ![x] = v][x] = v
         /\ \A y \in DOMAIN f : y # x => [f EXCEPT ![x] = v][y] = f[y]
<1>1. DOMAIN f \subseteq ids /\ f \in [DOMAIN f -> List]
  BY ListsAre
<1>2. [f EXCEPT ![x] = v] \in [DOMAIN f -> List]
  BY <1>1
<1> QED BY <1>1, <1>2, AreListsOf

Below == {p \in Nat \X Nat : p[1] < p[2]}

LEMMA FirstOfFits ==
  ASSUME NEW S \in SUBSET Nat
  PROVE  (S = {} /\ FirstOf(S) = None) \/ FirstOf(S) \in S
<1>1. CASE S # {}
  <2>1. IsWellFoundedOn(Below, Nat)
    BY NatLessThanWellFounded DEF OpToRel, Below
  <2>2. PICK t \in S : \A u \in S : ~ (<<u, t>> \in Below)
    BY <1>1, <2>1, WFMin
  <2>3. ASSUME NEW u \in S PROVE t <= u
    <3>1. u \in Nat /\ t \in Nat /\ ~ (<<u, t>> \in Below)
      BY <2>2
    <3>2. ~ (u < t)
      BY <3>1 DEF Below
    <3> QED BY <3>1, <3>2
  <2>4. FirstOf(S) = CHOOSE i \in S : \A j \in S : i <= j
    BY <1>1 DEF FirstOf
  <2> QED BY <2>3, <2>4
<1> QED BY <1>1 DEF FirstOf

-----------------------------------------------------------------------------
(* The record of the identity. *)

\* A list as somebody knows it is not ahead of the stored one, and has the rows of
\* its version.
Behind(list, id, d) ==
  id \in DOMAIN d.lists => list.version <= d.lists[id].version
Agrees(list, id, d) ==
  /\ Behind(list, id, d)
  /\ id \in DOMAIN d.lists /\ list.version = d.lists[id].version
       => list.rows = d.lists[id].rows

\* A record as it was some time ago, n lists having been made until now.
Earlier(s, d, n) ==
  /\ DOMAIN s.lists \subseteq 1 .. n
  /\ \A id \in DOMAIN s.lists : Agrees(s.lists[id], id, d)

\* A record fits when its lists are among the n lists made and within the limit.
RecordFits(d, n) ==
  /\ d \in State /\ DOMAIN d.lists \subseteq 1 .. n
  /\ Cardinality(DOMAIN d.lists) <= MaxLists

\* e may follow d: lists go, are the same or get a higher version.
Follows(d, n, e, m) ==
  /\ RecordFits(e, m) /\ n <= m
  /\ \A id \in 1 .. n : id \in DOMAIN e.lists =>
       /\ id \in DOMAIN d.lists
       /\ e.lists[id] = d.lists[id] \/ e.lists[id].version > d.lists[id].version

LEMMA StateFields ==
  ASSUME NEW d \in State
  PROVE  /\ d.lists \in ListsOf(Ids) /\ DOMAIN d.lists \subseteq Ids
         /\ \A id \in DOMAIN d.lists : d.lists[id] \in List
         /\ d.active \in AnyId \cup {None}
         /\ d = [lists |-> d.lists, active |-> d.active]
<1>1. d.lists \in ListsOf(Ids) /\ d.active \in AnyId \cup {None}
      /\ d = [lists |-> d.lists, active |-> d.active]
  BY DEF State
<1> QED BY <1>1, ListsAre

LEMMA IdsAreNumbers == ASSUME ConstantsFit PROVE Ids \subseteq Nat /\ AnyId \subseteq Nat
BY DEF ConstantsFit, Ids, AnyId, Foreign

LEMMA FinitelyManyLists ==
  ASSUME NEW d, NEW n \in Nat, DOMAIN d.lists \subseteq 1 .. n
  PROVE  IsFiniteSet(DOMAIN d.lists) /\ Cardinality(DOMAIN d.lists) \in Nat
<1>1. IsFiniteSet(1 .. n)
  BY FS_Interval
<1> QED BY <1>1, FS_Subset, FS_CardinalityType

LEMMA NormalisedFits ==
  ASSUME ConstantsFit, NEW n \in Nat, NEW d, RecordFits(d, n)
  PROVE  /\ Normalised(d).lists = d.lists /\ RecordFits(Normalised(d), n)
         /\ Follows(d, n, Normalised(d), n)
<1>1. /\ d \in State /\ d.lists \in ListsOf(Ids) /\ d.active \in AnyId \cup {None}
      /\ DOMAIN d.lists \subseteq Ids
  BY StateFields DEF RecordFits
<1>2. FirstOf(DOMAIN d.lists) \in AnyId \cup {None}
  BY <1>1, FirstOfFits, IdsAreNumbers DEF AnyId
<1>3. Normalised(d) = [d EXCEPT !.active = IF d.active = None THEN FirstOf(DOMAIN d.lists)
                                                              ELSE d.active]
  BY <1>1 DEF Normalised, State
<1>4. Normalised(d) \in State /\ Normalised(d).lists = d.lists
  BY <1>1, <1>2, <1>3 DEF State
<1> QED BY <1>4 DEF RecordFits, Follows

\* What creating, changing, deleting and choosing a list do to the record.
LEMMA CreatedFollows ==
  ASSUME ConstantsFit, NEW n \in Nat, NEW d, RecordFits(d, n), n + 1 \in Ids,
         Cardinality(DOMAIN d.lists) < MaxLists, NEW rows \in SUBSET Rows
  PROVE  LET e == Created(Normalised(d), n + 1, rows)
         IN  Follows(d, n, e, n + 1) /\ e.active = n + 1 /\ e.active \in DOMAIN e.lists
<1> DEFINE s == Normalised(d)
           e == Created(s, n + 1, rows)
           list == [rows |-> rows, version |-> 1]
           lists == With(d.lists, n + 1, list)
<1>1. s \in State /\ s.lists = d.lists /\ d.lists \in ListsOf(Ids)
  BY NormalisedFits, StateFields DEF RecordFits
<1>2. list \in List
  BY DEF List, ConstantsFit
<1> HIDE DEF s
<1>3. /\ lists \in ListsOf(Ids) /\ DOMAIN lists = DOMAIN d.lists \cup {n + 1}
      /\ \A y \in DOMAIN d.lists : y # n + 1 => lists[y] = d.lists[y]
  <2> HIDE DEF list
  <2>1. /\ lists \in ListsOf(Ids)
        /\ \A y : y \in DOMAIN lists <=> y \in DOMAIN d.lists \/ y = n + 1
        /\ \A y \in DOMAIN d.lists : y # n + 1 => lists[y] = d.lists[y]
    BY <1>1, <1>2, WithLists
  <2> HIDE DEF lists
  <2> QED BY <2>1
<1>4. e = [s EXCEPT !.lists = lists, !.active = n + 1]
  <2>1. e = [s EXCEPT !.lists = With(s.lists, n + 1, list), !.active = n + 1]
    BY <1>1 DEF Created, State
  <2> QED BY <1>1, <2>1
<1>5. e \in State /\ e.lists = lists /\ e.active = n + 1
  BY <1>1, <1>3, <1>4 DEF State, AnyId
<1> HIDE DEF e, lists
<1>6. DOMAIN d.lists \subseteq 1 .. n /\ DOMAIN lists \subseteq 1 .. n + 1
  BY <1>3 DEF RecordFits
<1>7. Cardinality(DOMAIN lists) <= MaxLists
  <2>1. IsFiniteSet(DOMAIN d.lists) /\ Cardinality(DOMAIN d.lists) \in Nat
    BY <1>6, FinitelyManyLists
  <2>2. n + 1 \notin DOMAIN d.lists
    BY <1>6
  <2>3. Cardinality(DOMAIN d.lists \cup {n + 1}) = Cardinality(DOMAIN d.lists) + 1
    BY <2>1, <2>2, FS_AddElement
  <2> QED BY <1>3, <2>1, <2>3 DEF ConstantsFit
<1>8. \A id \in 1 .. n : id \in DOMAIN lists =>
        id \in DOMAIN d.lists /\ lists[id] = d.lists[id]
  BY <1>3, <1>6
<1>9. Follows(d, n, e, n + 1)
  BY <1>5, <1>6, <1>7, <1>8 DEF Follows, RecordFits
<1> QED BY <1>3, <1>5, <1>9 DEF e, s

LEMMA RewrittenFollows ==
  ASSUME ConstantsFit, NEW n \in Nat, NEW d, RecordFits(d, n), NEW id \in DOMAIN d.lists,
         d.lists[id].version < MaxVersion, NEW rows \in SUBSET Rows
  PROVE  LET e == Rewritten(Normalised(d), id, rows)
         IN  Follows(d, n, e, n) /\ id \in DOMAIN e.lists /\ e.lists[id].rows = rows
<1> DEFINE s == Normalised(d)
           e == Rewritten(s, id, rows)
           list == [rows |-> rows, version |-> d.lists[id].version + 1]
           lists == [d.lists EXCEPT ![id] = list]
<1>1. /\ s \in State /\ s.lists = d.lists /\ d.lists \in ListsOf(Ids)
      /\ d.lists[id] \in List
  BY NormalisedFits, StateFields DEF RecordFits
<1>2. /\ d.lists[id].version \in Nat /\ list \in List /\ list.rows = rows
      /\ list.version > d.lists[id].version
  BY <1>1, ListFields DEF List, ConstantsFit
<1> HIDE DEF list
<1>3. /\ lists \in ListsOf(Ids) /\ DOMAIN lists = DOMAIN d.lists /\ lists[id] = list
      /\ \A y \in DOMAIN d.lists : y # id => lists[y] = d.lists[y]
  BY <1>1, <1>2, ChangedLists
<1>4. e = [s EXCEPT !.lists = lists]
  <2>1. s = [lists |-> d.lists, active |-> s.active]
    BY <1>1, StateFields
  <2> QED BY <2>1 DEF Rewritten, list
<1>5. e \in State /\ e.lists = lists
  BY <1>1, <1>3, <1>4 DEF State
<1> HIDE DEF e, lists
<1> QED BY <1>2, <1>3, <1>5 DEF Follows, RecordFits, e

LEMMA DeletedFollows ==
  ASSUME ConstantsFit, NEW n \in Nat, NEW d, RecordFits(d, n), NEW id
  PROVE  Follows(d, n, Deleted(Normalised(d), id), n)
<1> DEFINE s == Normalised(d)
           rest == Drop(d.lists, id)
           active == IF s.active = id THEN FirstOf(DOMAIN rest) ELSE s.active
           e == Deleted(s, id)
<1>1. /\ s \in State /\ s.lists = d.lists /\ d.lists \in ListsOf(Ids)
      /\ s.active \in AnyId \cup {None} /\ DOMAIN d.lists \subseteq 1 .. n
  BY NormalisedFits, StateFields DEF RecordFits
<1>2. /\ rest \in ListsOf(Ids) /\ DOMAIN rest = DOMAIN d.lists \ {id}
      /\ \A y \in DOMAIN d.lists \ {id} : rest[y] = d.lists[y]
  BY <1>1, DropLists
<1> HIDE DEF rest
<1>3. active \in AnyId \cup {None}
  BY <1>1, <1>2, ListsAre, FirstOfFits, IdsAreNumbers DEF AnyId
<1>4. e = [lists |-> rest, active |-> active]
  BY <1>1 DEF Deleted, rest
<1> HIDE DEF active, e
<1>5. e \in State /\ e.lists = rest
  BY <1>2, <1>3, <1>4 DEF State
<1>6. Cardinality(DOMAIN rest) <= MaxLists
  <2>1. IsFiniteSet(DOMAIN d.lists) /\ Cardinality(DOMAIN d.lists) \in Nat
    BY <1>1, FinitelyManyLists
  <2>2. Cardinality(DOMAIN rest) <= Cardinality(DOMAIN d.lists)
        /\ Cardinality(DOMAIN rest) \in Nat
    BY <1>2, <2>1, FS_Subset, FS_CardinalityType
  <2> QED BY <2>1, <2>2 DEF RecordFits, ConstantsFit
<1>7. Follows(d, n, e, n)
  BY <1>1, <1>2, <1>5, <1>6 DEF Follows, RecordFits
<1> QED BY <1>7 DEF e

LEMMA ActivatedFollows ==
  ASSUME ConstantsFit, NEW n \in Nat, NEW d, RecordFits(d, n), NEW id \in AnyId \cup {None}
  PROVE  Follows(d, n, Activated(Normalised(d), id), n)
<1> DEFINE s == Normalised(d)
           e == Activated(s, id)
<1>1. s \in State /\ s.lists = d.lists
  BY NormalisedFits DEF RecordFits
<1>2. e \in State /\ e.lists = d.lists
  BY <1>1 DEF Activated, State
<1> QED BY <1>2 DEF Follows, RecordFits

\* What was known stays true of every later record.
LEMMA AgreesAfterwards ==
  ASSUME ConstantsFit, NEW n \in Nat, NEW m \in Nat, NEW d, RecordFits(d, n), NEW e,
         Follows(d, n, e, m), NEW id \in 0 .. n, NEW list \in List
  PROVE  /\ Behind(list, id, d) => Behind(list, id, e)
         /\ Agrees(list, id, d) => Agrees(list, id, e)
<1>1. DOMAIN e.lists \subseteq 1 .. m /\ e \in State /\ d \in State
  BY DEF Follows, RecordFits
<1>2. CASE id \in DOMAIN e.lists
  <2>1. /\ id \in DOMAIN d.lists
        /\ e.lists[id] = d.lists[id] \/ e.lists[id].version > d.lists[id].version
    BY <1>1, <1>2 DEF Follows
  <2>2. list.version \in Nat /\ e.lists[id].version \in Nat /\ d.lists[id].version \in Nat
    BY <1>1, <1>2, <2>1, StateFields, ListFields
  <2> QED BY <2>1, <2>2 DEF Behind, Agrees
<1> QED BY <1>2 DEF Behind, Agrees

LEMMA EarlierAfterwards ==
  ASSUME ConstantsFit, NEW n \in Nat, NEW m \in Nat, NEW d, RecordFits(d, n), NEW e,
         Follows(d, n, e, m), NEW s \in State, Earlier(s, d, n)
  PROVE  Earlier(s, e, m)
<1>1. n <= m
  BY DEF Follows
<1>2. \A id \in DOMAIN s.lists : s.lists[id] \in List /\ id \in 0 .. n
  BY StateFields DEF Earlier
<1>3. \A id \in DOMAIN s.lists : Agrees(s.lists[id], id, e)
  BY <1>2, AgreesAfterwards DEF Earlier
<1> QED BY <1>1, <1>3 DEF Earlier

LEMMA EarlierItself ==
  ASSUME ConstantsFit, NEW n \in Nat, NEW d, RecordFits(d, n)
  PROVE  Earlier(d, d, n)
<1>1. \A id \in DOMAIN d.lists : d.lists[id].version \in Nat
  BY StateFields, ListFields DEF RecordFits
<1> QED BY <1>1 DEF Earlier, Agrees, Behind, RecordFits

LEMMA EarlierNormalised ==
  ASSUME ConstantsFit, NEW n \in Nat, NEW d, RecordFits(d, n)
  PROVE  Normalised(d) \in State /\ Earlier(Normalised(d), d, n)
BY NormalisedFits, EarlierItself DEF Earlier, Agrees, Behind, RecordFits


-----------------------------------------------------------------------------
(* The inductive invariant. *)

RowChanges == {"add", "remove", "clear"}

\* What is under way to the page was stored some time ago; without a page nothing is.
LoadsFit ==
  \A l \in Loads :
    /\ loads[l] # None => Open
    /\ loads[l] \in ReadLoad => Earlier(loads[l].state, db, created)

\* The page shows stored lists, except for one that a change is under way for or
\* whose version was set after a load had come between.
PageFits ==
  Open =>
    /\ DOMAIN page.lists \subseteq 0 .. created
    /\ \A id \in DOMAIN page.lists :
         /\ Behind(page.lists[id], id, db)
         /\ \/ Agrees(page.lists[id], id, db)
            \/ id \in blurred
            \/ call # None /\ call.id = id /\ call.op \in Versioned

\* The list as it was before a change was stored, too; unless a load came between,
\* the page shows what the change makes of it.
CallFits ==
  call # None =>
    /\ Open
    /\ call.op \in {"add", "remove"} => call.change \in Rows
    /\ call.op \in {"create", "copy"} => call.seen \subseteq Rows
    /\ call.stage = "stored" => call.state \in State /\ Earlier(call.state, db, created)
    /\ call.op = "create" /\ call.stage = "stored" =>
         call.state.active \in DOMAIN call.state.lists
    /\ call.op \in Versioned =>
         /\ call.id \in 1 .. created /\ call.previous \in List
         /\ Behind(call.previous, call.id, db)
         /\ Agrees(call.previous, call.id, db) \/ call.id \in blurred
    /\ call.op \in RowChanges /\ ~call.between =>
         /\ call.id \in DOMAIN page.lists
         /\ page.lists[call.id].version = call.previous.version
         /\ page.lists[call.id].rows = RowsAfter(call.previous.rows, call)
    /\ call.op \in RowChanges /\ call.stage = "stored" =>
         /\ call.id \in DOMAIN call.state.lists
         /\ \/ call.id \in blurred
            \/ call.state.lists[call.id].rows = RowsAfter(call.previous.rows, call)

CollectionsInv ==
  /\ ConstantsFit /\ TypeOK
  /\ RecordFits(db, created) /\ LoadsFit /\ PageFits /\ CallFits

LEMMA ConstantsGive ==
  ASSUME ConstantsFit
  PROVE  /\ None \notin Page /\ None \notin Call /\ None \notin ReadLoad /\ None # Asked
         /\ Asked \notin ReadLoad /\ None \notin Rows /\ None \notin AnyId
         /\ MaxLists \in Nat /\ MaxCreated \in Nat /\ MaxVersion \in Nat \ {0}
BY DEF ConstantsFit, Asked, ReadLoad, AnyId, Ids, Foreign

\* The rows after a change depend on the kind of change and its row.
LEMMA RowsAfterRows ==
  ASSUME NEW rows \in SUBSET Rows, NEW c, c.op \in {"add", "remove"} => c.change \in Rows
  PROVE  RowsAfter(rows, c) \subseteq Rows
BY DEF RowsAfter

LEMMA RowsAfterSame ==
  ASSUME NEW rows, NEW c, NEW e, c.op = e.op, c.change = e.change
  PROVE  RowsAfter(rows, c) = RowsAfter(rows, e)
BY DEF RowsAfter

LEMMA PageFields ==
  ASSUME NEW p \in Page
  PROVE  /\ p.load \in {"loading", "loaded", "error"} /\ p.lists \in ListsOf(AnyId)
         /\ DOMAIN p.lists \subseteq AnyId /\ p.active \in AnyId \cup {None}
         /\ \A id \in DOMAIN p.lists : p.lists[id] \in List
         /\ p = [load |-> p.load, lists |-> p.lists, active |-> p.active]
<1>1. /\ p.load \in {"loading", "loaded", "error"} /\ p.lists \in ListsOf(AnyId)
      /\ p.active \in AnyId \cup {None}
      /\ p = [load |-> p.load, lists |-> p.lists, active |-> p.active]
  BY DEF Page
<1> QED BY <1>1, ListsAre

LEMMA CreatedType ==
  ASSUME CollectionsInv PROVE created \in Nat /\ created <= MaxCreated /\ Ids = 1 .. MaxCreated
BY DEF CollectionsInv, TypeOK, ConstantsFit, Ids

LEMMA InitHolds == ConstantsFit /\ Init => CollectionsInv
<1> SUFFICES ASSUME ConstantsFit, Init PROVE CollectionsInv
  OBVIOUS
<1> DEFINE none == [i \in {} |-> None]
<1>1. none \in ListsOf(Ids) /\ DOMAIN none = {}
  <2>1. none \in [{} -> List]
    OBVIOUS
  <2> QED BY <2>1, AreListsOf
<1>2. db.lists = none /\ db \in State /\ created = 0
  BY <1>1 DEF Init, State
<1>3. Cardinality(DOMAIN db.lists) <= MaxLists
  BY <1>1, <1>2, FS_EmptySet DEF ConstantsFit
<1>4. RecordFits(db, created)
  BY <1>1, <1>2, <1>3 DEF RecordFits
<1>5. TypeOK
  <2>1. created \in 0 .. MaxCreated
    BY <1>2, ConstantsGive
  <2>2. loads \in [Loads -> {None, Asked} \cup ReadLoad]
    BY DEF Init, NoLoads
  <2>3. offer = None /\ catalogue = Rows /\ page = None /\ call = None /\ blurred = {}
    BY Zenon DEF Init
  <2>4. offer \in (SUBSET Rows) \cup {None} /\ catalogue \subseteq Rows /\ blurred \subseteq AnyId
    BY <2>3
  <2> HIDE DEF none
  <2> QED BY <1>2, <1>3, <2>1, <2>2, <2>3, <2>4 DEF TypeOK, Open
<1>6. LoadsFit
  BY ConstantsGive DEF Init, LoadsFit, NoLoads
<1> QED BY <1>4, <1>5, <1>6 DEF Init, CollectionsInv, PageFits, CallFits, Open

-----------------------------------------------------------------------------
(* The server. *)

\* A call goes on: it stays the same request, and what it has stored is the record.
GoesOn(c, e, d, n, stale) ==
  /\ e \in Call /\ e # None
  /\ e.op = c.op /\ e.id = c.id /\ e.change = c.change
  /\ e.previous = c.previous /\ e.between = c.between
  /\ c.op \in {"create", "copy"} => e.seen \subseteq Rows
  /\ e.stage = "stored" =>
       /\ e.state \in State /\ Earlier(e.state, d, n)
       /\ c.op = "create" => e.state.active \in DOMAIN e.state.lists
       /\ c.op \in RowChanges =>
            /\ c.id \in DOMAIN e.state.lists
            /\ \/ c.id \in stale
               \/ e.state.lists[c.id].rows = RowsAfter(c.previous.rows, c)

\* Whoever changes the record: the page, its loads and the call are still behind it.
LEMMA ServerKeeps ==
  ASSUME CollectionsInv, Follows(db, created, db', created'), created' \in 0 .. MaxCreated,
         offer' \in (SUBSET Rows) \cup {None}, catalogue' \subseteq Rows,
         call' = call \/ (call # None /\ GoesOn(call, call', db', created', blurred)),
         UNCHANGED <<page, loads, blurred>>
  PROVE  CollectionsInv'
<1>1. /\ ConstantsFit /\ RecordFits(db, created) /\ created \in Nat /\ created' \in Nat
      /\ MaxCreated \in Nat
  BY CreatedType, ConstantsGive DEF CollectionsInv
<1>2. RecordFits(db', created') /\ created <= created'
  BY DEF Follows
<1>3. TypeOK'
  BY <1>2 DEF CollectionsInv, TypeOK, RecordFits, Open, GoesOn
<1>4. \A id \in 0 .. created, list \in List :
        /\ Behind(list, id, db) => Behind(list, id, db')
        /\ Agrees(list, id, db) => Agrees(list, id, db')
  BY <1>1, AgreesAfterwards
<1>5. \A s \in State : Earlier(s, db, created) => Earlier(s, db', created')
  BY <1>1, EarlierAfterwards
<1>6. LoadsFit'
  BY <1>5 DEF CollectionsInv, LoadsFit, ReadLoad, Open
<1>7. call # None => call' # None /\ call'.id = call.id /\ call'.op = call.op
  BY DEF GoesOn
<1>8. PageFits'
  <2> SUFFICES ASSUME Open
               PROVE  /\ DOMAIN page.lists \subseteq 0 .. created'
                      /\ \A id \in DOMAIN page.lists :
                           /\ Behind(page.lists[id], id, db')
                           /\ \/ Agrees(page.lists[id], id, db')
                              \/ id \in blurred
                              \/ call # None /\ call.id = id /\ call.op \in Versioned
    BY <1>7 DEF PageFits, Open
  <2>1. page \in Page /\ PageFits
    BY DEF CollectionsInv, TypeOK, Open
  <2>2. \A id \in DOMAIN page.lists : page.lists[id] \in List
    BY <2>1, PageFields
  <2> QED BY <1>1, <1>2, <1>4, <2>1, <2>2 DEF PageFits
<1>9. CallFits'
  <2> SUFFICES ASSUME call # None PROVE CallFits'
    BY DEF CallFits, GoesOn
  <2>1. CallFits /\ Open'
    BY DEF CollectionsInv, CallFits, Open
  <2>2. call.stage = "stored" => call.state \in State /\ Earlier(call.state, db', created')
    BY <1>5, <2>1 DEF CallFits
  <2>3. call.op \in Versioned =>
          /\ call.id \in 1 .. created'
          /\ Behind(call.previous, call.id, db')
          /\ Agrees(call.previous, call.id, db') \/ call.id \in blurred
    BY <1>1, <1>2, <1>4, <2>1 DEF CallFits
  <2>4. CASE call' = call
    BY <2>1, <2>2, <2>3, <2>4 DEF CallFits
  <2>5. CASE GoesOn(call, call', db', created', blurred)
    <3>1. /\ call' \in Call /\ call' # None
          /\ call'.op = call.op /\ call'.id = call.id /\ call'.change = call.change
          /\ call'.previous = call.previous /\ call'.between = call.between
      BY <2>5 DEF GoesOn
    <3>2. \A rows : RowsAfter(rows, call') = RowsAfter(rows, call)
      BY <3>1, RowsAfterSame
    <3> QED BY <2>1, <2>3, <2>5, <3>1, <3>2 DEF CallFits, GoesOn
  <2> QED BY <2>4, <2>5
<1> QED BY <1>1, <1>2, <1>3, <1>6, <1>8, <1>9 DEF CollectionsInv

LEMMA RecordItself ==
  ASSUME CollectionsInv
  PROVE  /\ ConstantsFit /\ RecordFits(db, created) /\ Follows(db, created, db, created)
         /\ created \in Nat /\ created \in 0 .. MaxCreated
         /\ offer \in (SUBSET Rows) \cup {None} /\ catalogue \subseteq Rows
BY CreatedType DEF CollectionsInv, TypeOK, Follows

LEMMA CallFields ==
  ASSUME NEW c \in Call
  PROVE  /\ c.op \in Versioned \cup {"create", "copy", "activate", "delete"}
         /\ c.id \in AnyId \cup {None} /\ c.change \in Rows \cup {None}
         /\ c.stage \in {"asked", "read", "stored", "conflict", "failed"}
         /\ c.seen \in SUBSET (Rows \cup {Foreign}) /\ c.state \in State \cup {None}
         /\ c.previous \in List \cup {None} /\ c.between \in BOOLEAN
BY DEF Call

\* The request fails or is refused.
LEMMA RefuseKeeps ==
  ASSUME CollectionsInv, call # None, NEW s \in {"failed", "conflict"}, Refuse(s)
  PROVE  CollectionsInv'
<1>1. call \in Call /\ CallFits
  BY DEF CollectionsInv, TypeOK
<1>2. /\ call' \in Call /\ call'.op = call.op /\ call'.id = call.id
      /\ call'.change = call.change /\ call'.previous = call.previous
      /\ call'.between = call.between /\ call'.seen = call.seen /\ call'.stage = s
  BY <1>1 DEF Refuse, Call
<1>3. GoesOn(call, call', db', created', blurred)
  BY <1>1, <1>2, RecordItself, ConstantsGive DEF GoesOn, CallFits
<1>4. UNCHANGED <<db, created, offer, catalogue, page, loads, blurred>>
  BY DEF Refuse
<1> QED BY <1>3, <1>4, RecordItself, ServerKeeps

\* The transaction stores the record s.
LEMMA CommitKeeps ==
  ASSUME CollectionsInv, call # None, NEW s, NEW n \in 0 .. MaxCreated,
         Follows(db, created, s, n), created' = n, Commit(s),
         call.op = "create" => s.active \in DOMAIN s.lists,
         call.op \in RowChanges =>
           /\ call.id \in DOMAIN s.lists
           /\ \/ call.id \in blurred
              \/ s.lists[call.id].rows = RowsAfter(call.previous.rows, call)
  PROVE  CollectionsInv'
<1>1. call \in Call /\ CallFits /\ ConstantsFit /\ n \in Nat
  BY ConstantsGive DEF CollectionsInv, TypeOK
<1>2. RecordFits(s, n) /\ s \in State
  BY DEF Follows, RecordFits
<1>3. /\ call' \in Call /\ call'.op = call.op /\ call'.id = call.id
      /\ call'.change = call.change /\ call'.previous = call.previous
      /\ call'.between = call.between /\ call'.seen = call.seen /\ call'.state = s
  BY <1>1, <1>2 DEF Commit, Call
<1>4. Earlier(s, s, n)
  BY <1>1, <1>2, EarlierItself
<1>5. db' = s /\ UNCHANGED <<offer, catalogue, page, loads, blurred>>
  BY DEF Commit
<1>6. GoesOn(call, call', s, n, blurred)
  BY <1>1, <1>2, <1>3, <1>4, ConstantsGive DEF GoesOn, CallFits
<1> QED BY <1>5, <1>6, RecordItself, ServerKeeps

LEMMA ReadKeeps == ASSUME CollectionsInv, Read PROVE CollectionsInv'
<1>1. /\ call \in Call /\ CallFits /\ call # None /\ call.op \in ReadsFirst
      /\ UNCHANGED <<db, created, offer, catalogue, page, loads, blurred>>
  BY DEF CollectionsInv, TypeOK, Read
<1>2. catalogue \subseteq Rows /\ (offer # None => offer \subseteq Rows)
  BY DEF CollectionsInv, TypeOK
<1>3. PICK stage \in {"read", "failed"}, seen \in SUBSET (Rows \cup {Foreign}) :
        /\ call' = [call EXCEPT !.stage = stage, !.seen = seen]
        /\ call.op = "copy" => seen \subseteq Rows
  <2>1. CASE call.op = "add"
    BY <1>1, <1>2, <2>1 DEF Read, Call
  <2>2. CASE call.op = "activate"
    <3> DEFINE seen == IF offer = None THEN {} ELSE {Foreign}
    <3>1. call' = [call EXCEPT !.stage = "read", !.seen = seen]
      BY <1>1, <2>2 DEF Read
    <3>2. seen \in SUBSET (Rows \cup {Foreign})
      OBVIOUS
    <3> HIDE DEF seen
    <3> QED BY <2>2, <3>1, <3>2
  <2>3. CASE call.op = "copy" /\ offer = None
    <3>1. call' = [call EXCEPT !.stage = "failed", !.seen = call.seen]
      BY <1>1, <2>3 DEF Read, Call
    <3> QED BY <1>1, <2>3, <3>1, CallFields DEF CallFits
  <2>4. CASE call.op = "copy" /\ offer # None
    BY <1>1, <1>2, <2>4 DEF Read, Call
  <2> QED BY <1>1, <2>1, <2>2, <2>3, <2>4 DEF ReadsFirst
<1>4. /\ call' \in Call /\ call'.op = call.op /\ call'.id = call.id
      /\ call'.change = call.change /\ call'.previous = call.previous
      /\ call'.between = call.between /\ call'.seen = seen /\ call'.stage = stage
  BY <1>1, <1>3 DEF Call
<1>5. GoesOn(call, call', db, created, blurred)
  BY <1>1, <1>3, <1>4, RecordItself, ConstantsGive DEF GoesOn, ReadsFirst
<1> QED BY <1>1, <1>5, RecordItself, ServerKeeps


LEMMA StoreNewKeeps == ASSUME CollectionsInv, StoreNew PROVE CollectionsInv'
<1> DEFINE s == Normalised(db)
           e == Created(s, created + 1, call.seen)
<1>1. /\ call # None /\ call.op \in {"create", "copy"} /\ call.seen \subseteq Rows
      /\ DOMAIN s.lists = DOMAIN db.lists /\ ConstantsFit /\ RecordFits(db, created)
      /\ created \in Nat
  BY RecordItself, NormalisedFits DEF StoreNew, Reached, CollectionsInv, CallFits
<1>2. CASE Refuse("failed")
  BY <1>1, <1>2, RefuseKeeps
<1>3. CASE CanCreate(s) /\ created < MaxCreated /\ created' = created + 1 /\ Commit(e)
  <2>1. Cardinality(DOMAIN db.lists) < MaxLists
    BY <1>1, <1>3 DEF CanCreate
  <2>2. created + 1 \in Ids /\ created + 1 \in 0 .. MaxCreated
    BY <1>1, <1>3, ConstantsGive DEF Ids
  <2>3. Follows(db, created, e, created + 1) /\ e.active \in DOMAIN e.lists
    BY <1>1, <2>1, <2>2, CreatedFollows
  <2> HIDE DEF e
  <2> QED BY <1>1, <1>3, <2>2, <2>3, CommitKeeps DEF RowChanges
<1> QED BY <1>2, <1>3 DEF StoreNew

\* A change is stored on the rows it was shown on.
LEMMA StoreChangeKeeps == ASSUME CollectionsInv, StoreChange PROVE CollectionsInv'
<1> DEFINE s == Normalised(db)
           list == db.lists[call.id]
           rows == RowsAfter(list.rows, call)
<1>1. /\ call # None /\ call \in Call /\ call.op \in Versioned /\ CallFits /\ ConstantsFit
      /\ s.lists = db.lists /\ RecordFits(db, created) /\ created \in Nat
      /\ Follows(db, created, s, created) /\ created \in 0 .. MaxCreated
  BY RecordItself, NormalisedFits DEF StoreChange, Reached, CollectionsInv, TypeOK
<1>2. CASE Refuse("failed") \/ Refuse("conflict")
  BY <1>1, <1>2, RefuseKeeps
<1>3. CASE /\ call.id \in DOMAIN db.lists /\ UpToDate(list, call)
           /\ Touched(list.rows, call) => list.version < MaxVersion
           /\ Commit(IF Touched(list.rows, call) THEN Rewritten(s, call.id, rows) ELSE s)
           /\ UNCHANGED created
  <2>1. list \in List /\ list.rows \subseteq Rows
    BY <1>1, <1>3, StateFields, ListFields DEF RecordFits
  <2>2. rows \subseteq Rows
    BY <1>1, <2>1, RowsAfterRows DEF CallFits
  <2>3. call.id \in blurred \/ list.rows = call.previous.rows
    BY <1>1, <1>3 DEF CallFits, Agrees, UpToDate
  <2>4. rows = RowsAfter(call.previous.rows, call) \/ call.id \in blurred
    BY <2>3
  <2>5. call.op # "create"
    BY <1>1 DEF Versioned
  <2>6. CASE Touched(list.rows, call)
    <3>1. list.version < MaxVersion
      BY <1>3, <2>6
    <3> DEFINE e == Rewritten(s, call.id, rows)
    <3>2. /\ Follows(db, created, e, created) /\ call.id \in DOMAIN e.lists
          /\ e.lists[call.id].rows = rows
      <4> HIDE DEF rows
      <4> QED BY <1>1, <1>3, <2>2, <3>1, RewrittenFollows
    <3>3. Commit(e)
      BY <1>3, <2>6
    <3> HIDE DEF e, rows
    <3> QED BY <1>1, <1>3, <2>4, <2>5, <3>2, <3>3, CommitKeeps
  <2>7. CASE ~Touched(list.rows, call)
    <3>1. Commit(s) /\ list.rows = rows
      BY <1>3, <2>7 DEF Touched
    <3> HIDE DEF s, rows
    <3> QED BY <1>1, <1>3, <2>4, <2>5, <3>1, CommitKeeps
  <2> QED BY <2>6, <2>7
<1> QED BY <1>1, <1>2, <1>3 DEF StoreChange

LEMMA StoreActiveKeeps == ASSUME CollectionsInv, StoreActive PROVE CollectionsInv'
<1> DEFINE e == Activated(Normalised(db), call.id)
<1>1. /\ call # None /\ call \in Call /\ call.op = "activate" /\ ConstantsFit
      /\ RecordFits(db, created) /\ created \in Nat /\ created \in 0 .. MaxCreated
  BY RecordItself DEF StoreActive, Reached, CollectionsInv, TypeOK
<1>2. CASE Refuse("failed")
  BY <1>1, <1>2, RefuseKeeps
<1>3. CASE Commit(e) /\ UNCHANGED created
  <2>1. Follows(db, created, e, created)
    BY <1>1, CallFields, ActivatedFollows
  <2> HIDE DEF e
  <2> QED BY <1>1, <1>3, <2>1, CommitKeeps DEF RowChanges
<1> QED BY <1>2, <1>3 DEF StoreActive

LEMMA StoreDeletionKeeps == ASSUME CollectionsInv, StoreDeletion PROVE CollectionsInv'
<1> DEFINE e == Deleted(Normalised(db), call.id)
<1>1. /\ call # None /\ call.op = "delete" /\ ConstantsFit
      /\ RecordFits(db, created) /\ created \in Nat /\ created \in 0 .. MaxCreated
  BY RecordItself DEF StoreDeletion, Reached, CollectionsInv, TypeOK
<1>2. CASE Refuse("failed")
  BY <1>1, <1>2, RefuseKeeps
<1>3. CASE Commit(e) /\ UNCHANGED created
  <2>1. Follows(db, created, e, created)
    BY <1>1, DeletedFollows
  <2> HIDE DEF e
  <2> QED BY <1>1, <1>3, <2>1, CommitKeeps DEF RowChanges
<1> QED BY <1>2, <1>3 DEF StoreDeletion

\* Other browsers of the identity, and other identities.
LEMMA ElsewhereKeeps ==
  ASSUME CollectionsInv, NEW s, Follows(db, created, s, created'),
         created' \in 0 .. MaxCreated, Elsewhere(s)
  PROVE  CollectionsInv'
<1>1. db' = s /\ UNCHANGED <<offer, catalogue, page, call, loads, blurred>>
  BY DEF Elsewhere
<1> QED BY <1>1, RecordItself, ServerKeeps

LEMMA OthersActKeep == ASSUME CollectionsInv, OthersAct PROVE CollectionsInv'
<1>1. /\ ConstantsFit /\ RecordFits(db, created) /\ created \in Nat
      /\ created \in 0 .. MaxCreated /\ Follows(db, created, db, created)
      /\ offer \in (SUBSET Rows) \cup {None} /\ catalogue \subseteq Rows
  BY RecordItself
<1>2. CASE ElsewhereCreates
  <2>1. /\ created' = created + 1 /\ created + 1 \in Ids /\ created' \in 0 .. MaxCreated
        /\ Cardinality(DOMAIN db.lists) < MaxLists
    BY <1>1, <1>2, ConstantsGive DEF ElsewhereCreates, CanCreate, Ids
  <2>2. Follows(db, created, Created(Normalised(db), created + 1, {}), created + 1)
    BY <1>1, <2>1, CreatedFollows
  <2> QED BY <1>2, <2>1, <2>2, ElsewhereKeeps DEF ElsewhereCreates
<1>3. ASSUME NEW id \in Ids, ElsewhereDeletes(id) PROVE CollectionsInv'
  <2>1. Follows(db, created, Deleted(Normalised(db), id), created)
    BY <1>1, DeletedFollows
  <2> QED BY <1>1, <1>3, <2>1, ElsewhereKeeps DEF ElsewhereDeletes
<1>4. ASSUME NEW id \in Ids, NEW r \in Rows, ElsewhereChanges(id, r) PROVE CollectionsInv'
  <2> DEFINE rows == IF r \in db.lists[id].rows THEN db.lists[id].rows \ {r}
                                                ELSE db.lists[id].rows \cup {r}
             e == Rewritten(Normalised(db), id, rows)
  <2>1. /\ id \in DOMAIN db.lists /\ db.lists[id].version < MaxVersion
        /\ Elsewhere(e) /\ UNCHANGED created
    BY <1>4 DEF ElsewhereChanges
  <2>2. rows \in SUBSET Rows
    BY <1>1, <2>1, StateFields, ListFields DEF RecordFits
  <2> HIDE DEF rows
  <2>3. Follows(db, created, e, created)
    BY <1>1, <2>1, <2>2, RewrittenFollows
  <2> HIDE DEF e
  <2> QED BY <1>1, <2>1, <2>3, ElsewhereKeeps
<1>5. ASSUME NEW id \in AnyId, ElsewhereActivates(id) PROVE CollectionsInv'
  <2>1. Follows(db, created, Activated(Normalised(db), id), created)
    BY <1>1, ActivatedFollows
  <2> QED BY <1>1, <1>5, <2>1, ElsewhereKeeps DEF ElsewhereActivates
<1>6. ASSUME NEW o \in {Rows, None}, OfferChanges(o) PROVE CollectionsInv'
  BY <1>1, <1>6, ServerKeeps DEF OfferChanges
<1>7. ASSUME NEW rows \in {Rows, {}}, CatalogueChanges(rows) PROVE CollectionsInv'
  BY <1>1, <1>7, ServerKeeps DEF CatalogueChanges
<1> QED BY <1>2, <1>3, <1>4, <1>5, <1>6, <1>7 DEF OthersAct


-----------------------------------------------------------------------------
(* The page. *)

\* What every step of the page has to show.
LEMMA PageKeeps ==
  ASSUME CollectionsInv, page' \in Page, page'.active \in DOMAIN page'.lists \cup {None},
         PageFits', CallFits', call' \in Call \cup {None},
         loads' \in [Loads -> {None, Asked} \cup ReadLoad], LoadsFit', blurred' \subseteq AnyId,
         UNCHANGED <<db, created, offer, catalogue>>
  PROVE  CollectionsInv'
<1>1. TypeOK'
  BY DEF CollectionsInv, TypeOK
<1> QED BY <1>1 DEF CollectionsInv

LEMMA AgainFits ==
  ASSUME CollectionsInv, NEW free, loads' = LoadAgain(free), Open', UNCHANGED <<db, created>>
  PROVE  loads' \in [Loads -> {None, Asked} \cup ReadLoad] /\ LoadsFit'
<1>1. loads \in [Loads -> {None, Asked} \cup ReadLoad] /\ LoadsFit /\ Asked \notin ReadLoad
  BY ConstantsGive DEF CollectionsInv, TypeOK
<1>2. loads' \in [Loads -> {None, Asked} \cup ReadLoad]
  BY <1>1 DEF LoadAgain
<1>3. \A l \in Loads : loads'[l] = loads[l] \/ loads'[l] = Asked
  BY <1>1 DEF LoadAgain
<1> QED BY <1>1, <1>2, <1>3 DEF LoadsFit

\* Only what is on its way changes, or the page says that it loads or failed to.
LEMMA LoadStateKeeps ==
  ASSUME CollectionsInv, Open, page' \in Page, page'.lists = page.lists,
         page'.active = page.active, UNCHANGED <<db, created, offer, catalogue, call, blurred>>,
         loads' \in [Loads -> {None, Asked} \cup ReadLoad], LoadsFit'
  PROVE  CollectionsInv'
<1>1. Open' /\ PageFits /\ CallFits
  BY ConstantsGive DEF CollectionsInv, Open
<1>2. PageFits' /\ CallFits'
  BY <1>1 DEF PageFits, CallFits
<1> QED BY <1>2, PageKeeps DEF CollectionsInv, TypeOK

LEMMA SignInKeeps == ASSUME CollectionsInv, SignIn PROVE CollectionsInv'
<1> DEFINE none == [i \in {} |-> None]
<1>1. none \in ListsOf(AnyId) /\ DOMAIN none = {}
  <2>1. none \in [{} -> List]
    OBVIOUS
  <2> QED BY <2>1, AreListsOf
<1>2. /\ UNCHANGED <<db, created, offer, catalogue, call, blurred>> /\ ~Open
      /\ page' = [load |-> "loading", lists |-> none, active |-> None]
      /\ loads' = LoadAgain(Loads)
  BY DEF SignIn, FreshPage
<1> HIDE DEF none
<1>3. page' \in Page /\ page'.lists = none /\ page'.active = None
  BY <1>1, <1>2 DEF Page
<1>4. call = None /\ blurred \subseteq AnyId
  BY <1>2 DEF CollectionsInv, CallFits, TypeOK
<1>5. PageFits' /\ CallFits'
  BY <1>1, <1>2, <1>3, <1>4 DEF PageFits, CallFits
<1>6. Open'
  BY <1>3, ConstantsGive DEF CollectionsInv, Open
<1> QED BY <1>2, <1>3, <1>4, <1>5, <1>6, AgainFits, PageKeeps

LEMMA SignOutKeeps == ASSUME CollectionsInv, SignOut PROVE CollectionsInv'
<1>1. TypeOK'
  BY DEF CollectionsInv, TypeOK, SignOut, NoLoads, Open
<1>2. LoadsFit'
  BY ConstantsGive DEF CollectionsInv, SignOut, LoadsFit, NoLoads
<1> QED
  BY <1>1, <1>2 DEF SignOut, CollectionsInv, PageFits, CallFits, Open

LEMMA ReloadKeeps == ASSUME CollectionsInv, Reload PROVE CollectionsInv'
<1>1. page \in Page /\ Open
  BY DEF CollectionsInv, TypeOK, Reload, Idle, Open
<1>2. page' \in Page /\ page'.lists = page.lists /\ page'.active = page.active
  BY <1>1 DEF Reload, Page
<1>3. Open'
  BY <1>2, ConstantsGive DEF CollectionsInv, Open
<1> QED BY <1>1, <1>2, <1>3, AgainFits, LoadStateKeeps DEF Reload

\* Requests that the page does not show in advance.
LEMMA PlainRequestKeeps ==
  ASSUME CollectionsInv, Idle, NEW op \in {"create", "copy", "delete", "activate"},
         NEW id \in AnyId \cup {None}, NEW change \in Rows \cup {None},
         Begin(page, Request(op, id, change))
  PROVE  CollectionsInv'
<1>1. /\ page \in Page /\ Open /\ call = None /\ PageFits
      /\ page.active \in DOMAIN page.lists \cup {None}
      /\ loads \in [Loads -> {None, Asked} \cup ReadLoad] /\ LoadsFit
      /\ blurred \subseteq AnyId
  BY DEF CollectionsInv, TypeOK, Idle, Open
<1>2. /\ call' = Request(op, id, change)
      /\ UNCHANGED <<db, created, offer, catalogue, page, loads, blurred>>
  BY DEF Begin
<1>3. /\ call' \in Call /\ call'.op = op /\ call'.seen = {} /\ call'.stage = "asked"
  BY <1>2 DEF Request, Call
<1>4. PageFits' /\ LoadsFit'
  BY <1>1, <1>2 DEF PageFits, LoadsFit, Open
<1>5. CallFits'
  BY <1>1, <1>2, <1>3 DEF CallFits, Open, Versioned, RowChanges
<1> QED BY <1>1, <1>2, <1>3, <1>4, <1>5, PageKeeps

\* A change of the active list, as it is shown and asked for.
HasActive(p) == p \in Page /\ p.active \in DOMAIN p.lists
IsChange(c, p, op, change, list) ==
  /\ c.page \in Page /\ c.page.active = p.active
  /\ DOMAIN c.page.lists = DOMAIN p.lists /\ c.page.lists[p.active] = list
  /\ \A id \in DOMAIN p.lists : id # p.active => c.page.lists[id] = p.lists[id]
  /\ c.call \in Call /\ c.call.op = op /\ c.call.id = p.active
  /\ c.call.change = change /\ c.call.previous = p.lists[p.active]
  /\ c.call.stage = "asked" /\ c.call.between = FALSE

LEMMA ChangingFits ==
  ASSUME NEW p, HasActive(p), NEW op \in Versioned,
         NEW change, change \in Rows \cup {None}, NEW list \in List
  PROVE  IsChange(Changing(p, op, change, list), p, op, change, list)
<1> DEFINE c == Changing(p, op, change, list)
<1> DEFINE lists == [p.lists EXCEPT ![p.active] = list]
<1>1. p \in Page /\ p.lists \in ListsOf(AnyId) /\ p.lists[p.active] \in List
      /\ p.active \in AnyId /\ p.active \in DOMAIN p.lists
  BY PageFields DEF HasActive
<1>2. /\ lists \in ListsOf(AnyId) /\ DOMAIN lists = DOMAIN p.lists /\ lists[p.active] = list
      /\ \A id \in DOMAIN p.lists : id # p.active => lists[id] = p.lists[id]
  BY <1>1, ChangedLists
<1>3. c.page = [p EXCEPT !.lists = lists]
  BY DEF Changing
<1>4. c.call = [Request(op, p.active, change) EXCEPT !.previous = p.lists[p.active]]
  BY DEF Changing
<1> HIDE DEF lists, c
<1>5. /\ c.page \in Page /\ c.page.active = p.active /\ c.page.load = p.load
      /\ c.page.lists = lists
  BY <1>1, <1>2, <1>3 DEF Page
<1>6. /\ c.call \in Call /\ c.call.op = op /\ c.call.id = p.active
      /\ c.call.change = change /\ c.call.previous = p.lists[p.active]
      /\ c.call.stage = "asked" /\ c.call.between = FALSE
  BY <1>1, <1>4 DEF Request, Call
<1>7. IsChange(c, p, op, change, list)
  BY <1>2, <1>5, <1>6 DEF IsChange
<1> QED BY <1>7 DEF c

\* A change begins on a page that fits.
LEMMA ChangeKeeps ==
  ASSUME CollectionsInv, Open, NEW p \in Page, p.active \in DOMAIN p.lists, p.active \in Ids,
         DOMAIN p.lists \subseteq 0 .. created,
         \A id \in DOMAIN p.lists :
           /\ Behind(p.lists[id], id, db)
           /\ Agrees(p.lists[id], id, db) \/ id \in blurred',
         NEW op \in Versioned, NEW change \in Rows \cup {None}, NEW list \in List,
         op \in {"add", "remove"} => change \in Rows,
         list.version = p.lists[p.active].version,
         NEW c, c = Changing(p, op, change, list),
         op \in RowChanges => list.rows = RowsAfter(p.lists[p.active].rows, c.call),
         page' = c.page, call' = c.call,
         blurred' \subseteq AnyId, UNCHANGED <<db, created, offer, catalogue, loads>>
  PROVE  CollectionsInv'
<1>1. /\ page' \in Page /\ page'.active = p.active
      /\ DOMAIN page'.lists = DOMAIN p.lists /\ page'.lists[p.active] = list
      /\ \A id \in DOMAIN p.lists : id # p.active => page'.lists[id] = p.lists[id]
      /\ call' \in Call /\ call'.op = op /\ call'.id = p.active
      /\ call'.change = change /\ call'.previous = p.lists[p.active]
      /\ call'.stage = "asked" /\ call'.between = FALSE
  <2>1. HasActive(p)
    BY DEF HasActive
  <2>2. IsChange(c, p, op, change, list)
    BY <2>1, ChangingFits
  <2> QED BY <2>2 DEF IsChange
<1>2. call' # None /\ Open'
  BY <1>1, ConstantsGive DEF CollectionsInv, Open
<1>3. Behind(list, p.active, db)
  BY DEF Behind
<1>4. PageFits'
  BY <1>1, <1>2, <1>3 DEF PageFits
<1>5. CallFits'
  <2>1. p.active \in 1 .. created
    BY CreatedType
  <2>2. p.lists[p.active] \in List
    BY PageFields
  <2>3. op \notin {"create", "copy"}
    BY DEF Versioned
  <2> QED BY <1>1, <1>2, <2>1, <2>2, <2>3 DEF CallFits
<1>6. /\ loads \in [Loads -> {None, Asked} \cup ReadLoad] /\ LoadsFit'
      /\ page'.active \in DOMAIN page'.lists
  BY <1>1, <1>2 DEF CollectionsInv, TypeOK, LoadsFit
<1> QED BY <1>1, <1>4, <1>5, <1>6, PageKeeps

\* Adding and removing a row are changes of that kind.
LEMMA AddingFits ==
  ASSUME NEW p, HasActive(p), NEW r \in Rows
  PROVE  \E list \in List :
           /\ list.version = p.lists[p.active].version
           /\ Adding(p, r) = Changing(p, "add", r, list)
           /\ list.rows = RowsAfter(p.lists[p.active].rows, Adding(p, r).call)
<1> DEFINE old == p.lists[p.active]
           list == [old EXCEPT !.rows = old.rows \cup {r}]
<1>1. old \in List
  BY PageFields DEF HasActive
<1>2. list \in List /\ list.version = old.version /\ list.rows = old.rows \cup {r}
  BY <1>1 DEF List
<1>3. Adding(p, r) = Changing(p, "add", r, list)
  BY DEF Adding
<1> HIDE DEF list
<1>4. Adding(p, r).call.op = "add" /\ Adding(p, r).call.change = r
  <2>1. "add" \in Versioned /\ r \in Rows \cup {None} /\ list \in List
    BY <1>2 DEF Versioned
  <2>2. IsChange(Adding(p, r), p, "add", r, list)
    BY <1>3, <2>1, ChangingFits
  <2> QED BY <2>2 DEF IsChange
<1>5. RowsAfter(old.rows, Adding(p, r).call) = old.rows \cup {r}
  BY <1>4 DEF RowsAfter
<1> QED BY <1>2, <1>3, <1>5

LEMMA RemovingFits ==
  ASSUME NEW p, HasActive(p), NEW r \in Rows
  PROVE  \E list \in List :
           /\ list.version = p.lists[p.active].version
           /\ Removing(p, r) = Changing(p, "remove", r, list)
           /\ list.rows = RowsAfter(p.lists[p.active].rows, Removing(p, r).call)
<1> DEFINE old == p.lists[p.active]
           list == [old EXCEPT !.rows = old.rows \ {r}]
<1>1. old \in List
  BY PageFields DEF HasActive
<1>2. list \in List /\ list.version = old.version /\ list.rows = old.rows \ {r}
  BY <1>1 DEF List
<1>3. Removing(p, r) = Changing(p, "remove", r, list)
  BY DEF Removing
<1> HIDE DEF list
<1>4. Removing(p, r).call.op = "remove" /\ Removing(p, r).call.change = r
  <2>1. "remove" \in Versioned /\ r \in Rows \cup {None} /\ list \in List
    BY <1>2 DEF Versioned
  <2>2. IsChange(Removing(p, r), p, "remove", r, list)
    BY <1>3, <2>1, ChangingFits
  <2> QED BY <2>2 DEF IsChange
<1>5. RowsAfter(old.rows, Removing(p, r).call) = old.rows \ {r}
  BY <1>4 DEF RowsAfter
<1> QED BY <1>2, <1>3, <1>5


\* On a page with an own list chosen and nothing under way.
LEMMA OwnListFits ==
  ASSUME CollectionsInv, Idle, OwnActive
  PROVE  /\ HasActive(page) /\ page \in Page /\ page.active \in DOMAIN page.lists /\ Open
         /\ page.active \in Ids /\ DOMAIN page.lists \subseteq 0 .. created
         /\ \A id \in DOMAIN page.lists :
              /\ Behind(page.lists[id], id, db)
              /\ Agrees(page.lists[id], id, db) \/ id \in blurred
         /\ blurred \subseteq AnyId
<1>1. page \in Page /\ Open /\ call = None /\ PageFits
  BY DEF CollectionsInv, TypeOK, Idle, Open
<1>2. page.active \in DOMAIN page.lists /\ page.active \in Ids
  BY ConstantsGive, <1>1 DEF CollectionsInv, TypeOK, OwnActive, AnyId
<1> QED BY <1>1, <1>2 DEF HasActive, PageFits, CollectionsInv, TypeOK

LEMMA OwnChangeKeeps ==
  ASSUME CollectionsInv, Idle, OwnActive, NEW op \in Versioned,
         NEW change, change \in Rows \cup {None}, NEW list \in List,
         op \in {"add", "remove"} => change \in Rows,
         list.version = page.lists[page.active].version,
         NEW c, c = Changing(page, op, change, list),
         op \in RowChanges => list.rows = RowsAfter(page.lists[page.active].rows, c.call),
         BeginChange(c)
  PROVE  CollectionsInv'
<1>1. /\ page' = c.page /\ call' = c.call
      /\ UNCHANGED <<db, created, offer, catalogue, loads, blurred>>
  BY DEF BeginChange, Begin
<1> QED BY <1>1, OwnListFits, ChangeKeeps

LEMMA AddKeeps ==
  ASSUME CollectionsInv, Idle, OwnActive, NEW r \in Rows, BeginChange(Adding(page, r))
  PROVE  CollectionsInv'
<1>1. PICK list \in List :
        /\ list.version = page.lists[page.active].version
        /\ Adding(page, r) = Changing(page, "add", r, list)
        /\ list.rows = RowsAfter(page.lists[page.active].rows, Adding(page, r).call)
  BY OwnListFits, AddingFits
<1>2. "add" \in Versioned /\ r \in Rows \cup {None}
  BY DEF Versioned
<1> QED BY <1>1, <1>2, OwnChangeKeeps

LEMMA RemoveKeeps ==
  ASSUME CollectionsInv, Idle, OwnActive, NEW r \in Rows, BeginChange(Removing(page, r))
  PROVE  CollectionsInv'
<1>1. PICK list \in List :
        /\ list.version = page.lists[page.active].version
        /\ Removing(page, r) = Changing(page, "remove", r, list)
        /\ list.rows = RowsAfter(page.lists[page.active].rows, Removing(page, r).call)
  BY OwnListFits, RemovingFits
<1>2. "remove" \in Versioned /\ r \in Rows \cup {None}
  BY DEF Versioned
<1> QED BY <1>1, <1>2, OwnChangeKeeps

LEMMA ToggleKeeps ==
  ASSUME CollectionsInv, NEW r \in Rows, Toggle(r) PROVE CollectionsInv'
<1>1. Idle
  BY DEF Toggle, Bar
<1>2. CASE Begin(page, Request("create", None, r))
  BY <1>1, <1>2, PlainRequestKeeps
<1>3. CASE OwnActive /\ BeginChange(Adding(page, r))
  BY <1>1, <1>3, AddKeeps
<1>4. CASE OwnActive /\ BeginChange(Removing(page, r))
  BY <1>1, <1>4, RemoveKeeps
<1> QED BY <1>2, <1>3, <1>4 DEF Toggle

LEMMA RemoveRowKeeps ==
  ASSUME CollectionsInv, NEW r \in Rows, RemoveRow(r) PROVE CollectionsInv'
BY RemoveKeeps DEF RemoveRow, Dialog

LEMMA ClearKeeps == ASSUME CollectionsInv, Clear PROVE CollectionsInv'
<1> DEFINE old == page.lists[page.active]
           list == [old EXCEPT !.rows = {}]
           c == Changing(page, "clear", None, list)
<1>1. Idle /\ OwnActive /\ BeginChange(c)
  BY DEF Clear, Bar, Shown
<1>2. old \in List
  BY <1>1, OwnListFits, PageFields
<1>3. list \in List /\ list.version = old.version /\ list.rows = {}
  BY <1>2 DEF List
<1>4. "clear" \in Versioned /\ None \in Rows \cup {None}
  BY DEF Versioned
<1> HIDE DEF list, c
<1>5. IsChange(c, page, "clear", None, list)
  BY <1>1, <1>3, <1>4, OwnListFits, ChangingFits DEF c
<1>6. list.rows = RowsAfter(old.rows, c.call)
  BY <1>3, <1>5 DEF IsChange, RowsAfter
<1>7. c = Changing(page, "clear", None, list)
  BY DEF c
<1> QED BY <1>1, <1>3, <1>4, <1>6, <1>7, OwnChangeKeeps

LEMMA UpdateKeeps == ASSUME CollectionsInv, Update PROVE CollectionsInv'
<1> DEFINE list == page.lists[page.active]
           c == Changing(page, "update", None, list)
<1>1. Idle /\ OwnActive /\ BeginChange(c)
  BY DEF Update, Dialog, Shown
<1>2. list \in List
  BY <1>1, OwnListFits, PageFields
<1>3. "update" \in Versioned /\ None \in Rows \cup {None} /\ "update" \notin RowChanges
  BY DEF Versioned, RowChanges
<1>4. c = Changing(page, "update", None, list) /\ list.version = page.lists[page.active].version
  OBVIOUS
<1> HIDE DEF list, c
<1> QED BY <1>1, <1>2, <1>3, <1>4, OwnChangeKeeps

LEMMA PageActsKeep == ASSUME CollectionsInv, PageActs PROVE CollectionsInv'
<1>1. CASE Create
  BY <1>1, PlainRequestKeeps DEF Create, Bar
<1>2. CASE Copy
  <2>1. Foreign \in AnyId
    BY DEF AnyId
  <2> QED BY <1>2, <2>1, PlainRequestKeeps DEF Copy, Bar, Dialog
<1>3. CASE Delete
  <2>1. page.active \in AnyId
    BY <1>3 DEF Delete, OwnActive, AnyId
  <2> QED BY <1>3, <2>1, PlainRequestKeeps DEF Delete, Dialog
<1>4. ASSUME NEW id \in AnyId, Activate(id) PROVE CollectionsInv'
  BY <1>4, PlainRequestKeeps DEF Activate, Bar
<1> QED
  BY <1>1, <1>2, <1>3, <1>4, SignInKeeps, SignOutKeeps, ReloadKeeps, ToggleKeeps,
     RemoveRowKeeps, ClearKeeps, UpdateKeeps
  DEF PageActs

-----------------------------------------------------------------------------
(* Answers. *)

LEMMA LoadReadKeeps ==
  ASSUME CollectionsInv, NEW l \in Loads, LoadRead(l) PROVE CollectionsInv'
<1> DEFINE s == Normalised(db)
           load == [stage |-> "read", state |-> s]
<1>1. s \in State /\ Earlier(s, db, created)
  BY RecordItself, EarlierNormalised
<1>2. /\ loads \in [Loads -> {None, Asked} \cup ReadLoad] /\ LoadsFit
      /\ loads' = [loads EXCEPT ![l] = load]
      /\ UNCHANGED <<db, created, offer, catalogue, page, call, blurred>>
  BY DEF CollectionsInv, TypeOK, LoadRead
<1> HIDE DEF s
<1>3. load \in ReadLoad /\ load.state = s
  BY <1>1 DEF ReadLoad
<1> HIDE DEF load
<1>4. loads' \in [Loads -> {None, Asked} \cup ReadLoad]
  BY <1>2, <1>3
<1>5. LoadsFit'
  BY <1>1, <1>2, <1>3, ConstantsGive DEF CollectionsInv, LoadsFit, LoadRead, Open
<1>6. TypeOK'
  BY <1>2, <1>4 DEF CollectionsInv, TypeOK, Open
<1> QED
  BY <1>2, <1>5, <1>6 DEF CollectionsInv, PageFits, CallFits, Open

\* The answer a page is given: all lists of a record as it was.
LEMMA PayloadFits ==
  ASSUME CollectionsInv, NEW s \in State, Earlier(s, db, created)
  PROVE  /\ Payload(s).lists \in ListsOf(AnyId) /\ DOMAIN Payload(s).lists \subseteq 0 .. created
         /\ \A id \in DOMAIN Payload(s).lists : Agrees(Payload(s).lists[id], id, db)
         /\ Payload(s).active \in AnyId \cup {None}
         /\ Payload(s).active \in DOMAIN Payload(s).lists \cup {None}
         /\ s.active \in DOMAIN s.lists =>
              Payload(s).active = s.active /\ Payload(s).active \in 1 .. created
<1> DEFINE foreign == [rows |-> offer, version |-> 1]
           shown == IF offer = None THEN s.lists ELSE With(s.lists, Foreign, foreign)
           active == IF s.active \in DOMAIN shown THEN s.active ELSE FirstOf(DOMAIN s.lists)
<1>1. /\ s.lists \in ListsOf(Ids) /\ DOMAIN s.lists \subseteq Ids
      /\ \A id \in DOMAIN s.lists : s.lists[id] \in List
      /\ s.active \in AnyId \cup {None} /\ DOMAIN s.lists \subseteq 1 .. created
      /\ created \in Nat
  BY StateFields, CreatedType DEF Earlier
<1>2. s.lists \in ListsOf(AnyId)
  BY <1>1, ListsAre, AreListsOf DEF AnyId
<1>3. /\ shown \in ListsOf(AnyId)
      /\ \A id : id \in DOMAIN shown => id \in DOMAIN s.lists \/ id = Foreign
      /\ \A id \in DOMAIN s.lists : id \in DOMAIN shown /\ (id # Foreign => shown[id] = s.lists[id])
  <2>1. CASE offer = None
    BY <1>2, <2>1
  <2>2. CASE offer # None
    <3>1. foreign \in List
      BY <2>2, ConstantsGive DEF CollectionsInv, TypeOK, List
    <3>2. Foreign \in AnyId
      BY DEF AnyId
    <3> HIDE DEF foreign
    <3> QED BY <1>2, <2>2, <3>1, <3>2, WithLists
  <2> QED BY <2>1, <2>2
<1>4. Payload(s) = [lists |-> shown, active |-> active]
  BY DEF Payload
<1> HIDE DEF shown
<1>5. FirstOf(DOMAIN s.lists) \in DOMAIN s.lists \cup {None}
  BY <1>1, FirstOfFits
<1>6. /\ active \in AnyId \cup {None} /\ active \in DOMAIN shown \cup {None}
      /\ s.active \in DOMAIN s.lists => active = s.active
  BY <1>1, <1>3, <1>5 DEF AnyId
<1> HIDE DEF active
<1>7. DOMAIN shown \subseteq 0 .. created
  BY <1>1, <1>3 DEF Foreign
<1>8. ASSUME NEW id \in DOMAIN shown PROVE Agrees(shown[id], id, db)
  <2>1. CASE id = Foreign
    <3>1. id \notin DOMAIN db.lists
      BY <2>1 DEF CollectionsInv, RecordFits, Foreign
    <3> QED BY <3>1 DEF Agrees, Behind
  <2>2. CASE id # Foreign
    BY <1>3, <1>8, <2>2 DEF Earlier
  <2> QED BY <2>1, <2>2
<1>9. Payload(s).lists = shown /\ Payload(s).active = active
  BY <1>4
<1>10. s.active \in DOMAIN s.lists => active \in 1 .. created
  BY <1>1, <1>6
<1> QED BY <1>3, <1>6, <1>7, <1>8, <1>9, <1>10

\* A page that has got all lists of a record as it was.
ShowsAll(q, s) ==
  /\ q \in Page /\ q.active \in DOMAIN q.lists \cup {None}
  /\ DOMAIN q.lists \subseteq 0 .. created
  /\ \A id \in DOMAIN q.lists : Agrees(q.lists[id], id, db)
  /\ s.active \in DOMAIN s.lists =>
       q.active = s.active /\ q.active \in 1 .. created /\ q.active \in DOMAIN q.lists

LEMMA AppliedFits ==
  ASSUME CollectionsInv, NEW p \in Page, NEW s \in State, Earlier(s, db, created)
  PROVE  ShowsAll(Applied(p, Payload(s)), s)
<1> DEFINE a == Payload(s)
           lists == a.lists
           active == a.active
<1>1. /\ lists \in ListsOf(AnyId) /\ DOMAIN lists \subseteq 0 .. created
      /\ \A id \in DOMAIN lists : Agrees(lists[id], id, db)
      /\ active \in AnyId \cup {None} /\ active \in DOMAIN lists \cup {None}
      /\ s.active \in DOMAIN s.lists => active = s.active /\ active \in 1 .. created
  BY PayloadFits
<1>2. Applied(p, a) = [p EXCEPT !.load = "loaded", !.lists = lists, !.active = active]
  BY DEF Applied
<1>3. None \notin 1 .. created
  BY CreatedType, ConstantsGive DEF CollectionsInv, AnyId, Ids
<1> HIDE DEF lists, active, a
<1>4. /\ Applied(p, a) \in Page /\ Applied(p, a).lists = lists
      /\ Applied(p, a).active = active
  BY <1>1, <1>2 DEF Page
<1>5. ShowsAll(Applied(p, a), s)
  BY <1>1, <1>3, <1>4 DEF ShowsAll
<1> QED BY <1>5 DEF a

LEMMA LoadAnsweredKeeps ==
  ASSUME CollectionsInv, NEW l \in Loads, LoadAnswered(l) PROVE CollectionsInv'
<1> DEFINE s == loads[l].state
<1>1. /\ loads \in [Loads -> {None, Asked} \cup ReadLoad] /\ LoadsFit /\ ConstantsFit
      /\ call \in Call \cup {None} /\ CallFits /\ blurred \subseteq AnyId
  BY DEF CollectionsInv, TypeOK
<1>2. /\ page' = Applied(page, Payload(s)) /\ loads' = [loads EXCEPT ![l] = None]
      /\ call' = IF call = None THEN None ELSE [call EXCEPT !.between = TRUE]
      /\ blurred' = IF call = None THEN {} ELSE blurred \cap {call.id}
      /\ UNCHANGED <<db, created, offer, catalogue>>
      /\ loads[l] # None /\ loads[l].stage = "read"
  BY DEF LoadAnswered
<1>3. Open /\ page \in Page /\ loads[l] \in ReadLoad
  BY <1>1, <1>2 DEF LoadsFit, CollectionsInv, TypeOK, Open, Asked
<1>4. s \in State /\ Earlier(s, db, created)
  BY <1>1, <1>3 DEF LoadsFit, ReadLoad
<1> HIDE DEF s
<1>5. ShowsAll(page', s)
  BY <1>2, <1>3, <1>4, AppliedFits
<1>6. Open' /\ page' \in Page /\ page'.active \in DOMAIN page'.lists \cup {None}
  BY <1>1, <1>5, ConstantsGive DEF ShowsAll, Open
<1>7. PageFits'
  BY <1>2, <1>5 DEF PageFits, ShowsAll, Agrees
<1>8. loads' \in [Loads -> {None, Asked} \cup ReadLoad] /\ LoadsFit'
  BY <1>1, <1>2, <1>6, ConstantsGive DEF LoadsFit
<1>9. call' \in Call \cup {None} /\ CallFits' /\ blurred' \subseteq AnyId
  <2>1. CASE call = None
    BY <1>2, <2>1 DEF CallFits
  <2>2. CASE call # None
    <3>1. call \in Call /\ call' = [call EXCEPT !.between = TRUE]
      BY <1>1, <1>2, <2>2
    <3>2. /\ call' \in Call /\ call'.op = call.op /\ call'.id = call.id
          /\ call'.change = call.change /\ call'.previous = call.previous
          /\ call'.stage = call.stage /\ call'.seen = call.seen
          /\ call'.state = call.state /\ call'.between
      BY <3>1 DEF Call
    <3>3. call.id \in blurred => call'.id \in blurred'
      BY <1>2, <2>2, <3>2
    <3>4. \A rows : RowsAfter(rows, call') = RowsAfter(rows, call)
      BY <3>2, RowsAfterSame
    <3>5. CallFits'
      BY <1>1, <1>2, <1>6, <2>2, <3>2, <3>3, <3>4 DEF CallFits
    <3> QED BY <1>1, <1>2, <3>2, <3>5
  <2> QED BY <2>1, <2>2
<1> QED BY <1>2, <1>6, <1>7, <1>8, <1>9, PageKeeps

LEMMA LoadFailsKeeps ==
  ASSUME CollectionsInv, NEW l \in Loads, LoadFails(l) PROVE CollectionsInv'
<1>1. /\ loads \in [Loads -> {None, Asked} \cup ReadLoad] /\ LoadsFit
      /\ page' = [page EXCEPT !.load = "error"] /\ loads' = [loads EXCEPT ![l] = None]
      /\ loads[l] # None /\ UNCHANGED <<db, created, offer, catalogue, call, blurred>>
  BY DEF CollectionsInv, TypeOK, LoadFails
<1>2. Open /\ page \in Page
  BY <1>1 DEF LoadsFit, CollectionsInv, TypeOK, Open
<1>3. page' \in Page /\ page'.lists = page.lists /\ page'.active = page.active
  BY <1>1, <1>2 DEF Page
<1>4. loads' \in [Loads -> {None, Asked} \cup ReadLoad] /\ LoadsFit'
  BY <1>1, <1>2, <1>3, ConstantsGive DEF LoadsFit, Open, CollectionsInv
<1> QED BY <1>1, <1>2, <1>3, <1>4, LoadStateKeeps

\* The page gives the list that a row change was for the version it got.
LEMMA RowsAnsweredKeeps == ASSUME CollectionsInv, RowsAnswered PROVE CollectionsInv'
<1> DEFINE id == call.id
           stored == call.state.lists[id]
           list == [page.lists[id] EXCEPT !.version = stored.version]
           lists == [page.lists EXCEPT ![id] = list]
<1>1. /\ call # None /\ call.stage = "stored" /\ call.op \in RowChanges
      /\ page' = IF id \in DOMAIN page.lists
                   THEN [page EXCEPT !.lists[id].version = stored.version] ELSE page
      /\ blurred' = IF call.between THEN blurred \cup {id} ELSE blurred
      /\ call' = None /\ UNCHANGED <<db, created, offer, catalogue, loads>>
  BY DEF RowsAnswered, RowChanges
<1>2. /\ call \in Call /\ CallFits /\ PageFits /\ ConstantsFit /\ Open /\ page \in Page
      /\ page.active \in DOMAIN page.lists \cup {None} /\ blurred \subseteq AnyId
      /\ loads \in [Loads -> {None, Asked} \cup ReadLoad] /\ LoadsFit
  BY <1>1 DEF CollectionsInv, CallFits, TypeOK, Open
<1>3. /\ call.op \in Versioned /\ id \in 1 .. created /\ id \in AnyId /\ call.between \in BOOLEAN
      /\ call.previous \in List /\ call.state \in State /\ Earlier(call.state, db, created)
      /\ id \in DOMAIN call.state.lists
      /\ id \in blurred \/ stored.rows = RowsAfter(call.previous.rows, call)
      /\ ~call.between /\ id \in DOMAIN page.lists =>
           page.lists[id].rows = RowsAfter(call.previous.rows, call)
  <2>1. call.op \in Versioned /\ call.between \in BOOLEAN
    BY <1>1, <1>2, CallFields DEF Versioned, RowChanges
  <2>2. id \in 1 .. created
    BY <1>1, <1>2, <2>1 DEF CallFits
  <2>3. id \in AnyId
    BY <2>2, CreatedType, ConstantsGive DEF CollectionsInv, AnyId
  <2>4. call.state \in State /\ Earlier(call.state, db, created)
        /\ call.previous \in List
    BY <1>1, <1>2, <2>1 DEF CallFits
  <2>5. /\ id \in DOMAIN call.state.lists
        /\ id \in blurred \/ stored.rows = RowsAfter(call.previous.rows, call)
    BY <1>1, <1>2 DEF CallFits
  <2>6. ~call.between /\ id \in DOMAIN page.lists =>
          page.lists[id].rows = RowsAfter(call.previous.rows, call)
    BY <1>1, <1>2 DEF CallFits
  <2> HIDE DEF id, stored
  <2> QED BY <2>1, <2>2, <2>3, <2>4, <2>5, <2>6
<1>4. stored \in List /\ Agrees(stored, id, db)
  BY <1>3, StateFields DEF Earlier
<1> HIDE DEF stored, id
<1>5. /\ page' \in Page /\ page'.active = page.active
      /\ DOMAIN page'.lists = DOMAIN page.lists
      /\ \A i \in DOMAIN page.lists : i # id => page'.lists[i] = page.lists[i]
      /\ id \in DOMAIN page.lists =>
           /\ page'.lists[id].version = stored.version
           /\ page'.lists[id].rows = page.lists[id].rows
  <2>1. CASE id \in DOMAIN page.lists
    <3>1. page.lists \in ListsOf(AnyId) /\ page.lists[id] \in List
      BY <1>2, <2>1, PageFields
    <3>2. /\ list \in List /\ list.version = stored.version
          /\ list.rows = page.lists[id].rows
      BY <1>4, <3>1 DEF List
    <3>3. page' = [page EXCEPT !.lists = lists]
      BY <1>1, <1>2, <2>1
    <3> HIDE DEF list
    <3>4. /\ lists \in ListsOf(AnyId) /\ DOMAIN lists = DOMAIN page.lists /\ lists[id] = list
          /\ \A i \in DOMAIN page.lists : i # id => lists[i] = page.lists[i]
      BY <2>1, <3>1, <3>2, ChangedLists
    <3> HIDE DEF lists
    <3>5. page' \in Page /\ page'.active = page.active /\ page'.lists = lists
      BY <1>2, <3>3, <3>4 DEF Page
    <3> QED BY <3>2, <3>4, <3>5
  <2>2. CASE id \notin DOMAIN page.lists
    BY <1>1, <1>2, <2>2
  <2> QED BY <2>1, <2>2
<1>6. Open'
  BY <1>2, <1>5, ConstantsGive DEF Open
<1>7. blurred \subseteq blurred' /\ blurred' \subseteq AnyId /\ (call.between => id \in blurred')
  BY <1>1, <1>2, <1>3
<1>8. PageFits'
  <2> SUFFICES ASSUME NEW i \in DOMAIN page.lists
               PROVE  /\ Behind(page'.lists[i], i, db)
                      /\ Agrees(page'.lists[i], i, db) \/ i \in blurred'
    BY <1>1, <1>2, <1>5 DEF PageFits, Agrees, Behind
  <2>1. CASE i = id
    BY <1>3, <1>4, <1>5, <1>7, <2>1 DEF Agrees, Behind
  <2>2. CASE i # id
    BY <1>2, <1>5, <1>7, <2>2 DEF PageFits, id
  <2> QED BY <2>1, <2>2
<1>9. LoadsFit' /\ CallFits' /\ loads' \in [Loads -> {None, Asked} \cup ReadLoad]
  BY <1>1, <1>2, <1>6 DEF LoadsFit, CallFits
<1>10. page'.active \in DOMAIN page'.lists \cup {None} /\ call' \in Call \cup {None}
  BY <1>1, <1>2, <1>5
<1> QED BY <1>1, <1>5, <1>7, <1>8, <1>9, <1>10, PageKeeps

\* Every other answer shows all lists; the checkbox that created one adds its row.
LEMMA AnsweredKeeps == ASSUME CollectionsInv, Answered PROVE CollectionsInv'
<1> DEFINE p == Applied(page, Payload(call.state))
<1>1. /\ call # None /\ call.stage = "stored" /\ blurred' = {}
      /\ UNCHANGED <<db, created, offer, catalogue, loads>>
  BY DEF Answered
<1>2. /\ call \in Call /\ CallFits /\ ConstantsFit /\ Open /\ page \in Page
      /\ loads \in [Loads -> {None, Asked} \cup ReadLoad] /\ LoadsFit
  BY <1>1 DEF CollectionsInv, CallFits, TypeOK, Open
<1>3. /\ call.state \in State /\ Earlier(call.state, db, created)
      /\ call.op = "create" => call.state.active \in DOMAIN call.state.lists
  BY <1>1, <1>2 DEF CallFits
<1>4. ShowsAll(p, call.state)
  BY <1>2, <1>3, AppliedFits
<1>5. CASE page' = p /\ call' = None
  <2>1. Open'
    BY <1>2, <1>4, <1>5, ConstantsGive DEF ShowsAll, Open
  <2>2. PageFits'
    BY <1>1, <1>4, <1>5 DEF PageFits, ShowsAll, Agrees
  <2>3. LoadsFit' /\ CallFits' /\ loads' \in [Loads -> {None, Asked} \cup ReadLoad]
    BY <1>1, <1>2, <1>5, <2>1 DEF LoadsFit, CallFits
  <2>4. page' \in Page /\ page'.active \in DOMAIN page'.lists \cup {None}
    BY <1>4, <1>5 DEF ShowsAll
  <2> QED BY <1>1, <1>5, <2>2, <2>3, <2>4, PageKeeps
<1>6. CASE /\ call.op = "create" /\ call.change # None
           /\ page' = Adding(p, call.change).page /\ call' = Adding(p, call.change).call
  <2> DEFINE r == call.change
             c == Adding(p, r)
  <2>1. r \in Rows
    BY <1>2, <1>6, CallFields
  <2> HIDE DEF p
  <2>2. /\ p \in Page /\ HasActive(p) /\ p.active \in Ids /\ p.active \in DOMAIN p.lists
        /\ DOMAIN p.lists \subseteq 0 .. created
        /\ \A i \in DOMAIN p.lists : Behind(p.lists[i], i, db) /\ Agrees(p.lists[i], i, db)
    <3>1. p.active \in 1 .. created
      BY <1>3, <1>4, <1>6 DEF ShowsAll
    <3>2. p.active \in Ids
      BY <3>1, CreatedType, ConstantsGive DEF CollectionsInv
    <3> QED BY <1>3, <1>4, <1>6, <3>2 DEF ShowsAll, HasActive, Agrees
  <2>3. PICK list \in List :
          /\ list.version = p.lists[p.active].version
          /\ c = Changing(p, "add", r, list)
          /\ list.rows = RowsAfter(p.lists[p.active].rows, c.call)
    BY <2>1, <2>2, AddingFits
  <2>4. "add" \in Versioned /\ r \in Rows \cup {None} /\ page' = c.page /\ call' = c.call
    BY <1>6, <2>1 DEF Versioned
  <2> HIDE DEF c, r
  <2> QED BY <1>1, <1>2, <2>1, <2>2, <2>3, <2>4, ChangeKeeps
<1> QED BY <1>5, <1>6 DEF Answered

\* What the page showed in advance is taken back.
LEMMA RevertedKeeps ==
  ASSUME CollectionsInv, call # None, call' = None, NEW load \in {"loading", "loaded", "error"},
         page' = [Reverted(page) EXCEPT !.load = load],
         loads' = loads \/ (\E free : loads' = LoadAgain(free)),
         UNCHANGED <<db, created, offer, catalogue, blurred>>
  PROVE  CollectionsInv'
<1> DEFINE id == call.id
           lists == [page.lists EXCEPT ![id] = call.previous]
<1>1. /\ call \in Call /\ CallFits /\ PageFits /\ ConstantsFit /\ Open /\ page \in Page
      /\ page.active \in DOMAIN page.lists \cup {None} /\ blurred \subseteq AnyId
      /\ loads \in [Loads -> {None, Asked} \cup ReadLoad] /\ LoadsFit
  BY DEF CollectionsInv, CallFits, TypeOK, Open
<1>2. /\ page' \in Page /\ page'.active = page.active
      /\ DOMAIN page'.lists = DOMAIN page.lists
      /\ \A i \in DOMAIN page.lists :
           page'.lists[i] = IF call.op \in Versioned /\ i = id THEN call.previous
                                                               ELSE page.lists[i]
  <2>1. CASE call.op \in Versioned /\ id \in DOMAIN page.lists
    <3>1. page.lists \in ListsOf(AnyId) /\ call.previous \in List
      BY <1>1, <2>1, PageFields DEF CallFits
    <3>2. page' = [page EXCEPT !.lists = lists, !.load = load]
      BY <1>1, <2>1 DEF Reverted, Page
    <3>3. /\ lists \in ListsOf(AnyId) /\ DOMAIN lists = DOMAIN page.lists
          /\ lists[id] = call.previous
          /\ \A i \in DOMAIN page.lists : i # id => lists[i] = page.lists[i]
      BY <2>1, <3>1, ChangedLists
    <3> HIDE DEF lists, id
    <3>4. page' \in Page /\ page'.active = page.active /\ page'.lists = lists
      BY <1>1, <3>2, <3>3 DEF Page
    <3> QED BY <2>1, <3>3, <3>4
  <2>2. CASE ~(call.op \in Versioned /\ id \in DOMAIN page.lists)
    <3>1. page' = [page EXCEPT !.load = load]
      BY <2>2 DEF Reverted
    <3>2. page' \in Page /\ page'.active = page.active /\ page'.lists = page.lists
      BY <1>1, <3>1 DEF Page
    <3> QED BY <2>2, <3>2
  <2> QED BY <2>1, <2>2
<1>3. Open'
  BY <1>1, <1>2, ConstantsGive DEF Open
<1>4. PageFits'
  <2> SUFFICES ASSUME NEW i \in DOMAIN page.lists
               PROVE  /\ Behind(page'.lists[i], i, db)
                      /\ Agrees(page'.lists[i], i, db) \/ i \in blurred
    BY <1>1, <1>2 DEF PageFits, Agrees, Behind
  <2>1. CASE call.op \in Versioned /\ i = id
    <3>1. page'.lists[i] = call.previous
      BY <1>2, <2>1
    <3> QED BY <1>1, <2>1, <3>1 DEF CallFits
  <2>2. CASE ~(call.op \in Versioned /\ i = id)
    <3>1. page'.lists[i] = page.lists[i]
      BY <1>2, <2>2
    <3> QED BY <1>1, <2>2, <3>1 DEF PageFits
  <2> QED BY <2>1, <2>2
<1>5. loads' \in [Loads -> {None, Asked} \cup ReadLoad] /\ LoadsFit'
  <2>1. CASE loads' = loads
    BY <1>1, <1>3, <2>1 DEF LoadsFit
  <2>2. CASE \E free : loads' = LoadAgain(free)
    BY <1>3, <2>2, AgainFits
  <2> QED BY <2>1, <2>2
<1>6. CallFits' /\ call' \in Call \cup {None}
  BY DEF CallFits
<1> QED BY <1>1, <1>2, <1>4, <1>5, <1>6, PageKeeps

LEMMA ConflictKeeps == ASSUME CollectionsInv, Conflict PROVE CollectionsInv'
BY RevertedKeeps DEF Conflict

LEMMA CallFailsKeeps == ASSUME CollectionsInv, CallFails PROVE CollectionsInv'
<1>1. page \in Page
  BY DEF CollectionsInv, CallFits, TypeOK, CallFails, Open
<1>2. /\ page.load \in {"loading", "loaded", "error"}
      /\ Reverted(page) = [Reverted(page) EXCEPT !.load = page.load]
  BY <1>1, PageFields DEF Reverted, Page
<1> QED BY <1>2, RevertedKeeps DEF CallFails

-----------------------------------------------------------------------------
(* What always holds. *)

LEMMA StepKeeps == CollectionsInv /\ [Next]_vars => CollectionsInv'
<1> SUFFICES ASSUME CollectionsInv, [Next]_vars PROVE CollectionsInv'
  OBVIOUS
<1>1. CASE PageActs
  BY <1>1, PageActsKeep
<1>2. CASE Read
  BY <1>2, ReadKeeps
<1>3. CASE Store
  BY <1>3, StoreNewKeeps, StoreChangeKeeps, StoreActiveKeeps, StoreDeletionKeeps DEF Store
<1>4. CASE OthersAct
  BY <1>4, OthersActKeep
<1>5. CASE Answer
  BY <1>5, LoadReadKeeps, LoadAnsweredKeeps, LoadFailsKeeps, RowsAnsweredKeeps, AnsweredKeeps,
     ConflictKeeps, CallFailsKeeps
  DEF Answer
<1>6. CASE UNCHANGED vars
  <2>1. UNCHANGED <<db, created, offer, catalogue, page, call, loads, blurred>>
    BY <1>6 DEF vars
  <2> QED BY <2>1, RecordItself, ServerKeeps
<1> QED BY <1>1, <1>2, <1>3, <1>4, <1>5, <1>6 DEF Next

LEMMA InvHolds == Spec => []CollectionsInv
<1>1. Init => CollectionsInv
  BY InitHolds, CollectionsAssumption
<1> QED BY <1>1, StepKeeps, PTL DEF Spec

\* A request comes to be stored in no other step than the server's.
LEMMA OnlyTheServerStores ==
  ASSUME CollectionsInv, [Next]_vars, call # None, call.stage # "stored", call' # None,
         call'.stage = "stored"
  PROVE  Store
<1>1. call \in Call /\ Open
  BY DEF CollectionsInv, TypeOK, CallFits
<1>2. CASE PageActs
  BY <1>1, <1>2
  DEF PageActs, SignIn, SignOut, Reload, Toggle, RemoveRow, Clear, Update, Create, Copy, Delete,
      Activate, Bar, Dialog, Idle
<1>3. CASE Read
  <2>1. /\ call.op \in {"add", "activate", "copy"}
        /\ call' =
             CASE call.op = "add" -> [call EXCEPT !.stage = "read", !.seen = catalogue]
               [] call.op = "activate" -> [call EXCEPT !.stage = "read",
                                             !.seen = IF offer = None THEN {} ELSE {Foreign}]
               [] call.op = "copy" -> IF offer = None THEN [call EXCEPT !.stage = "failed"]
                                      ELSE [call EXCEPT !.stage = "read", !.seen = offer]
    BY <1>3 DEF Read, ReadsFirst
  <2>2. call'.stage \in {"read", "failed"}
    BY <1>1, <2>1 DEF Call
  <2> QED BY <2>2
<1>4. CASE OthersAct
  BY <1>4
  DEF OthersAct, ElsewhereCreates, ElsewhereDeletes, ElsewhereChanges, ElsewhereActivates,
      Elsewhere, OfferChanges, CatalogueChanges
<1>5. CASE Answer
  <2>1. ASSUME NEW l \in Loads, LoadAnswered(l) PROVE FALSE
    <3>1. call' = [call EXCEPT !.between = TRUE]
      BY <2>1 DEF LoadAnswered
    <3> QED BY <1>1, <3>1 DEF Call
  <2> QED
    BY <1>5, <2>1 DEF Answer, LoadRead, LoadFails, RowsAnswered, Answered, Conflict, CallFails
<1>6. CASE UNCHANGED vars
  BY <1>6 DEF vars
<1> QED BY <1>2, <1>3, <1>4, <1>5, <1>6 DEF Next

LEMMA StoredAsSeen ==
  ASSUME CollectionsInv, [Next]_vars, call # None, call.stage # "stored", call.op \in Versioned,
         call' # None, call'.stage = "stored"
  PROVE  db.lists[call.id].rows = call.previous.rows \/ call.id \in blurred
<1>1. call \in Call /\ CallFits /\ Normalised(db).lists = db.lists
  BY RecordItself, NormalisedFits DEF CollectionsInv, TypeOK
<1>2. StoreChange
  BY OnlyTheServerStores DEF Store, StoreNew, StoreActive, StoreDeletion, Versioned
<1>3. ASSUME NEW s \in {"failed", "conflict"}, Refuse(s) PROVE FALSE
  BY <1>1, <1>3 DEF Refuse, Call
<1>4. call.id \in DOMAIN db.lists /\ UpToDate(db.lists[call.id], call)
  BY <1>1, <1>2, <1>3 DEF StoreChange
<1> QED BY <1>1, <1>4 DEF CallFits, Agrees, UpToDate

\* The collections, the page and its requests keep their types, and an identity never has
\* more lists than MAX_ITEM_COLLECTIONS (mutateState and the create and copy of
\* item-collections.service.ts).
THEOREM TypesHold == Spec => []TypeOK
<1>1. CollectionsInv => TypeOK
  BY DEF CollectionsInv
<1> QED BY <1>1, InvHolds, PTL

\* No stored list falls behind the version a page shows, and the rows under one version
\* are the same (applyItemCollectionsPayload, the answers to row changes and the changes
\* taken back in item-explorer-collections.service.ts).
THEOREM AnswersStayTrue == Spec => []NothingAnsweredIsLost
<1>1. CollectionsInv => NothingAnsweredIsLost
  <2> SUFFICES ASSUME CollectionsInv, Open, NEW id \in DOMAIN page.lists \cap DOMAIN db.lists
               PROVE  /\ page.lists[id].version <= db.lists[id].version
                      /\ \/ page.lists[id].version < db.lists[id].version
                         \/ page.lists[id].rows = db.lists[id].rows
                         \/ id \in blurred
                         \/ call # None /\ call.id = id
    BY DEF NothingAnsweredIsLost
  <2>1. page \in Page /\ db \in State /\ ConstantsFit /\ PageFits
    BY DEF CollectionsInv, TypeOK, Open
  <2>2. page.lists[id].version \in Nat /\ db.lists[id].version \in Nat
    BY <2>1, PageFields, StateFields, ListFields
  <2> QED BY <2>1, <2>2 DEF PageFits, Agrees, Behind
<1> QED BY <1>1, InvHolds, PTL

\* What updateItemCollection and mutateItemCollectionRows accept was asked for on a page
\* that showed the rows they change.
THEOREM StoredChangesAreInformed == Spec => ChangesAreInformed
<1> DEFINE Informed ==
      \A id \in Ids :
        /\ call # None /\ call.stage # "stored"
        /\ call.op \in Versioned /\ call.id = id
        /\ call' # None /\ call'.stage = "stored"
        => \/ db.lists[id].rows = call.previous.rows
           \/ id \in blurred
<1>1. CollectionsInv /\ [Next]_vars => [Informed]_vars
  BY StoredAsSeen
<1>2. ChangesAreInformed <=> [][Informed]_vars
  BY DEF ChangesAreInformed
<1> HIDE DEF Informed
<1> QED BY <1>1, <1>2, InvHolds, PTL DEF Spec

=============================================================================
