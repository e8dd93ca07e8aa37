------------------------ MODULE PersonalItemDataProofs ------------------------
(***************************************************************************)
(* Machine-checked proofs about PersonalItemData, for any identities, rows *)
(* and limits: no edit is forgotten before a save has confirmed it, a page *)
(* shows what is stored, and rows get into the record of another identity  *)
(* only by a request that a change of the token has overtaken.             *)
(***************************************************************************)
EXTENDS PersonalItemData, WellFoundedInduction, TLAPS

-----------------------------------------------------------------------------
(* Queues. *)

\* Only i has written the data of row r, unless the row is among those that have
\* crossed.
Authentic(c, data, i, r) == data # None => data.by \subseteq {i} \/ <<i, r>> \in c

\* A queue of i: one update per row, numbered up to n.
Legit(c, q, i, n) ==
  /\ \A j, k \in DOMAIN q : q[j].row = q[k].row => j = k
  /\ \A k \in DOMAIN q : q[k].version <= n
  /\ \A k \in DOMAIN q : Authentic(c, q[k].data, i, q[k].row)

LEMMA EmptyQueue == ASSUME NEW c, NEW i, NEW n PROVE Legit(c, <<>>, i, n)
BY DEF Legit

LEMMA UpdateType ==
  ASSUME NEW u \in Update
  PROVE  u.row \in Rows /\ u.version \in Nat /\ u.data \in Data
BY BoundsAssumption DEF Update

\* More rows may cross, and more edits be made.
LEMMA LaterLegit ==
  ASSUME NEW c, NEW d, c \subseteq d, NEW q \in Seq(Update), NEW i,
         NEW n \in Nat, NEW m \in Nat, n <= m, Legit(c, q, i, n)
  PROVE  Legit(d, q, i, m)
<1>1. \A k \in DOMAIN q : q[k].version \in Nat
  BY UpdateType
<1> QED BY <1>1 DEF Legit, Authentic

\* An update replaces the entry of its row or comes last.
LEMMA PutEntries ==
  ASSUME NEW q \in Seq(Update), NEW u \in Update
  PROVE  /\ Put(q, u) \in Seq(Update) /\ Put(q, u) # <<>>
         /\ q # <<>> => Head(Put(q, u)) = IF Head(q).row = u.row THEN u ELSE Head(q)
         /\ \A k \in DOMAIN Put(q, u) :
              \/ Put(q, u)[k] = u
              \/ k \in DOMAIN q /\ Put(q, u)[k] = q[k] /\ q[k].row # u.row
         /\ \E k \in DOMAIN Put(q, u) : Put(q, u)[k] = u
         /\ \A k \in DOMAIN q :
              k \in DOMAIN Put(q, u) /\ (q[k].row # u.row => Put(q, u)[k] = q[k])
<1>1. CASE Queued(q, u.row)
  <2> DEFINE p == [k \in DOMAIN q |-> IF q[k].row = u.row THEN u ELSE q[k]]
  <2>1. Put(q, u) = p /\ DOMAIN p = DOMAIN q
    BY <1>1 DEF Put
  <2>2. PICK j \in DOMAIN q : q[j].row = u.row
    BY <1>1 DEF Queued
  <2>3. Len(q) \in Nat /\ DOMAIN q = 1 .. Len(q) /\ q # <<>>
    BY <2>2
  <2>4. \A k \in 1 .. Len(q) : p[k] \in Update
    BY <2>3
  <2>5. p \in Seq(Update) /\ Len(p) = Len(q)
    BY <2>1, <2>3, <2>4
  <2>6. p[j] = u /\ p # <<>>
    BY <2>2, <2>3, <2>5
  <2>7. 1 \in DOMAIN q /\ Head(q) = q[1] /\ Head(p) = p[1]
    BY <2>3, <2>5, <2>6
  <2> QED BY <2>1, <2>2, <2>5, <2>6, <2>7
<1>2. CASE ~Queued(q, u.row)
  <2>1. Put(q, u) = Append(q, u)
    BY <1>2 DEF Put
  <2>2. /\ Append(q, u) \in Seq(Update) /\ Len(Append(q, u)) = Len(q) + 1
        /\ Append(q, u)[Len(q) + 1] = u
        /\ \A k \in 1 .. Len(q) : Append(q, u)[k] = q[k]
        /\ DOMAIN q = 1 .. Len(q) /\ DOMAIN Append(q, u) = 1 .. Len(q) + 1
        /\ Len(q) \in Nat
    OBVIOUS
  <2>3. \A k \in DOMAIN q : q[k].row # u.row
    BY <1>2 DEF Queued
  <2>4. q # <<>> => 1 \in DOMAIN q /\ Head(q) = q[1] /\ Head(Append(q, u)) = q[1]
    BY <2>2
  <2>5. Append(q, u) # <<>>
    BY <2>2
  <2> QED BY <2>1, <2>2, <2>3, <2>4, <2>5
<1> QED BY <1>1, <1>2

LEMMA PutLegit ==
  ASSUME NEW c, NEW q \in Seq(Update), NEW u \in Update, NEW i, NEW n \in Nat,
         Legit(c, q, i, n), u.version = n + 1, Authentic(c, u.data, i, u.row)
  PROVE  Legit(c, Put(q, u), i, n + 1)
<1> DEFINE p == Put(q, u)
<1>1. \A k \in DOMAIN p :
        \/ p[k] = u
        \/ k \in DOMAIN q /\ p[k] = q[k] /\ q[k].row # u.row
  BY PutEntries
<1>2. \A k \in DOMAIN q : q[k].version \in Nat
  BY UpdateType
<1>3. \A k \in DOMAIN p : p[k].version <= n + 1
  BY <1>1, <1>2 DEF Legit
<1>4. \A k \in DOMAIN p : Authentic(c, p[k].data, i, p[k].row)
  BY <1>1 DEF Legit
<1>5. \A j, k \in DOMAIN p : p[j] = u /\ p[k] = u => j = k
  <2>1. CASE Queued(q, u.row)
    <3>1. p = [k \in DOMAIN q |-> IF q[k].row = u.row THEN u ELSE q[k]]
      BY <2>1 DEF Put
    <3>2. \A k \in DOMAIN p : k \in DOMAIN q /\ (p[k] = u => q[k].row = u.row)
      BY <3>1
    <3> QED BY <3>2 DEF Legit
  <2>2. CASE ~Queued(q, u.row)
    <3>1. p = Append(q, u)
      BY <2>2 DEF Put
    <3>2. \A k \in DOMAIN p : k \notin DOMAIN q => k = Len(q) + 1
      BY <3>1
    <3>3. \A k \in DOMAIN q : p[k] # u
      BY <2>2, <3>1 DEF Queued
    <3> QED BY <3>2, <3>3
  <2> QED BY <2>1, <2>2
<1>6. \A j, k \in DOMAIN p : p[j].row = p[k].row => j = k
  BY <1>1, <1>5 DEF Legit
<1> QED BY <1>3, <1>4, <1>6 DEF Legit

\* Confirming the first entry leaves the others.
LEMMA TailEntries ==
  ASSUME NEW c, NEW q \in Seq(Update), q # <<>>, NEW i, NEW n \in Nat,
         Legit(c, q, i, n)
  PROVE  /\ Tail(q) \in Seq(Update) /\ Legit(c, Tail(q), i, n)
         /\ \A k \in DOMAIN Tail(q) : \E j \in DOMAIN q :
              Tail(q)[k] = q[j] /\ q[j].row # Head(q).row
         /\ \A j \in DOMAIN q : q[j].row # Head(q).row =>
              \E k \in DOMAIN Tail(q) : Tail(q)[k] = q[j]
         /\ \A j \in DOMAIN q : q[j].row = Head(q).row => q[j] = Head(q)
<1> DEFINE t == Tail(q)
<1>1. /\ t \in Seq(Update) /\ Len(q) \in Nat /\ Len(q) >= 1 /\ Len(t) = Len(q) - 1
      /\ DOMAIN q = 1 .. Len(q) /\ DOMAIN t = 1 .. Len(q) - 1 /\ Head(q) = q[1]
      /\ \A k \in 1 .. Len(q) - 1 : t[k] = q[k + 1]
  OBVIOUS
<1> HIDE DEF t
<1>2. \A j \in DOMAIN q : q[j].row = Head(q).row => j = 1
  BY <1>1 DEF Legit
<1>3. \A k \in DOMAIN t : k + 1 \in DOMAIN q /\ t[k] = q[k + 1] /\ k + 1 # 1
  BY <1>1
<1>4. \A j \in DOMAIN q : j # 1 => j - 1 \in DOMAIN t /\ t[j - 1] = q[j]
  BY <1>1
<1>5. Legit(c, t, i, n)
  <2>1. \A j, k \in DOMAIN t : t[j].row = t[k].row => j = k
    <3> TAKE j, k \in DOMAIN t
    <3> HAVE t[j].row = t[k].row
    <3>1. j + 1 = k + 1
      BY <1>3 DEF Legit
    <3> QED BY <1>1, <3>1
  <2> QED BY <1>3, <2>1 DEF Legit
<1> QED BY <1>1, <1>2, <1>3, <1>4, <1>5 DEF t

-----------------------------------------------------------------------------
(* The number a restored queue goes on from. *)

Below == {p \in Nat \X Nat : p[1] < p[2]}

\* Numbers up to b have a greatest one.
LEMMA Greatest ==
  ASSUME NEW b \in Nat, NEW S \in SUBSET (0 .. b), S # {}
  PROVE  \E n \in S : \A m \in S : m <= n
<1> DEFINE T == {t \in 0 .. b : b - t \in S}
<1>1. T \subseteq Nat /\ T # {}
  <2>1. PICK n \in S : n \in 0 .. b
    OBVIOUS
  <2>2. b - n \in 0 .. b /\ b - (b - n) = n
    BY <2>1
  <2>3. b - n \in T
    BY <2>1, <2>2
  <2> QED BY <2>3
<1>2. IsWellFoundedOn(Below, Nat)
  BY NatLessThanWellFounded DEF OpToRel, Below
<1>3. PICK t \in T : \A u \in T : ~ (<<u, t>> \in Below)
  <2> HIDE DEF T
  <2> QED BY <1>1, <1>2, WFMin
<1>4. b - t \in S /\ t \in 0 .. b
  OBVIOUS
<1>5. ASSUME NEW m \in S PROVE m <= b - t
  <2>1. m \in 0 .. b /\ b - m \in 0 .. b /\ b - (b - m) = m
    OBVIOUS
  <2>2. b - m \in Nat /\ t \in Nat /\ ~ (<<b - m, t>> \in Below)
    BY <1>3, <1>4, <2>1
  <2>3. ~ (b - m < t)
    BY <2>2 DEF Below
  <2> QED BY <1>4, <2>1, <2>3
<1> QED BY <1>4, <1>5

LEMMA Highest ==
  ASSUME NEW p \in Page, NEW s \in Suspension
  PROVE  LET n == HighestVersion(p, s)
         IN  /\ n \in 0 .. MaxEdits /\ p.counter <= n
             /\ \A k \in DOMAIN s.updates : s.updates[k].version <= n
             /\ n = p.counter \/ \E k \in DOMAIN s.updates : s.updates[k].version = n
<1> DEFINE S == {p.counter} \cup {u.version : u \in Updates(s.updates)}
           Fits(n) == /\ p.counter <= n /\ \A u \in Updates(s.updates) : u.version <= n
                      /\ n = p.counter \/ \E u \in Updates(s.updates) : u.version = n
<1>1. /\ p.counter \in 0 .. MaxEdits /\ MaxEdits \in Nat
      /\ \A u \in Updates(s.updates) : u \in Update /\ u.version \in 0 .. MaxEdits
  <2>1. s.updates \in Seq(Update) /\ p.counter \in 0 .. MaxEdits
    BY DEF Page, Suspension
  <2>2. \A k \in DOMAIN s.updates : s.updates[k] \in Update
    BY <2>1
  <2>3. \A u \in Updates(s.updates) : u \in Update
    BY <2>2 DEF Updates
  <2>4. \A u \in Update : u.version \in 0 .. MaxEdits
    BY BoundsAssumption DEF Update
  <2> QED BY <2>1, <2>3, <2>4, BoundsAssumption
<1>2. S \in SUBSET (0 .. MaxEdits) /\ S # {}
  BY <1>1
<1>3. PICK n \in S : \A m \in S : m <= n
  <2> HIDE DEF S
  <2> QED BY <1>1, <1>2, Greatest
<1>4. n \in 0 .. MaxEdits /\ Fits(n)
  BY <1>1, <1>3
<1>5. /\ HighestVersion(p, s) \in 0 .. MaxEdits
      /\ Fits(HighestVersion(p, s))
  <2>1. HighestVersion(p, s) = CHOOSE m \in 0 .. MaxEdits : Fits(m)
    BY DEF HighestVersion
  <2> HIDE DEF Fits
  <2> QED BY <1>4, <2>1
<1>6. \A k \in DOMAIN s.updates : s.updates[k] \in Updates(s.updates)
  BY DEF Updates
<1>7. \A u \in Updates(s.updates) : \E k \in DOMAIN s.updates : s.updates[k] = u
  BY DEF Updates
<1> QED BY <1>5, <1>6, <1>7

-----------------------------------------------------------------------------
(* The inductive invariant. *)

\* The page's queue is its author's, is shown, and waits only on a loaded page;
\* what was suspended is gone once the rows are loaded.  A page that has not heard
\* of the token has an event to hear, and what it reads of another has crossed.
PageFits ==
  Open =>
    /\ page.counter <= edits
    /\ page.load # "idle" <=> page.identity # None
    /\ page.load # "loaded" => page.pending = <<>>
    /\ page.load = "loaded" => storage = None
    /\ page.load = "loading" /\ page.as \notin {page.identity, None} =>
         {page.identity} \X Rows \subseteq crossed
    /\ page.identity # token => events # <<>>
    /\ Legit(crossed, page.pending, page.identity, page.counter)
    /\ \A k \in DOMAIN page.pending :
         page.shown[page.pending[k].row] = page.pending[k].data
    /\ \A r \in Rows : Authentic(crossed, page.shown[r], page.identity, r)

\* A suspended queue belongs to whoever the page takes over next, or goes.
StorageFits ==
  storage # None =>
    /\ Legit(crossed, storage.updates, storage.identity, edits)
    /\ Open /\ page.identity # None => storage.identity = page.identity

\* The save in flight is for the first row of the queue: either the very entry or
\* an older edit of the row; what it has stored is in the record.
RequestFits ==
  request # None =>
    /\ Open /\ page.identity # None /\ page.load = "loaded"
    /\ page.pending # <<>> /\ Head(page.pending).row = request.row
    /\ request.version = Head(page.pending).version
         => request.data = Head(page.pending).data
    /\ request.version <= page.counter
    /\ Authentic(crossed, request.data, page.identity, request.row)
    /\ request.by # None => Authentic(crossed, request.data, request.by, request.row)
    /\ request.state = "stored" /\ <<page.identity, request.row>> \notin foreign
         => db[page.identity][request.row] = request.data

LateFits == \A q \in late : q.by # None => Authentic(crossed, q.data, q.by, q.row)

PersonalInv ==
  /\ TypeOK
  /\ PageFits /\ StorageFits /\ RequestFits /\ LateFits
  /\ UnsavedEditsAreKept
  /\ ShownIsStored
  /\ RowsCrossOnlyBetweenSessions

Tokens == Identities \cup {None}
LateSave == [by : Tokens, row : Rows, data : Data]
Acceptance == [Identities -> [Rows -> Update \cup {None}]]

LEMMA NothingType ==
  /\ Nothing \in [Rows -> Data] /\ \A r \in Rows : Nothing[r] = None
  /\ \A c, i : \A r \in Rows : Authentic(c, Nothing[r], i, r)
BY DEF Nothing, Data, Authentic

LEMMA FreshPageType ==
  /\ FreshPage \in Page /\ FreshPage.pending = <<>> /\ FreshPage.load = "idle"
  /\ FreshPage.counter = 0 /\ FreshPage.shown = Nothing
BY NothingType, BoundsAssumption DEF FreshPage, Page

LEMMA InitHolds == Init => PersonalInv
<1> SUFFICES ASSUME Init PROVE PersonalInv
  OBVIOUS
<1>1. TypeOK
  BY NothingType, BoundsAssumption DEF Init, TypeOK, Nothing
<1>2. PageFits /\ StorageFits /\ RequestFits /\ LateFits
  BY DEF Init, PageFits, StorageFits, RequestFits, LateFits, Open
<1>3. UnsavedEditsAreKept /\ ShownIsStored /\ RowsCrossOnlyBetweenSessions
  BY NothingType
  DEF Init, UnsavedEditsAreKept, ShownIsStored, RowsCrossOnlyBetweenSessions, Open
<1> QED BY <1>1, <1>2, <1>3 DEF PersonalInv

\* What the invariant says of authors goes on holding when more rows cross.
LEMMA MoreMayCross ==
  ASSUME PersonalInv, NEW c, crossed \subseteq c
  PROVE  /\ Open => /\ Legit(c, page.pending, page.identity, page.counter)
                    /\ \A r \in Rows : Authentic(c, page.shown[r], page.identity, r)
         /\ storage # None => Legit(c, storage.updates, storage.identity, edits)
         /\ request # None =>
              /\ Authentic(c, request.data, page.identity, request.row)
              /\ request.by # None => Authentic(c, request.data, request.by, request.row)
         /\ \A q \in late : q.by # None => Authentic(c, q.data, q.by, q.row)
         /\ \A i \in Identities, r \in Rows :
              db[i][r] # None => db[i][r].by \subseteq {i} \/ <<i, r>> \in c
<1>1. \A d, i, r : Authentic(crossed, d, i, r) => Authentic(c, d, i, r)
  BY DEF Authentic
<1>2. \A q, i, n : Legit(crossed, q, i, n) => Legit(c, q, i, n)
  BY <1>1 DEF Legit
<1>3. RowsCrossOnlyBetweenSessions /\ LateFits /\ RequestFits /\ StorageFits /\ PageFits
  BY DEF PersonalInv
<1>4. \A i \in Identities, r \in Rows :
        db[i][r] # None => db[i][r].by \subseteq {i} \/ <<i, r>> \in c
  BY <1>3 DEF RowsCrossOnlyBetweenSessions
<1>5. /\ storage # None => Legit(c, storage.updates, storage.identity, edits)
      /\ \A q \in late : q.by # None => Authentic(c, q.data, q.by, q.row)
  BY <1>1, <1>2, <1>3 DEF StorageFits, LateFits
<1>6. Open => /\ Legit(c, page.pending, page.identity, page.counter)
              /\ \A r \in Rows : Authentic(c, page.shown[r], page.identity, r)
  BY <1>1, <1>2, <1>3 DEF PageFits
<1>7. request # None =>
        /\ Authentic(c, request.data, page.identity, request.row)
        /\ request.by # None => Authentic(c, request.data, request.by, request.row)
  BY <1>1, <1>3 DEF RequestFits
<1> QED BY <1>4, <1>5, <1>6, <1>7

-----------------------------------------------------------------------------
(* Sessions. *)

LEMMA AbandonedFits ==
  ASSUME PersonalInv, late' = Abandoned, crossed' = crossed
  PROVE  late' \subseteq LateSave /\ LateFits'
<1>1. late \subseteq LateSave /\ LateFits
  BY DEF PersonalInv, TypeOK, LateSave, Tokens
<1>2. CASE request # None
  <2> DEFINE q == [by |-> request.by, row |-> request.row, data |-> request.data]
  <2>1. q \in LateSave
    BY <1>2 DEF PersonalInv, TypeOK, Request, LateSave, Tokens
  <2>2. q.by # None => Authentic(crossed, q.data, q.by, q.row)
    BY <1>2 DEF PersonalInv, RequestFits
  <2> HIDE DEF q
  <2>3. late' \subseteq late \cup {q}
    BY DEF Abandoned, q
  <2> QED BY <1>1, <2>1, <2>2, <2>3 DEF LateFits
<1>3. CASE request = None
  BY <1>1, <1>3 DEF Abandoned, LateFits
<1> QED BY <1>2, <1>3

\* A page that has not loaded anything, or none at all.
Blank(p, t) ==
  \/ p = None
  \/ /\ p \in Page /\ p.pending = <<>> /\ p.shown = Nothing /\ p.counter <= edits
     /\ p.identity = t /\ p.as = t /\ p.load = IF t = None THEN "idle" ELSE "loading"

LEMMA ResetIsBlank ==
  ASSUME PersonalInv, NEW t \in Tokens
  PROVE  /\ Open => Blank(Reset(page, t), t)
         /\ Blank(Reset(FreshPage, t), t)
<1>1. ASSUME NEW n \in 0 .. MaxEdits, n <= edits, NEW p, p.counter = n
      PROVE  Blank(Reset(p, t), t)
  <2>1. Reset(p, t) = [FreshPage EXCEPT !.identity = t, !.as = t, !.counter = n,
                         !.load = IF t = None THEN "idle" ELSE "loading"]
    BY <1>1 DEF Reset
  <2>2. /\ Reset(p, t) \in Page /\ Reset(p, t).pending = <<>>
        /\ Reset(p, t).shown = Nothing /\ Reset(p, t).counter = n
        /\ Reset(p, t).identity = t /\ Reset(p, t).as = t
        /\ Reset(p, t).load = IF t = None THEN "idle" ELSE "loading"
    BY <2>1, FreshPageType DEF Page, Tokens
  <2> QED BY <1>1, <2>2 DEF Blank
<1>2. edits \in Nat /\ 0 \in 0 .. MaxEdits /\ 0 <= edits
  BY BoundsAssumption DEF PersonalInv, TypeOK
<1>3. Open => page.counter \in 0 .. MaxEdits /\ page.counter <= edits
  BY DEF PersonalInv, TypeOK, PageFits, Page, Open
<1> QED BY <1>1, <1>2, <1>3, FreshPageType

\* What the end of a session and the beginning of another have in common.
LEMMA SessionChanges ==
  ASSUME PersonalInv, token' \in Tokens, Blank(page', token'), request' = None,
         late' = Abandoned, UNCHANGED <<db, catalogue, edits, foreign, crossed>>,
         events' \in Seq(Tokens), messages' \in Seq({"session", "logout"}),
         storage' \in Suspension \cup {None}, StorageFits', accepted' \in Acceptance,
         \A i \in Identities, r \in Rows : accepted'[i][r] # None =>
           /\ storage' # None /\ storage'.identity = i
           /\ Keeps(storage'.updates, r, accepted'[i][r])
  PROVE  PersonalInv'
<1>1. page' \in Page \cup {None}
  BY DEF Blank
<1>2. late' \subseteq LateSave /\ LateFits'
  BY AbandonedFits
<1>3. TypeOK'
  BY <1>1, <1>2 DEF PersonalInv, TypeOK, LateSave, Tokens, Acceptance
<1>4. PageFits'
  BY EmptyQueue, NothingType DEF PageFits, Blank, Open
<1>5. RequestFits'
  BY DEF RequestFits
<1>6. UnsavedEditsAreKept'
  BY DEF UnsavedEditsAreKept
<1>7. ShownIsStored'
  BY DEF ShownIsStored, Blank, Open, CanEdit
<1>8. RowsCrossOnlyBetweenSessions'
  BY DEF PersonalInv, RowsCrossOnlyBetweenSessions
<1> QED BY <1>2, <1>3, <1>4, <1>5, <1>6, <1>7, <1>8 DEF PersonalInv

\* Suspending keeps what the page or the storage kept.
LEMMA SuspendedFits ==
  ASSUME PersonalInv, Open, NEW s \in {storage, None}
  PROVE  /\ Suspended(s) \in Suspension \cup {None}
         /\ Suspended(s) # None =>
              Legit(crossed, Suspended(s).updates, Suspended(s).identity, edits)
         /\ \A i \in Identities, r \in Rows :
              accepted[i][r] # None /\ (s = storage \/ Queueing(i)) =>
                /\ Suspended(s) # None /\ Suspended(s).identity = i
                /\ Keeps(Suspended(s).updates, r, accepted[i][r])
<1>1. CASE page.pending # <<>>
  <2> DEFINE x == [identity |-> page.identity, updates |-> page.pending]
  <2>1. page.load = "loaded" /\ storage = None /\ page.identity # None
    BY <1>1 DEF PersonalInv, PageFits
  <2>2. /\ page.pending \in Seq(Update) /\ page.counter \in Nat
        /\ page.identity \in Identities /\ edits \in Nat
    BY <2>1, BoundsAssumption DEF PersonalInv, TypeOK, Open, Page
  <2>3. Legit(crossed, page.pending, page.identity, edits)
    <3>1. page.counter <= edits /\ Legit(crossed, page.pending, page.identity, page.counter)
      BY DEF PersonalInv, PageFits
    <3> QED BY <2>2, <3>1, LaterLegit
  <2>4. Suspended(s) = x
    BY <1>1 DEF Suspended
  <2>5. x \in Suspension /\ x.identity = page.identity /\ x.updates = page.pending
    BY <2>2 DEF Suspension
  <2>6. x # None
    BY <2>5, NothingAssumption
  <2>7. \A i \in Identities, r \in Rows : accepted[i][r] # None =>
          page.identity = i /\ Keeps(page.pending, r, accepted[i][r])
    BY <2>1 DEF PersonalInv, UnsavedEditsAreKept
  <2> HIDE DEF x
  <2> QED BY <2>3, <2>4, <2>5, <2>6, <2>7
<1>2. CASE page.pending = <<>>
  <2>1. Suspended(s) = s
    BY <1>2 DEF Suspended
  <2>2. ASSUME NEW i \in Identities, NEW r \in Rows, accepted[i][r] # None,
               s = storage \/ Queueing(i)
        PROVE  /\ s = storage /\ storage # None /\ storage.identity = i
               /\ Keeps(storage.updates, r, accepted[i][r])
    <3>1. ~Keeps(page.pending, r, accepted[i][r])
      BY <1>2 DEF Keeps
    <3>2. /\ storage # None /\ storage.identity = i
          /\ Keeps(storage.updates, r, accepted[i][r])
      BY <2>2, <3>1 DEF PersonalInv, UnsavedEditsAreKept
    <3>3. ~Queueing(i)
      BY <3>2 DEF PersonalInv, PageFits, Queueing, CanEdit
    <3> QED BY <2>2, <3>2, <3>3
  <2> QED BY <2>1, <2>2 DEF PersonalInv, TypeOK, StorageFits
<1> QED BY <1>1, <1>2

LEMMA OwnedByEither ==
  ASSUME NEW s, NEW i PROVE OwnedBy(s, i) \in {s, None}
BY DEF OwnedBy

\* The page takes over the token, or has done so already.
LEMMA SyncKeeps ==
  ASSUME PersonalInv, NEW s \in {storage, None}, token' \in Tokens, Sync(token', s),
         UNCHANGED <<db, catalogue, edits, foreign, crossed>>,
         events' \in Seq(Tokens), messages' \in Seq({"session", "logout"}),
         accepted' \in Acceptance,
         \A i \in Identities, r \in Rows : accepted'[i][r] # None =>
           /\ accepted'[i][r] = accepted[i][r]
           /\ s = storage \/ Queueing(i)
           /\ Open /\ page.identity # token' => token' \in {i, None}
  PROVE  PersonalInv'
<1>1. CASE Open /\ page.identity # token'
  <2>1. /\ page' = Reset(page, token') /\ request' = None /\ late' = Abandoned
        /\ storage' = IF token' = None THEN Suspended(s) ELSE OwnedBy(s, token')
    BY <1>1 DEF Sync
  <2>2. Blank(page', token')
    BY <1>1, <2>1, ResetIsBlank
  <2>3. page' # None => page'.identity = token'
    BY <2>2 DEF Blank
  <2>4. CASE token' = None
    <3>1. storage' = Suspended(s)
      BY <2>1, <2>4
    <3>2. StorageFits'
      BY <1>1, <2>3, <2>4, <3>1, SuspendedFits DEF StorageFits, Open
    <3>3. storage' \in Suspension \cup {None}
      BY <1>1, <3>1, SuspendedFits
    <3>4. \A i \in Identities, r \in Rows : accepted'[i][r] # None =>
            /\ storage' # None /\ storage'.identity = i
            /\ Keeps(storage'.updates, r, accepted'[i][r])
      BY <1>1, <3>1, SuspendedFits
    <3> QED BY <2>1, <2>2, <3>2, <3>3, <3>4, SessionChanges
  <2>5. CASE token' # None
    <3>1. storage' = OwnedBy(s, token') /\ storage' \in {storage, None}
      BY <2>1, <2>5, OwnedByEither
    <3>2. storage' # None => storage' = storage /\ storage.identity = token'
      BY <2>5, <3>1 DEF OwnedBy
    <3>3. StorageFits'
      BY <2>3, <3>2 DEF PersonalInv, StorageFits, Open
    <3>4. storage' \in Suspension \cup {None}
      BY <3>1 DEF PersonalInv, TypeOK
    <3>5. ASSUME NEW i \in Identities, NEW r \in Rows, accepted'[i][r] # None
          PROVE  /\ storage' # None /\ storage'.identity = i
                 /\ Keeps(storage'.updates, r, accepted'[i][r])
      <4>1. /\ accepted'[i][r] = accepted[i][r] /\ i = token'
            /\ s = storage \/ Queueing(i)
        BY <1>1, <2>5, <3>5
      <4>2. page.identity # i /\ s = storage
        BY <1>1, <4>1 DEF Queueing
      <4>3. /\ storage # None /\ storage.identity = i
            /\ Keeps(storage.updates, r, accepted[i][r])
        BY <3>5, <4>1, <4>2 DEF PersonalInv, UnsavedEditsAreKept
      <4>4. storage' = storage
        BY <3>1, <4>1, <4>2, <4>3 DEF OwnedBy
      <4> QED BY <4>1, <4>3, <4>4
    <3> QED BY <2>1, <2>2, <3>3, <3>4, <3>5, SessionChanges
  <2> QED BY <2>4, <2>5
<1>2. CASE ~(Open /\ page.identity # token')
  <2>1. storage' = s /\ UNCHANGED <<page, request, late>>
    BY <1>2 DEF Sync
  <2>2. TypeOK'
    BY <2>1 DEF PersonalInv, TypeOK, Tokens, Acceptance
  <2>3. PageFits'
    BY <1>2, <2>1 DEF PersonalInv, PageFits, Open
  <2>4. StorageFits'
    BY <2>1 DEF PersonalInv, StorageFits, Open
  <2>5. RequestFits' /\ LateFits' /\ RowsCrossOnlyBetweenSessions' /\ ShownIsStored'
    BY <2>1
    DEF PersonalInv, RequestFits, LateFits, RowsCrossOnlyBetweenSessions, ShownIsStored,
        Open, CanEdit
  <2>6. UnsavedEditsAreKept'
    <3> SUFFICES ASSUME NEW i \in Identities, NEW r \in Rows, accepted'[i][r] # None
                 PROVE  \/ Open /\ page.identity = i
                           /\ Keeps(page.pending, r, accepted[i][r])
                        \/ s # None /\ s.identity = i
                           /\ Keeps(s.updates, r, accepted[i][r])
      BY <2>1 DEF UnsavedEditsAreKept, Open
    <3>1. accepted[i][r] # None /\ (s = storage \/ Queueing(i))
      OBVIOUS
    <3>2. Queueing(i) => storage = None
      BY DEF PersonalInv, PageFits, Queueing, CanEdit
    <3> QED BY <3>1, <3>2 DEF PersonalInv, UnsavedEditsAreKept
  <2> QED BY <2>2, <2>3, <2>4, <2>5, <2>6 DEF PersonalInv
<1> QED BY <1>1, <1>2

LEMMA TypesOfNews ==
  ASSUME PersonalInv
  PROVE  /\ token \in Tokens /\ events \in Seq(Tokens)
         /\ messages \in Seq({"session", "logout"}) /\ accepted \in Acceptance
         /\ \A i \in Tokens : OnlyOf(i) \in Acceptance
         /\ \A i \in Tokens, j \in Identities, r \in Rows : OnlyOf(i)[j][r] # None =>
              OnlyOf(i)[j][r] = accepted[j][r] /\ i \in {j, None}
<1>1. accepted \in Acceptance
  BY DEF PersonalInv, TypeOK, Acceptance
<1>2. \A i \in Tokens : OnlyOf(i) \in Acceptance
  BY <1>1 DEF OnlyOf, Acceptance, Nothing
<1>3. \A i \in Tokens, j \in Identities, r \in Rows : OnlyOf(i)[j][r] # None =>
        OnlyOf(i)[j][r] = accepted[j][r] /\ i \in {j, None}
  BY DEF OnlyOf, Nothing
<1> QED BY <1>1, <1>2, <1>3 DEF PersonalInv, TypeOK, Tokens

LEMMA SignOutKeeps == ASSUME PersonalInv, SignOut PROVE PersonalInv'
<1>1. token' = None /\ Sync(token', storage)
  BY DEF SignOut
<1> QED BY <1>1, TypesOfNews, SyncKeeps DEF SignOut, Tokens

LEMMA SignInKeeps ==
  ASSUME PersonalInv, NEW i \in Identities, SignIn(i) PROVE PersonalInv'
<1> DEFINE s == OwnedBy(storage, i)
<1>1. /\ token' = i /\ Sync(token', s) /\ accepted' = OnlyOf(i) /\ i \in Tokens
      /\ i # None /\ s \in {storage, None}
  BY OwnedByEither, NoneAssumption DEF SignIn, Tokens
<1>2. accepted' \in Acceptance
  BY <1>1, TypesOfNews
<1>3. \A j \in Identities, r \in Rows : accepted'[j][r] # None =>
        /\ accepted'[j][r] = accepted[j][r] /\ j = i
        /\ s = storage \/ Queueing(j)
  <2> TAKE j \in Identities, r \in Rows
  <2> HAVE accepted'[j][r] # None
  <2>1. accepted'[j][r] = accepted[j][r] /\ j = i
    BY <1>1, TypesOfNews
  <2>2. CASE storage # None /\ storage.identity # i
    <3>1. Open /\ page.identity = i /\ Keeps(page.pending, r, accepted[j][r])
      BY <2>1, <2>2 DEF PersonalInv, UnsavedEditsAreKept
    <3>2. page.pending # <<>>
      BY <3>1 DEF Keeps
    <3> QED BY <2>1, <2>2, <3>1, <3>2 DEF PersonalInv, PageFits
  <2>3. CASE ~(storage # None /\ storage.identity # i)
    BY <2>1, <2>3 DEF OwnedBy
  <2> QED BY <2>1, <2>2, <2>3
<1> QED BY <1>1, <1>2, <1>3, TypesOfNews, SyncKeeps DEF SignIn

\* Another tab changes the token: nothing of this tab does.
LEMMA ElsewhereKeeps ==
  ASSUME PersonalInv, NEW i \in Tokens, NEW m \in {"session", "logout"}, News(i, m),
         token' = i, UNCHANGED <<db, catalogue, page, request, late, storage, edits,
                                 accepted, foreign, crossed>>
  PROVE  PersonalInv'
<1>1. events' \in Seq(Tokens) /\ messages' \in Seq({"session", "logout"}) /\ events' # <<>>
  BY TypesOfNews DEF News
<1>2. TypeOK'
  BY <1>1 DEF PersonalInv, TypeOK, Tokens
<1>3. PageFits'
  BY <1>1 DEF PersonalInv, PageFits, Open
<1> QED
  BY <1>2, <1>3
  DEF PersonalInv, StorageFits, RequestFits, LateFits, UnsavedEditsAreKept, ShownIsStored,
      RowsCrossOnlyBetweenSessions, Open, CanEdit

LEMMA SignInElsewhereKeeps ==
  ASSUME PersonalInv, NEW i \in Identities, SignInElsewhere(i) PROVE PersonalInv'
BY ElsewhereKeeps DEF SignInElsewhere, Tokens

LEMMA SignOutElsewhereKeeps == ASSUME PersonalInv, SignOutElsewhere PROVE PersonalInv'
BY ElsewhereKeeps DEF SignOutElsewhere, Tokens

LEMMA HearTokenKeeps == ASSUME PersonalInv, HearToken PROVE PersonalInv'
<1> DEFINE h == Head(events)
           s == OwnedBy(storage, h)
           heard == [j \in Identities |-> IF Queueing(j) THEN accepted[j] ELSE OnlyOf(h)[j]]
<1>1. /\ h \in Tokens /\ events' \in Seq(Tokens) /\ UNCHANGED <<token, messages>>
      /\ token' \in Tokens /\ messages' \in Seq({"session", "logout"})
      /\ Sync(token', s) /\ s \in {storage, None}
  BY TypesOfNews, OwnedByEither DEF HearToken
<1>2. /\ accepted \in Acceptance /\ OnlyOf(h) \in Acceptance
      /\ \A j \in Identities, r \in Rows : OnlyOf(h)[j][r] # None =>
           OnlyOf(h)[j][r] = accepted[j][r] /\ h \in {j, None}
  BY <1>1, TypesOfNews
<1>3. accepted' = [j \in Identities |->
        IF Open /\ page.identity # token /\ token \notin {j, None} THEN Nothing ELSE heard[j]]
  BY DEF HearToken
<1>4. accepted' \in Acceptance
  BY <1>2, <1>3 DEF Acceptance, Nothing
<1>5. \A j \in Identities, r \in Rows : accepted'[j][r] # None =>
        /\ accepted'[j][r] = heard[j][r]
        /\ Open /\ page.identity # token' => token' \in {j, None}
  BY <1>1, <1>3 DEF Nothing
<1>6. \A j \in Identities, r \in Rows : accepted'[j][r] # None =>
        /\ accepted'[j][r] = accepted[j][r]
        /\ s = storage \/ Queueing(j)
  <2> TAKE j \in Identities, r \in Rows
  <2> HAVE accepted'[j][r] # None
  <2>1. CASE Queueing(j)
    BY <1>5, <2>1
  <2>2. CASE ~Queueing(j)
    <3>1. OnlyOf(h)[j][r] # None /\ accepted'[j][r] = OnlyOf(h)[j][r]
      BY <1>5, <2>2
    <3>2. accepted'[j][r] = accepted[j][r] /\ h \in {j, None}
      BY <1>2, <3>1
    <3>3. ~Keeps(page.pending, r, accepted[j][r]) \/ ~Open \/ page.identity # j
      <4> SUFFICES ASSUME Keeps(page.pending, r, accepted[j][r]), Open, page.identity = j
                   PROVE  FALSE
        OBVIOUS
      <4>1. page.pending # <<>>
        BY DEF Keeps
      <4>2. page.load = "loaded"
        BY <4>1 DEF PersonalInv, PageFits
      <4> QED BY <2>2, <4>2 DEF Queueing, CanEdit
    <3>4. storage # None /\ storage.identity = j
      BY <3>1, <3>2, <3>3 DEF PersonalInv, UnsavedEditsAreKept
    <3>5. s = storage
      BY <3>2, <3>4 DEF OwnedBy
    <3> QED BY <3>2, <3>5
  <2> QED BY <2>1, <2>2
<1> HIDE DEF s, h, heard
<1> QED BY <1>1, <1>4, <1>5, <1>6, SyncKeeps DEF HearToken

LEMMA ProfileArrivesKeeps == ASSUME PersonalInv, ProfileArrives PROVE PersonalInv'
<1>1. /\ token' = token /\ Sync(token', storage) /\ accepted' = OnlyOf(token')
      /\ token' \in Tokens /\ UNCHANGED <<events, messages>>
  BY TypesOfNews DEF ProfileArrives, auth
<1>2. /\ accepted' \in Acceptance
      /\ \A j \in Identities, r \in Rows : accepted'[j][r] # None =>
           accepted'[j][r] = accepted[j][r] /\ token' \in {j, None}
  BY <1>1, TypesOfNews
<1> QED BY <1>1, <1>2, TypesOfNews, SyncKeeps DEF ProfileArrives

LEMMA HearLogoutKeeps == ASSUME PersonalInv, HearLogout PROVE PersonalInv'
<1>1. token' = None /\ token' \in Tokens /\ Sync(token', storage)
  BY DEF HearLogout, Tokens
<1>2. messages' \in Seq({"session", "logout"})
  BY TypesOfNews DEF HearLogout
<1> QED BY <1>1, <1>2, TypesOfNews, SyncKeeps DEF HearLogout

LEMMA HearSessionKeeps == ASSUME PersonalInv, HearSession PROVE PersonalInv'
<1>1. /\ storage' = OwnedBy(storage, token) /\ storage' \in {storage, None}
      /\ messages' \in Seq({"session", "logout"}) /\ token \in Tokens
      /\ UNCHANGED <<db, catalogue, token, events, page, request, late, edits, foreign,
                     crossed>>
  BY TypesOfNews, OwnedByEither DEF HearSession
<1>2. accepted' = [j \in Identities |-> IF Queueing(j) THEN accepted[j] ELSE OnlyOf(token)[j]]
  BY DEF HearSession
<1>3. accepted' \in Acceptance
  BY <1>2, TypesOfNews DEF Acceptance
<1>4. TypeOK'
  BY <1>1, <1>3 DEF PersonalInv, TypeOK, Acceptance
<1>5. PageFits' /\ StorageFits'
  BY <1>1 DEF PersonalInv, PageFits, StorageFits, Open
<1>6. RequestFits' /\ LateFits' /\ ShownIsStored' /\ RowsCrossOnlyBetweenSessions'
  BY <1>1
  DEF PersonalInv, RequestFits, LateFits, ShownIsStored, RowsCrossOnlyBetweenSessions,
      Open, CanEdit
<1>7. UnsavedEditsAreKept'
  <2> SUFFICES ASSUME NEW i \in Identities, NEW r \in Rows, accepted'[i][r] # None
               PROVE  \/ Open /\ page.identity = i
                         /\ Keeps(page.pending, r, accepted'[i][r])
                      \/ storage' # None /\ storage'.identity = i
                         /\ Keeps(storage'.updates, r, accepted'[i][r])
    BY <1>1 DEF UnsavedEditsAreKept, Open
  <2>1. CASE Queueing(i)
    <3>1. accepted'[i][r] = accepted[i][r]
      BY <1>2, <2>1
    <3>2. storage = None
      BY <2>1 DEF PersonalInv, PageFits, Queueing, CanEdit
    <3> QED BY <3>1, <3>2 DEF PersonalInv, UnsavedEditsAreKept
  <2>2. CASE ~Queueing(i)
    <3>1. accepted'[i][r] = accepted[i][r] /\ token \in {i, None}
      BY <1>2, <2>2, TypesOfNews
    <3>2. storage # None /\ storage.identity = i => storage' = storage
      BY <1>1, <3>1 DEF OwnedBy
    <3> QED BY <3>1, <3>2 DEF PersonalInv, UnsavedEditsAreKept
  <2> QED BY <2>1, <2>2
<1> QED BY <1>4, <1>5, <1>6, <1>7 DEF PersonalInv

\* A new page takes up what is suspended for the token, nothing else.
LEMMA OwnedByKeeps ==
  ASSUME PersonalInv, token' = token, storage' = OwnedBy(storage, token),
         UNCHANGED <<edits, crossed>>, page' # None => page'.identity = token
  PROVE  /\ storage' \in Suspension \cup {None} /\ StorageFits'
         /\ \A i \in Identities : storage # None /\ storage.identity = i
              /\ token \in {i, None} => storage' = storage
<1>1. storage' \in {storage, None}
  BY OwnedByEither
<1>2. storage' # None /\ token # None => storage.identity = token
  BY DEF OwnedBy
<1>3. StorageFits'
  BY <1>1, <1>2 DEF PersonalInv, StorageFits, Open
<1>4. \A i \in Identities : storage # None /\ storage.identity = i
        /\ token \in {i, None} => storage' = storage
  BY DEF OwnedBy
<1> QED BY <1>1, <1>3, <1>4 DEF PersonalInv, TypeOK

LEMMA OpenPageKeeps == ASSUME PersonalInv, OpenPage PROVE PersonalInv'
<1>1. request = None /\ late' = Abandoned
  BY DEF OpenPage, PersonalInv, RequestFits, Abandoned
<1>2. /\ ~Open /\ page' = Reset(FreshPage, token) /\ storage' = OwnedBy(storage, token)
      /\ accepted' = OnlyOf(token) /\ token \in Tokens
      /\ UNCHANGED <<db, catalogue, token, events, messages, request, edits, foreign, crossed>>
  BY TypesOfNews DEF OpenPage, auth
<1>3. Blank(page', token') /\ (page' # None => page'.identity = token)
  BY <1>2, ResetIsBlank DEF Blank
<1>4. \A i \in Identities, r \in Rows : accepted'[i][r] # None =>
        accepted'[i][r] = accepted[i][r] /\ token \in {i, None}
  BY <1>2, TypesOfNews
<1>5. /\ storage' \in Suspension \cup {None} /\ StorageFits'
      /\ \A i \in Identities : storage # None /\ storage.identity = i
           /\ token \in {i, None} => storage' = storage
  BY <1>2, <1>3, OwnedByKeeps
<1>6. \A i \in Identities, r \in Rows : accepted'[i][r] # None =>
        /\ storage' # None /\ storage'.identity = i
        /\ Keeps(storage'.updates, r, accepted'[i][r])
  BY <1>2, <1>4, <1>5 DEF PersonalInv, UnsavedEditsAreKept
<1> QED BY <1>1, <1>2, <1>3, <1>5, <1>6, TypesOfNews, SessionChanges

LEMMA DestroyPageKeeps == ASSUME PersonalInv, DestroyPage PROVE PersonalInv'
<1>1. StorageFits'
  BY SuspendedFits DEF DestroyPage, StorageFits, Open
<1> QED
  BY <1>1, SuspendedFits, TypesOfNews, SessionChanges DEF DestroyPage, Blank, auth

LEMMA ReloadTabKeeps == ASSUME PersonalInv, ReloadTab PROVE PersonalInv'
<1>1. /\ Open /\ page' = Reset(FreshPage, token) /\ storage' = OwnedBy(storage, token)
      /\ request' = None /\ late' = Abandoned /\ token \in Tokens
      /\ events' = <<>> /\ messages' = <<>>
      /\ UNCHANGED <<db, catalogue, token, edits, foreign, crossed>>
  BY TypesOfNews DEF ReloadTab
<1>2. Blank(page', token') /\ (page' # None => page'.identity = token)
  BY <1>1, ResetIsBlank DEF Blank
<1>3. /\ accepted' = [j \in Identities |-> [r \in Rows |->
           IF j = page.identity /\ Queued(page.pending, r) THEN None ELSE OnlyOf(token)[j][r]]]
      /\ accepted' \in Acceptance
  BY <1>1, TypesOfNews DEF ReloadTab, Acceptance
<1>4. ASSUME NEW i \in Identities, NEW r \in Rows, accepted'[i][r] # None
      PROVE  /\ accepted'[i][r] = accepted[i][r] /\ token \in {i, None}
             /\ ~(Open /\ page.identity = i /\ Keeps(page.pending, r, accepted[i][r]))
  <2>1. accepted'[i][r] = OnlyOf(token)[i][r] /\ ~(i = page.identity /\ Queued(page.pending, r))
    BY <1>3, <1>4
  <2>2. Keeps(page.pending, r, accepted[i][r]) => Queued(page.pending, r)
    BY DEF Keeps, Queued
  <2> QED BY <1>1, <1>4, <2>1, <2>2, TypesOfNews
<1>5. /\ storage' \in Suspension \cup {None} /\ StorageFits'
      /\ \A i \in Identities : storage # None /\ storage.identity = i
           /\ token \in {i, None} => storage' = storage
  BY <1>1, <1>2, OwnedByKeeps
<1>6. \A i \in Identities, r \in Rows : accepted'[i][r] # None =>
        /\ storage' # None /\ storage'.identity = i
        /\ Keeps(storage'.updates, r, accepted'[i][r])
  BY <1>4, <1>5 DEF PersonalInv, UnsavedEditsAreKept
<1> QED BY <1>1, <1>2, <1>3, <1>5, <1>6, SessionChanges

-----------------------------------------------------------------------------
(* Loading. *)

\* What is sent with the token of another, before the page has heard of it, crosses.
LEMMA CrossesGrow ==
  ASSUME PersonalInv, Open, page.identity # None, NEW p, p.identity = page.identity,
         NEW rows \in SUBSET Rows, Crosses(p, rows)
  PROVE  /\ crossed \subseteq crossed' /\ crossed' \subseteq Identities \X Rows
         /\ token \notin {page.identity, None} =>
              {page.identity} \X rows \subseteq crossed' /\ {token} \X rows \subseteq crossed'
<1>1. /\ page.identity \in Identities /\ token \in Tokens /\ crossed \subseteq Identities \X Rows
      /\ page.identity # token => events # <<>>
  BY DEF PersonalInv, TypeOK, PageFits, Page, Open, Tokens
<1>2. crossed' = crossed \cup (IF token # p.identity /\ events # <<>>
                                 THEN ({token, p.identity} \ {None}) \X rows ELSE {})
  BY DEF Crosses
<1> QED BY <1>1, <1>2 DEF Tokens

LEMMA LoadAnsweredKeeps == ASSUME PersonalInv, LoadAnswered PROVE PersonalInv'
<1> DEFINE i == page.identity
           loaded == [page EXCEPT !.load = "loaded", !.as = None, !.shown = db[page.as]]
<1>1. /\ page \in Page /\ Open /\ page.load = "loading" /\ i \in Identities /\ i # None
      /\ page.as \in Identities
      /\ edits \in Nat /\ page.pending = <<>> /\ page.counter <= edits
      /\ storage \in Suspension \cup {None} /\ request = None
      /\ storage # None => storage.identity = i
      /\ db[page.as] \in [Rows -> Data]
      /\ i # token => events # <<>>
      /\ page.as # i => {i} \X Rows \subseteq crossed
  <2>1. Open /\ page.load = "loading" /\ page.as # None /\ page \in Page
    BY DEF LoadAnswered, PersonalInv, TypeOK, Open
  <2>2. page.as \in Identities /\ i \in Tokens /\ db \in [Identities -> [Rows -> Data]]
    BY <2>1 DEF PersonalInv, TypeOK, Page, Tokens
  <2>3. /\ i # None /\ page.pending = <<>> /\ page.counter <= edits /\ request = None
        /\ i # token => events # <<>>
        /\ page.as # i => {i} \X Rows \subseteq crossed
        /\ storage # None => storage.identity = i
    BY <2>1 DEF PersonalInv, PageFits, RequestFits, StorageFits
  <2> QED BY <2>1, <2>2, <2>3, BoundsAssumption DEF PersonalInv, TypeOK, Tokens
<1>2. /\ loaded \in Page /\ loaded.load = "loaded" /\ loaded.pending = <<>>
      /\ loaded.shown = db[page.as] /\ loaded.counter = page.counter
      /\ loaded.identity = i /\ loaded.as = None
  BY <1>1 DEF Page
<1>3. /\ UNCHANGED <<db, catalogue, token, events, messages, request, late, edits, accepted,
                     crossed>>
      /\ storage' = None
      /\ foreign' = IF page.as = i THEN foreign \ ({i} \X Rows)
                                   ELSE foreign \cup ({i} \X Rows)
      /\ page' = IF storage # None THEN Restored(loaded, storage) ELSE loaded
  BY <1>1 DEF LoadAnswered, auth
<1>4. \A r \in Rows : Authentic(crossed, db[page.as][r], i, r)
  BY <1>1 DEF PersonalInv, RowsCrossOnlyBetweenSessions, Authentic
<1>5. /\ foreign' \subseteq Identities \X Rows
      /\ \A r \in Rows : <<i, r>> \notin foreign' => page.as = i
  BY <1>1, <1>3 DEF PersonalInv, TypeOK
<1> HIDE DEF loaded
<1>6. StorageFits' /\ RequestFits' /\ LateFits' /\ RowsCrossOnlyBetweenSessions'
  BY <1>1, <1>3
  DEF PersonalInv, StorageFits, RequestFits, LateFits, RowsCrossOnlyBetweenSessions
<1>7. CASE storage = None
  <2>1. page' = loaded /\ page' # None
    BY <1>2, <1>3, <1>7, NothingAssumption
  <2>2. TypeOK'
    BY <1>2, <1>3, <1>5, <2>1 DEF PersonalInv, TypeOK
  <2>3. PageFits'
    BY <1>1, <1>2, <1>3, <1>4, <2>1, EmptyQueue DEF PageFits
  <2>4. UnsavedEditsAreKept'
    BY <1>1, <1>3, <1>7 DEF PersonalInv, UnsavedEditsAreKept, Keeps
  <2>5. ShownIsStored'
    BY <1>1, <1>2, <1>3, <1>5, <2>1 DEF ShownIsStored
  <2> QED BY <1>6, <2>2, <2>3, <2>4, <2>5 DEF PersonalInv
<1>8. CASE storage # None
  <2> DEFINE q == storage.updates
             n == HighestVersion(loaded, storage)
  <2>1. /\ storage \in Suspension /\ q \in Seq(Update) /\ storage.identity = i
        /\ Legit(crossed, q, i, edits)
    BY <1>1, <1>8 DEF Suspension, PersonalInv, StorageFits
  <2>2. /\ n \in 0 .. MaxEdits /\ loaded.counter <= n
        /\ \A k \in DOMAIN q : q[k].version <= n
        /\ n = loaded.counter \/ \E k \in DOMAIN q : q[k].version = n
    BY <1>2, <2>1, Highest
  <2>3. \A k \in DOMAIN q : q[k] \in Update /\ q[k].version \in Nat
    BY <2>1, UpdateType
  <2>4. n <= edits
    BY <1>1, <1>2, <2>1, <2>2 DEF Legit
  <2>5. Legit(crossed, q, i, n)
    BY <2>1, <2>2 DEF Legit
  <2>6. \A k \in DOMAIN q :
          (CHOOSE u \in Updates(q) : u.row = q[k].row).data = q[k].data
    <3> TAKE k \in DOMAIN q
    <3>1. q[k] \in Updates(q)
      BY DEF Updates
    <3>2. \A u \in Updates(q) : u.row = q[k].row => u = q[k]
      BY <2>1 DEF Updates, Legit
    <3> QED BY <3>1, <3>2
  <2> DEFINE shown == [r \in Rows |->
                        IF Queued(q, r) THEN (CHOOSE u \in Updates(q) : u.row = r).data
                        ELSE loaded.shown[r]]
  <2>7. \A k \in DOMAIN q : q[k].row \in Rows /\ q[k].data \in Data /\ Queued(q, q[k].row)
    BY <2>3, UpdateType DEF Queued
  <2>8. \A k \in DOMAIN q : shown[q[k].row] = q[k].data
    BY <2>6, <2>7
  <2>9. \A r \in Rows : Queued(q, r) => \E k \in DOMAIN q : q[k].row = r
    BY DEF Queued
  <2>10. \A r \in Rows : shown[r] \in Data /\ Authentic(crossed, shown[r], i, r)
    <3> TAKE r \in Rows
    <3>1. CASE Queued(q, r)
      <4>1. PICK k \in DOMAIN q : q[k].row = r
        BY <2>9, <3>1
      <4>2. Authentic(crossed, q[k].data, i, r)
        BY <2>5, <4>1 DEF Legit
      <4> HIDE DEF shown
      <4> QED BY <2>7, <2>8, <4>1, <4>2
    <3>2. CASE ~Queued(q, r)
      <4>1. shown[r] = db[page.as][r]
        BY <1>2, <3>2
      <4> HIDE DEF shown
      <4> QED BY <1>1, <1>4, <4>1
    <3> QED BY <3>1, <3>2
  <2>11. shown \in [Rows -> Data]
    BY <2>10
  <2>12. /\ page' \in Page /\ page'.load = "loaded" /\ page'.pending = q
         /\ page'.counter = n /\ page'.shown = shown /\ page'.identity = i
    <3>1. page' = [loaded EXCEPT !.shown = shown, !.pending = q, !.counter = n,
                                 !.save = "pending", !.timer = TRUE]
      BY <1>3, <1>8 DEF Restored
    <3> HIDE DEF shown, q, n, i
    <3> QED BY <1>2, <2>1, <2>2, <2>11, <3>1 DEF Page
  <2>13. TypeOK'
    BY <1>3, <1>5, <2>12 DEF PersonalInv, TypeOK
  <2>14. \A r \in Rows : ~Queued(q, r) => shown[r] = db[page.as][r]
    BY <1>2
  <2> HIDE DEF n, shown
  <2>15. PageFits'
    <3>1. \A k \in DOMAIN page'.pending :
            page'.shown[page'.pending[k].row] = page'.pending[k].data
      <4> HIDE DEF q
      <4> QED BY <2>8, <2>12
    <3>2. \A r \in Rows : Authentic(crossed, page'.shown[r], i, r)
      BY <2>10, <2>12
    <3> HIDE DEF q, i
    <3> QED BY <1>1, <1>3, <2>4, <2>5, <2>12, <3>1, <3>2 DEF PageFits
  <2>16. UnsavedEditsAreKept'
    <3>1. page' # None
      BY <2>12, NothingAssumption
    <3>2. \A j \in Identities, r \in Rows : accepted[j][r] # None =>
            i = j /\ Keeps(q, r, accepted[j][r])
      BY <1>1, <2>1 DEF PersonalInv, UnsavedEditsAreKept, Keeps
    <3> QED BY <1>3, <2>12, <3>1, <3>2 DEF UnsavedEditsAreKept, Open
  <2>17. ShownIsStored'
    BY <1>3, <1>5, <2>12, <2>14 DEF ShownIsStored
  <2> QED BY <1>6, <2>13, <2>15, <2>16, <2>17 DEF PersonalInv
<1> QED BY <1>7, <1>8

\* A page that starts loading, or whose load failed, has an empty queue.
LEMMA UnloadedKeeps ==
  ASSUME PersonalInv, Open, page.identity # None, request = None,
         page' \in Page, page'.load \in {"loading", "error"},
         page'.pending = <<>>, page'.counter = page.counter,
         page'.identity = page.identity, page'.shown \in {page.shown, Nothing},
         crossed \subseteq crossed', crossed' \subseteq Identities \X Rows,
         page'.load = "loading" /\ page'.as \notin {page.identity, None} =>
           {page.identity} \X Rows \subseteq crossed',
         storage' \in {storage, None}, accepted' \in Acceptance,
         \A i \in Identities, r \in Rows : accepted'[i][r] # None =>
           accepted'[i][r] = accepted[i][r] /\ storage' = storage /\ page.pending = <<>>,
         UNCHANGED <<db, catalogue, auth, request, late, edits, foreign>>
  PROVE  PersonalInv'
<1>1. UNCHANGED <<token, events, messages>>
  BY DEF auth
<1>2. TypeOK'
  BY <1>1 DEF PersonalInv, TypeOK, Acceptance
<1>3. \A r \in Rows : Authentic(crossed', page'.shown[r], page.identity, r)
  BY MoreMayCross, NothingType
<1>4. PageFits'
  BY <1>1, <1>3, EmptyQueue DEF PersonalInv, PageFits
<1>5. StorageFits' /\ LateFits' /\ RowsCrossOnlyBetweenSessions'
  BY MoreMayCross
  DEF PersonalInv, StorageFits, LateFits, RowsCrossOnlyBetweenSessions, Open
<1>6. RequestFits'
  BY DEF RequestFits
<1>7. UnsavedEditsAreKept'
  <2> SUFFICES ASSUME NEW i \in Identities, NEW r \in Rows, accepted'[i][r] # None
               PROVE  /\ storage' # None /\ storage'.identity = i
                      /\ Keeps(storage'.updates, r, accepted'[i][r])
    BY DEF UnsavedEditsAreKept
  <2>1. /\ accepted'[i][r] = accepted[i][r] /\ storage' = storage
        /\ page.pending = <<>>
    OBVIOUS
  <2>2. ~Keeps(page.pending, r, accepted[i][r])
    BY <2>1 DEF Keeps
  <2> QED BY <2>1, <2>2 DEF PersonalInv, UnsavedEditsAreKept
<1>8. ShownIsStored'
  BY DEF ShownIsStored, CanEdit
<1> QED BY <1>2, <1>4, <1>5, <1>6, <1>7, <1>8 DEF PersonalInv

LEMMA LoadFailsKeeps == ASSUME PersonalInv, LoadFails PROVE PersonalInv'
<1>1. /\ page \in Page /\ page.load = "loading" /\ page.pending = <<>> /\ Open
      /\ page.identity # None /\ request = None
  BY DEF LoadFails, PersonalInv, TypeOK, PageFits, RequestFits, Open
<1>2. /\ page' \in Page /\ page'.load = "error" /\ page'.pending = <<>>
      /\ page'.counter = page.counter /\ page'.identity = page.identity
      /\ page'.shown = page.shown
  BY <1>1 DEF LoadFails, Page
<1>3. UNCHANGED <<db, catalogue, auth, request, late, storage, edits, accepted, foreign, crossed>>
  BY DEF LoadFails
<1> QED BY <1>1, <1>2, <1>3, TypesOfNews, UnloadedKeeps DEF PersonalInv, TypeOK

LEMMA RetryLoadKeeps == ASSUME PersonalInv, RetryLoad PROVE PersonalInv'
<1>1. /\ page \in Page /\ page.load = "error" /\ page.pending = <<>> /\ Open
      /\ page.identity # None /\ request = None /\ token \in Tokens
  BY DEF RetryLoad, PersonalInv, TypeOK, PageFits, Open, Tokens
<1>2. /\ page' \in Page /\ page'.load = "loading" /\ page'.pending = <<>>
      /\ page'.counter = page.counter /\ page'.identity = page.identity
      /\ page'.shown = page.shown /\ page'.as = token
  BY <1>1 DEF RetryLoad, Page, Tokens
<1>3. /\ crossed \subseteq crossed' /\ crossed' \subseteq Identities \X Rows
      /\ token \notin {page.identity, None} => {page.identity} \X Rows \subseteq crossed'
  BY <1>1, CrossesGrow DEF RetryLoad
<1> QED BY <1>1, <1>2, <1>3, TypesOfNews, UnloadedKeeps DEF RetryLoad

LEMMA LoadAgainKeeps == ASSUME PersonalInv, LoadAgain PROVE PersonalInv'
<1>1. /\ page \in Page /\ page.load = "loading" /\ page.pending = <<>> /\ Open
      /\ page.identity # None /\ request = None /\ token \in Tokens
  BY DEF LoadAgain, PersonalInv, TypeOK, PageFits, RequestFits, Open, Tokens
<1>2. /\ page' \in Page /\ page'.load = "loading" /\ page'.pending = <<>>
      /\ page'.counter = page.counter /\ page'.identity = page.identity
      /\ page'.shown = page.shown /\ page'.as = token
  BY <1>1 DEF LoadAgain, Page, Tokens
<1>3. /\ crossed \subseteq crossed' /\ crossed' \subseteq Identities \X Rows
      /\ token \notin {page.identity, None} => {page.identity} \X Rows \subseteq crossed'
  BY <1>1, CrossesGrow DEF LoadAgain
<1> QED BY <1>1, <1>2, <1>3, TypesOfNews, UnloadedKeeps DEF LoadAgain

LEMMA DiscardKeeps == ASSUME PersonalInv, Discard PROVE PersonalInv'
<1>1. /\ page \in Page /\ Open /\ request = None /\ page.pending # <<>>
      /\ token \in Tokens /\ accepted \in Acceptance
  BY TypesOfNews DEF Discard, PersonalInv, TypeOK, Open
<1>2. /\ page.load = "loaded" /\ storage = None /\ page.identity # None
      /\ page.identity \in Identities
  BY <1>1 DEF PersonalInv, PageFits, Page
<1>3. /\ page' \in Page /\ page'.load = "loading" /\ page'.pending = <<>>
      /\ page'.counter = page.counter /\ page'.identity = page.identity
      /\ page'.shown = Nothing /\ page'.as = token
  <2>1. <<>> \in Seq(Update) /\ Nothing \in [Rows -> Data]
    BY NothingType
  <2>2. page' = [page EXCEPT !.load = "loading", !.as = token, !.save = "idle",
                             !.shown = Nothing, !.pending = <<>>, !.timer = FALSE,
                             !.leaving = FALSE]
    BY DEF Discard
  <2>3. /\ page'.load = "loading" /\ page'.pending = <<>> /\ page'.shown = Nothing
        /\ page'.counter = page.counter /\ page'.identity = page.identity
        /\ page'.as = token
    BY <1>1, <2>2 DEF Page
  <2>4. page' \in Page
    BY <1>1, <2>1, <2>2 DEF Page, Tokens
  <2> QED BY <2>3, <2>4
<1>4. /\ crossed \subseteq crossed' /\ crossed' \subseteq Identities \X Rows
      /\ token \notin {page.identity, None} => {page.identity} \X Rows \subseteq crossed'
  BY <1>1, <1>2, CrossesGrow DEF Discard
<1>5. \A i \in Identities, r \in Rows : accepted'[i][r] = None
  <2> TAKE i \in Identities, r \in Rows
  <2>1. CASE i = page.identity
    BY <1>1, <2>1, NothingType DEF Discard, Acceptance
  <2>2. CASE i # page.identity
    BY <1>1, <1>2, <2>2 DEF Discard, PersonalInv, UnsavedEditsAreKept, Acceptance
  <2> QED BY <2>1, <2>2
<1>6. accepted' \in Acceptance
  BY <1>1, <1>2 DEF Discard, Nothing, Acceptance
<1> QED BY <1>1, <1>2, <1>3, <1>4, <1>5, <1>6, UnloadedKeeps DEF Discard

-----------------------------------------------------------------------------
(* Saving. *)

\* A save takes the first row, and the token there is: the row crosses when that is
\* the token of another.
LEMMA SaveFits ==
  ASSUME NEW p \in Page, p.pending # <<>>, token \in Tokens, NEW c, NEW d, c \subseteq d,
         Legit(c, p.pending, p.identity, p.counter),
         token \notin {p.identity, None} => <<token, Head(p.pending).row>> \in d
  PROVE  /\ Save(p) \in Request /\ Save(p).state = "sent"
         /\ Save(p).row = Head(p.pending).row
         /\ Save(p).version = Head(p.pending).version
         /\ Save(p).data = Head(p.pending).data
         /\ Save(p).version <= p.counter
         /\ Authentic(d, Save(p).data, p.identity, Save(p).row)
         /\ Save(p).by # None => Authentic(d, Save(p).data, Save(p).by, Save(p).row)
<1> DEFINE u == Head(p.pending)
<1>1. p.pending \in Seq(Update)
  BY DEF Page
<1>2. 1 \in DOMAIN p.pending /\ u = p.pending[1] /\ u \in Update
  BY <1>1
<1>3. u.version <= p.counter /\ Authentic(d, u.data, p.identity, u.row)
  BY <1>2 DEF Legit, Authentic
<1>4. u.row \in Rows /\ u.version \in 1 .. MaxEdits /\ u.data \in Data
  BY <1>2 DEF Update
<1>5. Save(p) = [by |-> token, row |-> u.row, version |-> u.version, data |-> u.data,
                 state |-> "sent"]
  BY DEF Save
<1>6. token \notin {p.identity, None} => <<token, u.row>> \in d
  OBVIOUS
<1> HIDE DEF u
<1>7. /\ Save(p) \in Request /\ Save(p).by = token /\ Save(p).state = "sent"
      /\ Save(p).row = u.row /\ Save(p).version = u.version /\ Save(p).data = u.data
  BY <1>4, <1>5 DEF Request, Tokens
<1>8. token # None => Authentic(d, u.data, token, u.row)
  BY <1>3, <1>6 DEF Authentic
<1> QED BY <1>3, <1>7, <1>8 DEF u

\* Going on to the next row changes neither the rows nor the queue.
LEMMA SaveNextResult ==
  ASSUME NEW p \in Page, NEW free \in BOOLEAN, SaveNext(p, free)
  PROVE  /\ page' \in Page /\ page'.load = p.load /\ page'.shown = p.shown
         /\ page'.pending = p.pending /\ page'.counter = p.counter
         /\ page'.identity = p.identity /\ page'.as = p.as
         /\ \/ ~free /\ request' = request /\ crossed' = crossed
            \/ request' = None /\ crossed' = crossed
            \/ /\ p.load = "loaded" /\ p.pending # <<>> /\ request' = Save(p)
               /\ Crosses(p, {Head(p.pending).row})
<1>1. CASE page' = p
  BY <1>1 DEF SaveNext, CanEdit
<1>2. CASE page' = [p EXCEPT !.save = "saved", !.leaving = FALSE]
  BY <1>2 DEF SaveNext, CanEdit, Page
<1>3. CASE page' = [p EXCEPT !.save = "saving"]
  BY <1>3 DEF SaveNext, CanEdit, Page
<1> QED BY <1>1, <1>2, <1>3 DEF SaveNext

\* The same with the page's queue q after a save, all of it the page's own.
LEMMA SentFits ==
  ASSUME PersonalInv, Open, page.load = "loaded", NEW p \in Page, p.load = page.load,
         p.identity = page.identity, p.counter = page.counter,
         Legit(crossed, p.pending, p.identity, p.counter),
         NEW free \in BOOLEAN, SaveNext(p, free)
  PROVE  /\ crossed \subseteq crossed' /\ crossed' \subseteq Identities \X Rows
         /\ \/ ~free /\ request' = request
            \/ request' = None
            \/ /\ request' \in Request /\ request'.state = "sent" /\ p.pending # <<>>
               /\ request'.row = Head(p.pending).row
               /\ request'.data = Head(p.pending).data
               /\ request'.version <= p.counter
               /\ Authentic(crossed', request'.data, p.identity, request'.row)
               /\ request'.by # None =>
                    Authentic(crossed', request'.data, request'.by, request'.row)
<1>1. crossed \subseteq Identities \X Rows /\ token \in Tokens /\ page.identity # None
  BY DEF PersonalInv, TypeOK, PageFits, Tokens
<1>2. CASE \/ ~free /\ request' = request /\ crossed' = crossed
           \/ request' = None /\ crossed' = crossed
  BY <1>1, <1>2
<1>3. CASE p.pending # <<>> /\ request' = Save(p) /\ Crosses(p, {Head(p.pending).row})
  <2>1. Head(p.pending).row \in Rows
    <3>1. p.pending \in Seq(Update)
      BY DEF Page
    <3>2. Head(p.pending) \in Update
      BY <1>3, <3>1
    <3> QED BY <3>2, UpdateType
  <2>2. /\ crossed \subseteq crossed' /\ crossed' \subseteq Identities \X Rows
        /\ token \notin {p.identity, None} => <<token, Head(p.pending).row>> \in crossed'
    BY <1>1, <1>3, <2>1, CrossesGrow
  <2>3. token \notin {p.identity, None} => <<token, Head(p.pending).row>> \in crossed'
    BY <2>2
  <2>4. /\ Save(p) \in Request /\ Save(p).state = "sent"
        /\ Save(p).row = Head(p.pending).row
        /\ Save(p).data = Head(p.pending).data
        /\ Save(p).version <= p.counter
        /\ Authentic(crossed', Save(p).data, p.identity, Save(p).row)
        /\ Save(p).by # None => Authentic(crossed', Save(p).data, Save(p).by, Save(p).row)
    BY <1>1, <1>3, <2>2, <2>3, SaveFits
  <2> QED BY <1>3, <2>2, <2>4
<1>4. \/ ~free /\ request' = request /\ crossed' = crossed
      \/ request' = None /\ crossed' = crossed
      \/ /\ p.pending # <<>> /\ request' = Save(p)
         /\ Crosses(p, {Head(p.pending).row})
  BY SaveNextResult
<1> QED BY <1>2, <1>3, <1>4

\* What a fired timer, a retry and a page that waits to be left have in common.
LEMMA GoesOnKeeps ==
  ASSUME PersonalInv, Open, NEW p \in Page, p.load = page.load, p.shown = page.shown,
         p.pending = page.pending, p.counter = page.counter, p.identity = page.identity,
         p.as = page.as, SaveNext(p, request = None),
         UNCHANGED <<db, catalogue, auth, late, storage, edits, accepted, foreign>>
  PROVE  PersonalInv'
<1>1. /\ page' \in Page /\ page'.load = page.load /\ page'.shown = page.shown
      /\ page'.pending = page.pending /\ page'.counter = page.counter
      /\ page'.identity = page.identity /\ page'.as = page.as
      /\ page.load # "loaded" => request' \in {request, None} /\ crossed' = crossed
  BY SaveNextResult
<1>2. Open' /\ UNCHANGED <<token, events, messages>>
  BY <1>1, NothingAssumption DEF Open, auth
<1>3. PageFits /\ crossed \subseteq Identities \X Rows
  BY DEF PersonalInv, TypeOK
<1>4. /\ crossed \subseteq crossed' /\ crossed' \subseteq Identities \X Rows
      /\ \/ request' \in {request, None}
         \/ /\ request' \in Request /\ request'.state = "sent" /\ page.load = "loaded"
            /\ page.pending # <<>>
            /\ request'.row = Head(page.pending).row
            /\ request'.data = Head(page.pending).data
            /\ request'.version <= page.counter
            /\ Authentic(crossed', request'.data, page.identity, request'.row)
            /\ request'.by # None =>
                 Authentic(crossed', request'.data, request'.by, request'.row)
  <2>1. CASE page.load = "loaded"
    BY <1>3, <2>1, SentFits DEF PageFits
  <2>2. CASE page.load # "loaded"
    BY <1>1, <1>3, <2>2
  <2> QED BY <2>1, <2>2
<1>5. TypeOK'
  BY <1>1, <1>2, <1>4 DEF PersonalInv, TypeOK
<1>6. PageFits'
  BY <1>1, <1>2, <1>3, <1>4, MoreMayCross DEF PageFits
<1>7. RequestFits'
  <2>1. CASE request' = request
    BY <1>1, <1>2, <1>4, <2>1, MoreMayCross DEF PersonalInv, RequestFits
  <2>2. CASE request' = None
    BY <2>2 DEF RequestFits
  <2>3. CASE request' # request /\ request' # None
    BY <1>1, <1>2, <1>3, <1>4, <2>3 DEF RequestFits, PageFits
  <2> QED BY <2>1, <2>2, <2>3
<1>8. StorageFits' /\ LateFits' /\ RowsCrossOnlyBetweenSessions'
  BY <1>1, <1>2, <1>4, MoreMayCross
  DEF PersonalInv, StorageFits, LateFits, RowsCrossOnlyBetweenSessions, Open
<1>9. UnsavedEditsAreKept' /\ ShownIsStored'
  BY <1>1, <1>2
  DEF PersonalInv, UnsavedEditsAreKept, ShownIsStored, CanEdit
<1> QED BY <1>5, <1>6, <1>7, <1>8, <1>9 DEF PersonalInv

LEMMA TimerFiresKeeps == ASSUME PersonalInv, TimerFires PROVE PersonalInv'
<1> DEFINE p == [page EXCEPT !.timer = FALSE]
<1>1. page \in Page /\ Open
  BY DEF TimerFires, PersonalInv, TypeOK, Open
<1>2. /\ p \in Page /\ p.load = page.load /\ p.shown = page.shown
      /\ p.pending = page.pending /\ p.counter = page.counter
      /\ p.identity = page.identity /\ p.as = page.as
  BY <1>1 DEF Page
<1>3. SaveNext(p, request = None)
  BY DEF TimerFires
<1> HIDE DEF p
<1> QED BY <1>1, <1>2, <1>3, GoesOnKeeps DEF TimerFires

LEMMA RetrySaveKeeps == ASSUME PersonalInv, RetrySave PROVE PersonalInv'
<1> DEFINE p == [page EXCEPT !.save = "pending", !.timer = FALSE]
<1>1. page \in Page /\ Open
  BY DEF RetrySave, PersonalInv, TypeOK, Open
<1>2. /\ p \in Page /\ p.load = page.load /\ p.shown = page.shown
      /\ p.pending = page.pending /\ p.counter = page.counter
      /\ p.identity = page.identity /\ p.as = page.as
  BY <1>1 DEF Page
<1>3. SaveNext(p, request = None)
  BY DEF RetrySave
<1> HIDE DEF p
<1> QED BY <1>1, <1>2, <1>3, GoesOnKeeps DEF RetrySave

LEMMA LeaveKeeps == ASSUME PersonalInv, Leave PROVE PersonalInv'
<1>1. page \in Page /\ Open
  BY DEF Leave, PersonalInv, TypeOK, Open
<1>2. CASE ~HasPending(page) /\ page' = None /\ UNCHANGED <<request, crossed>>
  <2>1. request = None /\ page.pending = <<>>
    BY <1>2 DEF HasPending
  <2>2. late' = Abandoned
    BY <2>1 DEF Leave, Abandoned
  <2>3. \A i \in Identities, r \in Rows : accepted[i][r] # None =>
          /\ storage # None /\ storage.identity = i
          /\ Keeps(storage.updates, r, accepted[i][r])
    BY <2>1 DEF PersonalInv, UnsavedEditsAreKept, Keeps
  <2>4. StorageFits'
    BY <1>2 DEF Leave, PersonalInv, StorageFits, Open
  <2>5. UNCHANGED <<db, catalogue, token, events, messages, edits, foreign, storage, accepted>>
    BY DEF Leave, auth
  <2> QED
    BY <1>2, <2>1, <2>2, <2>3, <2>4, <2>5, TypesOfNews, SessionChanges
    DEF PersonalInv, TypeOK, Blank
<1>3. CASE HasPending(page) /\ page' # None
           /\ SaveNext([page EXCEPT !.leaving = TRUE, !.timer = FALSE,
                                    !.save = IF page.pending # <<>> THEN "pending"
                                                                    ELSE page.save],
                       request = None)
  <2> DEFINE p == [page EXCEPT !.leaving = TRUE, !.timer = FALSE,
                               !.save = IF page.pending # <<>> THEN "pending"
                                                               ELSE page.save]
  <2>1. /\ p \in Page /\ p.load = page.load /\ p.shown = page.shown
        /\ p.pending = page.pending /\ p.counter = page.counter
        /\ p.identity = page.identity /\ p.as = page.as
    BY <1>1 DEF Page
  <2>2. SaveNext(p, request = None)
    BY <1>3
  <2> HIDE DEF p
  <2> QED BY <1>1, <2>1, <2>2, GoesOnKeeps DEF Leave
<1> QED
  <2>1. CASE ~HasPending(page)
    BY <1>2, <2>1 DEF Leave
  <2>2. CASE HasPending(page)
    <3> DEFINE p == [page EXCEPT !.leaving = TRUE, !.timer = FALSE,
                                 !.save = IF page.pending # <<>> THEN "pending"
                                                                 ELSE page.save]
    <3>1. SaveNext(p, request = None) /\ p \in Page
      BY <1>1, <2>2 DEF Leave, Page
    <3>2. page' # None
      <4> HIDE DEF p
      <4> QED BY <3>1, SaveNextResult, NothingAssumption
    <3> QED BY <1>3, <2>2, <3>1, <3>2
  <2> QED BY <2>1, <2>2


LEMMA EditKeeps ==
  ASSUME PersonalInv, NEW r \in Rows, NEW empty \in BOOLEAN, Edit(r, empty)
  PROVE  PersonalInv'
<1> DEFINE i == page.identity
           before == page.shown[r]
           data == IF empty THEN None
                   ELSE [by |-> {i} \cup (IF before = None THEN {} ELSE before.by),
                         n |-> edits + 1]
           u == [row |-> r, version |-> page.counter + 1, data |-> data]
           q == page.pending
           p == Put(q, u)
<1>1. /\ page \in Page /\ Open /\ i \in Identities /\ i # None /\ page.load = "loaded"
      /\ edits \in Nat /\ edits + 1 <= MaxEdits /\ page.counter \in Nat
      /\ page.counter <= edits /\ storage = None /\ q \in Seq(Update)
      /\ Legit(crossed, q, i, page.counter) /\ before \in Data
      /\ Authentic(crossed, before, i, r)
      /\ accepted \in [Identities -> [Rows -> Update \cup {None}]]
  <2>1. /\ page \in Page /\ Open /\ page.load = "loaded" /\ edits < MaxEdits
        /\ edits \in 0 .. MaxEdits
        /\ accepted \in [Identities -> [Rows -> Update \cup {None}]]
    BY DEF Edit, PersonalInv, TypeOK, Open, CanEdit
  <2>2. /\ i \in Tokens /\ q \in Seq(Update) /\ page.counter \in 0 .. MaxEdits
        /\ before \in Data
    BY <2>1 DEF Page, Tokens
  <2>3. /\ i # None /\ page.counter <= edits /\ storage = None
        /\ Legit(crossed, q, i, page.counter) /\ Authentic(crossed, before, i, r)
    BY <2>1 DEF PersonalInv, PageFits
  <2> HIDE DEF i, q, before
  <2> QED BY <2>1, <2>2, <2>3, BoundsAssumption DEF Tokens
<1>2. /\ data \in Data /\ Authentic(crossed, data, i, r) /\ edits + 1 \in 0 .. MaxEdits
      /\ page.counter + 1 \in 1 .. MaxEdits
  <2>1. page.counter + 1 \in 1 .. MaxEdits /\ edits + 1 \in 1 .. MaxEdits
    BY <1>1, BoundsAssumption
  <2>2. before # None => before.by \subseteq Identities
    BY <1>1 DEF Data
  <2>3. data \in Data
    BY <1>1, <2>1, <2>2 DEF Data
  <2>4. Authentic(crossed, data, i, r)
    BY <1>1 DEF Authentic
  <2> QED BY <1>1, <2>1, <2>3, <2>4
<1>3. /\ page' = [page EXCEPT !.shown[r] = data, !.counter = page.counter + 1,
                              !.pending = p, !.save = "pending", !.timer = TRUE]
      /\ accepted' = [accepted EXCEPT ![i][r] = u]
      /\ edits' = edits + 1
      /\ UNCHANGED <<db, catalogue, token, events, messages, request, late, storage, foreign,
                     crossed>>
  BY DEF Edit, auth
<1> HIDE DEF data, before
<1>4. u \in Update /\ u.row = r /\ u.version = page.counter + 1 /\ u.data = data
  BY <1>2 DEF Update
<1> HIDE DEF u
<1>5. /\ p \in Seq(Update) /\ p # <<>>
      /\ q # <<>> => Head(p) = IF Head(q).row = r THEN u ELSE Head(q)
      /\ \A k \in DOMAIN p :
           \/ p[k] = u
           \/ k \in DOMAIN q /\ p[k] = q[k] /\ q[k].row # r
      /\ \E k \in DOMAIN p : p[k] = u
      /\ \A k \in DOMAIN q : k \in DOMAIN p /\ (q[k].row # r => p[k] = q[k])
  <2>1. q \in Seq(Update) /\ u \in Update /\ u.row = r
    BY <1>1, <1>4
  <2> HIDE DEF q
  <2>2. /\ p \in Seq(Update) /\ p # <<>>
        /\ q # <<>> => Head(p) = IF Head(q).row = u.row THEN u ELSE Head(q)
        /\ \A k \in DOMAIN p :
             \/ p[k] = u
             \/ k \in DOMAIN q /\ p[k] = q[k] /\ q[k].row # u.row
        /\ \E k \in DOMAIN p : p[k] = u
        /\ \A k \in DOMAIN q : k \in DOMAIN p /\ (q[k].row # u.row => p[k] = q[k])
    BY <2>1, PutEntries, Zenon
  <2> HIDE DEF p
  <2> QED BY <2>1, <2>2
<1>6. Legit(crossed, p, i, page.counter + 1)
  BY <1>1, <1>2, <1>4, PutLegit
<1> HIDE DEF p
<1>7. /\ page' \in Page /\ page'.load = "loaded" /\ page'.pending = p
      /\ page'.counter = page.counter + 1 /\ page'.shown = [page.shown EXCEPT ![r] = data]
      /\ page'.identity = i
  <2>1. [page.shown EXCEPT ![r] = data] \in [Rows -> Data]
    BY <1>1, <1>2 DEF Page
  <2> DEFINE shown == [page.shown EXCEPT ![r] = data]
             n == page.counter + 1
  <2>2. page.shown \in [Rows -> Data] /\ n \in 0 .. MaxEdits
    BY <1>1, <1>2, BoundsAssumption DEF Page
  <2>3. page' = [page EXCEPT !.shown = shown, !.counter = n, !.pending = p,
                             !.save = "pending", !.timer = TRUE]
    BY <1>1, <1>3 DEF Page
  <2> HIDE DEF shown, n
  <2>4. shown \in [Rows -> Data]
    BY <2>1 DEF shown
  <2>5. /\ page' \in Page /\ page'.load = "loaded" /\ page'.pending = p
        /\ page'.counter = n /\ page'.shown = shown /\ page'.identity = i
    BY <1>1, <1>5, <2>2, <2>3, <2>4 DEF Page
  <2> QED BY <2>5 DEF shown, n
<1>8. Open'
  BY <1>7, NothingAssumption DEF Open
<1>9. TypeOK'
  <2>1. accepted' \in [Identities -> [Rows -> Update \cup {None}]]
    BY <1>1, <1>3, <1>4
  <2> QED BY <1>2, <1>3, <1>7, <2>1 DEF PersonalInv, TypeOK
<1>10. \A s \in Rows : page'.shown[s] = IF s = r THEN data ELSE page.shown[s]
  BY <1>1, <1>7 DEF Page
<1>11. PageFits'
  <2>1. \A k \in DOMAIN p : page'.shown[p[k].row] = p[k].data
    <3> TAKE k \in DOMAIN p
    <3>1. p[k] \in Update
      BY <1>5
    <3>2. CASE p[k] = u
      BY <1>4, <1>10, <3>2
    <3>3. CASE k \in DOMAIN q /\ p[k] = q[k] /\ q[k].row # r
      BY <1>1, <1>10, <3>1, <3>3, UpdateType DEF PersonalInv, PageFits
    <3> QED BY <1>5, <3>2, <3>3
  <2>2. \A s \in Rows : Authentic(crossed, page'.shown[s], i, s)
    <3> TAKE s \in Rows
    <3>1. Authentic(crossed, page.shown[s], i, s)
      BY <1>1 DEF PersonalInv, PageFits
    <3> QED BY <1>2, <1>10, <3>1
  <2>3. i # token => events # <<>>
    BY <1>1 DEF PersonalInv, PageFits
  <2> HIDE DEF i
  <2> QED BY <1>1, <1>3, <1>6, <1>7, <2>1, <2>2, <2>3 DEF PageFits
<1>12. RequestFits'
  <2> SUFFICES ASSUME request # None
               PROVE  /\ p # <<>> /\ Head(p).row = request.row
                      /\ request.version = Head(p).version => request.data = Head(p).data
                      /\ request.version <= page'.counter
                      /\ Authentic(crossed, request.data, i, request.row)
                      /\ request.by # None =>
                           Authentic(crossed, request.data, request.by, request.row)
                      /\ request.state = "stored" /\ <<i, request.row>> \notin foreign
                           => db[i][request.row] = request.data
    BY <1>1, <1>3, <1>7, <1>8 DEF RequestFits
  <2>1. /\ q # <<>> /\ Head(q).row = request.row
        /\ request.version = Head(q).version => request.data = Head(q).data
        /\ request.version <= page.counter /\ request.version \in Nat
        /\ Authentic(crossed, request.data, i, request.row)
        /\ request.by # None => Authentic(crossed, request.data, request.by, request.row)
        /\ request.state = "stored" /\ <<i, request.row>> \notin foreign
             => db[i][request.row] = request.data
    BY BoundsAssumption DEF PersonalInv, RequestFits, TypeOK, Request
  <2>2. Head(p).row = request.row
    BY <1>4, <1>5, <2>1
  <2>3. request.version = Head(p).version => request.data = Head(p).data
    BY <1>1, <1>4, <1>5, <2>1
  <2> QED BY <1>1, <1>5, <1>7, <2>1, <2>2, <2>3
<1>13. StorageFits' /\ LateFits' /\ RowsCrossOnlyBetweenSessions'
  BY <1>1, <1>3 DEF PersonalInv, StorageFits, LateFits, RowsCrossOnlyBetweenSessions
<1>14. UnsavedEditsAreKept'
  <2> SUFFICES ASSUME NEW j \in Identities, NEW s \in Rows, accepted'[j][s] # None
               PROVE  i = j /\ Keeps(p, s, accepted'[j][s])
    BY <1>3, <1>7, <1>8 DEF UnsavedEditsAreKept
  <2>1. CASE i = j /\ s = r
    BY <1>1, <1>3, <1>4, <1>5, <2>1 DEF Keeps
  <2>2. CASE ~(i = j /\ s = r)
    <3>1. accepted'[j][s] = accepted[j][s]
      BY <1>1, <1>3, <2>2
    <3>2. i = j /\ Keeps(q, s, accepted[j][s])
      BY <1>1, <3>1 DEF PersonalInv, UnsavedEditsAreKept
    <3>3. PICK k \in DOMAIN q : q[k].row = s /\ q[k].data = accepted[j][s].data
      BY <3>2 DEF Keeps
    <3>4. k \in DOMAIN p /\ p[k] = q[k]
      BY <1>5, <2>2, <3>2, <3>3
    <3> QED BY <3>1, <3>2, <3>3, <3>4 DEF Keeps
  <2> QED BY <2>1, <2>2
<1>15. ShownIsStored'
  <2> SUFFICES ASSUME NEW s \in Rows, ~Queued(p, s), <<i, s>> \notin foreign
               PROVE  page'.shown[s] = db[i][s]
    BY <1>3, <1>7 DEF ShownIsStored
  <2>1. s # r
    BY <1>4, <1>5 DEF Queued
  <2>2. ~Queued(q, s)
    BY <1>5, <2>1 DEF Queued
  <2>3. page.shown[s] = db[i][s]
    BY <1>1, <2>2 DEF PersonalInv, ShownIsStored, CanEdit
  <2> QED BY <1>10, <2>1, <2>3
<1> QED BY <1>9, <1>11, <1>12, <1>13, <1>14, <1>15 DEF PersonalInv


-----------------------------------------------------------------------------
(* Saves in flight, and the package. *)

LEMMA StoreKeeps == ASSUME PersonalInv, Store PROVE PersonalInv'
<1> DEFINE i == page.identity
           b == request.by
           d == request.data
           r == request.row
<1>1. /\ request # None /\ request \in Request /\ RequestFits /\ request.state = "sent"
      /\ Open /\ page \in Page /\ i # None /\ page.pending # <<>> /\ Head(page.pending).row = r
      /\ UNCHANGED <<catalogue, token, events, messages, page, late, storage, edits,
                     accepted, crossed>>
  BY DEF Store, PersonalInv, TypeOK, RequestFits, auth, Open
<1>2. /\ page.pending \in Seq(Update) /\ db \in [Identities -> [Rows -> Data]]
      /\ i \in Identities /\ foreign \subseteq Identities \X Rows
  BY <1>1 DEF PersonalInv, TypeOK, Page
<1>3. Queued(page.pending, r)
  <2>1. 1 \in DOMAIN page.pending /\ Head(page.pending) = page.pending[1]
    BY <1>1, <1>2
  <2> QED BY <1>1, <2>1 DEF Queued
<1>4. b \in Tokens /\ r \in Rows /\ d \in Data
  BY <1>1 DEF Request, Tokens
<1>5. PageFits' /\ StorageFits' /\ LateFits' /\ UnsavedEditsAreKept'
  BY <1>1 DEF PersonalInv, PageFits, StorageFits, LateFits, UnsavedEditsAreKept, Open
<1>6. \E s \in {"stored", "refused"} : request' = [request EXCEPT !.state = s]
  BY DEF Store
<1>7. /\ request' \in Request /\ request' # None
      /\ request'.by = b /\ request'.row = r
      /\ request'.version = request.version /\ request'.data = d
  BY <1>1, <1>6, NothingAssumption DEF Request
<1>8. CASE Refused(b, r, d)
  <2>1. request' = [request EXCEPT !.state = "refused"] /\ UNCHANGED <<db, foreign>>
    BY <1>8 DEF Store
  <2>2. request'.state = "refused"
    BY <1>1, <2>1 DEF Request
  <2>3. TypeOK' /\ RequestFits' /\ ShownIsStored' /\ RowsCrossOnlyBetweenSessions'
    BY <1>1, <1>7, <2>1, <2>2
    DEF PersonalInv, TypeOK, RequestFits, ShownIsStored, RowsCrossOnlyBetweenSessions,
        Open, CanEdit
  <2> QED BY <1>5, <2>3 DEF PersonalInv
<1>9. CASE ~Refused(b, r, d)
  <2>1. /\ db' = [db EXCEPT ![b][r] = d] /\ b \in Identities
        /\ foreign' = IF b = i THEN foreign \ {<<i, r>>} ELSE foreign \cup {<<i, r>>}
    BY <1>4, <1>9 DEF Store, Refused, Tokens
  <2> HIDE DEF i, b, d, r
  <2>2. /\ db' \in [Identities -> [Rows -> Data]]
        /\ \A j \in Identities, s \in Rows :
             db'[j][s] = IF j = b /\ s = r THEN d ELSE db[j][s]
    BY <1>2, <1>4, <2>1
  <2>3. foreign' \subseteq Identities \X Rows
    BY <1>2, <1>4, <2>1
  <2>4. TypeOK'
    BY <1>1, <1>7, <2>2, <2>3 DEF PersonalInv, TypeOK
  <2>5. <<i, r>> \notin foreign' => db'[i][r] = d
    BY <1>2, <1>4, <2>1, <2>2
  <2>6. RequestFits'
    BY <1>1, <1>7, <2>5 DEF RequestFits, Open, i, b, d, r
  <2>7. RowsCrossOnlyBetweenSessions'
    <3>1. Authentic(crossed, d, b, r)
      BY <1>1, <2>1, NoneAssumption DEF RequestFits, b, d, r
    <3>2. \A j \in Identities, s \in Rows : Authentic(crossed, db[j][s], j, s)
      BY DEF PersonalInv, RowsCrossOnlyBetweenSessions, Authentic
    <3>3. \A j \in Identities, s \in Rows : Authentic(crossed, db'[j][s], j, s)
      BY <2>2, <3>1, <3>2
    <3> QED BY <1>1, <3>3 DEF RowsCrossOnlyBetweenSessions, Authentic
  <2>8. ShownIsStored'
    <3> SUFFICES ASSUME CanEdit(page), NEW s \in Rows, ~Queued(page.pending, s),
                        <<i, s>> \notin foreign'
                 PROVE  page.shown[s] = db'[i][s]
      BY <1>1 DEF ShownIsStored, i
    <3>1. s # r
      BY <1>3
    <3>2. <<i, s>> \notin foreign
      BY <2>1, <3>1
    <3>3. page.shown[s] = db[i][s]
      BY <1>1, <3>2 DEF PersonalInv, ShownIsStored, i
    <3> QED BY <1>2, <2>2, <3>1, <3>3
  <2> QED BY <1>5, <2>4, <2>6, <2>7, <2>8 DEF PersonalInv
<1> QED BY <1>8, <1>9

LEMMA SaveFailsKeeps == ASSUME PersonalInv, SaveFails PROVE PersonalInv'
<1>1. /\ request # None /\ Open /\ page \in Page /\ request' = None
      /\ UNCHANGED <<db, catalogue, token, events, messages, storage, edits, accepted,
                     foreign, crossed>>
  BY DEF SaveFails, PersonalInv, TypeOK, RequestFits, Open, auth
<1>2. /\ page' \in Page /\ page'.load = page.load /\ page'.shown = page.shown
      /\ page'.pending = page.pending /\ page'.counter = page.counter
      /\ page'.identity = page.identity /\ page'.as = page.as
  BY <1>1 DEF SaveFails, Page
<1>3. Open'
  BY <1>2, NothingAssumption DEF Open
<1>4. late' \subseteq LateSave /\ LateFits'
  BY <1>1, AbandonedFits DEF SaveFails
<1>5. TypeOK'
  BY <1>1, <1>2, <1>4 DEF PersonalInv, TypeOK, LateSave, Tokens
<1>6. PageFits' /\ StorageFits' /\ RequestFits' /\ RowsCrossOnlyBetweenSessions'
  BY <1>1, <1>2
  DEF PersonalInv, PageFits, StorageFits, RequestFits, RowsCrossOnlyBetweenSessions
<1>7. UnsavedEditsAreKept' /\ ShownIsStored'
  BY <1>1, <1>2, <1>3
  DEF PersonalInv, UnsavedEditsAreKept, ShownIsStored, CanEdit
<1> QED BY <1>4, <1>5, <1>6, <1>7 DEF PersonalInv

LEMMA LateStoreKeeps ==
  ASSUME PersonalInv, NEW q \in late, LateStore(q) PROVE PersonalInv'
<1>1. /\ late' \subseteq late
      /\ UNCHANGED <<catalogue, token, events, messages, page, request, storage, edits,
                     accepted, crossed>>
      /\ db \in [Identities -> [Rows -> Data]]
  BY DEF LateStore, PersonalInv, TypeOK, auth
<1>2. /\ q.by \in Tokens /\ q.row \in Rows /\ q.data \in Data
      /\ q.by # None => Authentic(crossed, q.data, q.by, q.row)
  BY DEF PersonalInv, TypeOK, LateFits, Tokens
<1>3. PageFits' /\ StorageFits' /\ UnsavedEditsAreKept' /\ LateFits'
  BY <1>1 DEF PersonalInv, PageFits, StorageFits, LateFits, UnsavedEditsAreKept, Open
<1>4. CASE Refused(q.by, q.row, q.data)
  <2>1. UNCHANGED <<db, foreign>>
    BY <1>4 DEF LateStore
  <2> QED
    BY <1>1, <1>3, <2>1
    DEF PersonalInv, TypeOK, RequestFits, ShownIsStored, RowsCrossOnlyBetweenSessions, Open,
        CanEdit
<1>5. CASE ~Refused(q.by, q.row, q.data)
  <2>1. /\ db' = [db EXCEPT ![q.by][q.row] = q.data] /\ q.by \in Identities
        /\ foreign' = foreign \cup {<<q.by, q.row>>}
    BY <1>2, <1>5 DEF LateStore, Refused, Tokens
  <2>2. /\ db' \in [Identities -> [Rows -> Data]]
        /\ \A j \in Identities, s \in Rows :
             db'[j][s] = IF j = q.by /\ s = q.row THEN q.data ELSE db[j][s]
    BY <1>1, <1>2, <2>1
  <2>3. \A j \in Identities, s \in Rows :
          <<j, s>> \notin foreign' => <<j, s>> \notin foreign /\ db'[j][s] = db[j][s]
    BY <2>1, <2>2
  <2>4. TypeOK'
    BY <1>1, <1>2, <2>1, <2>2 DEF PersonalInv, TypeOK
  <2>5. Open /\ page.identity # None => page.identity \in Identities
    BY DEF PersonalInv, TypeOK, Open, Page
  <2>6. RequestFits'
    BY <1>1, <2>3, <2>5 DEF PersonalInv, TypeOK, Request, RequestFits, Open
  <2>7. RowsCrossOnlyBetweenSessions'
    <3>1. Authentic(crossed, q.data, q.by, q.row)
      BY <1>2, <2>1, NoneAssumption
    <3>2. \A j \in Identities, s \in Rows : Authentic(crossed, db[j][s], j, s)
      BY DEF PersonalInv, RowsCrossOnlyBetweenSessions, Authentic
    <3>3. \A j \in Identities, s \in Rows : Authentic(crossed, db'[j][s], j, s)
      BY <2>2, <3>1, <3>2
    <3> QED BY <1>1, <3>3 DEF RowsCrossOnlyBetweenSessions, Authentic
  <2>8. ShownIsStored'
    <3>1. Open /\ page.load = "loaded" => page.identity # None
      BY DEF PersonalInv, PageFits
    <3> QED
      BY <1>1, <2>3, <2>5, <3>1 DEF PersonalInv, ShownIsStored, Open, CanEdit
  <2> QED BY <1>3, <2>4, <2>6, <2>7, <2>8 DEF PersonalInv
<1> QED BY <1>4, <1>5

LEMMA SaveAgainKeeps == ASSUME PersonalInv, SaveAgain PROVE PersonalInv'
<1>1. /\ request # None /\ request \in Request /\ request.state = "sent"
      /\ Open /\ page.identity # None /\ token \in Identities /\ page.identity \in Identities
      /\ request.by # None /\ token # request.by
      /\ request' = [request EXCEPT !.by = token] /\ Crosses(page, {request.row})
      /\ UNCHANGED <<db, catalogue, token, events, messages, page, late, storage, edits,
                     accepted, foreign>>
  BY DEF SaveAgain, PersonalInv, TypeOK, RequestFits, auth, Open, Page
<1>2. /\ request.row \in Rows /\ request' \in Request /\ request'.state = "sent"
      /\ request'.by = token /\ request'.row = request.row
      /\ request'.version = request.version /\ request'.data = request.data
  BY <1>1 DEF Request
<1>3. /\ crossed \subseteq crossed' /\ crossed' \subseteq Identities \X Rows
      /\ token # page.identity => <<token, request.row>> \in crossed'
  BY <1>1, <1>2, NoneAssumption, CrossesGrow
<1>4. TypeOK'
  BY <1>1, <1>2, <1>3 DEF PersonalInv, TypeOK
<1>5. /\ Authentic(crossed', request.data, page.identity, request.row)
      /\ Authentic(crossed', request.data, token, request.row)
  <2>1. Authentic(crossed', request.data, page.identity, request.row)
    BY <1>1, <1>3, MoreMayCross
  <2>2. CASE token = page.identity
    BY <2>1, <2>2
  <2>3. CASE token # page.identity
    <3>1. <<token, request.row>> \in crossed'
      BY <1>3, <2>3
    <3> QED BY <2>1, <3>1 DEF Authentic
  <2> QED BY <2>1, <2>2, <2>3
<1>6. RequestFits'
  BY <1>1, <1>2, <1>5 DEF PersonalInv, RequestFits, Open
<1>7. PageFits'
  BY <1>1, <1>3, MoreMayCross DEF PersonalInv, PageFits, Open
<1>8. StorageFits' /\ LateFits' /\ RowsCrossOnlyBetweenSessions'
  BY <1>1, <1>3, MoreMayCross
  DEF PersonalInv, StorageFits, LateFits, RowsCrossOnlyBetweenSessions, Open
<1>9. UnsavedEditsAreKept' /\ ShownIsStored'
  BY <1>1 DEF PersonalInv, UnsavedEditsAreKept, ShownIsStored, CanEdit, Open
<1> QED BY <1>4, <1>6, <1>7, <1>8, <1>9 DEF PersonalInv

LEMMA LateAgainKeeps ==
  ASSUME PersonalInv, NEW q \in late, LateAgain(q) PROVE PersonalInv'
<1> DEFINE p == [q EXCEPT !.by = token]
<1>1. /\ late' = (late \ {q}) \cup {p} /\ crossed' = crossed \cup {<<token, q.row>>}
      /\ token \in Identities /\ late \subseteq LateSave
      /\ crossed \subseteq Identities \X Rows
      /\ UNCHANGED <<db, catalogue, token, events, messages, page, request, storage, edits,
                     accepted, foreign>>
  BY DEF LateAgain, PersonalInv, TypeOK, auth, LateSave, Tokens
<1>2. p \in LateSave /\ p.by = token /\ p.row = q.row /\ p.data = q.data /\ q.row \in Rows
  BY <1>1 DEF LateSave, Tokens
<1> HIDE DEF p
<1>3. late' \subseteq LateSave
  BY <1>1, <1>2
<1>4. crossed \subseteq crossed' /\ crossed' \subseteq Identities \X Rows
  BY <1>1, <1>2
<1>5. TypeOK'
  BY <1>1, <1>3, <1>4 DEF PersonalInv, TypeOK, LateSave, Tokens
<1>6. LateFits'
  <2>1. Authentic(crossed', p.data, p.by, p.row)
    BY <1>1, <1>2 DEF Authentic
  <2>2. \A s \in late : s.by # None => Authentic(crossed', s.data, s.by, s.row)
    BY <1>4, MoreMayCross
  <2> QED BY <1>1, <2>1, <2>2 DEF LateFits
<1>7. PageFits'
  BY <1>1, <1>4, MoreMayCross DEF PersonalInv, PageFits, Open
<1>8. RequestFits'
  BY <1>1, <1>4, MoreMayCross DEF PersonalInv, RequestFits, Open
<1>9. StorageFits' /\ RowsCrossOnlyBetweenSessions'
  BY <1>1, <1>4, MoreMayCross
  DEF PersonalInv, StorageFits, RowsCrossOnlyBetweenSessions, Open
<1>10. UnsavedEditsAreKept' /\ ShownIsStored'
  BY <1>1 DEF PersonalInv, UnsavedEditsAreKept, ShownIsStored, CanEdit, Open
<1> QED BY <1>5, <1>6, <1>7, <1>8, <1>9, <1>10 DEF PersonalInv

LEMMA RowGoesKeeps ==
  ASSUME PersonalInv, NEW r \in Rows, RowGoes(r) PROVE PersonalInv'
BY DEF RowGoes, PersonalInv, TypeOK, PageFits, StorageFits, RequestFits, LateFits,
       UnsavedEditsAreKept, ShownIsStored, RowsCrossOnlyBetweenSessions, Open, CanEdit, auth

\* Confirming takes the saved entry off the queue, unless a newer edit replaced it.
LEMMA ConfirmedFits ==
  ASSUME NEW q \in Seq(Update), q # <<>>, NEW s, NEW i, NEW n \in Nat, Legit(crossed, q, i, n),
         Head(q).row = s.row, s.version = Head(q).version => s.data = Head(q).data
  PROVE  /\ Confirmed(q, s) \in Seq(Update) /\ Legit(crossed, Confirmed(q, s), i, n)
         /\ \A k \in DOMAIN Confirmed(q, s) : \E j \in DOMAIN q : Confirmed(q, s)[k] = q[j]
         /\ \A j \in DOMAIN q :
              \/ \E k \in DOMAIN Confirmed(q, s) : Confirmed(q, s)[k] = q[j]
              \/ q[j].row = s.row /\ q[j].data = s.data
<1>1. CASE s.version = Head(q).version
  <2>1. Confirmed(q, s) = Tail(q)
    BY <1>1 DEF Confirmed
  <2>2. /\ Tail(q) \in Seq(Update) /\ Legit(crossed, Tail(q), i, n)
        /\ \A k \in DOMAIN Tail(q) : \E j \in DOMAIN q :
             Tail(q)[k] = q[j] /\ q[j].row # Head(q).row
        /\ \A j \in DOMAIN q : q[j].row # Head(q).row =>
             \E k \in DOMAIN Tail(q) : Tail(q)[k] = q[j]
        /\ \A j \in DOMAIN q : q[j].row = Head(q).row => q[j] = Head(q)
    BY TailEntries, Zenon
  <2> DEFINE t == Tail(q)
             h == Head(q)
  <2> HIDE DEF t, h
  <2> QED BY <1>1, <2>1, <2>2 DEF t, h
<1>2. CASE s.version # Head(q).version
  <2>1. Confirmed(q, s) = q
    BY <1>2 DEF Confirmed
  <2> QED BY <2>1
<1> QED BY <1>1, <1>2

LEMMA SavedKeeps == ASSUME PersonalInv, Saved PROVE PersonalInv'
<1> DEFINE i == page.identity
           q == page.pending
           c == Confirmed(q, request)
           p == [page EXCEPT !.pending = c]
<1>1. /\ request # None /\ request \in Request /\ request.state = "stored"
      /\ Open /\ i # None /\ i \in Identities
      /\ page \in Page /\ page.load = "loaded" /\ storage = None
      /\ q \in Seq(Update) /\ q # <<>> /\ page.counter \in Nat
      /\ Head(q).row = request.row
      /\ request.version = Head(q).version => request.data = Head(q).data
      /\ <<i, request.row>> \notin foreign => db[i][request.row] = request.data
      /\ Legit(crossed, q, i, page.counter)
      /\ accepted \in [Identities -> [Rows -> Update \cup {None}]]
      /\ UNCHANGED <<db, catalogue, token, events, messages, late, storage, edits, foreign>>
      /\ SaveNext(p, TRUE) /\ accepted' = Acknowledged
  <2>1. /\ request # None /\ request.state = "stored" /\ accepted' = Acknowledged
        /\ UNCHANGED <<db, catalogue, token, events, messages, late, storage, edits, foreign>>
        /\ SaveNext(p, TRUE)
    BY DEF Saved, auth
  <2> HIDE DEF p
  <2>2. /\ request \in Request /\ Open /\ i # None /\ page.load = "loaded" /\ q # <<>>
        /\ Head(q).row = request.row
        /\ request.version = Head(q).version => request.data = Head(q).data
        /\ <<i, request.row>> \notin foreign => db[i][request.row] = request.data
    BY <2>1 DEF PersonalInv, TypeOK, RequestFits
  <2>3. /\ page \in Page /\ q \in Seq(Update) /\ page.counter \in Nat /\ i \in Identities
        /\ accepted \in [Identities -> [Rows -> Update \cup {None}]]
    BY <2>2, BoundsAssumption DEF PersonalInv, TypeOK, Open, Page
  <2>4. storage = None /\ Legit(crossed, q, i, page.counter)
    BY <2>2 DEF PersonalInv, PageFits
  <2> QED BY <2>1, <2>2, <2>3, <2>4
<1>2. /\ c \in Seq(Update) /\ Legit(crossed, c, i, page.counter)
      /\ \A k \in DOMAIN c : \E j \in DOMAIN q : c[k] = q[j]
      /\ \A j \in DOMAIN q :
           \/ \E k \in DOMAIN c : c[k] = q[j]
           \/ q[j].row = request.row /\ q[j].data = request.data
  <2> HIDE DEF q, i
  <2> QED BY <1>1, ConfirmedFits
<1> HIDE DEF c
<1>3. /\ p \in Page /\ p.load = "loaded" /\ p.shown = page.shown /\ p.pending = c
      /\ p.counter = page.counter /\ p.identity = i
  BY <1>1, <1>2 DEF Page
<1> HIDE DEF p
<1>4. /\ page' \in Page /\ page'.load = "loaded" /\ page'.shown = page.shown
      /\ page'.pending = c /\ page'.counter = page.counter /\ page'.identity = i
  BY <1>1, <1>3, SaveNextResult
<1>5. Open'
  BY <1>4, NothingAssumption DEF Open
<1>6. /\ crossed \subseteq crossed' /\ crossed' \subseteq Identities \X Rows
      /\ \/ request' = None
         \/ /\ request' \in Request /\ request'.state = "sent" /\ c # <<>>
            /\ request'.row = Head(c).row /\ request'.data = Head(c).data
            /\ request'.version <= page.counter
            /\ Authentic(crossed', request'.data, i, request'.row)
            /\ request'.by # None =>
                 Authentic(crossed', request'.data, request'.by, request'.row)
  <2>1. Legit(crossed, p.pending, p.identity, p.counter)
    BY <1>2, <1>3
  <2>2. p.load = page.load /\ p.identity = page.identity /\ p.counter = page.counter
    BY <1>1, <1>3
  <2>3. TRUE \in BOOLEAN /\ SaveNext(p, TRUE)
    BY <1>1
  <2>4. /\ crossed \subseteq crossed' /\ crossed' \subseteq Identities \X Rows
        /\ \/ ~TRUE /\ request' = request
           \/ request' = None
           \/ /\ request' \in Request /\ request'.state = "sent" /\ p.pending # <<>>
              /\ request'.row = Head(p.pending).row
              /\ request'.data = Head(p.pending).data
              /\ request'.version <= p.counter
              /\ Authentic(crossed', request'.data, p.identity, request'.row)
              /\ request'.by # None =>
                   Authentic(crossed', request'.data, request'.by, request'.row)
    BY <1>1, <1>3, <2>1, <2>2, <2>3, SentFits
  <2> QED BY <1>3, <2>4
<1>7. request.row \in Rows
  BY <1>1 DEF Request
<1>8. \A j \in Identities, r \in Rows : accepted'[j][r] # None =>
        /\ accepted'[j][r] = accepted[j][r]
        /\ ~ (j = i /\ r = request.row /\ accepted[j][r].data = request.data)
  BY <1>1, <1>7 DEF Acknowledged
<1>9. TypeOK'
  <2>1. accepted' \in [Identities -> [Rows -> Update \cup {None}]]
    BY <1>1, <1>7 DEF Acknowledged
  <2> QED BY <1>1, <1>4, <1>6, <2>1 DEF PersonalInv, TypeOK
<1>10. PageFits'
  <2>1. \A k \in DOMAIN c : page.shown[c[k].row] = c[k].data
    BY <1>1, <1>2 DEF PersonalInv, PageFits
  <2>2. Legit(crossed', c, i, page.counter)
    BY <1>1, <1>2, <1>6, LaterLegit
  <2>3. \A r \in Rows : Authentic(crossed', page.shown[r], i, r)
    BY <1>1, <1>6, MoreMayCross
  <2>4. i # token => events # <<>>
    BY <1>1 DEF PersonalInv, PageFits
  <2>5. page.counter <= edits
    BY <1>1 DEF PersonalInv, PageFits
  <2> HIDE DEF i
  <2> QED BY <1>1, <1>4, <2>1, <2>2, <2>3, <2>4, <2>5 DEF PageFits
<1>11. RequestFits'
  <2> HIDE DEF i
  <2> QED BY <1>1, <1>4, <1>5, <1>6 DEF RequestFits
<1>12. StorageFits' /\ LateFits' /\ RowsCrossOnlyBetweenSessions'
  BY <1>1, <1>6, MoreMayCross
  DEF PersonalInv, StorageFits, LateFits, RowsCrossOnlyBetweenSessions
<1>13. UnsavedEditsAreKept'
  <2> SUFFICES ASSUME NEW j \in Identities, NEW r \in Rows, accepted'[j][r] # None
               PROVE  i = j /\ Keeps(c, r, accepted'[j][r])
    BY <1>1, <1>4, <1>5 DEF UnsavedEditsAreKept
  <2>1. /\ accepted'[j][r] = accepted[j][r] /\ accepted[j][r] # None
        /\ ~ (j = i /\ r = request.row /\ accepted[j][r].data = request.data)
    BY <1>8
  <2>2. i = j /\ Keeps(q, r, accepted[j][r])
    BY <1>1, <2>1 DEF PersonalInv, UnsavedEditsAreKept
  <2>3. PICK k \in DOMAIN q : q[k].row = r /\ q[k].data = accepted[j][r].data
    BY <2>2 DEF Keeps
  <2>4. \E k2 \in DOMAIN c : c[k2] = q[k]
    BY <1>2, <2>1, <2>2, <2>3
  <2> QED BY <2>1, <2>2, <2>3, <2>4 DEF Keeps
<1>14. ShownIsStored'
  <2> SUFFICES ASSUME NEW r \in Rows, ~Queued(c, r), <<i, r>> \notin foreign
               PROVE  page.shown[r] = db[i][r]
    BY <1>1, <1>4 DEF ShownIsStored
  <2>1. CASE Queued(q, r)
    <3>1. PICK j \in DOMAIN q : q[j].row = r
      BY <2>1 DEF Queued
    <3>2. q[j].row = request.row /\ q[j].data = request.data
      BY <1>2, <3>1 DEF Queued
    <3>3. page.shown[r] = q[j].data
      BY <1>1, <3>1 DEF PersonalInv, PageFits
    <3> QED BY <1>1, <3>1, <3>2, <3>3
  <2>2. CASE ~Queued(q, r)
    BY <1>1, <2>2 DEF PersonalInv, ShownIsStored, CanEdit
  <2> QED BY <2>1, <2>2
<1> QED BY <1>9, <1>10, <1>11, <1>12, <1>13, <1>14 DEF PersonalInv

-----------------------------------------------------------------------------
(* Theorems. *)

LEMMA StepKeeps == PersonalInv /\ [Next]_vars => PersonalInv'
<1> SUFFICES ASSUME PersonalInv, [Next]_vars PROVE PersonalInv'
  OBVIOUS
<1>1. CASE UNCHANGED vars
  BY <1>1
  DEF vars, PersonalInv, TypeOK, PageFits, StorageFits, RequestFits, LateFits,
      UnsavedEditsAreKept, ShownIsStored, RowsCrossOnlyBetweenSessions, Open, CanEdit
<1>2. CASE Next
  BY <1>2, SignOutKeeps, SignOutElsewhereKeeps, HearTokenKeeps, ProfileArrivesKeeps,
     HearSessionKeeps, HearLogoutKeeps, SignInKeeps, SignInElsewhereKeeps, OpenPageKeeps,
     DestroyPageKeeps, ReloadTabKeeps, LoadAnsweredKeeps, LoadFailsKeeps, RetryLoadKeeps,
     EditKeeps, TimerFiresKeeps, RetrySaveKeeps, StoreKeeps, SavedKeeps, SaveFailsKeeps,
     LateStoreKeeps, LateAgainKeeps, SaveAgainKeeps, LoadAgainKeeps, DiscardKeeps,
     LeaveKeeps, RowGoesKeeps
  DEF Next
<1> QED BY <1>1, <1>2

LEMMA PersonalInvariant == Spec => []PersonalInv
BY InitHolds, StepKeeps, PTL DEF Spec

\* Every variable has its type; in particular edits are numbered within their bound
\* however often a queue is suspended and restored (restorePendingPersonalSession
\* goes on from the highest number).
THEOREM TypesHold == Spec => []TypeOK
<1>1. PersonalInv => TypeOK
  BY DEF PersonalInv
<1> QED BY <1>1, PersonalInvariant, PTL

\* No edit is forgotten before a save has confirmed its latest content: it stays in
\* the queue of its author's page or in the suspended session of its author, in any
\* order of saves, newer edits, changes of the session in this tab or another, reloads
\* and restorations (saveNextPersonalItemRow, suspendPendingPersonalSession,
\* restorePendingPersonalSession).
THEOREM EditsAreKept == Spec => []UnsavedEditsAreKept
<1>1. PersonalInv => UnsavedEditsAreKept
  BY DEF PersonalInv
<1> QED BY <1>1, PersonalInvariant, PTL

\* A row that does not wait to be saved is shown as it is stored, unless it was
\* written, or read, past the page: by a save that was given up or with the token of
\* another (saveNextPersonalItemRow, patchPersonalItemPreferenceRow).
THEOREM PagesShowWhatIsStored == Spec => []ShownIsStored
<1>1. PersonalInv => ShownIsStored
  BY DEF PersonalInv
<1> QED BY <1>1, PersonalInvariant, PTL

\* What one identity has written gets into the record of another only by a request
\* that was sent before the tab had heard of a change of the token, or sent again
\* after a refresh of the session: however sessions change, in this tab or another,
\* and queues are suspended and restored
\* (discardPendingPersonalSessionUnlessOwnedBy, syncPersonalItemDataSession, and the
\* interceptor that reads the token when it sends).
THEOREM RowsCrossOnlyBeforeNews == Spec => []RowsCrossOnlyBetweenSessions
<1>1. PersonalInv => RowsCrossOnlyBetweenSessions
  BY DEF PersonalInv
<1> QED BY <1>1, PersonalInvariant, PTL

=============================================================================
