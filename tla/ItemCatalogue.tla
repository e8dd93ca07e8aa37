---------------------------- MODULE ItemCatalogue ----------------------------
(* The item list of one ACP: parsed from its files, numbered by the numbers *)
(* the database keeps, and cached at four places by what was read first     *)
(* (backend/src/files/unit-parser.service.ts, file-catalog.cache.ts,        *)
(* item-list.parser.ts, numbered-item-list.cache.ts, async-lru-cache.ts,    *)
(* item-row-numbering.service.ts).                                          *)
(*                                                                          *)
(* A file holds one item.  An item is one row <<item, 0>>, or the rows      *)
(* <<item, s>> that the item properties divide it into.  A signature over   *)
(* the file rows is the set of files, as every upload makes new rows; a     *)
(* revision of the row numbers is the numbers.                              *)
EXTENDS Integers, Sequences, FiniteSets, Functions

CONSTANTS
  Clients,       \* requests under way at once
  Files,         \* file rows, each uploaded once
  Holds,         \* the item of each file
  Parts,         \* the rows into which item properties may divide items
  Budgets,       \* the files at the start, and bounds: requests, changes of files and drafts
  Unset

ASSUME CatalogueAssumption ==
  /\ IsFiniteSet(Files) /\ Holds \in [Files -> Nat]
  /\ IsFiniteSet(Parts) /\ Parts \subseteq Nat \X (Nat \ {0})
  /\ Budgets \subseteq 
       [present : SUBSET Files, list : Nat, keys : Nat, renumber : Nat, files : Nat, drafts : Nat]
  /\ Unset \notin Clients

VARIABLES
  log,       \* the file rows now (last) and before
  disk,      \* the files on disk
  pending,   \* changes of files whose files or caches are not cleared yet
  numberings,\* acp_item_row_numbers now (last) and before
  shared,    \* item properties of the Explorer: draft, published, published version
  caches,    \* the four caches of the process
  request,   \* the request of each client
  public,    \* history: the ways in which the items were divided for all
  budget     \* what is left of a budget

catalogueVars == <<log, disk, pending, numberings, shared, caches, request, public, budget>>

Spend(what) == budget[what] > 0 /\ budget' = [budget EXCEPT ![what] = @ - 1]

Current == log[Len(log)]
numbers == numberings[Len(numberings)]

-----------------------------------------------------------------------------
(* Rows and numbers                                                        *)

ItemsOf(S) == {Holds[f] : f \in S}
Divided(i, props) == {p \in props : p[1] = i}
RowsFor(items, props) ==
  UNION {IF Divided(i, props) = {} THEN {<<i, 0>>} ELSE Divided(i, props) : i \in items}
AllRows == RowsFor(ItemsOf(Files), {}) \cup Parts

ASSUME UnsetAssumption == \A S \in SUBSET AllRows : S # Unset

\* compareRows: by item and sub-item.
Before(q, r) == q[1] < r[1] \/ (q[1] = r[1] /\ q[2] < r[2])
Rank(r, S) == Cardinality({q \in S : Before(q, r)}) + 1
Numbering(S) == [r \in S |-> Rank(r, S)]

Highest(n) == CHOOSE k \in Range(n) \cup {0} : \A l \in Range(n) : l <= k
\* f, and what it lacks as in g.
Merged(f, g) ==
  [x \in DOMAIN f \cup DOMAIN g |-> IF x \in DOMAIN f THEN f[x] ELSE g[x]]
\* Mutant: the numbers of new rows begin at one.
AppendedFromOne(n, S, highest) ==
  LET missing == S \ DOMAIN n IN Merged(n, [r \in missing |-> Rank(r, missing)])
\* The numbers n, and the missing rows of S above them in order.
Appended(n, S, highest) ==
  LET missing == S \ DOMAIN n
  IN Merged(n, [r \in missing |-> highest + Rank(r, missing)])

-----------------------------------------------------------------------------
(* Caches: maps from keys to promises, which are the load of a client or   *)
(* done                                                                    *)

NoCaches == [files |-> <<>>, lists |-> <<>>, numbered |-> <<>>, keys |-> <<>>]
Loading(c) == [by |-> c, value |-> Unset]
Settled(v) == [by |-> Unset, value |-> v]

Put(f, k, e) == Merged([x \in {k} |-> e], f)
Without(f, K) == Restrict(f, DOMAIN f \ K)
\* An entry that was invalidated while it loaded is not found any more.
Holding(f, k, c) == k \in DOMAIN f /\ f[k].by = c
Resolved(f, k, c, v) == IF Holding(f, k, c) THEN Put(f, k, Settled(v)) ELSE f
Dropped(f, k, c) == IF Holding(f, k, c) THEN Without(f, {k}) ELSE f
\* NumberedItemListCache: the entry moves to the revision the numbers have by now.
Promoted(f, k, new, c, v) ==
  IF Holding(f, k, c) THEN Merged(Without(f, {k}), [x \in {new} |-> Settled(v)]) ELSE f

-----------------------------------------------------------------------------
(* Requests                                                                *)

NoRequest ==
  [at |-> "idle", op |-> "list", on |-> Unset, start |-> 0, since |-> 0,
   active |-> {}, published |-> {}, version |-> 0, known |-> {}, signature |-> {},
   files |-> {}, revision |-> Unset, rows |-> {}, stable |-> Unset, sound |-> TRUE,
   expected |-> Unset, fixed |-> Unset, attempt |-> 0, got |-> <<>>]

At(c, stages) == request[c].at \in stages
Done(c) == At(c, {"done"})
Busy(c) == ~At(c, {"idle", "done"})
\* An answer leaves in the step that completes it: it stands for a state, in which
\* nothing else happens, so that the properties can speak of it.
Silent == \A c \in Clients : ~Done(c)
Owns(c) == request[c].on = c
Free(c) == request[c].on = Unset
Step(c, r) == request' = [request EXCEPT ![c] = r]
\* The load of c ends: all who wait for it go on as GoOn says.
Wake(c, GoOn(_)) ==
  request' = [d \in Clients |->
                IF request[d].on = c THEN GoOn([request[d] EXCEPT !.on = Unset])
                ELSE request[d]]

\* Who asks reads the Explorer state first: an editor sees the draft.
Ask(c, op, editor) ==
  /\ Silent /\ ~Busy(c) /\ Spend(op)
  /\ op = "renumber" => shared.draft = shared.published
  /\ Step(c, [NoRequest EXCEPT
                !.at = IF op = "keys" THEN "keys" ELSE "signature",
                !.op = op, !.start = Len(log), !.since = Len(numberings),
                !.active = IF editor THEN shared.draft ELSE shared.published,
                !.published = shared.published,
                !.version = IF op = "renumber" THEN shared.version ELSE 0])
  /\ UNCHANGED <<log, disk, pending, numberings, shared, caches, public>>

Refused == NoRequest
Served(r, got) ==
  [NoRequest EXCEPT !.at = "done", !.op = r.op, !.start = r.start, !.since = r.since,
                    !.active = r.active, !.stable = r.stable, !.sound = r.sound,
                    !.got = got]

Reads == Silent /\ UNCHANGED <<log, disk, pending, numberings, shared, public, budget>>

-----------------------------------------------------------------------------
(* The files and the parsed list                                           *)

KnownKey(r) == <<r.known, r.active, r.published>>
\* getItemRowKeysFromFiles: the rows for these files, or the whole list.
ReadKeys(c) ==
  /\ At(c, {"keys"})
  /\ LET r == [request[c] EXCEPT !.known = Current]
     IN Step(c, IF KnownKey(r) \in DOMAIN caches.keys
                  THEN Served(r, caches.keys[KnownKey(r)])
                  ELSE [r EXCEPT !.at = "signature"])
  /\ UNCHANGED caches /\ Reads

\* The row revision is read beside the files, at any time before it is needed.
ReadRevision(c) ==
  /\ Busy(c) /\ ~At(c, {"keys"}) /\ request[c].op # "renumber"
  /\ request[c].revision = Unset
  /\ Step(c, [request[c] EXCEPT !.revision = numbers])
  /\ UNCHANGED caches /\ Reads

Catalogued(r, found) ==
  [r EXCEPT !.files = found, !.at = IF r.op = "renumber" THEN "strict" ELSE "parse"]

\* FileCatalogCache.get: only the catalogue of the present signature is kept.
ReadSignature(c) ==
  /\ At(c, {"signature"})
  /\ LET r == [request[c] EXCEPT !.signature = Current, !.at = "files"]
         kept == Restrict(caches.files, DOMAIN caches.files \cap {Current})
     IN IF Current \in DOMAIN kept
          THEN /\ Step(c, IF kept[Current].by = Unset
                            THEN Catalogued(r, kept[Current].value)
                            ELSE [r EXCEPT !.on = kept[Current].by])
               /\ caches' = [caches EXCEPT !.files = kept]
          ELSE /\ Step(c, [r EXCEPT !.on = c])
               /\ caches' = [caches EXCEPT !.files = Put(<<>>, Current, Loading(c))]
  /\ Reads

\* The rows are read by a statement of their own, after the signature.
LoadFiles(c) ==
  /\ At(c, {"files"}) /\ Owns(c)
  /\ Wake(c, LAMBDA r : Catalogued(r, Current))
  /\ caches' = [caches EXCEPT !.files = Resolved(@, request[c].signature, c, Current)]
  /\ Reads

\* getItemListFromFiles parses the published list as well if other rows are divided.
Parsed(r, list) ==
  IF r.at = "parse"
    THEN [r EXCEPT !.rows = list.rows, !.sound = list.sound,
                   !.at = IF r.active = r.published THEN "number" ELSE "published"]
    ELSE [r EXCEPT !.stable = list.rows, !.sound = @ /\ list.sound, !.at = "number"]
\* Mutant: the key of a parsed list has the properties and not the files.
ListKeyByProperties(r) == <<{}, IF r.at = "parse" THEN r.active ELSE r.published>>
ListKey(r) == <<r.signature, IF r.at = "parse" THEN r.active ELSE r.published>>

\* getOrLoad: what is there, what another is loading, or a load of one's own.
EnterParse(c) ==
  /\ At(c, {"parse", "published"}) /\ Free(c)
  /\ LET r == request[c]
         k == ListKey(r)
     IN \/ /\ k \in DOMAIN caches.lists
           /\ LET e == caches.lists[k] IN
              Step(c, IF e.by = Unset THEN Parsed(r, e.value) ELSE [r EXCEPT !.on = e.by])
           /\ UNCHANGED caches
        \/ /\ k \notin DOMAIN caches.lists
           /\ Step(c, [r EXCEPT !.on = c])
           /\ caches' = [caches EXCEPT !.lists = Put(@, k, Loading(c))]
  /\ Reads

\* A file that is gone from the disk is left out, and the list is not kept.
Parse(c) ==
  /\ At(c, {"parse", "published"}) /\ Owns(c)
  /\ LET r == request[c]
         list == [rows |-> RowsFor(ItemsOf(r.files \cap disk), ListKey(r)[2]),
                  sound |-> r.files \subseteq disk]
     IN /\ Wake(c, LAMBDA q : Parsed(q, list))
        /\ caches' = [caches EXCEPT
                        !.lists = IF list.sound THEN Resolved(@, ListKey(r), c, list)
                                  ELSE Dropped(@, ListKey(r), c)]
  /\ Reads

-----------------------------------------------------------------------------
(* The numbers of a list                                                   *)

NumberedKey(r, revision) == <<r.signature, r.active, r.published, revision>>

\* getItemRowKeysFromFiles keeps what it got, under what it read at its beginning.
KnownBy(D, got) ==
  [k \in {KnownKey(request[d]) : d \in {d \in D : request[d].op = "keys"}} |-> got]

EnterNumbers(c) ==
  /\ At(c, {"number"}) /\ Free(c) /\ request[c].revision # Unset
  /\ LET r == [request[c] EXCEPT !.expected = request[c].revision, !.attempt = 1]
         k == NumberedKey(r, r.revision)
     IN \/ /\ ~r.sound
           /\ Step(c, [r EXCEPT !.at = "assign"])
           /\ UNCHANGED caches
        \/ /\ r.sound /\ k \notin DOMAIN caches.numbered
           /\ Step(c, [r EXCEPT !.at = "assign", !.on = c])
           /\ caches' = [caches EXCEPT !.numbered = Put(@, k, Loading(c))]
        \/ /\ r.sound /\ k \in DOMAIN caches.numbered
           /\ LET e == caches.numbered[k] IN
              IF e.by # Unset
                THEN Step(c, [r EXCEPT !.on = e.by]) /\ UNCHANGED caches
                ELSE /\ Step(c, Served(r, e.value))
                     /\ caches' = [caches EXCEPT !.keys = Merged(KnownBy({c}, e.value), @)]
  /\ Reads

\* The numbers of a list are complete, under a revision if the list may be kept.
Numbered(c, got, revision) ==
  LET r == request[c]
      D == IF Owns(c) THEN {d \in Clients : request[d].on = c} ELSE {c}
  IN /\ request' = [d \in Clients |-> IF d \in D THEN Served(request[d], got)
                                      ELSE request[d]]
     /\ caches' = [caches EXCEPT
                     !.numbered = Promoted(@, NumberedKey(r, r.revision),
                                           NumberedKey(r, revision), c, got),
                     !.keys = Merged(KnownBy(D, got), @)]

\* What follows an assignment: the rows of the draft, a look at the revision
\* unless the assignment has brought it, or the answer.
Assigned(c, got, revision) ==
  LET r == request[c] IN
  \/ /\ r.stable # Unset
     /\ Step(c, [r EXCEPT !.at = "provisional", !.fixed = revision])
     /\ UNCHANGED caches
  \/ /\ r.stable = Unset /\ r.sound /\ revision = Unset
     /\ Step(c, [r EXCEPT !.at = "check", !.got = got])
     /\ UNCHANGED caches
  \/ /\ r.stable = Unset /\ (~r.sound \/ revision # Unset)
     /\ Numbered(c, got, revision)

\* Mutant: what is shown gets its number, published or not.
TargetAsShown(r) == r.rows
\* Numbers that stay are for the published rows.
Target(r) == IF r.stable # Unset THEN r.stable ELSE r.rows

\* assignNumbers: what has a number keeps it, without a lock ...
Assign(c) ==
  /\ At(c, {"assign"})
  /\ IF Target(request[c]) \subseteq DOMAIN numbers
       THEN Assigned(c, Restrict(numbers, Target(request[c])), Unset)
       ELSE Step(c, [request[c] EXCEPT !.at = "lock"]) /\ UNCHANGED caches
  /\ Reads

Renumbered(n) ==
  numberings' = IF n = numbers THEN numberings ELSE Append(numberings, n)

\* ... and under the lock of the ACP what has none is put behind the others.
AssignLocked(c) ==
  /\ Silent /\ At(c, {"lock"})
  /\ LET n == Appended(numbers, Target(request[c]), Highest(numbers))
     IN /\ Renumbered(n)
        /\ Assigned(c, Restrict(n, Target(request[c])), n)
  /\ UNCHANGED <<log, disk, pending, shared, public, budget>>

\* A number for now: what the page shows has been read or is missing ...
Complete(c, got) ==
  IF request[c].sound
    THEN Step(c, [request[c] EXCEPT !.at = "check", !.got = got]) /\ UNCHANGED caches
    ELSE Numbered(c, got, Unset)

AssignProvisionally(c) ==
  /\ At(c, {"provisional"})
  /\ LET got == Restrict(numbers, DOMAIN numbers \cap request[c].rows)
     IN IF request[c].rows \subseteq DOMAIN got
          THEN Complete(c, got)
          ELSE Step(c, [request[c] EXCEPT !.at = "highest", !.got = got]) /\ UNCHANGED caches
  /\ Reads

\* ... and is counted on from the highest number, which another statement reads.
ReadHighest(c) ==
  /\ At(c, {"highest"})
  /\ Complete(c, Appended(request[c].got, request[c].rows, Highest(numbers)))
  /\ Reads

Expected(r) == IF r.fixed # Unset THEN r.fixed ELSE r.expected
\* Mutant: the revision is not looked at again.
UnrevisedAnyway(r) == r.expected # Unset
Unrevised(r) == numbers = Expected(r)

\* applyItemRowNumbersWithStableRevision: three attempts.
CheckRevision(c) ==
  /\ At(c, {"check"})
  /\ LET r == request[c]
     IN \/ /\ Unrevised(r)
           /\ Numbered(c, r.got, numbers)
        \/ /\ ~Unrevised(r) /\ r.attempt < 3
           /\ Step(c, [r EXCEPT !.at = "assign", !.expected = numbers, !.fixed = Unset,
                                !.attempt = @ + 1, !.got = <<>>])
           /\ UNCHANGED caches
        \/ /\ ~Unrevised(r) /\ r.attempt = 3
           /\ Wake(c, LAMBDA q : Refused)
           /\ caches' = [caches EXCEPT !.numbered = Dropped(@, NumberedKey(r, r.revision), c)]
  /\ Reads

-----------------------------------------------------------------------------
(* Recalculation                                                           *)

\* Every file is read, whatever the caches hold.
StrictParse(c) ==
  /\ At(c, {"strict"})
  /\ LET r == request[c]
     IN Step(c, IF r.files \subseteq disk
                  THEN [r EXCEPT !.at = "renumber",
                                 !.rows = RowsFor(ItemsOf(r.files), r.published)]
                  ELSE Refused)
  /\ UNCHANGED caches /\ Reads

\* Mutant: the files are not looked at again.
MayRenumberAnyFiles(r) ==
  shared.draft = shared.published /\ shared.version = r.version
MayRenumber(r) ==
  /\ shared.draft = shared.published /\ shared.version = r.version
  /\ Current = r.files

\* One transaction, which holds the Explorer state, the ACP and the file rows.
Renumber(c) ==
  /\ Silent /\ At(c, {"renumber"})
  /\ Step(c, Refused)
  /\ IF MayRenumber(request[c])
       THEN Renumbered(Numbering(request[c].rows))
       ELSE UNCHANGED numberings
  /\ caches' = [caches EXCEPT !.numbered = IF MayRenumber(request[c]) THEN <<>> ELSE @]
  /\ UNCHANGED <<log, disk, pending, shared, public, budget>>

-----------------------------------------------------------------------------
(* Around the requests                                                     *)

Unused == Files \ UNION Range(log)

\* Uploads add and replace, deletions remove; then the files are unlinked.
ChangeFiles(new, gone) ==
  /\ Silent /\ Spend("files")
  /\ new \subseteq Unused /\ gone \subseteq Current /\ new \cup gone # {}
  /\ Cardinality(new) <= 1 /\ Cardinality(gone) <= 1
  /\ log' = Append(log, (Current \ gone) \cup new)
  /\ disk' = disk \cup new
  /\ pending' = pending \cup {[gone |-> gone, at |-> Len(log)]}
  /\ UNCHANGED <<numberings, shared, caches, request, public>>

Unlink(m) ==
  /\ Silent /\ ~(m.gone \cap disk = {})
  /\ disk' = disk \ m.gone
  /\ UNCHANGED <<log, pending, numberings, shared, caches, request, public, budget>>

\* invalidateFileCaches, which another process of the backend cannot do here.
Invalidate(m, here) ==
  /\ Silent /\ m.gone \cap disk = {}
  /\ pending' = pending \ {m}
  /\ caches' = IF here THEN NoCaches ELSE caches
  /\ UNCHANGED <<log, disk, numberings, shared, request, public, budget>>

EditDraft(props) ==
  /\ Silent /\ props # shared.draft /\ Spend("drafts")
  /\ shared' = [shared EXCEPT !.draft = props]
  /\ UNCHANGED <<log, disk, pending, numberings, caches, request, public>>

Publish ==
  /\ Silent /\ shared.draft # shared.published
  /\ shared' = [shared EXCEPT !.published = shared.draft, !.version = @ + 1]
  /\ public' = public \cup {shared.draft}
  /\ UNCHANGED <<log, disk, pending, numberings, caches, request, budget>>

CatalogueInit ==
  /\ budget \in Budgets
  /\ log = <<budget.present>> /\ disk = budget.present
  /\ pending = {} /\ numberings = << <<>> >> /\ public = {{}}
  /\ shared = [draft |-> {}, published |-> {}, version |-> 1]
  /\ caches = NoCaches
  /\ request = [c \in Clients |-> NoRequest]

Serve(c) ==
  \/ \E op \in {"list", "keys", "renumber"}, editor \in BOOLEAN : Ask(c, op, editor)
  \/ ReadKeys(c) \/ ReadRevision(c) \/ ReadSignature(c) \/ LoadFiles(c)
  \/ EnterParse(c) \/ Parse(c) \/ EnterNumbers(c)
  \/ Assign(c) \/ AssignLocked(c) \/ AssignProvisionally(c) \/ ReadHighest(c)
  \/ CheckRevision(c) \/ StrictParse(c) \/ Renumber(c)

Around ==
  \/ \E new, gone \in SUBSET Files : ChangeFiles(new, gone)
  \/ \E m \in pending : Unlink(m)
  \/ \E m \in pending, here \in BOOLEAN : Invalidate(m, here)
  \/ \E props \in SUBSET Parts : EditDraft(props)
  \/ Publish

Deliver ==
  \E c \in Clients :
    /\ Done(c)
    /\ Step(c, NoRequest)
    /\ UNCHANGED <<log, disk, pending, numberings, shared, caches, public, budget>>

CatalogueNext == Deliver \/ (\E c \in Clients : Serve(c)) \/ Around

CatalogueSpec == CatalogueInit /\ [][CatalogueNext]_catalogueVars

-----------------------------------------------------------------------------
(* Properties                                                              *)

\* Besides the types: no two rows have one number.
CatalogueTypeOK ==
  /\ log \in Seq(SUBSET Files) /\ log # <<>> /\ disk \subseteq Files
  /\ DOMAIN numbers \subseteq AllRows /\ IsInjective(numbers)
  /\ Range(numbers) \subseteq Nat \ {0}
  /\ shared \in [draft : SUBSET Parts, published : SUBSET Parts, version : Nat]

\* No set of files has come back: an upload has not been undone by a deletion.
NothingReturned == IsInjective(log)
\* The stored numbers have not come back to what they were before.
NoNumbersReturned == IsInjective(numberings)

(* What the catalogue promises                                             *)

\* A list, and the set of rows that personal data may be stored for, shows the item
\* of every file that was in the package all the while and none that was not there
\* at all while the request was served: through four caches filled by slower
\* requests, files that change under a load, and changes made by a process that
\* invalidates nothing here.  The exception are files that have come back to what
\* they were: a load that was overtaken by an upload and by its deletion fills a
\* cache after the invalidation, and its key is found again.
ListsShowThePackage ==
  \A c \in Clients :
    Done(c) /\ NothingReturned =>
      LET r == request[c]
          shown == {row[1] : row \in DOMAIN r.got}
          during == {log[k] : k \in r.start..Len(log)}
      IN /\ DOMAIN r.got = RowsFor(shown, r.active)
         /\ shown \subseteq ItemsOf(UNION during)
         /\ \A f \in Files : (\A S \in during : f \in S) => Holds[f] \in shown

\* The numbers of a list differ, and were stored together at one moment of the
\* request, however often the rows were numbered and renumbered meanwhile.  There
\* are two exceptions.  The editors' list of a draft with a file gone is answered
\* without a look at the revision: its numbers for now are counted on from numbers
\* of different moments.  And a revision is the stored numbers themselves: a list
\* that reads others in between does not notice them when they have come back.
NumbersAreOfOneMoment ==
  \A c \in Clients :
    /\ Done(c) /\ request[c].op = "list" /\ NoNumbersReturned
    /\ request[c].stable = Unset \/ request[c].sound
    => LET got == request[c].got IN
       /\ IsInjective(got)
       /\ \E k \in request[c].since..Len(numberings) :
            \A row \in DOMAIN got \cap DOMAIN numberings[k] : got[row] = numberings[k][row]

\* A row gets a number that stays only if the item was divided like that for all
\* readers at some time: what editors try out in a draft takes up no number.
DraftRowsStayUnnumbered ==
  DOMAIN numbers \subseteq UNION {RowsFor(ItemsOf(Files), props) : props \in public}

\* A recalculation counts the rows of the package and of the publication as they
\* are when it commits, though it has parsed them before, outside its transaction.
RenumberingCountsThePackage ==
  [][\A c \in Clients :
       At(c, {"renumber"}) /\ request'[c].at # "renumber" /\ numbers' # numbers
       => numbers' = Numbering(RowsFor(ItemsOf(Current), shared.published))]_catalogueVars
=============================================================================
