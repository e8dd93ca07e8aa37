------------------------- MODULE ItemCatalogueProofs -------------------------
(* Proofs about ItemCatalogue.  What a request holds is tied to the history *)
(* of the files (Seen) and of the numbers (Agrees); who waits for a load    *)
(* waits for its owner (Waits), and what a cache keeps under a key is what  *)
(* a request with that key would have found (CachesFit).                    *)
EXTENDS ItemCatalogue, FiniteSetTheorems, WellFoundedInduction, TLAPS

-----------------------------------------------------------------------------
(* The inductive invariant                                                 *)

\* What the package, the numbers and the Explorer state are, between requests.
FilesFit ==
  /\ log \in Seq(SUBSET Files) /\ log # <<>>
  /\ Current \subseteq disk /\ disk \subseteq UNION Range(log)
  /\ \A m \in pending : m.gone \subseteq UNION Range(log) /\ m.gone \cap Current = {}

SharedFits ==
  /\ shared \in [draft : SUBSET Parts, published : SUBSET Parts, version : Nat]
  /\ shared.published \in public /\ public \subseteq SUBSET Parts

Numberings == UNION {[S -> Nat \ {0}] : S \in SUBSET AllRows}
PublicRows == UNION {RowsFor(ItemsOf(Files), props) : props \in public}

NumbersFit ==
  /\ numberings \in Seq(Numberings) /\ numberings # <<>>
  /\ DOMAIN numbers \subseteq PublicRows /\ IsInjective(numbers)

\* The files F were read by who had the signature s, in the history L of the files.
Loaded(L, F, s) == \E i, j \in DOMAIN L : i <= j /\ L[i] = s /\ F = L[j]
\* The files X were read, and what was not read of them is gone for good.
Seen(L, X, s) ==
  \E i, j \in DOMAIN L :
    i <= j /\ L[i] = s /\ X \subseteq L[j] /\ (L[j] \ X) \cap L[Len(L)] = {}
ParsedFrom(L, R, props, s) ==
  \E X \in SUBSET Files : R = RowsFor(ItemsOf(X), props) /\ Seen(L, X, s)

\* Numbers got that differ, and differ from none of the numbering n.
Agrees(got, n) ==
  IsInjective(got) /\ \A row \in DOMAIN got \cap DOMAIN n : got[row] = n[row]

Assigning == {"assign", "lock", "provisional", "highest", "check"}
Listed == {"published", "number"} \cup Assigning
Signed == {"files", "parse", "strict", "renumber"} \cup Listed
Stages == {"idle", "keys", "signature", "done"} \cup Signed

IsRequest(r) ==
  r \in [at : Stages, op : {r.op}, on : Clients \cup {Unset}, start : Nat, since : Nat,
         active : SUBSET Parts, published : SUBSET Parts, version : Nat,
         known : {r.known}, signature : {r.signature}, files : {r.files},
         revision : {r.revision}, rows : {r.rows}, stable : {r.stable},
         sound : BOOLEAN, expected : {r.expected}, fixed : {r.fixed},
         attempt : {r.attempt}, got : {r.got}]

\* When a request began, and what it found of the Explorer state.
Asked(L, N, H, P, r) ==
  r.at # "idle" =>
    /\ r.start \in DOMAIN L /\ r.since \in DOMAIN N
    /\ r.at # "done" =>
         /\ r.published \in P
         /\ r.op = "renumber" =>
              r.version <= H.version /\ (r.version = H.version => r.published = H.published)
    /\ r.at \in {"strict", "renumber"} => r.op = "renumber"
    /\ r.at = "keys" => r.op = "keys"

\* The files it has looked at, since it began.
Looked(L, r) ==
  /\ r.at = "signature" /\ r.op = "keys" =>
       \E k \in DOMAIN L : r.start <= k /\ L[k] = r.known
  /\ r.at \in Signed =>
       \E i, k \in DOMAIN L :
         r.start <= k /\ k <= i /\ L[i] = r.signature /\ (r.op = "keys" => L[k] = r.known)
  /\ r.at \in {"parse", "published", "strict", "renumber"} => Loaded(L, r.files, r.signature)
  /\ r.at = "renumber" => r.rows = RowsFor(ItemsOf(r.files), r.published)

\* The rows it has parsed, and those whose numbers are to stay.
HasRows(L, r) ==
  /\ r.at \in Listed => ParsedFrom(L, r.rows, r.active, r.signature)
  /\ r.at \in {"keys", "signature", "files", "parse"} => r.stable = Unset
  /\ r.at \in {"number"} \cup Assigning =>
       IF r.stable = Unset
         THEN r.active = r.published
         ELSE \E Y \in SUBSET Files : r.stable = RowsFor(ItemsOf(Y), r.published)

\* The numbers it has got.
HasNumbers(N, r) ==
  /\ r.revision # Unset /\ r.at # "idle" =>
       \E k \in DOMAIN N : r.since <= k /\ N[k] = r.revision
  /\ r.fixed # Unset => \E k \in DOMAIN N : N[k] = r.fixed
  /\ r.at \in {"number"} \cup Assigning /\ r.on # Unset => r.sound
  /\ r.at \in Assigning => r.revision # Unset /\ \E k \in DOMAIN N : N[k] = r.expected
  /\ r.at \in {"provisional", "highest"} => r.stable # Unset
  /\ r.at = "highest" =>
       /\ DOMAIN r.got \subseteq r.rows
       /\ IsInjective(N) /\ N[Len(N)] = Expected(r) =>
            r.got = Restrict(N[Len(N)], DOMAIN N[Len(N)] \cap r.rows)
  /\ r.at = "check" =>
       /\ DOMAIN r.got = r.rows
       /\ IsInjective(N) /\ N[Len(N)] = Expected(r) => Agrees(r.got, N[Len(N)])

\* What it is answered.
Answered(L, N, r) ==
  r.at = "done" =>
    /\ IsInjective(L) =>
         \E X \in SUBSET Files, j \in DOMAIN L :
           /\ DOMAIN r.got = RowsFor(ItemsOf(X), r.active)
           /\ r.start <= j /\ X \subseteq L[j] /\ (L[j] \ X) \cap L[Len(L)] = {}
    /\ IsInjective(N) /\ r.op = "list" /\ (r.stable = Unset \/ r.sound) =>
         \E k \in DOMAIN N : r.since <= k /\ Agrees(r.got, N[k])

RequestFits(L, N, H, P, r) ==
  /\ IsRequest(r) /\ Asked(L, N, H, P, r) /\ Looked(L, r) /\ HasRows(L, r)
  /\ HasNumbers(N, r) /\ Answered(L, N, r)

Requests ==
  /\ request = [c \in Clients |-> request[c]]
  /\ \A c \in Clients : RequestFits(log, numberings, shared, public, request[c])

\* The load that a request waits for, or owns.
LoadOf(r) ==
  IF r.at = "files" THEN <<"files", r.signature>>
  ELSE IF r.at \in {"parse", "published"} THEN <<"lists", ListKey(r)>>
  ELSE <<"numbered", NumberedKey(r, r.revision)>>

\* Who waits for a load waits for its owner, at the same load.
WaitFits(Q, c) ==
  LET o == Q[c].on IN
  o # Unset =>
    /\ o \in Clients /\ Q[o].on = o /\ LoadOf(Q[c]) = LoadOf(Q[o])
    /\ Q[c].at \in {"files", "parse", "published", "number"} \cup Assigning
    /\ Q[c].at \in Assigning => o = c
    /\ Q[c].at = "number" => o # c /\ Q[c].revision # Unset
Waits == \A c \in Clients : WaitFits(request, c)

Leads(Q, o, l) == o \in Clients /\ Q[o].on = o /\ LoadOf(Q[o]) = l

IsEntry(Q, kind, k, e) ==
  /\ e \in [by : {e.by}, value : {e.value}]
  /\ e.by # Unset => Leads(Q, e.by, <<kind, k>>)

\* Entries that load have an owner ...
LoadsFit(Q, C) ==
  /\ \A k \in DOMAIN C.files : IsEntry(Q, "files", k, C.files[k])
  /\ \A k \in DOMAIN C.lists : IsEntry(Q, "lists", k, C.lists[k])
  /\ \A k \in DOMAIN C.numbered : IsEntry(Q, "numbered", k, C.numbered[k])

\* ... and the others are what a request with their key could have found.
ValuesFit(L, N, C) ==
  /\ \A k \in DOMAIN C.files : C.files[k].by = Unset => Loaded(L, C.files[k].value, k)
  /\ \A k \in DOMAIN C.lists :
       LET e == C.lists[k] IN
       e.by = Unset => ParsedFrom(L, e.value.rows, k[2], k[1]) /\ e.value.sound \in BOOLEAN
  /\ \A k \in DOMAIN C.numbered :
       LET e == C.numbered[k] IN
       e.by = Unset =>
         /\ ParsedFrom(L, DOMAIN e.value, k[2], k[1])
         /\ IsInjective(N) => Agrees(e.value, k[4])
  /\ \A k \in DOMAIN C.keys : IsInjective(L) => ParsedFrom(L, DOMAIN C.keys[k], k[2], k[1])

IsCaches(C) ==
  C \in [files : {C.files}, lists : {C.lists}, numbered : {C.numbered}, keys : {C.keys}]

CachesFit ==
  IsCaches(caches) /\ LoadsFit(request, caches) /\ ValuesFit(log, numberings, caches)

CatalogueInv ==
  FilesFit /\ SharedFits /\ NumbersFit /\ Requests /\ Waits /\ CachesFit

-----------------------------------------------------------------------------
(* Rows                                                                    *)

LEMMA AssumptionFacts ==
  /\ IsFiniteSet(Files) /\ \A f \in Files : Holds[f] \in Nat
  /\ IsFiniteSet(Parts) /\ Parts \subseteq Nat \X (Nat \ {0})
  /\ Unset \notin Clients /\ \A S \in SUBSET AllRows : S # Unset
BY CatalogueAssumption, UnsetAssumption

\* What a row of RowsFor is.
LEMMA RowOfItem ==
  ASSUME NEW I, NEW props, NEW row, row \in RowsFor(I, props)
  PROVE  \E i \in I : \/ row = <<i, 0>> /\ Divided(i, props) = {}
                      \/ row \in Divided(i, props)
BY Zenon DEF RowsFor

LEMMA RowsForMono ==
  ASSUME NEW I, NEW J, I \subseteq J, NEW props
  PROVE  RowsFor(I, props) \subseteq RowsFor(J, props)
BY DEF RowsFor

LEMMA AllRowsTyped == AllRows \subseteq Nat \X Nat
<1> SUFFICES ASSUME NEW row \in AllRows PROVE row \in Nat \X Nat
  OBVIOUS
<1>1. CASE row \in Parts
  BY <1>1, AssumptionFacts
<1>2. CASE row \in RowsFor(ItemsOf(Files), {})
  <2>1. PICK i \in ItemsOf(Files) : row = <<i, 0>> \/ row \in Divided(i, {})
    BY <1>2, RowOfItem
  <2> QED BY <2>1, AssumptionFacts DEF Divided, ItemsOf
<1> QED BY <1>1, <1>2 DEF AllRows

LEMMA RowsForIn ==
  ASSUME NEW X \in SUBSET Files, NEW props \in SUBSET Parts
  PROVE  RowsFor(ItemsOf(X), props) \in SUBSET AllRows
<1> SUFFICES ASSUME NEW row \in RowsFor(ItemsOf(X), props) PROVE row \in AllRows
  OBVIOUS
<1>1. PICK i \in ItemsOf(X) : row = <<i, 0>> \/ row \in Divided(i, props)
  BY RowOfItem
<1>2. CASE row \in Divided(i, props)
  BY <1>2 DEF Divided, AllRows
<1>3. CASE row = <<i, 0>>
  <2>1. i \in ItemsOf(Files) /\ Divided(i, {}) = {}
    BY DEF ItemsOf, Divided
  <2>2. row \in RowsFor(ItemsOf(Files), {})
    BY <1>3, <2>1 DEF RowsFor
  <2> QED BY <2>2 DEF AllRows
<1> QED BY <1>1, <1>2, <1>3

\* The rows of items are those of no others, and of each of them.
LEMMA ItemsOfRows ==
  ASSUME NEW I, NEW props \in SUBSET Parts
  PROVE  {row[1] : row \in RowsFor(I, props)} = I
<1>1. ASSUME NEW row \in RowsFor(I, props) PROVE row[1] \in I
  <2>1. PICK i \in I : row = <<i, 0>> \/ row \in Divided(i, props)
    BY RowOfItem
  <2> QED BY <2>1 DEF Divided
<1>2. ASSUME NEW i \in I PROVE \E row \in RowsFor(I, props) : row[1] = i
  <2>1. CASE Divided(i, props) = {}
    <3>1. <<i, 0>> \in RowsFor(I, props)
      BY <2>1 DEF RowsFor
    <3> QED BY <3>1
  <2>2. CASE Divided(i, props) # {}
    <3>1. PICK row : row \in Divided(i, props)
      BY <2>2
    <3>2. row \in RowsFor(I, props)
      BY <2>2, <3>1 DEF RowsFor
    <3> QED BY <3>1, <3>2 DEF Divided
  <2> QED BY <2>1, <2>2
<1> QED BY <1>1, <1>2

LEMMA AllRowsFinite == IsFiniteSet(AllRows)
<1>1. RowsFor(ItemsOf(Files), {}) \subseteq {<<Holds[f], 0>> : f \in Files}
  <2> SUFFICES ASSUME NEW row \in RowsFor(ItemsOf(Files), {})
               PROVE  row \in {<<Holds[f], 0>> : f \in Files}
    OBVIOUS
  <2>1. PICK i \in ItemsOf(Files) : row = <<i, 0>> \/ row \in Divided(i, {})
    BY RowOfItem
  <2> QED BY <2>1 DEF ItemsOf, Divided
<1>2. IsFiniteSet({<<Holds[f], 0>> : f \in Files})
  <2> DEFINE h == [f \in Files |-> <<Holds[f], 0>>]
             S == {<<Holds[f], 0>> : f \in Files}
  <2>1. h \in Surjection(Files, S)
    BY DEF Surjection
  <2> QED BY <2>1, FS_Surjection, AssumptionFacts
<1> QED BY <1>1, <1>2, FS_Subset, FS_Union, AssumptionFacts DEF AllRows

-----------------------------------------------------------------------------
(* Ranks and numbers                                                       *)

LEMMA BeforeIsAnOrder ==
  ASSUME NEW p \in Nat \X Nat, NEW q \in Nat \X Nat, NEW r \in Nat \X Nat
  PROVE  /\ ~Before(p, p)
         /\ Before(p, q) /\ Before(q, r) => Before(p, r)
         /\ p # q => Before(p, q) \/ Before(q, p)
BY DEF Before

\* The ranks of rows in a set differ.
LEMMA RankGrows ==
  ASSUME NEW S \in SUBSET (Nat \X Nat), IsFiniteSet(S),
         NEW q \in S, NEW r \in S, Before(q, r)
  PROVE  Rank(q, S) < Rank(r, S)
<1> DEFINE Below(x) == {y \in S : Before(y, x)}
<1>1. Below(q) \subseteq Below(r) /\ q \in Below(r) /\ q \notin Below(q)
  BY BeforeIsAnOrder
<1>2. IsFiniteSet(Below(q)) /\ IsFiniteSet(Below(r))
  BY FS_Subset
<1>3. Cardinality(Below(q)) \in Nat /\ Cardinality(Below(r)) \in Nat
  BY <1>2, FS_CardinalityType
<1>4. Cardinality(Below(q)) < Cardinality(Below(r))
  <2>1. Below(q) # Below(r)
    BY <1>1
  <2> HIDE DEF Below
  <2>2. /\ Cardinality(Below(q)) <= Cardinality(Below(r))
        /\ Cardinality(Below(q)) # Cardinality(Below(r))
    BY <1>1, <1>2, <2>1, FS_Subset
  <2> QED BY <1>3, <2>2
<1> QED BY <1>3, <1>4 DEF Rank

LEMMA Ranks ==
  ASSUME NEW S \in SUBSET (Nat \X Nat), IsFiniteSet(S)
  PROVE  /\ \A r : Rank(r, S) \in Nat \ {0}
         /\ \A q, r \in S : Rank(q, S) = Rank(r, S) => q = r
<1>1. ASSUME NEW r PROVE Rank(r, S) \in Nat \ {0}
  <2>1. IsFiniteSet({q \in S : Before(q, r)})
    BY FS_Subset
  <2> QED BY <2>1, FS_CardinalityType DEF Rank
<1>2. ASSUME NEW q \in S, NEW r \in S, Rank(q, S) = Rank(r, S), q # r PROVE FALSE
  <2>1. Before(q, r) \/ Before(r, q)
    BY <1>2, BeforeIsAnOrder
  <2> QED BY <1>1, <1>2, <2>1, RankGrows
<1> QED BY <1>1, <1>2

LEMMA EmptyIsNumbering == <<>> \in Numberings /\ DOMAIN <<>> = {} /\ IsInjective(<<>>)
<1>1. DOMAIN <<>> = {}
  OBVIOUS
<1>2. <<>> \in [{} -> Nat \ {0}]
  OBVIOUS
<1>3. {} \in SUBSET AllRows
  OBVIOUS
<1> QED BY <1>1, <1>2, <1>3, Zenon DEF Numberings, IsInjective

LEMMA NumberingTyped ==
  ASSUME NEW n \in Numberings
  PROVE  /\ DOMAIN n \in SUBSET AllRows /\ n \in [DOMAIN n -> Nat \ {0}]
         /\ Range(n) \subseteq Nat \ {0}
         /\ \A S \in SUBSET DOMAIN n : Restrict(n, S) \in [S -> Nat \ {0}]
<1>1. PICK S \in SUBSET AllRows : n \in [S -> Nat \ {0}]
  BY DEF Numberings
<1> QED BY <1>1 DEF Range, Restrict

\* A finite set of natural numbers has a largest: one with the fewest above it.
LEMMA LeastNatural ==
  ASSUME NEW S \in SUBSET Nat, S # {}
  PROVE  \E k \in S : \A l \in S : k <= l
<1> DEFINE Below == OpToRel(<, Nat)
<1>1. PICK k \in S : \A l \in S : ~ (<<l, k>> \in Below)
  BY NatLessThanWellFounded, WFMin
<1>2. \A l \in S : ~ (l < k)
  BY <1>1 DEF OpToRel
<1> QED BY <1>2

LEMMA FiniteSetHasMaximum ==
  ASSUME NEW S \in SUBSET Nat, IsFiniteSet(S), S # {}
  PROVE  \E k \in S : \A l \in S : l <= k
<1> DEFINE Above(x) == {y \in S : x < y}
           C == {Cardinality(Above(x)) : x \in S}
<1>1. \A x \in S : IsFiniteSet(Above(x)) /\ Cardinality(Above(x)) \in Nat
  BY FS_Subset, FS_CardinalityType
<1>2. PICK k \in S : \A l \in S : Cardinality(Above(k)) <= Cardinality(Above(l))
  <2>1. C \in SUBSET Nat /\ C # {}
    BY <1>1
  <2>2. PICK m \in C : \A n \in C : m <= n
    BY <2>1, LeastNatural
  <2> QED BY <2>2
<1>3. ASSUME NEW l \in S, k < l PROVE FALSE
  <2>1. Above(l) \in SUBSET Above(k) /\ l \in Above(k) /\ l \notin Above(l)
    <3>1. k \in Nat /\ l \in Nat /\ \A y \in S : y \in Nat
      OBVIOUS
    <3>2. \A y \in S : l < y => k < y
      BY <1>3, <3>1
    <3>3. Above(l) \subseteq Above(k)
      BY <3>2
    <3>4. l \in Above(k) /\ ~ (l < l)
      BY <1>3, <3>1
    <3> QED BY <3>3, <3>4
  <2>2. Above(l) # Above(k)
    BY <2>1
  <2> HIDE DEF Above
  <2>3. /\ Cardinality(Above(l)) <= Cardinality(Above(k))
        /\ Cardinality(Above(l)) # Cardinality(Above(k))
    BY <1>1, <2>1, <2>2, FS_Subset
  <2> QED BY <1>1, <1>2, <2>3
<1> QED BY <1>3

LEMMA HighestIsAbove ==
  ASSUME NEW n \in Numberings
  PROVE  Highest(n) \in Nat /\ \A row \in DOMAIN n : n[row] <= Highest(n)
<1> DEFINE S == Range(n) \cup {0}
<1>1. DOMAIN n \subseteq AllRows /\ n \in [DOMAIN n -> Nat \ {0}] /\ Range(n) \subseteq Nat
  BY NumberingTyped
<1>2. IsFiniteSet(S)
  <2>1. IsFiniteSet(DOMAIN n)
    BY <1>1, AllRowsFinite, FS_Subset
  <2>2. n \in Surjection(DOMAIN n, Range(n))
    BY <1>1 DEF Surjection, Range
  <2> QED BY <2>1, <2>2, FS_Surjection, FS_AddElement
<1>3. \E k \in S : \A l \in S : l <= k
  <2>1. S \in SUBSET Nat /\ S # {}
    BY <1>1
  <2> HIDE DEF S
  <2> QED BY <1>2, <2>1, FiniteSetHasMaximum
<1>4. Highest(n) \in S /\ \A l \in Range(n) : l <= Highest(n)
  BY <1>3, Zenon DEF Highest
<1> QED BY <1>1, <1>4 DEF Range

\* New rows get numbers above the others, and each its own.
LEMMA AppendedFits ==
  ASSUME NEW n \in Numberings, IsInjective(n), NEW S \in SUBSET AllRows,
         NEW h \in Nat, \A row \in DOMAIN n : n[row] <= h
  PROVE  /\ Appended(n, S, h) \in Numberings
         /\ DOMAIN Appended(n, S, h) = DOMAIN n \cup S
         /\ IsInjective(Appended(n, S, h))
         /\ \A row \in DOMAIN n : Appended(n, S, h)[row] = n[row]
         /\ \A row \in S \ DOMAIN n : Appended(n, S, h)[row] > h
<1> DEFINE missing == S \ DOMAIN n
           a == Appended(n, S, h)
<1>1. DOMAIN n \in SUBSET AllRows /\ n \in [DOMAIN n -> Nat \ {0}]
  BY NumberingTyped
<1>2. /\ \A r : Rank(r, missing) \in Nat \ {0}
      /\ \A q, r \in missing : Rank(q, missing) = Rank(r, missing) => q = r
  <2>1. missing \in SUBSET (Nat \X Nat) /\ IsFiniteSet(missing)
    BY AllRowsTyped, AllRowsFinite, FS_Subset
  <2> QED BY <2>1, Ranks
<1>3. /\ a = [x \in DOMAIN n \cup S |-> IF x \in DOMAIN n THEN n[x]
                                         ELSE h + Rank(x, missing)]
  BY DEF Appended, Merged
<1> HIDE DEF a
<1>4. DOMAIN a = DOMAIN n \cup S
  BY <1>3
<1>5. \A row \in DOMAIN n : a[row] = n[row] /\ a[row] <= h /\ a[row] \in Nat \ {0}
  BY <1>1, <1>3
<1>6. \A row \in missing : a[row] = h + Rank(row, missing) /\ a[row] > h /\ a[row] \in Nat \ {0}
  BY <1>2, <1>3
<1>7. a \in Numberings
  <2>1. a \in [DOMAIN n \cup S -> Nat \ {0}]
    BY <1>3, <1>4, <1>5, <1>6
  <2>2. DOMAIN n \cup S \in SUBSET AllRows
    BY <1>1
  <2> QED BY <2>1, <2>2 DEF Numberings
<1>8. IsInjective(a)
  <2> SUFFICES ASSUME NEW q \in DOMAIN n \cup S, NEW r \in DOMAIN n \cup S, a[q] = a[r]
               PROVE  q = r
    BY <1>4 DEF IsInjective
  <2>1. CASE q \in DOMAIN n /\ r \in DOMAIN n
    BY <1>5, <2>1 DEF IsInjective
  <2>2. CASE q \in missing /\ r \in missing
    <3>1. Rank(q, missing) = Rank(r, missing)
      BY <1>2, <1>6, <2>2, SMTT(30)
    <3> QED BY <1>2, <2>2, <3>1
  <2>3. CASE q \in DOMAIN n /\ r \in missing
    BY <1>5, <1>6, <2>3
  <2>4. CASE q \in missing /\ r \in DOMAIN n
    BY <1>5, <1>6, <2>4
  <2> QED BY <2>1, <2>2, <2>3, <2>4
<1>9. /\ \A row \in DOMAIN n : a[row] = n[row]
      /\ \A row \in missing : a[row] > h
  BY <1>5, <1>6
<1> QED BY <1>4, <1>7, <1>8, <1>9 DEF a

LEMMA NumberingFits ==
  ASSUME NEW S \in SUBSET AllRows
  PROVE  Numbering(S) \in Numberings /\ IsInjective(Numbering(S)) /\ DOMAIN Numbering(S) = S
<1>1. /\ \A r : Rank(r, S) \in Nat \ {0}
      /\ \A q, r \in S : Rank(q, S) = Rank(r, S) => q = r
  <2>1. S \in SUBSET (Nat \X Nat) /\ IsFiniteSet(S)
    BY AllRowsTyped, AllRowsFinite, FS_Subset
  <2> QED BY <2>1, Ranks
<1>2. Numbering(S) \in [S -> Nat \ {0}]
  BY <1>1 DEF Numbering
<1> QED BY <1>1, <1>2 DEF Numbering, Numberings, IsInjective

\* Numbers for now: the numbers a page knows, and what it misses counted on.
LEMMA RestrictedAgrees ==
  ASSUME NEW n \in Numberings, IsInjective(n), NEW S \in SUBSET DOMAIN n
  PROVE  /\ Agrees(Restrict(n, S), n) /\ DOMAIN Restrict(n, S) = S
         /\ Restrict(n, S) \in Numberings
<1>1. DOMAIN n \in SUBSET AllRows /\ Restrict(n, S) \in [S -> Nat \ {0}]
  BY NumberingTyped
<1> QED BY <1>1 DEF Agrees, Restrict, IsInjective, Numberings

LEMMA CountedOnAgrees ==
  ASSUME NEW n \in Numberings, IsInjective(n), NEW S \in SUBSET AllRows
  PROVE  Agrees(Appended(Restrict(n, DOMAIN n \cap S), S, Highest(n)), n)
<1> DEFINE got == Restrict(n, DOMAIN n \cap S)
           a == Appended(got, S, Highest(n))
<1>1. Agrees(got, n) /\ DOMAIN got = DOMAIN n \cap S /\ got \in Numberings
  BY RestrictedAgrees
<1>2. Highest(n) \in Nat /\ \A row \in DOMAIN n : n[row] <= Highest(n)
  BY HighestIsAbove
<1>3. \A row \in DOMAIN got : got[row] <= Highest(n)
  BY <1>1, <1>2 DEF Restrict
<1>4. /\ DOMAIN a = DOMAIN got \cup S /\ IsInjective(a)
      /\ \A row \in DOMAIN got : a[row] = got[row]
  BY <1>1, <1>2, <1>3, AppendedFits DEF Agrees
<1> QED BY <1>1, <1>4 DEF Agrees

-----------------------------------------------------------------------------
(* The histories                                                           *)

\* How the history of the files goes on: what is new was never there before.
Continues(L, M) ==
  \E S \in SUBSET Files : M = Append(L, S) /\ (S \ L[Len(L)]) \cap UNION Range(L) = {}

LEMMA AppendFacts ==
  ASSUME NEW T, NEW L \in Seq(T), L # <<>>, NEW e \in T
  PROVE  /\ Append(L, e) \in Seq(T) /\ Append(L, e) # <<>>
         /\ Len(L) \in Nat \ {0} /\ Len(Append(L, e)) = Len(L) + 1
         /\ DOMAIN L = 1..Len(L) /\ DOMAIN Append(L, e) = 1..(Len(L) + 1)
         /\ \A k \in DOMAIN L : Append(L, e)[k] = L[k]
         /\ Append(L, e)[Len(L) + 1] = e
         /\ \A k \in DOMAIN L : L[k] \in T
         /\ Range(Append(L, e)) = Range(L) \cup {e}
<1>1. /\ Append(L, e) \in Seq(T) /\ Append(L, e) # <<>>
      /\ Len(L) \in Nat \ {0} /\ Len(Append(L, e)) = Len(L) + 1
      /\ DOMAIN L = 1..Len(L) /\ DOMAIN Append(L, e) = 1..(Len(L) + 1)
      /\ \A k \in DOMAIN L : Append(L, e)[k] = L[k]
      /\ Append(L, e)[Len(L) + 1] = e
      /\ \A k \in DOMAIN L : L[k] \in T
  OBVIOUS
<1>2. Range(Append(L, e)) = Range(L) \cup {e}
  BY <1>1 DEF Range
<1> QED BY <1>1, <1>2

LEMMA InjectiveBefore ==
  ASSUME NEW T, NEW L \in Seq(T), L # <<>>, NEW e \in T, IsInjective(Append(L, e))
  PROVE  /\ IsInjective(L) /\ \A k \in DOMAIN L : L[k] # e
<1> DEFINE M == Append(L, e)
<1>1. /\ DOMAIN L = 1..Len(L) /\ DOMAIN M = 1..(Len(L) + 1) /\ Len(L) \in Nat
      /\ \A k \in DOMAIN L : M[k] = L[k]
      /\ M[Len(L) + 1] = e
  BY AppendFacts
<1> HIDE DEF M
<1>2. \A a, b \in DOMAIN M : M[a] = M[b] => a = b
  BY DEF M, IsInjective
<1>3. IsInjective(L)
  BY <1>1, <1>2 DEF IsInjective
<1>4. ASSUME NEW k \in DOMAIN L, L[k] = e PROVE FALSE
  <2>1. k \in DOMAIN M /\ Len(L) + 1 \in DOMAIN M /\ k # Len(L) + 1
    BY <1>1
  <2> QED BY <1>1, <1>2, <1>4, <2>1
<1> QED BY <1>3, <1>4

\* What the files were is what they have been, and what is gone stays gone.
LEMMA FilesGoOn ==
  ASSUME NEW L \in Seq(SUBSET Files), L # <<>>, NEW M, Continues(L, M)
  PROVE  /\ M \in Seq(SUBSET Files) /\ M # <<>>
         /\ DOMAIN L \subseteq DOMAIN M /\ \A k \in DOMAIN L : M[k] = L[k]
         /\ IsInjective(M) => IsInjective(L)
         /\ \A F, s : Loaded(L, F, s) => Loaded(M, F, s)
         /\ \A X, s : Seen(L, X, s) => Seen(M, X, s)
         /\ \A R, props, s : ParsedFrom(L, R, props, s) => ParsedFrom(M, R, props, s)
<1>1. PICK S \in SUBSET Files : M = Append(L, S) /\ (S \ L[Len(L)]) \cap UNION Range(L) = {}
  BY DEF Continues
<1>2. /\ M \in Seq(SUBSET Files) /\ M # <<>>
      /\ Len(L) \in Nat \ {0} /\ Len(M) = Len(L) + 1
      /\ DOMAIN L = 1..Len(L) /\ DOMAIN M = 1..(Len(L) + 1)
      /\ \A k \in DOMAIN L : M[k] = L[k]
      /\ M[Len(M)] = S
  BY <1>1, AppendFacts
<1>3. DOMAIN L \subseteq DOMAIN M
  BY <1>2
<1>4. IsInjective(M) => IsInjective(L)
  BY <1>1, InjectiveBefore
<1>5. ASSUME NEW F, NEW s, Loaded(L, F, s) PROVE Loaded(M, F, s)
  BY <1>2, <1>3, <1>5 DEF Loaded
<1>6. ASSUME NEW X, NEW s, Seen(L, X, s) PROVE Seen(M, X, s)
  <2>1. PICK i, j \in DOMAIN L :
          i <= j /\ L[i] = s /\ X \subseteq L[j] /\ (L[j] \ X) \cap L[Len(L)] = {}
    BY <1>6 DEF Seen
  <2>2. L[j] \subseteq UNION Range(L)
    BY DEF Range
  <2>3. (L[j] \ X) \cap S = {}
    BY <1>1, <2>1, <2>2
  <2> QED BY <1>2, <1>3, <2>1, <2>3 DEF Seen
<1>7. ASSUME NEW R, NEW props, NEW s, ParsedFrom(L, R, props, s)
      PROVE  ParsedFrom(M, R, props, s)
  BY <1>6, <1>7 DEF ParsedFrom
<1> QED BY <1>2, <1>3, <1>4, <1>5, <1>6, <1>7

\* Files that are read now, as far as they are on the disk.
LEMMA ParsedNow ==
  ASSUME NEW L \in Seq(SUBSET Files), L # <<>>, NEW F, NEW s, Loaded(L, F, s),
         NEW D, L[Len(L)] \subseteq D, NEW props
  PROVE  ParsedFrom(L, RowsFor(ItemsOf(F \cap D), props), props, s)
<1>1. PICK i, j \in DOMAIN L : i <= j /\ L[i] = s /\ F = L[j]
  BY DEF Loaded
<1>2. F \in SUBSET Files
  BY <1>1
<1>3. Seen(L, F \cap D, s)
  BY <1>1 DEF Seen
<1> QED BY <1>2, <1>3 DEF ParsedFrom

LEMMA ParsedTyped ==
  ASSUME NEW L, NEW R, NEW props \in SUBSET Parts, NEW s, ParsedFrom(L, R, props, s)
  PROVE  R \in SUBSET AllRows
BY RowsForIn DEF ParsedFrom

-----------------------------------------------------------------------------
(* What a request holds stays right while others act                       *)

LEMMA FitsAfterFiles ==
  ASSUME NEW L \in Seq(SUBSET Files), L # <<>>, NEW M, Continues(L, M),
         NEW N, NEW H, NEW P, NEW r, RequestFits(L, N, H, P, r), r.at # "done"
  PROVE  RequestFits(M, N, H, P, r)
<1>1. /\ DOMAIN L \subseteq DOMAIN M /\ \A k \in DOMAIN L : M[k] = L[k]
      /\ \A F, s : Loaded(L, F, s) => Loaded(M, F, s)
      /\ \A R, props, s : ParsedFrom(L, R, props, s) => ParsedFrom(M, R, props, s)
  BY FilesGoOn
<1>2. /\ IsRequest(r) /\ Asked(L, N, H, P, r) /\ Looked(L, r) /\ HasRows(L, r)
      /\ HasNumbers(N, r)
  BY DEF RequestFits
<1>3. Asked(M, N, H, P, r)
  BY <1>1, <1>2 DEF Asked
<1>4. Looked(M, r)
  BY <1>1, <1>2 DEF Looked
<1>5. HasRows(M, r)
  BY <1>1, <1>2 DEF HasRows
<1> QED BY <1>2, <1>3, <1>4, <1>5 DEF RequestFits, Answered

LEMMA FitsAfterNumbers ==
  ASSUME NEW N \in Seq(Numberings), N # <<>>, NEW n \in Numberings, NEW M, M = Append(N, n),
         NEW L, NEW H, NEW P, NEW r, RequestFits(L, N, H, P, r), r.at # "done"
  PROVE  RequestFits(L, M, H, P, r)
<1>1. /\ DOMAIN N \subseteq DOMAIN M /\ \A k \in DOMAIN N : M[k] = N[k]
      /\ M[Len(M)] = n
  BY AppendFacts
<1>2. IsInjective(M) => \A k \in DOMAIN N : N[k] # M[Len(M)]
  BY <1>1, InjectiveBefore
<1>3. /\ IsRequest(r) /\ Asked(L, N, H, P, r) /\ Looked(L, r) /\ HasRows(L, r)
      /\ HasNumbers(N, r)
  BY DEF RequestFits
<1>4. Asked(L, M, H, P, r)
  BY <1>1, <1>3 DEF Asked
<1>5. HasNumbers(M, r)
  BY <1>1, <1>2, <1>3 DEF HasNumbers, Assigning, Expected
<1> QED BY <1>3, <1>4, <1>5 DEF RequestFits, Answered

LEMMA FitsAfterShared ==
  ASSUME NEW H, H.version \in Nat, NEW K, NEW P, NEW O, P \subseteq O,
         \/ K.version = H.version /\ K.published = H.published
         \/ K.version = H.version + 1,
         NEW L, NEW N, NEW r, RequestFits(L, N, H, P, r)
  PROVE  RequestFits(L, N, K, O, r)
<1>1. /\ IsRequest(r) /\ Asked(L, N, H, P, r) /\ Looked(L, r) /\ HasRows(L, r)
      /\ HasNumbers(N, r) /\ Answered(L, N, r)
  BY DEF RequestFits
<1>2. r.version \in Nat
  BY <1>1 DEF IsRequest
<1>3. Asked(L, N, K, O, r)
  BY <1>1, <1>2 DEF Asked
<1> QED BY <1>1, <1>3 DEF RequestFits

LEMMA ValuesAfterFiles ==
  ASSUME NEW L \in Seq(SUBSET Files), L # <<>>, NEW M, Continues(L, M),
         NEW N, NEW C, ValuesFit(L, N, C)
  PROVE  ValuesFit(M, N, C)
<1>1. /\ IsInjective(M) => IsInjective(L)
      /\ \A F, s : Loaded(L, F, s) => Loaded(M, F, s)
      /\ \A R, props, s : ParsedFrom(L, R, props, s) => ParsedFrom(M, R, props, s)
  BY FilesGoOn
<1> QED BY <1>1 DEF ValuesFit

LEMMA ValuesAfterNumbers ==
  ASSUME NEW N \in Seq(Numberings), N # <<>>, NEW n \in Numberings, NEW M, M = Append(N, n),
         NEW L, NEW C, ValuesFit(L, N, C)
  PROVE  ValuesFit(L, M, C)
<1>1. IsInjective(M) => IsInjective(N)
  BY InjectiveBefore
<1> QED BY <1>1 DEF ValuesFit

-----------------------------------------------------------------------------
(* Who waits for whom                                                      *)

\* Some requests end a load, or have none, and nobody waits for them any more.
LEMMA WaitsWhenReleased ==
  ASSUME NEW Q, NEW R, NEW D \in SUBSET Clients,
         \A c \in Clients : WaitFits(Q, c),
         \A c \in Clients \ D : R[c] = Q[c],
         \A c \in D : R[c].on = Unset,
         \A c \in Clients : Q[c].on \in D => c \in D
  PROVE  /\ \A c \in Clients : WaitFits(R, c)
         /\ \A o, l : Leads(Q, o, l) /\ o \notin D => Leads(R, o, l)
<1>1. ASSUME NEW c \in Clients PROVE WaitFits(R, c)
  <2>1. CASE c \in D
    BY <2>1 DEF WaitFits
  <2>2. CASE c \notin D
    <3>1. R[c] = Q[c] /\ WaitFits(Q, c) /\ Q[c].on \notin D
      BY <2>2
    <3>2. Q[c].on \in Clients => R[Q[c].on] = Q[Q[c].on]
      BY <3>1
    <3> QED BY <3>1, <3>2 DEF WaitFits
  <2> QED BY <2>1, <2>2
<1>2. ASSUME NEW o, NEW l, Leads(Q, o, l), o \notin D PROVE Leads(R, o, l)
  BY <1>2 DEF Leads
<1> QED BY <1>1, <1>2

\* A request that had no load begins one, or waits for one that another has begun.
LEMMA WaitsWhenEntered ==
  ASSUME NEW Q, NEW R, NEW c \in Clients,
         \A d \in Clients : WaitFits(Q, d),
         \A d \in Clients \ {c} : R[d] = Q[d],
         Q[c].on = Unset, WaitFits(R, c)
  PROVE  /\ \A d \in Clients : WaitFits(R, d)
         /\ \A o, l : Leads(Q, o, l) => Leads(R, o, l)
<1>1. Unset \notin Clients
  BY AssumptionFacts
<1>2. ASSUME NEW d \in Clients, d # c PROVE WaitFits(R, d)
  <2>1. R[d] = Q[d] /\ WaitFits(Q, d)
    BY <1>2
  <2>2. Q[d].on # Unset => Q[d].on # c
    BY <1>1, <2>1 DEF WaitFits
  <2>3. Q[d].on # Unset => R[Q[d].on] = Q[Q[d].on]
    BY <2>1, <2>2 DEF WaitFits
  <2> QED BY <2>1, <2>3 DEF WaitFits
<1>3. ASSUME NEW o, NEW l, Leads(Q, o, l) PROVE Leads(R, o, l)
  BY <1>1, <1>3 DEF Leads
<1> QED BY <1>2, <1>3

\* A request goes on with the load it has.
LEMMA WaitsWhenKept ==
  ASSUME NEW Q, NEW R, NEW c \in Clients,
         \A d \in Clients : WaitFits(Q, d),
         \A d \in Clients \ {c} : R[d] = Q[d],
         R[c].on = Q[c].on, LoadOf(R[c]) = LoadOf(Q[c]),
         \/ R[c].at = Q[c].at /\ (R[c].at = "number" => R[c].revision # Unset)
         \/ R[c].at \in Assigning /\ Q[c].at \in Assigning
  PROVE  /\ \A d \in Clients : WaitFits(R, d)
         /\ \A o, l : Leads(Q, o, l) => Leads(R, o, l)
<1>1. \A d \in Clients : R[d].on = Q[d].on /\ LoadOf(R[d]) = LoadOf(Q[d])
  OBVIOUS
<1>2. ASSUME NEW d \in Clients PROVE WaitFits(R, d)
  <2>1. WaitFits(Q, d) /\ WaitFits(Q, c)
    OBVIOUS
  <2>2. CASE d = c
    BY <1>1, <2>1, <2>2 DEF WaitFits, Assigning
  <2>3. CASE d # c
    BY <1>1, <2>1, <2>3 DEF WaitFits
  <2> QED BY <2>2, <2>3
<1>3. ASSUME NEW o, NEW l, Leads(Q, o, l) PROVE Leads(R, o, l)
  BY <1>1, <1>3 DEF Leads
<1> QED BY <1>2, <1>3

-----------------------------------------------------------------------------
(* One step of the requests                                                *)

LEMMA StepFacts ==
  ASSUME Requests, NEW c \in Clients, NEW r, Step(c, r)
  PROVE  /\ request' = [d \in Clients |-> request'[d]]
         /\ request'[c] = r /\ \A d \in Clients \ {c} : request'[d] = request[d]
<1>1. request = [d \in Clients |-> request[d]] /\ request' = [request EXCEPT ![c] = r]
  BY DEF Requests, Step
<1>2. request' = [d \in Clients |-> IF d = c THEN r ELSE request[d]]
  BY <1>1
<1> QED BY <1>2

LEMMA NumbersFacts ==
  ASSUME NumbersFit
  PROVE  /\ numberings \in Seq(Numberings) /\ numberings # <<>>
         /\ numbers \in Numberings /\ IsInjective(numbers)
         /\ DOMAIN numberings = 1..Len(numberings) /\ Len(numberings) \in DOMAIN numberings
         /\ numbers = numberings[Len(numberings)]
BY DEF NumbersFit, numbers

LEMMA FilesFacts ==
  ASSUME FilesFit
  PROVE  /\ log \in Seq(SUBSET Files) /\ log # <<>>
         /\ DOMAIN log = 1..Len(log) /\ Len(log) \in DOMAIN log
         /\ Current = log[Len(log)] /\ Current \in SUBSET Files /\ Current \subseteq disk
BY DEF FilesFit, Current

LEMMA RequestFacts ==
  ASSUME Requests, NEW c \in Clients
  PROVE  /\ IsRequest(request[c]) /\ RequestFits(log, numberings, shared, public, request[c])
         /\ Asked(log, numberings, shared, public, request[c]) /\ Looked(log, request[c])
         /\ HasRows(log, request[c]) /\ HasNumbers(numberings, request[c])
         /\ Answered(log, numberings, request[c])
BY DEF Requests, RequestFits

\* The rows of the numberings only grow at their end.
NumbersGoOn ==
  \/ numberings' = numberings
  \/ \E n \in Numberings : numberings' = Append(numberings, n)

\* Some requests go on, and the others are as they were.
LEMMA RequestsGoOn ==
  ASSUME Requests, NumbersFit, Silent, NumbersGoOn, UNCHANGED <<log, shared, public>>,
         NEW D \in SUBSET Clients,
         request' = [d \in Clients |-> request'[d]],
         \A d \in Clients \ D : request'[d] = request[d],
         \A d \in D : RequestFits(log', numberings', shared', public', request'[d])
  PROVE  Requests'
<1>1. ASSUME NEW d \in Clients
      PROVE  RequestFits(log', numberings', shared', public', request'[d])
  <2>1. CASE d \in D
    BY <2>1
  <2>2. CASE d \notin D
    <3>1. /\ request'[d] = request[d] /\ request[d].at # "done"
          /\ RequestFits(log, numberings, shared, public, request[d])
      BY <2>2 DEF Requests, Silent, Done, At
    <3>2. CASE numberings' = numberings
      BY <3>1, <3>2
    <3>3. CASE \E n \in Numberings : numberings' = Append(numberings, n)
      BY <3>1, <3>3, NumbersFacts, FitsAfterNumbers
    <3> QED BY <3>2, <3>3 DEF NumbersGoOn
  <2> QED BY <2>1, <2>2
<1> QED BY <1>1 DEF Requests

LeadsGoOn == \A o, l : Leads(request, o, l) => Leads(request', o, l)

\* What the step of one client means for those who wait.
LEMMA WaitsGoOn ==
  ASSUME Requests, Waits, NEW c \in Clients, NEW r, Step(c, r),
         \/ request[c].on = Unset /\ r.on = Unset
         \/ request[c].on = Unset /\ WaitFits(request', c)
         \/ /\ r.on = request[c].on /\ LoadOf(r) = LoadOf(request[c])
            /\ \/ r.at = request[c].at /\ (r.at = "number" => r.revision # Unset)
               \/ r.at \in Assigning /\ request[c].at \in Assigning
  PROVE  Waits' /\ LeadsGoOn
<1>1. request'[c] = r /\ \A d \in Clients \ {c} : request'[d] = request[d]
  BY StepFacts
<1>2. \A d \in Clients : WaitFits(request, d)
  BY DEF Waits
<1>3. CASE request[c].on = Unset /\ r.on = Unset
  <2>1. \A d \in Clients : request[d].on # c
    BY <1>2, <1>3, AssumptionFacts DEF WaitFits
  <2>2. \A o, l : Leads(request, o, l) => o # c
    BY <1>3, AssumptionFacts DEF Leads
  <2>3. /\ \A d \in Clients : WaitFits(request', d)
        /\ \A o, l : Leads(request, o, l) /\ o \notin {c} => Leads(request', o, l)
    <3>1. {c} \in SUBSET Clients /\ \A d \in {c} : request'[d].on = Unset
      BY <1>1, <1>3
    <3>2. \A d \in Clients : request[d].on \in {c} => d \in {c}
      BY <2>1
    <3> QED BY <1>1, <1>2, <3>1, <3>2, WaitsWhenReleased
  <2> QED BY <2>2, <2>3 DEF Waits, LeadsGoOn
<1>4. CASE request[c].on = Unset /\ WaitFits(request', c)
  <2>1. /\ \A d \in Clients : WaitFits(request', d)
        /\ \A o, l : Leads(request, o, l) => Leads(request', o, l)
    BY <1>1, <1>2, <1>4, WaitsWhenEntered
  <2> QED BY <2>1 DEF Waits, LeadsGoOn
<1>5. CASE /\ r.on = request[c].on /\ LoadOf(r) = LoadOf(request[c])
           /\ \/ r.at = request[c].at /\ (r.at = "number" => r.revision # Unset)
              \/ r.at \in Assigning /\ request[c].at \in Assigning
  <2>1. /\ \A d \in Clients : WaitFits(request', d)
        /\ \A o, l : Leads(request, o, l) => Leads(request', o, l)
    BY <1>1, <1>2, <1>5, WaitsWhenKept
  <2> QED BY <2>1 DEF Waits, LeadsGoOn
<1> QED BY <1>3, <1>4, <1>5

\* Some end a load, which goes with them.
LEMMA WaitsEnd ==
  ASSUME Waits, NEW c \in Clients, NEW D, D = {d \in Clients : request[d].on = c},
         \A d \in Clients \ D : request'[d] = request[d],
         \A d \in D : request'[d].on = Unset
  PROVE  Waits' /\ \A o, l : Leads(request, o, l) /\ o # c => Leads(request', o, l)
<1>1. \A d \in Clients : WaitFits(request, d)
  BY DEF Waits
<1>2. \A d \in Clients : request[d].on \in D => d \in D
  BY <1>1, AssumptionFacts DEF WaitFits
<1>3. /\ \A d \in Clients : WaitFits(request', d)
      /\ \A o, l : Leads(request, o, l) /\ o \notin D => Leads(request', o, l)
  BY <1>1, <1>2, WaitsWhenReleased
<1> QED BY <1>3 DEF Waits, Leads

LEMMA CachesStay ==
  ASSUME CachesFit, NumbersFit, NumbersGoOn, LeadsGoOn, UNCHANGED <<log, caches>>
  PROVE  CachesFit'
<1>1. LoadsFit(request', caches')
  BY DEF CachesFit, LoadsFit, IsEntry, LeadsGoOn
<1>2. ValuesFit(log', numberings', caches')
  <2>1. CASE numberings' = numberings
    BY <2>1 DEF CachesFit
  <2>2. CASE \E n \in Numberings : numberings' = Append(numberings, n)
    BY <2>2, NumbersFacts, ValuesAfterNumbers DEF CachesFit
  <2> QED BY <2>1, <2>2 DEF NumbersGoOn
<1> QED BY <1>1, <1>2 DEF CachesFit

StandsStill == UNCHANGED <<log, disk, pending, numberings, shared, public>>

LEMMA StoresStay ==
  ASSUME FilesFit, SharedFits, NumbersFit, StandsStill
  PROVE  FilesFit' /\ SharedFits' /\ NumbersFit'
BY DEF StandsStill, FilesFit, SharedFits, NumbersFit, PublicRows, Current, numbers

\* A step of one request, which leaves everything else as it is.
LEMMA OneGoesOn ==
  ASSUME CatalogueInv, Silent, NEW c \in Clients, NEW r, Step(c, r), StandsStill,
         RequestFits(log, numberings, shared, public, r),
         \/ request[c].on = Unset /\ r.on = Unset
         \/ request[c].on = Unset /\ WaitFits(request', c)
         \/ /\ r.on = request[c].on /\ LoadOf(r) = LoadOf(request[c])
            /\ \/ r.at = request[c].at /\ (r.at = "number" => r.revision # Unset)
               \/ r.at \in Assigning /\ request[c].at \in Assigning
  PROVE  /\ FilesFit' /\ SharedFits' /\ NumbersFit' /\ Requests' /\ Waits' /\ LeadsGoOn
         /\ UNCHANGED caches => CatalogueInv'
<1>1. NumbersGoOn /\ UNCHANGED <<log, shared, public>>
  BY DEF StandsStill, NumbersGoOn
<1>2. FilesFit' /\ SharedFits' /\ NumbersFit'
  BY StoresStay DEF CatalogueInv
<1>3. Waits' /\ LeadsGoOn
  BY WaitsGoOn DEF CatalogueInv
<1>4. Requests'
  <2>1. /\ request' = [d \in Clients |-> request'[d]]
        /\ request'[c] = r /\ \A d \in Clients \ {c} : request'[d] = request[d]
    BY StepFacts DEF CatalogueInv
  <2>2. {c} \in SUBSET Clients
        /\ \A d \in {c} : RequestFits(log', numberings', shared', public', request'[d])
    BY <2>1 DEF StandsStill
  <2> QED BY <1>1, <2>1, <2>2, RequestsGoOn DEF CatalogueInv
<1>5. UNCHANGED caches => CachesFit'
  BY <1>1, <1>3, CachesStay DEF CatalogueInv
<1> QED BY <1>2, <1>3, <1>4, <1>5 DEF CatalogueInv

-----------------------------------------------------------------------------
(* The beginning, and what happens around the requests                     *)

LEMMA NoRequestFits ==
  ASSUME NEW L, NEW N, NEW H, NEW P
  PROVE  RequestFits(L, N, H, P, NoRequest) /\ NoRequest.on = Unset /\ NoRequest.at = "idle"
BY DEF NoRequest, RequestFits, IsRequest, Asked, Looked, HasRows, HasNumbers, Answered,
       Stages, Signed, Listed, Assigning

LEMMA NoCachesFit ==
  ASSUME NEW Q, NEW L, NEW N
  PROVE  IsCaches(NoCaches) /\ LoadsFit(Q, NoCaches) /\ ValuesFit(L, N, NoCaches)
<1>1. /\ DOMAIN NoCaches.files = {} /\ DOMAIN NoCaches.lists = {}
      /\ DOMAIN NoCaches.numbered = {} /\ DOMAIN NoCaches.keys = {}
  BY EmptyIsNumbering DEF NoCaches
<1> QED BY <1>1 DEF NoCaches, IsCaches, LoadsFit, ValuesFit

LEMMA CatalogueStarts == CatalogueInit => CatalogueInv
<1> SUFFICES ASSUME CatalogueInit PROVE CatalogueInv
  OBVIOUS
<1> USE DEF CatalogueInit
<1>1. FilesFit
  <2>1. budget.present \in SUBSET Files
    BY CatalogueAssumption
  <2>2. /\ log \in Seq(SUBSET Files) /\ log # <<>> /\ Len(log) = 1 /\ log[1] = budget.present
        /\ DOMAIN log = {1}
    BY <2>1
  <2>3. Range(log) = {budget.present}
    BY <2>2 DEF Range
  <2> QED BY <2>2, <2>3 DEF FilesFit, Current
<1>2. SharedFits
  BY DEF SharedFits
<1>3. NumbersFit
  BY EmptyIsNumbering DEF NumbersFit, numbers
<1>4. Requests
  BY NoRequestFits DEF Requests
<1>5. Waits
  BY NoRequestFits DEF Waits, WaitFits
<1>6. CachesFit
  BY NoCachesFit DEF CachesFit
<1> QED BY <1>1, <1>2, <1>3, <1>4, <1>5, <1>6 DEF CatalogueInv

LEMMA KeptByDeliver == CatalogueInv /\ Deliver => CatalogueInv'
<1> SUFFICES ASSUME CatalogueInv, Deliver PROVE CatalogueInv'
  OBVIOUS
<1>1. PICK c \in Clients :
        /\ Done(c) /\ Step(c, NoRequest)
        /\ UNCHANGED <<log, disk, pending, numberings, shared, caches, public, budget>>
  BY DEF Deliver
<1>2. /\ request' = [d \in Clients |-> request'[d]]
      /\ request'[c] = NoRequest /\ \A d \in Clients \ {c} : request'[d] = request[d]
  BY <1>1, StepFacts DEF CatalogueInv
<1>3. request[c].on = Unset
  BY <1>1 DEF CatalogueInv, Waits, WaitFits, Done, At, Assigning
<1>4. StandsStill /\ NumbersGoOn
  BY <1>1 DEF StandsStill, NumbersGoOn
<1>5. Waits' /\ LeadsGoOn
  BY <1>1, <1>3, NoRequestFits, WaitsGoOn DEF CatalogueInv
<1>6. Requests'
  <2>1. \A d \in Clients : RequestFits(log, numberings, shared, public, request'[d])
    BY <1>2, NoRequestFits DEF CatalogueInv, Requests
  <2> QED BY <1>1, <1>2, <2>1 DEF Requests
<1>7. CachesFit'
  BY <1>1, <1>4, <1>5, CachesStay DEF CatalogueInv
<1> QED BY <1>4, <1>5, <1>6, <1>7, StoresStay DEF CatalogueInv

LEMMA UnionWith ==
  ASSUME NEW A, NEW S
  PROVE  UNION (A \cup {S}) = (UNION A) \cup S
<1>1. ASSUME NEW x \in UNION (A \cup {S}) PROVE x \in (UNION A) \cup S
  OBVIOUS
<1>2. ASSUME NEW x \in (UNION A) \cup S PROVE x \in UNION (A \cup {S})
  OBVIOUS
<1> QED BY <1>1, <1>2

LEMMA KeptByChangeFiles ==
  ASSUME CatalogueInv, NEW new \in SUBSET Files, NEW gone \in SUBSET Files,
         ChangeFiles(new, gone)
  PROVE  CatalogueInv'
<1>1. /\ Silent /\ new \cap UNION Range(log) = {} /\ gone \subseteq Current
      /\ log' = Append(log, (Current \ gone) \cup new)
      /\ disk' = disk \cup new
      /\ pending' = pending \cup {[gone |-> gone, at |-> Len(log)]}
      /\ UNCHANGED <<numberings, shared, caches, request, public>>
  BY DEF ChangeFiles, Unused
<1>2. /\ log \in Seq(SUBSET Files) /\ log # <<>> /\ Current = log[Len(log)]
      /\ Current \in SUBSET Files /\ Current \subseteq disk
      /\ Len(log) \in DOMAIN log
  BY FilesFacts DEF CatalogueInv
<1> DEFINE S == (Current \ gone) \cup new
<1>3. S \in SUBSET Files
  BY <1>2
<1>4. /\ log' \in Seq(SUBSET Files) /\ log' # <<>> /\ Current' = S
      /\ Range(log') = Range(log) \cup {S}
  <2> HIDE DEF S
  <2>1. log' = Append(log, S)
    BY <1>1 DEF S
  <2> QED BY <1>2, <1>3, <2>1, AppendFacts DEF Current
<1>5. Current \subseteq UNION Range(log)
  BY <1>2 DEF Range
<1>6. Continues(log, log')
  BY <1>1, <1>2, <1>3, ZenonT(60) DEF Continues
<1>7. FilesFit'
  <2>1. Current' \subseteq disk' /\ disk' \subseteq UNION Range(log')
    <3>1. disk \subseteq UNION Range(log)
      BY DEF CatalogueInv, FilesFit
    <3>2. UNION Range(log') = (UNION Range(log)) \cup S
      BY <1>4, UnionWith, Zenon
    <3>3. S \subseteq disk' /\ new \subseteq S
      BY <1>1, <1>2
    <3> HIDE DEF S
    <3>4. disk' = disk \cup new
      BY <1>1
    <3>5. disk' \subseteq UNION Range(log')
      BY <3>1, <3>2, <3>3, <3>4
    <3> QED BY <1>4, <3>3, <3>5
  <2>2. ASSUME NEW m \in pending'
        PROVE  m.gone \subseteq UNION Range(log') /\ m.gone \cap Current' = {}
    <3>1. m \in pending \/ m.gone = gone
      BY <1>1
    <3>2. CASE m \in pending
      BY <1>1, <1>4, <3>2 DEF CatalogueInv, FilesFit
    <3>3. CASE m.gone = gone
      BY <1>1, <1>4, <1>5, <3>3
    <3> QED BY <3>1, <3>2, <3>3
  <2> QED BY <1>4, <2>1, <2>2 DEF FilesFit
<1>8. SharedFits' /\ NumbersFit' /\ Waits'
  BY <1>1 DEF CatalogueInv, SharedFits, NumbersFit, Waits, PublicRows, numbers
<1>9. Requests'
  <2>1. ASSUME NEW c \in Clients
        PROVE  RequestFits(log', numberings, shared, public, request[c])
    <3>1. RequestFits(log, numberings, shared, public, request[c]) /\ request[c].at # "done"
      BY <1>1 DEF CatalogueInv, Requests, Silent, Done, At
    <3> QED BY <1>2, <1>6, <3>1, FitsAfterFiles
  <2> QED BY <1>1, <2>1 DEF CatalogueInv, Requests
<1>10. CachesFit'
  <2>1. ValuesFit(log', numberings, caches)
    BY <1>2, <1>6, ValuesAfterFiles DEF CatalogueInv, CachesFit
  <2> QED BY <1>1, <2>1 DEF CatalogueInv, CachesFit
<1> QED BY <1>7, <1>8, <1>9, <1>10 DEF CatalogueInv

LEMMA KeptByUnlink ==
  ASSUME CatalogueInv, NEW m \in pending, Unlink(m)
  PROVE  CatalogueInv'
<1>1. disk' = disk \ m.gone /\ UNCHANGED <<log, pending, numberings, shared, caches, request, public>>
  BY DEF Unlink
<1>2. FilesFit'
  BY <1>1 DEF CatalogueInv, FilesFit, Current
<1>3. SharedFits' /\ NumbersFit' /\ Requests' /\ Waits' /\ CachesFit'
  BY <1>1 DEF CatalogueInv, SharedFits, NumbersFit, Requests, Waits, CachesFit,
              PublicRows, numbers
<1> QED BY <1>2, <1>3 DEF CatalogueInv

LEMMA KeptByInvalidate ==
  ASSUME CatalogueInv, NEW m \in pending, NEW here \in BOOLEAN, Invalidate(m, here)
  PROVE  CatalogueInv'
<1>1. /\ pending' = pending \ {m}
      /\ caches' = NoCaches \/ caches' = caches
      /\ UNCHANGED <<log, disk, numberings, shared, request, public>>
  BY DEF Invalidate
<1>2. FilesFit'
  BY <1>1 DEF CatalogueInv, FilesFit, Current
<1>3. SharedFits' /\ NumbersFit' /\ Requests' /\ Waits'
  BY <1>1 DEF CatalogueInv, SharedFits, NumbersFit, Requests, Waits, PublicRows, numbers
<1>4. CachesFit'
  BY <1>1, NoCachesFit DEF CatalogueInv, CachesFit
<1> QED BY <1>2, <1>3, <1>4 DEF CatalogueInv

LEMMA KeptByEditDraft ==
  ASSUME CatalogueInv, NEW props \in SUBSET Parts, EditDraft(props)
  PROVE  CatalogueInv'
<1>1. /\ shared' = [shared EXCEPT !.draft = props]
      /\ UNCHANGED <<log, disk, pending, numberings, caches, request, public>>
  BY DEF EditDraft
<1>2. /\ shared \in [draft : SUBSET Parts, published : SUBSET Parts, version : Nat]
      /\ shared' \in [draft : SUBSET Parts, published : SUBSET Parts, version : Nat]
      /\ shared'.version = shared.version /\ shared'.published = shared.published
  BY <1>1 DEF CatalogueInv, SharedFits
<1>3. FilesFit' /\ SharedFits' /\ NumbersFit' /\ Waits' /\ CachesFit'
  BY <1>1, <1>2 DEF CatalogueInv, FilesFit, SharedFits, NumbersFit, Waits, CachesFit,
                    Current, PublicRows, numbers
<1>4. Requests'
  <2>1. \A c \in Clients : RequestFits(log, numberings, shared', public, request[c])
    BY <1>2, FitsAfterShared DEF CatalogueInv, Requests
  <2> QED BY <1>1, <2>1 DEF CatalogueInv, Requests
<1> QED BY <1>3, <1>4 DEF CatalogueInv

LEMMA KeptByPublish == CatalogueInv /\ Publish => CatalogueInv'
<1> SUFFICES ASSUME CatalogueInv, Publish PROVE CatalogueInv'
  OBVIOUS
<1>1. /\ shared' = [shared EXCEPT !.published = shared.draft, !.version = @ + 1]
      /\ public' = public \cup {shared.draft}
      /\ UNCHANGED <<log, disk, pending, numberings, caches, request>>
  BY DEF Publish
<1>2. /\ shared \in [draft : SUBSET Parts, published : SUBSET Parts, version : Nat]
      /\ shared' \in [draft : SUBSET Parts, published : SUBSET Parts, version : Nat]
      /\ shared'.version = shared.version + 1 /\ shared'.published = shared.draft
      /\ shared.version \in Nat
  <2>1. shared \in [draft : SUBSET Parts, published : SUBSET Parts, version : Nat]
    BY DEF CatalogueInv, SharedFits
  <2>2. shared' = [draft |-> shared.draft, published |-> shared.draft,
                   version |-> shared.version + 1]
    BY <1>1, <2>1
  <2> QED BY <2>1, <2>2
<1>3. SharedFits'
  BY <1>1, <1>2 DEF CatalogueInv, SharedFits
<1>4. FilesFit' /\ Waits' /\ CachesFit'
  BY <1>1 DEF CatalogueInv, FilesFit, Waits, CachesFit, Current
<1>5. NumbersFit'
  BY <1>1 DEF CatalogueInv, NumbersFit, PublicRows, numbers
<1>6. Requests'
  <2>1. \A c \in Clients : RequestFits(log, numberings, shared', public', request[c])
    <3>1. public \subseteq public'
      BY <1>1
    <3>2. \A c \in Clients : RequestFits(log, numberings, shared, public, request[c])
      BY DEF CatalogueInv, Requests
    <3> QED BY <1>2, <3>1, <3>2, FitsAfterShared
  <2> QED BY <1>1, <2>1 DEF CatalogueInv, Requests
<1> QED BY <1>3, <1>4, <1>5, <1>6 DEF CatalogueInv

-----------------------------------------------------------------------------
(* The requests look at the files                                          *)

\* A request that is at no load waits for none.
LEMMA OutsideLoads ==
  ASSUME Waits, NEW c \in Clients,
         request[c].at \notin {"files", "parse", "published", "number"} \cup Assigning
  PROVE  request[c].on = Unset
BY DEF Waits, WaitFits

LEMMA ReadsStands ==
  ASSUME Reads
  PROVE  Silent /\ StandsStill
BY DEF Reads, StandsStill

LEMMA KeptByAsk ==
  ASSUME CatalogueInv, NEW c \in Clients, NEW op \in {"list", "keys", "renumber"},
         NEW editor \in BOOLEAN, Ask(c, op, editor)
  PROVE  CatalogueInv'
<1> DEFINE r == [NoRequest EXCEPT
                   !.at = IF op = "keys" THEN "keys" ELSE "signature",
                   !.op = op, !.start = Len(log), !.since = Len(numberings),
                   !.active = IF editor THEN shared.draft ELSE shared.published,
                   !.published = shared.published,
                   !.version = IF op = "renumber" THEN shared.version ELSE 0]
<1>1. /\ Silent /\ ~Busy(c) /\ Step(c, r)
      /\ UNCHANGED <<log, disk, pending, numberings, shared, caches, public>>
  BY DEF Ask
<1>2. request[c].on = Unset
  <2>1. request[c].at = "idle"
    BY <1>1 DEF Silent, Done, Busy, At
  <2> QED BY <2>1, OutsideLoads DEF CatalogueInv, Assigning
<1>3. /\ shared.draft \subseteq Parts /\ shared.published \subseteq Parts
      /\ shared.published \in public /\ shared.version \in Nat
  BY DEF CatalogueInv, SharedFits
<1>4. /\ Len(log) \in Nat /\ Len(log) \in DOMAIN log
      /\ Len(numberings) \in Nat /\ Len(numberings) \in DOMAIN numberings
  BY FilesFacts, NumbersFacts DEF CatalogueInv
<1>5. /\ r.on = Unset /\ r.op = op /\ r.start = Len(log) /\ r.since = Len(numberings)
      /\ r.published = shared.published
      /\ r.at = IF op = "keys" THEN "keys" ELSE "signature"
      /\ r.version = IF op = "renumber" THEN shared.version ELSE 0
      /\ r.stable = Unset /\ r.revision = Unset /\ r.fixed = Unset
  BY DEF NoRequest
<1>6. IsRequest(r)
  <2>1. "keys" \in Stages /\ "signature" \in Stages
    BY DEF Stages, Signed
  <2>2. /\ (IF op = "keys" THEN "keys" ELSE "signature") \in Stages
        /\ (IF editor THEN shared.draft ELSE shared.published) \in SUBSET Parts
        /\ (IF op = "renumber" THEN shared.version ELSE 0) \in Nat
    BY <1>3, <2>1
  <2> QED BY <1>3, <1>4, <2>2, ZenonT(60) DEF IsRequest, NoRequest
<1>7. Asked(log, numberings, shared, public, r)
  BY <1>3, <1>4, <1>5 DEF Asked
<1> HIDE DEF r
<1>8. /\ Looked(log, r) /\ HasRows(log, r) /\ HasNumbers(numberings, r)
      /\ Answered(log, numberings, r)
  BY <1>5 DEF Looked, HasRows, HasNumbers, Answered, Signed, Listed, Assigning
<1>9. RequestFits(log, numberings, shared, public, r) /\ StandsStill
  BY <1>1, <1>6, <1>7, <1>8 DEF RequestFits, StandsStill
<1> QED BY <1>1, <1>2, <1>5, <1>9, OneGoesOn

LEMMA NoRequestIs ==
  /\ IsRequest(NoRequest) /\ NoRequest.on = Unset /\ NoRequest.at = "idle"
  /\ NoRequest.revision = Unset /\ NoRequest.stable = Unset /\ NoRequest.fixed = Unset
BY DEF NoRequest, IsRequest, Stages, Signed

\* An answer that was found under the key of the files known when it began.
LEMMA ServedFits ==
  ASSUME Requests, SharedFits, FilesFit, NumbersFit, NEW c \in Clients,
         request[c].at \notin {"idle", "done"}, NEW got,
         IsInjective(log) =>
           \E X \in SUBSET Files, j \in DOMAIN log :
             /\ DOMAIN got = RowsFor(ItemsOf(X), request[c].active)
             /\ request[c].start <= j /\ X \subseteq log[j] /\ (log[j] \ X) \cap Current = {},
         NEW N, numberings = N \/ \E n \in Numberings : N = Append(numberings, n),
         NEW r, r = Served(request[c], got),
         request[c].op = "list" /\ (request[c].stable = Unset \/ request[c].sound) /\ IsInjective(N) =>
           \E k \in DOMAIN N : request[c].since <= k /\ Agrees(got, N[k])
  PROVE  /\ RequestFits(log, N, shared, public, r)
         /\ r.on = Unset /\ r.at = "done"
<1>1. IsRequest(request[c]) /\ Asked(log, numberings, shared, public, request[c])
  BY RequestFacts
<1>2. /\ r.at = "done" /\ r.on = Unset /\ r.op = request[c].op /\ r.start = request[c].start
      /\ r.since = request[c].since /\ r.active = request[c].active
      /\ r.stable = request[c].stable /\ r.sound = request[c].sound /\ r.got = got
      /\ r.revision = Unset /\ r.fixed = Unset
  BY NoRequestIs DEF Served, IsRequest
<1>3. IsRequest(r)
  BY <1>1, NoRequestIs, ZenonT(60) DEF IsRequest, Served, Stages, Signed
<1>4. Current = log[Len(log)]
  BY DEF Current
<1>5. DOMAIN numberings \subseteq DOMAIN N
  BY NumbersFacts, AppendFacts
<1>6. Asked(log, N, shared, public, r)
  BY <1>1, <1>2, <1>5 DEF Asked
<1>7. Looked(log, r) /\ HasRows(log, r) /\ HasNumbers(N, r)
  BY <1>2 DEF Looked, HasRows, HasNumbers, Signed, Listed, Assigning
<1>8. Answered(log, N, r)
  BY <1>2, <1>4 DEF Answered
<1> QED BY <1>2, <1>3, <1>6, <1>7, <1>8 DEF RequestFits

LEMMA KeptByReadKeys ==
  ASSUME CatalogueInv, NEW c \in Clients, ReadKeys(c)
  PROVE  CatalogueInv'
<1> DEFINE q == request[c]
           k == <<Current, q.active, q.published>>
<1>1. q.at = "keys" /\ UNCHANGED caches /\ Silent /\ StandsStill
  BY ReadsStands DEF ReadKeys, At
<1>2. q.on = Unset
  BY <1>1, OutsideLoads DEF CatalogueInv, Assigning
<1>3. IsRequest(q) /\ Asked(log, numberings, shared, public, q) /\ HasRows(log, q)
      /\ HasNumbers(numberings, q)
  BY RequestFacts DEF CatalogueInv
<1>4. /\ DOMAIN log = 1..Len(log) /\ Len(log) \in DOMAIN log /\ Current = log[Len(log)]
  BY FilesFacts DEF CatalogueInv
<1>5. q.start \in DOMAIN log /\ q.start <= Len(log)
  BY <1>1, <1>3, <1>4 DEF Asked
<1> DEFINE r == [q EXCEPT !.known = Current]
<1>6. KnownKey(r) = k
  BY <1>3 DEF KnownKey, IsRequest
<1>7. Step(c, IF k \in DOMAIN caches.keys THEN Served(r, caches.keys[k])
                ELSE [r EXCEPT !.at = "signature"])
  BY <1>6 DEF ReadKeys
<1>8. CASE k \in DOMAIN caches.keys
  <2>1. Served(r, caches.keys[k]) = Served(q, caches.keys[k])
    BY <1>3 DEF Served, IsRequest
  <2>2. IsInjective(log) =>
          \E X \in SUBSET Files, j \in DOMAIN log :
            /\ DOMAIN caches.keys[k] = RowsFor(ItemsOf(X), q.active)
            /\ q.start <= j /\ X \subseteq log[j] /\ (log[j] \ X) \cap Current = {}
    <3> SUFFICES ASSUME IsInjective(log)
                 PROVE  \E X \in SUBSET Files, j \in DOMAIN log :
                          /\ DOMAIN caches.keys[k] = RowsFor(ItemsOf(X), q.active)
                          /\ q.start <= j /\ X \subseteq log[j]
                          /\ (log[j] \ X) \cap Current = {}
      OBVIOUS
    <3>1. ParsedFrom(log, DOMAIN caches.keys[k], q.active, Current)
      BY <1>8 DEF CatalogueInv, CachesFit, ValuesFit
    <3>2. PICK X \in SUBSET Files :
            DOMAIN caches.keys[k] = RowsFor(ItemsOf(X), q.active) /\ Seen(log, X, Current)
      BY <3>1 DEF ParsedFrom
    <3>3. PICK i, j \in DOMAIN log :
            /\ i <= j /\ log[i] = Current /\ X \subseteq log[j]
            /\ (log[j] \ X) \cap log[Len(log)] = {}
      BY <3>2 DEF Seen
    <3>4. i = Len(log)
      BY <1>4, <3>3 DEF IsInjective
    <3>5. q.start <= j
      BY <1>4, <1>5, <3>3, <3>4
    <3> QED BY <1>4, <3>2, <3>3, <3>5
  <2>3. q.at \notin {"idle", "done"}
    BY <1>1
  <2>4. q.op # "list"
    BY <1>1, <1>3 DEF Asked
  <2> DEFINE s == Served(q, caches.keys[k])
  <2>5. Step(c, s) /\ s = Served(q, caches.keys[k])
    BY <1>7, <1>8, <2>1
  <2> HIDE DEF s
  <2>6. RequestFits(log, numberings, shared, public, s) /\ s.on = Unset
    <3> HIDE DEF k
    <3>1. Requests /\ SharedFits /\ FilesFit /\ NumbersFit
      BY DEF CatalogueInv
    <3> QED BY <2>2, <2>3, <2>4, <2>5, <3>1, ServedFits
  <2> QED BY <1>1, <1>2, <2>5, <2>6, OneGoesOn
<1>9. CASE k \notin DOMAIN caches.keys
  <2> DEFINE s == [r EXCEPT !.at = "signature"]
  <2>1. /\ IsRequest(s) /\ s.at = "signature" /\ s.on = Unset /\ s.known = Current
        /\ s.op = q.op /\ s.start = q.start /\ s.since = q.since /\ s.version = q.version
        /\ s.published = q.published /\ s.stable = q.stable /\ s.revision = q.revision
        /\ s.fixed = q.fixed
    <3>1. /\ s.at = "signature" /\ s.on = q.on /\ s.known = Current
          /\ s.op = q.op /\ s.start = q.start /\ s.since = q.since /\ s.version = q.version
          /\ s.published = q.published /\ s.stable = q.stable /\ s.revision = q.revision
          /\ s.fixed = q.fixed
      BY <1>3 DEF IsRequest
    <3>2. IsRequest(s)
      BY <1>3 DEF IsRequest, Stages, Signed
    <3> QED BY <1>2, <3>1, <3>2
  <2>2. Step(c, s)
    BY <1>7, <1>9
  <2> HIDE DEF s
  <2>3. Asked(log, numberings, shared, public, s)
    BY <1>1, <1>3, <2>1 DEF Asked
  <2>4. Looked(log, s)
    BY <1>4, <1>5, <2>1 DEF Looked, Signed, Listed, Assigning
  <2>5. HasRows(log, s) /\ HasNumbers(numberings, s) /\ Answered(log, numberings, s)
    BY <1>1, <1>3, <2>1 DEF HasRows, HasNumbers, Answered, Listed, Assigning
  <2>6. RequestFits(log, numberings, shared, public, s)
    BY <2>1, <2>3, <2>4, <2>5 DEF RequestFits
  <2> QED BY <1>1, <1>2, <2>1, <2>2, <2>6, OneGoesOn
<1> QED BY <1>8, <1>9

LEMMA RequestUpdated ==
  ASSUME NEW r, IsRequest(r), NEW x
  PROVE  /\ x \in Clients \cup {Unset} => IsRequest([r EXCEPT !.on = x])
         /\ x \in Stages => IsRequest([r EXCEPT !.at = x])
BY DEF IsRequest

\* Whom a request waits for matters to no part of the invariant but its numbers.
LEMMA OnFits ==
  ASSUME NEW L, NEW N, NEW H, NEW P, NEW r, RequestFits(L, N, H, P, r),
         NEW x \in Clients \cup {Unset},
         r.at \in {"number"} \cup Assigning => x = Unset \/ r.sound,
         NEW s, s = [r EXCEPT !.on = x]
  PROVE  /\ RequestFits(L, N, H, P, s) /\ s.on = x /\ s.at = r.at /\ LoadOf(s) = LoadOf(r)
         /\ s.op = r.op /\ s.signature = r.signature /\ s.active = r.active
         /\ s.published = r.published /\ s.revision = r.revision
<1>1. /\ IsRequest(r) /\ Asked(L, N, H, P, r) /\ Looked(L, r) /\ HasRows(L, r)
      /\ HasNumbers(N, r) /\ Answered(L, N, r)
  BY DEF RequestFits
<1>2. IsRequest(s)
  BY <1>1 DEF IsRequest
<1>3. /\ s.on = x /\ s.at = r.at /\ s.op = r.op /\ s.start = r.start /\ s.since = r.since
      /\ s.active = r.active /\ s.published = r.published /\ s.version = r.version
      /\ s.known = r.known /\ s.signature = r.signature /\ s.files = r.files
      /\ s.revision = r.revision /\ s.rows = r.rows /\ s.stable = r.stable
      /\ s.sound = r.sound /\ s.expected = r.expected /\ s.fixed = r.fixed /\ s.got = r.got
  BY <1>1 DEF IsRequest
<1>4. Asked(L, N, H, P, s) /\ Looked(L, s) /\ HasRows(L, s) /\ Answered(L, N, s)
  BY <1>1, <1>3 DEF Asked, Looked, HasRows, Answered
<1>5. Expected(s) = Expected(r)
  BY <1>3 DEF Expected
<1>6. HasNumbers(N, s)
  BY <1>1, <1>3, <1>5 DEF HasNumbers
<1>7. LoadOf(s) = LoadOf(r)
  BY <1>3 DEF LoadOf, ListKey, NumberedKey
<1> QED BY <1>2, <1>3, <1>4, <1>6, <1>7 DEF RequestFits

LEMMA CataloguedFits ==
  ASSUME NEW L, NEW N, NEW H, NEW P, NEW r, RequestFits(L, N, H, P, r), r.at = "files",
         NEW found, Loaded(L, found, r.signature), NEW s, s = Catalogued(r, found)
  PROVE  RequestFits(L, N, H, P, s) /\ s.on = r.on
<1>1. /\ IsRequest(r) /\ Asked(L, N, H, P, r) /\ Looked(L, r) /\ HasRows(L, r)
      /\ HasNumbers(N, r)
  BY DEF RequestFits
<1>2. IsRequest(s)
  BY <1>1 DEF IsRequest, Catalogued, Stages, Signed
<1>3. /\ s.at = IF r.op = "renumber" THEN "strict" ELSE "parse"
      /\ s.on = r.on /\ s.op = r.op /\ s.start = r.start /\ s.since = r.since
      /\ s.active = r.active /\ s.published = r.published /\ s.version = r.version
      /\ s.known = r.known /\ s.signature = r.signature /\ s.files = found
      /\ s.revision = r.revision /\ s.stable = r.stable /\ s.fixed = r.fixed
  BY <1>1 DEF IsRequest, Catalogued
<1>4. s.at \in {"strict", "parse"} /\ (s.at = "strict" => s.op = "renumber")
  BY <1>3
<1>5. Asked(L, N, H, P, s)
  BY <1>1, <1>3, <1>4 DEF Asked
<1>6. Looked(L, s)
  BY <1>1, <1>3, <1>4 DEF Looked, Signed, Listed, Assigning
<1>7. HasRows(L, s) /\ HasNumbers(N, s) /\ Answered(L, N, s)
  BY <1>1, <1>3, <1>4 DEF HasRows, HasNumbers, Answered, Listed, Assigning
<1> QED BY <1>2, <1>3, <1>5, <1>6, <1>7 DEF RequestFits

\* The signature is that of the files as they are.
LEMMA SignatureFits ==
  ASSUME CatalogueInv, NEW c \in Clients, request[c].at = "signature",
         NEW r, r = [request[c] EXCEPT !.signature = Current, !.at = "files"]
  PROVE  /\ RequestFits(log, numberings, shared, public, r)
         /\ r.on = Unset /\ r.at = "files" /\ r.signature = Current
<1> DEFINE q == request[c]
<1>1. /\ IsRequest(q) /\ Asked(log, numberings, shared, public, q) /\ Looked(log, q)
      /\ HasRows(log, q) /\ HasNumbers(numberings, q)
  BY RequestFacts DEF CatalogueInv
<1>2. q.on = Unset
  BY OutsideLoads DEF CatalogueInv, Assigning
<1>3. IsRequest(r)
  BY <1>1 DEF IsRequest, Stages, Signed
<1>4. /\ r.at = "files" /\ r.on = q.on /\ r.op = q.op /\ r.start = q.start /\ r.since = q.since
      /\ r.active = q.active /\ r.published = q.published /\ r.version = q.version
      /\ r.known = q.known /\ r.signature = Current
      /\ r.revision = q.revision /\ r.stable = q.stable /\ r.fixed = q.fixed
  BY <1>1 DEF IsRequest
<1>5. /\ DOMAIN log = 1..Len(log) /\ Len(log) \in DOMAIN log /\ Current = log[Len(log)]
  BY FilesFacts DEF CatalogueInv
<1> HIDE DEF q
<1>6. q.at = "signature"
  BY DEF q
<1>7. Asked(log, numberings, shared, public, r)
  BY <1>1, <1>4, <1>6 DEF Asked
<1>8. q.start \in DOMAIN log
  BY <1>1, <1>6 DEF Asked
<1>9. \E i, k \in DOMAIN log :
        q.start <= k /\ k <= i /\ log[i] = Current /\ (q.op = "keys" => log[k] = q.known)
  <2>1. CASE q.op = "keys"
    <3>1. PICK k \in DOMAIN log : q.start <= k /\ log[k] = q.known
      BY <1>1, <1>6, <2>1 DEF Looked
    <3>2. k <= Len(log)
      BY <1>5
    <3> QED BY <1>5, <3>1, <3>2
  <2>2. CASE q.op # "keys"
    BY <1>5, <1>8, <2>2
  <2> QED BY <2>1, <2>2
<1>10. Looked(log, r)
  BY <1>4, <1>9 DEF Looked
<1>11. HasRows(log, r) /\ HasNumbers(numberings, r) /\ Answered(log, numberings, r)
  BY <1>1, <1>4, <1>6 DEF HasRows, HasNumbers, Answered, Listed, Assigning
<1> QED BY <1>2, <1>3, <1>4, <1>7, <1>10, <1>11 DEF RequestFits, q

-----------------------------------------------------------------------------
(* What happens to the entries of a cache                                  *)

LEMMA PutFacts ==
  ASSUME NEW f, NEW k, NEW e
  PROVE  /\ DOMAIN Put(f, k, e) = DOMAIN f \cup {k} /\ Put(f, k, e)[k] = e
         /\ \A x \in DOMAIN f : x # k => Put(f, k, e)[x] = f[x]
BY DEF Put, Merged

LEMMA MergedFacts ==
  ASSUME NEW f, NEW g
  PROVE  /\ DOMAIN Merged(f, g) = DOMAIN f \cup DOMAIN g
         /\ \A x \in DOMAIN f : Merged(f, g)[x] = f[x]
         /\ \A x \in DOMAIN g : x \notin DOMAIN f => Merged(f, g)[x] = g[x]
BY DEF Merged

\* A load of c ends: its entry is settled, and the others stay.
LEMMA ResolvedFacts ==
  ASSUME NEW f, NEW k, NEW c, NEW v, \A x \in DOMAIN f : f[x].by = c => x = k
  PROVE  \A x \in DOMAIN Resolved(f, k, c, v) :
           \/ x \in DOMAIN f /\ Resolved(f, k, c, v)[x] = f[x] /\ f[x].by # c
           \/ x = k /\ Resolved(f, k, c, v)[x] = Settled(v)
<1>1. CASE ~ Holding(f, k, c)
  BY <1>1 DEF Resolved, Holding
<1>2. CASE Holding(f, k, c)
  <2> DEFINE g == Put(f, k, Settled(v))
  <2>1. Resolved(f, k, c, v) = g
    BY <1>2 DEF Resolved
  <2>2. DOMAIN g = DOMAIN f \cup {k} /\ g[k] = Settled(v)
        /\ \A x \in DOMAIN f : x # k => g[x] = f[x]
    BY DEF Put, Merged
  <2> HIDE DEF g
  <2>3. ASSUME NEW x \in DOMAIN g
        PROVE  \/ x \in DOMAIN f /\ g[x] = f[x] /\ f[x].by # c
               \/ x = k /\ g[x] = Settled(v)
    BY <2>2
  <2> QED BY <2>1, <2>3
<1> QED BY <1>1, <1>2

LEMMA DroppedFacts ==
  ASSUME NEW f, NEW k, NEW c, \A x \in DOMAIN f : f[x].by = c => x = k
  PROVE  \A x \in DOMAIN Dropped(f, k, c) :
           x \in DOMAIN f /\ Dropped(f, k, c)[x] = f[x] /\ f[x].by # c
BY DEF Dropped, Holding, Without, Restrict

LEMMA PromotedFacts ==
  ASSUME NEW f, NEW k, NEW new, NEW c, NEW v, \A x \in DOMAIN f : f[x].by = c => x = k
  PROVE  \A x \in DOMAIN Promoted(f, k, new, c, v) :
           \/ x \in DOMAIN f /\ Promoted(f, k, new, c, v)[x] = f[x] /\ f[x].by # c
           \/ x = new /\ Promoted(f, k, new, c, v)[x] = Settled(v) /\ Holding(f, k, c)
<1>1. CASE ~ Holding(f, k, c)
  BY <1>1 DEF Promoted, Holding
<1>2. CASE Holding(f, k, c)
  <2> DEFINE g == Without(f, {k})
             h == [x \in {new} |-> Settled(v)]
  <2>1. Promoted(f, k, new, c, v) = Merged(g, h)
    BY <1>2 DEF Promoted
  <2>2. \A x \in DOMAIN g : x \in DOMAIN f /\ x # k /\ g[x] = f[x]
    BY DEF Without, Restrict
  <2>3. DOMAIN h = {new} /\ h[new] = Settled(v)
    OBVIOUS
  <2> HIDE DEF g, h
  <2>4. /\ DOMAIN Merged(g, h) = DOMAIN g \cup {new}
        /\ \A x \in DOMAIN g : Merged(g, h)[x] = g[x]
        /\ new \notin DOMAIN g => Merged(g, h)[new] = Settled(v)
    BY <2>3 DEF Merged
  <2>5. ASSUME NEW x \in DOMAIN Merged(g, h)
        PROVE  \/ x \in DOMAIN f /\ Merged(g, h)[x] = f[x] /\ f[x].by # c
               \/ x = new /\ Merged(g, h)[x] = Settled(v)
    <3>1. CASE x \in DOMAIN g
      BY <2>2, <2>4, <3>1
    <3>2. CASE x \notin DOMAIN g
      BY <2>4, <3>2
    <3> QED BY <3>1, <3>2
  <2> QED BY <1>2, <2>1, <2>5
<1> QED BY <1>1, <1>2

LEMMA EntryFacts ==
  /\ \A v : Settled(v).by = Unset /\ Settled(v).value = v
            /\ Settled(v) \in [by : {Settled(v).by}, value : {Settled(v).value}]
  /\ \A c : Loading(c).by = c /\ Loading(c) \in [by : {Loading(c).by}, value : {Loading(c).value}]
BY DEF Settled, Loading

\* The entries that c loads are those of the load that it owns.
LEMMA EntriesOf ==
  ASSUME NEW Q, NEW C, LoadsFit(Q, C), NEW c \in Clients
  PROVE  /\ \A k \in DOMAIN C.files :
              C.files[k].by = c => Q[c].on = c /\ LoadOf(Q[c]) = <<"files", k>>
         /\ \A k \in DOMAIN C.lists :
              C.lists[k].by = c => Q[c].on = c /\ LoadOf(Q[c]) = <<"lists", k>>
         /\ \A k \in DOMAIN C.numbered :
              C.numbered[k].by = c => Q[c].on = c /\ LoadOf(Q[c]) = <<"numbered", k>>
BY AssumptionFacts DEF LoadsFit, IsEntry, Leads

LEMMA EntryGoesOn ==
  ASSUME NEW kind, NEW k, NEW e, IsEntry(request, kind, k, e), NEW c,
         e.by # c \/ e.by = Unset,
         \A o, l : Leads(request, o, l) /\ o # c => Leads(request', o, l)
  PROVE  IsEntry(request', kind, k, e)
BY DEF IsEntry

Stays(f, g, k, c) == k \in DOMAIN f /\ g[k] = f[k] /\ f[k].by # c

\* A step of c changes the caches: entries stay, c begins a load, or its load is done.
LEMMA CachesChange ==
  ASSUME CachesFit, NumbersFit, NumbersGoOn, UNCHANGED log, NEW c \in Clients,
         IsCaches(caches'),
         \A o, l : Leads(request, o, l) /\ o # c => Leads(request', o, l),
         \A k \in DOMAIN caches'.files :
           \/ Stays(caches.files, caches'.files, k, c)
           \/ caches'.files[k] = Loading(c) /\ Leads(request', c, <<"files", k>>)
           \/ \E v : caches'.files[k] = Settled(v) /\ Loaded(log, v, k),
         \A k \in DOMAIN caches'.lists :
           \/ Stays(caches.lists, caches'.lists, k, c)
           \/ caches'.lists[k] = Loading(c) /\ Leads(request', c, <<"lists", k>>)
           \/ \E v : /\ caches'.lists[k] = Settled(v)
                     /\ ParsedFrom(log, v.rows, k[2], k[1]) /\ v.sound \in BOOLEAN,
         \A k \in DOMAIN caches'.numbered :
           \/ Stays(caches.numbered, caches'.numbered, k, c)
           \/ caches'.numbered[k] = Loading(c) /\ Leads(request', c, <<"numbered", k>>)
           \/ \E v : /\ caches'.numbered[k] = Settled(v)
                     /\ ParsedFrom(log, DOMAIN v, k[2], k[1])
                     /\ IsInjective(numberings') => Agrees(v, k[4]),
         \A k \in DOMAIN caches'.keys :
           \/ k \in DOMAIN caches.keys /\ caches'.keys[k] = caches.keys[k]
           \/ IsInjective(log) => ParsedFrom(log, DOMAIN caches'.keys[k], k[2], k[1])
  PROVE  CachesFit'
<1>1. LoadsFit(request, caches) /\ ValuesFit(log, numberings', caches)
  <2>1. CASE numberings' = numberings
    BY <2>1 DEF CachesFit
  <2>2. CASE \E n \in Numberings : numberings' = Append(numberings, n)
    BY <2>2, NumbersFacts, ValuesAfterNumbers DEF CachesFit
  <2> QED BY <2>1, <2>2 DEF NumbersGoOn
<1>2. c # Unset
  BY AssumptionFacts
<1>3. ASSUME NEW k \in DOMAIN caches'.files
      PROVE  /\ IsEntry(request', "files", k, caches'.files[k])
             /\ caches'.files[k].by = Unset => Loaded(log, caches'.files[k].value, k)
  <2>1. CASE Stays(caches.files, caches'.files, k, c)
    BY <1>1, <2>1, EntryGoesOn DEF Stays, LoadsFit, ValuesFit
  <2>2. CASE caches'.files[k] = Loading(c) /\ Leads(request', c, <<"files", k>>)
    BY <1>2, <2>2, EntryFacts DEF IsEntry
  <2>3. CASE \E v : caches'.files[k] = Settled(v) /\ Loaded(log, v, k)
    BY <2>3, EntryFacts DEF IsEntry
  <2> QED BY <2>1, <2>2, <2>3
<1>4. ASSUME NEW k \in DOMAIN caches'.lists
      PROVE  LET e == caches'.lists[k] IN
             /\ IsEntry(request', "lists", k, e)
             /\ e.by = Unset =>
                  ParsedFrom(log, e.value.rows, k[2], k[1]) /\ e.value.sound \in BOOLEAN
  <2>1. CASE Stays(caches.lists, caches'.lists, k, c)
    BY <1>1, <2>1, EntryGoesOn DEF Stays, LoadsFit, ValuesFit
  <2>2. CASE caches'.lists[k] = Loading(c) /\ Leads(request', c, <<"lists", k>>)
    BY <1>2, <2>2, EntryFacts DEF IsEntry
  <2>3. CASE \E v : /\ caches'.lists[k] = Settled(v)
                    /\ ParsedFrom(log, v.rows, k[2], k[1]) /\ v.sound \in BOOLEAN
    BY <2>3, EntryFacts DEF IsEntry
  <2> QED BY <2>1, <2>2, <2>3
<1>5. ASSUME NEW k \in DOMAIN caches'.numbered
      PROVE  LET e == caches'.numbered[k] IN
             /\ IsEntry(request', "numbered", k, e)
             /\ e.by = Unset =>
                  /\ ParsedFrom(log, DOMAIN e.value, k[2], k[1])
                  /\ IsInjective(numberings') => Agrees(e.value, k[4])
  <2>1. CASE Stays(caches.numbered, caches'.numbered, k, c)
    BY <1>1, <2>1, EntryGoesOn DEF Stays, LoadsFit, ValuesFit
  <2>2. CASE caches'.numbered[k] = Loading(c) /\ Leads(request', c, <<"numbered", k>>)
    BY <1>2, <2>2, EntryFacts DEF IsEntry
  <2>3. CASE \E v : /\ caches'.numbered[k] = Settled(v)
                    /\ ParsedFrom(log, DOMAIN v, k[2], k[1])
                    /\ IsInjective(numberings') => Agrees(v, k[4])
    BY <2>3, EntryFacts DEF IsEntry
  <2> QED BY <2>1, <2>2, <2>3
<1>6. ASSUME NEW k \in DOMAIN caches'.keys, IsInjective(log)
      PROVE  ParsedFrom(log, DOMAIN caches'.keys[k], k[2], k[1])
  BY <1>1, <1>6 DEF ValuesFit
<1>7. LoadsFit(request', caches')
  BY <1>3, <1>4, <1>5 DEF LoadsFit
<1>8. ValuesFit(log', numberings', caches')
  BY <1>3, <1>4, <1>5, <1>6 DEF ValuesFit
<1> QED BY <1>7, <1>8 DEF CachesFit

\* Nothing is being loaded for a client at no load.
LEMMA NothingLoadsFor ==
  ASSUME CachesFit, NEW c \in Clients, request[c].on # c
  PROVE  /\ \A k \in DOMAIN caches.files : Stays(caches.files, caches.files, k, c)
         /\ \A k \in DOMAIN caches.lists : Stays(caches.lists, caches.lists, k, c)
         /\ \A k \in DOMAIN caches.numbered : Stays(caches.numbered, caches.numbered, k, c)
BY EntriesOf DEF CachesFit, Stays

\* Something is loaded only under the key of the load.
LEMMA OneLoadsFor ==
  ASSUME CachesFit, NEW c \in Clients, NEW kind, NEW key, LoadOf(request[c]) = <<kind, key>>
  PROVE  /\ \A k \in DOMAIN caches.files :
              Stays(caches.files, caches.files, k, c) \/ (kind = "files" /\ k = key)
         /\ \A k \in DOMAIN caches.lists :
              Stays(caches.lists, caches.lists, k, c) \/ (kind = "lists" /\ k = key)
         /\ \A k \in DOMAIN caches.numbered :
              Stays(caches.numbered, caches.numbered, k, c) \/ (kind = "numbered" /\ k = key)
<1>1. LoadsFit(request, caches)
  BY DEF CachesFit
<1>2. ASSUME NEW k \in DOMAIN caches.files
      PROVE  Stays(caches.files, caches.files, k, c) \/ (kind = "files" /\ k = key)
  <2>1. caches.files[k].by = c => <<"files", k>> = <<kind, key>>
    BY <1>1, EntriesOf
  <2>2. <<"files", k>> = <<kind, key>> => kind = "files" /\ k = key
    OBVIOUS
  <2> QED BY <2>1, <2>2 DEF Stays
<1>3. ASSUME NEW k \in DOMAIN caches.lists
      PROVE  Stays(caches.lists, caches.lists, k, c) \/ (kind = "lists" /\ k = key)
  <2>1. caches.lists[k].by = c => <<"lists", k>> = <<kind, key>>
    BY <1>1, EntriesOf
  <2>2. <<"lists", k>> = <<kind, key>> => kind = "lists" /\ k = key
    OBVIOUS
  <2> QED BY <2>1, <2>2 DEF Stays
<1>4. ASSUME NEW k \in DOMAIN caches.numbered
      PROVE  Stays(caches.numbered, caches.numbered, k, c) \/ (kind = "numbered" /\ k = key)
  <2>1. caches.numbered[k].by = c => <<"numbered", k>> = <<kind, key>>
    BY <1>1, EntriesOf
  <2>2. <<"numbered", k>> = <<kind, key>> => kind = "numbered" /\ k = key
    OBVIOUS
  <2> QED BY <2>1, <2>2 DEF Stays
<1> QED BY <1>2, <1>3, <1>4

LEMMA KeptByReadRevision ==
  ASSUME CatalogueInv, NEW c \in Clients, ReadRevision(c)
  PROVE  CatalogueInv'
<1> DEFINE q == request[c]
           r == [q EXCEPT !.revision = numbers]
<1>1. /\ q.at \notin {"idle", "done", "keys"} /\ q.revision = Unset
      /\ Step(c, r) /\ UNCHANGED caches /\ Silent /\ StandsStill
  BY ReadsStands DEF ReadRevision, At, Busy
<1>2. IsRequest(q) /\ Asked(log, numberings, shared, public, q) /\ Looked(log, q)
      /\ HasRows(log, q) /\ HasNumbers(numberings, q)
  BY RequestFacts DEF CatalogueInv
<1>3. IsRequest(r)
  BY <1>2 DEF IsRequest
<1>4. /\ r.at = q.at /\ r.on = q.on /\ r.op = q.op /\ r.start = q.start /\ r.since = q.since
      /\ r.active = q.active /\ r.published = q.published /\ r.version = q.version
      /\ r.known = q.known /\ r.signature = q.signature /\ r.files = q.files
      /\ r.rows = q.rows /\ r.stable = q.stable /\ r.sound = q.sound /\ r.revision = numbers
      /\ r.fixed = q.fixed
  BY <1>2 DEF IsRequest
<1>5. Step(c, r) /\ WaitFits(request, c)
  BY <1>1 DEF CatalogueInv, Waits
<1>6. /\ DOMAIN numberings = 1..Len(numberings) /\ Len(numberings) \in DOMAIN numberings
      /\ numbers = numberings[Len(numberings)]
  BY NumbersFacts DEF CatalogueInv
<1> HIDE DEF q, r
<1>7. q.at \notin Assigning
  BY <1>1, <1>2 DEF HasNumbers
<1>8. /\ Asked(log, numberings, shared, public, r) /\ Looked(log, r) /\ HasRows(log, r)
      /\ Answered(log, numberings, r)
  BY <1>1, <1>2, <1>4 DEF Asked, Looked, HasRows, Answered
<1>9. HasNumbers(numberings, r)
  <2>1. q.since \in DOMAIN numberings
    BY <1>1, <1>2 DEF Asked
  <2>2. q.since <= Len(numberings)
    BY <1>6, <2>1
  <2> QED BY <1>2, <1>4, <1>6, <1>7, <2>2 DEF HasNumbers, Assigning
<1>10. RequestFits(log, numberings, shared, public, r)
  BY <1>3, <1>8, <1>9 DEF RequestFits
<1>11. q = request[c]
  BY DEF q
<1>12. CASE q.on = Unset
  BY <1>1, <1>4, <1>10, <1>11, <1>12, OneGoesOn
<1>13. CASE q.on # Unset
  <2>1. q.at \in {"files", "parse", "published"}
    BY <1>1, <1>5, <1>7, <1>11, <1>13 DEF WaitFits
  <2>2. LoadOf(r) = LoadOf(q)
    BY <1>4, <2>1 DEF LoadOf, ListKey
  <2>3. r.at # "number"
    BY <1>4, <2>1
  <2> QED BY <1>1, <1>4, <1>10, <1>11, <2>2, <2>3, OneGoesOn
<1> QED BY <1>12, <1>13

LEMMA KeptByReadSignature ==
  ASSUME CatalogueInv, NEW c \in Clients, ReadSignature(c)
  PROVE  CatalogueInv'
<1> DEFINE q == request[c]
           r == [q EXCEPT !.signature = Current, !.at = "files"]
           kept == Restrict(caches.files, DOMAIN caches.files \cap {Current})
<1>1. q.at = "signature" /\ Silent /\ StandsStill
  BY ReadsStands DEF ReadSignature, At
<1>2. /\ RequestFits(log, numberings, shared, public, r)
      /\ r.on = Unset /\ r.at = "files" /\ r.signature = Current
  BY <1>1, SignatureFits
<1>3. q.on = Unset /\ c # Unset
  BY <1>1, OutsideLoads, AssumptionFacts DEF CatalogueInv, Assigning
<1>4. \/ /\ Current \in DOMAIN kept
         /\ Step(c, IF kept[Current].by = Unset THEN Catalogued(r, kept[Current].value)
                    ELSE [r EXCEPT !.on = kept[Current].by])
         /\ caches' = [caches EXCEPT !.files = kept]
      \/ /\ Current \notin DOMAIN kept
         /\ Step(c, [r EXCEPT !.on = c])
         /\ caches' = [caches EXCEPT !.files = Put(<<>>, Current, Loading(c))]
  BY DEF ReadSignature
<1>5. /\ \A k \in DOMAIN caches.files : Stays(caches.files, caches.files, k, c)
      /\ \A k \in DOMAIN caches.lists : Stays(caches.lists, caches.lists, k, c)
      /\ \A k \in DOMAIN caches.numbered : Stays(caches.numbered, caches.numbered, k, c)
      /\ CachesFit /\ NumbersFit /\ IsCaches(caches)
  BY <1>3, NothingLoadsFor DEF CatalogueInv, CachesFit
<1>6. \A k \in DOMAIN kept : k = Current /\ k \in DOMAIN caches.files /\ kept[k] = caches.files[k]
  BY DEF Restrict
<1>7. NumbersGoOn /\ UNCHANGED log
  BY <1>1 DEF StandsStill, NumbersGoOn
<1> HIDE DEF q, r, kept
<1>8. request[c].on = Unset
  BY <1>3 DEF q
<1>9. CASE Current \in DOMAIN kept
  <2> DEFINE e == caches.files[Current]
  <2>1. Current \in DOMAIN caches.files /\ kept[Current] = e
    BY <1>6, <1>9
  <2>2. /\ e.by # Unset => Leads(request, e.by, <<"files", Current>>)
        /\ e.by = Unset => Loaded(log, e.value, Current)
    BY <1>5, <2>1 DEF CachesFit, LoadsFit, ValuesFit, IsEntry
  <2> HIDE DEF e
  <2>3. /\ caches' = [caches EXCEPT !.files = kept]
        /\ Step(c, IF e.by = Unset THEN Catalogued(r, e.value) ELSE [r EXCEPT !.on = e.by])
    BY <1>4, <1>9, <2>1
  <2>4. /\ caches'.files = kept /\ caches'.lists = caches.lists
        /\ caches'.numbered = caches.numbered /\ caches'.keys = caches.keys
        /\ IsCaches(caches')
    BY <1>5, <2>3 DEF IsCaches
  <2>5. LeadsGoOn => CachesFit'
    <3> SUFFICES ASSUME LeadsGoOn PROVE CachesFit'
      OBVIOUS
    <3>1. \A o, l : Leads(request, o, l) /\ o # c => Leads(request', o, l)
      BY DEF LeadsGoOn
    <3>2. \A k \in DOMAIN caches'.files : Stays(caches.files, caches'.files, k, c)
      BY <1>5, <1>6, <2>4 DEF Stays
    <3>3. /\ \A k \in DOMAIN caches'.lists : Stays(caches.lists, caches'.lists, k, c)
          /\ \A k \in DOMAIN caches'.numbered : Stays(caches.numbered, caches'.numbered, k, c)
          /\ \A k \in DOMAIN caches'.keys :
               k \in DOMAIN caches.keys /\ caches'.keys[k] = caches.keys[k]
      BY <1>5, <2>4
    <3> QED BY <1>5, <1>7, <2>4, <3>1, <3>2, <3>3, CachesChange
  <2>6. CASE e.by = Unset
    <3> DEFINE s == Catalogued(r, e.value)
    <3>1. RequestFits(log, numberings, shared, public, s) /\ s.on = Unset
      BY <1>2, <2>2, <2>6, CataloguedFits
    <3>2. Step(c, s)
      BY <2>3, <2>6
    <3> HIDE DEF s
    <3> QED BY <1>1, <1>8, <2>5, <3>1, <3>2, OneGoesOn DEF CatalogueInv
  <2>7. CASE e.by # Unset
    <3> DEFINE s == [r EXCEPT !.on = e.by]
    <3>1. e.by \in Clients /\ request[e.by].on = e.by /\ LoadOf(request[e.by]) = <<"files", Current>>
      BY <2>2, <2>7 DEF Leads
    <3>2. Step(c, s)
      BY <2>3, <2>7
    <3>3. /\ RequestFits(log, numberings, shared, public, s) /\ s.on = e.by /\ s.at = "files"
          /\ LoadOf(s) = LoadOf(r)
      BY <1>2, <3>1, OnFits DEF Assigning
    <3>4. LoadOf(r) = <<"files", Current>>
      BY <1>2 DEF LoadOf
    <3> HIDE DEF s
    <3>5. request'[c] = s /\ request'[e.by] = request[e.by]
      BY <1>3, <1>8, <3>1, <3>2, StepFacts DEF CatalogueInv
    <3>6. WaitFits(request', c)
      BY <3>1, <3>3, <3>4, <3>5 DEF WaitFits, Assigning
    <3> QED BY <1>1, <1>8, <2>5, <3>2, <3>3, <3>6, OneGoesOn DEF CatalogueInv
  <2> QED BY <2>6, <2>7
<1>10. CASE Current \notin DOMAIN kept
  <2> DEFINE s == [r EXCEPT !.on = c]
             g == Put(<<>>, Current, Loading(c))
  <2>1. Step(c, s) /\ caches' = [caches EXCEPT !.files = g]
    BY <1>4, <1>10
  <2>2. /\ RequestFits(log, numberings, shared, public, s) /\ s.on = c /\ s.at = "files"
        /\ LoadOf(s) = LoadOf(r)
    BY <1>2, OnFits DEF Assigning
  <2>3. LoadOf(r) = <<"files", Current>>
    BY <1>2 DEF LoadOf
  <2>4. DOMAIN g = {Current} /\ g[Current] = Loading(c)
    BY EmptyIsNumbering DEF Put, Merged
  <2> HIDE DEF s, g
  <2>5. request'[c] = s
    BY <2>1, StepFacts DEF CatalogueInv
  <2>6. WaitFits(request', c) /\ Leads(request', c, <<"files", Current>>)
    BY <2>2, <2>3, <2>5 DEF WaitFits, Leads, Assigning
  <2>7. /\ FilesFit' /\ SharedFits' /\ NumbersFit' /\ Requests' /\ Waits' /\ LeadsGoOn
    BY <1>1, <1>8, <2>1, <2>2, <2>6, OneGoesOn
  <2>8. /\ caches'.files = g /\ caches'.lists = caches.lists
        /\ caches'.numbered = caches.numbered /\ caches'.keys = caches.keys
        /\ IsCaches(caches')
    BY <1>5, <2>1 DEF IsCaches
  <2>9. CachesFit'
    <3>1. \A o, l : Leads(request, o, l) /\ o # c => Leads(request', o, l)
      BY <2>7 DEF LeadsGoOn
    <3>2. \A k \in DOMAIN caches'.files :
            caches'.files[k] = Loading(c) /\ Leads(request', c, <<"files", k>>)
      BY <2>4, <2>6, <2>8
    <3>3. /\ \A k \in DOMAIN caches'.lists : Stays(caches.lists, caches'.lists, k, c)
          /\ \A k \in DOMAIN caches'.numbered : Stays(caches.numbered, caches'.numbered, k, c)
          /\ \A k \in DOMAIN caches'.keys :
               k \in DOMAIN caches.keys /\ caches'.keys[k] = caches.keys[k]
      BY <1>5, <2>8
    <3> QED BY <1>5, <1>7, <2>8, <3>1, <3>2, <3>3, CachesChange
  <2> QED BY <2>7, <2>9 DEF CatalogueInv
<1> QED BY <1>9, <1>10

\* Who has a signature may read the files of now under it.
LEMMA LoadedNow ==
  ASSUME FilesFit, NEW r, Looked(log, r), r.at \in Signed
  PROVE  Loaded(log, Current, r.signature)
<1>1. /\ DOMAIN log = 1..Len(log) /\ Len(log) \in DOMAIN log /\ Current = log[Len(log)]
  BY FilesFacts
<1>2. PICK i \in DOMAIN log : log[i] = r.signature
  BY DEF Looked
<1>3. i <= Len(log)
  BY <1>1
<1> QED BY <1>1, <1>2, <1>3 DEF Loaded

\* Who waits for the load of an owner waits for the same.
LEMMA SameLoad ==
  ASSUME Waits, NEW c \in Clients, request[c].on = c, NEW d \in Clients, request[d].on = c
  PROVE  /\ LoadOf(request[d]) = LoadOf(request[c])
         /\ request[c].at = "files" =>
              request[d].at = "files" /\ request[d].signature = request[c].signature
         /\ request[c].at \in {"parse", "published"} =>
              /\ request[d].at \in {"parse", "published"}
              /\ ListKey(request[d]) = ListKey(request[c])
         /\ request[c].at \in Assigning =>
              /\ request[d].at \in {"number"} \cup Assigning
              /\ NumberedKey(request[d], request[d].revision)
                   = NumberedKey(request[c], request[c].revision)
<1>1. /\ LoadOf(request[d]) = LoadOf(request[c])
      /\ request[d].at \in {"files", "parse", "published", "number"} \cup Assigning
  BY AssumptionFacts DEF Waits, WaitFits
<1> DEFINE q == request[d]
           r == request[c]
<1> HIDE DEF q, r
<1>2. LoadOf(q) = LoadOf(r) /\ q.at \in {"files", "parse", "published", "number"} \cup Assigning
  BY <1>1 DEF q, r
<1>3. r.at = "files" => q.at = "files" /\ q.signature = r.signature
  BY <1>2 DEF LoadOf, Assigning
<1>4. r.at \in {"parse", "published"} =>
        q.at \in {"parse", "published"} /\ ListKey(q) = ListKey(r)
  BY <1>2 DEF LoadOf, Assigning
<1>5. r.at \in Assigning =>
        /\ q.at \in {"number"} \cup Assigning
        /\ NumberedKey(q, q.revision) = NumberedKey(r, r.revision)
  BY <1>2 DEF LoadOf, Assigning
<1> QED BY <1>1, <1>3, <1>4, <1>5 DEF q, r

LEMMA KeptByLoadFiles ==
  ASSUME CatalogueInv, NEW c \in Clients, LoadFiles(c)
  PROVE  CatalogueInv'
<1> DEFINE D == {d \in Clients : request[d].on = c}
           key == request[c].signature
<1>1. request[c].at = "files" /\ request[c].on = c /\ Silent /\ StandsStill
  BY ReadsStands DEF LoadFiles, At, Owns
<1>2. request' = [d \in Clients |->
                    IF request[d].on = c THEN Catalogued([request[d] EXCEPT !.on = Unset], Current)
                    ELSE request[d]]
  BY DEF LoadFiles, Wake
<1>3. caches' = [caches EXCEPT !.files = Resolved(caches.files, key, c, Current)]
  BY DEF LoadFiles
<1>4. /\ D \in SUBSET Clients /\ c \in D
      /\ request' = [d \in Clients |-> request'[d]]
      /\ \A d \in Clients \ D : request'[d] = request[d]
      /\ \A d \in D : request'[d] = Catalogued([request[d] EXCEPT !.on = Unset], Current)
  BY <1>1, <1>2
<1>5. FilesFit' /\ SharedFits' /\ NumbersFit' /\ NumbersGoOn
      /\ UNCHANGED <<log, numberings, shared, public>>
  BY <1>1, StoresStay DEF CatalogueInv, StandsStill, NumbersGoOn
<1>6. ASSUME NEW d \in D
      PROVE  /\ RequestFits(log, numberings, shared, public, request'[d])
             /\ request'[d].on = Unset
  <2> DEFINE q == request[d]
             r == [q EXCEPT !.on = Unset]
  <2>1. q.at = "files"
    BY <1>1, SameLoad DEF CatalogueInv
  <2>2. RequestFits(log, numberings, shared, public, q) /\ Looked(log, q)
    BY RequestFacts DEF CatalogueInv
  <2>3. Loaded(log, Current, q.signature)
    BY <2>1, <2>2, LoadedNow DEF CatalogueInv, Signed
  <2>4. request'[d] = Catalogued(r, Current)
    BY <1>4
  <2>5. q.at \notin {"number"} \cup Assigning
    BY <2>1 DEF Assigning
  <2> HIDE DEF q
  <2>6. /\ RequestFits(log, numberings, shared, public, r) /\ r.on = Unset /\ r.at = "files"
        /\ r.signature = q.signature
    BY <2>1, <2>2, <2>5, OnFits
  <2> HIDE DEF r
  <2> QED BY <2>3, <2>4, <2>6, CataloguedFits
<1>7. Requests'
  BY <1>1, <1>4, <1>5, <1>6, RequestsGoOn DEF CatalogueInv
<1>8. Waits' /\ \A o, l : Leads(request, o, l) /\ o # c => Leads(request', o, l)
  BY <1>4, <1>6, WaitsEnd DEF CatalogueInv
<1>9. /\ caches'.files = Resolved(caches.files, key, c, Current)
      /\ caches'.lists = caches.lists
      /\ caches'.numbered = caches.numbered /\ caches'.keys = caches.keys
      /\ IsCaches(caches')
  BY <1>3 DEF CatalogueInv, CachesFit, IsCaches
<1>10. CachesFit'
  <2>1. LoadOf(request[c]) = <<"files", key>>
    BY <1>1 DEF LoadOf
  <2>2. /\ \A k \in DOMAIN caches.files :
             Stays(caches.files, caches.files, k, c) \/ k = key
        /\ \A k \in DOMAIN caches.lists : Stays(caches.lists, caches.lists, k, c)
        /\ \A k \in DOMAIN caches.numbered : Stays(caches.numbered, caches.numbered, k, c)
    BY <2>1, OneLoadsFor DEF CatalogueInv
  <2>3. Loaded(log, Current, key)
    BY <1>1, RequestFacts, LoadedNow DEF CatalogueInv, Signed
  <2> HIDE DEF key
  <2>4. \A k \in DOMAIN caches'.files :
          \/ k \in DOMAIN caches.files /\ caches'.files[k] = caches.files[k] /\ caches.files[k].by # c
          \/ k = key /\ caches'.files[k] = Settled(Current)
    BY <1>9, <2>2, ResolvedFacts DEF Stays
  <2>5. \A k \in DOMAIN caches'.files :
          \/ Stays(caches.files, caches'.files, k, c)
          \/ \E v : caches'.files[k] = Settled(v) /\ Loaded(log, v, k)
    BY <2>3, <2>4 DEF Stays
  <2>6. /\ \A k \in DOMAIN caches'.lists : Stays(caches.lists, caches'.lists, k, c)
        /\ \A k \in DOMAIN caches'.numbered : Stays(caches.numbered, caches'.numbered, k, c)
        /\ \A k \in DOMAIN caches'.keys :
             k \in DOMAIN caches.keys /\ caches'.keys[k] = caches.keys[k]
    BY <1>9, <2>2
  <2>7. CachesFit /\ NumbersFit
    BY DEF CatalogueInv
  <2> QED BY <1>5, <1>8, <1>9, <2>5, <2>6, <2>7, CachesChange
<1> QED BY <1>5, <1>7, <1>8, <1>10 DEF CatalogueInv

-----------------------------------------------------------------------------
(* The requests parse lists                                                *)

LEMMA ParsedFits ==
  ASSUME NEW L, NEW N, NEW H, NEW P, NEW r, RequestFits(L, N, H, P, r),
         r.at \in {"parse", "published"}, r.on = Unset, NEW list, list.sound \in BOOLEAN,
         ParsedFrom(L, list.rows, ListKey(r)[2], ListKey(r)[1]),
         NEW s, s = Parsed(r, list)
  PROVE  RequestFits(L, N, H, P, s) /\ s.on = Unset
<1>1. /\ IsRequest(r) /\ Asked(L, N, H, P, r) /\ Looked(L, r) /\ HasRows(L, r)
      /\ HasNumbers(N, r)
  BY DEF RequestFits
<1>2. CASE r.at = "parse"
  <2>1. s = [r EXCEPT !.rows = list.rows, !.sound = list.sound,
                      !.at = IF r.active = r.published THEN "number" ELSE "published"]
    BY <1>2 DEF Parsed
  <2>2. IsRequest(s)
    BY <1>1, <2>1, ZenonT(60) DEF IsRequest, Stages, Signed, Listed
  <2>3. /\ s.at = IF r.active = r.published THEN "number" ELSE "published"
        /\ s.on = Unset /\ s.op = r.op /\ s.start = r.start /\ s.since = r.since
        /\ s.active = r.active /\ s.published = r.published /\ s.version = r.version
        /\ s.known = r.known /\ s.signature = r.signature /\ s.files = r.files
        /\ s.revision = r.revision /\ s.stable = r.stable /\ s.rows = list.rows
        /\ s.fixed = r.fixed
    BY <1>1, <2>1 DEF IsRequest
  <2>4. ParsedFrom(L, s.rows, s.active, s.signature)
    BY <1>2, <2>3 DEF ListKey
  <2>5. Asked(L, N, H, P, s)
    BY <1>1, <1>2, <2>3 DEF Asked
  <2>6. Looked(L, s)
    BY <1>1, <1>2, <2>3 DEF Looked, Signed, Listed, Assigning
  <2>7. HasRows(L, s)
    BY <1>1, <1>2, <2>3, <2>4 DEF HasRows, Assigning
  <2>8. HasNumbers(N, s) /\ Answered(L, N, s)
    BY <1>1, <1>2, <2>3 DEF HasNumbers, Answered, Assigning
  <2> QED BY <2>2, <2>3, <2>5, <2>6, <2>7, <2>8 DEF RequestFits
<1>3. CASE r.at = "published"
  <2>1. s = [r EXCEPT !.stable = list.rows, !.sound = r.sound /\ list.sound, !.at = "number"]
    BY <1>1, <1>3 DEF Parsed, IsRequest
  <2>2. IsRequest(s)
    BY <1>1, <2>1, ZenonT(60) DEF IsRequest, Stages, Signed, Listed
  <2>3. /\ s.at = "number"
        /\ s.on = Unset /\ s.op = r.op /\ s.start = r.start /\ s.since = r.since
        /\ s.active = r.active /\ s.published = r.published /\ s.version = r.version
        /\ s.known = r.known /\ s.signature = r.signature /\ s.files = r.files
        /\ s.revision = r.revision /\ s.stable = list.rows /\ s.rows = r.rows
        /\ s.fixed = r.fixed
    BY <1>1, <2>1 DEF IsRequest
  <2>4. ParsedFrom(L, s.stable, s.published, s.signature)
    BY <1>3, <2>3 DEF ListKey
  <2>5. s.stable # Unset
    <3>1. s.published \in SUBSET Parts
      BY <2>2 DEF IsRequest
    <3> QED BY <2>4, <3>1, ParsedTyped, AssumptionFacts
  <2>6. Asked(L, N, H, P, s)
    BY <1>1, <1>3, <2>3 DEF Asked
  <2>7. Looked(L, s)
    BY <1>1, <1>3, <2>3 DEF Looked, Signed, Listed, Assigning
  <2>8. HasRows(L, s)
    <3>1. \E Y \in SUBSET Files : s.stable = RowsFor(ItemsOf(Y), s.published)
      BY <2>4 DEF ParsedFrom
    <3>2. ParsedFrom(L, s.rows, s.active, s.signature)
      BY <1>1, <1>3, <2>3 DEF HasRows, Listed
    <3> QED BY <2>3, <2>5, <3>1, <3>2 DEF HasRows, Listed, Assigning
  <2>9. HasNumbers(N, s) /\ Answered(L, N, s)
    BY <1>1, <1>3, <2>3 DEF HasNumbers, Answered, Assigning
  <2> QED BY <2>2, <2>3, <2>6, <2>7, <2>8, <2>9 DEF RequestFits
<1> QED BY <1>2, <1>3

LEMMA KeptByEnterParse ==
  ASSUME CatalogueInv, NEW c \in Clients, EnterParse(c)
  PROVE  CatalogueInv'
<1> DEFINE q == request[c]
           k == ListKey(q)
           e == caches.lists[k]
<1>1. q.at \in {"parse", "published"} /\ q.on = Unset /\ Silent /\ StandsStill
  BY ReadsStands DEF EnterParse, At, Free
<1>2. RequestFits(log, numberings, shared, public, q) /\ LoadOf(q) = <<"lists", k>>
  BY <1>1, RequestFacts DEF CatalogueInv, LoadOf
<1>3. c # Unset /\ CachesFit /\ NumbersFit /\ IsCaches(caches)
  BY AssumptionFacts DEF CatalogueInv, CachesFit
<1>4. \/ /\ k \in DOMAIN caches.lists
         /\ Step(c, IF e.by = Unset THEN Parsed(q, e.value) ELSE [q EXCEPT !.on = e.by])
         /\ UNCHANGED caches
      \/ /\ k \notin DOMAIN caches.lists
         /\ Step(c, [q EXCEPT !.on = c])
         /\ caches' = [caches EXCEPT !.lists = Put(caches.lists, k, Loading(c))]
  BY DEF EnterParse
<1>5. NumbersGoOn /\ UNCHANGED log
  BY <1>1 DEF StandsStill, NumbersGoOn
<1>6. request[c].on = Unset /\ q = request[c] /\ q.at \notin {"number"} \cup Assigning
  BY <1>1 DEF Assigning
<1>7. /\ \A x \in DOMAIN caches.files : Stays(caches.files, caches.files, x, c)
      /\ \A x \in DOMAIN caches.lists : Stays(caches.lists, caches.lists, x, c)
      /\ \A x \in DOMAIN caches.numbered : Stays(caches.numbered, caches.numbered, x, c)
  BY <1>3, <1>6, NothingLoadsFor
<1> HIDE DEF q, k
<1>8. CASE k \in DOMAIN caches.lists
  <2>1. /\ e.by # Unset => Leads(request, e.by, <<"lists", k>>)
        /\ e.by = Unset => ParsedFrom(log, e.value.rows, k[2], k[1]) /\ e.value.sound \in BOOLEAN
    BY <1>3, <1>8 DEF CachesFit, LoadsFit, ValuesFit, IsEntry
  <2> HIDE DEF e
  <2>2. CASE e.by = Unset
    <3> DEFINE s == Parsed(q, e.value)
    <3>1. Step(c, s) /\ UNCHANGED caches
      BY <1>4, <1>8, <2>2
    <3>2. RequestFits(log, numberings, shared, public, s) /\ s.on = Unset
      BY <1>1, <1>2, <2>1, <2>2, ParsedFits DEF k
    <3> HIDE DEF s
    <3> QED BY <1>1, <1>6, <3>1, <3>2, OneGoesOn
  <2>3. CASE e.by # Unset
    <3> DEFINE s == [q EXCEPT !.on = e.by]
    <3>1. Step(c, s) /\ UNCHANGED caches
      BY <1>4, <1>8, <2>3
    <3>2. e.by \in Clients /\ request[e.by].on = e.by /\ LoadOf(request[e.by]) = <<"lists", k>>
      BY <2>1, <2>3 DEF Leads
    <3>3. /\ RequestFits(log, numberings, shared, public, s) /\ s.on = e.by /\ s.at = q.at
          /\ LoadOf(s) = LoadOf(q)
      BY <1>2, <1>6, <3>2, OnFits
    <3> HIDE DEF s
    <3>4. request'[c] = s /\ request'[e.by] = request[e.by]
      BY <1>3, <1>6, <3>1, <3>2, StepFacts DEF CatalogueInv
    <3>5. WaitFits(request', c)
      BY <1>1, <1>2, <3>2, <3>3, <3>4 DEF WaitFits, Assigning
    <3> QED BY <1>1, <1>6, <3>1, <3>3, <3>5, OneGoesOn
  <2> QED BY <2>2, <2>3
<1>9. CASE k \notin DOMAIN caches.lists
  <2> DEFINE s == [q EXCEPT !.on = c]
             g == Put(caches.lists, k, Loading(c))
  <2>1. Step(c, s) /\ caches' = [caches EXCEPT !.lists = g]
    BY <1>4, <1>9
  <2>2. /\ RequestFits(log, numberings, shared, public, s) /\ s.on = c /\ s.at = q.at
        /\ LoadOf(s) = LoadOf(q)
    BY <1>2, <1>6, OnFits
  <2>3. /\ DOMAIN g = DOMAIN caches.lists \cup {k} /\ g[k] = Loading(c)
        /\ \A x \in DOMAIN caches.lists : g[x] = caches.lists[x]
    BY <1>9 DEF Put, Merged
  <2> HIDE DEF s, g
  <2>4. request'[c] = s
    BY <2>1, StepFacts DEF CatalogueInv
  <2>5. WaitFits(request', c) /\ Leads(request', c, <<"lists", k>>)
    BY <1>1, <1>2, <2>2, <2>4 DEF WaitFits, Leads, Assigning
  <2>6. /\ FilesFit' /\ SharedFits' /\ NumbersFit' /\ Requests' /\ Waits' /\ LeadsGoOn
    BY <1>1, <1>6, <2>1, <2>2, <2>5, OneGoesOn
  <2>7. /\ caches'.files = caches.files /\ caches'.lists = g
        /\ caches'.numbered = caches.numbered /\ caches'.keys = caches.keys
        /\ IsCaches(caches')
    BY <1>3, <2>1 DEF IsCaches
  <2>8. CachesFit'
    <3>1. \A o, l : Leads(request, o, l) /\ o # c => Leads(request', o, l)
      BY <2>6 DEF LeadsGoOn
    <3>2. \A x \in DOMAIN caches'.lists :
            \/ Stays(caches.lists, caches'.lists, x, c)
            \/ caches'.lists[x] = Loading(c) /\ Leads(request', c, <<"lists", x>>)
      BY <1>7, <2>3, <2>5, <2>7 DEF Stays
    <3>3. /\ \A x \in DOMAIN caches'.files : Stays(caches.files, caches'.files, x, c)
          /\ \A x \in DOMAIN caches'.numbered : Stays(caches.numbered, caches'.numbered, x, c)
          /\ \A x \in DOMAIN caches'.keys :
               x \in DOMAIN caches.keys /\ caches'.keys[x] = caches.keys[x]
      BY <1>7, <2>7
    <3> QED BY <1>3, <1>5, <2>7, <3>1, <3>2, <3>3, CachesChange
  <2> QED BY <2>6, <2>8 DEF CatalogueInv
<1> QED BY <1>8, <1>9


LEMMA KeptByParse ==
  ASSUME CatalogueInv, NEW c \in Clients, Parse(c)
  PROVE  CatalogueInv'
<1> DEFINE D == {d \in Clients : request[d].on = c}
           q == request[c]
           k == ListKey(q)
           list == [rows |-> RowsFor(ItemsOf(q.files \cap disk), k[2]),
                    sound |-> q.files \subseteq disk]
           g == IF list.sound THEN Resolved(caches.lists, k, c, list)
                ELSE Dropped(caches.lists, k, c)
<1>1. q.at \in {"parse", "published"} /\ q.on = c /\ Silent /\ StandsStill
  BY ReadsStands DEF Parse, At, Owns
<1>2. request' = [d \in Clients |->
                    IF request[d].on = c THEN Parsed([request[d] EXCEPT !.on = Unset], list)
                    ELSE request[d]]
  BY DEF Parse, Wake
<1>3. caches' = [caches EXCEPT !.lists = g]
  BY DEF Parse
<1>4. /\ D \in SUBSET Clients /\ c \in D
      /\ request' = [d \in Clients |-> request'[d]]
      /\ \A d \in Clients \ D : request'[d] = request[d]
      /\ \A d \in D : request'[d] = Parsed([request[d] EXCEPT !.on = Unset], list)
  <2> HIDE DEF list, g, k
  <2> QED BY <1>1, <1>2
<1>5. FilesFit' /\ SharedFits' /\ NumbersFit' /\ NumbersGoOn
      /\ UNCHANGED <<log, numberings, shared, public>>
  BY <1>1, StoresStay DEF CatalogueInv, StandsStill, NumbersGoOn
<1>6. ParsedFrom(log, list.rows, k[2], k[1]) /\ list.sound \in BOOLEAN
  <2>1. Looked(log, q) /\ FilesFit
    BY RequestFacts DEF CatalogueInv
  <2>2. Loaded(log, q.files, q.signature)
    BY <1>1, <2>1 DEF Looked
  <2>3. k[1] = q.signature
    BY DEF ListKey
  <2>4. log \in Seq(SUBSET Files) /\ log # <<>> /\ log[Len(log)] \subseteq disk
    BY <2>1, FilesFacts
  <2>5. list.rows = RowsFor(ItemsOf(q.files \cap disk), k[2]) /\ list.sound \in BOOLEAN
    OBVIOUS
  <2>6. ParsedFrom(log, RowsFor(ItemsOf(q.files \cap disk), k[2]), k[2], q.signature)
    <3> HIDE DEF list, k, g, D, q
    <3> QED BY <2>2, <2>4, ParsedNow
  <2> HIDE DEF list, k, q
  <2> QED BY <2>3, <2>5, <2>6
<1>7. LoadOf(q) = <<"lists", k>>
  BY <1>1 DEF LoadOf
<1> HIDE DEF list
<1>8. ASSUME NEW d \in D
      PROVE  /\ RequestFits(log, numberings, shared, public, request'[d])
             /\ request'[d].on = Unset
  <2> DEFINE p == request[d]
             r == [p EXCEPT !.on = Unset]
  <2>1. p.at \in {"parse", "published"} /\ ListKey(p) = k
    BY <1>1, SameLoad DEF CatalogueInv
  <2>2. RequestFits(log, numberings, shared, public, p) /\ IsRequest(p)
    BY RequestFacts DEF CatalogueInv
  <2>3. request'[d] = Parsed(r, list)
    BY <1>4
  <2>4. p.at \notin {"number"} \cup Assigning
    BY <2>1 DEF Assigning
  <2>5. ListKey(r) = ListKey(p)
    BY <2>2 DEF ListKey, IsRequest
  <2> HIDE DEF p, k
  <2>6. RequestFits(log, numberings, shared, public, r) /\ r.on = Unset /\ r.at = p.at
    BY <2>2, <2>4, OnFits
  <2> HIDE DEF r
  <2> QED BY <1>6, <2>1, <2>3, <2>5, <2>6, ParsedFits
<1>9. Requests'
  BY <1>1, <1>4, <1>5, <1>8, RequestsGoOn DEF CatalogueInv
<1>10. Waits' /\ \A o, l : Leads(request, o, l) /\ o # c => Leads(request', o, l)
  BY <1>4, <1>8, WaitsEnd DEF CatalogueInv
<1> HIDE DEF k, q
<1>11. /\ \A x \in DOMAIN caches.files : Stays(caches.files, caches.files, x, c)
       /\ \A x \in DOMAIN caches.lists :
            Stays(caches.lists, caches.lists, x, c) \/ x = k
       /\ \A x \in DOMAIN caches.numbered : Stays(caches.numbered, caches.numbered, x, c)
  BY <1>7, OneLoadsFor DEF CatalogueInv, q
<1>12. \A x \in DOMAIN g :
         Stays(caches.lists, g, x, c) \/ (x = k /\ g[x] = Settled(list))
  <2>1. \A x \in DOMAIN caches.lists : caches.lists[x].by = c => x = k
    BY <1>11 DEF Stays
  <2>2. CASE list.sound
    BY <2>1, <2>2, ResolvedFacts DEF Stays
  <2>3. CASE ~list.sound
    BY <2>1, <2>3, DroppedFacts DEF Stays
  <2> QED BY <2>2, <2>3
<1> HIDE DEF g
<1>13. /\ caches'.files = caches.files /\ caches'.lists = g
       /\ caches'.numbered = caches.numbered /\ caches'.keys = caches.keys
       /\ IsCaches(caches')
  BY <1>3 DEF CatalogueInv, CachesFit, IsCaches
<1>14. CachesFit'
  <2>1. \A x \in DOMAIN caches'.lists :
          \/ Stays(caches.lists, caches'.lists, x, c)
          \/ \E v : /\ caches'.lists[x] = Settled(v)
                    /\ ParsedFrom(log, v.rows, x[2], x[1]) /\ v.sound \in BOOLEAN
    BY <1>6, <1>12, <1>13
  <2>2. /\ \A x \in DOMAIN caches'.files : Stays(caches.files, caches'.files, x, c)
        /\ \A x \in DOMAIN caches'.numbered : Stays(caches.numbered, caches'.numbered, x, c)
        /\ \A x \in DOMAIN caches'.keys :
             x \in DOMAIN caches.keys /\ caches'.keys[x] = caches.keys[x]
    BY <1>11, <1>13
  <2>3. CachesFit /\ NumbersFit
    BY DEF CatalogueInv
  <2> QED BY <1>5, <1>10, <1>13, <2>1, <2>2, <2>3, CachesChange
<1> QED BY <1>5, <1>9, <1>10, <1>14 DEF CatalogueInv

-----------------------------------------------------------------------------
(* The requests get numbers                                                *)

\* Rows that were parsed under a signature were those of files that were there while
\* the request was served, and parsed under what it knew as well.
LEMMA ParsedWhileServed ==
  ASSUME FilesFit, IsInjective(log), NEW r, r.start \in Nat, Looked(log, r), r.at \in Signed,
         NEW R, ParsedFrom(log, R, r.active, r.signature)
  PROVE  /\ \E X \in SUBSET Files, j \in DOMAIN log :
              /\ R = RowsFor(ItemsOf(X), r.active)
              /\ r.start <= j /\ X \subseteq log[j] /\ (log[j] \ X) \cap Current = {}
         /\ r.op = "keys" => ParsedFrom(log, R, r.active, r.known)
<1>1. PICK X \in SUBSET Files : R = RowsFor(ItemsOf(X), r.active) /\ Seen(log, X, r.signature)
  BY DEF ParsedFrom
<1>2. PICK i, j \in DOMAIN log :
        /\ i <= j /\ log[i] = r.signature /\ X \subseteq log[j]
        /\ (log[j] \ X) \cap log[Len(log)] = {}
  BY <1>1 DEF Seen
<1>3. PICK l, k \in DOMAIN log :
        r.start <= k /\ k <= l /\ log[l] = r.signature /\ (r.op = "keys" => log[k] = r.known)
  BY DEF Looked
<1>4. l = i
  BY <1>2, <1>3 DEF IsInjective
<1>5. DOMAIN log \subseteq Nat /\ Current = log[Len(log)]
  BY FilesFacts
<1>6. k <= j /\ r.start <= j
  BY <1>2, <1>3, <1>4, <1>5
<1>7. r.op = "keys" => Seen(log, X, r.known)
  BY <1>2, <1>3, <1>6 DEF Seen
<1> QED BY <1>1, <1>2, <1>5, <1>6, <1>7 DEF ParsedFrom

\* What is kept as known rows was parsed under what the request knew.
LEMMA KnownFits ==
  ASSUME NEW D, NEW got, NEW L,
         \A d \in D : request[d].op = "keys" /\ IsInjective(L) =>
           ParsedFrom(L, DOMAIN got, request[d].active, request[d].known),
         NEW f
  PROVE  \A k \in DOMAIN Merged(KnownBy(D, got), f) :
           \/ k \in DOMAIN f /\ Merged(KnownBy(D, got), f)[k] = f[k]
           \/ IsInjective(L) =>
                ParsedFrom(L, DOMAIN Merged(KnownBy(D, got), f)[k], k[2], k[1])
<1> DEFINE g == KnownBy(D, got)
<1>1. ASSUME NEW k \in DOMAIN g
      PROVE  /\ g[k] = got
             /\ IsInjective(L) => ParsedFrom(L, DOMAIN got, k[2], k[1])
  <2>1. PICK d \in D : request[d].op = "keys" /\ k = KnownKey(request[d])
    BY DEF KnownBy
  <2>2. k[2] = request[d].active /\ k[1] = request[d].known
    BY <2>1 DEF KnownKey
  <2>3. g[k] = got
    BY DEF KnownBy
  <2> QED BY <2>1, <2>2, <2>3
<1> HIDE DEF g
<1>2. /\ DOMAIN Merged(g, f) = DOMAIN g \cup DOMAIN f
      /\ \A x \in DOMAIN g : Merged(g, f)[x] = g[x]
      /\ \A x \in DOMAIN f : x \notin DOMAIN g => Merged(g, f)[x] = f[x]
  BY MergedFacts
<1>3. \A k \in DOMAIN Merged(g, f) :
        \/ k \in DOMAIN f /\ Merged(g, f)[k] = f[k]
        \/ IsInjective(L) => ParsedFrom(L, DOMAIN Merged(g, f)[k], k[2], k[1])
  BY <1>1, <1>2
<1> QED BY <1>3 DEF g

\* The answer of numbers that were parsed for the load of c.
LEMMA AnswerFits ==
  ASSUME Requests, SharedFits, FilesFit, NumbersFit, NumbersGoOn, NEW c \in Clients,
         request[c].at \in Signed, NEW got,
         ParsedFrom(log, DOMAIN got, request[c].active, request[c].signature),
         request[c].stable = Unset \/ request[c].sound =>
           (IsInjective(numberings') =>
              \E k \in DOMAIN numberings' : request[c].since <= k /\ Agrees(got, numberings'[k])),
         NEW r, r = Served(request[c], got)
  PROVE  /\ RequestFits(log, numberings', shared, public, r) /\ r.on = Unset
         /\ request[c].op = "keys" /\ IsInjective(log) =>
              ParsedFrom(log, DOMAIN got, request[c].active, request[c].known)
<1>1. IsRequest(request[c]) /\ Looked(log, request[c])
  BY RequestFacts
<1>2. request[c].start \in Nat
  BY <1>1 DEF IsRequest
<1>3. IsInjective(log) =>
        /\ \E X \in SUBSET Files, j \in DOMAIN log :
             /\ DOMAIN got = RowsFor(ItemsOf(X), request[c].active)
             /\ request[c].start <= j /\ X \subseteq log[j] /\ (log[j] \ X) \cap Current = {}
        /\ request[c].op = "keys" =>
             ParsedFrom(log, DOMAIN got, request[c].active, request[c].known)
  BY <1>1, <1>2, ParsedWhileServed
<1>4. request[c].at \notin {"idle", "done"}
  BY DEF Signed, Listed, Assigning
<1>5. numberings = numberings' \/ \E n \in Numberings : numberings' = Append(numberings, n)
  BY DEF NumbersGoOn
<1>6. RequestFits(log, numberings', shared, public, r) /\ r.on = Unset
  BY <1>3, <1>4, <1>5, ServedFits
<1> QED BY <1>3, <1>6

\* A list may be numbered once a revision has been read.
Numbers(r, s) ==
  /\ s.op = r.op /\ s.start = r.start /\ s.since = r.since
  /\ s.active = r.active /\ s.published = r.published /\ s.version = r.version
  /\ s.known = r.known /\ s.signature = r.signature
  /\ s.revision = r.revision /\ s.rows = r.rows /\ s.stable = r.stable
  /\ s.sound = r.sound /\ s.expected = r.revision /\ s.fixed = r.fixed

LEMMA NumberedFrom ==
  ASSUME NEW L, NEW N, NEW H, NEW P, NEW r, RequestFits(L, N, H, P, r),
         r.at = "number", r.revision # Unset,
         NEW s, IsRequest(s), Numbers(r, s), s.on # Unset => s.sound,
         s.at \in {"number", "assign"}
  PROVE  RequestFits(L, N, H, P, s) /\ LoadOf(s) = LoadOf(r)
<1>1. /\ IsRequest(r) /\ Asked(L, N, H, P, r) /\ Looked(L, r) /\ HasRows(L, r)
      /\ HasNumbers(N, r)
  BY DEF RequestFits
<1>2. Asked(L, N, H, P, s)
  BY <1>1 DEF Asked, Numbers
<1>3. Looked(L, s) /\ HasRows(L, s)
  BY <1>1 DEF Looked, HasRows, Signed, Listed, Assigning, Numbers
<1>4. HasNumbers(N, s) /\ Answered(L, N, s)
  BY <1>1 DEF HasNumbers, Answered, Assigning, Numbers
<1>5. LoadOf(s) = LoadOf(r)
  BY DEF LoadOf, NumberedKey, Numbers
<1> QED BY <1>1, <1>2, <1>3, <1>4, <1>5 DEF RequestFits

LEMMA KeptByEnterNumbers ==
  ASSUME CatalogueInv, NEW c \in Clients, EnterNumbers(c)
  PROVE  CatalogueInv'
<1> DEFINE q == request[c]
           r == [q EXCEPT !.expected = q.revision, !.attempt = 1]
           k == NumberedKey(q, q.revision)
           e == caches.numbered[k]
           To(a, x) == [q EXCEPT !.expected = q.revision, !.attempt = 1, !.at = a, !.on = x]
<1>1. q.at = "number" /\ q.on = Unset /\ q.revision # Unset /\ Silent /\ StandsStill
  BY ReadsStands DEF EnterNumbers, At, Free
<1>2. RequestFits(log, numberings, shared, public, q) /\ IsRequest(q)
  BY RequestFacts DEF CatalogueInv
<1>3. c # Unset /\ CachesFit /\ NumbersFit /\ IsCaches(caches) /\ Requests /\ SharedFits /\ FilesFit
  BY AssumptionFacts DEF CatalogueInv, CachesFit
<1>4. NumberedKey(r, r.revision) = k /\ r.sound = q.sound
  BY <1>2 DEF NumberedKey, IsRequest
<1>5. /\ [r EXCEPT !.at = "assign"] = To("assign", Unset)
      /\ \A x : [r EXCEPT !.at = "assign", !.on = x] = To("assign", x)
      /\ \A x : [r EXCEPT !.on = x] = To("number", x)
      /\ \A v : Served(r, v) = Served(q, v)
  <2>1. /\ [r EXCEPT !.at = "assign"] = To("assign", Unset)
        /\ \A x : [r EXCEPT !.at = "assign", !.on = x] = To("assign", x)
        /\ \A x : [r EXCEPT !.on = x] = To("number", x)
    BY <1>1, <1>2 DEF IsRequest
  <2>2. /\ r.op = q.op /\ r.start = q.start /\ r.since = q.since /\ r.active = q.active
        /\ r.stable = q.stable /\ r.sound = q.sound
    BY <1>2 DEF IsRequest
  <2> HIDE DEF r, q
  <2>3. \A v : Served(r, v) = Served(q, v)
    BY <2>2 DEF Served
  <2> QED BY <2>1, <2>3 DEF r, q
<1>6. \/ /\ ~q.sound /\ Step(c, To("assign", Unset)) /\ UNCHANGED caches
      \/ /\ q.sound /\ k \notin DOMAIN caches.numbered
         /\ Step(c, To("assign", c))
         /\ caches' = [caches EXCEPT !.numbered = Put(caches.numbered, k, Loading(c))]
      \/ /\ q.sound /\ k \in DOMAIN caches.numbered /\ e.by # Unset
         /\ Step(c, To("number", e.by)) /\ UNCHANGED caches
      \/ /\ q.sound /\ k \in DOMAIN caches.numbered /\ e.by = Unset
         /\ Step(c, Served(q, e.value))
         /\ caches' = [caches EXCEPT !.keys = Merged(KnownBy({c}, e.value), caches.keys)]
  <2>1. LET K == NumberedKey(r, r.revision) IN
        \/ /\ ~r.sound /\ Step(c, [r EXCEPT !.at = "assign"]) /\ UNCHANGED caches
        \/ /\ r.sound /\ K \notin DOMAIN caches.numbered
           /\ Step(c, [r EXCEPT !.at = "assign", !.on = c])
           /\ caches' = [caches EXCEPT !.numbered = Put(caches.numbered, K, Loading(c))]
        \/ /\ r.sound /\ K \in DOMAIN caches.numbered
           /\ IF caches.numbered[K].by # Unset
                THEN Step(c, [r EXCEPT !.on = caches.numbered[K].by]) /\ UNCHANGED caches
                ELSE /\ Step(c, Served(r, caches.numbered[K].value))
                     /\ caches' = [caches EXCEPT !.keys =
                          Merged(KnownBy({c}, caches.numbered[K].value), caches.keys)]
    BY DEF EnterNumbers
  <2> HIDE DEF r, q, k, To
  <2> QED BY <1>4, <1>5, <2>1
<1>7. NumbersGoOn /\ UNCHANGED <<log, numberings>>
  BY <1>1 DEF StandsStill, NumbersGoOn
<1>8. request[c].on = Unset /\ q = request[c] /\ LoadOf(q) = <<"numbered", k>>
  BY <1>1 DEF LoadOf
<1>9. /\ \A x \in DOMAIN caches.files : Stays(caches.files, caches.files, x, c)
      /\ \A x \in DOMAIN caches.lists : Stays(caches.lists, caches.lists, x, c)
      /\ \A x \in DOMAIN caches.numbered : Stays(caches.numbered, caches.numbered, x, c)
  BY <1>3, <1>8, NothingLoadsFor
<1>10. ASSUME NEW a \in {"number", "assign"}, NEW x \in Clients \cup {Unset}, x # Unset => q.sound
       PROVE  /\ RequestFits(log, numberings, shared, public, To(a, x)) /\ To(a, x).on = x
              /\ To(a, x).at = a /\ LoadOf(To(a, x)) = LoadOf(q)
              /\ To(a, x).revision = q.revision
  <2> DEFINE s == To(a, x)
  <2>1. a \in Stages
    BY DEF Stages, Signed, Listed, Assigning
  <2>2. IsRequest(s)
    BY <1>2, <2>1 DEF IsRequest
  <2>3. s.at = a /\ s.on = x /\ Numbers(q, s) /\ s.revision = q.revision /\ s.sound = q.sound
    BY <1>2 DEF IsRequest, Numbers
  <2> HIDE DEF q, s, To
  <2>4. RequestFits(log, numberings, shared, public, s) /\ LoadOf(s) = LoadOf(q)
    BY <1>1, <1>2, <1>10, <2>2, <2>3, NumberedFrom
  <2> QED BY <2>3, <2>4 DEF s
<1>11. ParsedFrom(log, q.rows, q.active, q.signature) /\ k = <<q.signature, q.active, q.published, q.revision>>
  BY <1>1, <1>3, RequestFacts DEF HasRows, Listed, NumberedKey
<1> HIDE DEF q, r, k, To
<1>12. CASE ~q.sound /\ Step(c, To("assign", Unset)) /\ UNCHANGED caches
  <2> DEFINE s == To("assign", Unset)
  <2>1. RequestFits(log, numberings, shared, public, s) /\ s.on = Unset
    BY <1>10
  <2> HIDE DEF s
  <2>2. Step(c, s)
    BY <1>12 DEF s
  <2> QED BY <1>1, <1>8, <1>12, <2>1, <2>2, OneGoesOn
<1>13. CASE /\ q.sound /\ k \notin DOMAIN caches.numbered
            /\ Step(c, To("assign", c))
            /\ caches' = [caches EXCEPT !.numbered = Put(caches.numbered, k, Loading(c))]
  <2> DEFINE s == To("assign", c)
             g == Put(caches.numbered, k, Loading(c))
  <2>1. Step(c, s) /\ caches' = [caches EXCEPT !.numbered = g]
    BY <1>13
  <2>2. /\ RequestFits(log, numberings, shared, public, s) /\ s.on = c /\ s.at = "assign"
        /\ LoadOf(s) = LoadOf(q)
    BY <1>10, <1>13
  <2>3. /\ DOMAIN g = DOMAIN caches.numbered \cup {k} /\ g[k] = Loading(c)
        /\ \A x \in DOMAIN caches.numbered : g[x] = caches.numbered[x]
    BY <1>13 DEF Put, Merged
  <2> HIDE DEF s, g
  <2>4. request'[c] = s
    BY <1>3, <2>1, StepFacts
  <2>5. WaitFits(request', c) /\ Leads(request', c, <<"numbered", k>>)
    BY <1>8, <2>2, <2>4 DEF WaitFits, Leads, Assigning
  <2>6. /\ FilesFit' /\ SharedFits' /\ NumbersFit' /\ Requests' /\ Waits' /\ LeadsGoOn
    BY <1>1, <1>8, <2>1, <2>2, <2>5, OneGoesOn
  <2>7. /\ caches'.files = caches.files /\ caches'.lists = caches.lists
        /\ caches'.numbered = g /\ caches'.keys = caches.keys
        /\ IsCaches(caches')
    BY <1>3, <2>1 DEF IsCaches
  <2>8. CachesFit'
    <3>1. \A o, l : Leads(request, o, l) /\ o # c => Leads(request', o, l)
      BY <2>6 DEF LeadsGoOn
    <3>2. \A x \in DOMAIN caches'.numbered :
            \/ Stays(caches.numbered, caches'.numbered, x, c)
            \/ caches'.numbered[x] = Loading(c) /\ Leads(request', c, <<"numbered", x>>)
      BY <1>9, <2>3, <2>5, <2>7 DEF Stays
    <3>3. /\ \A x \in DOMAIN caches'.files : Stays(caches.files, caches'.files, x, c)
          /\ \A x \in DOMAIN caches'.lists : Stays(caches.lists, caches'.lists, x, c)
          /\ \A x \in DOMAIN caches'.keys :
               x \in DOMAIN caches.keys /\ caches'.keys[x] = caches.keys[x]
      BY <1>9, <2>7
    <3> QED BY <1>3, <1>7, <2>7, <3>1, <3>2, <3>3, CachesChange
  <2> QED BY <2>6, <2>8 DEF CatalogueInv
<1>14. CASE /\ q.sound /\ k \in DOMAIN caches.numbered /\ e.by # Unset
            /\ Step(c, To("number", e.by)) /\ UNCHANGED caches
  <2>1. e.by \in Clients /\ request[e.by].on = e.by /\ LoadOf(request[e.by]) = <<"numbered", k>>
    BY <1>3, <1>14 DEF CachesFit, LoadsFit, IsEntry, Leads
  <2>2. Step(c, To("number", e.by)) /\ UNCHANGED caches
    BY <1>14
  <2> HIDE DEF e
  <2> DEFINE s == To("number", e.by)
  <2>3. /\ RequestFits(log, numberings, shared, public, s) /\ s.on = e.by /\ s.at = "number"
        /\ LoadOf(s) = LoadOf(q) /\ s.revision = q.revision
    BY <1>10, <1>14, <2>1
  <2>4. Step(c, s)
    BY <2>2
  <2> HIDE DEF s
  <2>5. e.by # c
    BY <1>3, <1>8, <2>1
  <2>6. request'[c] = s /\ request'[e.by] = request[e.by]
    BY <1>3, <2>1, <2>4, <2>5, StepFacts
  <2>7. WaitFits(request', c)
    BY <1>1, <1>8, <2>1, <2>3, <2>5, <2>6 DEF WaitFits, Assigning
  <2> QED BY <1>1, <1>8, <2>2, <2>3, <2>4, <2>7, OneGoesOn
<1>15. CASE /\ q.sound /\ k \in DOMAIN caches.numbered /\ e.by = Unset
            /\ Step(c, Served(q, e.value))
            /\ caches' = [caches EXCEPT !.keys = Merged(KnownBy({c}, e.value), caches.keys)]
  <2> DEFINE got == e.value
             s == Served(q, got)
             g == Merged(KnownBy({c}, got), caches.keys)
  <2>1. /\ ParsedFrom(log, DOMAIN got, q.active, q.signature)
        /\ IsInjective(numberings) => Agrees(got, q.revision)
    <3>1. k[1] = q.signature /\ k[2] = q.active /\ k[4] = q.revision
      BY <1>11
    <3> QED BY <1>3, <1>15, <3>1 DEF CachesFit, ValuesFit
  <2>2. Step(c, s) /\ caches' = [caches EXCEPT !.keys = g]
    BY <1>15
  <2> HIDE DEF got, e
  <2>3. \E n \in DOMAIN numberings : q.since <= n /\ numberings[n] = q.revision
    BY <1>1, <1>2 DEF RequestFits, HasNumbers
  <2>4. request[c].at \in Signed
    BY <1>1, <1>8 DEF Signed, Listed
  <2>5. IsInjective(numberings') =>
          \E n \in DOMAIN numberings' : q.since <= n /\ Agrees(got, numberings'[n])
    BY <1>7, <2>1, <2>3
  <2>6. /\ RequestFits(log, numberings', shared, public, s) /\ s.on = Unset
        /\ q.op = "keys" /\ IsInjective(log) =>
             ParsedFrom(log, DOMAIN got, q.active, q.known)
    BY <1>3, <1>7, <1>8, <2>1, <2>4, <2>5, AnswerFits
  <2> HIDE DEF s
  <2>7. /\ FilesFit' /\ SharedFits' /\ NumbersFit' /\ Requests' /\ Waits' /\ LeadsGoOn
    BY <1>1, <1>7, <1>8, <2>2, <2>6, OneGoesOn
  <2>8. \A x \in DOMAIN g :
          \/ x \in DOMAIN caches.keys /\ g[x] = caches.keys[x]
          \/ IsInjective(log) => ParsedFrom(log, DOMAIN g[x], x[2], x[1])
    <3>1. \A d \in {c} : request[d].op = "keys" /\ IsInjective(log) =>
            ParsedFrom(log, DOMAIN got, request[d].active, request[d].known)
      BY <1>8, <2>6
    <3> QED BY <3>1, KnownFits
  <2> HIDE DEF g
  <2>9. /\ caches'.files = caches.files /\ caches'.lists = caches.lists
        /\ caches'.numbered = caches.numbered /\ caches'.keys = g
        /\ IsCaches(caches')
    BY <1>3, <2>2 DEF IsCaches
  <2>10. CachesFit'
    <3>1. \A o, l : Leads(request, o, l) /\ o # c => Leads(request', o, l)
      BY <2>7 DEF LeadsGoOn
    <3>2. /\ \A x \in DOMAIN caches'.files : Stays(caches.files, caches'.files, x, c)
          /\ \A x \in DOMAIN caches'.lists : Stays(caches.lists, caches'.lists, x, c)
          /\ \A x \in DOMAIN caches'.numbered : Stays(caches.numbered, caches'.numbered, x, c)
      BY <1>9, <2>9
    <3>3. \A x \in DOMAIN caches'.keys :
            \/ x \in DOMAIN caches.keys /\ caches'.keys[x] = caches.keys[x]
            \/ IsInjective(log) => ParsedFrom(log, DOMAIN caches'.keys[x], x[2], x[1])
      BY <2>8, <2>9
    <3> QED BY <1>3, <1>7, <2>9, <3>1, <3>2, <3>3, CachesChange
  <2> QED BY <2>7, <2>10 DEF CatalogueInv
<1> QED BY <1>6, <1>12, <1>13, <1>14, <1>15

\* A step of the numbers may add a numbering, and leaves the rest as it is.
NumbersStep ==
  /\ NumbersGoOn /\ NumbersFit'
  /\ UNCHANGED <<log, disk, pending, shared, public>>

LEMMA NumbersStepFacts ==
  ASSUME CatalogueInv, NumbersStep
  PROVE  /\ FilesFit' /\ SharedFits' /\ NumbersFit' /\ NumbersGoOn
         /\ UNCHANGED <<log, shared, public>>
         /\ numbers' \in Numberings /\ IsInjective(numbers')
         /\ numbers' = numberings'[Len(numberings')]
         /\ DOMAIN numberings' = 1..Len(numberings') /\ Len(numberings') \in DOMAIN numberings'
         /\ DOMAIN numberings \subseteq DOMAIN numberings'
<1>1. FilesFit' /\ SharedFits'
  BY DEF NumbersStep, CatalogueInv, FilesFit, SharedFits, Current
<1>2. /\ numbers' \in Numberings /\ IsInjective(numbers')
      /\ numbers' = numberings'[Len(numberings')]
      /\ DOMAIN numberings' = 1..Len(numberings') /\ Len(numberings') \in DOMAIN numberings'
  BY DEF NumbersStep, NumbersFit, numbers
<1>3. DOMAIN numberings \subseteq DOMAIN numberings'
  <2>1. CASE numberings' = numberings
    BY <2>1
  <2>2. CASE \E n \in Numberings : numberings' = Append(numberings, n)
    BY <2>2, NumbersFacts, AppendFacts DEF CatalogueInv
  <2> QED BY <2>1, <2>2 DEF NumbersStep, NumbersGoOn
<1> QED BY <1>1, <1>2, <1>3 DEF NumbersStep

\* A request goes on with its numbers.
LEMMA AssigningGoesOn ==
  ASSUME CatalogueInv, Silent, NumbersStep, UNCHANGED caches, NEW c \in Clients,
         request[c].at \in Assigning, NEW r, Step(c, r),
         RequestFits(log, numberings', shared, public, r),
         r.on = request[c].on, r.at \in Assigning, LoadOf(r) = LoadOf(request[c])
  PROVE  CatalogueInv'
<1>1. /\ FilesFit' /\ SharedFits' /\ NumbersFit' /\ NumbersGoOn
      /\ UNCHANGED <<log, shared, public>>
  BY NumbersStepFacts
<1>2. Waits' /\ LeadsGoOn
  BY WaitsGoOn DEF CatalogueInv
<1>3. Requests'
  <2>1. /\ request' = [d \in Clients |-> request'[d]]
        /\ request'[c] = r /\ \A d \in Clients \ {c} : request'[d] = request[d]
    BY StepFacts DEF CatalogueInv
  <2>2. {c} \in SUBSET Clients
        /\ \A d \in {c} : RequestFits(log', numberings', shared', public', request'[d])
    BY <1>1, <2>1
  <2> QED BY <1>1, <2>1, <2>2, RequestsGoOn DEF CatalogueInv
<1>4. CachesFit'
  BY <1>1, <1>2, CachesStay DEF CatalogueInv
<1> QED BY <1>1, <1>2, <1>3, <1>4 DEF CatalogueInv

\* The numbers of a list are complete.
LEMMA NumberedKeeps ==
  ASSUME CatalogueInv, Silent, NumbersStep, NEW c \in Clients, request[c].at \in Assigning,
         NEW got, NEW revision, Numbered(c, got, revision),
         ParsedFrom(log, DOMAIN got, request[c].active, request[c].signature),
         request[c].stable = Unset \/ request[c].sound =>
           (IsInjective(numberings') => Agrees(got, numbers')),
         request[c].on # Unset => revision = numbers'
  PROVE  CatalogueInv'
<1> DEFINE q == request[c]
           D == IF Owns(c) THEN {d \in Clients : request[d].on = c} ELSE {c}
           k == NumberedKey(q, q.revision)
           new == NumberedKey(q, revision)
           f == Promoted(caches.numbered, k, new, c, got)
           g == Merged(KnownBy(D, got), caches.keys)
<1>1. /\ request' = [d \in Clients |-> IF d \in D THEN Served(request[d], got) ELSE request[d]]
      /\ caches' = [caches EXCEPT !.numbered = f, !.keys = g]
  BY DEF Numbered
<1>2. /\ FilesFit' /\ SharedFits' /\ NumbersFit' /\ NumbersGoOn
      /\ UNCHANGED <<log, shared, public>>
      /\ numbers' = numberings'[Len(numberings')]
      /\ DOMAIN numberings' = 1..Len(numberings') /\ Len(numberings') \in DOMAIN numberings'
      /\ DOMAIN numberings \subseteq DOMAIN numberings'
  BY NumbersStepFacts
<1>3. /\ c # Unset /\ CachesFit /\ NumbersFit /\ IsCaches(caches)
      /\ Requests /\ SharedFits /\ FilesFit /\ Waits
  BY AssumptionFacts DEF CatalogueInv, CachesFit
<1>4. HasNumbers(numberings, q) /\ LoadOf(q) = <<"numbered", k>>
  <2>1. HasNumbers(numberings, q)
    BY <1>3, RequestFacts
  <2>2. LoadOf(q) = <<"numbered", k>>
    BY DEF LoadOf, Assigning
  <2> QED BY <2>1, <2>2
<1>5. D \in SUBSET Clients /\ c \in D /\ (Owns(c) => D = {d \in Clients : request[d].on = c})
      /\ (~Owns(c) => D = {c})
  BY DEF Owns
<1>6. q.on # Unset => q.on = c /\ q.sound
  <2>1. q.on # Unset => q.on = c
    BY <1>3 DEF Waits, WaitFits
  <2> QED BY <1>4, <2>1 DEF HasNumbers
<1> HIDE DEF D, k, new, f, g
<1>7. ASSUME NEW d \in D
      PROVE  /\ RequestFits(log, numberings', shared, public, Served(request[d], got))
             /\ Served(request[d], got).on = Unset
             /\ request[d].op = "keys" /\ IsInjective(log) =>
                  ParsedFrom(log, DOMAIN got, request[d].active, request[d].known)
  <2> DEFINE p == request[d]
             s == Served(p, got)
  <2>1. d \in Clients /\ p.at \in {"number"} \cup Assigning
        /\ p.signature = q.signature /\ p.active = q.active
    <3>1. CASE d = c
      BY <1>5, <3>1
    <3>2. CASE d # c
      <4>1. Owns(c) /\ d \in Clients /\ p.on = c
        BY <1>5, <3>2
      <4>2. p.at \in {"number"} \cup Assigning
            /\ NumberedKey(p, p.revision) = NumberedKey(q, q.revision)
        BY <1>3, <4>1, SameLoad DEF Owns
      <4> QED BY <4>1, <4>2 DEF NumberedKey
    <3> QED BY <3>1, <3>2
  <2>2. p.at \in Signed
    BY <2>1 DEF Signed, Listed
  <2>3. p.since \in DOMAIN numberings
    <3>1. Asked(log, numberings, shared, public, p)
      BY <1>3, <2>1, RequestFacts
    <3> QED BY <2>2, <3>1 DEF Asked, Signed, Listed, Assigning
  <2>4. p.stable = Unset \/ p.sound =>
          (IsInjective(numberings') =>
             \E n \in DOMAIN numberings' : p.since <= n /\ Agrees(got, numberings'[n]))
    <3>1. p.stable = Unset \/ p.sound => q.stable = Unset \/ q.sound
      <4>1. CASE d = c
        BY <4>1
      <4>2. CASE d # c
        BY <1>3, <1>5, <1>6, <4>2 DEF Owns
      <4> QED BY <4>1, <4>2
    <3>2. p.since <= Len(numberings')
      BY <1>2, <2>3
    <3> QED BY <1>2, <3>1, <3>2
  <2>5. ParsedFrom(log, DOMAIN got, p.active, p.signature)
    BY <2>1
  <2> HIDE DEF s
  <2>6. /\ RequestFits(log, numberings', shared, public, s) /\ s.on = Unset
        /\ p.op = "keys" /\ IsInjective(log) =>
             ParsedFrom(log, DOMAIN got, p.active, p.known)
    BY <1>2, <1>3, <2>1, <2>2, <2>4, <2>5, AnswerFits DEF s
  <2> QED BY <2>6 DEF s
<1>8. /\ request' = [d \in Clients |-> request'[d]]
      /\ \A d \in Clients \ D : request'[d] = request[d]
      /\ \A d \in D : request'[d] = Served(request[d], got)
  BY <1>1, <1>5
<1>9. \A d \in D : /\ RequestFits(log', numberings', shared', public', request'[d])
                   /\ request'[d].on = Unset
  BY <1>2, <1>7, <1>8
<1>10. Requests'
  BY <1>2, <1>3, <1>5, <1>8, <1>9, RequestsGoOn
<1>11. Waits' /\ \A o, l : Leads(request, o, l) /\ o # c => Leads(request', o, l)
  <2>1. CASE Owns(c)
    BY <1>3, <1>5, <1>8, <1>9, <2>1, WaitsEnd
  <2>2. CASE ~Owns(c)
    <3>1. q.on = Unset /\ D = {c}
      BY <1>5, <1>6, <2>2 DEF Owns
    <3>2. \A d \in Clients : request[d].on \in D => d \in D
      BY <1>3, <3>1 DEF Waits, WaitFits
    <3>3. \A d \in Clients : WaitFits(request, d)
      BY <1>3 DEF Waits
    <3>4. /\ \A d \in Clients : WaitFits(request', d)
          /\ \A o, l : Leads(request, o, l) /\ o \notin D => Leads(request', o, l)
      BY <1>5, <1>8, <1>9, <3>2, <3>3, WaitsWhenReleased
    <3> QED BY <3>1, <3>4 DEF Waits
  <2> QED BY <2>1, <2>2
<1>12. /\ \A x \in DOMAIN caches.files : Stays(caches.files, caches.files, x, c)
       /\ \A x \in DOMAIN caches.lists : Stays(caches.lists, caches.lists, x, c)
       /\ \A x \in DOMAIN caches.numbered :
            Stays(caches.numbered, caches.numbered, x, c) \/ x = k
  BY <1>3, <1>4, OneLoadsFor
<1>13. \A x \in DOMAIN f :
         \/ Stays(caches.numbered, f, x, c)
         \/ /\ f[x] = Settled(got) /\ ParsedFrom(log, DOMAIN got, x[2], x[1])
            /\ IsInjective(numberings') => Agrees(got, x[4])
  <2>1. \A x \in DOMAIN caches.numbered : caches.numbered[x].by = c => x = k
    BY <1>12 DEF Stays
  <2>2. \A x \in DOMAIN f :
          \/ Stays(caches.numbered, f, x, c)
          \/ x = new /\ f[x] = Settled(got) /\ Holding(caches.numbered, k, c)
    BY <2>1, PromotedFacts DEF f, Stays
  <2>3. new[1] = q.signature /\ new[2] = q.active /\ new[4] = revision
    BY DEF new, NumberedKey
  <2>4. Holding(caches.numbered, k, c) => q.on = c
    BY <1>3, EntriesOf DEF Holding, CachesFit
  <2>5. Holding(caches.numbered, k, c) /\ IsInjective(numberings') => Agrees(got, revision)
    BY <1>3, <1>6, <2>4
  <2> QED BY <2>2, <2>3, <2>5
<1>14. \A x \in DOMAIN g :
         \/ x \in DOMAIN caches.keys /\ g[x] = caches.keys[x]
         \/ IsInjective(log) => ParsedFrom(log, DOMAIN g[x], x[2], x[1])
  <2>1. \A d \in D : request[d].op = "keys" /\ IsInjective(log) =>
          ParsedFrom(log, DOMAIN got, request[d].active, request[d].known)
    BY <1>7
  <2> QED BY <2>1, KnownFits DEF g
<1>15. /\ caches'.files = caches.files /\ caches'.lists = caches.lists
       /\ caches'.numbered = f /\ caches'.keys = g
       /\ IsCaches(caches')
  BY <1>1, <1>3 DEF IsCaches
<1>16. CachesFit'
  <2>1. \A x \in DOMAIN caches'.numbered :
          \/ Stays(caches.numbered, caches'.numbered, x, c)
          \/ \E v : /\ caches'.numbered[x] = Settled(v)
                    /\ ParsedFrom(log, DOMAIN v, x[2], x[1])
                    /\ IsInjective(numberings') => Agrees(v, x[4])
    BY <1>13, <1>15
  <2>2. /\ \A x \in DOMAIN caches'.files : Stays(caches.files, caches'.files, x, c)
        /\ \A x \in DOMAIN caches'.lists : Stays(caches.lists, caches'.lists, x, c)
        /\ \A x \in DOMAIN caches'.keys :
             \/ x \in DOMAIN caches.keys /\ caches'.keys[x] = caches.keys[x]
             \/ IsInjective(log) => ParsedFrom(log, DOMAIN caches'.keys[x], x[2], x[1])
    BY <1>12, <1>14, <1>15
  <2> QED BY <1>2, <1>3, <1>11, <1>15, <2>1, <2>2, CachesChange
<1> QED BY <1>2, <1>10, <1>11, <1>16 DEF CatalogueInv

\* What a request keeps of itself while it gets numbers.
GoesOn(r, s) ==
  /\ s.on = r.on /\ s.op = r.op /\ s.start = r.start /\ s.since = r.since
  /\ s.active = r.active /\ s.published = r.published /\ s.version = r.version
  /\ s.known = r.known /\ s.signature = r.signature
  /\ s.revision = r.revision /\ s.rows = r.rows /\ s.stable = r.stable /\ s.sound = r.sound

LEMMA AssigningFits ==
  ASSUME NEW L, NEW N, NEW H, NEW P, NEW r, RequestFits(L, N, H, P, r), r.at \in Assigning,
         NEW s, IsRequest(s), GoesOn(r, s), s.at \in Assigning,
         HasNumbers(N, s)
  PROVE  RequestFits(L, N, H, P, s) /\ LoadOf(s) = LoadOf(r)
<1>1. /\ IsRequest(r) /\ Asked(L, N, H, P, r) /\ Looked(L, r) /\ HasRows(L, r)
      /\ HasNumbers(N, r)
  BY DEF RequestFits
<1>2. Asked(L, N, H, P, s)
  BY <1>1 DEF Asked, Assigning, GoesOn
<1>3. Looked(L, s)
  BY <1>1 DEF Looked, Signed, Listed, Assigning, GoesOn
<1>4. HasRows(L, s)
  BY <1>1 DEF HasRows, Signed, Listed, Assigning, GoesOn
<1>5. Answered(L, N, s)
  BY DEF Answered, Assigning
<1>6. LoadOf(s) = LoadOf(r)
  BY DEF LoadOf, Assigning, NumberedKey, GoesOn
<1> QED BY <1>1, <1>2, <1>3, <1>4, <1>5, <1>6 DEF RequestFits

LEMMA FitsAcross ==
  ASSUME CatalogueInv, NumbersStep, NEW c \in Clients, request[c].at \in Assigning
  PROVE  RequestFits(log, numberings', shared, public, request[c])
<1>1. RequestFits(log, numberings, shared, public, request[c]) /\ request[c].at # "done"
  BY RequestFacts DEF CatalogueInv, Assigning
<1>2. CASE numberings' = numberings
  BY <1>1, <1>2
<1>3. CASE \E n \in Numberings : numberings' = Append(numberings, n)
  BY <1>1, <1>3, NumbersFacts, FitsAfterNumbers DEF CatalogueInv
<1> QED BY <1>2, <1>3 DEF NumbersStep, NumbersGoOn

\* Numbers that stay are for rows that all readers have seen.
LEMMA TargetFits ==
  ASSUME CatalogueInv, NEW c \in Clients, request[c].at \in Assigning
  PROVE  /\ Target(request[c]) \in SUBSET AllRows /\ Target(request[c]) \subseteq PublicRows
         /\ request[c].rows \in SUBSET AllRows
         /\ ParsedFrom(log, request[c].rows, request[c].active, request[c].signature)
<1> DEFINE q == request[c]
<1>1. /\ IsRequest(q) /\ Asked(log, numberings, shared, public, q) /\ HasRows(log, q)
  BY RequestFacts DEF CatalogueInv
<1>2. q.active \in SUBSET Parts /\ q.published \in SUBSET Parts
  BY <1>1 DEF IsRequest
<1>3. q.published \in public
  BY <1>1 DEF Asked, Assigning
<1> HIDE DEF q
<1>4. ParsedFrom(log, q.rows, q.active, q.signature)
  BY <1>1 DEF HasRows, Listed, q
<1>5. PICK Y \in SUBSET Files : Target(q) = RowsFor(ItemsOf(Y), q.published)
  <2>1. CASE q.stable = Unset
    <3>1. q.active = q.published
      BY <1>1, <2>1 DEF HasRows, q
    <3> QED BY <1>4, <2>1, <3>1 DEF ParsedFrom, Target
  <2>2. CASE q.stable # Unset
    BY <1>1, <2>2 DEF HasRows, Target, q
  <2> QED BY <2>1, <2>2
<1>6. Target(q) \subseteq RowsFor(ItemsOf(Files), q.published)
  BY <1>5, RowsForMono DEF ItemsOf
<1>7. Target(q) \subseteq PublicRows
  BY <1>3, <1>6, Zenon DEF PublicRows
<1> QED BY <1>2, <1>4, <1>5, <1>7, RowsForIn, ParsedTyped DEF q

\* What follows an assignment.
LEMMA AssignedKeeps ==
  ASSUME CatalogueInv, Silent, NumbersStep, NEW c \in Clients,
         request[c].at \in {"assign", "lock"},
         NEW got, NEW revision, Assigned(c, got, revision),
         DOMAIN got = Target(request[c]), Agrees(got, numbers'),
         revision \in {Unset, numbers'}
  PROVE  CatalogueInv'
<1> DEFINE q == request[c]
<1>1. /\ RequestFits(log, numberings', shared, public, q) /\ q.at \in Assigning
      /\ IsRequest(q) /\ HasNumbers(numberings', q)
  BY FitsAcross DEF Assigning, RequestFits
<1>2. /\ numbers' = numberings'[Len(numberings')]
      /\ Len(numberings') \in DOMAIN numberings'
  BY NumbersStepFacts
<1>3. \/ /\ q.stable # Unset
         /\ Step(c, [q EXCEPT !.at = "provisional", !.fixed = revision])
         /\ UNCHANGED caches
      \/ /\ q.stable = Unset /\ q.sound /\ revision = Unset
         /\ Step(c, [q EXCEPT !.at = "check", !.got = got])
         /\ UNCHANGED caches
      \/ /\ q.stable = Unset /\ (~q.sound \/ revision # Unset)
         /\ Numbered(c, got, revision)
  BY DEF Assigned
<1>4. \E k \in DOMAIN numberings' : numberings'[k] = q.expected
  BY <1>1 DEF HasNumbers
<1>5. CASE /\ q.stable # Unset
           /\ Step(c, [q EXCEPT !.at = "provisional", !.fixed = revision])
           /\ UNCHANGED caches
  <2> DEFINE s == [q EXCEPT !.at = "provisional", !.fixed = revision]
  <2>1. IsRequest(s)
    BY <1>1 DEF IsRequest, Stages, Signed, Listed, Assigning
  <2>2. /\ q = request[c] /\ GoesOn(q, s) /\ s.at = "provisional" /\ s.at \in Assigning /\ s.fixed = revision
        /\ s.expected = q.expected /\ s.stable = q.stable /\ s.on = q.on
    BY <1>1 DEF IsRequest, GoesOn, Assigning
  <2>3. Step(c, s)
    BY <1>5
  <2> HIDE DEF s, q
  <2>4. HasNumbers(numberings', s)
    BY <1>1, <1>2, <1>4, <1>5, <2>2 DEF HasNumbers, GoesOn, Assigning
  <2>5. RequestFits(log, numberings', shared, public, s) /\ LoadOf(s) = LoadOf(q)
    BY <1>1, <2>1, <2>2, <2>4, AssigningFits
  <2> QED BY <1>1, <1>5, <2>2, <2>3, <2>5, AssigningGoesOn
<1>6. CASE /\ q.stable = Unset /\ q.sound /\ revision = Unset
           /\ Step(c, [q EXCEPT !.at = "check", !.got = got])
           /\ UNCHANGED caches
  <2> DEFINE s == [q EXCEPT !.at = "check", !.got = got]
  <2>1. IsRequest(s)
    BY <1>1 DEF IsRequest, Stages, Signed, Listed, Assigning
  <2>2. /\ q = request[c] /\ GoesOn(q, s) /\ s.at = "check" /\ s.at \in Assigning /\ s.fixed = q.fixed
        /\ s.expected = q.expected /\ s.got = got /\ s.rows = q.rows /\ s.on = q.on
    BY <1>1 DEF IsRequest, GoesOn, Assigning
  <2>3. Step(c, s)
    BY <1>6
  <2>4. DOMAIN got = q.rows
    BY <1>6 DEF Target
  <2>5. q.fixed # Unset => \E k \in DOMAIN numberings' : numberings'[k] = q.fixed
    BY <1>1 DEF HasNumbers
  <2> HIDE DEF s, q
  <2>6. HasNumbers(numberings', s)
    BY <1>1, <1>2, <1>4, <2>2, <2>4, <2>5 DEF HasNumbers, GoesOn, Assigning
  <2>7. RequestFits(log, numberings', shared, public, s) /\ LoadOf(s) = LoadOf(q)
    BY <1>1, <2>1, <2>2, <2>6, AssigningFits
  <2> QED BY <1>1, <1>6, <2>2, <2>3, <2>7, AssigningGoesOn
<1>7. CASE /\ q.stable = Unset /\ (~q.sound \/ revision # Unset)
           /\ Numbered(c, got, revision)
  <2>1. ParsedFrom(log, DOMAIN got, q.active, q.signature)
    BY <1>1, <1>7, TargetFits DEF Target
  <2>2. q.on # Unset => revision = numbers'
    BY <1>1, <1>7 DEF HasNumbers
  <2> QED BY <1>1, <1>7, <2>1, <2>2, NumberedKeeps
<1> QED BY <1>3, <1>5, <1>6, <1>7

\* A step that reads the numbers.
LEMMA ReadsNumbers ==
  ASSUME CatalogueInv, Reads
  PROVE  /\ Silent /\ NumbersStep /\ numbers' = numbers /\ numberings' = numberings
         /\ numbers \in Numberings /\ IsInjective(numbers)
         /\ numbers = numberings[Len(numberings)] /\ Len(numberings) \in DOMAIN numberings
<1>1. Silent /\ NumbersStep /\ numbers' = numbers /\ numberings' = numberings
  BY DEF Reads, NumbersStep, NumbersGoOn, CatalogueInv, NumbersFit, PublicRows, numbers
<1> QED BY <1>1, NumbersFacts DEF CatalogueInv

LEMMA KeptByAssign ==
  ASSUME CatalogueInv, NEW c \in Clients, Assign(c)
  PROVE  CatalogueInv'
<1> DEFINE q == request[c]
           T == Target(q)
<1>1. q.at = "assign" /\ q.at \in Assigning /\ Reads
  BY DEF Assign, At, Assigning
<1>2. /\ Silent /\ NumbersStep /\ numbers' = numbers /\ numberings' = numberings
      /\ numbers \in Numberings /\ IsInjective(numbers)
  BY <1>1, ReadsNumbers
<1>3. /\ RequestFits(log, numberings', shared, public, q)
      /\ IsRequest(q) /\ HasNumbers(numberings', q)
  BY <1>1, <1>2, FitsAcross DEF RequestFits
<1>4. CASE T \subseteq DOMAIN numbers
  <2>1. Assigned(c, Restrict(numbers, T), Unset)
    BY <1>4 DEF Assign
  <2>2. DOMAIN Restrict(numbers, T) = T /\ Agrees(Restrict(numbers, T), numbers)
    BY <1>2, <1>4, RestrictedAgrees
  <2> QED BY <1>1, <1>2, <2>1, <2>2, AssignedKeeps
<1>5. CASE ~ (T \subseteq DOMAIN numbers)
  <2> DEFINE s == [q EXCEPT !.at = "lock"]
  <2>1. Step(c, s) /\ UNCHANGED caches
    BY <1>5 DEF Assign
  <2>2. IsRequest(s)
    BY <1>3 DEF IsRequest, Stages, Signed, Listed, Assigning
  <2>3. /\ q = request[c] /\ GoesOn(q, s) /\ s.at = "lock" /\ s.at \in Assigning
        /\ s.fixed = q.fixed /\ s.expected = q.expected /\ s.on = q.on
    BY <1>3 DEF IsRequest, GoesOn, Assigning
  <2> HIDE DEF s, q
  <2>4. HasNumbers(numberings', s)
    BY <1>1, <1>3, <2>3 DEF HasNumbers, GoesOn, Assigning
  <2>5. RequestFits(log, numberings', shared, public, s) /\ LoadOf(s) = LoadOf(q)
    BY <1>1, <1>3, <2>2, <2>3, <2>4, AssigningFits
  <2> QED BY <1>1, <1>2, <2>1, <2>3, <2>5, AssigningGoesOn
<1> QED BY <1>4, <1>5

\* Numbers are added under the lock.
LEMMA KeptByAssignLocked ==
  ASSUME CatalogueInv, NEW c \in Clients, AssignLocked(c)
  PROVE  CatalogueInv'
<1> DEFINE q == request[c]
           T == Target(q)
           n == Appended(numbers, T, Highest(numbers))
<1>1. /\ q.at = "lock" /\ q.at \in Assigning /\ Silent /\ Renumbered(n)
      /\ Assigned(c, Restrict(n, T), n)
      /\ UNCHANGED <<log, disk, pending, shared, public>>
  BY DEF AssignLocked, At, Assigning
<1>2. /\ numbers \in Numberings /\ IsInjective(numbers)
      /\ numberings \in Seq(Numberings) /\ numberings # <<>>
      /\ DOMAIN numbers \subseteq PublicRows
  BY NumbersFacts DEF CatalogueInv, NumbersFit
<1>3. T \in SUBSET AllRows /\ T \subseteq PublicRows
  BY <1>1, TargetFits
<1>4. n \in Numberings /\ IsInjective(n) /\ DOMAIN n = DOMAIN numbers \cup T
  BY <1>2, <1>3, HighestIsAbove, AppendedFits
<1> HIDE DEF n, T, q
<1>5. /\ NumbersGoOn /\ numberings' \in Seq(Numberings) /\ numberings' # <<>>
      /\ numbers' = n
  <2>1. CASE n = numbers
    <3>1. numberings' = numberings
      BY <1>1, <2>1 DEF Renumbered
    <3> QED BY <1>2, <2>1, <3>1 DEF NumbersGoOn, numbers
  <2>2. CASE n # numbers
    <3>1. numberings' = Append(numberings, n)
      BY <1>1, <2>2 DEF Renumbered
    <3>2. /\ numberings' \in Seq(Numberings) /\ numberings' # <<>>
          /\ numberings'[Len(numberings')] = n
      BY <1>2, <1>4, <3>1, AppendFacts
    <3> QED BY <1>4, <3>1, <3>2 DEF NumbersGoOn, numbers
  <2> QED BY <2>1, <2>2
<1>6. NumbersStep
  <2>1. DOMAIN numbers' \subseteq PublicRows'
    BY <1>1, <1>2, <1>3, <1>4, <1>5 DEF PublicRows
  <2> QED BY <1>1, <1>4, <1>5, <2>1 DEF NumbersStep, NumbersFit
<1>7. DOMAIN Restrict(n, T) = T /\ Agrees(Restrict(n, T), n)
  BY <1>4, RestrictedAgrees
<1>8. q = request[c] /\ T = Target(request[c])
  BY DEF q, T
<1> QED BY <1>1, <1>5, <1>6, <1>7, <1>8, AssignedKeeps

\* Numbers for now are complete.
LEMMA CompleteKeeps ==
  ASSUME CatalogueInv, Silent, NumbersStep, NEW c \in Clients,
         request[c].at \in {"provisional", "highest"},
         NEW got, Complete(c, got), DOMAIN got = request[c].rows,
         IsInjective(numberings') /\ numbers' = Expected(request[c]) => Agrees(got, numbers')
  PROVE  CatalogueInv'
<1> DEFINE q == request[c]
<1>1. /\ RequestFits(log, numberings', shared, public, q) /\ q.at \in Assigning
      /\ IsRequest(q) /\ HasNumbers(numberings', q)
  BY FitsAcross DEF Assigning, RequestFits
<1>2. numbers' = numberings'[Len(numberings')]
  BY NumbersStepFacts
<1>3. CASE q.sound
  <2> DEFINE s == [q EXCEPT !.at = "check", !.got = got]
  <2>1. Step(c, s) /\ UNCHANGED caches
    BY <1>3 DEF Complete
  <2>2. IsRequest(s)
    BY <1>1 DEF IsRequest, Stages, Signed, Listed, Assigning
  <2>3. /\ q = request[c] /\ GoesOn(q, s) /\ s.at = "check" /\ s.at \in Assigning
        /\ s.fixed = q.fixed /\ s.expected = q.expected /\ s.on = q.on
        /\ s.got = got /\ s.rows = q.rows
    BY <1>1 DEF IsRequest, GoesOn, Assigning
  <2> HIDE DEF s, q
  <2>4. Expected(s) = Expected(q)
    BY <2>3 DEF Expected
  <2>5. HasNumbers(numberings', s)
    BY <1>1, <1>2, <2>3, <2>4 DEF HasNumbers, GoesOn, Assigning
  <2>6. RequestFits(log, numberings', shared, public, s) /\ LoadOf(s) = LoadOf(q)
    BY <1>1, <2>2, <2>3, <2>5, AssigningFits
  <2> QED BY <1>1, <2>1, <2>3, <2>6, AssigningGoesOn
<1>4. CASE ~q.sound
  <2>1. Numbered(c, got, Unset)
    BY <1>4 DEF Complete
  <2>2. ParsedFrom(log, DOMAIN got, q.active, q.signature)
    BY <1>1, TargetFits
  <2>3. q.stable # Unset /\ q.on = Unset
    BY <1>1, <1>4 DEF HasNumbers
  <2> QED BY <1>1, <1>4, <2>1, <2>2, <2>3, NumberedKeeps
<1> QED BY <1>3, <1>4

LEMMA KeptByAssignProvisionally ==
  ASSUME CatalogueInv, NEW c \in Clients, AssignProvisionally(c)
  PROVE  CatalogueInv'
<1> DEFINE q == request[c]
           S == DOMAIN numbers \cap q.rows
           got == Restrict(numbers, S)
<1>1. q.at = "provisional" /\ q.at \in Assigning /\ Reads
  BY DEF AssignProvisionally, At, Assigning
<1>2. /\ Silent /\ NumbersStep /\ numbers' = numbers /\ numberings' = numberings
      /\ numbers \in Numberings /\ IsInjective(numbers)
      /\ numbers = numberings[Len(numberings)]
  BY <1>1, ReadsNumbers
<1>3. /\ RequestFits(log, numberings', shared, public, q)
      /\ IsRequest(q) /\ HasNumbers(numberings', q)
  BY <1>1, <1>2, FitsAcross DEF RequestFits
<1>4. DOMAIN got = S /\ Agrees(got, numbers)
  BY <1>2, RestrictedAgrees
<1>5. CASE q.rows \subseteq DOMAIN got
  <2>1. Complete(c, got)
    BY <1>5 DEF AssignProvisionally
  <2>2. DOMAIN got = q.rows
    BY <1>4, <1>5
  <2> HIDE DEF got
  <2> QED BY <1>1, <1>2, <1>4, <2>1, <2>2, CompleteKeeps
<1>6. CASE ~ (q.rows \subseteq DOMAIN got)
  <2> DEFINE s == [q EXCEPT !.at = "highest", !.got = got]
  <2>1. Step(c, s) /\ UNCHANGED caches
    BY <1>6 DEF AssignProvisionally
  <2>2. IsRequest(s)
    BY <1>3 DEF IsRequest, Stages, Signed, Listed, Assigning
  <2>3. /\ q = request[c] /\ GoesOn(q, s) /\ s.at = "highest" /\ s.at \in Assigning
        /\ s.fixed = q.fixed /\ s.expected = q.expected /\ s.on = q.on
        /\ s.got = got /\ s.rows = q.rows /\ s.stable = q.stable
    BY <1>3 DEF IsRequest, GoesOn, Assigning
  <2>4. DOMAIN got \subseteq q.rows
        /\ got = Restrict(numberings'[Len(numberings')],
                          DOMAIN numberings'[Len(numberings')] \cap q.rows)
    BY <1>2, <1>4
  <2> HIDE DEF s, got, q
  <2>5. HasNumbers(numberings', s)
    BY <1>1, <1>3, <2>3, <2>4, ZenonT(60) DEF HasNumbers, GoesOn, Assigning
  <2>6. RequestFits(log, numberings', shared, public, s) /\ LoadOf(s) = LoadOf(q)
    BY <1>1, <1>3, <2>2, <2>3, <2>5, AssigningFits
  <2> QED BY <1>1, <1>2, <2>1, <2>3, <2>6, AssigningGoesOn
<1> QED BY <1>5, <1>6

LEMMA KeptByReadHighest ==
  ASSUME CatalogueInv, NEW c \in Clients, ReadHighest(c)
  PROVE  CatalogueInv'
<1> DEFINE q == request[c]
           got == Appended(q.got, q.rows, Highest(numbers))
<1>1. q.at = "highest" /\ q.at \in Assigning /\ Reads /\ Complete(c, got)
  BY DEF ReadHighest, At, Assigning
<1>2. /\ Silent /\ NumbersStep /\ numbers' = numbers /\ numberings' = numberings
      /\ numbers \in Numberings /\ IsInjective(numbers)
      /\ numbers = numberings[Len(numberings)]
  BY <1>1, ReadsNumbers
<1>3. HasNumbers(numberings, q)
  BY RequestFacts DEF CatalogueInv
<1>4. DOMAIN q.got \subseteq q.rows
      /\ (IsInjective(numberings) /\ numbers = Expected(q) =>
            q.got = Restrict(numbers, DOMAIN numbers \cap q.rows))
  BY <1>1, <1>2, <1>3 DEF HasNumbers
<1>5. DOMAIN got = q.rows
  BY <1>4 DEF Appended, Merged
<1>6. q.rows \in SUBSET AllRows
  BY <1>1, TargetFits
<1>7. IsInjective(numberings) /\ numbers = Expected(q) => Agrees(got, numbers)
  <2> HIDE DEF q
  <2> QED BY <1>2, <1>4, <1>6, CountedOnAgrees
<1> HIDE DEF got
<1> QED BY <1>1, <1>2, <1>5, <1>7, CompleteKeeps

LEMMA KeptByCheckRevision ==
  ASSUME CatalogueInv, NEW c \in Clients, CheckRevision(c)
  PROVE  CatalogueInv'
<1> DEFINE q == request[c]
           k == NumberedKey(q, q.revision)
<1>1. q.at = "check" /\ q.at \in Assigning /\ Reads
  BY DEF CheckRevision, At, Assigning
<1>2. /\ Silent /\ NumbersStep /\ numbers' = numbers /\ numberings' = numberings
      /\ numbers \in Numberings /\ IsInjective(numbers)
      /\ numbers = numberings[Len(numberings)] /\ Len(numberings) \in DOMAIN numberings
  BY <1>1, ReadsNumbers
<1>3. /\ RequestFits(log, numberings', shared, public, q)
      /\ IsRequest(q) /\ HasNumbers(numberings', q)
  BY <1>1, <1>2, FitsAcross DEF RequestFits
<1>4. \/ Unrevised(q) /\ Numbered(c, q.got, numbers)
      \/ /\ Step(c, [q EXCEPT !.at = "assign", !.expected = numbers, !.fixed = Unset,
                              !.attempt = q.attempt + 1, !.got = <<>>])
         /\ UNCHANGED caches
      \/ /\ Wake(c, LAMBDA p : Refused)
         /\ caches' = [caches EXCEPT !.numbered = Dropped(caches.numbered, k, c)]
  BY DEF CheckRevision
<1>5. CASE Unrevised(q) /\ Numbered(c, q.got, numbers)
  <2>1. DOMAIN q.got = q.rows
        /\ (IsInjective(numberings') => Agrees(q.got, numbers'))
    BY <1>1, <1>2, <1>3, <1>5 DEF HasNumbers, Unrevised
  <2>2. ParsedFrom(log, DOMAIN q.got, q.active, q.signature)
    BY <1>1, <2>1, TargetFits
  <2> QED BY <1>1, <1>2, <1>5, <2>1, <2>2, NumberedKeeps
<1>6. CASE /\ Step(c, [q EXCEPT !.at = "assign", !.expected = numbers, !.fixed = Unset,
                                !.attempt = q.attempt + 1, !.got = <<>>])
           /\ UNCHANGED caches
  <2> DEFINE s == [q EXCEPT !.at = "assign", !.expected = numbers, !.fixed = Unset,
                            !.attempt = q.attempt + 1, !.got = <<>>]
  <2>1. Step(c, s)
    BY <1>6
  <2>2. IsRequest(s)
    <3>1. "assign" \in Stages
      BY DEF Stages, Signed, Listed, Assigning
    <3> QED BY <1>3, <3>1 DEF IsRequest
  <2>3. /\ q = request[c] /\ GoesOn(q, s) /\ s.at = "assign" /\ s.at \in Assigning
        /\ s.fixed = Unset /\ s.expected = numbers /\ s.on = q.on
    BY <1>3 DEF IsRequest, GoesOn, Assigning
  <2> HIDE DEF s, q
  <2>4. HasNumbers(numberings', s)
    BY <1>1, <1>2, <1>3, <2>3 DEF HasNumbers, GoesOn, Assigning
  <2>5. RequestFits(log, numberings', shared, public, s) /\ LoadOf(s) = LoadOf(q)
    BY <1>1, <1>3, <2>2, <2>3, <2>4, AssigningFits
  <2> QED BY <1>1, <1>2, <1>6, <2>1, <2>3, <2>5, AssigningGoesOn
<1>7. CASE /\ Wake(c, LAMBDA p : Refused)
           /\ caches' = [caches EXCEPT !.numbered = Dropped(caches.numbered, k, c)]
  <2> DEFINE D == {d \in Clients : request[d].on = c}
             f == Dropped(caches.numbered, k, c)
  <2>1. /\ D \in SUBSET Clients
        /\ request' = [d \in Clients |-> request'[d]]
        /\ \A d \in Clients \ D : request'[d] = request[d]
        /\ \A d \in D : request'[d] = NoRequest
    BY <1>7 DEF Wake, Refused
  <2>2. /\ FilesFit' /\ SharedFits' /\ NumbersFit' /\ NumbersGoOn
        /\ UNCHANGED <<log, shared, public>>
    BY <1>2, NumbersStepFacts
  <2>3. \A d \in D : /\ RequestFits(log', numberings', shared', public', request'[d])
                     /\ request'[d].on = Unset
    BY <2>1, NoRequestFits
  <2>4. Requests'
    BY <1>2, <2>1, <2>2, <2>3, RequestsGoOn DEF CatalogueInv
  <2>5. Waits' /\ \A o, l : Leads(request, o, l) /\ o # c => Leads(request', o, l)
    BY <2>1, <2>3, WaitsEnd DEF CatalogueInv
  <2>6. LoadOf(q) = <<"numbered", k>>
    BY <1>1 DEF LoadOf, Assigning
  <2> HIDE DEF k, f, q
  <2>7. /\ \A x \in DOMAIN caches.files : Stays(caches.files, caches.files, x, c)
        /\ \A x \in DOMAIN caches.lists : Stays(caches.lists, caches.lists, x, c)
        /\ \A x \in DOMAIN caches.numbered :
             Stays(caches.numbered, caches.numbered, x, c) \/ x = k
    BY <2>6, OneLoadsFor DEF CatalogueInv, q
  <2>8. \A x \in DOMAIN f : Stays(caches.numbered, f, x, c)
    <3>1. \A x \in DOMAIN caches.numbered : caches.numbered[x].by = c => x = k
      BY <2>7 DEF Stays
    <3> QED BY <3>1, DroppedFacts DEF f, Stays
  <2>9. /\ caches'.files = caches.files /\ caches'.lists = caches.lists
        /\ caches'.numbered = f /\ caches'.keys = caches.keys
        /\ IsCaches(caches') /\ CachesFit /\ NumbersFit
    BY <1>7 DEF CatalogueInv, CachesFit, IsCaches, f
  <2>10. CachesFit'
    <3>1. /\ \A x \in DOMAIN caches'.files : Stays(caches.files, caches'.files, x, c)
          /\ \A x \in DOMAIN caches'.lists : Stays(caches.lists, caches'.lists, x, c)
          /\ \A x \in DOMAIN caches'.numbered : Stays(caches.numbered, caches'.numbered, x, c)
          /\ \A x \in DOMAIN caches'.keys :
               x \in DOMAIN caches.keys /\ caches'.keys[x] = caches.keys[x]
      BY <2>7, <2>8, <2>9
    <3> QED BY <2>2, <2>5, <2>9, <3>1, CachesChange
  <2> QED BY <2>2, <2>4, <2>5, <2>10 DEF CatalogueInv
<1> QED BY <1>4, <1>5, <1>6, <1>7

-----------------------------------------------------------------------------
(* Recalculation                                                           *)

LEMMA KeptByStrictParse ==
  ASSUME CatalogueInv, NEW c \in Clients, StrictParse(c)
  PROVE  CatalogueInv'
<1> DEFINE q == request[c]
           s == [q EXCEPT !.at = "renumber", !.rows = RowsFor(ItemsOf(q.files), q.published)]
<1>1. /\ q.at = "strict" /\ Silent /\ StandsStill /\ UNCHANGED caches
      /\ Step(c, s) \/ Step(c, NoRequest)
  BY ReadsStands DEF StrictParse, At, Refused
<1>2. q.on = Unset /\ request[c].on = Unset
  BY <1>1, OutsideLoads DEF CatalogueInv, Assigning
<1>3. CASE Step(c, NoRequest)
  BY <1>1, <1>2, <1>3, NoRequestFits, OneGoesOn
<1>4. CASE Step(c, s)
  <2>1. /\ IsRequest(q) /\ Asked(log, numberings, shared, public, q) /\ Looked(log, q)
        /\ HasRows(log, q) /\ HasNumbers(numberings, q)
    BY RequestFacts DEF CatalogueInv
  <2>2. IsRequest(s)
    <3>1. "renumber" \in Stages
      BY DEF Stages, Signed
    <3> QED BY <2>1, <3>1 DEF IsRequest
  <2>3. /\ s.at = "renumber" /\ s.on = q.on /\ s.op = q.op /\ s.start = q.start
        /\ s.since = q.since /\ s.active = q.active /\ s.published = q.published
        /\ s.version = q.version /\ s.known = q.known /\ s.signature = q.signature
        /\ s.files = q.files /\ s.revision = q.revision /\ s.fixed = q.fixed
        /\ s.rows = RowsFor(ItemsOf(q.files), q.published)
    BY <2>1 DEF IsRequest
  <2>4. Step(c, s)
    BY <1>4
  <2> HIDE DEF s
  <2>5. Asked(log, numberings, shared, public, s)
    BY <1>1, <2>1, <2>3 DEF Asked
  <2>6. Looked(log, s)
    BY <1>1, <2>1, <2>3 DEF Looked, Signed, Listed, Assigning
  <2>7. HasRows(log, s) /\ HasNumbers(numberings, s) /\ Answered(log, numberings, s)
    BY <1>1, <2>1, <2>3 DEF HasRows, HasNumbers, Answered, Listed, Assigning
  <2>8. RequestFits(log, numberings, shared, public, s)
    BY <2>2, <2>5, <2>6, <2>7 DEF RequestFits
  <2> QED BY <1>1, <1>2, <2>3, <2>4, <2>8, OneGoesOn
<1> QED BY <1>1, <1>3, <1>4

\* What is renumbered is the package as it is, in its rows as published.
LEMMA RenumberedRows ==
  ASSUME CatalogueInv, NEW c \in Clients, request[c].at = "renumber", MayRenumber(request[c])
  PROVE  /\ request[c].rows = RowsFor(ItemsOf(Current), shared.published)
         /\ request[c].rows \in SUBSET AllRows /\ request[c].rows \subseteq PublicRows
<1> DEFINE q == request[c]
<1>1. Asked(log, numberings, shared, public, q) /\ Looked(log, q)
  BY RequestFacts DEF CatalogueInv
<1>2. q.op = "renumber" /\ q.published = shared.published
  BY <1>1 DEF Asked, MayRenumber
<1>3. q.rows = RowsFor(ItemsOf(Current), shared.published)
  BY <1>1, <1>2 DEF Looked, MayRenumber
<1>4. Current \in SUBSET Files /\ shared.published \in SUBSET Parts /\ shared.published \in public
  BY FilesFacts DEF CatalogueInv, SharedFits
<1>5. q.rows \in SUBSET AllRows
  BY <1>3, <1>4, RowsForIn
<1>6. q.rows \subseteq RowsFor(ItemsOf(Files), shared.published)
  BY <1>3, <1>4, RowsForMono DEF ItemsOf
<1>7. q.rows \subseteq PublicRows
  <2> HIDE DEF q
  <2> QED BY <1>4, <1>6, Zenon DEF PublicRows
<1> QED BY <1>3, <1>5, <1>7

LEMMA KeptByRenumber ==
  ASSUME CatalogueInv, NEW c \in Clients, Renumber(c)
  PROVE  CatalogueInv'
<1> DEFINE q == request[c]
           n == Numbering(q.rows)
<1>1. /\ q.at = "renumber" /\ Silent /\ Step(c, NoRequest)
      /\ IF MayRenumber(q) THEN Renumbered(n) ELSE UNCHANGED numberings
      /\ caches' = [caches EXCEPT !.numbered = IF MayRenumber(q) THEN <<>> ELSE caches.numbered]
      /\ UNCHANGED <<log, disk, pending, shared, public>>
  BY DEF Renumber, At, Refused
<1>2. q.on = Unset /\ request[c].on = Unset
  BY <1>1, OutsideLoads DEF CatalogueInv, Assigning
<1>3. /\ numberings \in Seq(Numberings) /\ numberings # <<>> /\ NumbersFit
  BY NumbersFacts DEF CatalogueInv
<1>4. NumbersStep
  <2>1. CASE numberings' = numberings
    BY <1>1, <1>3, <2>1 DEF NumbersStep, NumbersGoOn, NumbersFit, PublicRows, numbers
  <2>2. CASE numberings' # numberings
    <3>1. MayRenumber(q) /\ numberings' = Append(numberings, n)
      BY <1>1, <2>2 DEF Renumbered
    <3>2. q.rows \in SUBSET AllRows /\ q.rows \subseteq PublicRows
      BY <1>1, <3>1, RenumberedRows
    <3>3. n \in Numberings /\ IsInjective(n) /\ DOMAIN n = q.rows
      BY <3>2, NumberingFits
    <3> HIDE DEF n, q
    <3>4. /\ numberings' \in Seq(Numberings) /\ numberings' # <<>>
          /\ numberings'[Len(numberings')] = n
      BY <1>3, <3>1, <3>3, AppendFacts
    <3>5. DOMAIN numbers' \subseteq PublicRows'
      BY <1>1, <3>2, <3>3, <3>4 DEF PublicRows, numbers
    <3> QED BY <1>1, <3>1, <3>3, <3>4, <3>5 DEF NumbersStep, NumbersGoOn, NumbersFit, numbers
  <2> QED BY <2>1, <2>2
<1>5. /\ FilesFit' /\ SharedFits' /\ NumbersFit' /\ NumbersGoOn
      /\ UNCHANGED <<log, shared, public>>
  BY <1>4, NumbersStepFacts
<1>6. Waits' /\ LeadsGoOn
  BY <1>1, <1>2, NoRequestFits, WaitsGoOn DEF CatalogueInv
<1>7. Requests'
  <2>1. /\ request' = [d \in Clients |-> request'[d]]
        /\ request'[c] = NoRequest /\ \A d \in Clients \ {c} : request'[d] = request[d]
    BY <1>1, StepFacts DEF CatalogueInv
  <2>2. {c} \in SUBSET Clients
        /\ \A d \in {c} : RequestFits(log', numberings', shared', public', request'[d])
    BY <2>1, NoRequestFits
  <2> QED BY <1>1, <1>5, <2>1, <2>2, RequestsGoOn DEF CatalogueInv
<1>8. CachesFit'
  <2>1. /\ caches'.files = caches.files /\ caches'.lists = caches.lists
        /\ \A x \in DOMAIN caches'.numbered :
             x \in DOMAIN caches.numbered /\ caches'.numbered[x] = caches.numbered[x]
        /\ caches'.keys = caches.keys /\ IsCaches(caches') /\ CachesFit
    BY <1>1, EmptyIsNumbering DEF CatalogueInv, CachesFit, IsCaches
  <2>2. c # Unset
    BY AssumptionFacts
  <2>3. /\ \A x \in DOMAIN caches.files : Stays(caches.files, caches.files, x, c)
        /\ \A x \in DOMAIN caches.lists : Stays(caches.lists, caches.lists, x, c)
        /\ \A x \in DOMAIN caches.numbered : Stays(caches.numbered, caches.numbered, x, c)
    BY <1>2, <2>1, <2>2, NothingLoadsFor
  <2>4. /\ \A x \in DOMAIN caches'.files : Stays(caches.files, caches'.files, x, c)
        /\ \A x \in DOMAIN caches'.lists : Stays(caches.lists, caches'.lists, x, c)
        /\ \A x \in DOMAIN caches'.numbered : Stays(caches.numbered, caches'.numbered, x, c)
        /\ \A x \in DOMAIN caches'.keys :
             x \in DOMAIN caches.keys /\ caches'.keys[x] = caches.keys[x]
    BY <2>1, <2>3 DEF Stays
  <2>5. \A o, l : Leads(request, o, l) /\ o # c => Leads(request', o, l)
    BY <1>6 DEF LeadsGoOn
  <2> QED BY <1>3, <1>5, <2>1, <2>4, <2>5, CachesChange
<1> QED BY <1>5, <1>6, <1>7, <1>8 DEF CatalogueInv

-----------------------------------------------------------------------------
(* The theorems                                                            *)

LEMMA KeptByServe ==
  ASSUME CatalogueInv, NEW c \in Clients, Serve(c)
  PROVE  CatalogueInv'
<1>1. CASE \E op \in {"list", "keys", "renumber"}, editor \in BOOLEAN : Ask(c, op, editor)
  BY <1>1, KeptByAsk
<1>2. CASE ReadKeys(c) \/ ReadRevision(c) \/ ReadSignature(c) \/ LoadFiles(c)
  BY <1>2, KeptByReadKeys, KeptByReadRevision, KeptByReadSignature, KeptByLoadFiles
<1>3. CASE EnterParse(c) \/ Parse(c) \/ EnterNumbers(c)
  BY <1>3, KeptByEnterParse, KeptByParse, KeptByEnterNumbers
<1>4. CASE Assign(c) \/ AssignLocked(c) \/ AssignProvisionally(c) \/ ReadHighest(c)
  BY <1>4, KeptByAssign, KeptByAssignLocked, KeptByAssignProvisionally, KeptByReadHighest
<1>5. CASE CheckRevision(c) \/ StrictParse(c) \/ Renumber(c)
  BY <1>5, KeptByCheckRevision, KeptByStrictParse, KeptByRenumber
<1> QED BY <1>1, <1>2, <1>3, <1>4, <1>5 DEF Serve

LEMMA KeptByAround == CatalogueInv /\ Around => CatalogueInv'
BY KeptByChangeFiles, KeptByUnlink, KeptByInvalidate, KeptByEditDraft, KeptByPublish DEF Around

LEMMA CatalogueKept == CatalogueInv /\ [CatalogueNext]_catalogueVars => CatalogueInv'
<1> SUFFICES ASSUME CatalogueInv, [CatalogueNext]_catalogueVars PROVE CatalogueInv'
  OBVIOUS
<1>1. CASE UNCHANGED catalogueVars
  BY <1>1 DEF catalogueVars, CatalogueInv, FilesFit, SharedFits, NumbersFit, Requests, Waits,
              CachesFit, PublicRows, Current, numbers
<1>2. CASE Deliver
  BY <1>2, KeptByDeliver
<1>3. CASE \E c \in Clients : Serve(c)
  BY <1>3, KeptByServe
<1>4. CASE Around
  BY <1>4, KeptByAround
<1> QED BY <1>1, <1>2, <1>3, <1>4 DEF CatalogueNext

\* The invariant that all properties of the catalogue follow from.
THEOREM CatalogueInvHolds == CatalogueSpec => []CatalogueInv
BY CatalogueStarts, CatalogueKept, PTL DEF CatalogueSpec

LEMMA InvTypeOK == CatalogueInv => CatalogueTypeOK
<1> SUFFICES ASSUME CatalogueInv PROVE CatalogueTypeOK
  OBVIOUS
<1>1. log \in Seq(SUBSET Files) /\ log # <<>> /\ disk \subseteq UNION Range(log)
  BY DEF CatalogueInv, FilesFit
<1>2. disk \subseteq Files
  <2>1. \A S \in Range(log) : S \subseteq Files
    BY <1>1 DEF Range
  <2> QED BY <1>1, <2>1
<1>3. DOMAIN numbers \subseteq AllRows /\ Range(numbers) \subseteq Nat \ {0} /\ IsInjective(numbers)
  BY NumbersFacts, NumberingTyped DEF CatalogueInv
<1> QED BY <1>1, <1>2, <1>3 DEF CatalogueInv, SharedFits, CatalogueTypeOK

\* The types hold, and no two rows have one number: numbers that are appended
\* (item-row-numbering.service.ts, assignNumbers) begin above the highest.
THEOREM TypesHold == CatalogueSpec => []CatalogueTypeOK
BY CatalogueInvHolds, InvTypeOK, PTL

LEMMA InvLists == CatalogueInv => ListsShowThePackage
<1> SUFFICES ASSUME CatalogueInv, NEW c \in Clients, Done(c), NothingReturned
             PROVE  LET r == request[c]
                        shown == {row[1] : row \in DOMAIN r.got}
                        during == {log[k] : k \in r.start..Len(log)}
                    IN /\ DOMAIN r.got = RowsFor(shown, r.active)
                       /\ shown \subseteq ItemsOf(UNION during)
                       /\ \A f \in Files : (\A S \in during : f \in S) => Holds[f] \in shown
  BY DEF ListsShowThePackage
<1> DEFINE r == request[c]
           shown == {row[1] : row \in DOMAIN r.got}
           during == {log[k] : k \in r.start..Len(log)}
<1>1. r.at = "done" /\ IsInjective(log)
  BY DEF Done, At, NothingReturned
<1>2. /\ IsRequest(r) /\ Answered(log, numberings, r)
      /\ Asked(log, numberings, shared, public, r)
  BY RequestFacts DEF CatalogueInv
<1>3. PICK X \in SUBSET Files, j \in DOMAIN log :
        /\ DOMAIN r.got = RowsFor(ItemsOf(X), r.active)
        /\ r.start <= j /\ X \subseteq log[j] /\ (log[j] \ X) \cap log[Len(log)] = {}
  BY <1>1, <1>2 DEF Answered
<1>4. r.active \in SUBSET Parts /\ r.start \in Nat
  BY <1>2 DEF IsRequest
<1>5. shown = ItemsOf(X)
  BY <1>3, <1>4, ItemsOfRows
<1>6. DOMAIN log = 1..Len(log) /\ Len(log) \in DOMAIN log
  BY FilesFacts DEF CatalogueInv
<1>7. log[j] \in during /\ log[Len(log)] \in during
  <2>1. j \in r.start..Len(log) /\ Len(log) \in r.start..Len(log)
    BY <1>3, <1>4, <1>6
  <2> QED BY <2>1
<1> HIDE DEF during, shown, r
<1>8. ItemsOf(X) \subseteq ItemsOf(UNION during)
  BY <1>3, <1>7 DEF ItemsOf
<1>9. ASSUME NEW f \in Files, \A S \in during : f \in S PROVE Holds[f] \in ItemsOf(X)
  <2>1. f \in X
    BY <1>3, <1>7, <1>9
  <2> QED BY <2>1 DEF ItemsOf
<1>10. /\ DOMAIN r.got = RowsFor(shown, r.active) /\ shown \subseteq ItemsOf(UNION during)
       /\ \A f \in Files : (\A S \in during : f \in S) => Holds[f] \in shown
  BY <1>3, <1>5, <1>8, <1>9
<1> QED BY <1>10 DEF r, shown, during

\* A list shows what was in the package while it was served, whatever cache it came
\* from: what a cache keeps under a key is what a request with that key could find.
THEOREM ListsAreTrue == CatalogueSpec => []ListsShowThePackage
BY CatalogueInvHolds, InvLists, PTL

LEMMA InvNumbers == CatalogueInv => NumbersAreOfOneMoment
<1> SUFFICES ASSUME CatalogueInv, NEW c \in Clients,
                    Done(c) /\ request[c].op = "list" /\ NoNumbersReturned,
                    request[c].stable = Unset \/ request[c].sound
             PROVE  LET got == request[c].got IN
                    /\ IsInjective(got)
                    /\ \E k \in request[c].since..Len(numberings) :
                         \A row \in DOMAIN got \cap DOMAIN numberings[k] :
                           got[row] = numberings[k][row]
  BY DEF NumbersAreOfOneMoment
<1> DEFINE r == request[c]
<1>1. r.at = "done" /\ IsInjective(numberings)
  BY DEF Done, At, NoNumbersReturned
<1>2. IsRequest(r) /\ Answered(log, numberings, r)
  BY RequestFacts DEF CatalogueInv
<1>3. PICK k \in DOMAIN numberings : r.since <= k /\ Agrees(r.got, numberings[k])
  BY <1>1, <1>2 DEF Answered
<1>4. k \in r.since..Len(numberings)
  <2>1. r.since \in Nat
    BY <1>2 DEF IsRequest
  <2> QED BY <1>3, <2>1, NumbersFacts DEF CatalogueInv
<1> QED BY <1>3, <1>4 DEF Agrees

\* The numbers of a list are of one moment (applyItemRowNumbersWithStableRevision):
\* the revision that was looked at again vouches for what was read between.
THEOREM NumbersFitTogether == CatalogueSpec => []NumbersAreOfOneMoment
BY CatalogueInvHolds, InvNumbers, PTL

\* Rows of a draft take up no number: what is assigned for good are the published rows.
THEOREM DraftsTakeNoNumbers == CatalogueSpec => []DraftRowsStayUnnumbered
<1>1. CatalogueInv => DraftRowsStayUnnumbered
  BY DEF CatalogueInv, NumbersFit, PublicRows, DraftRowsStayUnnumbered
<1> QED BY <1>1, CatalogueInvHolds, PTL

\* Numbers are assigned for others while a request waits to renumber: it stays.
LEMMA AssignedLeaves ==
  ASSUME CatalogueInv, NEW d \in Clients, AssignLocked(d),
         NEW c \in Clients, request[c].at = "renumber"
  PROVE  request'[c] = request[c]
<1>1. request[c].on = Unset /\ d # Unset /\ Requests
  BY OutsideLoads, AssumptionFacts DEF CatalogueInv, Assigning
<1>2. c # d
  BY DEF AssignLocked, At
<1>3. PICK got, revision : Assigned(d, got, revision)
  BY DEF AssignLocked
<1>4. CASE \E r : Step(d, r)
  BY <1>1, <1>2, <1>4, StepFacts
<1>5. CASE Numbered(d, got, revision)
  BY <1>1, <1>2, <1>5 DEF Numbered
<1> QED BY <1>3, <1>4, <1>5 DEF Assigned

\* The numbers change in two actions only.
LEMMA NumbersChange ==
  ASSUME CatalogueNext, numbers' # numbers
  PROVE  \E d \in Clients : AssignLocked(d) \/ Renumber(d)
<1> SUFFICES ASSUME \A d \in Clients : ~AssignLocked(d) /\ ~Renumber(d)
             PROVE  UNCHANGED numberings
  BY DEF numbers
<1>1. CASE Deliver
  BY <1>1 DEF Deliver
<1>2. CASE Around
  BY <1>2 DEF Around, ChangeFiles, Unlink, Invalidate, EditDraft, Publish
<1>3. ASSUME NEW c \in Clients, Serve(c) PROVE UNCHANGED numberings
  <2>1. CASE \E op \in {"list", "keys", "renumber"}, editor \in BOOLEAN : Ask(c, op, editor)
    BY <2>1 DEF Ask
  <2>2. CASE Reads
    BY <2>2 DEF Reads
  <2> QED BY <1>3, <2>1, <2>2 DEF Serve, ReadKeys, ReadRevision, ReadSignature, LoadFiles,
                 EnterParse, Parse, EnterNumbers, Assign, AssignProvisionally, ReadHighest,
                 CheckRevision, StrictParse
<1> QED BY <1>1, <1>2, <1>3 DEF CatalogueNext

LEMMA RenumberingCounts ==
  ASSUME CatalogueInv, [CatalogueNext]_catalogueVars, NEW c \in Clients,
         At(c, {"renumber"}), request'[c].at # "renumber", numbers' # numbers
  PROVE  numbers' = Numbering(RowsFor(ItemsOf(Current), shared.published))
<1>1. CatalogueNext /\ request[c].at = "renumber"
  BY DEF catalogueVars, numbers, At
<1>2. PICK d \in Clients : AssignLocked(d) \/ Renumber(d)
  BY <1>1, NumbersChange
<1>3. CASE AssignLocked(d)
  BY <1>1, <1>3, AssignedLeaves
<1>4. CASE Renumber(d)
  <2>1. d = c
    BY <1>1, <1>4, StepFacts DEF CatalogueInv, Renumber
  <2> DEFINE n == Numbering(request[c].rows)
  <2>2. MayRenumber(request[c]) /\ Renumbered(n)
    BY <1>4, <2>1 DEF Renumber, numbers
  <2>3. request[c].rows = RowsFor(ItemsOf(Current), shared.published)
    BY <1>1, <2>2, RenumberedRows
  <2>4. n \in Numberings
    BY <1>1, <2>2, RenumberedRows, NumberingFits
  <2> HIDE DEF n
  <2>5. numberings' = Append(numberings, n)
    BY <2>2 DEF Renumbered, numbers
  <2>6. numbers' = n
    BY <2>4, <2>5, NumbersFacts, AppendFacts DEF CatalogueInv, numbers
  <2> QED BY <2>3, <2>6 DEF n
<1> QED BY <1>2, <1>3, <1>4

\* A recalculation counts the package as it is when it commits: its transaction looks
\* at the files, the publication and its version again.
THEOREM RenumberingIsCurrent == CatalogueSpec => RenumberingCountsThePackage
<1>1. CatalogueInv /\ [CatalogueNext]_catalogueVars =>
        [\A c \in Clients :
           At(c, {"renumber"}) /\ request'[c].at # "renumber" /\ numbers' # numbers
           => numbers' = Numbering(RowsFor(ItemsOf(Current), shared.published))]_catalogueVars
  BY RenumberingCounts
<1> QED BY <1>1, CatalogueInvHolds, PTL DEF CatalogueSpec, RenumberingCountsThePackage
=============================================================================
