--------------------------- MODULE MCItemServices ----------------------------
(* ItemCatalogue or ItemCollections, for TLC in one run.  The two share no  *)
(* variable: each behaviour is one of either, chosen at the start, and the  *)
(* variables of the other stand still.                                      *)
EXTENDS ItemCatalogue, ItemCollections, TLC

CONSTANTS c1, c2

TwoClients == {c1, c2}
Same == Permutations(TwoClients)

TwoFiles == 1..2
TwoItems == <<1, 2>>
OnePart == {<<1, 1>>}

Budget(present, l, k, n, f, d) ==
  [present |-> present, list |-> l, keys |-> k, renumber |-> n, files |-> f, drafts |-> d]
\* Each pair of what can go wrong together, and three requests.
SomeBudgets ==
  {Budget({2}, 2, 0, 0, 2, 0), Budget({2}, 2, 0, 1, 0, 1), Budget({2}, 1, 0, 1, 1, 1),
   Budget({1, 2}, 1, 0, 1, 1, 1), Budget({2}, 2, 0, 1, 1, 0), Budget({2}, 0, 0, 2, 1, 0),
   Budget({2}, 0, 2, 0, 1, 0), Budget({2}, 0, 2, 0, 0, 1), Budget({2}, 1, 1, 0, 1, 0),
   Budget({1, 2}, 3, 0, 0, 1, 0)}

VARIABLE part

\* One budget is enough for a catalogue that stands still.
FirstBudget == budget = CHOOSE b \in SomeBudgets : TRUE

InitPart ==
  /\ CatalogueInit /\ Init
  /\ part \in {"catalogue", "collections"} /\ (part = "collections" => FirstBudget)

CatalogueActs ==
  /\ part = "catalogue" /\ CatalogueNext
  /\ UNCHANGED vars /\ UNCHANGED part
CollectionsAct ==
  /\ part = "collections" /\ Next
  /\ UNCHANGED catalogueVars /\ UNCHANGED part
NextPart == CatalogueActs \/ CollectionsAct

SpecPart == InitPart /\ [][NextPart]_<<vars, catalogueVars, part>>
=============================================================================
