------------------------ MODULE MCItemExplorerState ------------------------
(* Small instances of ItemExplorerState for TLC. *)
EXTENDS ItemExplorerDocument, TLC

\* Patches of one field each: a larger patch merges field by field.
OneFieldPatches ==
    {[KeepAll EXCEPT !.columns = x] : x \in Columns}
      \cup {[KeepAll EXCEPT !.tags = x] : x \in Tags}
      \cup {[KeepAll EXCEPT !.itemProperties = x] : x \in ItemProperties}

PropertiesPatches == {[KeepAll EXCEPT !.itemProperties = x] : x \in ItemProperties}

ClientSymmetry == Permutations(Editors) \cup Permutations(Columns) \cup Permutations(Params)

=============================================================================
