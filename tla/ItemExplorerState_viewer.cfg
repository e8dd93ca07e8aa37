\* An editor changes every kind of content while a viewer reads through the cache.
SPECIFICATION Spec
CONSTANTS
    Editors = {e1}
    Viewers = {v1}
    Columns = {c1, c2}
    Tags = {t1, t2}
    Params = {p1}
    Patches <- OneFieldPatches
    Keep = Keep
    NoRecord = NoRecord
    MaxVersion = 3
SYMMETRY ClientSymmetry
INVARIANTS CleanMeansPublished LogTellsTheHistory ViewersSeePublications
PROPERTIES ReadsAreFresh ImmediateKeepsTheRest
