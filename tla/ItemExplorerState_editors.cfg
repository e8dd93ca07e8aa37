\* Two editors race over the item properties; the service is a guarded document.
SPECIFICATION Spec
CONSTANTS
    Editors = {e1, e2}
    Viewers = {}
    Columns = {c1}
    Tags = {t1}
    Params = {p1, p2}
    Patches <- PropertiesPatches
    Keep = Keep
    NoRecord = NoRecord
    MaxVersion = 3
SYMMETRY ClientSymmetry
INVARIANTS CopiesTellTheHistory
PROPERTIES NamedVersionsLoseNothing ImplementsGuardedDocument
