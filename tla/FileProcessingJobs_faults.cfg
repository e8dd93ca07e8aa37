\* Two pages, with restarts and database failures.
SPECIFICATION FairSpec
CONSTANTS
    Managers = {m1, m2}
    Jobs = {j1, j2}
    Kinds = {"archive"}
    NoJob = NoJob
    Reading = Reading
    Faults = {"restart", "database"}
INVARIANTS EndedStreamsTell PagesTellTheOutcome
PROPERTIES OutcomeIsFinal PagesLearnTheOutcome
