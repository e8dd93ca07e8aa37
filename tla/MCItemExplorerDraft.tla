------------------------ MODULE MCItemExplorerDraft ------------------------
\* Small instances of ItemExplorerDraft for TLC.
EXTENDS ItemExplorerDraft
=============================================================================
