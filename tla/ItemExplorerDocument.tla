------------------------- MODULE ItemExplorerDocument -------------------------
(***************************************************************************)
(* ItemExplorerState implements GuardedDocument: comparing version numbers *)
(* under the row lock is as good as comparing content.                     *)
(***************************************************************************)
EXTENDS ItemExplorerState

\* NoRecord stands for the absent document, too.
ASSUME NoDocumentAssumption == NoRecord \notin [draft : Payload, published : Payload]

DocumentOf(r) ==
    IF r = NoRecord THEN NoRecord
    ELSE [draft |-> r.draft, published |-> r.published]

\* The document of version n, from a log and the payload the record started with.
PublishedAt(log, origin, n) ==
    LET publications == {i \in 1 .. n - 1 : log[i].changeType \in Publications}
    IN  IF publications = {} THEN origin
        ELSE log[CHOOSE i \in publications : \A j \in publications : j <= i].after

DocumentAt(log, origin, n) ==
    [draft |-> IF n = 1 THEN origin ELSE log[n - 1].after,
     published |-> PublishedAt(log, origin, n)]

PastDocuments ==
    {DocumentAt(changeLog, Origin, n) : n \in 1 .. VersionOf(record)}

Intent(c) ==
    IF At(c, "idle") \/ request[c].op = "READ" THEN "none"
    ELSE IF request[c].base = NoBase THEN "blind" ELSE "guarded"

Promise == INSTANCE GuardedDocument WITH
    Absent <- NoRecord,
    document <- DocumentOf(record),
    past <- PastDocuments,
    copies <- [c \in Editors |-> DocumentOf(copy[c])],
    intent <- [c \in Editors |-> Intent(c)]

\* Every behaviour of the service, seen through the change log, is one of the
\* guarded document: no editor's named write lands on content it has not seen.
ImplementsGuardedDocument == Promise!Spec

=============================================================================
