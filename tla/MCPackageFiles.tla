--------------------------- MODULE MCPackageFiles ---------------------------
EXTENDS PackageFiles, TLC

NameSymmetry == Permutations(Names)
RequestSymmetry == Permutations(Requests)
Symmetry == NameSymmetry \cup RequestSymmetry

\* Bound: requests at work and accidents so far (a crash, a row that was inserted
\* again, a file that could not be removed) are at most two together.
Accidents ==
  (IF crashed THEN 1 ELSE 0) + Cardinality(resurrected) + Cardinality(leaked)
QuietAfterAccidents == Cardinality({r \in Requests : ~Idle(r)}) + Accidents <= 2
=============================================================================
