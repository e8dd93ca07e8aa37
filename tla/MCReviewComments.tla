-------------------------- MODULE MCReviewComments --------------------------
\* What TLC needs to check ReviewComments where the package itself is of no
\* interest: it passes its readiness check, and participants are
\* interchangeable.
EXTENDS ReviewComments, TLC

ReadyInit == Init /\ package.verdict = "READY"

ReadySpec == ReadyInit /\ [][Next]_vars

ParticipantSymmetry == Permutations(Participants)
============================================================================
