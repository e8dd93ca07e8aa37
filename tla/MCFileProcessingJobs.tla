------------------------- MODULE MCFileProcessingJobs -------------------------
(* Small instances of FileProcessingJobs for TLC. *)
EXTENDS FileProcessingJobs, TLC

JobSymmetry == Permutations(Managers) \cup Permutations(Jobs)

=============================================================================
