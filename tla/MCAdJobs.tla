------------------------------- MODULE MCAdJobs -------------------------------
(***************************************************************************)
(* Small instances of AdJobs for TLC.                                      *)
(***************************************************************************)
EXTENDS AdJobs, TLC

\* Nothing tells two workers, or two jobs, apart.
JobsSymmetry == Permutations(Worker) \cup Permutations(Job)
=============================================================================
