-------------------------- MODULE MCRestoreTransport --------------------------
(***************************************************************************)
(* Small instances of the restore transport for TLC.                       *)
(***************************************************************************)
EXTENDS RestoreTransport, TLC

\* Workers are interchangeable: no action compares or orders them.
WorkerSymmetry == Permutations(Agent)
=============================================================================
