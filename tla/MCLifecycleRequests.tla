------------------------ MODULE MCLifecycleRequests ------------------------
(***************************************************************************)
(* Small instances of LifecycleRequests for TLC.                           *)
(***************************************************************************)
EXTENDS LifecycleRequests, TLC

\* Nothing tells two agents, or two requests, apart.
LifecycleSymmetry == Permutations(Agent) \cup Permutations(Request)
=============================================================================
