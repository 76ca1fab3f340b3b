------------------------ MODULE MCRestoreAuthorization ------------------------
(***************************************************************************)
(* Small instances of RestoreAuthorization for TLC.                        *)
(***************************************************************************)
EXTENDS RestoreAuthorization, TLC

\* Room for two records of each kind.
TwoEach == [r \in Registry |-> 2]

\* Nothing tells two operators, or two objects, apart.
ActorGuidSymmetry == Permutations(Actor) \cup Permutations(Guid)
=============================================================================
