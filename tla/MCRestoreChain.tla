---------------------------- MODULE MCRestoreChain ----------------------------
(***************************************************************************)
(* Small instances of RestoreChain for TLC.                                *)
(***************************************************************************)
EXTENDS RestoreChain

\* Room for two records of each kind.
TwoEach ==
  [r \in {"tickets", "ticketUses", "authorizations", "authorizationUses", "execUses"} |-> 2]
=============================================================================
