---------------------------- MODULE OneShotRestore ----------------------------
(***************************************************************************)
(* What the execution transport promises of each grant, that is of each    *)
(* consumed execution ticket: it is offered at most once, taken by at most *)
(* one worker, written to the directory at most once, by the worker that   *)
(* took it and before any verdict, and its verdict is given once.          *)
(***************************************************************************)
CONSTANTS
  Grant,   \* what may be carried out once
  Worker,  \* those who carry it out
  Nobody   \* not a worker

VARIABLES
  offered,  \* grants that workers may take
  taker,    \* the worker that took each grant
  written,  \* grants whose restore reached the directory
  verdict   \* what was recorded of each grant

grantVars == <<offered, taker, written, verdict>>

Verdicts == {"none", "restored", "failed after write", "failed"}

OneShotInit ==
  /\ offered = {}
  /\ taker = [g \in Grant |-> Nobody]
  /\ written = {}
  /\ verdict = [g \in Grant |-> "none"]

Offer(g) ==
  /\ g \notin offered
  /\ offered' = offered \cup {g}
  /\ UNCHANGED <<taker, written, verdict>>

Take(g, w) ==
  /\ g \in offered
  /\ taker[g] = Nobody
  /\ taker' = [taker EXCEPT ![g] = w]
  /\ UNCHANGED <<offered, written, verdict>>

WriteGrant(g) ==
  /\ taker[g] # Nobody
  /\ verdict[g] = "none"
  /\ g \notin written
  /\ written' = written \cup {g}
  /\ UNCHANGED <<offered, taker, verdict>>

\* A plain failure says nothing of the directory: the domain controller may
\* have lost its answer after the write.
Settle(g, v) ==
  /\ taker[g] # Nobody
  /\ verdict[g] = "none"
  /\ v # "failed" => g \in written
  /\ verdict' = [verdict EXCEPT ![g] = v]
  /\ UNCHANGED <<offered, taker, written>>

OneShotNext ==
  \E g \in Grant :
    \/ Offer(g)
    \/ \E w \in Worker : Take(g, w)
    \/ WriteGrant(g)
    \/ \E v \in Verdicts \ {"none"} : Settle(g, v)

OneShotSpec == OneShotInit /\ [][OneShotNext]_grantVars
=============================================================================
