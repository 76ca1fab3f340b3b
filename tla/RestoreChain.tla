----------------------------- MODULE RestoreChain -----------------------------
(***************************************************************************)
(* The controlled restore from a prepared simulation to the write in the   *)
(* directory: RestoreAuthorization decides, RestoreTransport executes.     *)
(* They share the registry of execution consumptions, which the first      *)
(* appends to and the second queues from; the clock; the mode; the API     *)
(* process, whose restart ends the calls of both; and the directory, whose *)
(* deleted objects the first gathers evidence about.                       *)
(***************************************************************************)
EXTENDS Naturals, Sequences, FiniteSets

CONSTANTS
  Actor, Guid,
  \* of the authorization chain
  LiveMaxAge, TicketTTL, AuthorizationTTL, EvidenceMaxAge, PreexecutionTTL, GateTTL,
  ExecTicketTTL, Capacity, MaxEvidence, MaxSimulations, MaxOperatorCalls,
  \* of the transport and its workers
  Agent, EnvelopeTTL, ResultMaxAge, MaxRecords, MaxQueueCalls,
  MaxTime, MaxFlips, Fault

VARIABLES
  now, mode, execUses,
  modeFlips, evidence, simulations, tickets, ticketUses, authorizations,
  authorizationUses, challenges, approvals, releases,
  transport, minted, queueCalls, claimCalls, resultCalls, agent, ad, writes, flips

\* The queue route reads the object, the person and the deadline of a consumption.
Grants ==
  [u \in DOMAIN execUses |->
     [guid |-> execUses[u].guid, actor |-> execUses[u].actor,
      expires |-> execUses[u].expires]]

Authorization == INSTANCE RestoreAuthorization_proofs WITH
  flips <- modeFlips, MaxCalls <- MaxOperatorCalls, Fault <- Fault \cap {"restart", "mode"}

Execution == INSTANCE RestoreTransport_proofs WITH
  execUses <- Grants, MaxUses <- Capacity["execUses"], MaxCalls <- MaxQueueCalls

ASSUME ChainAssumption ==
  /\ Authorization!AuthorizationAssumption
  /\ Execution!TransportAssumption

decisionVars == <<execUses, modeFlips, evidence, simulations, tickets, ticketUses,
                  authorizations, authorizationUses, challenges, approvals, releases>>
executionVars == <<transport, minted, queueCalls, claimCalls, resultCalls, agent, ad,
                   writes, flips>>
chainVars == <<now, mode, decisionVars, executionVars>>

Init == Authorization!Init /\ Execution!Init

-----------------------------------------------------------------------------
Tick == Authorization!Tick /\ UNCHANGED executionVars

SetMode == Authorization!SetMode /\ Execution!SetMode

\* A revalidation succeeds when the worker finds the object in the recycle bin.
Revalidate(g) ==
  /\ ad[g] = "deleted"
  /\ Authorization!Revalidate(g)
  /\ UNCHANGED executionVars

Decide ==
  /\ \/ Authorization!OperatorCall
     \/ Authorization!ChallengeStep
     \/ Authorization!ApprovalStep
     \/ Authorization!ReleaseStep
  /\ UNCHANGED executionVars

Execute ==
  /\ UNCHANGED <<now, mode, decisionVars>>
  /\ \/ \E h \in Actor, u \in DOMAIN execUses : Execution!QueueBegin(h, u)
     \/ Execution!Commit
     \/ \E a \in Agent : Execution!AgentStep(a) \/ Execution!AgentCrash(a)
     \/ \E g \in Guid : Execution!ChangeDirectory(g)

operatorCalls == challenges \cup approvals \cup releases
transportCalls == queueCalls \cup claimCalls \cup resultCalls

\* The one API process serves both: its threads and the flocks they held are gone.
Restart ==
  /\ "restart" \in Fault
  /\ operatorCalls # {} \/ transportCalls # {}
  /\ challenges' = {} /\ approvals' = {} /\ releases' = {}
  /\ queueCalls' = {} /\ claimCalls' = {} /\ resultCalls' = {}
  /\ UNCHANGED <<now, mode, execUses, modeFlips, evidence, simulations, tickets,
                 ticketUses, authorizations, authorizationUses,
                 transport, minted, agent, ad, writes, flips>>

Next ==
  \/ Tick
  \/ SetMode
  \/ \E g \in Guid : Revalidate(g)
  \/ Decide
  \/ Execute
  \/ Restart

Spec == Init /\ [][Next]_chainVars

-----------------------------------------------------------------------------
\* The prepared simulation behind an execution consumption.
SimulationBehind(u) == Authorization!TicketOf(execUses[u]).simulation

\* A prepared simulation leads to one Restore-ADObject at most, from the first
\* click of the operator to the cmdlet: no race, crash, restart, lost answer or
\* repeated call in any of the four routes and the worker gives a second one.
OneWritePerSimulation ==
  \A i, j \in DOMAIN writes :
    SimulationBehind(writes[i].use) = SimulationBehind(writes[j].use) => i = j

\* A worker's claim, under which it may write, lies inside the life of everything
\* that was decided before: the execution ticket, the authorization, the ticket;
\* and inside the age that the evidence of the release may reach, although eight
\* services read the clock for themselves.
ClaimedWhileAuthorized ==
  \A t \in {u \in DOMAIN transport : transport[u].state # "pending"} :
    LET x == execUses[transport[t].use]
        claimed == transport[t].claimed
    IN
    /\ transport[t].created <= claimed
    /\ claimed < transport[t].expires /\ transport[t].expires <= x.expires
    /\ claimed < Authorization!AuthorizationOf(x).expires
    /\ claimed < Authorization!TicketOf(x).expires
    /\ claimed < evidence[Authorization!UseOf(x).evidence].at
                   + EvidenceMaxAge + PreexecutionTTL

-----------------------------------------------------------------------------
(***************************************************************************)
(* The fate of a prepared simulation is that of its execution consumption. *)
(***************************************************************************)
Behind(uses) == {SimulationBehind(u) : u \in uses}
Decided == Behind(DOMAIN execUses)
GrantOf(s) == CHOOSE u \in DOMAIN execUses : SimulationBehind(u) = s

SimulationsOffered == Behind(Execution!Offered)
SimulationsWritten == Behind(Execution!Written)
SimulationTaker ==
  [s \in 1 .. MaxSimulations |->
     IF s \in Decided THEN Execution!Taker[GrantOf(s)] ELSE "nobody"]
SimulationVerdict ==
  [s \in 1 .. MaxSimulations |->
     IF s \in Decided THEN Execution!VerdictGiven[GrantOf(s)] ELSE "none"]

Whole == INSTANCE OneShotRestore WITH
  Grant <- 1 .. MaxSimulations, Worker <- Agent, Nobody <- "nobody",
  offered <- SimulationsOffered, taker <- SimulationTaker,
  written <- SimulationsWritten, verdict <- SimulationVerdict

\* The promise that OneShotRestore makes of an execution consumption holds of a
\* prepared simulation: offered once, taken by one worker, written by it once and
\* before its verdict, and its verdict given once.
SimulationIsOneShot == Whole!OneShotSpec
=============================================================================
