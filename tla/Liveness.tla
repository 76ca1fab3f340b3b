------------------------------- MODULE Liveness --------------------------------
(***************************************************************************)
(* What must eventually happen, in the four components of the server and   *)
(* its workers that promise it.  They are put side by side in one model:   *)
(* the initial state picks one of them, part, the others stay as they      *)
(* start.  Only what runs on its own is fair: the workers, which poll for  *)
(* ever, and the calls that the server has begun.  Operators, the clock    *)
(* and the mode are under no obligation.                                   *)
(***************************************************************************)
EXTENDS Naturals, FiniteSets

CONSTANTS w1, w2,      \* two workers
          NoOne        \* the caller of a call nobody waits for

VARIABLES part,
          transportNow, transportMode, transportExecUses,
          transportTransport, transportMinted, transportQueueCalls,
          transportClaimCalls, transportResultCalls, transportAgent,
          transportAd, transportWrites, transportFlips,
          releaseNow, releaseMode, releaseFlips, releaseEvidence,
          releaseSimulations, releaseTickets, releaseTicketUses,
          releaseAuthorizations, releaseAuthorizationUses,
          releaseExecUses, releaseChallenges, releaseApprovals,
          releaseReleases,
          requestFile, requestCalls, requestAgents, requestAccount,
          requestCreated, requestReleased, requestExecutions,
          requestOverlapped, requestRework,
          jobFile, jobCalls, jobWorkers, jobNow, jobCreated, jobStored,
          jobRaced, jobUnheard, jobExecutions

\* Room for two records of each kind of the authorization chain.
Registries == {"tickets", "ticketUses", "authorizations", "authorizationUses", "execUses"}
TwoEach == [r \in Registries |-> 2]

Transport == INSTANCE RestoreTransport WITH
    now <- transportNow, mode <- transportMode, execUses <-
    transportExecUses, transport <- transportTransport, minted <-
    transportMinted, queueCalls <- transportQueueCalls, claimCalls <-
    transportClaimCalls, resultCalls <- transportResultCalls, agent <-
    transportAgent, ad <- transportAd, writes <- transportWrites, flips <-
    transportFlips, Actor <- {"alice"}, Agent <- {w1}, Guid <- {"g1"},
    ExecTicketTTL <- 2, EnvelopeTTL <- 2, ResultMaxAge <- 0, MaxRecords <-
    2, MaxUses <- 2, MaxTime <- 2, MaxCalls <- 1, MaxFlips <- 0, Fault <- {}

Authorization == INSTANCE RestoreAuthorization WITH
    now <- releaseNow, mode <- releaseMode, flips <- releaseFlips, evidence
    <- releaseEvidence, simulations <- releaseSimulations, tickets <-
    releaseTickets, ticketUses <- releaseTicketUses, authorizations <-
    releaseAuthorizations, authorizationUses <- releaseAuthorizationUses,
    execUses <- releaseExecUses, challenges <- releaseChallenges, approvals
    <- releaseApprovals, releases <- releaseReleases, Actor <- {"alice"},
    Guid <- {"g1"}, LiveMaxAge <- 2, TicketTTL <- 3, AuthorizationTTL <- 3,
    EvidenceMaxAge <- 1, PreexecutionTTL <- 2, GateTTL <- 2, ExecTicketTTL
    <- 1, Capacity <- TwoEach, MaxTime <- 4, MaxEvidence <- 3,
    MaxSimulations <- 1, MaxCalls <- 1, MaxFlips <- 0, Fault <- {}

Lifecycle == INSTANCE LifecycleRequests WITH
    file <- requestFile, calls <- requestCalls, agents <- requestAgents,
    account <- requestAccount, created <- requestCreated, released <-
    requestReleased, executions <- requestExecutions, overlapped <-
    requestOverlapped, rework <- requestRework, Request <- {"r1", "r2"},
    Agent <- {w1}, MaxCalls <- 1, MaxRework <- 1, Fault <- {"directory"}

Jobs == INSTANCE AdJobs WITH
    file <- jobFile, calls <- jobCalls, workers <- jobWorkers, now <-
    jobNow, created <- jobCreated, stored <- jobStored, raced <- jobRaced,
    unheard <- jobUnheard, executions <- jobExecutions, Job <- {"j1", "j2"},
    Worker <- {w1, w2}, MaxCalls <- 3, SkipsConflict <- FALSE, Fault <-
    {"directory"}

transportVars == <<transportNow, transportMode, transportExecUses,
    transportTransport, transportMinted, transportQueueCalls,
    transportClaimCalls, transportResultCalls, transportAgent, transportAd,
    transportWrites, transportFlips>>
authorizationVars == <<releaseNow, releaseMode, releaseFlips, releaseEvidence,
    releaseSimulations, releaseTickets, releaseTicketUses,
    releaseAuthorizations, releaseAuthorizationUses, releaseExecUses,
    releaseChallenges, releaseApprovals, releaseReleases>>
lifecycleVars == <<requestFile, requestCalls, requestAgents, requestAccount,
    requestCreated, requestReleased, requestExecutions, requestOverlapped,
    requestRework>>
jobsVars == <<jobFile, jobCalls, jobWorkers, jobNow, jobCreated, jobStored,
    jobRaced, jobUnheard, jobExecutions>>
vars == <<part, transportVars, authorizationVars, lifecycleVars, jobsVars>>

\* The worker that will poll first takes any job or request first: one choice
\* stands for all of them in the components that stay as they start.
Init ==
    /\ part \in {"transport", "authorization", "lifecycle", "jobs"}
    /\ Transport!Init /\ Authorization!Init /\ Lifecycle!Init /\ Jobs!Init
    /\ part # "lifecycle" => requestAgents[w1].current = "r1"
    /\ part # "jobs" => \A w \in {w1, w2} : jobWorkers[w].current = "j1"

Next ==
    \/ part = "transport" /\ Transport!Next
       /\ UNCHANGED <<part, authorizationVars, lifecycleVars, jobsVars>>
    \/ part = "authorization" /\ Authorization!Next
       /\ UNCHANGED <<part, transportVars, lifecycleVars, jobsVars>>
    \/ part = "lifecycle" /\ Lifecycle!Next
       /\ UNCHANGED <<part, transportVars, authorizationVars, jobsVars>>
    \/ part = "jobs" /\ Jobs!Next
       /\ UNCHANGED <<part, transportVars, authorizationVars, lifecycleVars>>

Fairness ==
    /\ WF_transportVars(part = "transport" /\ Transport!ServeWorker(w1))
    /\ WF_transportVars(part = "transport" /\ Transport!AgentStep(w1))
    /\ WF_authorizationVars(part = "authorization" /\ Authorization!ReleaseStep)
    /\ WF_lifecycleVars(part = "lifecycle" /\ \E c \in requestCalls : Lifecycle!Save(c))
    /\ WF_lifecycleVars(part = "lifecycle" /\ Lifecycle!AgentStep(w1))
    /\ WF_jobsVars(part = "jobs" /\ \E c \in jobCalls : Jobs!Save(c))
    /\ \A w \in {w1, w2} : WF_jobsVars(part = "jobs" /\ Jobs!WorkerStep(w))

Spec == Init /\ [][Next]_vars /\ Fairness

-----------------------------------------------------------------------------
\* A grant handed to the transport is taken by a worker or expires, and one
\* that was taken ends, or outlives the age a result may have.
GrantsAreSettled == Transport!PendingIsServed /\ Transport!ClaimIsSettled

\* An authorization that a release consumed becomes the right to execute,
\* unless that right expires first or its registry is full.
ConsumedIsTicketed == Authorization!ConsumedIsTicketed

\* An approved request is taken up, and one in processing comes to an end.
RequestsMoveOn == Lifecycle!PendingIsTaken /\ Lifecycle!ProcessingEnds

\* A job in processing leaves that status, and for good, even when the saves
\* of two workers overlap.
JobEnds == Jobs!JobEnds
=============================================================================
