--------------------------- MODULE RestoreTransport ---------------------------
(***************************************************************************)
(* The execution transport of the controlled restore of a deleted Active   *)
(* Directory object: the operator route that queues a signed execution     *)
(* envelope, the three agent routes (pending, claim, result), the registry *)
(* file behind them, and the Windows worker that claims an envelope, runs  *)
(* Restore-ADObject and reports.                                           *)
(*                                                                         *)
(* Registry files are JSON lists that only grow, so a registry is a        *)
(* sequence and the identifier a handler draws with uuid4() is the index   *)
(* at which its record is appended.  A route reads the global mode and the *)
(* clock before it waits for the registry's flock, so each route is two    *)
(* steps: the call that captures them, and the commit under the lock.      *)
(***************************************************************************)
EXTENDS Naturals, Sequences, FiniteSets

CONSTANTS
  Actor,          \* human identities that may drive a restore
  Agent,          \* Windows workers started with the restore opt-in
  Guid,           \* deleted directory objects
  ExecTicketTTL,  \* lifetime of an execution ticket
  EnvelopeTTL,    \* lifetime of a signed Windows envelope
  ResultMaxAge,   \* age after which a result is refused
  MaxRecords,     \* capacity of the transport registry
  MaxUses,        \* bound: execution consumptions that the runs create
  MaxTime,        \* bound: last instant of the clock
  MaxCalls,       \* bound: operator calls in flight
  MaxFlips,       \* bound: changes of the mode or of the directory by others
  Fault           \* the faults that may happen: a subset of FaultKind

FaultKind == {"crash", "timeout", "restart", "mode", "directory", "lostwrite"}

ASSUME TransportAssumption ==
  /\ "nobody" \notin Agent
  /\ Guid # {}
  /\ ExecTicketTTL \in Nat \ {0}
  /\ EnvelopeTTL \in Nat \ {0}
  /\ ResultMaxAge \in Nat
  /\ MaxRecords \in Nat
  /\ MaxUses \in Nat
  /\ MaxTime \in Nat
  /\ MaxCalls \in Nat
  /\ MaxFlips \in Nat
  /\ Fault \subseteq FaultKind

VARIABLES
  now,         \* the clock, shared by the API host and the workers
  mode,        \* the global mode kept by the agent configuration file
  execUses,    \* registry of consumed execution tickets
  transport,   \* registry of the execution transport
  minted,      \* number of transport execution ids drawn so far
  queueCalls,  \* execution/queue calls waiting for the registry lock
  claimCalls,  \* execution/claim calls waiting for the registry lock
  resultCalls, \* execution/result calls waiting for the registry lock
  agent,       \* what each worker is doing
  ad,          \* state of each object in the directory
  writes,      \* history: the successful Restore-ADObject calls, in order
  flips        \* number of outside changes so far

serverVars == <<execUses, transport, minted, queueCalls, claimCalls, resultCalls>>
vars == <<now, mode, serverVars, agent, ad, writes, flips>>

Mode == {"Simulation", "Production"}
AdState == {"deleted", "live"}
ExecUse == [guid: Guid, actor: Actor, expires: Nat]

(***************************************************************************)
(* A record of the registry.  The chain identifiers of the envelope all    *)
(* descend from one execution consumption, here "use".                     *)
(***************************************************************************)
State == {"pending", "processing", "completed", "failed"}
Terminal == {"completed", "failed"}
Record == [state: State, use: Nat, guid: Guid, created: Nat, expires: Nat,
           exec: Nat, by: Agent \cup {"nobody"}, claimed: Nat, write: BOOLEAN]

(***************************************************************************)
(* The worker.  "ready" is the top of its loop over the listed tickets;    *)
(* "env" is its copy of the signed payload, "res" the result it built.     *)
(***************************************************************************)
Pc == {"idle", "ready", "claiming", "claimed", "verified", "inspected",
       "restored", "reporting", "sending"}
Envelope == [use: Nat, guid: Guid, expires: Nat]
Result == [success: BOOLEAN, write: BOOLEAN, bound: BOOLEAN]
NoResult == [success |-> FALSE, write |-> FALSE, bound |-> FALSE]
NoEnvelope == [use |-> 0, guid |-> CHOOSE g \in Guid : TRUE, expires |-> 0]
Idle == [pc |-> "idle", todo |-> {}, ticket |-> 0, exec |-> 0,
         env |-> NoEnvelope, res |-> NoResult]
AgentState == [pc: Pc, todo: SUBSET Nat, ticket: Nat, exec: Nat,
               env: Envelope, res: Result]

QueueCall == [by: Actor, use: Nat, at: Nat, expires: Nat]
ClaimCall == [by: Agent, ticket: Nat, at: Nat, waiting: BOOLEAN]
ResultCall == [by: Agent, ticket: Nat, exec: Nat, res: Result, at: Nat,
               waiting: BOOLEAN]
Write == [use: Nat, guid: Guid, ticket: Nat, exec: Nat, by: Agent, mode: Mode]

MinOf(x, y) == IF x <= y THEN x ELSE y

Init ==
  /\ now = 0
  /\ mode = "Simulation"
  /\ execUses = << >>
  /\ transport = << >>
  /\ minted = 0
  /\ queueCalls = {}
  /\ claimCalls = {}
  /\ resultCalls = {}
  /\ agent = [a \in Agent |-> Idle]
  /\ ad = [g \in Guid |-> "deleted"]
  /\ writes = << >>
  /\ flips = 0

-----------------------------------------------------------------------------
(***************************************************************************)
(* The surroundings: the clock, the routes that change the mode, the       *)
(* directory's other administrators, and the post-authorization chain that *)
(* appends execution consumptions.                                         *)
(***************************************************************************)
Tick ==
  /\ now < MaxTime
  /\ now' = now + 1
  /\ UNCHANGED <<mode, serverVars, agent, ad, writes, flips>>

SetMode ==
  /\ "mode" \in Fault
  /\ flips < MaxFlips
  /\ mode' \in Mode \ {mode}
  /\ flips' = flips + 1
  /\ UNCHANGED <<now, serverVars, agent, ad, writes>>

\* Another administrator deletes the object again, or restores it by hand.
ChangeDirectory(g) ==
  /\ "directory" \in Fault
  /\ flips < MaxFlips
  /\ ad' = [ad EXCEPT ![g] = CHOOSE s \in AdState : s # @]
  /\ flips' = flips + 1
  /\ UNCHANGED <<now, mode, serverVars, agent, writes>>

\* Its route reads the mode once, before it waits for its flock: the consumption
\* is appended whatever the mode has become.
ConsumeExecutionTicket(g, h, ttl) ==
  /\ Len(execUses) < MaxUses
  /\ execUses' = Append(execUses, [guid |-> g, actor |-> h, expires |-> now + ttl])
  /\ UNCHANGED <<now, mode, transport, minted, queueCalls, claimCalls,
                 resultCalls, agent, ad, writes, flips>>

-----------------------------------------------------------------------------
(***************************************************************************)
(* The operator route execution/queue: the envelope is built and signed,   *)
(* with the mode and the clock read before the registry lock is taken.     *)
(***************************************************************************)
QueueBegin(h, u) ==
  /\ mode = "Simulation"
  /\ execUses[u].actor = h
  /\ now < execUses[u].expires
  /\ Cardinality(queueCalls) < MaxCalls
  /\ queueCalls' = queueCalls \cup
       {[by |-> h, use |-> u, at |-> now,
         expires |-> MinOf(now + EnvelopeTTL, execUses[u].expires)]}
  /\ UNCHANGED <<now, mode, execUses, transport, minted, claimCalls,
                 resultCalls, agent, ad, writes, flips>>

\* Mutant: only live records count as a duplicate.
QueuedPending(u) ==
  \E t \in DOMAIN transport : transport[t].use = u /\ transport[t].state = "pending"

Queued(u) == \E t \in DOMAIN transport : transport[t].use = u

NewRecord(c) ==
  [state |-> "pending", use |-> c.use, guid |-> execUses[c.use].guid,
   created |-> c.at, expires |-> c.expires, exec |-> 0, by |-> "nobody",
   claimed |-> 0, write |-> FALSE]

QueueCommit(c) ==
  /\ queueCalls' = queueCalls \ {c}
  /\ transport' = IF Len(transport) < MaxRecords /\ ~Queued(c.use)
                    THEN Append(transport, NewRecord(c))
                    ELSE transport
  /\ UNCHANGED <<now, mode, execUses, minted, claimCalls, resultCalls,
                 agent, ad, writes, flips>>

-----------------------------------------------------------------------------
(***************************************************************************)
(* The worker reads the mode once, lists the pending tickets, and then     *)
(* claims them one by one, oldest first.                                   *)
(***************************************************************************)
Listed == {t \in DOMAIN transport :
             transport[t].state = "pending" /\ now < transport[t].expires}

Poll(a) ==
  /\ agent[a].pc = "idle"
  /\ mode = "Simulation"
  /\ Listed # {}
  /\ agent' = [agent EXCEPT ![a].pc = "ready", ![a].todo = Listed]
  /\ UNCHANGED <<now, mode, serverVars, ad, writes, flips>>

EndOfRun(a) ==
  /\ agent[a].pc = "ready"
  /\ agent[a].todo = {}
  /\ agent' = [agent EXCEPT ![a] = Idle]
  /\ UNCHANGED <<now, mode, serverVars, ad, writes, flips>>

\* Outside Simulation the route answers 409 and the worker skips the ticket.
Claim(a, t) ==
  /\ agent[a].pc = "ready"
  /\ \A s \in agent[a].todo : transport[t].created <= transport[s].created
  /\ IF mode = "Simulation"
       THEN /\ agent' = [agent EXCEPT ![a].pc = "claiming", ![a].ticket = t,
                                      ![a].todo = @ \ {t}]
            /\ claimCalls' = claimCalls \cup
                 {[by |-> a, ticket |-> t, at |-> now, waiting |-> TRUE]}
       ELSE /\ agent' = [agent EXCEPT ![a].todo = @ \ {t}]
            /\ UNCHANGED claimCalls
  /\ UNCHANGED <<now, mode, execUses, transport, minted, queueCalls,
                 resultCalls, ad, writes, flips>>

\* Mutants: the record's state, or its expiry, is not read again under the lock.
ClaimableIfFresh(c) == c.at < transport[c.ticket].expires
ClaimableIfPending(c) == transport[c.ticket].state = "pending"

Claimable(c) ==
  /\ transport[c.ticket].state = "pending"
  /\ c.at < transport[c.ticket].expires

\* Mutant: the loop forgets that it has no request under way any more.
NextTicketStuck(s) == [s EXCEPT !.ticket = 0, !.exec = 0]

\* A refused or lost answer is logged and the worker goes on to the next ticket.
NextTicket(s) == [s EXCEPT !.pc = "ready", !.ticket = 0, !.exec = 0,
                           !.env = NoEnvelope, !.res = NoResult]

EnvelopeOf(r) == [use |-> r.use, guid |-> r.guid, expires |-> r.expires]

ClaimCommit(c) ==
  /\ claimCalls' = claimCalls \ {c}
  /\ IF Claimable(c)
       THEN /\ minted' = minted + 1
            /\ transport' = [transport EXCEPT ![c.ticket].state = "processing",
                 ![c.ticket].exec = minted + 1, ![c.ticket].by = c.by,
                 ![c.ticket].claimed = c.at]
            /\ agent' = IF c.waiting
                 THEN [agent EXCEPT ![c.by].pc = "claimed",
                        ![c.by].exec = minted + 1,
                        ![c.by].env = EnvelopeOf(transport[c.ticket])]
                 ELSE agent
       ELSE /\ agent' = IF c.waiting
                          THEN [agent EXCEPT ![c.by] = NextTicket(@)] ELSE agent
            /\ UNCHANGED <<minted, transport>>
  /\ UNCHANGED <<now, mode, execUses, queueCalls, resultCalls, ad, writes, flips>>

-----------------------------------------------------------------------------
(***************************************************************************)
(* Invoke-EitasAdAdminDeletedObjectRestoreExecute.  A failure found before *)
(* the target name and path are read from the payload yields a result that *)
(* does not carry them: bound is FALSE.                                    *)
(***************************************************************************)
Failure(written, names) == [success |-> FALSE, write |-> written, bound |-> names]
Success == [success |-> TRUE, write |-> TRUE, bound |-> TRUE]

\* Mutants: the marker is set before the cmdlet, or lost by a later failure.
CmdletFailedMarked == Failure(TRUE, TRUE)
NotVerifiedUnmarked == Failure(FALSE, TRUE)

\* write_performed is set once Restore-ADObject has returned, and kept.
CmdletFailed == Failure(FALSE, TRUE)
NotVerified == Failure(TRUE, TRUE)

Goto(a, pc) == agent' = [agent EXCEPT ![a].pc = pc]
ReportResult(a, r) == agent' = [agent EXCEPT ![a].pc = "reporting", ![a].res = r]

VerifyEnvelope(a) ==
  /\ agent[a].pc = "claimed"
  /\ IF now < agent[a].env.expires
       THEN Goto(a, "verified")
       ELSE ReportResult(a, Failure(FALSE, FALSE))
  /\ UNCHANGED <<now, mode, serverVars, ad, writes, flips>>

\* Fresh reads of the object, of the target and of its siblings; any may fail.
Inspect(a) ==
  /\ agent[a].pc = "verified"
  /\ \/ /\ ad[agent[a].env.guid] = "deleted"
        /\ Goto(a, "inspected")
     \/ ReportResult(a, Failure(FALSE, TRUE))
  /\ UNCHANGED <<now, mode, serverVars, ad, writes, flips>>

\* What Restore-ADObject does when the object is still in the recycle bin.
RestoreADObject(a) ==
  /\ ad[agent[a].env.guid] = "deleted"
  /\ ad' = [ad EXCEPT ![agent[a].env.guid] = "live"]
  /\ writes' = Append(writes,
       [use |-> agent[a].env.use, guid |-> agent[a].env.guid,
        ticket |-> agent[a].ticket, exec |-> agent[a].exec, by |-> a, mode |-> mode])

\* When the connection to the domain controller is lost after the write, the
\* cmdlet raises although the object is restored.
Restore(a) ==
  /\ agent[a].pc = "inspected"
  /\ \/ RestoreADObject(a) /\ Goto(a, "restored")
     \/ /\ "lostwrite" \in Fault
        /\ RestoreADObject(a)
        /\ ReportResult(a, CmdletFailed)
     \/ /\ ReportResult(a, CmdletFailed)
        /\ UNCHANGED <<ad, writes>>
  /\ UNCHANGED <<now, mode, serverVars, flips>>

VerifyRestored(a) ==
  /\ agent[a].pc = "restored"
  /\ \/ /\ ad[agent[a].env.guid] = "live"
        /\ ReportResult(a, Success)
     \/ ReportResult(a, NotVerified)
  /\ UNCHANGED <<now, mode, serverVars, ad, writes, flips>>

Send(a) ==
  /\ agent[a].pc = "reporting"
  /\ IF mode = "Simulation"
       THEN /\ Goto(a, "sending")
            /\ resultCalls' = resultCalls \cup
                 {[by |-> a, ticket |-> agent[a].ticket, exec |-> agent[a].exec,
                   res |-> agent[a].res, at |-> now, waiting |-> TRUE]}
       ELSE /\ agent' = [agent EXCEPT ![a] = NextTicket(@)]
            /\ UNCHANGED resultCalls
  /\ UNCHANGED <<now, mode, execUses, transport, minted, queueCalls,
                 claimCalls, ad, writes, flips>>

Answers(c) ==
  LET r == transport[c.ticket] IN
  /\ r.state = "processing"
  /\ r.exec = c.exec
  /\ r.by = c.by

\* Mutant: off by one at the age limit.
InTimeStrict(c) == c.at - transport[c.ticket].claimed < ResultMaxAge

InTime(c) == c.at - transport[c.ticket].claimed <= ResultMaxAge

Acceptable(c) == Answers(c) /\ InTime(c) /\ c.res.bound

\* Mutant: a state name that the registry does not know.
VerdictUnknown(success) == IF success THEN "restored" ELSE "failed"

Verdict(success) == IF success THEN "completed" ELSE "failed"

ResultCommit(c) ==
  /\ resultCalls' = resultCalls \ {c}
  /\ transport' = IF Acceptable(c)
       THEN [transport EXCEPT
               ![c.ticket].state = Verdict(c.res.success),
               ![c.ticket].write = c.res.write]
       ELSE transport
  /\ agent' = IF c.waiting
       THEN [agent EXCEPT ![c.by] = NextTicket(@)] ELSE agent
  /\ UNCHANGED <<now, mode, execUses, minted, queueCalls, claimCalls,
                 ad, writes, flips>>

-----------------------------------------------------------------------------
(***************************************************************************)
(* Faults: the worker gives up on an answer or is killed, while the API    *)
(* thread it called may still run; the API process restarts and its        *)
(* threads, which hold nothing outside the registries, are gone.           *)
(***************************************************************************)
Abandon(calls, a) ==
  {c \in calls : c.by # a} \cup
  {[c EXCEPT !.waiting = FALSE] : c \in {d \in calls : d.by = a}}

AgentLeaves(a, s) ==
  /\ agent' = [agent EXCEPT ![a] = s]
  /\ claimCalls' = Abandon(claimCalls, a)
  /\ resultCalls' = Abandon(resultCalls, a)
  /\ UNCHANGED <<now, mode, execUses, transport, minted, queueCalls, ad,
                 writes, flips>>

\* No answer comes: the call timed out, or the API restarted under it.
Unanswered(a) ==
  \A c \in claimCalls \cup resultCalls : c.by = a => ~c.waiting

AnswerLost(a) ==
  /\ agent[a].pc \in {"claiming", "sending"}
  /\ "timeout" \in Fault \/ Unanswered(a)
  /\ AgentLeaves(a, NextTicket(agent[a]))

AgentCrash(a) ==
  /\ "crash" \in Fault
  /\ agent[a].pc # "idle"
  /\ AgentLeaves(a, Idle)

ApiRestart ==
  /\ "restart" \in Fault
  /\ queueCalls \cup claimCalls \cup resultCalls # {}
  /\ queueCalls' = {}
  /\ claimCalls' = {}
  /\ resultCalls' = {}
  /\ UNCHANGED <<now, mode, execUses, transport, minted, agent, ad, writes, flips>>

-----------------------------------------------------------------------------
AgentStep(a) ==
  \/ Poll(a)
  \/ EndOfRun(a)
  \/ \E t \in agent[a].todo : Claim(a, t)
  \/ VerifyEnvelope(a)
  \/ Inspect(a)
  \/ Restore(a)
  \/ VerifyRestored(a)
  \/ Send(a)
  \/ AnswerLost(a)

Commit ==
  \/ \E c \in queueCalls : QueueCommit(c)
  \/ \E c \in claimCalls : ClaimCommit(c)
  \/ \E c \in resultCalls : ResultCommit(c)

\* Everything but the arrival of execution consumptions and the passing of time.
Step ==
  \/ \E h \in Actor, u \in DOMAIN execUses : QueueBegin(h, u)
  \/ Commit
  \/ \E a \in Agent : AgentStep(a) \/ AgentCrash(a)
  \/ ApiRestart
  \/ SetMode
  \/ \E g \in Guid : ChangeDirectory(g)

Next ==
  \/ Step
  \/ Tick
  \/ \E g \in Guid, h \in Actor, ttl \in 1..ExecTicketTTL :
       ConsumeExecutionTicket(g, h, ttl)

Spec == Init /\ [][Next]_vars

\* The route thread that serves worker a gets the lock and commits.
ServeWorker(a) ==
  \/ \E c \in claimCalls : c.by = a /\ ClaimCommit(c)
  \/ \E c \in resultCalls : c.by = a /\ ResultCommit(c)

\* The kernel grants the flock to every waiting thread and a running worker
\* goes on with its loop.  No one obliges an operator to queue, and the clock
\* may stop: expiry is never what makes a property true.
FairSpec ==
  Spec /\ \A a \in Agent : WF_vars(ServeWorker(a)) /\ WF_vars(AgentStep(a))

-----------------------------------------------------------------------------
\* The registries, the calls in flight and the workers hold what the routes and
\* the worker write into them.
TypeOK ==
  /\ now \in Nat
  /\ mode \in Mode
  /\ execUses \in Seq(ExecUse)
  /\ transport \in Seq(Record)
  /\ minted \in Nat
  /\ queueCalls \subseteq QueueCall
  /\ claimCalls \subseteq ClaimCall
  /\ resultCalls \subseteq ResultCall
  /\ agent \in [Agent -> AgentState]
  /\ ad \in [Guid -> AdState]
  /\ writes \in Seq(Write)
  /\ flips \in Nat

WroteFor(t) == \E i \in DOMAIN writes : writes[i].ticket = t

\* An execution consumption leads to at most one successful Restore-ADObject,
\* whatever calls are repeated, lost or interrupted between queue and result.
OneWritePerGrant ==
  \A i, j \in DOMAIN writes : writes[i].use = writes[j].use => i = j

\* Every write was made under the claim the registry still attributes it to:
\* the claim is not overwritten by another worker, not even after a crash.
WriteUnderClaim ==
  \A i \in DOMAIN writes :
    LET w == writes[i] IN
    /\ w.ticket \in DOMAIN transport
    /\ transport[w.ticket].use = w.use
    /\ transport[w.ticket].guid = w.guid
    /\ transport[w.ticket].state # "pending"
    /\ transport[w.ticket].exec = w.exec
    /\ transport[w.ticket].by = w.by

\* A record says that the directory was written only when it was: completed,
\* and failed with write_performed, both come after the claimer's write.
RecordedWriteHappened ==
  \A t \in DOMAIN transport :
    transport[t].state \in Terminal /\ transport[t].write => WroteFor(t)

\* A failure recorded without write_performed left the directory untouched.
\* It needs a domain controller whose answers are not lost after the write.
RecordedFailureIsClean ==
  \A t \in DOMAIN transport :
    transport[t].state = "failed" /\ ~transport[t].write => ~WroteFor(t)

\* Whoever claims does so inside the envelope's life, which ends no later than
\* the execution ticket behind it, although the clock is read before the lock.
ClaimedInTime ==
  \A t \in DOMAIN transport :
    LET r == transport[t] IN
    /\ r.expires <= execUses[r.use].expires
    /\ r.state # "pending" => r.created <= r.claimed /\ r.claimed < r.expires

Rank == [s \in State |-> CASE s = "pending" -> 0 [] s = "processing" -> 1
                             [] OTHER -> 2]
Later(q, r) ==
  /\ q.use = r.use /\ q.guid = r.guid /\ q.expires = r.expires
  /\ Rank[q.state] <= Rank[r.state]
  /\ q.state # "pending" => q.exec = r.exec /\ q.by = r.by /\ q.claimed = r.claimed
  /\ q.state \in Terminal => q = r

\* A failure before the write is recorded as such: the claimer's result is not
\* refused for what it says while it arrives in time.
FailureBeforeWriteIsRecorded ==
  \A c \in resultCalls :
    Answers(c) /\ InTime(c) /\ ~c.res.success /\ ~c.res.write => Acceptable(c)

\* Restore-ADObject runs only while the global mode is Simulation.
RestoreOnlyInSimulation ==
  \A i \in DOMAIN writes : writes[i].mode = "Simulation"

\* The registry is rewritten as a whole file at each commit, yet no commit drops
\* a record, moves one back, changes its claimer or rewrites a verdict.
RegistryMonotone ==
  [][/\ Len(transport) <= Len(transport')
     /\ \A t \in DOMAIN transport : Later(transport[t], transport'[t])]_vars

InState(t, states) == t \in DOMAIN transport /\ transport[t].state \in states
Expired(t) == t \in DOMAIN transport /\ now >= transport[t].expires
TooOld(t) == t \in DOMAIN transport /\ now - transport[t].claimed > ResultMaxAge

\* A pending envelope is claimed unless it expires first.
PendingIsServed ==
  \A t \in 1..MaxRecords :
    InState(t, {"pending"}) ~> Expired(t) \/ ~InState(t, {"pending"})

\* A claimed envelope gets its verdict, unless it expired under the worker or
\* the result came too late: nothing else leaves a record in processing.
ClaimIsSettled ==
  \A t \in 1..MaxRecords :
    InState(t, {"processing"}) ~> InState(t, Terminal) \/ Expired(t) \/ TooOld(t)

-----------------------------------------------------------------------------
(***************************************************************************)
(* The registry and the history of writes, seen as the fate of each grant. *)
(***************************************************************************)
VerdictOf(r) ==
  IF r.state = "completed" THEN "restored"
  ELSE IF r.state = "failed"
    THEN IF r.write THEN "failed after write" ELSE "failed"
    ELSE "none"

TicketsOf(u) == {t \in DOMAIN transport : transport[t].use = u}
Offered == {transport[t].use : t \in DOMAIN transport}
Taker == [u \in 1..MaxUses |->
  IF u \in Offered THEN transport[CHOOSE t \in TicketsOf(u) : TRUE].by ELSE "nobody"]
Written == {writes[i].use : i \in DOMAIN writes}
VerdictGiven == [u \in 1..MaxUses |->
  IF u \in Offered THEN VerdictOf(transport[CHOOSE t \in TicketsOf(u) : TRUE])
  ELSE "none"]

OneShot == INSTANCE OneShotRestore WITH
  Grant <- 1..MaxUses, Worker <- Agent, Nobody <- "nobody",
  offered <- Offered, taker <- Taker, written <- Written, verdict <- VerdictGiven

\* Every behaviour of the routes and workers, with all their faults, keeps the
\* promise of OneShotRestore for every execution consumption.
ImplementsOneShot == OneShot!OneShotSpec

=============================================================================
