------------------------- MODULE RestoreAuthorization -------------------------
(***************************************************************************)
(* The authorization chain of the controlled restore of a deleted object.  *)
(* Three operator routes, each a call that holds a flock of its own while  *)
(* it appends to one or two registries:                                    *)
(*   challenge           a prepared simulation becomes a ticket, consumed  *)
(*                       at once;                                          *)
(*   human authorization a consumed ticket is authorized by a person;      *)
(*   post-authorization  the authorization is checked against newer        *)
(*                       evidence and consumed, and an execution ticket is *)
(*                       drawn and consumed.                               *)
(* Registries only grow, so a registry is a sequence and an identifier is  *)
(* the index of its record.  Every service reads the clock for itself; the *)
(* mode is read once by the route, before it waits for the flock.          *)
(***************************************************************************)
EXTENDS Naturals, Sequences, FiniteSets

CONSTANTS
  Actor,           \* human identities with the restore permission
  Guid,            \* deleted directory objects
  LiveMaxAge,      \* age limit of the evidence behind a simulation or a ticket
  TicketTTL,       \* lifetime of a ticket
  AuthorizationTTL,
  EvidenceMaxAge,  \* age limit of the evidence behind a preexecution
  PreexecutionTTL,
  GateTTL,
  ExecTicketTTL,
  Capacity,        \* capacity of each registry
  MaxTime,         \* bound: last instant of the clock
  MaxEvidence,     \* bound: live revalidations
  MaxSimulations,  \* bound: prepared simulations
  MaxCalls,        \* bound: calls of each route in flight
  MaxFlips,        \* bound: changes of the mode
  Fault            \* a subset of {"restart", "mode"}

Registry == {"tickets", "ticketUses", "authorizations", "authorizationUses", "execUses"}

ASSUME AuthorizationAssumption ==
  /\ {LiveMaxAge, EvidenceMaxAge} \subseteq Nat
  /\ {TicketTTL, AuthorizationTTL, PreexecutionTTL, GateTTL, ExecTicketTTL}
       \subseteq Nat \ {0}
  /\ Capacity \in [Registry -> Nat]
  /\ {MaxTime, MaxEvidence, MaxSimulations, MaxCalls, MaxFlips} \subseteq Nat
  /\ Fault \subseteq {"restart", "mode"}

VARIABLES
  now, mode, flips,
  evidence,          \* completed live revalidations of an object
  simulations,       \* prepared, dormant simulation jobs
  tickets,
  ticketUses,        \* ticket consumptions
  authorizations,
  authorizationUses, \* authorization consumptions
  execUses,          \* execution ticket consumptions
  challenges,        \* challenge calls in flight
  approvals,         \* human authorization calls in flight
  releases           \* post-authorization calls in flight

registries == <<tickets, ticketUses, authorizations, authorizationUses, execUses>>
calls == <<challenges, approvals, releases>>
jobs == <<evidence, simulations>>
authorizationVars == <<now, mode, flips, jobs, registries, calls>>

Mode == {"Simulation", "Production"}
Index == Nat \ {0}

Evidence == [guid: Guid, at: Nat]
Simulation == [guid: Guid, liveAt: Nat]
Ticket == [simulation: Index, guid: Guid, evidence: Index, issued: Nat, expires: Nat]
TicketUse == [ticket: Index, at: Nat]
Authorization == [ticket: Index, guid: Guid, actor: Actor, evidence: Index,
                  issued: Nat, persisted: Nat, expires: Nat]
AuthorizationUse == [authorization: Index, guid: Guid, actor: Actor,
                     evidence: Index, at: Nat, expires: Nat]
ExecUse == [authorizationUse: Index, authorization: Index, guid: Guid, actor: Actor,
            at: Nat, expires: Nat]

(***************************************************************************)
(* A call waits, then holds its flock: every later step is made under it.  *)
(***************************************************************************)
Challenge == [step: {"waiting", "preflighted", "built", "persisted"},
              simulation: Index, evidence: Index, issued: Nat, ticket: Nat]
Approval == [step: {"waiting", "built"}, ticket: Index, actor: Actor,
             issued: Nat, expires: Nat]
Release == [step: {"waiting", "preexecuted", "consumed", "gated", "ticketed"},
            authorization: Index, evidence: Index, actor: Actor,
            use: Nat, expires: Nat]

MinOf(S) == CHOOSE x \in S : \A y \in S : x <= y
\* Mutant: the lock file is never taken.
LockFreeAlways(inFlight) == TRUE

LockFree(inFlight) == \A c \in inFlight : c.step = "waiting"
HasRoom(registry, name) == Len(registry) < Capacity[name]

Init ==
  /\ now = 0 /\ mode = "Simulation" /\ flips = 0
  /\ evidence = << >> /\ simulations = << >>
  /\ tickets = << >> /\ ticketUses = << >>
  /\ authorizations = << >> /\ authorizationUses = << >>
  /\ execUses = << >>
  /\ challenges = {} /\ approvals = {} /\ releases = {}

-----------------------------------------------------------------------------
Tick ==
  /\ now < MaxTime
  /\ now' = now + 1
  /\ UNCHANGED <<mode, flips, jobs, registries, calls>>

SetMode ==
  /\ "mode" \in Fault
  /\ flips < MaxFlips
  /\ mode' \in Mode \ {mode}
  /\ flips' = flips + 1
  /\ UNCHANGED <<now, jobs, registries, calls>>

\* The worker completes a read-only revalidation of a deleted object.
Revalidate(g) ==
  /\ Len(evidence) < MaxEvidence
  /\ evidence' = Append(evidence, [guid |-> g, at |-> now])
  /\ UNCHANGED <<now, mode, flips, simulations, registries, calls>>

\* An operator prepares the simulation of a restore from fresh evidence.
PrepareSimulation(e) ==
  /\ mode = "Simulation"
  /\ Len(simulations) < MaxSimulations
  /\ now - evidence[e].at <= LiveMaxAge
  /\ simulations' = Append(simulations,
       [guid |-> evidence[e].guid, liveAt |-> evidence[e].at])
  /\ UNCHANGED <<now, mode, flips, evidence, registries, calls>>

-----------------------------------------------------------------------------
(***************************************************************************)
(* build_ad_deleted_object_restore_ticket_challenge.                       *)
(***************************************************************************)
ChallengeBegin(s, e) ==
  /\ mode = "Simulation"
  /\ Cardinality(challenges) < MaxCalls
  /\ challenges' = challenges \cup
       {[step |-> "waiting", simulation |-> s, evidence |-> e, issued |-> 0, ticket |-> 0]}
  /\ UNCHANGED <<now, mode, flips, jobs, registries, approvals, releases>>

\* _assert_simulation_not_reused: also a ticket whose consumption never came.
SimulationUsed(s) == \E t \in DOMAIN tickets : tickets[t].simulation = s

TicketEvidence(c) ==
  /\ evidence[c.evidence].guid = simulations[c.simulation].guid
  /\ now - evidence[c.evidence].at <= LiveMaxAge
  /\ simulations[c.simulation].liveAt < evidence[c.evidence].at

\* The call goes on to the step "next" when its checks pass; else it ends.
Advance(inFlight, c, ok, next) == (inFlight \ {c}) \cup IF ok THEN {next} ELSE {}

ChallengePreflight(c) ==
  /\ c.step = "waiting"
  /\ LockFree(challenges)
  /\ challenges' = Advance(challenges, c,
       ~SimulationUsed(c.simulation) /\ TicketEvidence(c),
       [c EXCEPT !.step = "preflighted"])
  /\ UNCHANGED <<now, mode, flips, jobs, registries, approvals, releases>>

\* The ticket reads the clock once more after the preflight.
ChallengeBuild(c) ==
  /\ c.step = "preflighted"
  /\ challenges' = (challenges \ {c}) \cup {[c EXCEPT !.step = "built", !.issued = now]}
  /\ UNCHANGED <<now, mode, flips, jobs, registries, approvals, releases>>

ChallengePersist(c) ==
  /\ c.step = "built"
  /\ LET ok == now < c.issued + TicketTTL /\ HasRoom(tickets, "tickets") IN
     /\ tickets' = IF ok
          THEN Append(tickets,
                 [simulation |-> c.simulation, guid |-> simulations[c.simulation].guid,
                  evidence |-> c.evidence, issued |-> c.issued,
                  expires |-> c.issued + TicketTTL])
          ELSE tickets
     /\ challenges' = Advance(challenges, c, ok,
          [c EXCEPT !.step = "persisted", !.ticket = Len(tickets) + 1])
  /\ UNCHANGED <<now, mode, flips, jobs, ticketUses, authorizations,
                 authorizationUses, execUses, approvals, releases>>

ChallengeConsume(c) ==
  /\ c.step = "persisted"
  /\ ticketUses' = IF now < tickets[c.ticket].expires /\ HasRoom(ticketUses, "ticketUses")
       THEN Append(ticketUses, [ticket |-> c.ticket, at |-> now])
       ELSE ticketUses
  /\ challenges' = challenges \ {c}
  /\ UNCHANGED <<now, mode, flips, jobs, tickets, authorizations,
                 authorizationUses, execUses, approvals, releases>>

-----------------------------------------------------------------------------
(***************************************************************************)
(* build_and_persist_ad_deleted_object_restore_human_authorization.        *)
(***************************************************************************)
ApprovalBegin(h, u) ==
  /\ mode = "Simulation"
  /\ Cardinality(approvals) < MaxCalls
  /\ approvals' = approvals \cup
       {[step |-> "waiting", ticket |-> ticketUses[u].ticket, actor |-> h,
         issued |-> 0, expires |-> 0]}
  /\ UNCHANGED <<now, mode, flips, jobs, registries, challenges, releases>>

\* _assert_authorization_not_reused: any ticket of the same simulation counts.
Authorized(t) ==
  \E i \in DOMAIN authorizations :
    tickets[authorizations[i].ticket].simulation = tickets[t].simulation

\* The registry itself refuses a second record of a ticket.
AlreadyPersisted(t) == \E i \in DOMAIN authorizations : authorizations[i].ticket = t

\* Mutant: the authorization outlives the ticket.
AuthorizationExpiryLong(t) == now + AuthorizationTTL

AuthorizationExpiry(t) == MinOf({now + AuthorizationTTL, tickets[t].expires})

ApprovalBuild(c) ==
  /\ c.step = "waiting"
  /\ LockFree(approvals)
  /\ approvals' = Advance(approvals, c,
       ~Authorized(c.ticket) /\ now < tickets[c.ticket].expires,
       [c EXCEPT !.step = "built", !.issued = now,
                 !.expires = AuthorizationExpiry(c.ticket)])
  /\ UNCHANGED <<now, mode, flips, jobs, registries, challenges, releases>>

ApprovalPersist(c) ==
  /\ c.step = "built"
  /\ authorizations' = IF /\ now < c.expires
                          /\ HasRoom(authorizations, "authorizations")
                          /\ ~AlreadyPersisted(c.ticket)
       THEN Append(authorizations,
              [ticket |-> c.ticket, guid |-> tickets[c.ticket].guid, actor |-> c.actor,
               evidence |-> tickets[c.ticket].evidence, issued |-> c.issued,
               persisted |-> now, expires |-> c.expires])
       ELSE authorizations
  /\ approvals' = approvals \ {c}
  /\ UNCHANGED <<now, mode, flips, jobs, tickets, ticketUses,
                 authorizationUses, execUses, challenges, releases>>

-----------------------------------------------------------------------------
(***************************************************************************)
(* build_ad_deleted_object_restore_post_authorization_chain.               *)
(***************************************************************************)
ReleaseBegin(h, i, e) ==
  /\ mode = "Simulation"
  /\ Cardinality(releases) < MaxCalls
  /\ releases' = releases \cup
       {[step |-> "waiting", authorization |-> i, evidence |-> e, actor |-> h,
         use |-> 0, expires |-> 0]}
  /\ UNCHANGED <<now, mode, flips, jobs, registries, challenges, approvals>>

\* Mutant: evidence gathered before the authorization is accepted.
PreexecutionEvidenceStale(c) ==
  LET a == authorizations[c.authorization] IN
  /\ evidence[c.evidence].guid = a.guid
  /\ now - evidence[c.evidence].at <= EvidenceMaxAge

PreexecutionEvidence(c) ==
  LET a == authorizations[c.authorization] IN
  /\ c.evidence # a.evidence
  /\ evidence[c.evidence].guid = a.guid
  /\ now - evidence[c.evidence].at <= EvidenceMaxAge
  /\ a.persisted < evidence[c.evidence].at

\* Mutant: the identity of the authorizing person is not compared.
AnyOperator(c) == TRUE

SameOperator(c) == c.actor = authorizations[c.authorization].actor

ReleasePreexecute(c) ==
  /\ c.step = "waiting"
  /\ LockFree(releases)
  /\ releases' = Advance(releases, c,
       /\ SameOperator(c)
       /\ now < authorizations[c.authorization].expires
       /\ PreexecutionEvidence(c),
       [c EXCEPT !.step = "preexecuted",
          !.expires = MinOf({now + PreexecutionTTL,
                             authorizations[c.authorization].expires})])
  /\ UNCHANGED <<now, mode, flips, jobs, registries, challenges, approvals>>

\* Mutant: the look-ups compare the preexecution, which is new in every call.
SpentNever(uses, i) == FALSE

\* Both consumption registries refuse a second record of an authorization.
Spent(uses, i) == \E u \in DOMAIN uses : uses[u].authorization = i

\* Mutant: the call goes on with the record before its own.
PreviousUse == Len(authorizationUses)

NewUse == Len(authorizationUses) + 1

ReleaseConsume(c) ==
  /\ c.step = "preexecuted"
  /\ LET ok == /\ now < c.expires
               /\ HasRoom(authorizationUses, "authorizationUses")
               /\ ~Spent(authorizationUses, c.authorization)
     IN
     /\ authorizationUses' = IF ok
          THEN Append(authorizationUses,
                 [authorization |-> c.authorization,
                  guid |-> authorizations[c.authorization].guid, actor |-> c.actor,
                  evidence |-> c.evidence, at |-> now, expires |-> c.expires])
          ELSE authorizationUses
     /\ releases' = Advance(releases, c, ok,
          [c EXCEPT !.step = "consumed", !.use = NewUse])
  /\ UNCHANGED <<now, mode, flips, jobs, tickets, ticketUses, authorizations,
                 execUses, challenges, approvals>>

\* The runtime gate and the execution ticket exist only in this call; the
\* ticket carries the consumption on, at most to the end of the gate.
ReleaseGate(c) ==
  /\ c.step = "consumed"
  /\ releases' = Advance(releases, c, now < c.expires,
       [c EXCEPT !.step = "gated", !.expires = MinOf({now + GateTTL, c.expires})])
  /\ UNCHANGED <<now, mode, flips, jobs, registries, challenges, approvals>>

\* Mutant: the ticket is dead on arrival.
ExecTicketExpiryNow(c) == MinOf({now, c.expires})

ExecTicketExpiry(c) == MinOf({now + ExecTicketTTL, c.expires})

ReleaseTicket(c) ==
  /\ c.step = "gated"
  /\ releases' = Advance(releases, c, now < c.expires,
       [c EXCEPT !.step = "ticketed", !.expires = ExecTicketExpiry(c)])
  /\ UNCHANGED <<now, mode, flips, jobs, registries, challenges, approvals>>

ReleaseFinish(c) ==
  /\ c.step = "ticketed"
  /\ execUses' = IF /\ now < c.expires
                    /\ HasRoom(execUses, "execUses")
                    /\ ~Spent(execUses, c.authorization)
       THEN Append(execUses,
              [authorizationUse |-> c.use, authorization |-> c.authorization,
               guid |-> authorizations[c.authorization].guid,
               actor |-> c.actor, at |-> now, expires |-> c.expires])
       ELSE execUses
  /\ releases' = releases \ {c}
  /\ UNCHANGED <<now, mode, flips, jobs, tickets, ticketUses, authorizations,
                 authorizationUses, challenges, approvals>>

-----------------------------------------------------------------------------
\* The API process restarts: its threads and the flocks they held are gone,
\* the registries stay as the last atomic replacement left them.
Restart ==
  /\ "restart" \in Fault
  /\ challenges \cup approvals \cup releases # {}
  /\ challenges' = {} /\ approvals' = {} /\ releases' = {}
  /\ UNCHANGED <<now, mode, flips, jobs, registries>>

ChallengeStep ==
  \E c \in challenges :
    ChallengePreflight(c) \/ ChallengeBuild(c) \/ ChallengePersist(c) \/ ChallengeConsume(c)

ApprovalStep == \E c \in approvals : ApprovalBuild(c) \/ ApprovalPersist(c)

ReleaseStep ==
  \E c \in releases :
    \/ ReleasePreexecute(c)
    \/ ReleaseConsume(c)
    \/ ReleaseGate(c)
    \/ ReleaseTicket(c)
    \/ ReleaseFinish(c)

OperatorCall ==
  \/ \E e \in DOMAIN evidence : PrepareSimulation(e)
  \/ \E s \in DOMAIN simulations, e \in DOMAIN evidence : ChallengeBegin(s, e)
  \/ \E h \in Actor, u \in DOMAIN ticketUses : ApprovalBegin(h, u)
  \/ \E h \in Actor, i \in DOMAIN authorizations, e \in DOMAIN evidence :
       ReleaseBegin(h, i, e)

Step ==
  \/ OperatorCall
  \/ ChallengeStep
  \/ ApprovalStep
  \/ ReleaseStep
  \/ Restart

Next ==
  \/ Step
  \/ Tick
  \/ SetMode
  \/ \E g \in Guid : Revalidate(g)

Spec == Init /\ [][Next]_authorizationVars

\* A thread that holds a flock goes on, and a waiting one gets it.
FairSpec == Spec /\ WF_authorizationVars(ReleaseStep)

-----------------------------------------------------------------------------
(***************************************************************************)
(* Properties.                                                             *)
(***************************************************************************)
\* The registries, jobs and calls hold records of their types.
TypeOK ==
  /\ now \in Nat /\ mode \in Mode /\ flips \in Nat
  /\ evidence \in Seq(Evidence)
  /\ simulations \in Seq(Simulation)
  /\ tickets \in Seq(Ticket)
  /\ ticketUses \in Seq(TicketUse)
  /\ authorizations \in Seq(Authorization)
  /\ authorizationUses \in Seq(AuthorizationUse)
  /\ execUses \in Seq(ExecUse)
  /\ challenges \subseteq Challenge
  /\ approvals \subseteq Approval
  /\ releases \subseteq Release

\* The records an execution consumption descends from.
UseOf(x) == authorizationUses[x.authorizationUse]
AuthorizationOf(x) == authorizations[x.authorization]
TicketOf(x) == tickets[AuthorizationOf(x).ticket]
SimulationOf(x) == simulations[TicketOf(x).simulation]

\* A simulation gets one ticket, also when two challenges for it wait for the
\* flock together or one of them died between its two registries.
OneTicketPerSimulation ==
  \A i, j \in DOMAIN tickets : tickets[i].simulation = tickets[j].simulation => i = j

\* A prepared simulation leads to one execution consumption at most, whatever
\* calls race, crash between two registries or are repeated by two operators:
\* the flocks and the look-ups of three services together make it one-shot.
OneUsePerSimulation ==
  \A i, j \in DOMAIN execUses :
    TicketOf(execUses[i]).simulation = TicketOf(execUses[j]).simulation => i = j

\* From a prepared simulation to its execution consumption there is one way.
OneWayPerSimulation == OneTicketPerSimulation /\ OneUsePerSimulation

\* No consumption outlives what it was drawn from: the instants and lifetimes
\* nest from the ticket down to the execution consumption, although every
\* service reads the clock for itself.
NestedLifetimes ==
  \A i \in DOMAIN execUses :
    LET x == execUses[i] IN
    /\ UseOf(x).at <= x.at
    /\ x.at < x.expires
    /\ x.expires <= UseOf(x).expires
    /\ UseOf(x).expires <= AuthorizationOf(x).expires
    /\ AuthorizationOf(x).expires <= TicketOf(x).expires

\* Three distinct revalidations of the same object stand behind an execution
\* consumption, each newer than the decision before it: the evidence of the
\* simulation, of the ticket and, after the authorization, of the release.
EvidenceOrder ==
  \A i \in DOMAIN execUses :
    LET x == execUses[i]
        a == AuthorizationOf(x)
        ticketEvidence == evidence[TicketOf(x).evidence]
        releaseEvidence == evidence[UseOf(x).evidence]
    IN
    /\ {SimulationOf(x).guid, ticketEvidence.guid, releaseEvidence.guid} = {x.guid}
    /\ SimulationOf(x).liveAt < ticketEvidence.at
    /\ ticketEvidence.at <= a.issued
    /\ a.persisted < releaseEvidence.at
    /\ x.expires <= releaseEvidence.at + EvidenceMaxAge + PreexecutionTTL

\* The person who authorized is the person the consumptions name, also when
\* two operators work on the same ticket.
SameOperatorThroughout ==
  \A i \in DOMAIN execUses :
    {execUses[i].actor, UseOf(execUses[i]).actor} = {AuthorizationOf(execUses[i]).actor}

Delivered(i) == \E j \in DOMAIN execUses : execUses[j].authorizationUse = i

\* The earliest instant at which some deadline of the call may have passed.
DeliveryExpired(i) ==
  now >= MinOf({authorizationUses[i].expires, authorizationUses[i].at + GateTTL,
                authorizationUses[i].at + ExecTicketTTL})

\* Without a restart a consumed authorization gets its execution consumption
\* unless time runs out first or the registry of execution consumptions is
\* full: nothing else may burn an authorization.
ConsumedIsTicketed ==
  \A i \in 1 .. Capacity["authorizationUses"] :
    i \in DOMAIN authorizationUses ~>
      /\ i \in DOMAIN authorizationUses
      /\ Delivered(i) \/ DeliveryExpired(i) \/ ~HasRoom(execUses, "execUses")
=============================================================================
