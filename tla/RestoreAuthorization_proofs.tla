--------------------- MODULE RestoreAuthorization_proofs ---------------------
(***************************************************************************)
(* The authorization chain, for any operators, objects, lifetimes and      *)
(* capacities, any number of calls, and restarts: a prepared simulation    *)
(* leads to one ticket, one authorization and one execution consumption;   *)
(* the lifetimes nest; the evidence is in order; one person decides.       *)
(*                                                                         *)
(* Four layers, each an inductive invariant that rests on those before it: *)
(* types and references; tickets and the challenges that make them;        *)
(* authorizations and approvals; consumptions and releases.  In each, the  *)
(* call that holds the flock knows what its earlier steps have read, and   *)
(* what it knows stays true until it appends, because the registries only  *)
(* grow and no other call can append under the same flock.                 *)
(***************************************************************************)
EXTENDS RestoreAuthorization, TLAPS

-----------------------------------------------------------------------------
(* Types and references. *)

TicketOK(t) ==
  t \in Ticket /\ t.simulation \in DOMAIN simulations /\ t.evidence \in DOMAIN evidence

TicketUseOK(u) == u \in TicketUse /\ u.ticket \in DOMAIN tickets

AuthorizationOK(a) ==
  a \in Authorization /\ a.ticket \in DOMAIN tickets /\ a.evidence \in DOMAIN evidence

AuthorizationUseOK(u) ==
  /\ u \in AuthorizationUse
  /\ u.authorization \in DOMAIN authorizations /\ u.evidence \in DOMAIN evidence

ExecUseOK(x) ==
  /\ x \in ExecUse
  /\ x.authorization \in DOMAIN authorizations
  /\ x.authorizationUse \in DOMAIN authorizationUses

ChallengeOK(c) ==
  /\ c \in Challenge
  /\ c.simulation \in DOMAIN simulations /\ c.evidence \in DOMAIN evidence
  /\ c.step = "persisted" => c.ticket \in DOMAIN tickets

ApprovalOK(c) == c \in Approval /\ c.ticket \in DOMAIN tickets

ReleaseOK(c) ==
  /\ c \in Release
  /\ c.authorization \in DOMAIN authorizations /\ c.evidence \in DOMAIN evidence
  /\ c.step \in {"consumed", "gated", "ticketed"} => c.use \in DOMAIN authorizationUses

JobsOK ==
  /\ evidence \in Seq(Evidence) /\ simulations \in Seq(Simulation)
  /\ \A e \in DOMAIN evidence : evidence[e].at <= now

RegistriesOK ==
  /\ tickets \in Seq(Ticket) /\ ticketUses \in Seq(TicketUse)
  /\ authorizations \in Seq(Authorization)
  /\ authorizationUses \in Seq(AuthorizationUse) /\ execUses \in Seq(ExecUse)
  /\ \A i \in DOMAIN tickets : TicketOK(tickets[i])
  /\ \A i \in DOMAIN ticketUses : TicketUseOK(ticketUses[i])
  /\ \A i \in DOMAIN authorizations : AuthorizationOK(authorizations[i])
  /\ \A i \in DOMAIN authorizationUses : AuthorizationUseOK(authorizationUses[i])
  /\ \A i \in DOMAIN execUses : ExecUseOK(execUses[i])

CallsOK ==
  /\ \A c \in challenges : ChallengeOK(c)
  /\ \A c \in approvals : ApprovalOK(c)
  /\ \A c \in releases : ReleaseOK(c)

ClockOK == now \in Nat /\ mode \in Mode /\ flips \in Nat

TypeInv == ClockOK /\ JobsOK /\ RegistriesOK /\ CallsOK

\* A flock has one holder.
OneHolder(inFlight) ==
  \A c, d \in inFlight : c.step # "waiting" /\ d.step # "waiting" => c = d

FlocksHeld == OneHolder(challenges) /\ OneHolder(approvals) /\ OneHolder(releases)

-----------------------------------------------------------------------------
(* Tickets. *)

\* The evidence e is of the object of the simulation s, and newer than what the
\* simulation was prepared from.
Supports(e, s) ==
  /\ evidence[e].guid = simulations[s].guid
  /\ simulations[s].liveAt < evidence[e].at

TicketTrue(t) ==
  /\ t.guid = simulations[t.simulation].guid
  /\ Supports(t.evidence, t.simulation)
  /\ evidence[t.evidence].at <= t.issued
  /\ t.issued <= now

ChallengeTrue(c) ==
  /\ c.step # "waiting" => Supports(c.evidence, c.simulation)
  /\ c.step \in {"preflighted", "built"} => ~SimulationUsed(c.simulation)
  /\ c.step = "built" => evidence[c.evidence].at <= c.issued /\ c.issued <= now

TicketInv ==
  /\ OneTicketPerSimulation
  /\ \A i \in DOMAIN tickets : TicketTrue(tickets[i])
  /\ \A c \in challenges : ChallengeTrue(c)

-----------------------------------------------------------------------------
(* Authorizations. *)

AuthorizationTrue(a) ==
  LET t == tickets[a.ticket] IN
  /\ a.guid = t.guid /\ a.evidence = t.evidence
  /\ t.issued <= a.issued /\ a.issued <= a.persisted /\ a.persisted <= now
  /\ a.expires <= t.expires

ApprovalTrue(c) ==
  c.step = "built" =>
    /\ ~Authorized(c.ticket)
    /\ tickets[c.ticket].issued <= c.issued /\ c.issued <= now
    /\ c.expires <= tickets[c.ticket].expires

OneAuthorizationPerSimulation ==
  \A i, j \in DOMAIN authorizations :
    tickets[authorizations[i].ticket].simulation
      = tickets[authorizations[j].ticket].simulation => i = j

AuthorizationInv ==
  /\ OneAuthorizationPerSimulation
  /\ \A i \in DOMAIN authorizations : AuthorizationTrue(authorizations[i])
  /\ \A c \in approvals : ApprovalTrue(c)

-----------------------------------------------------------------------------
(* Consumptions. *)

\* What is released under the authorization a by actor: on evidence e, until expires.
Released(a, actor, e, expires) ==
  /\ actor = a.actor
  /\ evidence[e].guid = a.guid /\ a.persisted < evidence[e].at
  /\ expires <= a.expires
  /\ expires <= evidence[e].at + EvidenceMaxAge + PreexecutionTTL

UseTrue(u) ==
  /\ Released(authorizations[u.authorization], u.actor, u.evidence, u.expires)
  /\ u.at <= now

\* The use u is of the authorization i by actor and lasts until expires at least.
Stands(u, i, actor, expires) ==
  /\ authorizationUses[u].authorization = i /\ authorizationUses[u].actor = actor
  /\ expires <= authorizationUses[u].expires

ReleaseTrue(c) ==
  /\ c.step # "waiting" =>
       Released(authorizations[c.authorization], c.actor, c.evidence, c.expires)
  /\ c.step \in {"consumed", "gated", "ticketed"} =>
       Stands(c.use, c.authorization, c.actor, c.expires)

ExecUseTrue(x) ==
  /\ Stands(x.authorizationUse, x.authorization, x.actor, x.expires)
  /\ x.guid = authorizations[x.authorization].guid
  /\ authorizationUses[x.authorizationUse].at <= x.at /\ x.at < x.expires

OneUsePerAuthorization ==
  \A i, j \in DOMAIN execUses : execUses[i].authorization = execUses[j].authorization => i = j

ReleaseInv ==
  /\ OneUsePerAuthorization
  /\ \A u \in DOMAIN authorizationUses : UseTrue(authorizationUses[u])
  /\ \A i \in DOMAIN execUses : ExecUseTrue(execUses[i])
  /\ \A c \in releases : ReleaseTrue(c)

-----------------------------------------------------------------------------
(* What every step does: time passes, and registries grow. *)

Keeps(s, t) == DOMAIN s \subseteq DOMAIN t /\ \A i \in DOMAIN s : t[i] = s[i]

Grown ==
  /\ now' \in Nat /\ now <= now'
  /\ Keeps(evidence, evidence') /\ Keeps(simulations, simulations')
  /\ Keeps(tickets, tickets')
  /\ Keeps(authorizations, authorizations')
  /\ Keeps(authorizationUses, authorizationUses')

LEMMA Appended ==
  ASSUME NEW S, NEW s \in Seq(S), NEW x \in S
  PROVE  LET n == Len(s) + 1 IN
         /\ Append(s, x) \in Seq(S)
         /\ DOMAIN Append(s, x) = DOMAIN s \cup {n}
         /\ Append(s, x)[n] = x /\ n \in Nat \ {0} /\ n \notin DOMAIN s
         /\ Keeps(s, Append(s, x))
<1> DEFINE n == Len(s) + 1
           t == Append(s, x)
<1>1. /\ Len(s) \in Nat /\ DOMAIN s = 1 .. Len(s) /\ t \in Seq(S)
      /\ DOMAIN t = 1 .. n /\ t[n] = x /\ \A i \in 1 .. Len(s) : t[i] = s[i]
  OBVIOUS
<1>2. 1 .. n = (1 .. Len(s)) \cup {n} /\ n \in Nat \ {0} /\ n \notin 1 .. Len(s)
  BY <1>1
<1> HIDE DEF n, t
<1>3. /\ t \in Seq(S) /\ DOMAIN t = DOMAIN s \cup {n} /\ t[n] = x
      /\ n \in Nat \ {0} /\ n \notin DOMAIN s /\ Keeps(s, t)
  BY <1>1, <1>2 DEF Keeps
<1> QED
  BY <1>3 DEF n, t

LEMMA Unchanging == ASSUME NEW s PROVE Keeps(s, s)
BY DEF Keeps

\* The smaller of two deadlines.
LEMMA SmallestOf ==
  ASSUME NEW a \in Nat, NEW b \in Nat
  PROVE  MinOf({a, b}) \in Nat /\ MinOf({a, b}) <= a /\ MinOf({a, b}) <= b
<1>1. \E x \in {a, b} : \A y \in {a, b} : x <= y
  <2>1. CASE a <= b
    BY <2>1
  <2>2. CASE b <= a
    BY <2>2
  <2> QED
    BY <2>1, <2>2
<1>2. MinOf({a, b}) \in {a, b} /\ \A y \in {a, b} : MinOf({a, b}) <= y
  BY <1>1 DEF MinOf
<1> QED
  BY <1>2

\* What was so of a record or a call stays so when the registries grow.
LEMMA RecordsStayOK ==
  ASSUME Grown, NEW r
  PROVE  /\ TicketOK(r) => TicketOK(r)'
         /\ TicketUseOK(r) => TicketUseOK(r)'
         /\ AuthorizationOK(r) => AuthorizationOK(r)'
         /\ AuthorizationUseOK(r) => AuthorizationUseOK(r)'
         /\ ExecUseOK(r) => ExecUseOK(r)'
         /\ ChallengeOK(r) => ChallengeOK(r)'
         /\ ApprovalOK(r) => ApprovalOK(r)'
         /\ ReleaseOK(r) => ReleaseOK(r)'
BY DEF Grown, Keeps, TicketOK, TicketUseOK, AuthorizationOK, AuthorizationUseOK, ExecUseOK,
       ChallengeOK, ApprovalOK, ReleaseOK

LEMMA AppendKeeps ==
  ASSUME NEW S, NEW s \in Seq(S), NEW x
  PROVE  Keeps(s, Append(s, x))
<1>1. /\ Len(s) \in Nat /\ DOMAIN s = 1 .. Len(s)
      /\ s \in Seq(S \cup {x})
  OBVIOUS
<1> QED
  BY <1>1, Appended

\* The registries and the clock, whatever is called.
LEMMA StepGrows == TypeInv /\ [Next]_authorizationVars => Grown
<1> SUFFICES ASSUME TypeInv, [Next]_authorizationVars
             PROVE  Grown
  OBVIOUS
<1>1. /\ now \in Nat /\ evidence \in Seq(Evidence) /\ simulations \in Seq(Simulation)
      /\ tickets \in Seq(Ticket) /\ authorizations \in Seq(Authorization)
      /\ authorizationUses \in Seq(AuthorizationUse)
  BY DEF TypeInv, ClockOK, JobsOK, RegistriesOK
<1>2. CASE Tick
  BY <1>1, <1>2, Unchanging DEF Tick, Grown, jobs, registries
<1>3. ASSUME NEW g \in Guid, Revalidate(g) PROVE Grown
  BY <1>1, <1>3, AppendKeeps, Unchanging DEF Revalidate, Grown, registries
<1>4. ASSUME NEW e \in DOMAIN evidence, PrepareSimulation(e) PROVE Grown
  BY <1>1, <1>4, AppendKeeps, Unchanging DEF PrepareSimulation, Grown, registries
<1>5. ASSUME NEW c \in challenges, ChallengePersist(c) PROVE Grown
  BY <1>1, <1>5, AppendKeeps, Unchanging DEF ChallengePersist, Grown, jobs
<1>6. ASSUME NEW c \in approvals, ApprovalPersist(c) PROVE Grown
  BY <1>1, <1>6, AppendKeeps, Unchanging DEF ApprovalPersist, Grown, jobs
<1>7. ASSUME NEW c \in releases, ReleaseConsume(c) PROVE Grown
  BY <1>1, <1>7, AppendKeeps, Unchanging DEF ReleaseConsume, Grown, jobs
<1>8. CASE UNCHANGED <<now, jobs, tickets, authorizations, authorizationUses>>
  BY <1>1, <1>8, Unchanging DEF Grown, jobs
<1> QED
  BY <1>2, <1>3, <1>4, <1>5, <1>6, <1>7, <1>8
  DEF Next, Step, OperatorCall, ChallengeStep, ApprovalStep, ReleaseStep, Restart,
      authorizationVars, SetMode, ChallengeBegin, ChallengePreflight, ChallengeBuild,
      ChallengeConsume, ApprovalBegin, ApprovalBuild, ReleaseBegin, ReleasePreexecute,
      ReleaseGate, ReleaseTicket, ReleaseFinish, registries, calls

\* So a step has to show only that what it adds is right.
LEMMA RegistriesStep ==
  ASSUME TypeInv, Grown,
         \/ tickets' = tickets
         \/ \E r : tickets' = Append(tickets, r) /\ TicketOK(r)',
         \/ ticketUses' = ticketUses
         \/ \E r : ticketUses' = Append(ticketUses, r) /\ TicketUseOK(r)',
         \/ authorizations' = authorizations
         \/ \E r : authorizations' = Append(authorizations, r) /\ AuthorizationOK(r)',
         \/ authorizationUses' = authorizationUses
         \/ \E r : /\ authorizationUses' = Append(authorizationUses, r)
                   /\ AuthorizationUseOK(r)',
         \/ execUses' = execUses
         \/ \E r : execUses' = Append(execUses, r) /\ ExecUseOK(r)'
  PROVE  RegistriesOK'
<1> USE DEF RegistriesOK, TypeInv
<1>1. tickets' \in Seq(Ticket) /\ \A i \in DOMAIN tickets' : TicketOK(tickets[i])'
  <2>1. ASSUME NEW r, tickets' = Append(tickets, r), TicketOK(r)'
        PROVE  tickets' \in Seq(Ticket) /\ \A i \in DOMAIN tickets' : TicketOK(tickets[i])'
    BY <2>1, Appended, RecordsStayOK DEF TicketOK, Keeps
  <2> QED
    BY <2>1, RecordsStayOK DEF TicketOK
<1>2. /\ ticketUses' \in Seq(TicketUse)
      /\ \A i \in DOMAIN ticketUses' : TicketUseOK(ticketUses[i])'
  <2>1. ASSUME NEW r, ticketUses' = Append(ticketUses, r), TicketUseOK(r)'
        PROVE  /\ ticketUses' \in Seq(TicketUse)
               /\ \A i \in DOMAIN ticketUses' : TicketUseOK(ticketUses[i])'
    <3>1. r \in TicketUse /\ ticketUses \in Seq(TicketUse)
      BY <2>1 DEF TicketUseOK
    <3>2. \A i \in DOMAIN ticketUses : TicketUseOK(ticketUses[i]) /\ Keeps(tickets, tickets')
      BY DEF Grown
    <3> QED
      BY <2>1, <3>1, <3>2, Appended DEF TicketUseOK, Keeps
  <2> QED
    BY <2>1, RecordsStayOK DEF TicketUseOK
<1>3. /\ authorizations' \in Seq(Authorization)
      /\ \A i \in DOMAIN authorizations' : AuthorizationOK(authorizations[i])'
  <2>1. ASSUME NEW r, authorizations' = Append(authorizations, r), AuthorizationOK(r)'
        PROVE  /\ authorizations' \in Seq(Authorization)
               /\ \A i \in DOMAIN authorizations' : AuthorizationOK(authorizations[i])'
    BY <2>1, Appended, RecordsStayOK DEF AuthorizationOK, Keeps
  <2> QED
    BY <2>1, RecordsStayOK DEF AuthorizationOK
<1>4. /\ authorizationUses' \in Seq(AuthorizationUse)
      /\ \A i \in DOMAIN authorizationUses' : AuthorizationUseOK(authorizationUses[i])'
  <2>1. ASSUME NEW r, authorizationUses' = Append(authorizationUses, r),
               AuthorizationUseOK(r)'
        PROVE  /\ authorizationUses' \in Seq(AuthorizationUse)
               /\ \A i \in DOMAIN authorizationUses' :
                    AuthorizationUseOK(authorizationUses[i])'
    BY <2>1, Appended, RecordsStayOK DEF AuthorizationUseOK, Keeps
  <2> QED
    BY <2>1, RecordsStayOK DEF AuthorizationUseOK
<1>5. /\ execUses' \in Seq(ExecUse)
      /\ \A i \in DOMAIN execUses' : ExecUseOK(execUses[i])'
  <2>1. ASSUME NEW r, execUses' = Append(execUses, r), ExecUseOK(r)'
        PROVE  /\ execUses' \in Seq(ExecUse)
               /\ \A i \in DOMAIN execUses' : ExecUseOK(execUses[i])'
    BY <2>1, Appended, RecordsStayOK DEF ExecUseOK, Keeps
  <2> QED
    BY <2>1, RecordsStayOK DEF ExecUseOK
<1> QED
  BY <1>1, <1>2, <1>3, <1>4, <1>5

LEMMA CallsStep ==
  ASSUME TypeInv, Grown,
         \A c \in challenges' : c \in challenges \/ ChallengeOK(c)',
         \A c \in approvals' : c \in approvals \/ ApprovalOK(c)',
         \A c \in releases' : c \in releases \/ ReleaseOK(c)'
  PROVE  CallsOK'
BY RecordsStayOK DEF TypeInv, CallsOK

\* The elements of the jobs and the registries, and their indices.
LEMMA ElementTypes ==
  ASSUME TypeInv
  PROVE  /\ \A e \in DOMAIN evidence :
              e \in Index /\ evidence[e].guid \in Guid /\ evidence[e].at \in Nat
         /\ \A s \in DOMAIN simulations :
              s \in Index /\ simulations[s].guid \in Guid /\ simulations[s].liveAt \in Nat
         /\ \A t \in DOMAIN tickets : t \in Index /\ tickets[t] \in Ticket
         /\ \A u \in DOMAIN ticketUses : u \in Index /\ ticketUses[u] \in TicketUse
         /\ \A i \in DOMAIN authorizations :
              i \in Index /\ authorizations[i] \in Authorization
         /\ \A u \in DOMAIN authorizationUses :
              u \in Index /\ authorizationUses[u] \in AuthorizationUse
         /\ \A i \in DOMAIN execUses : i \in Index /\ execUses[i] \in ExecUse
<1>1. ASSUME NEW S, NEW s \in Seq(S), NEW i \in DOMAIN s
      PROVE  i \in Index /\ s[i] \in S
  BY <1>1 DEF Index
<1>2. /\ \A e \in DOMAIN evidence : e \in Index /\ evidence[e] \in Evidence
      /\ \A s \in DOMAIN simulations : s \in Index /\ simulations[s] \in Simulation
  BY <1>1 DEF TypeInv, JobsOK
<1>3. /\ \A e \in Evidence : e.guid \in Guid /\ e.at \in Nat
      /\ \A s \in Simulation : s.guid \in Guid /\ s.liveAt \in Nat
  BY DEF Evidence, Simulation
<1> QED
  BY <1>1, <1>2, <1>3 DEF TypeInv, RegistriesOK

\* A step that only changes calls.
LEMMA TypeOfCalls ==
  ASSUME TypeInv, Grown, UNCHANGED <<now, mode, flips, jobs, registries>>, CallsOK'
  PROVE  TypeInv'
BY RegistriesStep DEF TypeInv, ClockOK, JobsOK, jobs, registries

LEMMA TypeTime ==
  ASSUME TypeInv, Grown, Tick \/ SetMode \/ (\E g \in Guid : Revalidate(g))
                         \/ (\E e \in DOMAIN evidence : PrepareSimulation(e))
  PROVE  TypeInv'
<1>1. ClockOK'
  <2>1. CASE Tick
    BY <2>1 DEF Tick, TypeInv, ClockOK
  <2>2. CASE SetMode
    BY <2>2 DEF SetMode, TypeInv, ClockOK
  <2>3. CASE UNCHANGED <<now, mode, flips>>
    BY <2>3 DEF TypeInv, ClockOK
  <2> QED
    BY <2>1, <2>2, <2>3 DEF Revalidate, PrepareSimulation
<1>2. UNCHANGED <<registries, calls>>
  BY DEF Tick, SetMode, Revalidate, PrepareSimulation, jobs
<1>3. RegistriesOK' /\ CallsOK'
  BY <1>2, RegistriesStep, CallsStep DEF registries, calls
<1>4. JobsOK'
  <2> USE DEF TypeInv, ClockOK, JobsOK
  <2>1. CASE Tick \/ SetMode
    <3>1. UNCHANGED jobs /\ now \in Nat /\ now' \in Nat /\ now <= now'
      BY <2>1 DEF Tick, SetMode
    <3>2. \A e \in DOMAIN evidence : evidence[e].at \in Nat
      BY ElementTypes
    <3> QED
      BY <3>1, <3>2 DEF jobs
  <2>2. ASSUME NEW g \in Guid, Revalidate(g) PROVE JobsOK'
    <3> PICK x : x = [guid |-> g, at |-> now]
      OBVIOUS
    <3>1. x \in Evidence /\ x.at <= now
      BY DEF Evidence
    <3>2. evidence' = Append(evidence, x) /\ UNCHANGED <<now, simulations>>
      BY <2>2 DEF Revalidate
    <3> QED
      BY <3>1, <3>2, Appended DEF Keeps
  <2>3. ASSUME NEW e \in DOMAIN evidence, PrepareSimulation(e) PROVE JobsOK'
    <3> PICK x : x = [guid |-> evidence[e].guid, liveAt |-> evidence[e].at]
      OBVIOUS
    <3>1. x \in Simulation
      BY ElementTypes DEF Simulation
    <3>2. simulations' = Append(simulations, x) /\ UNCHANGED <<now, evidence>>
      BY <2>3 DEF PrepareSimulation
    <3> QED
      BY <3>1, <3>2, Appended
  <2> QED
    BY <2>1, <2>2, <2>3
<1> QED
  BY <1>1, <1>3, <1>4 DEF TypeInv

\* A call that goes on, and nothing else: it is well typed where it is.
LEMMA CallSteps ==
  ASSUME NEW inFlight, NEW c \in inFlight, NEW ok, NEW next,
         NEW d \in Advance(inFlight, c, ok, next)
  PROVE  d \in inFlight \/ d = next
BY DEF Advance

LEMMA TypeChallenge ==
  ASSUME TypeInv, Grown,
         \/ \E s \in DOMAIN simulations, e \in DOMAIN evidence : ChallengeBegin(s, e)
         \/ ChallengeStep
  PROVE  TypeInv'
<1> USE DEF Challenge
<1>1. ASSUME NEW s \in DOMAIN simulations, NEW e \in DOMAIN evidence, ChallengeBegin(s, e)
      PROVE  TypeInv'
  <2> PICK c : c = [step |-> "waiting", simulation |-> s, evidence |-> e,
                    issued |-> 0, ticket |-> 0]
    OBVIOUS
  <2>1. s \in Index /\ e \in Index
    BY DEF TypeInv, JobsOK, Index
  <2>2. ChallengeOK(c)
    BY <2>1 DEF ChallengeOK
  <2>3. /\ challenges' = challenges \cup {c}
        /\ UNCHANGED <<now, mode, flips, jobs, registries, approvals, releases>>
    BY <1>1 DEF ChallengeBegin
  <2>4. ChallengeOK(c)'
    BY <2>2, RecordsStayOK
  <2> QED
    BY <2>3, <2>4, CallsStep, TypeOfCalls
<1>2. ASSUME NEW c \in challenges, ChallengePreflight(c) PROVE TypeInv'
  <2> PICK d : d = [c EXCEPT !.step = "preflighted"]
    OBVIOUS
  <2>1. ChallengeOK(c)
    BY DEF TypeInv, CallsOK
  <2>2. ChallengeOK(d)
    BY <2>1 DEF ChallengeOK
  <2>3. ChallengeOK(d)'
    BY <2>2, RecordsStayOK
  <2>4. /\ \A x \in challenges' : x \in challenges \/ x = d
        /\ UNCHANGED <<now, mode, flips, jobs, registries, approvals, releases>>
    BY <1>2, CallSteps DEF ChallengePreflight
  <2> QED
    BY <2>3, <2>4, CallsStep, TypeOfCalls
<1>3. ASSUME NEW c \in challenges, ChallengeBuild(c) PROVE TypeInv'
  <2> PICK d : d = [c EXCEPT !.step = "built", !.issued = now]
    OBVIOUS
  <2>1. ChallengeOK(c) /\ now \in Nat
    BY DEF TypeInv, CallsOK, ClockOK
  <2>2. ChallengeOK(d)
    BY <2>1 DEF ChallengeOK
  <2>3. ChallengeOK(d)'
    BY <2>2, RecordsStayOK
  <2>4. /\ \A x \in challenges' : x \in challenges \/ x = d
        /\ UNCHANGED <<now, mode, flips, jobs, registries, approvals, releases>>
    BY <1>3 DEF ChallengeBuild
  <2> QED
    BY <2>3, <2>4, CallsStep, TypeOfCalls
<1>4. ASSUME NEW c \in challenges, ChallengePersist(c) PROVE TypeInv'
  <2> PICK t : t = [simulation |-> c.simulation, guid |-> simulations[c.simulation].guid,
                    evidence |-> c.evidence, issued |-> c.issued,
                    expires |-> c.issued + TicketTTL]
    OBVIOUS
  <2> PICK d : d = [c EXCEPT !.step = "persisted", !.ticket = Len(tickets) + 1]
    OBVIOUS
  <2> DEFINE ok == now < c.issued + TicketTTL /\ HasRoom(tickets, "tickets")
  <2>1. ChallengeOK(c) /\ c.step = "built" /\ simulations \in Seq(Simulation)
        /\ tickets \in Seq(Ticket)
    BY <1>4 DEF TypeInv, CallsOK, ChallengePersist, JobsOK, RegistriesOK
  <2>2. TicketOK(t)
    BY <2>1, ElementTypes, AuthorizationAssumption DEF ChallengeOK, TicketOK, Ticket, Index
  <2>3. TicketOK(t)'
    BY <2>2, RecordsStayOK
  <2>4. d \in Challenge /\ d.simulation = c.simulation /\ d.evidence = c.evidence
        /\ d.ticket = Len(tickets) + 1
    <3>1. Len(tickets) + 1 \in Nat /\ c \in Challenge
      BY <2>1 DEF ChallengeOK
    <3> QED
      BY <3>1
  <2>5. /\ tickets' = IF ok THEN Append(tickets, t) ELSE tickets
        /\ challenges' = Advance(challenges, c, ok, d)
        /\ UNCHANGED <<now, mode, flips, jobs, ticketUses, authorizations,
                       authorizationUses, execUses, approvals, releases>>
    BY <1>4 DEF ChallengePersist
  <2> HIDE DEF ok
  <2>6. RegistriesOK'
    BY <2>3, <2>5, RegistriesStep
  <2>7. CallsOK'
    <3>1. CASE ok
      <4>1. d.ticket \in DOMAIN tickets'
        BY <2>1, <2>2, <2>4, <2>5, <3>1, Appended DEF TicketOK
      <4>2. ChallengeOK(d)'
        BY <2>1, <2>4, <4>1 DEF ChallengeOK, Grown, Keeps
      <4>3. \A x \in challenges' : x \in challenges \/ x = d
        BY <2>5, CallSteps
      <4> QED
        BY <2>5, <4>2, <4>3, CallsStep
    <3>2. CASE ~ok
      BY <2>5, <3>2, CallsStep DEF Advance
    <3> QED
      BY <3>1, <3>2
  <2> QED
    BY <2>5, <2>6, <2>7 DEF TypeInv, ClockOK, JobsOK, jobs
<1>5. ASSUME NEW c \in challenges, ChallengeConsume(c) PROVE TypeInv'
  <2> PICK u : u = [ticket |-> c.ticket, at |-> now]
    OBVIOUS
  <2>1. ChallengeOK(c) /\ c.step = "persisted" /\ now \in Nat
    BY <1>5 DEF TypeInv, CallsOK, ClockOK, ChallengeConsume
  <2>2. c.ticket \in Index
    BY <2>1 DEF ChallengeOK, TypeInv, RegistriesOK, Index
  <2>3. TicketUseOK(u)
    BY <2>1, <2>2 DEF ChallengeOK, TicketUseOK, TicketUse
  <2>4. TicketUseOK(u)'
    BY <2>3, RecordsStayOK
  <2>5. /\ ticketUses' = ticketUses \/ ticketUses' = Append(ticketUses, u)
        /\ challenges' \subseteq challenges
        /\ UNCHANGED <<now, mode, flips, jobs, tickets, authorizations,
                       authorizationUses, execUses, approvals, releases>>
    BY <1>5 DEF ChallengeConsume
  <2> QED
    BY <2>4, <2>5, RegistriesStep, CallsStep DEF TypeInv, ClockOK, JobsOK, jobs
<1> QED
  BY <1>1, <1>2, <1>3, <1>4, <1>5 DEF ChallengeStep

LEMMA TypeApproval ==
  ASSUME TypeInv, Grown,
         \/ \E h \in Actor, u \in DOMAIN ticketUses : ApprovalBegin(h, u)
         \/ ApprovalStep
  PROVE  TypeInv'
<1> USE DEF Approval
<1>1. ASSUME NEW h \in Actor, NEW u \in DOMAIN ticketUses, ApprovalBegin(h, u)
      PROVE  TypeInv'
  <2> PICK c : c = [step |-> "waiting", ticket |-> ticketUses[u].ticket, actor |-> h,
                    issued |-> 0, expires |-> 0]
    OBVIOUS
  <2>1. ticketUses[u].ticket \in DOMAIN tickets /\ ticketUses[u].ticket \in Index
    BY ElementTypes DEF TypeInv, RegistriesOK, TicketUseOK
  <2>2. ApprovalOK(c)
    BY <2>1 DEF ApprovalOK
  <2>3. /\ approvals' = approvals \cup {c}
        /\ UNCHANGED <<now, mode, flips, jobs, registries, challenges, releases>>
    BY <1>1 DEF ApprovalBegin
  <2>4. ApprovalOK(c)'
    BY <2>2, RecordsStayOK
  <2> QED
    BY <2>3, <2>4, CallsStep, TypeOfCalls
<1>2. ASSUME NEW c \in approvals, ApprovalBuild(c) PROVE TypeInv'
  <2> PICK d : d = [c EXCEPT !.step = "built", !.issued = now,
                             !.expires = AuthorizationExpiry(c.ticket)]
    OBVIOUS
  <2>1. ApprovalOK(c) /\ now \in Nat
    BY DEF TypeInv, CallsOK, ClockOK
  <2>2. AuthorizationExpiry(c.ticket) \in Nat
    <3>1. tickets[c.ticket].expires \in Nat /\ now + AuthorizationTTL \in Nat
      BY <2>1, ElementTypes, AuthorizationAssumption DEF ApprovalOK, Ticket
    <3> QED
      BY <3>1, SmallestOf DEF AuthorizationExpiry
  <2>3. ApprovalOK(d)
    BY <2>1, <2>2 DEF ApprovalOK
  <2>4. ApprovalOK(d)'
    BY <2>3, RecordsStayOK
  <2>5. /\ \A x \in approvals' : x \in approvals \/ x = d
        /\ UNCHANGED <<now, mode, flips, jobs, registries, challenges, releases>>
    BY <1>2, CallSteps DEF ApprovalBuild
  <2> QED
    BY <2>4, <2>5, CallsStep, TypeOfCalls
<1>3. ASSUME NEW c \in approvals, ApprovalPersist(c) PROVE TypeInv'
  <2> PICK a : a = [ticket |-> c.ticket, guid |-> tickets[c.ticket].guid,
                    actor |-> c.actor, evidence |-> tickets[c.ticket].evidence,
                    issued |-> c.issued, persisted |-> now, expires |-> c.expires]
    OBVIOUS
  <2>1. ApprovalOK(c) /\ now \in Nat
    BY DEF TypeInv, CallsOK, ClockOK
  <2>2. TicketOK(tickets[c.ticket]) /\ c.ticket \in Index
    BY <2>1, ElementTypes DEF ApprovalOK, TypeInv, RegistriesOK
  <2>3. AuthorizationOK(a)
    <3>1. /\ tickets[c.ticket].guid \in Guid /\ tickets[c.ticket].evidence \in Index
          /\ tickets[c.ticket].evidence \in DOMAIN evidence
      BY <2>2 DEF TicketOK, Ticket
    <3> QED
      BY <2>1, <2>2, <3>1 DEF ApprovalOK, AuthorizationOK, Authorization
  <2>4. AuthorizationOK(a)'
    BY <2>3, RecordsStayOK
  <2>5. /\ authorizations' = authorizations \/ authorizations' = Append(authorizations, a)
        /\ approvals' \subseteq approvals
        /\ UNCHANGED <<now, mode, flips, jobs, tickets, ticketUses,
                       authorizationUses, execUses, challenges, releases>>
    BY <1>3 DEF ApprovalPersist
  <2> QED
    BY <2>4, <2>5, RegistriesStep, CallsStep DEF TypeInv, ClockOK, JobsOK, jobs
<1> QED
  BY <1>1, <1>2, <1>3 DEF ApprovalStep

LEMMA TypeRelease ==
  ASSUME TypeInv, Grown,
         \/ \E h \in Actor, i \in DOMAIN authorizations, e \in DOMAIN evidence :
              ReleaseBegin(h, i, e)
         \/ ReleaseStep
  PROVE  TypeInv'
<1> USE DEF Release
<1>1. ASSUME NEW h \in Actor, NEW i \in DOMAIN authorizations, NEW e \in DOMAIN evidence,
             ReleaseBegin(h, i, e)
      PROVE  TypeInv'
  <2> PICK c : c = [step |-> "waiting", authorization |-> i, evidence |-> e,
                    actor |-> h, use |-> 0, expires |-> 0]
    OBVIOUS
  <2>1. i \in Index /\ e \in Index
    BY ElementTypes
  <2>2. ReleaseOK(c)
    BY <2>1 DEF ReleaseOK
  <2>3. /\ releases' = releases \cup {c}
        /\ UNCHANGED <<now, mode, flips, jobs, registries, challenges, approvals>>
    BY <1>1 DEF ReleaseBegin
  <2>4. ReleaseOK(c)'
    BY <2>2, RecordsStayOK
  <2> QED
    BY <2>3, <2>4, CallsStep, TypeOfCalls
<1>2. ASSUME NEW c \in releases, NEW step \in {"preexecuted", "gated", "ticketed"},
             NEW ttl \in Nat, NEW last \in Nat,
             step # "preexecuted" => c.step \in {"consumed", "gated"},
             \E ok : releases' = Advance(releases, c, ok,
                       [c EXCEPT !.step = step, !.expires = MinOf({now + ttl, last})]),
             UNCHANGED <<now, mode, flips, jobs, registries, challenges, approvals>>
      PROVE  TypeInv'
  <2> PICK d : d = [c EXCEPT !.step = step, !.expires = MinOf({now + ttl, last})]
    OBVIOUS
  <2>1. ReleaseOK(c) /\ now + ttl \in Nat
    BY DEF TypeInv, CallsOK, ClockOK
  <2>2. MinOf({now + ttl, last}) \in Nat
    BY <2>1, SmallestOf
  <2>3. ReleaseOK(d)
    BY <1>2, <2>1, <2>2 DEF ReleaseOK
  <2>4. ReleaseOK(d)'
    BY <2>3, RecordsStayOK
  <2>5. \A x \in releases' : x \in releases \/ x = d
    BY <1>2, CallSteps
  <2> QED
    BY <1>2, <2>4, <2>5, CallsStep, TypeOfCalls
<1>3. \A c \in releases : c.expires \in Nat /\ authorizations[c.authorization].expires \in Nat
  BY ElementTypes DEF TypeInv, CallsOK, ReleaseOK, Authorization
<1>4. ASSUME NEW c \in releases, ReleasePreexecute(c) PROVE TypeInv'
  BY <1>2, <1>3, <1>4, AuthorizationAssumption DEF ReleasePreexecute
<1>5. ASSUME NEW c \in releases, ReleaseGate(c) PROVE TypeInv'
  BY <1>2, <1>3, <1>5, AuthorizationAssumption DEF ReleaseGate
<1>6. ASSUME NEW c \in releases, ReleaseTicket(c) PROVE TypeInv'
  BY <1>2, <1>3, <1>6, AuthorizationAssumption DEF ReleaseTicket, ExecTicketExpiry
<1>7. ASSUME NEW c \in releases, ReleaseConsume(c) PROVE TypeInv'
  <2> PICK u : u = [authorization |-> c.authorization,
                    guid |-> authorizations[c.authorization].guid, actor |-> c.actor,
                    evidence |-> c.evidence, at |-> now, expires |-> c.expires]
    OBVIOUS
  <2> PICK d : d = [c EXCEPT !.step = "consumed", !.use = NewUse]
    OBVIOUS
  <2> DEFINE ok == /\ now < c.expires
                   /\ HasRoom(authorizationUses, "authorizationUses")
                   /\ ~Spent(authorizationUses, c.authorization)
  <2>1. ReleaseOK(c) /\ now \in Nat /\ authorizationUses \in Seq(AuthorizationUse)
    BY DEF TypeInv, CallsOK, ClockOK, RegistriesOK
  <2>2. authorizations[c.authorization].guid \in Guid /\ c.authorization \in Index
    BY <2>1, ElementTypes DEF ReleaseOK, Authorization
  <2>3. AuthorizationUseOK(u)
    BY <2>1, <2>2 DEF ReleaseOK, AuthorizationUseOK, AuthorizationUse
  <2>4. AuthorizationUseOK(u)'
    BY <2>3, RecordsStayOK
  <2>5. /\ d \in Release /\ d.authorization = c.authorization /\ d.evidence = c.evidence
        /\ d.use = Len(authorizationUses) + 1
    <3>1. Len(authorizationUses) + 1 \in Nat /\ c \in Release
      BY <2>1 DEF ReleaseOK
    <3> QED
      BY <3>1 DEF NewUse
  <2>6. /\ authorizationUses' = IF ok THEN Append(authorizationUses, u)
                                ELSE authorizationUses
        /\ releases' = Advance(releases, c, ok, d)
        /\ UNCHANGED <<now, mode, flips, jobs, tickets, ticketUses, authorizations,
                       execUses, challenges, approvals>>
    BY <1>7 DEF ReleaseConsume
  <2> HIDE DEF ok
  <2>7. RegistriesOK'
    BY <2>4, <2>6, RegistriesStep
  <2>8. CallsOK'
    <3>1. CASE ok
      <4>1. d.use \in DOMAIN authorizationUses'
        BY <2>1, <2>3, <2>5, <2>6, <3>1, Appended DEF AuthorizationUseOK
      <4>2. ReleaseOK(d)'
        BY <2>1, <2>5, <4>1 DEF ReleaseOK, Grown, Keeps
      <4>3. \A x \in releases' : x \in releases \/ x = d
        BY <2>6, CallSteps
      <4> QED
        BY <2>6, <4>2, <4>3, CallsStep
    <3>2. CASE ~ok
      BY <2>6, <3>2, CallsStep DEF Advance
    <3> QED
      BY <3>1, <3>2
  <2> QED
    BY <2>6, <2>7, <2>8 DEF TypeInv, ClockOK, JobsOK, jobs
<1>8. ASSUME NEW c \in releases, ReleaseFinish(c) PROVE TypeInv'
  <2> PICK x : x = [authorizationUse |-> c.use, authorization |-> c.authorization,
                    guid |-> authorizations[c.authorization].guid,
                    actor |-> c.actor, at |-> now, expires |-> c.expires]
    OBVIOUS
  <2>1. ReleaseOK(c) /\ c.step = "ticketed" /\ now \in Nat
    BY <1>8 DEF TypeInv, CallsOK, ClockOK, ReleaseFinish
  <2>2. /\ authorizations[c.authorization].guid \in Guid
        /\ c.authorization \in Index /\ c.use \in Index
    BY <2>1, ElementTypes DEF ReleaseOK, Authorization
  <2>3. ExecUseOK(x)
    BY <2>1, <2>2 DEF ReleaseOK, ExecUseOK, ExecUse
  <2>4. ExecUseOK(x)'
    BY <2>3, RecordsStayOK
  <2>5. /\ execUses' = execUses \/ execUses' = Append(execUses, x)
        /\ releases' \subseteq releases
        /\ UNCHANGED <<now, mode, flips, jobs, tickets, ticketUses, authorizations,
                       authorizationUses, challenges, approvals>>
    BY <1>8 DEF ReleaseFinish
  <2> QED
    BY <2>4, <2>5, RegistriesStep, CallsStep DEF TypeInv, ClockOK, JobsOK, jobs
<1> QED
  BY <1>1, <1>4, <1>5, <1>6, <1>7, <1>8 DEF ReleaseStep

LEMMA TypeInit == Init => TypeInv
BY DEF Init, TypeInv, ClockOK, Mode, JobsOK, RegistriesOK, CallsOK

LEMMA TypeStep == TypeInv /\ [Next]_authorizationVars => TypeInv'
<1> SUFFICES ASSUME TypeInv, [Next]_authorizationVars
             PROVE  TypeInv'
  OBVIOUS
<1>1. Grown
  BY StepGrows
<1>2. CASE Restart
  <2>1. CallsOK'
    BY <1>2 DEF Restart, CallsOK
  <2> QED
    BY <1>1, <1>2, <2>1, TypeOfCalls DEF Restart
<1>3. CASE UNCHANGED authorizationVars
  <2>1. UNCHANGED <<now, mode, flips, jobs, registries>> /\ UNCHANGED calls
    BY <1>3 DEF authorizationVars
  <2>2. CallsOK'
    BY <1>1, <2>1, CallsStep DEF calls
  <2> QED
    BY <1>1, <2>1, <2>2, TypeOfCalls
<1> QED
  BY <1>1, <1>2, <1>3, TypeTime, TypeChallenge, TypeApproval, TypeRelease
  DEF Next, Step, OperatorCall

LEMMA AlwaysTyped == Spec => []TypeInv
BY TypeInit, TypeStep, PTL DEF Spec

LEMMA TypeInvTypes == TypeInv => TypeOK
<1> SUFFICES ASSUME TypeInv PROVE TypeOK
  OBVIOUS
<1>1. challenges \subseteq Challenge /\ approvals \subseteq Approval /\ releases \subseteq Release
  BY DEF TypeInv, CallsOK, ChallengeOK, ApprovalOK, ReleaseOK
<1> QED
  BY <1>1 DEF TypeInv, ClockOK, JobsOK, RegistriesOK, TypeOK

\* The registries and the calls hold records of their types, whose references
\* are to records that exist.
THEOREM TypeInvariant == Spec => []TypeOK
BY AlwaysTyped, TypeInvTypes, PTL

-----------------------------------------------------------------------------
(* A flock has one holder. *)

\* A call takes the flock when nobody holds it, or goes on with it.
LEMMA HolderMoves ==
  ASSUME NEW inFlight, OneHolder(inFlight), NEW c \in inFlight, NEW ok, NEW next,
         c.step # "waiting" \/ LockFree(inFlight)
  PROVE  OneHolder(Advance(inFlight, c, ok, next))
<1>1. \A d \in inFlight : d.step # "waiting" /\ d # c => FALSE
  BY DEF OneHolder, LockFree
<1> QED
  BY <1>1 DEF OneHolder, Advance

LEMMA HolderStays ==
  ASSUME NEW inFlight, OneHolder(inFlight), NEW c, c.step = "waiting", NEW fewer,
         fewer \subseteq inFlight \cup {c}
  PROVE  OneHolder(fewer)
BY DEF OneHolder

LEMMA FlockStep == FlocksHeld /\ [Next]_authorizationVars => FlocksHeld'
<1> SUFFICES ASSUME FlocksHeld, [Next]_authorizationVars
             PROVE  FlocksHeld'
  OBVIOUS
<1>1. OneHolder(challenges) /\ OneHolder(approvals) /\ OneHolder(releases)
  BY DEF FlocksHeld
<1>2. \A fewer : /\ fewer \subseteq challenges => OneHolder(fewer)
                 /\ fewer \subseteq approvals => OneHolder(fewer)
                 /\ fewer \subseteq releases => OneHolder(fewer)
  BY <1>1 DEF OneHolder
<1>3. OneHolder(challenges')
  <2>1. ASSUME NEW s, NEW e, ChallengeBegin(s, e) PROVE OneHolder(challenges')
    BY <1>1, <2>1, HolderStays DEF ChallengeBegin
  <2>2. ASSUME NEW c \in challenges, ChallengePreflight(c) PROVE OneHolder(challenges')
    BY <1>1, <2>2, HolderMoves DEF ChallengePreflight
  <2>3. ASSUME NEW c \in challenges, ChallengeBuild(c) PROVE OneHolder(challenges')
    <3> DEFINE d == [c EXCEPT !.step = "built", !.issued = now]
    <3>1. challenges' = Advance(challenges, c, TRUE, d) /\ c.step # "waiting"
      BY <2>3 DEF ChallengeBuild, Advance
    <3> HIDE DEF d
    <3> QED
      BY <1>1, <3>1, HolderMoves
  <2>4. ASSUME NEW c \in challenges, ChallengePersist(c) PROVE OneHolder(challenges')
    BY <1>1, <2>4, HolderMoves DEF ChallengePersist
  <2>5. CASE challenges' \subseteq challenges
    BY <1>2, <2>5
  <2> QED
    BY <2>1, <2>2, <2>3, <2>4, <2>5
    DEF Next, Step, OperatorCall, ChallengeStep, ApprovalStep, ReleaseStep, Restart,
        authorizationVars, calls, Tick, SetMode, Revalidate, PrepareSimulation,
        ChallengeConsume, ApprovalBegin, ApprovalBuild, ApprovalPersist, ReleaseBegin,
        ReleasePreexecute, ReleaseConsume, ReleaseGate, ReleaseTicket, ReleaseFinish
<1>4. OneHolder(approvals')
  <2>1. ASSUME NEW h, NEW u, ApprovalBegin(h, u) PROVE OneHolder(approvals')
    BY <1>1, <2>1, HolderStays DEF ApprovalBegin
  <2>2. ASSUME NEW c \in approvals, ApprovalBuild(c) PROVE OneHolder(approvals')
    BY <1>1, <2>2, HolderMoves DEF ApprovalBuild
  <2>3. CASE approvals' \subseteq approvals
    BY <1>2, <2>3
  <2> QED
    BY <2>1, <2>2, <2>3
    DEF Next, Step, OperatorCall, ChallengeStep, ApprovalStep, ReleaseStep, Restart,
        authorizationVars, calls, Tick, SetMode, Revalidate, PrepareSimulation,
        ChallengeBegin, ChallengePreflight, ChallengeBuild, ChallengePersist,
        ChallengeConsume, ApprovalPersist, ReleaseBegin, ReleasePreexecute,
        ReleaseConsume, ReleaseGate, ReleaseTicket, ReleaseFinish
<1>5. OneHolder(releases')
  <2>1. ASSUME NEW h, NEW i, NEW e, ReleaseBegin(h, i, e) PROVE OneHolder(releases')
    BY <1>1, <2>1, HolderStays DEF ReleaseBegin
  <2>2. ASSUME NEW c \in releases,
               \/ ReleasePreexecute(c) \/ ReleaseConsume(c)
               \/ ReleaseGate(c) \/ ReleaseTicket(c)
        PROVE  OneHolder(releases')
    BY <1>1, <2>2, HolderMoves
    DEF ReleasePreexecute, ReleaseConsume, ReleaseGate, ReleaseTicket
  <2>3. CASE releases' \subseteq releases
    BY <1>2, <2>3
  <2> QED
    BY <2>1, <2>2, <2>3
    DEF Next, Step, OperatorCall, ChallengeStep, ApprovalStep, ReleaseStep, Restart,
        authorizationVars, calls, Tick, SetMode, Revalidate, PrepareSimulation,
        ChallengeBegin, ChallengePreflight, ChallengeBuild, ChallengePersist,
        ChallengeConsume, ApprovalBegin, ApprovalBuild, ApprovalPersist, ReleaseFinish
<1> QED
  BY <1>3, <1>4, <1>5 DEF FlocksHeld

LEMMA AlwaysOneHolder == Spec => []FlocksHeld
<1>1. Init => FlocksHeld
  BY DEF Init, FlocksHeld, OneHolder
<1> QED
  BY <1>1, FlockStep, PTL DEF Spec


-----------------------------------------------------------------------------
(* Tickets. *)

\* The jobs a record refers to do not change.
LEMMA SupportStays ==
  ASSUME Grown, NEW e \in DOMAIN evidence, NEW s \in DOMAIN simulations
  PROVE  /\ Supports(e, s) => Supports(e, s)'
         /\ evidence'[e] = evidence[e] /\ simulations'[s] = simulations[s]
BY DEF Grown, Keeps, Supports

LEMMA TicketStays ==
  ASSUME TypeInv, Grown, NEW t, TicketOK(t), TicketTrue(t)
  PROVE  TicketTrue(t)'
<1>1. /\ t.issued \in Nat /\ now \in Nat /\ now' \in Nat /\ now <= now'
      /\ t.evidence \in DOMAIN evidence /\ t.simulation \in DOMAIN simulations
  BY DEF TypeInv, ClockOK, TicketOK, Ticket, Grown
<1> QED
  BY <1>1, SupportStays DEF TicketTrue

LEMMA ChallengeStays ==
  ASSUME TypeInv, Grown, tickets' = tickets, NEW c, ChallengeOK(c), ChallengeTrue(c)
  PROVE  ChallengeTrue(c)'
<1>1. /\ c.issued \in Nat /\ now \in Nat /\ now' \in Nat /\ now <= now'
      /\ c.evidence \in DOMAIN evidence /\ c.simulation \in DOMAIN simulations
  BY DEF TypeInv, ClockOK, ChallengeOK, Challenge, Grown
<1> QED
  BY <1>1, SupportStays DEF ChallengeTrue, SimulationUsed

\* A step that issues no ticket.
LEMMA SameTickets ==
  ASSUME TypeInv, Grown, TicketInv, tickets' = tickets,
         \A c \in challenges' : c \in challenges \/ ChallengeTrue(c)'
  PROVE  TicketInv'
<1>1. /\ \A i \in DOMAIN tickets : TicketOK(tickets[i]) /\ TicketTrue(tickets[i])
      /\ \A c \in challenges : ChallengeOK(c) /\ ChallengeTrue(c)
  BY DEF TypeInv, RegistriesOK, CallsOK, TicketInv
<1>2. \A i \in DOMAIN tickets' : TicketTrue(tickets[i])'
  BY <1>1, TicketStays
<1>3. \A c \in challenges' : ChallengeTrue(c)'
  BY <1>1, ChallengeStays
<1>4. OneTicketPerSimulation'
  BY DEF TicketInv, OneTicketPerSimulation
<1> QED
  BY <1>2, <1>3, <1>4 DEF TicketInv

LEMMA TicketStep ==
  TypeInv /\ FlocksHeld /\ TicketInv /\ [Next]_authorizationVars => TicketInv'
<1> SUFFICES ASSUME TypeInv, FlocksHeld, TicketInv, [Next]_authorizationVars
             PROVE  TicketInv'
  OBVIOUS
<1> USE DEF Challenge
<1>1. Grown
  BY StepGrows
<1>2. ASSUME NEW s \in DOMAIN simulations, NEW e \in DOMAIN evidence, ChallengeBegin(s, e)
      PROVE  TicketInv'
  <2> PICK c : c = [step |-> "waiting", simulation |-> s, evidence |-> e,
                    issued |-> 0, ticket |-> 0]
    OBVIOUS
  <2>1. challenges' = challenges \cup {c} /\ tickets' = tickets
    BY <1>2 DEF ChallengeBegin, registries
  <2>2. ChallengeTrue(c)'
    BY DEF ChallengeTrue
  <2> QED
    BY <1>1, <2>1, <2>2, SameTickets
<1>3. ASSUME NEW c \in challenges, ChallengePreflight(c) PROVE TicketInv'
  <2> PICK d : d = [c EXCEPT !.step = "preflighted"]
    OBVIOUS
  <2> DEFINE ok == ~SimulationUsed(c.simulation) /\ TicketEvidence(c)
  <2>1. ChallengeOK(c)
    BY DEF TypeInv, CallsOK
  <2>2. /\ d.step = "preflighted" /\ d.simulation = c.simulation
        /\ d.evidence = c.evidence /\ ChallengeOK(d)
    BY <2>1 DEF ChallengeOK
  <2>3. challenges' = Advance(challenges, c, ok, d) /\ tickets' = tickets
    BY <1>3 DEF ChallengePreflight, registries
  <2>4. ok => ChallengeTrue(d)
    BY <2>2 DEF TicketEvidence, ChallengeTrue, Supports
  <2> HIDE DEF ok
  <2>5. \A x \in challenges' : x \in challenges \/ (ok /\ x = d)
    BY <2>3 DEF Advance
  <2> QED
    BY <1>1, <2>2, <2>3, <2>4, <2>5, ChallengeStays, SameTickets
<1>4. ASSUME NEW c \in challenges, ChallengeBuild(c) PROVE TicketInv'
  <2> PICK d : d = [c EXCEPT !.step = "built", !.issued = now]
    OBVIOUS
  <2>1. ChallengeOK(c) /\ ChallengeTrue(c) /\ c.step = "preflighted" /\ now \in Nat
    BY <1>4 DEF TypeInv, CallsOK, ClockOK, TicketInv, ChallengeBuild
  <2>2. /\ d.step = "built" /\ d.simulation = c.simulation
        /\ d.evidence = c.evidence /\ d.issued = now /\ ChallengeOK(d)
    BY <2>1 DEF ChallengeOK
  <2>3. challenges' = (challenges \ {c}) \cup {d} /\ tickets' = tickets
    BY <1>4 DEF ChallengeBuild, registries
  <2>4. evidence[c.evidence].at <= now
    BY <2>1 DEF TypeInv, JobsOK, ChallengeOK
  <2>5. ChallengeTrue(d)
    BY <2>1, <2>2, <2>4 DEF ChallengeTrue
  <2> QED
    BY <1>1, <2>2, <2>3, <2>5, ChallengeStays, SameTickets
<1>5. ASSUME NEW c \in challenges, ChallengePersist(c) PROVE TicketInv'
  <2> PICK t : t = [simulation |-> c.simulation, guid |-> simulations[c.simulation].guid,
                    evidence |-> c.evidence, issued |-> c.issued,
                    expires |-> c.issued + TicketTTL]
    OBVIOUS
  <2> PICK d : d = [c EXCEPT !.step = "persisted", !.ticket = Len(tickets) + 1]
    OBVIOUS
  <2> DEFINE ok == now < c.issued + TicketTTL /\ HasRoom(tickets, "tickets")
             n == Len(tickets) + 1
  <2>1. /\ ChallengeOK(c) /\ ChallengeTrue(c) /\ c.step = "built" /\ now \in Nat
        /\ tickets \in Seq(Ticket)
    BY <1>5 DEF TypeInv, CallsOK, ClockOK, RegistriesOK, TicketInv, ChallengePersist
  <2>2. /\ tickets' = IF ok THEN Append(tickets, t) ELSE tickets
        /\ challenges' = Advance(challenges, c, ok, d)
    BY <1>5 DEF ChallengePersist
  <2>3. TicketOK(t)
    BY <2>1, ElementTypes, AuthorizationAssumption DEF ChallengeOK, TicketOK, Ticket, Index
  <2>4. TicketTrue(t) /\ t.simulation = c.simulation /\ ~SimulationUsed(t.simulation)
    BY <2>1 DEF ChallengeTrue, TicketTrue
  <2>5. CASE ok
    <3>1. /\ DOMAIN tickets' = DOMAIN tickets \cup {n} /\ tickets'[n] = t
          /\ n \notin DOMAIN tickets /\ \A i \in DOMAIN tickets : tickets'[i] = tickets[i]
      BY <2>1, <2>2, <2>3, <2>5, Appended DEF TicketOK, Keeps
    <3> HIDE DEF ok, n
    <3>2. \A i \in DOMAIN tickets : TicketOK(tickets[i]) /\ TicketTrue(tickets[i])
      BY DEF TypeInv, RegistriesOK, TicketInv
    <3>3. \A i \in DOMAIN tickets' : TicketTrue(tickets[i])'
      BY <1>1, <2>3, <2>4, <3>1, <3>2, TicketStays
    <3>4. OneTicketPerSimulation'
      BY <2>4, <3>1 DEF TicketInv, OneTicketPerSimulation, SimulationUsed
    <3>5. ASSUME NEW x \in challenges' PROVE ChallengeTrue(x)'
      <4>1. CASE x = d
        <5>1. /\ d.step = "persisted" /\ d.simulation = c.simulation
              /\ d.evidence = c.evidence
          BY <2>1 DEF ChallengeOK
        <5>2. Supports(c.evidence, c.simulation)'
          BY <1>1, <2>1, SupportStays DEF ChallengeOK, ChallengeTrue
        <5> QED
          BY <4>1, <5>1, <5>2 DEF ChallengeTrue
      <4>2. CASE x \in challenges /\ x # c
        <5>1. x.step = "waiting"
          BY <2>1, <4>2 DEF FlocksHeld, OneHolder
        <5> QED
          BY <5>1 DEF ChallengeTrue
      <4> QED
        BY <2>2, <4>1, <4>2 DEF Advance
    <3> QED
      BY <3>3, <3>4, <3>5 DEF TicketInv
  <2>6. CASE ~ok
    BY <1>1, <2>2, <2>6, SameTickets DEF Advance
  <2> QED
    BY <2>5, <2>6
<1>6. CASE tickets' = tickets /\ challenges' \subseteq challenges
  BY <1>1, <1>6, SameTickets
<1> QED
  BY <1>2, <1>3, <1>4, <1>5, <1>6
  DEF Next, Step, OperatorCall, ChallengeStep, ApprovalStep, ReleaseStep, Restart,
      authorizationVars, registries, calls, Tick, SetMode, Revalidate, PrepareSimulation,
      ChallengeConsume, ApprovalBegin, ApprovalBuild, ApprovalPersist, ReleaseBegin,
      ReleasePreexecute, ReleaseConsume, ReleaseGate, ReleaseTicket, ReleaseFinish

LEMMA AlwaysTicketed == Spec => []TicketInv
<1>1. Init => TicketInv
  BY DEF Init, TicketInv, OneTicketPerSimulation
<1> QED
  BY <1>1, TicketStep, AlwaysTyped, AlwaysOneHolder, PTL DEF Spec

\* A simulation gets one ticket, whatever challenges for it race, die between
\* two registries or are repeated.
THEOREM OneTicket == Spec => []OneTicketPerSimulation
<1>1. TicketInv => OneTicketPerSimulation
  BY DEF TicketInv
<1> QED
  BY <1>1, AlwaysTicketed, PTL

-----------------------------------------------------------------------------
(* Authorizations. *)

LEMMA AuthorizationStays ==
  ASSUME TypeInv, Grown, NEW a, AuthorizationOK(a), AuthorizationTrue(a)
  PROVE  AuthorizationTrue(a)'
<1>1. /\ a.persisted \in Nat /\ now \in Nat /\ now' \in Nat /\ now <= now'
      /\ tickets'[a.ticket] = tickets[a.ticket]
  BY DEF TypeInv, ClockOK, AuthorizationOK, Authorization, Grown, Keeps
<1> QED
  BY <1>1 DEF AuthorizationTrue

\* What is authorized stays so, and nothing else becomes so with a new ticket.
LEMMA AuthorizedStays ==
  ASSUME TypeInv, Grown, authorizations' = authorizations, NEW t \in DOMAIN tickets
  PROVE  Authorized(t)' <=> Authorized(t)
<1>1. /\ tickets'[t] = tickets[t]
      /\ \A i \in DOMAIN authorizations :
           tickets'[authorizations[i].ticket] = tickets[authorizations[i].ticket]
  BY DEF TypeInv, RegistriesOK, AuthorizationOK, Grown, Keeps
<1> QED
  BY <1>1 DEF Authorized

LEMMA ApprovalStays ==
  ASSUME TypeInv, Grown, authorizations' = authorizations,
         NEW c, ApprovalOK(c), ApprovalTrue(c)
  PROVE  ApprovalTrue(c)'
<1>1. /\ c.issued \in Nat /\ now \in Nat /\ now' \in Nat /\ now <= now'
      /\ c.ticket \in DOMAIN tickets /\ tickets'[c.ticket] = tickets[c.ticket]
  BY DEF TypeInv, ClockOK, ApprovalOK, Approval, Grown, Keeps
<1> QED
  BY <1>1, AuthorizedStays DEF ApprovalTrue

\* A step that authorizes nothing.
LEMMA SameAuthorizations ==
  ASSUME TypeInv, Grown, AuthorizationInv, authorizations' = authorizations,
         \A c \in approvals' : c \in approvals \/ ApprovalTrue(c)'
  PROVE  AuthorizationInv'
<1>1. /\ \A i \in DOMAIN authorizations :
           AuthorizationOK(authorizations[i]) /\ AuthorizationTrue(authorizations[i])
      /\ \A c \in approvals : ApprovalOK(c) /\ ApprovalTrue(c)
  BY DEF TypeInv, RegistriesOK, CallsOK, AuthorizationInv
<1>2. \A i \in DOMAIN authorizations' : AuthorizationTrue(authorizations[i])'
  BY <1>1, AuthorizationStays
<1>3. \A c \in approvals' : ApprovalTrue(c)'
  BY <1>1, ApprovalStays
<1>4. \A i \in DOMAIN authorizations :
        tickets'[authorizations[i].ticket] = tickets[authorizations[i].ticket]
  BY <1>1 DEF AuthorizationOK, Grown, Keeps
<1>5. OneAuthorizationPerSimulation'
  BY <1>4 DEF AuthorizationInv, OneAuthorizationPerSimulation
<1> QED
  BY <1>2, <1>3, <1>5 DEF AuthorizationInv

LEMMA AuthorizationStep ==
  TypeInv /\ FlocksHeld /\ TicketInv /\ AuthorizationInv /\ [Next]_authorizationVars
    => AuthorizationInv'
<1> SUFFICES ASSUME TypeInv, FlocksHeld, TicketInv, AuthorizationInv,
                    [Next]_authorizationVars
             PROVE  AuthorizationInv'
  OBVIOUS
<1> USE DEF Approval
<1>1. Grown
  BY StepGrows
<1>2. ASSUME NEW h \in Actor, NEW u \in DOMAIN ticketUses, ApprovalBegin(h, u)
      PROVE  AuthorizationInv'
  <2> PICK c : c = [step |-> "waiting", ticket |-> ticketUses[u].ticket, actor |-> h,
                    issued |-> 0, expires |-> 0]
    OBVIOUS
  <2>1. approvals' = approvals \cup {c} /\ authorizations' = authorizations
    BY <1>2 DEF ApprovalBegin, registries
  <2>2. ApprovalTrue(c)'
    BY DEF ApprovalTrue
  <2> QED
    BY <1>1, <2>1, <2>2, SameAuthorizations
<1>3. ASSUME NEW c \in approvals, ApprovalBuild(c) PROVE AuthorizationInv'
  <2> PICK d : d = [c EXCEPT !.step = "built", !.issued = now,
                             !.expires = AuthorizationExpiry(c.ticket)]
    OBVIOUS
  <2> DEFINE ok == ~Authorized(c.ticket) /\ now < tickets[c.ticket].expires
  <2>1. ApprovalOK(c) /\ now \in Nat /\ c.ticket \in DOMAIN tickets
    BY DEF TypeInv, CallsOK, ClockOK, ApprovalOK
  <2>2. /\ tickets[c.ticket].issued \in Nat /\ tickets[c.ticket].expires \in Nat
        /\ tickets[c.ticket].issued <= now
    BY <2>1, ElementTypes DEF Ticket, TicketInv, TicketTrue
  <2>3. /\ AuthorizationExpiry(c.ticket) \in Nat
        /\ AuthorizationExpiry(c.ticket) <= tickets[c.ticket].expires
    <3>1. now + AuthorizationTTL \in Nat
      BY <2>1, AuthorizationAssumption
    <3> QED
      BY <2>2, <3>1, SmallestOf DEF AuthorizationExpiry
  <2>4. /\ d.step = "built" /\ d.ticket = c.ticket /\ d.issued = now
        /\ d.expires = AuthorizationExpiry(c.ticket)
    BY <2>1 DEF ApprovalOK
  <2>5. ApprovalOK(d)
    BY <2>1, <2>3 DEF ApprovalOK
  <2>6. ok => ApprovalTrue(d)
    BY <2>1, <2>2, <2>3, <2>4 DEF ApprovalTrue
  <2>7. approvals' = Advance(approvals, c, ok, d) /\ authorizations' = authorizations
    BY <1>3 DEF ApprovalBuild, registries
  <2> HIDE DEF ok
  <2>8. \A x \in approvals' : x \in approvals \/ (ok /\ x = d)
    BY <2>7 DEF Advance
  <2> QED
    BY <1>1, <2>5, <2>6, <2>7, <2>8, ApprovalStays, SameAuthorizations
<1>4. ASSUME NEW c \in approvals, ApprovalPersist(c) PROVE AuthorizationInv'
  <2> PICK a : a = [ticket |-> c.ticket, guid |-> tickets[c.ticket].guid,
                    actor |-> c.actor, evidence |-> tickets[c.ticket].evidence,
                    issued |-> c.issued, persisted |-> now, expires |-> c.expires]
    OBVIOUS
  <2> DEFINE n == Len(authorizations) + 1
  <2>1. /\ ApprovalOK(c) /\ ApprovalTrue(c) /\ c.step = "built" /\ now \in Nat
        /\ authorizations \in Seq(Authorization) /\ TicketOK(tickets[c.ticket])
        /\ c.ticket \in Index
    BY <1>4, ElementTypes
    DEF TypeInv, CallsOK, ClockOK, RegistriesOK, AuthorizationInv, ApprovalPersist, ApprovalOK
  <2>2. AuthorizationOK(a)
    <3>1. /\ tickets[c.ticket].guid \in Guid /\ tickets[c.ticket].evidence \in Index
          /\ tickets[c.ticket].evidence \in DOMAIN evidence
      BY <2>1 DEF TicketOK, Ticket
    <3> QED
      BY <2>1, <3>1 DEF ApprovalOK, AuthorizationOK, Authorization
  <2>3. AuthorizationTrue(a) /\ a.ticket = c.ticket
    BY <2>1 DEF ApprovalTrue, AuthorizationTrue, ApprovalOK
  <2>4. approvals' = approvals \ {c}
    BY <1>4 DEF ApprovalPersist
  <2>5. CASE authorizations' = Append(authorizations, a)
    <3>1. /\ DOMAIN authorizations' = DOMAIN authorizations \cup {n}
          /\ authorizations'[n] = a /\ n \notin DOMAIN authorizations
          /\ \A i \in DOMAIN authorizations : authorizations'[i] = authorizations[i]
      BY <2>1, <2>2, <2>5, Appended DEF AuthorizationOK, Keeps
    <3> HIDE DEF n
    <3>2. /\ \A i \in DOMAIN authorizations :
               AuthorizationOK(authorizations[i]) /\ AuthorizationTrue(authorizations[i])
      BY DEF TypeInv, RegistriesOK, AuthorizationInv
    <3>3. \A i \in DOMAIN authorizations' : AuthorizationTrue(authorizations[i])'
      BY <1>1, <2>2, <2>3, <3>1, <3>2, AuthorizationStays
    <3>4. OneAuthorizationPerSimulation'
      <4>1. /\ tickets' = tickets /\ ~Authorized(c.ticket)
        BY <1>4, <2>1 DEF ApprovalPersist, ApprovalTrue
      <4> QED
        BY <2>3, <3>1, <4>1 DEF AuthorizationInv, OneAuthorizationPerSimulation, Authorized
    <3>5. ASSUME NEW x \in approvals' PROVE ApprovalTrue(x)'
      <4>1. x.step = "waiting"
        BY <2>1, <2>4 DEF FlocksHeld, OneHolder
      <4> QED
        BY <4>1 DEF ApprovalTrue
    <3> QED
      BY <3>3, <3>4, <3>5 DEF AuthorizationInv
  <2>6. CASE authorizations' = authorizations
    BY <1>1, <2>4, <2>6, SameAuthorizations
  <2> QED
    BY <1>4, <2>5, <2>6 DEF ApprovalPersist
<1>5. CASE authorizations' = authorizations /\ approvals' \subseteq approvals
  BY <1>1, <1>5, SameAuthorizations
<1> QED
  BY <1>2, <1>3, <1>4, <1>5
  DEF Next, Step, OperatorCall, ChallengeStep, ApprovalStep, ReleaseStep, Restart,
      authorizationVars, registries, calls, Tick, SetMode, Revalidate, PrepareSimulation,
      ChallengeBegin, ChallengePreflight, ChallengeBuild, ChallengePersist,
      ChallengeConsume, ReleaseBegin, ReleasePreexecute, ReleaseConsume, ReleaseGate,
      ReleaseTicket, ReleaseFinish

LEMMA AlwaysAuthorized == Spec => []AuthorizationInv
<1>1. Init => AuthorizationInv
  BY DEF Init, AuthorizationInv, OneAuthorizationPerSimulation
<1> QED
  BY <1>1, AuthorizationStep, AlwaysTyped, AlwaysOneHolder, AlwaysTicketed, PTL DEF Spec

-----------------------------------------------------------------------------
(* Consumptions. *)

\* What a release or a consumption rests on does not change.
LEMMA GroundsStay ==
  ASSUME Grown
  PROVE  /\ \A i \in DOMAIN authorizations, e \in DOMAIN evidence : \A actor, expires :
              Released(authorizations[i], actor, e, expires)
                => Released(authorizations[i], actor, e, expires)'
         /\ \A u \in DOMAIN authorizationUses : \A i, actor, expires :
              Stands(u, i, actor, expires) => Stands(u, i, actor, expires)'
BY DEF Grown, Keeps, Released, Stands

LEMMA UseStays ==
  ASSUME TypeInv, Grown, NEW u, AuthorizationUseOK(u), UseTrue(u)
  PROVE  UseTrue(u)'
<1>1. u.at \in Nat /\ now \in Nat /\ now' \in Nat /\ now <= now'
  BY DEF TypeInv, ClockOK, AuthorizationUseOK, AuthorizationUse, Grown
<1> QED
  BY <1>1, GroundsStay DEF UseTrue, AuthorizationUseOK

LEMMA ExecUseStays ==
  ASSUME TypeInv, Grown, NEW x, ExecUseOK(x), ExecUseTrue(x)
  PROVE  ExecUseTrue(x)'
<1>1. /\ authorizations'[x.authorization] = authorizations[x.authorization]
      /\ authorizationUses'[x.authorizationUse] = authorizationUses[x.authorizationUse]
  BY DEF Grown, Keeps, ExecUseOK
<1> QED
  BY <1>1, GroundsStay DEF ExecUseTrue, ExecUseOK

LEMMA ReleaseStays ==
  ASSUME Grown, NEW c, ReleaseOK(c), ReleaseTrue(c)
  PROVE  ReleaseTrue(c)'
BY GroundsStay DEF ReleaseTrue, ReleaseOK

\* So a step has to show only that what it adds is true.
LEMMA ReleaseInvStep ==
  ASSUME TypeInv, Grown, ReleaseInv,
         \A u \in DOMAIN authorizationUses' :
           u \in DOMAIN authorizationUses \/ UseTrue(authorizationUses[u])',
         \/ execUses' = execUses
         \/ \E x : /\ execUses' = Append(execUses, x)
                   /\ x \in ExecUse /\ ExecUseTrue(x)'
                   /\ ~Spent(execUses, x.authorization),
         \A c \in releases' : c \in releases \/ ReleaseTrue(c)'
  PROVE  ReleaseInv'
<1>1. /\ \A u \in DOMAIN authorizationUses :
           /\ AuthorizationUseOK(authorizationUses[u]) /\ UseTrue(authorizationUses[u])
           /\ authorizationUses'[u] = authorizationUses[u]
      /\ \A i \in DOMAIN execUses : ExecUseOK(execUses[i]) /\ ExecUseTrue(execUses[i])
      /\ \A c \in releases : ReleaseOK(c) /\ ReleaseTrue(c)
      /\ execUses \in Seq(ExecUse)
  BY DEF TypeInv, RegistriesOK, CallsOK, ReleaseInv, Grown, Keeps
<1>2. \A u \in DOMAIN authorizationUses' : UseTrue(authorizationUses[u])'
  BY <1>1, UseStays
<1>3. \A c \in releases' : ReleaseTrue(c)'
  BY <1>1, ReleaseStays
<1>4. CASE execUses' = execUses
  <2>1. OneUsePerAuthorization'
    BY <1>4 DEF ReleaseInv, OneUsePerAuthorization
  <2>2. \A i \in DOMAIN execUses' : ExecUseTrue(execUses[i])'
    BY <1>1, <1>4, ExecUseStays
  <2> QED
    BY <1>2, <1>3, <2>1, <2>2 DEF ReleaseInv
<1>5. ASSUME NEW x \in ExecUse, execUses' = Append(execUses, x), ExecUseTrue(x)',
             ~Spent(execUses, x.authorization)
      PROVE  ReleaseInv'
  <2> DEFINE n == Len(execUses) + 1
  <2>1. /\ DOMAIN execUses' = DOMAIN execUses \cup {n} /\ execUses'[n] = x
        /\ n \notin DOMAIN execUses /\ \A i \in DOMAIN execUses : execUses'[i] = execUses[i]
    BY <1>1, <1>5, Appended DEF Keeps
  <2> HIDE DEF n
  <2>2. OneUsePerAuthorization'
    BY <1>5, <2>1 DEF ReleaseInv, OneUsePerAuthorization, Spent
  <2>3. \A i \in DOMAIN execUses' : ExecUseTrue(execUses[i])'
    BY <1>1, <1>5, <2>1, ExecUseStays
  <2> QED
    BY <1>2, <1>3, <2>2, <2>3 DEF ReleaseInv
<1> QED
  BY <1>4, <1>5

\* The gate and the ticket shorten what the call may still do.
LEMMA Shorter ==
  ASSUME NEW c, NEW d, ReleaseOK(c), ReleaseTrue(c), c.step \in {"consumed", "gated"},
         d.step \in {"gated", "ticketed"}, d.expires \in Nat, d.expires <= c.expires,
         d.authorization = c.authorization, d.evidence = c.evidence, d.actor = c.actor,
         d.use = c.use, TypeInv
  PROVE  ReleaseTrue(d)
<1>1. /\ c.expires \in Nat /\ authorizations[c.authorization].expires \in Nat
      /\ authorizationUses[c.use].expires \in Nat
      /\ evidence[c.evidence].at + EvidenceMaxAge + PreexecutionTTL \in Nat
  BY ElementTypes, AuthorizationAssumption
  DEF ReleaseOK, Release, Authorization, AuthorizationUse
<1> QED
  BY <1>1 DEF ReleaseTrue, Released, Stands

LEMMA ReleaseGates ==
  ASSUME TypeInv, Grown, ReleaseInv, NEW c \in releases, ReleaseGate(c) \/ ReleaseTicket(c)
  PROVE  ReleaseInv'
<1>1. PICK step \in {"gated", "ticketed"}, ttl \in Nat \ {0} :
        /\ c.step \in {"consumed", "gated"}
        /\ releases' = Advance(releases, c, now < c.expires,
             [c EXCEPT !.step = step, !.expires = MinOf({now + ttl, c.expires})])
        /\ UNCHANGED registries
  BY AuthorizationAssumption DEF ReleaseGate, ReleaseTicket, ExecTicketExpiry
<1> PICK d : d = [c EXCEPT !.step = step, !.expires = MinOf({now + ttl, c.expires})]
  OBVIOUS
<1>2. /\ ReleaseOK(c) /\ ReleaseTrue(c) /\ c.expires \in Nat /\ now + ttl \in Nat
      /\ c \in Release
  BY DEF TypeInv, CallsOK, ClockOK, ReleaseInv, ReleaseOK, Release
<1>3. MinOf({now + ttl, c.expires}) \in Nat /\ MinOf({now + ttl, c.expires}) <= c.expires
  BY <1>2, SmallestOf
<1>4. /\ d.step = step /\ d.expires = MinOf({now + ttl, c.expires})
      /\ d.authorization = c.authorization /\ d.evidence = c.evidence
      /\ d.actor = c.actor /\ d.use = c.use
  BY <1>2 DEF Release
<1>5. ReleaseOK(d)
  BY <1>1, <1>2, <1>3 DEF ReleaseOK, Release
<1>6. ReleaseTrue(d)
  <2>1. /\ c.step \in {"consumed", "gated"} /\ d.step \in {"gated", "ticketed"}
        /\ d.expires \in Nat /\ d.expires <= c.expires
    BY <1>1, <1>3, <1>4
  <2> QED
    BY <1>2, <1>4, <2>1, Shorter
<1>7. ReleaseTrue(d)'
  BY <1>5, <1>6, ReleaseStays
<1>8. \A x \in releases' : x \in releases \/ x = d
  BY <1>1, CallSteps
<1> QED
  BY <1>1, <1>7, <1>8, ReleaseInvStep DEF registries

LEMMA ReleasePreexecutes ==
  ASSUME TypeInv, Grown, ReleaseInv, NEW c \in releases, ReleasePreexecute(c)
  PROVE  ReleaseInv'
<1> PICK d : d = [c EXCEPT !.step = "preexecuted",
                    !.expires = MinOf({now + PreexecutionTTL,
                                       authorizations[c.authorization].expires})]
  OBVIOUS
<1> DEFINE a == authorizations[c.authorization]
           earliest == MinOf({now + PreexecutionTTL, a.expires})
           ok == SameOperator(c) /\ now < a.expires /\ PreexecutionEvidence(c)
<1>1. /\ ReleaseOK(c) /\ c \in Release /\ now \in Nat /\ c.authorization \in DOMAIN authorizations
      /\ c.evidence \in DOMAIN evidence
  BY DEF TypeInv, CallsOK, ClockOK, ReleaseOK
<1>2. /\ a.expires \in Nat /\ evidence[c.evidence].at \in Nat /\ evidence[c.evidence].at <= now
      /\ EvidenceMaxAge \in Nat /\ PreexecutionTTL \in Nat /\ now + PreexecutionTTL \in Nat
  <2>1. EvidenceMaxAge \in Nat /\ PreexecutionTTL \in Nat
    BY AuthorizationAssumption
  <2>2. a.expires \in Nat /\ evidence[c.evidence].at \in Nat
    BY <1>1, ElementTypes DEF Authorization
  <2>3. evidence[c.evidence].at <= now
    BY <1>1 DEF TypeInv, JobsOK
  <2> QED
    BY <1>1, <2>1, <2>2, <2>3
<1>3. earliest \in Nat /\ earliest <= now + PreexecutionTTL /\ earliest <= a.expires
  BY <1>2, SmallestOf
<1>4. /\ releases' = Advance(releases, c, ok, d) /\ UNCHANGED registries
  BY DEF ReleasePreexecute
<1>5. /\ d.step = "preexecuted" /\ d.expires = earliest
      /\ d.authorization = c.authorization /\ d.evidence = c.evidence /\ d.actor = c.actor
  BY <1>1 DEF Release
<1>6. ReleaseOK(d)
  BY <1>1, <1>3 DEF ReleaseOK, Release
<1> HIDE DEF earliest
<1>7. ASSUME ok PROVE ReleaseTrue(d)
  <2>1. now <= evidence[c.evidence].at + EvidenceMaxAge
    BY <1>1, <1>2, <1>7 DEF PreexecutionEvidence
  <2>2. earliest <= evidence[c.evidence].at + EvidenceMaxAge + PreexecutionTTL
    BY <1>1, <1>2, <1>3, <2>1
  <2> QED
    BY <1>3, <1>5, <1>7, <2>2
    DEF PreexecutionEvidence, SameOperator, ReleaseTrue, Released
<1> HIDE DEF ok
<1>8. \A x \in releases' : x \in releases \/ (ok /\ x = d)
  BY <1>4 DEF Advance
<1>9. ok => ReleaseTrue(d)'
  BY <1>6, <1>7, ReleaseStays
<1> QED
  BY <1>4, <1>8, <1>9, ReleaseInvStep DEF registries

LEMMA ReleaseConsumes ==
  ASSUME TypeInv, Grown, ReleaseInv, NEW c \in releases, ReleaseConsume(c)
  PROVE  ReleaseInv'
<1> PICK u : u = [authorization |-> c.authorization,
                  guid |-> authorizations[c.authorization].guid, actor |-> c.actor,
                  evidence |-> c.evidence, at |-> now, expires |-> c.expires]
  OBVIOUS
<1> PICK d : d = [c EXCEPT !.step = "consumed", !.use = NewUse]
  OBVIOUS
<1> PICK n : n = Len(authorizationUses) + 1
  OBVIOUS
<1> DEFINE ok == /\ now < c.expires
                 /\ HasRoom(authorizationUses, "authorizationUses")
                 /\ ~Spent(authorizationUses, c.authorization)
<1>1. /\ ReleaseOK(c) /\ ReleaseTrue(c) /\ c \in Release /\ c.step = "preexecuted"
      /\ now \in Nat /\ authorizationUses \in Seq(AuthorizationUse) /\ c.expires \in Nat
  BY DEF TypeInv, CallsOK, ClockOK, RegistriesOK, ReleaseInv, ReleaseConsume,
      ReleaseOK, Release
<1>2. /\ authorizationUses' = IF ok THEN Append(authorizationUses, u) ELSE authorizationUses
      /\ releases' = Advance(releases, c, ok, d) /\ execUses' = execUses
  BY DEF ReleaseConsume
<1>3. /\ d.step = "consumed" /\ d.use = n
      /\ d.authorization = c.authorization /\ d.evidence = c.evidence
      /\ d.actor = c.actor /\ d.expires = c.expires
  BY <1>1 DEF Release, NewUse
<1>4. AuthorizationUseOK(u)
  <2>1. authorizations[c.authorization].guid \in Guid /\ c.authorization \in Index
    BY <1>1, ElementTypes DEF ReleaseOK, Authorization
  <2> QED
    BY <1>1, <2>1 DEF ReleaseOK, Release, AuthorizationUseOK, AuthorizationUse
<1>5. UseTrue(u)
  BY <1>1 DEF ReleaseTrue, UseTrue
<1>6. CASE ok
  <2>1. /\ DOMAIN authorizationUses' = DOMAIN authorizationUses \cup {n}
        /\ authorizationUses'[n] = u
    BY <1>1, <1>2, <1>4, <1>6, Appended DEF AuthorizationUseOK
  <2> HIDE DEF ok
  <2>2. UseTrue(u)'
    BY <1>4, <1>5, UseStays
  <2>3. ReleaseTrue(d)'
    <3>1. Released(authorizations[c.authorization], c.actor, c.evidence, c.expires)'
      BY <1>1, GroundsStay DEF ReleaseTrue, ReleaseOK
    <3>2. Stands(n, c.authorization, c.actor, c.expires)'
      BY <1>1, <2>1 DEF Stands
    <3> QED
      BY <1>3, <3>1, <3>2 DEF ReleaseTrue
  <2>4. \A x \in releases' : x \in releases \/ x = d
    BY <1>2, CallSteps
  <2> QED
    BY <1>2, <2>1, <2>2, <2>3, <2>4, ReleaseInvStep
<1>7. CASE ~ok
  BY <1>2, <1>7, ReleaseInvStep DEF Advance
<1> QED
  BY <1>6, <1>7

LEMMA ReleaseFinishes ==
  ASSUME TypeInv, Grown, ReleaseInv, NEW c \in releases, ReleaseFinish(c)
  PROVE  ReleaseInv'
<1> PICK x : x = [authorizationUse |-> c.use, authorization |-> c.authorization,
                  guid |-> authorizations[c.authorization].guid,
                  actor |-> c.actor, at |-> now, expires |-> c.expires]
  OBVIOUS
<1>1. /\ ReleaseOK(c) /\ ReleaseTrue(c) /\ c.step = "ticketed" /\ now \in Nat
      /\ c.use \in DOMAIN authorizationUses
  BY DEF TypeInv, CallsOK, ClockOK, ReleaseInv, ReleaseFinish, ReleaseOK
<1>2. /\ authorizations[c.authorization].guid \in Guid
      /\ c.authorization \in Index /\ c.use \in Index
  BY <1>1, ElementTypes DEF ReleaseOK, Authorization
<1>3. ExecUseOK(x)
  BY <1>1, <1>2 DEF ReleaseOK, Release, ExecUseOK, ExecUse
<1>4. authorizationUses[c.use].at <= now
  BY <1>1 DEF ReleaseInv, UseTrue
<1>5. now < c.expires => ExecUseTrue(x)
  BY <1>1, <1>4 DEF ReleaseTrue, ExecUseTrue
<1>6. now < c.expires => ExecUseTrue(x)'
  BY <1>3, <1>5, ExecUseStays
<1>7. /\ releases' \subseteq releases /\ authorizationUses' = authorizationUses
      /\ \/ execUses' = execUses
         \/ /\ execUses' = Append(execUses, x) /\ now < c.expires
            /\ ~Spent(execUses, c.authorization)
  BY DEF ReleaseFinish
<1> QED
  BY <1>3, <1>6, <1>7, ReleaseInvStep DEF ExecUseOK

LEMMA ReleasesStep ==
  TypeInv /\ ReleaseInv /\ [Next]_authorizationVars => ReleaseInv'
<1> SUFFICES ASSUME TypeInv, ReleaseInv, [Next]_authorizationVars
             PROVE  ReleaseInv'
  OBVIOUS
<1>1. Grown
  BY StepGrows
<1>2. ASSUME NEW h \in Actor, NEW i \in DOMAIN authorizations, NEW e \in DOMAIN evidence,
             ReleaseBegin(h, i, e)
      PROVE  ReleaseInv'
  <2> PICK c : c = [step |-> "waiting", authorization |-> i, evidence |-> e, actor |-> h,
                    use |-> 0, expires |-> 0]
    OBVIOUS
  <2>1. releases' = releases \cup {c} /\ UNCHANGED registries
    BY <1>2 DEF ReleaseBegin
  <2>2. ReleaseTrue(c)'
    BY DEF ReleaseTrue
  <2> QED
    BY <1>1, <2>1, <2>2, ReleaseInvStep DEF registries
<1>3. ASSUME UNCHANGED <<authorizationUses, execUses>>, releases' \subseteq releases
      PROVE  ReleaseInv'
  BY <1>1, <1>3, ReleaseInvStep
<1> QED
  BY <1>1, <1>2, <1>3, ReleasePreexecutes, ReleaseConsumes, ReleaseGates, ReleaseFinishes
  DEF Next, Step, OperatorCall, ChallengeStep, ApprovalStep, ReleaseStep, Restart,
      authorizationVars, registries, calls, Tick, SetMode, Revalidate, PrepareSimulation,
      ChallengeBegin, ChallengePreflight, ChallengeBuild, ChallengePersist,
      ChallengeConsume, ApprovalBegin, ApprovalBuild, ApprovalPersist

LEMMA AlwaysReleased == Spec => []ReleaseInv
<1>1. Init => ReleaseInv
  BY DEF Init, ReleaseInv, OneUsePerAuthorization
<1> QED
  BY <1>1, ReleasesStep, AlwaysTyped, PTL DEF Spec

-----------------------------------------------------------------------------
(* The execution ticket, and the step that consumes it. *)

\* A drawn ticket ends within its lifetime.
TicketsEnd == \A c \in releases : c.step = "ticketed" => c.expires <= now + ExecTicketTTL

LEMMA TicketsEndStep == TypeInv /\ TicketsEnd /\ [Next]_authorizationVars => TicketsEnd'
<1> SUFFICES ASSUME TypeInv, TicketsEnd, [Next]_authorizationVars
             PROVE  TicketsEnd'
  OBVIOUS
<1>1. now \in Nat /\ now' \in Nat /\ now <= now' /\ ExecTicketTTL \in Nat
  BY StepGrows, AuthorizationAssumption DEF TypeInv, ClockOK, Grown
<1>2. /\ \A c \in releases : c \in Release /\ c.expires \in Nat
      /\ \A c \in releases' : c.expires \in Nat
  BY TypeStep DEF TypeInv, CallsOK, ReleaseOK, Release
<1>3. ASSUME \A d \in releases' :
               d \in releases \/ (d.step = "ticketed" => d.expires <= now + ExecTicketTTL)
      PROVE  TicketsEnd'
  BY <1>1, <1>2, <1>3 DEF TicketsEnd
<1>4. ASSUME NEW c \in releases, NEW ok, NEW next, releases' = Advance(releases, c, ok, next),
             next.step = "ticketed" => next.expires <= now + ExecTicketTTL
      PROVE  TicketsEnd'
  BY <1>3, <1>4, CallSteps
<1>5. ASSUME NEW c \in releases, ReleaseTicket(c) PROVE TicketsEnd'
  <2> PICK d : d = [c EXCEPT !.step = "ticketed", !.expires = ExecTicketExpiry(c)]
    OBVIOUS
  <2>1. d.expires = MinOf({now + ExecTicketTTL, c.expires})
    BY <1>2 DEF Release, ExecTicketExpiry
  <2>2. d.expires <= now + ExecTicketTTL
    BY <1>1, <1>2, <2>1, SmallestOf
  <2> QED
    BY <1>4, <1>5, <2>2 DEF ReleaseTicket
<1>6. ASSUME NEW c \in releases, ReleasePreexecute(c) PROVE TicketsEnd'
  <2> PICK d : d = [c EXCEPT !.step = "preexecuted",
                      !.expires = MinOf({now + PreexecutionTTL,
                                         authorizations[c.authorization].expires})]
    OBVIOUS
  <2>1. d.step # "ticketed"
    BY <1>2 DEF Release
  <2> QED
    BY <1>4, <1>6, <2>1 DEF ReleasePreexecute
<1>7. ASSUME NEW c \in releases, ReleaseConsume(c) PROVE TicketsEnd'
  <2> PICK d : d = [c EXCEPT !.step = "consumed", !.use = NewUse]
    OBVIOUS
  <2>1. d.step # "ticketed"
    BY <1>2 DEF Release
  <2> QED
    BY <1>4, <1>7, <2>1 DEF ReleaseConsume
<1>8. ASSUME NEW c \in releases, ReleaseGate(c) PROVE TicketsEnd'
  <2> PICK d : d = [c EXCEPT !.step = "gated", !.expires = MinOf({now + GateTTL, c.expires})]
    OBVIOUS
  <2>1. d.step # "ticketed"
    BY <1>2 DEF Release
  <2> QED
    BY <1>4, <1>8, <2>1 DEF ReleaseGate
<1>9. ASSUME NEW h, NEW i, NEW e, ReleaseBegin(h, i, e) PROVE TicketsEnd'
  BY <1>3, <1>9 DEF ReleaseBegin
<1>10. ASSUME releases' \subseteq releases PROVE TicketsEnd'
  BY <1>3, <1>10
<1> QED
  BY <1>5, <1>6, <1>7, <1>8, <1>9, <1>10
  DEF Next, Step, OperatorCall, ChallengeStep, ApprovalStep, ReleaseStep, Restart,
      authorizationVars, calls, Tick, SetMode, Revalidate, PrepareSimulation,
      ChallengeBegin, ChallengePreflight, ChallengeBuild, ChallengePersist,
      ChallengeConsume, ApprovalBegin, ApprovalBuild, ApprovalPersist, ReleaseFinish

LEMMA AlwaysEnd == Spec => []TicketsEnd
<1>1. Init => TicketsEnd
  BY DEF Init, TicketsEnd
<1> QED
  BY <1>1, TicketsEndStep, AlwaysTyped, PTL DEF Spec

\* What a step may add to the registry of execution consumptions.
Delivers(x) ==
  /\ execUses' = Append(execUses, x)
  /\ x \in ExecUse /\ now < x.expires /\ x.expires <= now + ExecTicketTTL
  /\ HasRoom(execUses, "execUses")
  /\ now' = now /\ mode' = mode

LEMMA OnlyFinishDelivers ==
  ASSUME TypeInv, TicketsEnd, [Next]_authorizationVars
  PROVE  execUses' = execUses \/ \E x : Delivers(x)
<1>1. ASSUME NEW c \in releases, ReleaseFinish(c)
      PROVE  execUses' = execUses \/ \E x : Delivers(x)
  <2> PICK x : x = [authorizationUse |-> c.use, authorization |-> c.authorization,
                    guid |-> authorizations[c.authorization].guid,
                    actor |-> c.actor, at |-> now, expires |-> c.expires]
    OBVIOUS
  <2>1. /\ ReleaseOK(c) /\ c.step = "ticketed" /\ now \in Nat
        /\ c.expires <= now + ExecTicketTTL
    BY <1>1 DEF TypeInv, CallsOK, ClockOK, ReleaseFinish, TicketsEnd
  <2>2. /\ authorizations[c.authorization].guid \in Guid
        /\ c.authorization \in Index /\ c.use \in Index
    BY <2>1, ElementTypes DEF ReleaseOK, Authorization
  <2>3. x \in ExecUse
    BY <2>1, <2>2 DEF ReleaseOK, Release, ExecUse
  <2>4. /\ now' = now /\ mode' = mode
        /\ \/ execUses' = execUses
           \/ /\ execUses' = Append(execUses, x)
              /\ now < c.expires /\ HasRoom(execUses, "execUses")
    BY <1>1 DEF ReleaseFinish
  <2> QED
    BY <2>1, <2>3, <2>4 DEF Delivers
<1> QED
  BY <1>1
  DEF Next, Step, OperatorCall, ChallengeStep, ApprovalStep, ReleaseStep, Restart,
      authorizationVars, registries, calls, Tick, SetMode, Revalidate, PrepareSimulation,
      ChallengeBegin, ChallengePreflight, ChallengeBuild, ChallengePersist,
      ChallengeConsume, ApprovalBegin, ApprovalBuild, ApprovalPersist, ReleaseBegin,
      ReleasePreexecute, ReleaseConsume, ReleaseGate, ReleaseTicket

\* There are no more simulations than the bound says.
FewSimulations == Len(simulations) <= MaxSimulations

LEMMA AlwaysFew == Spec => []FewSimulations
<1>1. Init => FewSimulations
  BY AuthorizationAssumption DEF Init, FewSimulations
<1>2. TypeInv /\ FewSimulations /\ [Next]_authorizationVars => FewSimulations'
  <2> SUFFICES ASSUME TypeInv, FewSimulations, [Next]_authorizationVars
               PROVE  Len(simulations') <= MaxSimulations
    BY DEF FewSimulations
  <2>1. ASSUME NEW e \in DOMAIN evidence, PrepareSimulation(e)
        PROVE  Len(simulations') <= MaxSimulations
    <3> DEFINE x == [guid |-> evidence[e].guid, liveAt |-> evidence[e].at]
    <3>1. simulations \in Seq(Simulation) /\ MaxSimulations \in Nat
      BY AuthorizationAssumption DEF TypeInv, JobsOK
    <3>2. x \in Simulation
      BY ElementTypes DEF Simulation
    <3>3. simulations' = Append(simulations, x) /\ Len(simulations) < MaxSimulations
      BY <2>1 DEF PrepareSimulation
    <3> HIDE DEF x
    <3>4. Len(simulations') = Len(simulations) + 1
      BY <3>1, <3>2, <3>3
    <3> QED
      BY <3>1, <3>3, <3>4
  <2> QED
    BY <2>1
    DEF FewSimulations, Next, Step, OperatorCall, ChallengeStep, ApprovalStep, ReleaseStep,
        Restart, authorizationVars, jobs, Tick, SetMode, Revalidate, ChallengeBegin,
        ChallengePreflight, ChallengeBuild, ChallengePersist, ChallengeConsume,
        ApprovalBegin, ApprovalBuild, ApprovalPersist, ReleaseBegin, ReleasePreexecute,
        ReleaseConsume, ReleaseGate, ReleaseTicket, ReleaseFinish
<1> QED
  BY <1>1, <1>2, AlwaysTyped, PTL DEF Spec

-----------------------------------------------------------------------------
(* What stands behind an execution consumption. *)

\* The records an execution consumption descends from, and what they say.
LEMMA Descent ==
  ASSUME TypeInv, TicketInv, AuthorizationInv, ReleaseInv, NEW i \in DOMAIN execUses
  PROVE  LET x == execUses[i] IN
         /\ ExecUseTrue(x)
         /\ x.authorizationUse \in DOMAIN authorizationUses /\ UseTrue(UseOf(x))
         /\ UseOf(x).authorization = x.authorization
         /\ x.authorization \in DOMAIN authorizations /\ AuthorizationTrue(AuthorizationOf(x))
         /\ AuthorizationOf(x).ticket \in DOMAIN tickets /\ TicketTrue(TicketOf(x))
         /\ x \in ExecUse /\ UseOf(x) \in AuthorizationUse
         /\ AuthorizationOf(x) \in Authorization /\ TicketOf(x) \in Ticket
<1>1. /\ ExecUseOK(execUses[i]) /\ ExecUseTrue(execUses[i])
  BY DEF TypeInv, RegistriesOK, ReleaseInv
<1>2. /\ execUses[i].authorizationUse \in DOMAIN authorizationUses
      /\ execUses[i].authorization \in DOMAIN authorizations
      /\ UseOf(execUses[i]).authorization = execUses[i].authorization
  BY <1>1 DEF ExecUseOK, ExecUseTrue, Stands, UseOf
<1>3. /\ UseTrue(UseOf(execUses[i]))
      /\ AuthorizationTrue(AuthorizationOf(execUses[i]))
      /\ AuthorizationOf(execUses[i]).ticket \in DOMAIN tickets
  BY <1>2 DEF ReleaseInv, AuthorizationInv, TypeInv, RegistriesOK, AuthorizationOK,
              UseOf, AuthorizationOf
<1>4. TicketTrue(TicketOf(execUses[i]))
  BY <1>3 DEF TicketInv, TicketOf
<1>5. /\ execUses[i] \in ExecUse /\ UseOf(execUses[i]) \in AuthorizationUse
      /\ AuthorizationOf(execUses[i]) \in Authorization /\ TicketOf(execUses[i]) \in Ticket
  BY <1>2, <1>3, ElementTypes DEF UseOf, AuthorizationOf, TicketOf
<1> QED
  BY <1>1, <1>2, <1>3, <1>4, <1>5

\* A prepared simulation leads to one execution consumption at most: one by
\* authorization, and one authorization by simulation, whatever calls race,
\* crash between two registries or are repeated by two operators.
THEOREM OneUse == Spec => []OneUsePerSimulation
<1>1. ASSUME TypeInv, TicketInv, AuthorizationInv, ReleaseInv
      PROVE  OneUsePerSimulation
  <2> SUFFICES ASSUME NEW i \in DOMAIN execUses, NEW j \in DOMAIN execUses,
                      TicketOf(execUses[i]).simulation = TicketOf(execUses[j]).simulation
               PROVE  i = j
    BY DEF OneUsePerSimulation
  <2>1. /\ execUses[i].authorization \in DOMAIN authorizations
        /\ execUses[j].authorization \in DOMAIN authorizations
    BY <1>1, Descent
  <2>2. execUses[i].authorization = execUses[j].authorization
    BY <1>1, <2>1
    DEF AuthorizationInv, OneAuthorizationPerSimulation, TicketOf, AuthorizationOf
  <2> QED
    BY <1>1, <2>2 DEF ReleaseInv, OneUsePerAuthorization
<1> QED
  BY <1>1, AlwaysTyped, AlwaysTicketed, AlwaysAuthorized, AlwaysReleased, PTL

\* Together: there is one way from a prepared simulation to its consumption.
THEOREM OneWay == Spec => []OneWayPerSimulation
BY OneTicket, OneUse, PTL DEF OneWayPerSimulation

\* No consumption outlives what it was drawn from, although every service reads
\* the clock for itself.
THEOREM LifetimesNest == Spec => []NestedLifetimes
<1>1. ASSUME TypeInv, TicketInv, AuthorizationInv, ReleaseInv
      PROVE  NestedLifetimes
  <2> SUFFICES ASSUME NEW i \in DOMAIN execUses
               PROVE  LET x == execUses[i] IN
                      /\ UseOf(x).at <= x.at /\ x.at < x.expires
                      /\ x.expires <= UseOf(x).expires
                      /\ UseOf(x).expires <= AuthorizationOf(x).expires
                      /\ AuthorizationOf(x).expires <= TicketOf(x).expires
    BY DEF NestedLifetimes
  <2> QED
    BY <1>1, Descent
    DEF ExecUseTrue, Stands, UseTrue, Released, AuthorizationTrue,
        UseOf, AuthorizationOf, TicketOf
<1> QED
  BY <1>1, AlwaysTyped, AlwaysTicketed, AlwaysAuthorized, AlwaysReleased, PTL

\* The evidence of the simulation, of the ticket and of the release is of one
\* object, each newer than the decision before it.
THEOREM EvidenceInOrder == Spec => []EvidenceOrder
<1>1. ASSUME TypeInv, TicketInv, AuthorizationInv, ReleaseInv
      PROVE  EvidenceOrder
  <2> SUFFICES ASSUME NEW i \in DOMAIN execUses
               PROVE  LET x == execUses[i]
                          a == AuthorizationOf(x)
                          ticketEvidence == evidence[TicketOf(x).evidence]
                          releaseEvidence == evidence[UseOf(x).evidence]
                      IN
                      /\ {SimulationOf(x).guid, ticketEvidence.guid, releaseEvidence.guid}
                           = {x.guid}
                      /\ SimulationOf(x).liveAt < ticketEvidence.at
                      /\ ticketEvidence.at <= a.issued
                      /\ a.persisted < releaseEvidence.at
                      /\ x.expires <= releaseEvidence.at + EvidenceMaxAge + PreexecutionTTL
    BY DEF EvidenceOrder
  <2> PICK x : x = execUses[i]
    OBVIOUS
  <2>1. /\ SimulationOf(x).guid = TicketOf(x).guid
        /\ evidence[TicketOf(x).evidence].guid = TicketOf(x).guid
        /\ SimulationOf(x).liveAt < evidence[TicketOf(x).evidence].at
        /\ evidence[TicketOf(x).evidence].at <= TicketOf(x).issued
    BY <1>1, Descent DEF TicketTrue, Supports, SimulationOf
  <2>2. /\ AuthorizationOf(x).guid = TicketOf(x).guid
        /\ TicketOf(x).issued <= AuthorizationOf(x).issued
    BY <1>1, Descent DEF AuthorizationTrue, TicketOf
  <2>3. /\ x.guid = AuthorizationOf(x).guid
        /\ evidence[UseOf(x).evidence].guid = AuthorizationOf(x).guid
        /\ AuthorizationOf(x).persisted < evidence[UseOf(x).evidence].at
        /\ UseOf(x).expires
             <= evidence[UseOf(x).evidence].at + EvidenceMaxAge + PreexecutionTTL
        /\ x.expires <= UseOf(x).expires
    BY <1>1, Descent DEF UseTrue, Released, ExecUseTrue, Stands, UseOf, AuthorizationOf
  <2>4. /\ evidence[TicketOf(x).evidence].at \in Nat /\ TicketOf(x).issued \in Nat
        /\ AuthorizationOf(x).issued \in Nat
    <3>1. TicketOf(x).evidence \in DOMAIN evidence
      BY <1>1, Descent DEF TypeInv, RegistriesOK, TicketOK, TicketOf
    <3> QED
      BY <1>1, <3>1, Descent, ElementTypes DEF Ticket, Authorization
  <2>5. /\ evidence[UseOf(x).evidence].at + EvidenceMaxAge + PreexecutionTTL \in Nat
        /\ UseOf(x).expires \in Nat /\ x.expires \in Nat
    <3>1. UseOf(x).evidence \in DOMAIN evidence
      BY <1>1, Descent DEF TypeInv, RegistriesOK, AuthorizationUseOK, UseOf
    <3>2. evidence[UseOf(x).evidence].at \in Nat
      BY <1>1, <3>1, ElementTypes
    <3> QED
      BY <1>1, <3>2, Descent, AuthorizationAssumption DEF AuthorizationUse, ExecUse
  <2> QED
    BY <2>1, <2>2, <2>3, <2>4, <2>5
<1> QED
  BY <1>1, AlwaysTyped, AlwaysTicketed, AlwaysAuthorized, AlwaysReleased, PTL

\* The person who authorized is the person the consumptions name.
THEOREM OneDecider == Spec => []SameOperatorThroughout
<1>1. ASSUME TypeInv, TicketInv, AuthorizationInv, ReleaseInv
      PROVE  SameOperatorThroughout
  BY <1>1, Descent
  DEF SameOperatorThroughout, ExecUseTrue, Stands, UseTrue, Released, UseOf, AuthorizationOf
<1> QED
  BY <1>1, AlwaysTyped, AlwaysTicketed, AlwaysAuthorized, AlwaysReleased, PTL
=============================================================================
