-------------------------- MODULE RestoreChain_proofs --------------------------
(***************************************************************************)
(* The controlled restore from a prepared simulation to the write, for any *)
(* operators, objects, workers, lifetimes, capacities and faults.          *)
(*                                                                         *)
(* Every behaviour of the chain is one of RestoreAuthorization and, with   *)
(* the consumptions read as grants, one of RestoreTransport: what each of  *)
(* them promises holds here, and the properties of the chain join the two. *)
(***************************************************************************)
EXTENDS RestoreChain, TLAPS

LEMMA ConstantsFit ==
  Authorization!AuthorizationAssumption /\ Execution!TransportAssumption
BY ChainAssumption

-----------------------------------------------------------------------------
(* The chain decides as RestoreAuthorization does. *)

LEMMA StepDecides == [Next]_chainVars => [Authorization!Next]_(Authorization!authorizationVars)
<1> SUFFICES ASSUME [Next]_chainVars
             PROVE  Authorization!Next \/ UNCHANGED Authorization!authorizationVars
  OBVIOUS
<1> USE DEF Authorization!Next, Authorization!Step
<1>1. CASE Tick
  BY <1>1 DEF Tick
<1>2. CASE SetMode
  BY <1>2 DEF SetMode
<1>3. ASSUME NEW g \in Guid, Revalidate(g)
      PROVE  Authorization!Next
  BY <1>3 DEF Revalidate
<1>4. CASE Decide
  BY <1>4 DEF Decide
<1>5. CASE UNCHANGED <<now, mode, decisionVars>>
  BY <1>5 DEF decisionVars, Authorization!authorizationVars, Authorization!registries,
              Authorization!calls, Authorization!jobs
<1>6. CASE Restart
  <2>1. CASE operatorCalls # {}
    BY <1>6, <2>1 DEF Restart, operatorCalls, Authorization!Restart,
       Authorization!registries, Authorization!jobs
  <2>2. CASE operatorCalls = {}
    BY <1>5, <1>6, <2>2 DEF Restart, operatorCalls, decisionVars
  <2> QED
    BY <2>1, <2>2
<1> QED
  BY <1>1, <1>2, <1>3, <1>4, <1>5, <1>6 DEF Next, Execute, chainVars

LEMMA Decides == Spec => Authorization!Spec
<1>1. Init => Authorization!Init
  BY DEF Init
<1> QED
  BY <1>1, StepDecides, PTL DEF Spec, Authorization!Spec

-----------------------------------------------------------------------------
(* The chain executes as RestoreTransport does. *)

GrantOfUse(x) == [guid |-> x.guid, actor |-> x.actor, expires |-> x.expires]

LEMMA GrantsAre ==
  ASSUME execUses \in Seq(Authorization!ExecUse)
  PROVE  /\ Grants \in Seq(Execution!ExecUse)
         /\ DOMAIN Grants = DOMAIN execUses /\ Len(Grants) = Len(execUses)
         /\ \A u \in DOMAIN execUses : Grants[u] = GrantOfUse(execUses[u])
<1> DEFINE n == Len(execUses)
<1>1. n \in Nat /\ DOMAIN execUses = 1 .. n
  OBVIOUS
<1>2. \A u \in 1 .. n : GrantOfUse(execUses[u]) \in Execution!ExecUse
  <2>1. \A u \in 1 .. n : execUses[u] \in Authorization!ExecUse
    BY <1>1
  <2>2. \A x \in Authorization!ExecUse : GrantOfUse(x) \in Execution!ExecUse
    BY DEF GrantOfUse, Authorization!ExecUse, Execution!ExecUse
  <2> QED
    BY <2>1, <2>2
<1>3. Grants = [u \in 1 .. n |-> GrantOfUse(execUses[u])]
  BY <1>1 DEF Grants, GrantOfUse
<1> HIDE DEF n, GrantOfUse
<1>4. Grants \in Seq(Execution!ExecUse) /\ DOMAIN Grants = 1 .. n
  BY <1>1, <1>2, <1>3
<1>5. Len(Grants) = n
  BY <1>1, <1>4
<1> QED
  BY <1>1, <1>3, <1>4, <1>5 DEF n

LEMMA AppendIs ==
  ASSUME NEW S, NEW s \in Seq(S), NEW y \in S
  PROVE  /\ Append(s, y) \in [1 .. (Len(s) + 1) -> S]
         /\ Append(s, y)[Len(s) + 1] = y
         /\ \A i \in 1 .. Len(s) : Append(s, y)[i] = s[i]
<1> DEFINE n == Len(s)
<1>1. n \in Nat /\ DOMAIN s = 1 .. n /\ \A i \in 1 .. n : s[i] \in S
  OBVIOUS
<1>2. Append(s, y) \in Seq(S) /\ Len(Append(s, y)) = n + 1
  OBVIOUS
<1>3. Append(s, y)[n + 1] = y /\ \A i \in 1 .. n : Append(s, y)[i] = s[i]
  OBVIOUS
<1>4. \A t \in Seq(S) : t \in [1 .. Len(t) -> S]
  OBVIOUS
<1>5. Append(s, y) \in [1 .. (n + 1) -> S]
  BY <1>2, <1>4
<1> QED
  BY <1>3, <1>5

LEMMA GrantsGrow ==
  ASSUME execUses \in Seq(Authorization!ExecUse), NEW x \in Authorization!ExecUse,
         execUses' = Append(execUses, x)
  PROVE  Grants' = Append(Grants, GrantOfUse(x))
<1> DEFINE n == Len(execUses)
           y == GrantOfUse(x)
<1>1. /\ n \in Nat /\ DOMAIN execUses = 1 .. n /\ DOMAIN execUses' = 1 .. (n + 1)
      /\ execUses'[n + 1] = x /\ \A u \in 1 .. n : execUses'[u] = execUses[u]
  OBVIOUS
<1>2. Grants' = [u \in 1 .. (n + 1) |-> GrantOfUse(execUses'[u])]
  BY <1>1 DEF Grants, GrantOfUse
<1>3. y \in Execution!ExecUse
  BY DEF GrantOfUse, Authorization!ExecUse, Execution!ExecUse
<1>4. /\ Grants \in Seq(Execution!ExecUse) /\ DOMAIN Grants = 1 .. n /\ Len(Grants) = n
      /\ \A u \in 1 .. n : Grants[u] = GrantOfUse(execUses[u])
  BY <1>1, GrantsAre
<1> HIDE DEF n, y
<1>5. /\ Append(Grants, y) \in [1 .. (n + 1) -> Execution!ExecUse]
      /\ Append(Grants, y)[n + 1] = y
      /\ \A u \in 1 .. n : Append(Grants, y)[u] = Grants[u]
  BY <1>1, <1>3, <1>4, AppendIs
<1>6. \A u \in 1 .. (n + 1) : Append(Grants, y)[u] = GrantOfUse(execUses'[u])
  <2>1. \A u \in 1 .. (n + 1) : u = n + 1 \/ u \in 1 .. n
    BY <1>1
  <2> QED
    BY <1>1, <1>4, <1>5, <2>1 DEF y
<1>7. Append(Grants, y) = [u \in 1 .. (n + 1) |-> GrantOfUse(execUses'[u])]
  BY <1>5, <1>6
<1> QED
  BY <1>2, <1>7 DEF y

LEMMA SameGrants == execUses' = execUses => Grants' = Grants
BY DEF Grants

\* A step of the deciding routes adds an execution consumption or leaves the
\* transport alone.
LEMMA DecisionsExecute ==
  ASSUME Authorization!TypeInv, Authorization!TicketsEnd,
         [Authorization!Next]_(Authorization!authorizationVars),
         UNCHANGED <<now, mode, executionVars>>
  PROVE  Execution!Next \/ UNCHANGED Execution!vars
<1>1. CASE execUses' = execUses
  BY <1>1, SameGrants DEF executionVars, Execution!vars, Execution!serverVars
<1>2. ASSUME NEW x, Authorization!Delivers(x)
      PROVE  Execution!Next
  <2> DEFINE ttl == x.expires - now
  <2>1. /\ x \in Authorization!ExecUse /\ execUses' = Append(execUses, x)
        /\ now < x.expires /\ x.expires <= now + ExecTicketTTL
        /\ Len(execUses) < Capacity["execUses"]
    BY <1>2 DEF Authorization!Delivers, Authorization!HasRoom
  <2>2. now \in Nat /\ execUses \in Seq(Authorization!ExecUse)
    BY DEF Authorization!TypeInv, Authorization!ClockOK, Authorization!RegistriesOK
  <2>3. x.guid \in Guid /\ x.actor \in Actor /\ x.expires \in Nat
    BY <2>1 DEF Authorization!ExecUse
  <2>4. ttl \in 1 .. ExecTicketTTL /\ now + ttl = x.expires
    BY <2>1, <2>2, <2>3, ConstantsFit DEF Execution!TransportAssumption
  <2>5. Grants' = Append(Grants, GrantOfUse(x)) /\ Len(Grants) = Len(execUses)
    BY <2>1, <2>2, GrantsGrow, GrantsAre
  <2>6. GrantOfUse(x) = [guid |-> x.guid, actor |-> x.actor, expires |-> now + ttl]
    BY <2>4 DEF GrantOfUse
  <2> HIDE DEF ttl
  <2>7. Execution!ConsumeExecutionTicket(x.guid, x.actor, ttl)
    BY <2>1, <2>5, <2>6 DEF Execution!ConsumeExecutionTicket, executionVars
  <2> QED
    BY <2>3, <2>4, <2>7 DEF Execution!Next
<1> QED
  BY <1>1, <1>2, ConstantsFit, Authorization!OnlyFinishDelivers

LEMMA StepExecutes ==
  Authorization!TypeInv /\ Authorization!TicketsEnd /\ [Next]_chainVars
    => [Execution!Next]_(Execution!vars)
<1> SUFFICES ASSUME Authorization!TypeInv, Authorization!TicketsEnd, [Next]_chainVars
             PROVE  Execution!Next \/ UNCHANGED Execution!vars
  OBVIOUS
<1>1. CASE Tick
  <2>1. execUses' = execUses /\ mode' = mode
    BY <1>1 DEF Tick, Authorization!Tick, Authorization!registries
  <2>2. Execution!Tick
    BY <1>1, <2>1, SameGrants
    DEF Tick, Authorization!Tick, Execution!Tick, Execution!serverVars, executionVars
  <2> QED
    BY <2>2 DEF Execution!Next
<1>2. CASE SetMode
  BY <1>2 DEF SetMode, Execution!Next, Execution!Step
<1>3. ASSUME NEW g \in Guid, Revalidate(g)
      PROVE  Execution!Next \/ UNCHANGED Execution!vars
  <2>1. UNCHANGED <<now, mode, execUses, executionVars>>
    BY <1>3 DEF Revalidate, Authorization!Revalidate, Authorization!registries
  <2> QED
    BY <2>1, SameGrants DEF executionVars, Execution!vars, Execution!serverVars
<1>4. CASE Decide
  <2>1. UNCHANGED <<now, mode, executionVars>>
    BY <1>4
    DEF Decide, Authorization!OperatorCall, Authorization!ChallengeStep,
        Authorization!ApprovalStep, Authorization!ReleaseStep,
        Authorization!PrepareSimulation, Authorization!ChallengeBegin,
        Authorization!ChallengePreflight, Authorization!ChallengeBuild,
        Authorization!ChallengePersist, Authorization!ChallengeConsume,
        Authorization!ApprovalBegin, Authorization!ApprovalBuild,
        Authorization!ApprovalPersist, Authorization!ReleaseBegin,
        Authorization!ReleasePreexecute, Authorization!ReleaseConsume,
        Authorization!ReleaseGate, Authorization!ReleaseTicket, Authorization!ReleaseFinish
  <2> QED
    BY <2>1, StepDecides, DecisionsExecute
<1>5. CASE Execute
  <2>1. DOMAIN Grants = DOMAIN execUses
    BY DEF Grants
  <2> QED
    BY <1>5, <2>1 DEF Execute, Execution!Next, Execution!Step
<1>6. CASE Restart
  <2>1. execUses' = execUses
    BY <1>6 DEF Restart
  <2>2. CASE transportCalls # {}
    <3>1. Execution!ApiRestart
      BY <1>6, <2>1, <2>2, SameGrants DEF Restart, transportCalls, Execution!ApiRestart
    <3> QED
      BY <3>1 DEF Execution!Next, Execution!Step
  <2>3. CASE transportCalls = {}
    BY <1>6, <2>1, <2>3, SameGrants
    DEF Restart, transportCalls, Execution!vars, Execution!serverVars
  <2> QED
    BY <2>2, <2>3
<1>7. CASE UNCHANGED chainVars
  BY <1>7, SameGrants
  DEF chainVars, decisionVars, executionVars, Execution!vars, Execution!serverVars
<1> QED
  BY <1>1, <1>2, <1>3, <1>4, <1>5, <1>6, <1>7 DEF Next

LEMMA Executes == Spec => Execution!Spec
<1>1. Init => Execution!Init
  BY DEF Init
<1>2. Spec => []Authorization!TypeInv /\ []Authorization!TicketsEnd
  BY Decides, ConstantsFit, Authorization!AlwaysTyped, Authorization!AlwaysEnd
<1> QED
  BY <1>1, <1>2, StepExecutes, PTL DEF Spec, Execution!Spec

-----------------------------------------------------------------------------
(* What the two promise, together. *)

\* Of the decisions.
Decisions ==
  /\ Authorization!TypeInv /\ Authorization!TicketsEnd
  /\ Authorization!TicketInv /\ Authorization!AuthorizationInv
  /\ Authorization!ReleaseInv /\ Authorization!OneUsePerSimulation
  /\ Authorization!FewSimulations

\* Of the executions.
Executions ==
  /\ Execution!TypeInv /\ Execution!GrantInv /\ Execution!TellInv
  /\ Execution!GrantsExist /\ Execution!ClaimedInTime

LEMMA AlwaysDecided == Spec => []Decisions
BY Decides, ConstantsFit, Authorization!AlwaysTyped, Authorization!AlwaysEnd,
   Authorization!AlwaysTicketed, Authorization!AlwaysAuthorized,
   Authorization!AlwaysReleased, Authorization!OneUse, Authorization!AlwaysFew, PTL
DEF Decisions

LEMMA AlwaysExecuted == Spec => []Executions
BY Executes, ConstantsFit, Execution!TypeCorrect, Execution!GrantInvariant,
   Execution!TellInvariant, Execution!GrantsInvariant, Execution!ClaimsInTime, PTL
DEF Executions

\* A write was made under the record of an execution consumption.
LEMMA WriteIsGranted ==
  ASSUME Decisions, Executions, NEW i \in DOMAIN writes
  PROVE  /\ writes[i].use \in DOMAIN execUses
         /\ writes[i].ticket \in DOMAIN transport
         /\ transport[writes[i].ticket].use = writes[i].use
         /\ transport[writes[i].ticket].state # "pending"
<1>1. DOMAIN Grants = DOMAIN execUses
  BY DEF Grants
<1> QED
  BY <1>1 DEF Executions, Execution!GrantsExist, Execution!GrantInv,
              Execution!WriteUnderClaim

\* A prepared simulation leads to one Restore-ADObject at most, whatever is raced,
\* repeated, restarted or lost between the operator's first click and the cmdlet.
THEOREM OneWriteBySimulation == Spec => []OneWritePerSimulation
<1>1. ASSUME Decisions, Executions
      PROVE  OneWritePerSimulation
  <2>1. Execution!OneWritePerGrant
    BY <1>1, ConstantsFit, Execution!GrantInvSuffices DEF Executions
  <2> QED
    BY <1>1, <2>1, WriteIsGranted
    DEF OneWritePerSimulation, SimulationBehind, Decisions,
        Authorization!OneUsePerSimulation, Execution!OneWritePerGrant
<1> QED
  BY <1>1, AlwaysDecided, AlwaysExecuted, PTL

\* A worker claims a record while everything decided before is alive and the
\* evidence of the release fresh, although every service reads the clock for itself.
THEOREM ClaimsWhileAuthorized == Spec => []ClaimedWhileAuthorized
<1>1. ASSUME Decisions, Executions
      PROVE  ClaimedWhileAuthorized
  <2> SUFFICES ASSUME NEW t \in DOMAIN transport, transport[t].state # "pending"
               PROVE  LET x == execUses[transport[t].use]
                          claimed == transport[t].claimed
                      IN
                      /\ transport[t].created <= claimed
                      /\ claimed < transport[t].expires /\ transport[t].expires <= x.expires
                      /\ claimed < Authorization!AuthorizationOf(x).expires
                      /\ claimed < Authorization!TicketOf(x).expires
                      /\ claimed < evidence[Authorization!UseOf(x).evidence].at
                                     + EvidenceMaxAge + PreexecutionTTL
    BY DEF ClaimedWhileAuthorized
  <2> PICK u \in DOMAIN execUses : u = transport[t].use
    BY <1>1 DEF Executions, Execution!GrantsExist, Grants
  <2> PICK x : x = execUses[u]
    OBVIOUS
  <2> PICK r : r = transport[t]
    OBVIOUS
  <2>1. r.use = u /\ r.state # "pending" /\ r \in Execution!Record
    BY <1>1 DEF Executions, Execution!TypeInv, Execution!TypeOK
  <2>2. Grants[u].expires = x.expires
    BY DEF Grants
  <2>3. r.created <= r.claimed /\ r.claimed < r.expires /\ r.expires <= x.expires
    BY <1>1, <2>1, <2>2 DEF Executions, Execution!ClaimedInTime
  <2>4. /\ Authorization!ExecUseTrue(x)
        /\ Authorization!UseTrue(Authorization!UseOf(x))
        /\ Authorization!UseOf(x).authorization = x.authorization
        /\ Authorization!AuthorizationTrue(Authorization!AuthorizationOf(x))
        /\ x.expires \in Nat /\ Authorization!UseOf(x).expires \in Nat
        /\ Authorization!AuthorizationOf(x).expires \in Nat
        /\ Authorization!TicketOf(x).expires \in Nat
        /\ Authorization!UseOf(x).evidence \in DOMAIN evidence
    <3>1. x.authorizationUse \in DOMAIN authorizationUses
      BY <1>1, ConstantsFit, Authorization!Descent DEF Decisions
    <3> QED
      BY <1>1, <3>1, ConstantsFit, Authorization!Descent
      DEF Decisions, Authorization!ExecUse, Authorization!AuthorizationUse,
          Authorization!Authorization, Authorization!Ticket, Authorization!TypeInv,
          Authorization!RegistriesOK, Authorization!AuthorizationUseOK, Authorization!UseOf
  <2>5. /\ x.expires <= Authorization!UseOf(x).expires
        /\ Authorization!UseOf(x).expires <= Authorization!AuthorizationOf(x).expires
        /\ Authorization!AuthorizationOf(x).expires <= Authorization!TicketOf(x).expires
        /\ Authorization!UseOf(x).expires
             <= evidence[Authorization!UseOf(x).evidence].at + EvidenceMaxAge
                  + PreexecutionTTL
    BY <2>4
    DEF Authorization!ExecUseTrue, Authorization!Stands, Authorization!UseTrue,
        Authorization!Released, Authorization!AuthorizationTrue, Authorization!UseOf,
        Authorization!AuthorizationOf, Authorization!TicketOf
  <2>6. evidence[Authorization!UseOf(x).evidence].at + EvidenceMaxAge + PreexecutionTTL
          \in Nat
    <3>1. evidence[Authorization!UseOf(x).evidence].at \in Nat
      BY <1>1, <2>4, ConstantsFit, Authorization!ElementTypes DEF Decisions
    <3> QED
      BY <3>1, ConstantsFit DEF Authorization!AuthorizationAssumption
  <2>7. r.claimed \in Nat /\ r.expires \in Nat
    BY <2>1 DEF Execution!Record
  <2> QED
    BY <2>3, <2>4, <2>5, <2>6, <2>7
<1> QED
  BY <1>1, AlwaysDecided, AlwaysExecuted, PTL

-----------------------------------------------------------------------------
(***************************************************************************)
(* The refinement.  A simulation has the fate of its consumption, which    *)
(* is the only one behind it and keeps standing behind it.                 *)
(***************************************************************************)
Simulations == 1 .. MaxSimulations
Origin == [u \in DOMAIN execUses |-> SimulationBehind(u)]

\* F says of a simulation what f says of the consumption that o leads back to it.
Shows(o, f, F, blank) ==
  /\ o \in [DOMAIN o -> Simulations]
  /\ \A u, v \in DOMAIN o : o[u] = o[v] => u = v
  /\ F = [s \in Simulations |-> F[s]]
  /\ \A u \in DOMAIN o : F[o[u]] = f[u]
  /\ \A s \in Simulations : (\A u \in DOMAIN o : o[u] # s) => F[s] = blank

\* A consumption that moves moves its simulation, and a new one changes nothing.
LEMMA ShowsTheMove ==
  ASSUME NEW o, NEW p, NEW f, NEW h, NEW F, NEW H, NEW blank,
         Shows(o, f, F, blank), Shows(p, h, H, blank),
         DOMAIN o \subseteq DOMAIN p, \A u \in DOMAIN o : p[u] = o[u],
         \A u \in DOMAIN p \ DOMAIN o : h[u] = blank
  PROVE  /\ (\A u \in DOMAIN o : h[u] = f[u]) => H = F
         /\ \A g \in DOMAIN o :
              (\A u \in DOMAIN o \ {g} : h[u] = f[u]) => H = [F EXCEPT ![o[g]] = h[g]]
<1>1. /\ F = [s \in Simulations |-> F[s]] /\ H = [s \in Simulations |-> H[s]]
      /\ \A u \in DOMAIN o : o[u] \in Simulations /\ F[o[u]] = f[u] /\ H[o[u]] = h[u]
  BY DEF Shows
<1>2. ASSUME NEW s \in Simulations, \A u \in DOMAIN o : o[u] # s
      PROVE  H[s] = blank /\ F[s] = blank
  <2>1. CASE \E u \in DOMAIN p : p[u] = s
    <3> PICK u \in DOMAIN p : p[u] = s
      BY <2>1
    <3>1. u \notin DOMAIN o
      BY <1>2
    <3> QED
      BY <1>2, <3>1 DEF Shows
  <2>2. CASE \A u \in DOMAIN p : p[u] # s
    BY <1>2, <2>2 DEF Shows
  <2> QED
    BY <2>1, <2>2
<1>3. ASSUME \A u \in DOMAIN o : h[u] = f[u]
      PROVE  H = F
  <2>1. ASSUME NEW s \in Simulations PROVE H[s] = F[s]
    BY <1>1, <1>2, <1>3
  <2> QED
    BY <1>1, <2>1
<1>4. ASSUME NEW g \in DOMAIN o, \A u \in DOMAIN o \ {g} : h[u] = f[u]
      PROVE  H = [F EXCEPT ![o[g]] = h[g]]
  <2>1. H[o[g]] = h[g]
    BY <1>1, <1>4
  <2>2. ASSUME NEW s \in Simulations, s # o[g] PROVE H[s] = F[s]
    BY <1>1, <1>2, <1>4, <2>2
  <2> DEFINE K == [F EXCEPT ![o[g]] = h[g]]
  <2>3. /\ K = [s \in Simulations |-> K[s]]
        /\ \A s \in Simulations : K[s] = IF s = o[g] THEN h[g] ELSE F[s]
    BY <1>1
  <2> HIDE DEF K
  <2>4. \A s \in Simulations : H[s] = K[s]
    BY <2>1, <2>2, <2>3
  <2> QED
    BY <1>1, <2>3, <2>4 DEF K
<1> QED
  BY <1>3, <1>4

Shown ==
  /\ Shows(Origin, Execution!Taker, SimulationTaker, "nobody")
  /\ Shows(Origin, Execution!VerdictGiven, SimulationVerdict, "none")
  /\ DOMAIN Origin = DOMAIN execUses /\ DOMAIN execUses \subseteq Execution!Grants
  /\ Execution!Offered \subseteq DOMAIN Origin /\ Execution!Written \subseteq DOMAIN Origin
  /\ SimulationsOffered = {Origin[u] : u \in Execution!Offered}
  /\ SimulationsWritten = {Origin[u] : u \in Execution!Written}

\* What stands behind a consumption.
LEMMA Origins ==
  ASSUME Decisions
  PROVE  /\ DOMAIN Origin = DOMAIN execUses
         /\ \A u \in DOMAIN execUses :
              /\ Origin[u] = SimulationBehind(u) /\ Origin[u] \in Simulations
              /\ execUses[u].authorization \in DOMAIN authorizations
              /\ authorizations[execUses[u].authorization].ticket \in DOMAIN tickets
         /\ \A u, v \in DOMAIN execUses : Origin[u] = Origin[v] => u = v
<1>1. /\ DOMAIN Origin = DOMAIN execUses
      /\ \A u \in DOMAIN execUses : Origin[u] = SimulationBehind(u)
  BY DEF Origin
<1>2. \A u, v \in DOMAIN execUses : Origin[u] = Origin[v] => u = v
  BY <1>1 DEF Decisions, Authorization!OneUsePerSimulation, SimulationBehind
<1>3. \A s \in DOMAIN simulations : s \in Simulations
  <2>1. DOMAIN simulations = 1 .. Len(simulations) /\ Len(simulations) \in Nat
    BY DEF Decisions, Authorization!TypeInv, Authorization!JobsOK
  <2>2. Len(simulations) <= MaxSimulations /\ MaxSimulations \in Nat
    BY ConstantsFit DEF Decisions, Authorization!FewSimulations,
       Authorization!AuthorizationAssumption
  <2> QED
    BY <2>1, <2>2 DEF Simulations
<1>4. ASSUME NEW u \in DOMAIN execUses
      PROVE  /\ SimulationBehind(u) \in DOMAIN simulations
             /\ execUses[u].authorization \in DOMAIN authorizations
             /\ authorizations[execUses[u].authorization].ticket \in DOMAIN tickets
  <2>1. /\ execUses[u].authorization \in DOMAIN authorizations
        /\ Authorization!AuthorizationOf(execUses[u]).ticket \in DOMAIN tickets
    BY ConstantsFit, Authorization!Descent DEF Decisions
  <2>2. \A t \in DOMAIN tickets : tickets[t].simulation \in DOMAIN simulations
    BY DEF Decisions, Authorization!TypeInv, Authorization!RegistriesOK,
       Authorization!TicketOK
  <2> QED
    BY <2>1, <2>2 DEF SimulationBehind, Authorization!TicketOf,
       Authorization!AuthorizationOf
<1> QED
  BY <1>1, <1>2, <1>3, <1>4

LEMMA DecisionsShown == Decisions /\ Executions => Shown
<1> SUFFICES ASSUME Decisions, Executions PROVE Shown
  OBVIOUS
<1>1. /\ DOMAIN Origin = DOMAIN execUses
      /\ \A u \in DOMAIN execUses :
           Origin[u] = SimulationBehind(u) /\ Origin[u] \in Simulations
      /\ \A u, v \in DOMAIN execUses : Origin[u] = Origin[v] => u = v
  BY Origins
<1>2. /\ DOMAIN Grants = DOMAIN execUses
      /\ DOMAIN execUses \subseteq Execution!Grants
  <2>1. execUses \in Seq(Authorization!ExecUse)
    BY DEF Decisions, Authorization!TypeInv, Authorization!RegistriesOK
  <2>2. Len(Grants) <= Capacity["execUses"]
    BY DEF Executions, Execution!GrantsExist
  <2>3. Capacity["execUses"] \in Nat
    BY ConstantsFit DEF Execution!TransportAssumption
  <2>4. DOMAIN execUses = 1 .. Len(execUses) /\ Len(execUses) \in Nat
    BY <2>1
  <2> QED
    BY <2>1, <2>2, <2>3, <2>4, GrantsAre DEF Execution!Grants
<1>3. /\ Execution!Offered \subseteq DOMAIN execUses
      /\ Execution!Written \subseteq DOMAIN execUses
  BY <1>2, WriteIsGranted
  DEF Executions, Execution!GrantsExist, Execution!Offered, Execution!Written
<1>4. /\ SimulationsOffered = {Origin[u] : u \in Execution!Offered}
      /\ SimulationsWritten = {Origin[u] : u \in Execution!Written}
  BY <1>1, <1>3 DEF SimulationsOffered, SimulationsWritten, Behind
<1>5. Origin \in [DOMAIN Origin -> Simulations]
  BY <1>1 DEF Origin
<1>6. ASSUME NEW u \in DOMAIN execUses
      PROVE  Origin[u] \in Decided /\ GrantOf(Origin[u]) = u
  <2>1. \A v \in DOMAIN execUses : SimulationBehind(v) = Origin[u] <=> v = u
    BY <1>1
  <2> QED
    BY <1>1, <2>1 DEF Decided, Behind, GrantOf
<1>7. ASSUME NEW s \in Simulations, \A u \in DOMAIN execUses : Origin[u] # s
      PROVE  s \notin Decided
  BY <1>1, <1>7 DEF Decided, Behind
<1>8. Shows(Origin, Execution!Taker, SimulationTaker, "nobody")
  BY <1>1, <1>5, <1>6, <1>7 DEF Shows, SimulationTaker, Simulations
<1>9. Shows(Origin, Execution!VerdictGiven, SimulationVerdict, "none")
  BY <1>1, <1>5, <1>6, <1>7 DEF Shows, SimulationVerdict, Simulations
<1> QED
  BY <1>1, <1>2, <1>3, <1>4, <1>8, <1>9 DEF Shown

\* What stands behind a consumption stays, and the worker's side does not move
\* when there is a new one.
LEMMA OriginsStay ==
  ASSUME Decisions, Decisions', [Next]_chainVars
  PROVE  /\ DOMAIN execUses \subseteq DOMAIN execUses'
         /\ \A u \in DOMAIN execUses : Origin'[u] = Origin[u]
<1>1. Authorization!Grown
  BY StepDecides, ConstantsFit, Authorization!StepGrows DEF Decisions
<1>2. Authorization!Keeps(execUses, execUses')
  <2>1. execUses \in Seq(Authorization!ExecUse)
    BY DEF Decisions, Authorization!TypeInv, Authorization!RegistriesOK
  <2>2. execUses' = execUses \/ \E x : Authorization!Delivers(x)
    BY StepDecides, ConstantsFit, Authorization!OnlyFinishDelivers DEF Decisions
  <2>3. ASSUME NEW x, Authorization!Delivers(x)
        PROVE  Authorization!Keeps(execUses, execUses')
    BY <2>1, <2>3, ConstantsFit, Authorization!AppendKeeps DEF Authorization!Delivers
  <2> QED
    BY <2>2, <2>3, ConstantsFit, Authorization!Unchanging
<1>3. ASSUME NEW u \in DOMAIN execUses
      PROVE  Origin'[u] = Origin[u]
  <2>1. u \in DOMAIN execUses' /\ execUses'[u] = execUses[u]
    BY <1>2 DEF Authorization!Keeps
  <2> DEFINE a == execUses[u].authorization
  <2>2. a \in DOMAIN authorizations /\ authorizations[a].ticket \in DOMAIN tickets
    BY Origins
  <2>3. authorizations'[a] = authorizations[a]
    BY <1>1, <2>2 DEF Authorization!Grown, Authorization!Keeps
  <2>4. tickets'[authorizations[a].ticket] = tickets[authorizations[a].ticket]
    BY <1>1, <2>2 DEF Authorization!Grown, Authorization!Keeps
  <2>5. Origin[u] = tickets[authorizations[a].ticket].simulation
    BY DEF Origin, SimulationBehind, Authorization!TicketOf, Authorization!AuthorizationOf
  <2>6. Origin'[u] = tickets'[authorizations'[execUses'[u].authorization].ticket].simulation
    BY <2>1
    DEF Origin, SimulationBehind, Authorization!TicketOf, Authorization!AuthorizationOf
  <2> QED
    BY <2>1, <2>3, <2>4, <2>5, <2>6
<1> QED
  BY <1>2, <1>3 DEF Authorization!Keeps

LEMMA DecidesOrMoves ==
  [Next]_chainVars => execUses' = execUses \/ UNCHANGED <<transport, writes>>
<1> SUFFICES ASSUME [Next]_chainVars
             PROVE  execUses' = execUses \/ UNCHANGED <<transport, writes>>
  OBVIOUS
<1>1. CASE Execute \/ Restart \/ UNCHANGED chainVars
  BY <1>1 DEF Execute, Restart, decisionVars, chainVars
<1>2. CASE Tick \/ Decide \/ \E g \in Guid : Revalidate(g)
  BY <1>2 DEF Tick, Decide, Revalidate, executionVars
<1>3. CASE SetMode
  BY <1>3 DEF SetMode, Authorization!SetMode, Authorization!registries
<1> QED
  BY <1>1, <1>2, <1>3 DEF Next

\* A new consumption has no fate yet.
LEMMA NewHasNoFate ==
  ASSUME Shown, Shown', [Next]_chainVars,
         NEW u \in DOMAIN Origin', u \notin DOMAIN Origin
  PROVE  /\ u \notin Execution!Offered' /\ u \notin Execution!Written'
         /\ Execution!Taker'[u] = "nobody" /\ Execution!VerdictGiven'[u] = "none"
<1>1. UNCHANGED <<transport, writes>>
  BY DecidesOrMoves DEF Origin
<1>2. Execution!Offered' = Execution!Offered /\ Execution!Written' = Execution!Written
  BY <1>1 DEF Execution!Offered, Execution!Written
<1>3. u \notin Execution!Offered' /\ u \notin Execution!Written'
  BY <1>2 DEF Shown
<1>4. u \in Execution!Grants
  BY DEF Shown, Execution!Grants
<1> QED
  BY <1>3, <1>4, ConstantsFit, Execution!NoFate

wholeVars == <<SimulationsOffered, SimulationTaker, SimulationsWritten, SimulationVerdict>>

LEMMA StepIsWhole ==
  ASSUME Decisions, Decisions', Executions, Executions', Shown, Shown', [Next]_chainVars
  PROVE  Whole!OneShotNext \/ UNCHANGED wholeVars
<1> DEFINE U == DOMAIN Origin
<1>1. /\ U \subseteq DOMAIN Origin' /\ \A u \in U : Origin'[u] = Origin[u]
      /\ \A u \in U : Origin[u] \in Simulations
      /\ \A u, v \in U : Origin[u] = Origin[v] => u = v
  BY OriginsStay DEF Shown, Shows
<1>2. \A u \in DOMAIN Origin' \ U :
        /\ u \notin Execution!Offered' /\ u \notin Execution!Written'
        /\ Execution!Taker'[u] = "nobody" /\ Execution!VerdictGiven'[u] = "none"
  BY NewHasNoFate
<1>3. /\ (\A u \in U : Execution!Taker'[u] = Execution!Taker[u])
           => SimulationTaker' = SimulationTaker
      /\ \A g \in U :
           (\A u \in U \ {g} : Execution!Taker'[u] = Execution!Taker[u])
             => SimulationTaker' = [SimulationTaker EXCEPT ![Origin[g]] = Execution!Taker'[g]]
  BY <1>1, <1>2, ShowsTheMove DEF Shown
<1>4. /\ (\A u \in U : Execution!VerdictGiven'[u] = Execution!VerdictGiven[u])
           => SimulationVerdict' = SimulationVerdict
      /\ \A g \in U :
           (\A u \in U \ {g} : Execution!VerdictGiven'[u] = Execution!VerdictGiven[u])
             => SimulationVerdict'
                  = [SimulationVerdict EXCEPT ![Origin[g]] = Execution!VerdictGiven'[g]]
  BY <1>1, <1>2, ShowsTheMove DEF Shown
<1>5. /\ Execution!Offered \subseteq U /\ Execution!Offered' \subseteq U
      /\ Execution!Written \subseteq U /\ Execution!Written' \subseteq U
  BY <1>2 DEF Shown
<1>6. /\ SimulationsOffered = {Origin[u] : u \in Execution!Offered}
      /\ SimulationsOffered' = {Origin[u] : u \in Execution!Offered'}
      /\ SimulationsWritten = {Origin[u] : u \in Execution!Written}
      /\ SimulationsWritten' = {Origin[u] : u \in Execution!Written'}
  BY <1>1, <1>5 DEF Shown
<1>7. \A u \in U :
        /\ SimulationTaker[Origin[u]] = Execution!Taker[u]
        /\ SimulationVerdict[Origin[u]] = Execution!VerdictGiven[u]
        /\ Origin[u] \in SimulationsOffered <=> u \in Execution!Offered
        /\ Origin[u] \in SimulationsWritten <=> u \in Execution!Written
  <2> SUFFICES ASSUME NEW u \in U
               PROVE  /\ SimulationTaker[Origin[u]] = Execution!Taker[u]
                      /\ SimulationVerdict[Origin[u]] = Execution!VerdictGiven[u]
                      /\ Origin[u] \in SimulationsOffered <=> u \in Execution!Offered
                      /\ Origin[u] \in SimulationsWritten <=> u \in Execution!Written
    OBVIOUS
  <2>1. /\ SimulationTaker[Origin[u]] = Execution!Taker[u]
        /\ SimulationVerdict[Origin[u]] = Execution!VerdictGiven[u]
    BY DEF Shown, Shows
  <2>2. Origin[u] \in SimulationsOffered <=> u \in Execution!Offered
    BY <1>1, <1>5, <1>6
  <2>3. Origin[u] \in SimulationsWritten <=> u \in Execution!Written
    BY <1>1, <1>5, <1>6
  <2> QED
    BY <2>1, <2>2, <2>3
<1>8. /\ DOMAIN Execution!Taker = Execution!Grants
      /\ DOMAIN Execution!VerdictGiven = Execution!Grants
      /\ U \subseteq Execution!Grants
  BY DEF Shown, Execution!Taker, Execution!VerdictGiven, Execution!Grants
<1> HIDE DEF U
<1>9. Execution!OneShot!OneShotNext \/ UNCHANGED Execution!View
  <2>1. [Execution!Next]_(Execution!vars)
    BY StepExecutes DEF Decisions
  <2> QED
    BY <2>1, ConstantsFit, Execution!StepRefines DEF Executions
<1>10. CASE UNCHANGED Execution!View
  BY <1>3, <1>4, <1>6, <1>10 DEF Execution!View, wholeVars
<1>11. ASSUME NEW g \in Execution!Grants, Execution!OneShot!Offer(g)
       PROVE  Whole!OneShotNext
  <2>1. g \in U /\ Execution!Offered' = Execution!Offered \cup {g}
    BY <1>5, <1>11 DEF Execution!OneShot!Offer
  <2>2. Whole!Offer(Origin[g])
    BY <1>1, <1>3, <1>4, <1>6, <1>7, <1>11, <2>1
    DEF Execution!OneShot!Offer, Whole!Offer
  <2> QED
    BY <1>1, <2>1, <2>2 DEF Whole!OneShotNext, Simulations
<1>12. ASSUME NEW g \in Execution!Grants, NEW w \in Agent, Execution!OneShot!Take(g, w)
       PROVE  Whole!OneShotNext
  <2>1. /\ g \in U
        /\ \A u \in U \ {g} : Execution!Taker'[u] = Execution!Taker[u]
        /\ Execution!Taker'[g] = w
    BY <1>5, <1>8, <1>12 DEF Execution!OneShot!Take
  <2>2. Whole!Take(Origin[g], w)
    BY <1>1, <1>3, <1>4, <1>6, <1>7, <1>12, <2>1
    DEF Execution!OneShot!Take, Whole!Take
  <2> QED
    BY <1>1, <2>1, <2>2 DEF Whole!OneShotNext, Simulations
<1>13. ASSUME NEW g \in Execution!Grants, Execution!OneShot!WriteGrant(g)
       PROVE  Whole!OneShotNext
  <2>1. g \in U /\ Execution!Written' = Execution!Written \cup {g}
    BY <1>5, <1>13 DEF Execution!OneShot!WriteGrant
  <2>2. Whole!WriteGrant(Origin[g])
    BY <1>1, <1>3, <1>4, <1>6, <1>7, <1>13, <2>1
    DEF Execution!OneShot!WriteGrant, Whole!WriteGrant
  <2> QED
    BY <1>1, <2>1, <2>2 DEF Whole!OneShotNext, Simulations
<1>14. ASSUME NEW g \in Execution!Grants, NEW v \in Execution!OneShot!Verdicts \ {"none"},
              Execution!OneShot!Settle(g, v)
       PROVE  Whole!OneShotNext
  <2>1. g \in U
    BY <1>5, <1>14, ConstantsFit, Execution!NoFate DEF Execution!OneShot!Settle
  <2>2. /\ \A u \in U \ {g} : Execution!VerdictGiven'[u] = Execution!VerdictGiven[u]
        /\ Execution!VerdictGiven'[g] = v
    BY <1>8, <1>14 DEF Execution!OneShot!Settle
  <2>3. Whole!Settle(Origin[g], v)
    BY <1>1, <1>3, <1>4, <1>6, <1>7, <1>14, <2>1, <2>2
    DEF Execution!OneShot!Settle, Whole!Settle
  <2>4. v \in Whole!Verdicts \ {"none"}
    BY DEF Whole!Verdicts, Execution!OneShot!Verdicts
  <2> QED
    BY <1>1, <2>1, <2>3, <2>4 DEF Whole!OneShotNext, Simulations
<1> QED
  BY <1>9, <1>10, <1>11, <1>12, <1>13, <1>14
  DEF Execution!OneShot!OneShotNext, Execution!Grants

LEMMA InitIsWhole == Init => Whole!OneShotInit
<1> SUFFICES ASSUME Init PROVE Whole!OneShotInit
  OBVIOUS
<1>1. execUses = <<>> /\ transport = <<>> /\ writes = <<>>
  BY DEF Init, Authorization!Init, Execution!Init
<1>2. Execution!Offered = {} /\ Execution!Written = {} /\ DOMAIN execUses = {}
  BY <1>1 DEF Execution!Offered, Execution!Written
<1>3. SimulationsOffered = {} /\ SimulationsWritten = {} /\ Decided = {}
  BY <1>2 DEF SimulationsOffered, SimulationsWritten, Behind, Decided
<1>4. /\ SimulationTaker = [s \in 1 .. MaxSimulations |-> "nobody"]
      /\ SimulationVerdict = [s \in 1 .. MaxSimulations |-> "none"]
  BY <1>3 DEF SimulationTaker, SimulationVerdict
<1> QED
  BY <1>3, <1>4 DEF Whole!OneShotInit

\* From the click that prepares a simulation to the verdict of the worker, the
\* chain keeps for each simulation the promise of OneShotRestore: one offer, one
\* taker, one write by it and before its verdict, and one verdict.
THEOREM SimulationsAreOneShot == Spec => SimulationIsOneShot
<1>1. Init => Whole!OneShotInit
  BY InitIsWhole
<1>2. Decisions /\ Executions => Shown
  BY DecisionsShown
<1>3. Decisions /\ Decisions' /\ Executions /\ Executions'
        /\ Shown /\ Shown' /\ [Next]_chainVars => [Whole!OneShotNext]_wholeVars
  BY StepIsWhole
<1> QED
  BY <1>1, <1>2, <1>3, AlwaysDecided, AlwaysExecuted, PTL
  DEF Spec, SimulationIsOneShot, Whole!OneShotSpec, wholeVars, Whole!grantVars
=============================================================================
