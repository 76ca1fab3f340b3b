----------------------- MODULE RestoreTransport_proofs -----------------------
(***************************************************************************)
(* Theorems about the restore transport, for any number of workers,        *)
(* operators, objects and execution tickets, any lifetimes and any faults: *)
(* its types; one write per grant; its registry is monotone, a recorded    *)
(* write has happened and a recorded failure is clean; it implements       *)
(* OneShotRestore; and the lifetimes of what it records nest.              *)
(***************************************************************************)
EXTENDS RestoreTransport, TLAPS

(***************************************************************************)
(* Calls and workers refer to records that exist.                          *)
(***************************************************************************)
CallRefs ==
  /\ \A c \in queueCalls : c.use \in DOMAIN execUses
  /\ \A c \in claimCalls : c.ticket \in DOMAIN transport

WorkerRefs == \A a \in Agent : agent[a].todo \subseteq DOMAIN transport

References == CallRefs /\ WorkerRefs

TypeInv == TypeOK /\ References

LEMMA NoEnvelopeType == NoEnvelope \in Envelope
BY TransportAssumption DEF NoEnvelope, Envelope

LEMMA IdleType == Idle \in AgentState
BY NoEnvelopeType DEF Idle, AgentState, Pc, Result, NoResult

LEMMA NextTicketType ==
  ASSUME NEW s \in AgentState
  PROVE  NextTicket(s) \in AgentState /\ NextTicket(s).todo = s.todo
         /\ NextTicket(s).pc = "ready"
BY NoEnvelopeType DEF NextTicket, AgentState, Pc, Result, NoResult

LEMMA GotoType ==
  ASSUME NEW s \in AgentState, NEW pc \in Pc
  PROVE  /\ [s EXCEPT !.pc = pc] \in AgentState
         /\ [s EXCEPT !.pc = pc].pc = pc
         /\ [s EXCEPT !.pc = pc].todo = s.todo
         /\ [s EXCEPT !.pc = pc].ticket = s.ticket
BY DEF AgentState

LEMMA ReportType ==
  ASSUME NEW s \in AgentState, NEW r \in Result
  PROVE  LET q == [s EXCEPT !.pc = "reporting", !.res = r]
         IN  /\ q \in AgentState
             /\ q.todo = s.todo /\ q.ticket = s.ticket /\ q.pc = "reporting"
BY DEF AgentState, Pc

LEMMA ResultTypes ==
  /\ \A w, n \in BOOLEAN : Failure(w, n) \in Result
  /\ Success \in Result /\ CmdletFailed \in Result /\ NotVerified \in Result
BY DEF Failure, Success, CmdletFailed, NotVerified, Result

(***************************************************************************)
(* A step that changes one worker keeps the types and references of all.   *)
(***************************************************************************)
WorkersOK == agent \in [Agent -> AgentState] /\ WorkerRefs

LEMMA OneWorker ==
  ASSUME WorkersOK, NEW a \in Agent, NEW s \in AgentState,
         agent' = [agent EXCEPT ![a] = s],
         DOMAIN transport' = DOMAIN transport, s.todo \subseteq DOMAIN transport
  PROVE  WorkersOK'
BY DEF WorkersOK, WorkerRefs

LEMMA GotoOK ==
  ASSUME WorkersOK, NEW a \in Agent, NEW pc \in Pc, Goto(a, pc),
         DOMAIN transport' = DOMAIN transport
  PROVE  WorkersOK'
<1> DEFINE s == [agent[a] EXCEPT !.pc = pc]
<1>1. agent[a] \in AgentState /\ agent[a].todo \subseteq DOMAIN transport
  BY DEF WorkersOK, WorkerRefs
<1>2. s \in AgentState /\ s.pc = pc /\ s.todo = agent[a].todo /\ s.ticket = agent[a].ticket
  BY <1>1, GotoType
<1>3. s.todo \subseteq DOMAIN transport
  BY <1>1, <1>2
<1>4. agent' = [agent EXCEPT ![a] = s]
  BY DEF Goto
<1> HIDE DEF s
<1> QED
  BY <1>2, <1>3, <1>4, OneWorker

LEMMA ReportOK ==
  ASSUME WorkersOK, NEW a \in Agent, NEW r \in Result, ReportResult(a, r),
         DOMAIN transport' = DOMAIN transport
  PROVE  WorkersOK'
<1> DEFINE s == [agent[a] EXCEPT !.pc = "reporting", !.res = r]
<1>1. agent[a] \in AgentState /\ agent[a].todo \subseteq DOMAIN transport
  BY DEF WorkersOK, WorkerRefs
<1>2. /\ s \in AgentState /\ s.pc = "reporting"
      /\ s.todo = agent[a].todo /\ s.ticket = agent[a].ticket
  BY <1>1, ReportType
<1>3. s.todo \subseteq DOMAIN transport
  BY <1>1, <1>2
<1>4. agent' = [agent EXCEPT ![a] = s]
  BY DEF ReportResult
<1> HIDE DEF s
<1> QED
  BY <1>2, <1>3, <1>4, OneWorker

LEMMA NextTicketOK ==
  ASSUME WorkersOK, NEW a \in Agent, agent' = [agent EXCEPT ![a] = NextTicket(@)],
         DOMAIN transport' = DOMAIN transport
  PROVE  WorkersOK'
<1>1. agent[a] \in AgentState /\ agent[a].todo \subseteq DOMAIN transport
  BY DEF WorkersOK, WorkerRefs
<1>2. NextTicket(agent[a]) \in AgentState /\ NextTicket(agent[a]).todo \subseteq DOMAIN transport
  BY <1>1, NextTicketType
<1> QED
  BY <1>2, OneWorker

LEMMA NewRecordType ==
  ASSUME TypeInv, NEW c \in queueCalls
  PROVE  NewRecord(c) \in Record /\ c.use \in DOMAIN execUses
<1>1. c \in QueueCall /\ c.use \in DOMAIN execUses
  BY DEF TypeInv, TypeOK, References, CallRefs
<1>2. execUses[c.use] \in ExecUse
  BY <1>1 DEF TypeInv, TypeOK
<1> QED
  BY <1>1, <1>2 DEF NewRecord, Record, State, QueueCall, ExecUse

LEMMA AbandonTypes ==
  ASSUME NEW a
  PROVE  /\ \A calls \in SUBSET ClaimCall :
              /\ Abandon(calls, a) \subseteq ClaimCall
              /\ \A c \in Abandon(calls, a) : \E d \in calls : c.ticket = d.ticket
         /\ \A calls \in SUBSET ResultCall : Abandon(calls, a) \subseteq ResultCall
BY DEF Abandon, ClaimCall, ResultCall

LEMMA InitTypeInv == Init => TypeInv
<1> SUFFICES ASSUME Init PROVE TypeInv
  OBVIOUS
<1>1. TypeOK
  BY IdleType, TransportAssumption DEF Init, TypeOK, Mode, AdState
<1>2. References
  BY DEF Init, References, CallRefs, WorkerRefs, Idle
<1> QED
  BY <1>1, <1>2 DEF TypeInv

(***************************************************************************)
(* The rest of TypeInv: what a step that only moves a worker leaves alone. *)
(***************************************************************************)
RegistriesOK ==
  /\ now \in Nat /\ mode \in Mode /\ minted \in Nat /\ flips \in Nat
  /\ execUses \in Seq(ExecUse)
  /\ transport \in Seq(Record)
  /\ queueCalls \subseteq QueueCall
  /\ claimCalls \subseteq ClaimCall
  /\ resultCalls \subseteq ResultCall
  /\ ad \in [Guid -> AdState]
  /\ writes \in Seq(Write)
  /\ CallRefs

LEMMA NextTypeInv == TypeInv /\ [Next]_vars => TypeInv'
<1> SUFFICES ASSUME TypeInv, RegistriesOK, WorkersOK, [Next]_vars
             PROVE  RegistriesOK' /\ WorkersOK'
  BY DEF TypeInv, TypeOK, References, RegistriesOK, WorkersOK
<1>1. CASE Tick
  BY <1>1, TransportAssumption
  DEF Tick, serverVars, RegistriesOK, CallRefs, WorkersOK, WorkerRefs
<1>2. CASE SetMode
  BY <1>2 DEF SetMode, serverVars, RegistriesOK, CallRefs, WorkersOK, WorkerRefs
<1>3. ASSUME NEW g \in Guid, ChangeDirectory(g) PROVE RegistriesOK' /\ WorkersOK'
  BY <1>3 DEF ChangeDirectory, serverVars, RegistriesOK, CallRefs, WorkersOK, WorkerRefs, AdState
<1>4. ASSUME NEW g \in Guid, NEW h \in Actor, NEW ttl \in 1..ExecTicketTTL,
             ConsumeExecutionTicket(g, h, ttl)
      PROVE RegistriesOK' /\ WorkersOK'
  BY <1>4, TransportAssumption
  DEF ConsumeExecutionTicket, RegistriesOK, CallRefs, WorkersOK, WorkerRefs, ExecUse
<1>5. ASSUME NEW h \in Actor, NEW u \in DOMAIN execUses, QueueBegin(h, u)
      PROVE RegistriesOK' /\ WorkersOK'
  <2>1. execUses[u] \in ExecUse /\ u \in Nat
    BY DEF RegistriesOK
  <2>2. MinOf(now + EnvelopeTTL, execUses[u].expires) \in Nat
    BY <2>1, TransportAssumption DEF RegistriesOK, MinOf, ExecUse
  <2>3. queueCalls' \subseteq QueueCall /\ \A c \in queueCalls' : c.use \in DOMAIN execUses
    BY <1>5, <2>1, <2>2 DEF QueueBegin, RegistriesOK, CallRefs, QueueCall
  <2> QED
    BY <1>5, <2>3 DEF QueueBegin, RegistriesOK, CallRefs, WorkersOK, WorkerRefs
<1>6. ASSUME NEW c \in queueCalls, QueueCommit(c) PROVE RegistriesOK' /\ WorkersOK'
  <2>1. /\ transport' \in Seq(Record)
        /\ DOMAIN transport \subseteq DOMAIN transport'
    BY <1>6, NewRecordType DEF QueueCommit, RegistriesOK
  <2>2. RegistriesOK'
    BY <1>6, <2>1 DEF QueueCommit, RegistriesOK, CallRefs
  <2>3. WorkersOK'
    BY <1>6, <2>1 DEF QueueCommit, WorkersOK, WorkerRefs
  <2> QED
    BY <2>2, <2>3
<1>7. ASSUME NEW a \in Agent, Poll(a) PROVE RegistriesOK' /\ WorkersOK'
  <2> DEFINE s == [agent[a] EXCEPT !.pc = "ready", !.todo = Listed]
  <2>1. agent[a] \in AgentState
    BY DEF WorkersOK, WorkerRefs
  <2>2. Listed \subseteq DOMAIN transport /\ Listed \in SUBSET Nat
    BY DEF Listed, RegistriesOK
  <2>3. s \in AgentState /\ s.pc = "ready" /\ s.todo = Listed
    BY <2>1, <2>2 DEF AgentState, Pc
  <2>4. s.todo \subseteq DOMAIN transport
    BY <2>2, <2>3
  <2>5. agent' = [agent EXCEPT ![a] = s] /\ transport' = transport
    BY <1>7 DEF Poll, serverVars
  <2> HIDE DEF s
  <2>6. WorkersOK'
    BY <2>3, <2>4, <2>5, OneWorker
  <2> QED
    BY <1>7, <2>6 DEF Poll, serverVars, RegistriesOK, CallRefs
<1>8. ASSUME NEW a \in Agent, EndOfRun(a) PROVE RegistriesOK' /\ WorkersOK'
  <2>1. Idle.todo \subseteq DOMAIN transport
    BY DEF Idle
  <2>2. WorkersOK'
    BY <1>8, <2>1, IdleType, OneWorker DEF EndOfRun, serverVars
  <2> QED
    BY <1>8, <2>2 DEF EndOfRun, serverVars, RegistriesOK, CallRefs
<1>9. ASSUME NEW a \in Agent, NEW t \in agent[a].todo, Claim(a, t)
      PROVE RegistriesOK' /\ WorkersOK'
  <2>1. agent[a] \in AgentState /\ agent[a].todo \subseteq DOMAIN transport
    BY DEF WorkersOK, WorkerRefs
  <2>2. t \in DOMAIN transport /\ t \in Nat
    BY <2>1 DEF AgentState
  <2> DEFINE call == [by |-> a, ticket |-> t, at |-> now, waiting |-> TRUE]
  <2>a. call \in ClaimCall /\ call.ticket \in DOMAIN transport
    BY <2>2 DEF ClaimCall, RegistriesOK
  <2>b. claimCalls' = claimCalls \cup {call} \/ claimCalls' = claimCalls
    BY <1>9 DEF Claim
  <2> HIDE DEF call
  <2>3. RegistriesOK'
    BY <1>9, <2>a, <2>b DEF Claim, RegistriesOK, CallRefs
  <2>4. CASE mode = "Simulation"
    <3> DEFINE s == [agent[a] EXCEPT !.pc = "claiming", !.ticket = t, !.todo = @ \ {t}]
    <3>1. s \in AgentState /\ s.pc = "claiming" /\ s.todo \subseteq agent[a].todo
      BY <2>1, <2>2 DEF AgentState, Pc
    <3>2. s.todo \subseteq DOMAIN transport
      BY <2>1, <3>1
    <3>3. agent' = [agent EXCEPT ![a] = s] /\ transport' = transport
      BY <1>9, <2>4 DEF Claim
    <3> HIDE DEF s
    <3> QED
      BY <2>3, <3>1, <3>2, <3>3, OneWorker
  <2>5. CASE mode # "Simulation"
    <3> DEFINE s == [agent[a] EXCEPT !.todo = @ \ {t}]
    <3>1. /\ s \in AgentState /\ s.pc = agent[a].pc /\ s.ticket = agent[a].ticket
          /\ s.todo \subseteq agent[a].todo
      BY <2>1, <2>2 DEF AgentState
    <3>2. s.todo \subseteq DOMAIN transport
      BY <2>1, <3>1
    <3>3. agent' = [agent EXCEPT ![a] = s] /\ transport' = transport
      BY <1>9, <2>5 DEF Claim
    <3> HIDE DEF s
    <3> QED
      BY <2>3, <3>1, <3>2, <3>3, OneWorker
  <2> QED
    BY <2>4, <2>5
<1>10. ASSUME NEW c \in claimCalls, ClaimCommit(c) PROVE RegistriesOK' /\ WorkersOK'
  <2>1. c \in ClaimCall /\ c.by \in Agent /\ c.ticket \in DOMAIN transport
    BY DEF RegistriesOK, CallRefs, ClaimCall
  <2>2. transport[c.ticket] \in Record /\ c.ticket \in Nat
    BY <2>1 DEF RegistriesOK
  <2>3. agent[c.by] \in AgentState /\ agent[c.by].todo \subseteq DOMAIN transport
    BY <2>1 DEF WorkersOK, WorkerRefs
  <2>4. CASE ~Claimable(c)
    <3>1. WorkersOK'
      BY <1>10, <2>1, <2>4, NextTicketOK DEF ClaimCommit, WorkersOK, WorkerRefs
    <3> QED
      BY <1>10, <2>4, <3>1 DEF ClaimCommit, RegistriesOK, CallRefs
  <2>5. CASE Claimable(c)
    <3> DEFINE r == [transport[c.ticket] EXCEPT !.state = "processing",
                       !.exec = minted + 1, !.by = c.by, !.claimed = c.at]
    <3>0. minted + 1 \in Nat /\ c.at \in Nat
      BY <2>1 DEF ClaimCall, RegistriesOK
    <3>1. r \in Record
      BY <2>1, <2>2, <3>0 DEF Record, State
    <3>2. transport' = [transport EXCEPT ![c.ticket] = r]
      BY <1>10, <2>5 DEF ClaimCommit
    <3> HIDE DEF r
    <3>3. transport' \in Seq(Record) /\ DOMAIN transport' = DOMAIN transport
      BY <2>1, <3>1, <3>2 DEF RegistriesOK
    <3>4. RegistriesOK'
      BY <1>10, <2>5, <3>3 DEF ClaimCommit, RegistriesOK, CallRefs
    <3> DEFINE s == [agent[c.by] EXCEPT !.pc = "claimed", !.exec = minted + 1,
                       !.env = EnvelopeOf(transport[c.ticket])]
    <3>5. CASE c.waiting
      <4>1. EnvelopeOf(transport[c.ticket]) \in Envelope
        BY <2>2 DEF EnvelopeOf, Envelope, Record
      <4>2. /\ s \in AgentState /\ s.pc = "claimed"
            /\ s.ticket = agent[c.by].ticket /\ s.todo = agent[c.by].todo
        BY <2>3, <3>0, <4>1 DEF AgentState, Pc
      <4>3. agent' = [agent EXCEPT ![c.by] = s]
        BY <1>10, <2>5, <3>5 DEF ClaimCommit
      <4>4. s.todo \subseteq DOMAIN transport
        BY <2>1, <2>3, <4>2, <3>5
      <4> HIDE DEF s
      <4> QED
        BY <2>1, <3>3, <3>4, <4>2, <4>3, <4>4, OneWorker
    <3>6. CASE ~c.waiting
      BY <1>10, <2>5, <3>3, <3>4, <3>6 DEF ClaimCommit, WorkersOK, WorkerRefs
    <3> QED
      BY <3>5, <3>6
  <2> QED
    BY <2>4, <2>5
<1>11. ASSUME NEW a \in Agent, VerifyEnvelope(a) PROVE RegistriesOK' /\ WorkersOK'
  <2>1. WorkersOK'
    BY <1>11, GotoOK, ReportOK, ResultTypes DEF VerifyEnvelope, serverVars, Pc
  <2> QED
    BY <1>11, <2>1 DEF VerifyEnvelope, serverVars, RegistriesOK, CallRefs
<1>12. ASSUME NEW a \in Agent, Inspect(a) PROVE RegistriesOK' /\ WorkersOK'
  <2>1. WorkersOK'
    BY <1>12, GotoOK, ReportOK, ResultTypes DEF Inspect, serverVars, Pc
  <2> QED
    BY <1>12, <2>1 DEF Inspect, serverVars, RegistriesOK, CallRefs
<1>13. ASSUME NEW a \in Agent, Restore(a) PROVE RegistriesOK' /\ WorkersOK'
  <2>1. WorkersOK'
    BY <1>13, GotoOK, ReportOK, ResultTypes DEF Restore, serverVars, Pc
  <2>2. agent[a] \in AgentState
    BY DEF WorkersOK
  <2> DEFINE w == [use |-> agent[a].env.use, guid |-> agent[a].env.guid,
                   ticket |-> agent[a].ticket, exec |-> agent[a].exec, by |-> a, mode |-> mode]
  <2>3. w \in Write
    BY <2>2 DEF AgentState, Envelope, Write, RegistriesOK
  <2>6. writes' = writes \/ writes' = Append(writes, w)
    BY <1>13 DEF Restore, RestoreADObject
  <2> HIDE DEF w
  <2>4. writes' \in Seq(Write)
    BY <2>3, <2>6 DEF RegistriesOK
  <2>5. ad' \in [Guid -> AdState]
    <3>1. PICK g : ad' = ad \/ ad' = [ad EXCEPT ![g] = "live"]
      BY <1>13 DEF Restore, RestoreADObject
    <3> QED
      BY <3>1 DEF RegistriesOK, AdState
  <2> QED
    BY <1>13, <2>1, <2>4, <2>5 DEF Restore, serverVars, RegistriesOK, CallRefs
<1>14. ASSUME NEW a \in Agent, VerifyRestored(a) PROVE RegistriesOK' /\ WorkersOK'
  <2>1. WorkersOK'
    BY <1>14, GotoOK, ReportOK, ResultTypes DEF VerifyRestored, serverVars, Pc
  <2> QED
    BY <1>14, <2>1 DEF VerifyRestored, serverVars, RegistriesOK, CallRefs
<1>15. ASSUME NEW a \in Agent, Send(a) PROVE RegistriesOK' /\ WorkersOK'
  <2>1. WorkersOK'
    BY <1>15, GotoOK, NextTicketOK DEF Send, Pc
  <2>2. agent[a] \in AgentState
    BY DEF WorkersOK
  <2> DEFINE call == [by |-> a, ticket |-> agent[a].ticket, exec |-> agent[a].exec,
                      res |-> agent[a].res, at |-> now, waiting |-> TRUE]
  <2>a. call \in ResultCall
    BY <2>2 DEF AgentState, ResultCall, RegistriesOK
  <2>b. resultCalls' = resultCalls \cup {call} \/ resultCalls' = resultCalls
    BY <1>15 DEF Send
  <2> HIDE DEF call
  <2>3. resultCalls' \subseteq ResultCall
    BY <2>a, <2>b DEF RegistriesOK
  <2> QED
    BY <1>15, <2>1, <2>3 DEF Send, RegistriesOK, CallRefs
<1>16. ASSUME NEW c \in resultCalls, ResultCommit(c) PROVE RegistriesOK' /\ WorkersOK'
  <2>1. c \in ResultCall /\ c.by \in Agent /\ c.res \in Result
    BY DEF RegistriesOK, ResultCall
  <2> DEFINE r == [transport[c.ticket] EXCEPT !.state = Verdict(c.res.success),
                                              !.write = c.res.write]
  <2>2. c.ticket \in DOMAIN transport => r \in Record
    <3>1. Verdict(c.res.success) \in State /\ c.res.write \in BOOLEAN
      BY <2>1 DEF Verdict, State, Result
    <3>2. c.ticket \in DOMAIN transport => transport[c.ticket] \in Record
      BY DEF RegistriesOK
    <3> QED
      BY <3>1, <3>2 DEF Record
  <2>3. transport' = transport \/ transport' = [transport EXCEPT ![c.ticket] = r]
    BY <1>16 DEF ResultCommit
  <2> HIDE DEF r
  <2>4. transport' \in Seq(Record) /\ DOMAIN transport' = DOMAIN transport
    <3>1. CASE c.ticket \in DOMAIN transport
      BY <2>2, <2>3, <3>1 DEF RegistriesOK
    <3>2. CASE c.ticket \notin DOMAIN transport
      BY <2>3, <3>2 DEF RegistriesOK
    <3> QED
      BY <3>1, <3>2
  <2>5. WorkersOK'
    BY <1>16, <2>1, <2>4, NextTicketOK DEF ResultCommit, WorkersOK, WorkerRefs
  <2> QED
    BY <1>16, <2>4, <2>5 DEF ResultCommit, RegistriesOK, CallRefs
<1>17. ASSUME NEW a \in Agent, NEW s \in AgentState, s.todo \subseteq DOMAIN transport,
              AgentLeaves(a, s)
       PROVE RegistriesOK' /\ WorkersOK'
  <2>1. WorkersOK'
    BY <1>17, OneWorker DEF AgentLeaves
  <2>2. claimCalls' \subseteq ClaimCall /\ resultCalls' \subseteq ResultCall
    BY <1>17, AbandonTypes DEF AgentLeaves, RegistriesOK
  <2>3. \A c \in claimCalls' : c.ticket \in DOMAIN transport
    BY <1>17, AbandonTypes DEF AgentLeaves, RegistriesOK, CallRefs
  <2> QED
    BY <1>17, <2>1, <2>2, <2>3 DEF AgentLeaves, RegistriesOK, CallRefs
<1>18. ASSUME NEW a \in Agent, AnswerLost(a) PROVE RegistriesOK' /\ WorkersOK'
  <2>1. /\ NextTicket(agent[a]) \in AgentState
        /\ NextTicket(agent[a]).todo \subseteq DOMAIN transport
    BY NextTicketType DEF WorkersOK, WorkerRefs
  <2> QED
    BY <1>17, <1>18, <2>1 DEF AnswerLost
<1>19. ASSUME NEW a \in Agent, AgentCrash(a) PROVE RegistriesOK' /\ WorkersOK'
  <2>1. Idle.todo \subseteq DOMAIN transport
    BY DEF Idle
  <2> QED
    BY <1>17, <1>19, <2>1, IdleType DEF AgentCrash
<1>20. CASE ApiRestart
  BY <1>20 DEF ApiRestart, RegistriesOK, CallRefs, WorkersOK, WorkerRefs
<1>21. CASE UNCHANGED vars
  BY <1>21 DEF vars, serverVars, RegistriesOK, CallRefs, WorkersOK, WorkerRefs
<1> QED
  BY <1>1, <1>2, <1>3, <1>4, <1>5, <1>6, <1>7, <1>8, <1>9, <1>10, <1>11, <1>12,
     <1>13, <1>14, <1>15, <1>16, <1>18, <1>19, <1>20, <1>21
  DEF Next, Step, AgentStep, Commit

\* The types of the state, with the references between calls, workers and
\* records, hold whatever the constants.
THEOREM TypeCorrect == Spec => []TypeInv
BY InitTypeInv, NextTypeInv, PTL DEF Spec

\* The types alone: what the routes and the worker store has the form they read.
THEOREM TypeInvariant == Spec => []TypeOK
<1>1. TypeInv => TypeOK
  BY DEF TypeInv
<1> QED
  BY TypeCorrect, <1>1, PTL

-----------------------------------------------------------------------------
(***************************************************************************)
(* One write per grant.  The argument: a use has one record, a record is   *)
(* claimed once and names its claimer for ever, a worker that has yet to   *)
(* write holds a record that names it, and no write was made for it.  The  *)
(* calls whose answer is still awaited tie a worker to what it asked for.  *)
(***************************************************************************)
Unwritten == {"claimed", "verified", "inspected"}
Holding == Unwritten \cup {"restored", "reporting", "sending"}

CallsMatch ==
  /\ \A c \in claimCalls :
       c.waiting => agent[c.by].pc = "claiming" /\ agent[c.by].ticket = c.ticket
  /\ \A c \in resultCalls : c.waiting => agent[c.by].pc = "sending"
  /\ \A c, d \in claimCalls : c.waiting /\ d.waiting /\ c.by = d.by => c = d
  /\ \A c, d \in resultCalls : c.waiting /\ d.waiting /\ c.by = d.by => c = d

HolderMatches(a) ==
  LET t == agent[a].ticket IN
  /\ t \in DOMAIN transport
  /\ transport[t].state # "pending"
  /\ transport[t].exec = agent[a].exec
  /\ transport[t].by = a
  /\ transport[t].use = agent[a].env.use
  /\ transport[t].guid = agent[a].env.guid

HoldersMatch == \A a \in Agent : agent[a].pc \in Holding => HolderMatches(a)

NotYetWritten == \A a \in Agent : agent[a].pc \in Unwritten => ~WroteFor(agent[a].ticket)

OneRecordPerUse ==
  \A s, t \in DOMAIN transport : transport[s].use = transport[t].use => s = t

OneWritePerTicket ==
  \A i, j \in DOMAIN writes : writes[i].ticket = writes[j].ticket => i = j

GrantInv ==
  /\ CallsMatch
  /\ HoldersMatch
  /\ NotYetWritten
  /\ OneRecordPerUse
  /\ WriteUnderClaim
  /\ OneWritePerTicket

LEMMA GrantInvSuffices == GrantInv => OneWritePerGrant
BY DEF GrantInv, OneWritePerGrant, OneRecordPerUse, WriteUnderClaim, OneWritePerTicket

LEMMA InitGrantInv == Init => GrantInv
BY DEF Init, GrantInv, CallsMatch, HoldersMatch, NotYetWritten, OneRecordPerUse,
   WriteUnderClaim, OneWritePerTicket, Idle, Holding, Unwritten

(***************************************************************************)
(* Steps that leave calls, records and writes alone: of the environment,   *)
(* and of a worker that neither gets hold of a record nor goes back.       *)
(***************************************************************************)
LEMMA Elsewhere ==
  ASSUME GrantInv, UNCHANGED <<transport, claimCalls, resultCalls, agent, writes>>
  PROVE  GrantInv'
BY DEF GrantInv, CallsMatch, HoldersMatch, HolderMatches, NotYetWritten, WroteFor,
   OneRecordPerUse, WriteUnderClaim, OneWritePerTicket

KeepsHold(q, s) ==
  /\ s.pc \in Holding => /\ q.pc \in Holding
                         /\ s.ticket = q.ticket /\ s.exec = q.exec /\ s.env = q.env
  /\ s.pc \in Unwritten => q.pc \in Unwritten /\ s.ticket = q.ticket

LEMMA WorkerMoves ==
  ASSUME GrantInv, WorkersOK, NEW a \in Agent, NEW s \in AgentState,
         agent' = [agent EXCEPT ![a] = s], KeepsHold(agent[a], s),
         agent[a].pc \notin {"claiming", "sending"},
         UNCHANGED <<transport, claimCalls, resultCalls, writes>>
  PROVE  GrantInv'
<1>1. agent'[a] = s /\ \A b \in Agent \ {a} : agent'[b] = agent[b]
  BY DEF WorkersOK
<1>2. CallsMatch'
  BY DEF GrantInv, CallsMatch, WorkersOK
<1>3. HoldersMatch'
  BY <1>1 DEF GrantInv, HoldersMatch, HolderMatches, KeepsHold
<1>4. NotYetWritten'
  BY <1>1 DEF GrantInv, NotYetWritten, WroteFor, KeepsHold
<1>5. OneRecordPerUse' /\ WriteUnderClaim' /\ OneWritePerTicket'
  BY DEF GrantInv, OneRecordPerUse, WriteUnderClaim, OneWritePerTicket
<1> QED
  BY <1>2, <1>3, <1>4, <1>5 DEF GrantInv

LEMMA GotoKeeps ==
  ASSUME GrantInv, WorkersOK, NEW a \in Agent, NEW pc \in Pc, Goto(a, pc),
         agent[a].pc \notin {"claiming", "sending"},
         pc \in Holding => agent[a].pc \in Holding,
         pc \in Unwritten => agent[a].pc \in Unwritten,
         UNCHANGED <<transport, claimCalls, resultCalls, writes>>
  PROVE  GrantInv'
<1> DEFINE s == [agent[a] EXCEPT !.pc = pc]
<1>1. s \in AgentState /\ KeepsHold(agent[a], s)
  BY DEF KeepsHold, WorkersOK, AgentState
<1>2. agent' = [agent EXCEPT ![a] = s]
  BY DEF Goto
<1> HIDE DEF s
<1> QED
  BY <1>1, <1>2, WorkerMoves

LEMMA ReportKeeps ==
  ASSUME GrantInv, WorkersOK, NEW a \in Agent, NEW r \in Result, ReportResult(a, r),
         agent[a].pc \in Holding \ {"sending"},
         UNCHANGED <<transport, claimCalls, resultCalls, writes>>
  PROVE  GrantInv'
<1> DEFINE s == [agent[a] EXCEPT !.pc = "reporting", !.res = r]
<1>1. s \in AgentState /\ KeepsHold(agent[a], s)
  BY DEF KeepsHold, WorkersOK, AgentState, Pc, Unwritten
<1>2. agent' = [agent EXCEPT ![a] = s]
  BY DEF ReportResult
<1> HIDE DEF s
<1> QED
  BY <1>1, <1>2, WorkerMoves DEF Holding, Unwritten


(***************************************************************************)
(* Steps that answer, drop or abandon calls, and may settle a record.      *)
(***************************************************************************)
RecordsKept ==
  /\ DOMAIN transport' = DOMAIN transport
  /\ \A t \in DOMAIN transport :
       /\ transport'[t].use = transport[t].use
       /\ transport'[t].guid = transport[t].guid
       /\ transport'[t].exec = transport[t].exec
       /\ transport'[t].by = transport[t].by
       /\ transport[t].state # "pending" => transport'[t].state # "pending"

AwaitedAmong(calls, others) == \A c \in calls : c.waiting => c \in others

LEMMA CallsDrop ==
  ASSUME GrantInv, RecordsKept, agent' = agent, writes' = writes,
         AwaitedAmong(claimCalls', claimCalls), AwaitedAmong(resultCalls', resultCalls)
  PROVE  GrantInv'
<1>1. CallsMatch'
  BY DEF GrantInv, CallsMatch, AwaitedAmong
<1>2. HoldersMatch' /\ NotYetWritten'
  BY DEF GrantInv, HoldersMatch, HolderMatches, NotYetWritten, WroteFor, RecordsKept
<1>3. OneRecordPerUse' /\ WriteUnderClaim' /\ OneWritePerTicket'
  BY DEF GrantInv, OneRecordPerUse, WriteUnderClaim, OneWritePerTicket, RecordsKept
<1> QED
  BY <1>1, <1>2, <1>3 DEF GrantInv

LEMMA Release ==
  ASSUME GrantInv, WorkersOK, RecordsKept, NEW a \in Agent, NEW s \in AgentState,
         s.pc \in {"idle", "ready"}, agent' = [agent EXCEPT ![a] = s], writes' = writes,
         AwaitedAmong(claimCalls', {c \in claimCalls : c.by # a}),
         AwaitedAmong(resultCalls', {c \in resultCalls : c.by # a})
  PROVE  GrantInv'
<1>1. agent'[a] = s /\ \A b : b # a => agent'[b] = agent[b]
  BY DEF WorkersOK
<1>2. CallsMatch'
  BY <1>1 DEF GrantInv, CallsMatch, AwaitedAmong
<1>3. HoldersMatch' /\ NotYetWritten'
  BY <1>1 DEF GrantInv, HoldersMatch, HolderMatches, NotYetWritten, WroteFor,
              RecordsKept, Holding, Unwritten
<1>4. OneRecordPerUse' /\ WriteUnderClaim' /\ OneWritePerTicket'
  BY DEF GrantInv, OneRecordPerUse, WriteUnderClaim, OneWritePerTicket, RecordsKept
<1> QED
  BY <1>2, <1>3, <1>4 DEF GrantInv

LEMMA NextGrantInv == TypeInv /\ GrantInv /\ [Next]_vars => GrantInv'
<1> SUFFICES ASSUME TypeInv, WorkersOK, RegistriesOK, GrantInv, [Next]_vars
             PROVE  GrantInv'
  BY DEF TypeInv, TypeOK, References, RegistriesOK, WorkersOK
<1>1. CASE Tick
  BY <1>1, Elsewhere DEF Tick, serverVars
<1>2. CASE SetMode
  BY <1>2, Elsewhere DEF SetMode, serverVars
<1>3. ASSUME NEW g \in Guid, ChangeDirectory(g) PROVE GrantInv'
  BY <1>3, Elsewhere DEF ChangeDirectory, serverVars
<1>4. ASSUME NEW g \in Guid, NEW h \in Actor, NEW ttl \in 1..ExecTicketTTL,
             ConsumeExecutionTicket(g, h, ttl)
      PROVE GrantInv'
  BY <1>4, Elsewhere DEF ConsumeExecutionTicket
<1>5. ASSUME NEW h \in Actor, NEW u \in DOMAIN execUses, QueueBegin(h, u)
      PROVE GrantInv'
  BY <1>5, Elsewhere DEF QueueBegin
<1>6. ASSUME NEW c \in queueCalls, QueueCommit(c) PROVE GrantInv'
  <2>1. CASE transport' = transport
    BY <1>6, <2>1, Elsewhere DEF QueueCommit
  <2>2. CASE transport' # transport
    <3> DEFINE r == NewRecord(c)
               n == Len(transport)
    <3>1. transport' = Append(transport, r) /\ ~Queued(c.use)
      BY <1>6, <2>2 DEF QueueCommit
    <3>2. r.use = c.use /\ r.state = "pending"
      BY DEF NewRecord
    <3>3. n \in Nat /\ DOMAIN transport = 1..n /\ transport \in Seq(Record)
      BY DEF RegistriesOK
    <3>4. r \in Record
      BY NewRecordType
    <3> HIDE DEF r
    <3>5. /\ DOMAIN transport' = 1..(n + 1) /\ transport'[n + 1] = r
          /\ \A t \in 1..n : transport'[t] = transport[t]
      BY <3>1, <3>3, <3>4
    <3>6. UNCHANGED <<claimCalls, resultCalls, agent, writes>>
      BY <1>6 DEF QueueCommit
    <3> HIDE DEF n
    <3>7. OneRecordPerUse'
      <4>1. \A t \in 1..n : transport[t].use # c.use
        BY <3>1, <3>3 DEF Queued
      <4> QED
        BY <3>2, <3>3, <3>5, <4>1 DEF GrantInv, OneRecordPerUse
    <3>8. HoldersMatch'
      BY <3>3, <3>5, <3>6 DEF GrantInv, HoldersMatch, HolderMatches
    <3>9. WriteUnderClaim'
      BY <3>3, <3>5, <3>6 DEF GrantInv, WriteUnderClaim
    <3> QED
      BY <3>6, <3>7, <3>8, <3>9
      DEF GrantInv, CallsMatch, NotYetWritten, WroteFor, OneWritePerTicket
  <2> QED
    BY <2>1, <2>2
<1>7. ASSUME NEW a \in Agent, Poll(a) PROVE GrantInv'
  <2> DEFINE s == [agent[a] EXCEPT !.pc = "ready", !.todo = Listed]
  <2>a. agent[a] \in AgentState /\ Listed \in SUBSET Nat
    BY DEF WorkersOK, Listed, RegistriesOK
  <2>1. s \in AgentState /\ s.pc = "ready"
    BY <2>a DEF AgentState, Pc
  <2>2. agent' = [agent EXCEPT ![a] = s]
    BY <1>7 DEF Poll
  <2> HIDE DEF s
  <2> QED
    BY <1>7, <2>1, <2>2, WorkerMoves DEF Poll, serverVars, KeepsHold, Holding, Unwritten
<1>8. ASSUME NEW a \in Agent, EndOfRun(a) PROVE GrantInv'
  BY <1>8, WorkerMoves, IdleType
  DEF EndOfRun, serverVars, KeepsHold, Holding, Unwritten, Idle
<1>9. ASSUME NEW a \in Agent, NEW t \in agent[a].todo, Claim(a, t) PROVE GrantInv'
  <2>1. agent[a] \in AgentState /\ agent[a].pc = "ready" /\ t \in Nat
    BY <1>9 DEF WorkersOK, Claim, AgentState
  <2>2. CASE mode = "Simulation"
    <3> DEFINE s == [agent[a] EXCEPT !.pc = "claiming", !.ticket = t, !.todo = @ \ {t}]
               call == [by |-> a, ticket |-> t, at |-> now, waiting |-> TRUE]
    <3>1. s.pc = "claiming" /\ s.ticket = t
      BY <2>1 DEF AgentState
    <3>2. call.by = a /\ call.ticket = t
      OBVIOUS
    <3>3. /\ agent' = [agent EXCEPT ![a] = s] /\ claimCalls' = claimCalls \cup {call}
          /\ UNCHANGED <<transport, resultCalls, writes>>
      BY <1>9, <2>2 DEF Claim
    <3> HIDE DEF s, call
    <3>4. agent'[a] = s /\ \A b \in Agent \ {a} : agent'[b] = agent[b]
      BY <3>3 DEF WorkersOK
    <3>5. CallsMatch'
      <4>1. \A c \in claimCalls \cup resultCalls : c.waiting => c.by # a
        BY <2>1 DEF GrantInv, CallsMatch
      <4>2. \A c \in claimCalls \cup resultCalls : c.waiting => agent'[c.by] = agent[c.by]
        BY <3>3, <4>1
      <4> QED
        BY <3>1, <3>2, <3>3, <3>4, <4>1, <4>2 DEF GrantInv, CallsMatch
    <3>6. HoldersMatch' /\ NotYetWritten'
      BY <3>1, <3>3, <3>4
      DEF GrantInv, HoldersMatch, HolderMatches, NotYetWritten, WroteFor, Holding, Unwritten
    <3> QED
      BY <3>3, <3>5, <3>6 DEF GrantInv, OneRecordPerUse, WriteUnderClaim, OneWritePerTicket
  <2>3. CASE mode # "Simulation"
    <3> DEFINE s == [agent[a] EXCEPT !.todo = @ \ {t}]
    <3>1. s \in AgentState /\ s.pc = "ready"
      BY <2>1 DEF AgentState
    <3>2. agent' = [agent EXCEPT ![a] = s]
      BY <1>9, <2>3 DEF Claim
    <3> HIDE DEF s
    <3> QED
      BY <1>9, <2>1, <2>3, <3>1, <3>2, WorkerMoves
      DEF Claim, KeepsHold, Holding, Unwritten
  <2> QED
    BY <2>2, <2>3
<1>10. ASSUME NEW c \in claimCalls, ClaimCommit(c) PROVE GrantInv'
  <2>1. c \in ClaimCall /\ c.by \in Agent /\ c.ticket \in DOMAIN transport
    BY DEF RegistriesOK, CallRefs, ClaimCall
  <2>2. /\ AwaitedAmong(claimCalls', claimCalls)
        /\ AwaitedAmong(resultCalls', resultCalls)
        /\ writes' = writes /\ resultCalls' = resultCalls /\ claimCalls' = claimCalls \ {c}
    BY <1>10 DEF ClaimCommit, AwaitedAmong
  <2>3. c.waiting => /\ AwaitedAmong(claimCalls', {d \in claimCalls : d.by # c.by})
                     /\ AwaitedAmong(resultCalls', {d \in resultCalls : d.by # c.by})
    BY <2>1, <2>2 DEF AwaitedAmong, GrantInv, CallsMatch
  <2>4. CASE ~Claimable(c)
    <3>1. RecordsKept
      BY <1>10, <2>4 DEF ClaimCommit, RecordsKept
    <3>2. CASE c.waiting
      <4>1. NextTicket(agent[c.by]) \in AgentState /\ NextTicket(agent[c.by]).pc = "ready"
        BY <2>1, NextTicketType DEF WorkersOK
      <4> QED
        BY <1>10, <2>1, <2>2, <2>3, <2>4, <3>1, <3>2, <4>1, Release DEF ClaimCommit
    <3>3. CASE ~c.waiting
      BY <1>10, <2>2, <2>4, <3>1, <3>3, CallsDrop DEF ClaimCommit
    <3> QED
      BY <3>2, <3>3
  <2>5. CASE Claimable(c)
    <3> DEFINE r == [transport[c.ticket] EXCEPT !.state = "processing",
                       !.exec = minted + 1, !.by = c.by, !.claimed = c.at]
               s == [agent[c.by] EXCEPT !.pc = "claimed", !.exec = minted + 1,
                       !.env = EnvelopeOf(transport[c.ticket])]
    <3>1. transport[c.ticket] \in Record /\ agent[c.by] \in AgentState
      BY <2>1 DEF RegistriesOK, WorkersOK
    <3>2. /\ r.state = "processing" /\ r.exec = minted + 1 /\ r.by = c.by
          /\ r.use = transport[c.ticket].use /\ r.guid = transport[c.ticket].guid
      BY <3>1 DEF Record
    <3>3. /\ s.pc = "claimed" /\ s.exec = minted + 1 /\ s.ticket = agent[c.by].ticket
          /\ s.env.use = transport[c.ticket].use
          /\ s.env.guid = transport[c.ticket].guid
      BY <3>1 DEF AgentState, EnvelopeOf
    <3>4. /\ transport' = [transport EXCEPT ![c.ticket] = r]
          /\ agent' = IF c.waiting THEN [agent EXCEPT ![c.by] = s] ELSE agent
      BY <1>10, <2>5 DEF ClaimCommit
    <3> HIDE DEF r, s
    <3>5. /\ DOMAIN transport' = DOMAIN transport /\ transport'[c.ticket] = r
          /\ \A t \in DOMAIN transport \ {c.ticket} : transport'[t] = transport[t]
          /\ transport[c.ticket].state = "pending"
      BY <2>1, <2>5, <3>4 DEF Claimable, RegistriesOK
    <3>6. /\ \A b \in Agent : b # c.by => agent'[b] = agent[b]
          /\ c.waiting => agent'[c.by] = s
          /\ ~c.waiting => agent' = agent
      BY <2>1, <3>4 DEF WorkersOK
    <3>7. CallsMatch'
      BY <2>1, <2>2, <2>3, <3>6 DEF GrantInv, CallsMatch, AwaitedAmong, RegistriesOK,
                               ClaimCall, ResultCall
    <3>8. ~WroteFor(c.ticket)
      BY <3>5 DEF GrantInv, WriteUnderClaim, WroteFor
    <3>9. \A a \in Agent : agent[a].pc \in Holding => agent[a].ticket # c.ticket
      BY <3>5 DEF GrantInv, HoldersMatch, HolderMatches
    <3>10. c.waiting => agent[c.by].ticket = c.ticket
      BY DEF GrantInv, CallsMatch
    <3>11. HoldersMatch'
      BY <2>1, <3>2, <3>3, <3>5, <3>6, <3>9, <3>10
      DEF GrantInv, HoldersMatch, HolderMatches
    <3>12. NotYetWritten'
      BY <2>2, <3>3, <3>6, <3>8, <3>10 DEF GrantInv, NotYetWritten, WroteFor
    <3>13. OneRecordPerUse'
      BY <3>2, <3>5 DEF GrantInv, OneRecordPerUse
    <3>14. WriteUnderClaim'
      BY <2>2, <3>5 DEF GrantInv, WriteUnderClaim
    <3> QED
      BY <2>2, <3>7, <3>11, <3>12, <3>13, <3>14 DEF GrantInv, OneWritePerTicket
  <2> QED
    BY <2>4, <2>5
<1>11. ASSUME NEW a \in Agent, VerifyEnvelope(a) PROVE GrantInv'
  BY <1>11, GotoKeeps, ReportKeeps, ResultTypes
  DEF VerifyEnvelope, serverVars, Pc, Holding, Unwritten
<1>12. ASSUME NEW a \in Agent, Inspect(a) PROVE GrantInv'
  BY <1>12, GotoKeeps, ReportKeeps, ResultTypes
  DEF Inspect, serverVars, Pc, Holding, Unwritten
<1>13. ASSUME NEW a \in Agent, Restore(a) PROVE GrantInv'
  <2>1. CASE ReportResult(a, CmdletFailed) /\ writes' = writes
    BY <1>13, <2>1, ReportKeeps, ResultTypes DEF Restore, serverVars, Holding, Unwritten
  <2>2. CASE RestoreADObject(a) /\ (Goto(a, "restored") \/ ReportResult(a, CmdletFailed))
    <3> DEFINE w == [use |-> agent[a].env.use, guid |-> agent[a].env.guid,
                     ticket |-> agent[a].ticket, exec |-> agent[a].exec, by |-> a, mode |-> mode]
               t == agent[a].ticket
               n == Len(writes)
    <3>1. /\ agent[a].pc = "inspected" /\ agent[a].pc \in Unwritten
          /\ UNCHANGED <<transport, claimCalls, resultCalls>>
      BY <1>13 DEF Restore, serverVars, Unwritten
    <3>2. PICK s : /\ agent' = [agent EXCEPT ![a] = s]
                   /\ s.pc \in {"restored", "reporting"}
                   /\ s.ticket = t /\ s.exec = agent[a].exec /\ s.env = agent[a].env
      <4>1. agent[a] \in AgentState
        BY DEF WorkersOK
      <4>2. CASE Goto(a, "restored")
        <5> DEFINE q == [agent[a] EXCEPT !.pc = "restored"]
        <5>1. /\ agent' = [agent EXCEPT ![a] = q] /\ q.pc = "restored" /\ q.ticket = t
              /\ q.exec = agent[a].exec /\ q.env = agent[a].env
          BY <4>1, <4>2 DEF Goto, AgentState
        <5> QED
          BY <5>1
      <4>3. CASE ReportResult(a, CmdletFailed)
        <5> DEFINE q == [agent[a] EXCEPT !.pc = "reporting", !.res = CmdletFailed]
        <5>1. /\ agent' = [agent EXCEPT ![a] = q] /\ q.pc = "reporting" /\ q.ticket = t
              /\ q.exec = agent[a].exec /\ q.env = agent[a].env
          BY <4>1, <4>3 DEF ReportResult, AgentState
        <5> QED
          BY <5>1
      <4> QED
        BY <2>2, <4>2, <4>3
    <3>3. agent'[a] = s /\ \A b \in Agent \ {a} : agent'[b] = agent[b]
      BY <3>2 DEF WorkersOK
    <3>4. HolderMatches(a) /\ ~WroteFor(t)
      BY <3>1 DEF GrantInv, HoldersMatch, NotYetWritten, Holding
    <3>5. w.ticket = t /\ w.exec = agent[a].exec /\ w.by = a /\ w.use = agent[a].env.use
          /\ w.guid = agent[a].env.guid
      OBVIOUS
    <3>6. writes' = Append(writes, w)
      BY <2>2 DEF RestoreADObject
    <3> HIDE DEF w
    <3>7. /\ n \in Nat /\ DOMAIN writes = 1..n /\ DOMAIN writes' = 1..(n + 1)
          /\ writes'[n + 1] = w /\ \A i \in 1..n : writes'[i] = writes[i]
      BY <3>6 DEF RegistriesOK
    <3> HIDE DEF n
    <3>8. CallsMatch'
      BY <3>1, <3>2 DEF GrantInv, CallsMatch, WorkersOK
    <3>9. HoldersMatch'
      BY <3>1, <3>2, <3>3, <3>4
      DEF GrantInv, HoldersMatch, HolderMatches, Holding, Unwritten
    <3>10. NotYetWritten'
      <4>1. \A b \in Agent \ {a} : agent[b].pc \in Unwritten => agent[b].ticket # t
        BY <3>4 DEF GrantInv, HoldersMatch, HolderMatches, Holding
      <4>2. agent'[a].pc \notin Unwritten
        BY <3>2, <3>3 DEF Unwritten
      <4> QED
        BY <3>3, <3>5, <3>7, <4>1, <4>2 DEF GrantInv, NotYetWritten, WroteFor
    <3>11. WriteUnderClaim'
      BY <3>1, <3>4, <3>5, <3>7 DEF GrantInv, WriteUnderClaim, HolderMatches
    <3>12. OneWritePerTicket'
      BY <3>4, <3>5, <3>7 DEF GrantInv, OneWritePerTicket, WroteFor
    <3> QED
      BY <3>1, <3>8, <3>9, <3>10, <3>11, <3>12 DEF GrantInv, OneRecordPerUse
  <2> QED
    BY <1>13, <2>1, <2>2 DEF Restore
<1>14. ASSUME NEW a \in Agent, VerifyRestored(a) PROVE GrantInv'
  BY <1>14, ReportKeeps, ResultTypes DEF VerifyRestored, serverVars, Holding
<1>15. ASSUME NEW a \in Agent, Send(a) PROVE GrantInv'
  <2>1. agent[a] \in AgentState /\ agent[a].pc = "reporting"
    BY <1>15 DEF WorkersOK, Send
  <2>2. \A c \in claimCalls \cup resultCalls : c.waiting => c.by # a
    BY <2>1 DEF GrantInv, CallsMatch
  <2>3. CASE mode = "Simulation"
    <3> DEFINE s == [agent[a] EXCEPT !.pc = "sending"]
               call == [by |-> a, ticket |-> agent[a].ticket, exec |-> agent[a].exec,
                        res |-> agent[a].res, at |-> now, waiting |-> TRUE]
    <3>1. /\ s.pc = "sending" /\ s.ticket = agent[a].ticket
          /\ s.exec = agent[a].exec /\ s.env = agent[a].env
      BY <2>1 DEF AgentState
    <3>2. /\ agent' = [agent EXCEPT ![a] = s] /\ resultCalls' = resultCalls \cup {call}
          /\ UNCHANGED <<transport, claimCalls, writes>>
      BY <1>15, <2>3 DEF Send, Goto
    <3>3. call.by = a
      OBVIOUS
    <3> HIDE DEF s, call
    <3>4. agent'[a] = s /\ \A b : b # a => agent'[b] = agent[b]
      BY <3>2 DEF WorkersOK
    <3>5. CallsMatch'
      BY <2>2, <3>1, <3>2, <3>3, <3>4 DEF GrantInv, CallsMatch
    <3>6. HoldersMatch' /\ NotYetWritten'
      BY <2>1, <3>1, <3>2, <3>4
      DEF GrantInv, HoldersMatch, HolderMatches, NotYetWritten, WroteFor, Holding, Unwritten
    <3> QED
      BY <3>2, <3>5, <3>6 DEF GrantInv, OneRecordPerUse, WriteUnderClaim, OneWritePerTicket
  <2>4. CASE mode # "Simulation"
    <3>1. /\ agent' = [agent EXCEPT ![a] = NextTicket(agent[a])]
          /\ UNCHANGED <<transport, claimCalls, resultCalls, writes>>
      BY <1>15, <2>4 DEF Send
    <3> QED
      BY <2>1, <3>1, NextTicketType, WorkerMoves DEF KeepsHold, Holding, Unwritten
  <2> QED
    BY <2>3, <2>4
<1>16. ASSUME NEW c \in resultCalls, ResultCommit(c) PROVE GrantInv'
  <2>1. c \in ResultCall /\ c.by \in Agent /\ c.res \in Result
    BY DEF RegistriesOK, ResultCall
  <2>2. /\ claimCalls' = claimCalls /\ resultCalls' = resultCalls \ {c} /\ writes' = writes
        /\ AwaitedAmong(claimCalls', claimCalls) /\ AwaitedAmong(resultCalls', resultCalls)
    BY <1>16 DEF ResultCommit, AwaitedAmong
  <2>3. RecordsKept
    <3> DEFINE r == [transport[c.ticket] EXCEPT !.state = Verdict(c.res.success),
                                                !.write = c.res.write]
    <3>1. transport' = transport \/ transport' = [transport EXCEPT ![c.ticket] = r]
      BY <1>16 DEF ResultCommit
    <3>2. \A t \in DOMAIN transport : transport[t] \in Record
      BY DEF RegistriesOK
    <3>3. c.ticket \in DOMAIN transport =>
            /\ r.use = transport[c.ticket].use /\ r.exec = transport[c.ticket].exec
            /\ r.guid = transport[c.ticket].guid
            /\ r.by = transport[c.ticket].by /\ r.state # "pending"
      BY <3>2 DEF Record, Verdict
    <3> HIDE DEF r
    <3> QED
      BY <3>1, <3>3 DEF RecordsKept, RegistriesOK
  <2>4. CASE c.waiting
    <3>1. NextTicket(agent[c.by]) \in AgentState /\ NextTicket(agent[c.by]).pc = "ready"
      BY <2>1, NextTicketType DEF WorkersOK
    <3>2. /\ AwaitedAmong(claimCalls', {d \in claimCalls : d.by # c.by})
          /\ AwaitedAmong(resultCalls', {d \in resultCalls : d.by # c.by})
      BY <2>1, <2>2, <2>4 DEF AwaitedAmong, GrantInv, CallsMatch
    <3>3. agent' = [agent EXCEPT ![c.by] = NextTicket(agent[c.by])]
      BY <1>16, <2>4 DEF ResultCommit
    <3> QED
      BY <2>1, <2>2, <2>3, <3>1, <3>2, <3>3, Release
  <2>5. CASE ~c.waiting
    BY <1>16, <2>2, <2>3, <2>5, CallsDrop DEF ResultCommit
  <2> QED
    BY <2>4, <2>5
<1>17. ASSUME NEW a \in Agent, NEW s \in AgentState, s.pc \in {"idle", "ready"},
              AgentLeaves(a, s)
       PROVE GrantInv'
  <2>1. /\ AwaitedAmong(claimCalls', {c \in claimCalls : c.by # a})
        /\ AwaitedAmong(resultCalls', {c \in resultCalls : c.by # a})
    BY <1>17 DEF AgentLeaves, Abandon, AwaitedAmong, RegistriesOK, ClaimCall, ResultCall
  <2>2. RecordsKept
    BY <1>17 DEF AgentLeaves, RecordsKept
  <2> QED
    BY <1>17, <2>1, <2>2, Release DEF AgentLeaves
<1>18. ASSUME NEW a \in Agent, AnswerLost(a) PROVE GrantInv'
  BY <1>17, <1>18, NextTicketType DEF AnswerLost, WorkersOK
<1>19. ASSUME NEW a \in Agent, AgentCrash(a) PROVE GrantInv'
  BY <1>17, <1>19, IdleType DEF AgentCrash, Idle
<1>20. CASE ApiRestart
  BY <1>20, CallsDrop DEF ApiRestart, AwaitedAmong, RecordsKept
<1>21. CASE UNCHANGED vars
  BY <1>21, Elsewhere DEF vars, serverVars
<1> QED
  BY <1>1, <1>2, <1>3, <1>4, <1>5, <1>6, <1>7, <1>8, <1>9, <1>10, <1>11, <1>12,
     <1>13, <1>14, <1>15, <1>16, <1>18, <1>19, <1>20, <1>21
  DEF Next, Step, AgentStep, Commit

LEMMA GrantInvariant == Spec => []GrantInv
BY TypeCorrect, InitGrantInv, NextGrantInv, PTL DEF Spec

\* An execution consumption leads to at most one Restore-ADObject: for any
\* number of workers, calls, crashes, lost answers and restarts.
THEOREM OneWrite == Spec => []OneWritePerGrant
BY GrantInvariant, GrantInvSuffices, PTL

\* Every write was made under the claim that the registry still names.
THEOREM WritesAreClaimed == Spec => []WriteUnderClaim
<1>1. GrantInv => WriteUnderClaim
  BY DEF GrantInv
<1> QED
  BY GrantInvariant, <1>1, PTL

-----------------------------------------------------------------------------
(***************************************************************************)
(* The three commits are the only steps that touch the registry.           *)
(***************************************************************************)
Monotone ==
  /\ Len(transport) <= Len(transport')
  /\ \A t \in DOMAIN transport : Later(transport[t], transport'[t])

LEMMA LaterItself == \A r \in Record : Later(r, r)
BY DEF Later, Rank, Record, State

LEMMA ClaimCommitted ==
  ASSUME TypeInv, NEW c \in claimCalls, ClaimCommit(c)
  PROVE  \/ ~Claimable(c) /\ UNCHANGED transport
         \/ \E r \in Record :
              /\ transport' = [transport EXCEPT ![c.ticket] = r]
              /\ c.ticket \in DOMAIN transport /\ transport[c.ticket].state = "pending"
              /\ r.state = "processing" /\ r.by = c.by
              /\ r.use = transport[c.ticket].use /\ r.guid = transport[c.ticket].guid
              /\ r.created = transport[c.ticket].created /\ r.claimed = c.at
              /\ r.expires = transport[c.ticket].expires /\ c.at < r.expires
<1>1. /\ c \in ClaimCall /\ c.ticket \in DOMAIN transport /\ c.by \in Agent
      /\ c.at \in Nat /\ minted + 1 \in Nat
  BY DEF TypeInv, TypeOK, References, CallRefs, ClaimCall
<1>2. transport[c.ticket] \in Record
  BY <1>1 DEF TypeInv, TypeOK
<1>3. CASE ~Claimable(c)
  BY <1>3 DEF ClaimCommit
<1>4. CASE Claimable(c)
  <2> DEFINE r == [transport[c.ticket] EXCEPT !.state = "processing",
                     !.exec = minted + 1, !.by = c.by, !.claimed = c.at]
  <2>1. r \in Record
    BY <1>1, <1>2 DEF Record, State
  <2>2. /\ r.state = "processing" /\ r.by = c.by /\ r.use = transport[c.ticket].use
        /\ r.guid = transport[c.ticket].guid /\ r.expires = transport[c.ticket].expires
        /\ r.created = transport[c.ticket].created /\ r.claimed = c.at
    BY <1>2 DEF Record
  <2>3. transport' = [transport EXCEPT ![c.ticket] = r]
    BY <1>4 DEF ClaimCommit
  <2> HIDE DEF r
  <2> QED
    BY <1>1, <1>4, <2>1, <2>2, <2>3 DEF Claimable
<1> QED
  BY <1>3, <1>4

LEMMA ResultCommitted ==
  ASSUME TypeInv, NEW c \in resultCalls, ResultCommit(c),
         c.ticket \in DOMAIN transport
  PROVE  \/ ~Acceptable(c) /\ UNCHANGED transport
         \/ \E r \in Record :
              /\ transport' = [transport EXCEPT ![c.ticket] = r]
              /\ transport[c.ticket].state = "processing"
              /\ r.state = Verdict(c.res.success) /\ r.write = c.res.write
              /\ r.use = transport[c.ticket].use /\ r.guid = transport[c.ticket].guid
              /\ r.expires = transport[c.ticket].expires
              /\ r.exec = transport[c.ticket].exec /\ r.by = transport[c.ticket].by
              /\ r.claimed = transport[c.ticket].claimed
              /\ r.created = transport[c.ticket].created
<1>1. c \in ResultCall /\ c.res \in Result
  BY DEF TypeInv, TypeOK, ResultCall
<1>2. transport[c.ticket] \in Record
  BY DEF TypeInv, TypeOK
<1>3. CASE ~Acceptable(c)
  BY <1>3 DEF ResultCommit
<1>4. CASE Acceptable(c)
  <2> DEFINE r == [transport[c.ticket] EXCEPT !.state = Verdict(c.res.success),
                                              !.write = c.res.write]
  <2>1. Verdict(c.res.success) \in State /\ c.res.write \in BOOLEAN
    BY <1>1 DEF Verdict, State, Result
  <2>2. r \in Record
    BY <1>2, <2>1 DEF Record
  <2>3. /\ r.state = Verdict(c.res.success) /\ r.write = c.res.write
        /\ r.use = transport[c.ticket].use /\ r.guid = transport[c.ticket].guid
        /\ r.expires = transport[c.ticket].expires
        /\ r.exec = transport[c.ticket].exec /\ r.by = transport[c.ticket].by
        /\ r.claimed = transport[c.ticket].claimed
        /\ r.created = transport[c.ticket].created
    BY <1>2 DEF Record
  <2>4. transport' = [transport EXCEPT ![c.ticket] = r]
    BY <1>4 DEF ResultCommit
  <2> HIDE DEF r
  <2> QED
    BY <1>4, <2>2, <2>3, <2>4 DEF Acceptable, Answers
<1> QED
  BY <1>3, <1>4

LEMMA QueueCommitted ==
  ASSUME TypeInv, NEW c \in queueCalls, QueueCommit(c)
  PROVE  \/ UNCHANGED transport
         \/ \E r \in Record :
              /\ transport' = Append(transport, r)
              /\ r.use = c.use /\ r.state = "pending" /\ r.by = "nobody"
              /\ r.created = c.at /\ r.expires = c.expires
              /\ c.use \in DOMAIN execUses /\ ~Queued(c.use)
<1>1. NewRecord(c) \in Record /\ c.use \in DOMAIN execUses
  BY NewRecordType DEF TypeInv, References, CallRefs
<1>2. /\ NewRecord(c).use = c.use /\ NewRecord(c).state = "pending"
      /\ NewRecord(c).by = "nobody"
      /\ NewRecord(c).created = c.at /\ NewRecord(c).expires = c.expires
  BY DEF NewRecord
<1> QED
  BY <1>1, <1>2 DEF QueueCommit

\* Every step but a commit leaves the registry alone.
LEMMA OnlyCommits ==
  ASSUME [Next]_vars
  PROVE  \/ UNCHANGED transport
         \/ \E c \in queueCalls : QueueCommit(c)
         \/ \E c \in claimCalls : ClaimCommit(c)
         \/ \E c \in resultCalls : ResultCommit(c)
BY DEF Next, Step, Commit, AgentStep, vars, serverVars, Tick, SetMode, ChangeDirectory,
   ConsumeExecutionTicket, QueueBegin, Poll, EndOfRun, Claim, VerifyEnvelope, Inspect,
   Restore, VerifyRestored, Send, AnswerLost, AgentCrash, AgentLeaves, ApiRestart

LEMMA StepIsMonotone == TypeInv /\ [Next]_vars => Monotone
<1> SUFFICES ASSUME TypeInv, [Next]_vars
             PROVE  Monotone
  OBVIOUS
<1>1. /\ transport \in Seq(Record)
      /\ \A t \in DOMAIN transport : transport[t] \in Record
  BY DEF TypeInv, TypeOK
<1>2. CASE UNCHANGED transport
  BY <1>1, <1>2, LaterItself DEF Monotone
<1>3. ASSUME NEW c \in queueCalls, QueueCommit(c)
      PROVE  Monotone
  BY <1>1, <1>2, <1>3, QueueCommitted, LaterItself DEF Monotone
<1>4. ASSUME NEW t \in DOMAIN transport, NEW r \in Record,
             transport' = [transport EXCEPT ![t] = r], Later(transport[t], r)
      PROVE  Monotone
  BY <1>1, <1>4, LaterItself DEF Monotone
<1>5. ASSUME NEW c \in claimCalls, ClaimCommit(c)
      PROVE  Monotone
  <2>1. CASE ~Claimable(c) /\ UNCHANGED transport
    BY <1>2, <2>1
  <2>2. ASSUME NEW r \in Record, transport' = [transport EXCEPT ![c.ticket] = r],
               c.ticket \in DOMAIN transport, transport[c.ticket].state = "pending",
               r.state = "processing",
               r.use = transport[c.ticket].use, r.guid = transport[c.ticket].guid,
               r.expires = transport[c.ticket].expires
        PROVE  Monotone
    <3>1. Later(transport[c.ticket], r)
      BY <2>2 DEF Later, Rank, State, Terminal
    <3> QED
      BY <1>4, <2>2, <3>1
  <2> QED
    BY <1>5, <2>1, <2>2, ClaimCommitted
<1>6. ASSUME NEW c \in resultCalls, ResultCommit(c)
      PROVE  Monotone
  <2>1. CASE c.ticket \notin DOMAIN transport
    BY <1>1, <1>2, <1>6, <2>1 DEF ResultCommit
  <2>2. ASSUME NEW r \in Record, transport' = [transport EXCEPT ![c.ticket] = r],
               c.ticket \in DOMAIN transport, transport[c.ticket].state = "processing",
               r.state = Verdict(c.res.success),
               r.use = transport[c.ticket].use, r.guid = transport[c.ticket].guid,
               r.expires = transport[c.ticket].expires,
               r.exec = transport[c.ticket].exec, r.by = transport[c.ticket].by,
               r.claimed = transport[c.ticket].claimed
        PROVE  Monotone
    <3>1. Later(transport[c.ticket], r)
      BY <2>2 DEF Later, Rank, State, Terminal, Verdict
    <3> QED
      BY <1>4, <2>2, <3>1
  <2> QED
    BY <1>2, <1>6, <2>1, <2>2, ResultCommitted
<1> QED
  BY <1>2, <1>3, <1>5, <1>6, OnlyCommits

\* No commit drops a record of the registry, moves one back, changes its
\* claimer or rewrites its verdict.
THEOREM RegistryNeverGoesBack == Spec => RegistryMonotone
<1>1. TypeInv /\ [Next]_vars =>
        [/\ Len(transport) <= Len(transport')
         /\ \A t \in DOMAIN transport : Later(transport[t], transport'[t])]_vars
  BY StepIsMonotone DEF Monotone
<1> QED
  BY TypeCorrect, <1>1, PTL DEF Spec, RegistryMonotone

-----------------------------------------------------------------------------
(***************************************************************************)
(* What is reported of a write is true.  The argument: a worker that has   *)
(* claimed and not yet sent its result holds a record in processing, for   *)
(* which no result is under way; what it is about to report, what has been *)
(* sent and what has been recorded speak of a write only after it.         *)
(***************************************************************************)
Working == Unwritten \cup {"restored", "reporting"}

TellsOfWrite(res) == res.success \/ res.write

ClaimerNamed ==
  \A t \in DOMAIN transport :
    IF transport[t].state = "pending" THEN transport[t].by = "nobody"
                                      ELSE transport[t].by \in Agent

WorkIsOpen ==
  \A a \in Agent : agent[a].pc \in Working =>
    /\ transport[agent[a].ticket].state = "processing"
    /\ \A c \in resultCalls : c.ticket # agent[a].ticket

WorkersTell ==
  \A a \in Agent :
    /\ agent[a].pc = "restored" => WroteFor(agent[a].ticket)
    /\ agent[a].pc = "reporting" /\ TellsOfWrite(agent[a].res) => WroteFor(agent[a].ticket)

CallsTell ==
  \A c \in resultCalls :
    /\ c.ticket \in DOMAIN transport
    /\ transport[c.ticket].state # "pending"
    /\ TellsOfWrite(c.res) => WroteFor(c.ticket)

RecordsTell ==
  \A t \in DOMAIN transport :
    /\ transport[t].state = "completed" => WroteFor(t)
    /\ transport[t].state = "failed" /\ transport[t].write => WroteFor(t)

TellInv ==
  /\ ClaimerNamed
  /\ WorkIsOpen
  /\ WorkersTell
  /\ CallsTell
  /\ RecordsTell

LEMMA TellInvSuffices == TellInv => RecordedWriteHappened
BY DEF TellInv, RecordsTell, RecordedWriteHappened, Terminal

LEMMA InitTellInv == Init => TellInv
BY DEF Init, TellInv, ClaimerNamed, WorkIsOpen, WorkersTell, CallsTell, RecordsTell, Idle,
   Working, Unwritten

(***************************************************************************)
(* Steps that leave records and writes alone: of the environment, of a     *)
(* worker that has not just written, and of one that leaves its calls.     *)
(***************************************************************************)
SameCalls ==
  \A d \in resultCalls' : \E c \in resultCalls : d.ticket = c.ticket /\ d.res = c.res

MovesOn(q, s) ==
  /\ s.pc \in Working => q.pc \in Working /\ s.ticket = q.ticket
  /\ s.pc # "restored"
  /\ s.pc = "reporting" /\ TellsOfWrite(s.res) => WroteFor(s.ticket)

LEMMA TellElsewhere ==
  ASSUME TellInv, UNCHANGED <<transport, resultCalls, agent, writes>>
  PROVE  TellInv'
BY DEF TellInv, ClaimerNamed, WorkIsOpen, WorkersTell, CallsTell, RecordsTell,
   WroteFor

LEMMA TellWorkerMoves ==
  ASSUME TellInv, WorkersOK, NEW a \in Agent, NEW s, MovesOn(agent[a], s),
         agent' = [agent EXCEPT ![a] = s], SameCalls, UNCHANGED <<transport, writes>>
  PROVE  TellInv'
<1>1. agent'[a] = s /\ \A b \in Agent \ {a} : agent'[b] = agent[b]
  BY DEF WorkersOK
<1>2. WorkIsOpen'
  BY <1>1 DEF TellInv, WorkIsOpen, MovesOn, SameCalls
<1>3. WorkersTell'
  BY <1>1 DEF TellInv, WorkersTell, MovesOn, WroteFor
<1>4. CallsTell'
  BY DEF TellInv, CallsTell, SameCalls, WroteFor
<1>5. ClaimerNamed' /\ RecordsTell'
  BY DEF TellInv, ClaimerNamed, RecordsTell, WroteFor
<1> QED
  BY <1>2, <1>3, <1>4, <1>5 DEF TellInv

LEMMA TellGoto ==
  ASSUME TellInv, WorkersOK, NEW a \in Agent, NEW pc, Goto(a, pc),
         pc \notin {"restored", "reporting"},
         pc \in Working => agent[a].pc \in Working, SameCalls,
         UNCHANGED <<transport, writes>>
  PROVE  TellInv'
<1> DEFINE s == [agent[a] EXCEPT !.pc = pc]
<1>1. MovesOn(agent[a], s)
  BY DEF MovesOn, WorkersOK, AgentState
<1>2. agent' = [agent EXCEPT ![a] = s]
  BY DEF Goto
<1> HIDE DEF s
<1> QED
  BY <1>1, <1>2, TellWorkerMoves

LEMMA TellReport ==
  ASSUME TellInv, WorkersOK, NEW a \in Agent, NEW r \in Result, ReportResult(a, r),
         agent[a].pc \in Working, TellsOfWrite(r) => WroteFor(agent[a].ticket),
         UNCHANGED <<transport, resultCalls, writes>>
  PROVE  TellInv'
<1> DEFINE s == [agent[a] EXCEPT !.pc = "reporting", !.res = r]
<1>1. /\ s.pc = "reporting" /\ s.ticket = agent[a].ticket /\ s.res = r
  BY DEF WorkersOK, AgentState
<1>2. agent' = [agent EXCEPT ![a] = s]
  BY DEF ReportResult
<1> HIDE DEF s
<1>3. MovesOn(agent[a], s)
  BY <1>1 DEF MovesOn
<1> QED
  BY <1>2, <1>3, TellWorkerMoves DEF SameCalls

LEMMA Tells ==
  /\ \A n \in BOOLEAN : ~TellsOfWrite(Failure(FALSE, n))
  /\ ~TellsOfWrite(CmdletFailed)
BY DEF TellsOfWrite, Failure, CmdletFailed

LEMMA NextTellInv == TypeInv /\ GrantInv /\ TellInv /\ [Next]_vars => TellInv'
<1> SUFFICES ASSUME TypeInv, RegistriesOK, WorkersOK, GrantInv, TellInv, [Next]_vars
             PROVE  TellInv'
  BY DEF TypeInv, TypeOK, References, RegistriesOK, WorkersOK
<1>1. CASE Tick
  BY <1>1, TellElsewhere DEF Tick, serverVars
<1>2. CASE SetMode
  BY <1>2, TellElsewhere DEF SetMode, serverVars
<1>3. ASSUME NEW g \in Guid, ChangeDirectory(g) PROVE TellInv'
  BY <1>3, TellElsewhere DEF ChangeDirectory, serverVars
<1>4. ASSUME NEW g \in Guid, NEW h \in Actor, NEW ttl \in 1..ExecTicketTTL,
             ConsumeExecutionTicket(g, h, ttl)
      PROVE TellInv'
  BY <1>4, TellElsewhere DEF ConsumeExecutionTicket
<1>5. ASSUME NEW h \in Actor, NEW u \in DOMAIN execUses, QueueBegin(h, u)
      PROVE TellInv'
  BY <1>5, TellElsewhere DEF QueueBegin
<1>6. ASSUME NEW c \in queueCalls, QueueCommit(c) PROVE TellInv'
  <2>1. CASE UNCHANGED transport
    BY <1>6, <2>1, TellElsewhere DEF QueueCommit
  <2>2. ASSUME NEW r \in Record, transport' = Append(transport, r),
               r.state = "pending", r.by = "nobody"
        PROVE  TellInv'
    <3> DEFINE n == Len(transport)
    <3>1. /\ n \in Nat /\ DOMAIN transport = 1..n /\ DOMAIN transport' = 1..(n + 1)
          /\ transport'[n + 1] = r /\ \A t \in 1..n : transport'[t] = transport[t]
      BY <2>2 DEF RegistriesOK
    <3>2. UNCHANGED <<resultCalls, agent, writes>>
      BY <1>6 DEF QueueCommit
    <3> HIDE DEF n
    <3>3. \A a \in Agent : agent[a].pc \in Working => agent[a].ticket \in 1..n
      BY <3>1 DEF GrantInv, HoldersMatch, HolderMatches, Holding, Working
    <3>4. ClaimerNamed' /\ RecordsTell'
      BY <2>2, <3>1, <3>2 DEF TellInv, ClaimerNamed, RecordsTell, WroteFor
    <3>5. WorkIsOpen'
      BY <3>1, <3>2, <3>3 DEF TellInv, WorkIsOpen
    <3>6. WorkersTell' /\ CallsTell'
      BY <3>1, <3>2 DEF TellInv, WorkersTell, CallsTell, WroteFor
    <3> QED
      BY <3>4, <3>5, <3>6 DEF TellInv
  <2> QED
    BY <1>6, <2>1, <2>2, QueueCommitted
<1>7. ASSUME NEW a \in Agent, Poll(a) PROVE TellInv'
  <2> DEFINE s == [agent[a] EXCEPT !.pc = "ready", !.todo = Listed]
  <2>1. s.pc = "ready"
    BY DEF WorkersOK, AgentState
  <2>2. agent' = [agent EXCEPT ![a] = s]
    BY <1>7 DEF Poll
  <2> HIDE DEF s
  <2> QED
    BY <1>7, <2>1, <2>2, TellWorkerMoves
    DEF Poll, serverVars, MovesOn, Working, Unwritten, SameCalls
<1>8. ASSUME NEW a \in Agent, EndOfRun(a) PROVE TellInv'
  BY <1>8, TellWorkerMoves
  DEF EndOfRun, serverVars, MovesOn, Working, Unwritten, SameCalls, Idle
<1>9. ASSUME NEW a \in Agent, NEW t \in agent[a].todo, Claim(a, t) PROVE TellInv'
  <2>1. agent[a] \in AgentState /\ agent[a].pc = "ready"
    BY <1>9 DEF WorkersOK, Claim
  <2>2. PICK s : agent' = [agent EXCEPT ![a] = s] /\ s.pc \in {"ready", "claiming"}
    <3>1. CASE mode = "Simulation"
      <4> DEFINE q == [agent[a] EXCEPT !.pc = "claiming", !.ticket = t, !.todo = @ \ {t}]
      <4>1. q.pc = "claiming" /\ agent' = [agent EXCEPT ![a] = q]
        BY <1>9, <2>1, <3>1 DEF Claim, AgentState
      <4> QED
        BY <4>1
    <3>2. CASE mode # "Simulation"
      <4> DEFINE q == [agent[a] EXCEPT !.todo = @ \ {t}]
      <4>1. q.pc = "ready" /\ agent' = [agent EXCEPT ![a] = q]
        BY <1>9, <2>1, <3>2 DEF Claim, AgentState
      <4> QED
        BY <4>1
    <3> QED
      BY <3>1, <3>2
  <2> QED
    BY <1>9, <2>2, TellWorkerMoves DEF Claim, MovesOn, Working, Unwritten, SameCalls
<1>10. ASSUME NEW c \in claimCalls, ClaimCommit(c) PROVE TellInv'
  <2>1. c \in ClaimCall /\ c.by \in Agent /\ c.ticket \in DOMAIN transport
    BY DEF RegistriesOK, CallRefs, ClaimCall
  <2>2. UNCHANGED <<resultCalls, writes>>
    BY <1>10 DEF ClaimCommit
  <2>3. CASE ~Claimable(c) /\ UNCHANGED transport
    <3>1. CASE c.waiting
      BY <1>10, <2>1, <2>2, <2>3, <3>1, NextTicketType, TellWorkerMoves
      DEF ClaimCommit, MovesOn, Working, Unwritten, SameCalls, WorkersOK
    <3>2. CASE ~c.waiting
      BY <1>10, <2>2, <2>3, <3>2, TellElsewhere DEF ClaimCommit
    <3> QED
      BY <3>1, <3>2
  <2>4. ASSUME NEW r \in Record, transport' = [transport EXCEPT ![c.ticket] = r],
               transport[c.ticket].state = "pending", r.state = "processing", r.by = c.by
        PROVE  TellInv'
    <3>1. /\ DOMAIN transport' = DOMAIN transport /\ transport'[c.ticket] = r
          /\ \A t \in DOMAIN transport \ {c.ticket} : transport'[t] = transport[t]
      BY <2>1, <2>4 DEF RegistriesOK
    <3>2. \A a \in Agent :
            \/ agent'[a] = agent[a]
            \/ agent'[a].pc = "claimed" /\ agent'[a].ticket = c.ticket
      <4>1. Claimable(c)
        BY <1>10, <2>1, <2>4, <3>1 DEF ClaimCommit
      <4> DEFINE s == [agent[c.by] EXCEPT !.pc = "claimed", !.exec = minted + 1,
                         !.env = EnvelopeOf(transport[c.ticket])]
      <4>2. c.waiting => agent[c.by].ticket = c.ticket
        BY DEF GrantInv, CallsMatch
      <4>3. c.waiting => s.pc = "claimed" /\ s.ticket = c.ticket
        BY <2>1, <4>2 DEF WorkersOK, AgentState
      <4>4. agent' = IF c.waiting THEN [agent EXCEPT ![c.by] = s] ELSE agent
        BY <1>10, <4>1 DEF ClaimCommit
      <4> HIDE DEF s
      <4> QED
        BY <4>3, <4>4 DEF WorkersOK
    <3>3. \A a \in Agent : agent[a].pc \in Working =>
            agent[a].ticket \in DOMAIN transport \ {c.ticket}
      BY <2>4 DEF TellInv, WorkIsOpen, GrantInv, HoldersMatch, HolderMatches, Holding, Working
    <3>4. \A d \in resultCalls : d.ticket \in DOMAIN transport \ {c.ticket}
      BY <2>4 DEF TellInv, CallsTell
    <3>5. ClaimerNamed' /\ RecordsTell'
      BY <2>1, <2>2, <2>4, <3>1 DEF TellInv, ClaimerNamed, RecordsTell, WroteFor
    <3>6. WorkIsOpen'
      BY <2>2, <2>4, <3>1, <3>2, <3>3, <3>4 DEF TellInv, WorkIsOpen
    <3>7. WorkersTell'
      BY <2>2, <3>2 DEF TellInv, WorkersTell, WroteFor
    <3>8. CallsTell'
      BY <2>2, <3>1, <3>4 DEF TellInv, CallsTell, WroteFor
    <3> QED
      BY <3>5, <3>6, <3>7, <3>8 DEF TellInv
  <2> QED
    BY <1>10, <2>3, <2>4, ClaimCommitted
<1>11. ASSUME NEW a \in Agent, VerifyEnvelope(a) PROVE TellInv'
  BY <1>11, TellGoto, TellReport, ResultTypes, Tells
  DEF VerifyEnvelope, serverVars, Working, Unwritten, SameCalls
<1>12. ASSUME NEW a \in Agent, Inspect(a) PROVE TellInv'
  BY <1>12, TellGoto, TellReport, ResultTypes, Tells
  DEF Inspect, serverVars, Working, Unwritten, SameCalls
<1>13. ASSUME NEW a \in Agent, Restore(a) PROVE TellInv'
  <2>1. CASE ReportResult(a, CmdletFailed) /\ writes' = writes
    BY <1>13, <2>1, TellReport, ResultTypes, Tells DEF Restore, serverVars, Working, Unwritten
  <2>2. CASE RestoreADObject(a) /\ (Goto(a, "restored") \/ ReportResult(a, CmdletFailed))
    <3> DEFINE t == agent[a].ticket
    <3>1. agent[a].pc = "inspected" /\ UNCHANGED <<transport, resultCalls>>
      BY <1>13 DEF Restore, serverVars
    <3>2. /\ agent'[a].ticket = t /\ agent'[a].pc \in {"restored", "reporting"}
          /\ \A b \in Agent \ {a} : agent'[b] = agent[b]
      BY <2>2 DEF Goto, ReportResult, WorkersOK, AgentState
    <3>3. WroteFor(t)' /\ \A k : WroteFor(k) => WroteFor(k)'
      <4> DEFINE w == [use |-> agent[a].env.use, guid |-> agent[a].env.guid, ticket |-> t,
                       exec |-> agent[a].exec, by |-> a, mode |-> mode]
                 n == Len(writes)
      <4>1. w.ticket = t /\ writes' = Append(writes, w)
        BY <2>2 DEF RestoreADObject
      <4> HIDE DEF w
      <4>2. /\ n \in Nat /\ DOMAIN writes = 1..n /\ DOMAIN writes' = 1..(n + 1)
            /\ writes'[n + 1] = w /\ \A i \in 1..n : writes'[i] = writes[i]
        BY <4>1 DEF RegistriesOK
      <4> HIDE DEF n
      <4>3. t' = t
        BY <3>2
      <4> QED
        BY <4>1, <4>2, <4>3 DEF WroteFor
    <3>4. agent[a].pc \in Working
      BY <3>1 DEF Working, Unwritten
    <3> HIDE DEF t
    <3>5. WorkIsOpen'
      BY <3>1, <3>2, <3>4 DEF TellInv, WorkIsOpen, t
    <3>6. WorkersTell'
      BY <3>2, <3>3 DEF TellInv, WorkersTell, t
    <3>7. ClaimerNamed' /\ RecordsTell' /\ CallsTell'
      BY <3>1, <3>3 DEF TellInv, ClaimerNamed, RecordsTell, CallsTell
    <3> QED
      BY <3>5, <3>6, <3>7 DEF TellInv
  <2> QED
    BY <1>13, <2>1, <2>2 DEF Restore
<1>14. ASSUME NEW a \in Agent, VerifyRestored(a) PROVE TellInv'
  BY <1>14, TellReport, ResultTypes
  DEF VerifyRestored, serverVars, Working, TellInv, WorkersTell
<1>15. ASSUME NEW a \in Agent, Send(a) PROVE TellInv'
  <2>1. agent[a] \in AgentState /\ agent[a].pc = "reporting"
    BY <1>15 DEF WorkersOK, Send
  <2>2. CASE mode = "Simulation"
    <3> DEFINE call == [by |-> a, ticket |-> agent[a].ticket, exec |-> agent[a].exec,
                        res |-> agent[a].res, at |-> now, waiting |-> TRUE]
    <3>1. call.ticket = agent[a].ticket /\ call.res = agent[a].res
      OBVIOUS
    <3>2. /\ resultCalls' = resultCalls \cup {call}
          /\ UNCHANGED <<transport, writes>>
          /\ agent'[a].pc = "sending" /\ \A b \in Agent \ {a} : agent'[b] = agent[b]
      BY <1>15, <2>1, <2>2 DEF Send, Goto, WorkersOK, AgentState
    <3> HIDE DEF call
    <3>3. HolderMatches(a)
      BY <2>1 DEF GrantInv, HoldersMatch, Holding
    <3>4. \A b \in Agent \ {a} : agent[b].pc \in Working => agent[b].ticket # agent[a].ticket
      BY <3>3 DEF GrantInv, HoldersMatch, HolderMatches, Holding, Working
    <3>5. WorkIsOpen'
      BY <3>1, <3>2, <3>4 DEF TellInv, WorkIsOpen, Working, Unwritten
    <3>6. WorkersTell'
      BY <3>2 DEF TellInv, WorkersTell, WroteFor
    <3>7. CallsTell'
      BY <2>1, <3>1, <3>2, <3>3
      DEF TellInv, CallsTell, WorkersTell, WroteFor, HolderMatches
    <3>8. ClaimerNamed' /\ RecordsTell'
      BY <3>2 DEF TellInv, ClaimerNamed, RecordsTell, WroteFor
    <3> QED
      BY <3>5, <3>6, <3>7, <3>8 DEF TellInv
  <2>3. CASE mode # "Simulation"
    BY <1>15, <2>1, <2>3, NextTicketType, TellWorkerMoves
    DEF Send, MovesOn, Working, Unwritten, SameCalls
  <2> QED
    BY <2>2, <2>3
<1>16. ASSUME NEW c \in resultCalls, ResultCommit(c) PROVE TellInv'
  <2>1. /\ c \in ResultCall /\ c.by \in Agent /\ c.res \in Result
        /\ c.ticket \in DOMAIN transport
    BY DEF RegistriesOK, ResultCall, TellInv, CallsTell
  <2>2. /\ resultCalls' = resultCalls \ {c} /\ writes' = writes
        /\ agent' = IF c.waiting THEN [agent EXCEPT ![c.by] = NextTicket(@)] ELSE agent
    BY <1>16 DEF ResultCommit
  <2>3. \A a \in Agent : agent'[a] = agent[a] \/ agent'[a].pc = "ready"
    BY <2>1, <2>2, NextTicketType DEF WorkersOK
  <2>4. WorkersTell'
    BY <2>2, <2>3 DEF TellInv, WorkersTell, WroteFor
  <2>5. CASE UNCHANGED transport
    BY <2>2, <2>3, <2>4, <2>5 DEF TellInv, ClaimerNamed, WorkIsOpen, CallsTell,
       RecordsTell, WroteFor, Working, Unwritten
  <2>6. ASSUME NEW r \in Record, transport' = [transport EXCEPT ![c.ticket] = r],
               transport[c.ticket].state = "processing",
               r.state = Verdict(c.res.success), r.write = c.res.write,
               r.by = transport[c.ticket].by
        PROVE  TellInv'
    <3>1. /\ DOMAIN transport' = DOMAIN transport /\ transport'[c.ticket] = r
          /\ \A t \in DOMAIN transport \ {c.ticket} : transport'[t] = transport[t]
      BY <2>1, <2>6 DEF RegistriesOK
    <3>2. r.state \in {"completed", "failed"} /\ (r.state = "completed" => c.res.success)
      BY <2>6 DEF Verdict
    <3>3. \A a \in Agent : agent[a].pc \in Working =>
            agent[a].ticket \in DOMAIN transport \ {c.ticket}
      BY DEF TellInv, WorkIsOpen, GrantInv, HoldersMatch, HolderMatches, Holding, Working
    <3>4. WorkIsOpen'
      BY <2>2, <2>3, <3>1, <3>3 DEF TellInv, WorkIsOpen, Working, Unwritten
    <3>5. CallsTell'
      BY <2>2, <3>1, <3>2 DEF TellInv, CallsTell, WroteFor
    <3>6. RecordsTell'
      <4>1. (r.state = "completed" \/ r.write) => WroteFor(c.ticket)
        BY <2>6, <3>2 DEF TellInv, CallsTell, TellsOfWrite
      <4> QED
        BY <2>2, <3>1, <4>1 DEF TellInv, RecordsTell, WroteFor
    <3>7. ClaimerNamed'
      BY <2>6, <3>1, <3>2 DEF TellInv, ClaimerNamed
    <3> QED
      BY <2>4, <3>4, <3>5, <3>6, <3>7 DEF TellInv
  <2> QED
    BY <1>16, <2>1, <2>5, <2>6, ResultCommitted
<1>17. ASSUME NEW a \in Agent, NEW s, s.pc \in {"idle", "ready"}, AgentLeaves(a, s)
       PROVE TellInv'
  <2>1. SameCalls
    BY <1>17 DEF AgentLeaves, Abandon, SameCalls, RegistriesOK, ResultCall
  <2> QED
    BY <1>17, <2>1, TellWorkerMoves DEF AgentLeaves, MovesOn, Working, Unwritten
<1>18. ASSUME NEW a \in Agent, AnswerLost(a) PROVE TellInv'
  BY <1>17, <1>18, NextTicketType DEF AnswerLost, WorkersOK
<1>19. ASSUME NEW a \in Agent, AgentCrash(a) PROVE TellInv'
  BY <1>17, <1>19 DEF AgentCrash, Idle
<1>20. CASE ApiRestart
  BY <1>20 DEF ApiRestart, TellInv, ClaimerNamed, WorkIsOpen, WorkersTell, CallsTell,
     RecordsTell, WroteFor
<1>21. CASE UNCHANGED vars
  BY <1>21, TellElsewhere DEF vars, serverVars
<1> QED
  BY <1>1, <1>2, <1>3, <1>4, <1>5, <1>6, <1>7, <1>8, <1>9, <1>10, <1>11, <1>12,
     <1>13, <1>14, <1>15, <1>16, <1>18, <1>19, <1>20, <1>21
  DEF Next, Step, AgentStep, Commit

LEMMA TellInvariant == Spec => []TellInv
BY TypeCorrect, GrantInvariant, InitTellInv, NextTellInv, PTL DEF Spec

\* A record says that the directory was written only when it was, whatever
\* results are lost, late or abandoned.
THEOREM RecordsAreTrue == Spec => []RecordedWriteHappened
BY TellInvariant, TellInvSuffices, PTL

-----------------------------------------------------------------------------
(***************************************************************************)
(* What is reported without a write is true as well, when the domain       *)
(* controller's answers are not lost: until its result is sent, a worker   *)
(* alone can write for its record, and it sets the marker when it does.    *)
(***************************************************************************)
Clean(res, t) == ~res.write => ~WroteFor(t)

CleanInv ==
  /\ \A a \in Agent :
       agent[a].pc = "reporting" => Clean(agent[a].res, agent[a].ticket)
  /\ \A c \in resultCalls : Clean(c.res, c.ticket)
  /\ RecordedFailureIsClean

LEMMA InitCleanInv == Init => CleanInv
BY DEF Init, CleanInv, RecordedFailureIsClean, Idle

LEMMA CleanElsewhere ==
  ASSUME CleanInv, UNCHANGED <<transport, resultCalls, agent, writes>>
  PROVE  CleanInv'
BY DEF CleanInv, Clean, RecordedFailureIsClean, WroteFor

LEMMA CleanWorkerMoves ==
  ASSUME CleanInv, WorkersOK, NEW a \in Agent, NEW s, SameCalls,
         s.pc = "reporting" => Clean(s.res, s.ticket),
         agent' = [agent EXCEPT ![a] = s], UNCHANGED <<transport, writes>>
  PROVE  CleanInv'
<1>1. agent'[a] = s /\ \A b \in Agent \ {a} : agent'[b] = agent[b]
  BY DEF WorkersOK
<1> QED
  BY <1>1 DEF CleanInv, Clean, RecordedFailureIsClean, WroteFor, SameCalls

LEMMA CleanGoto ==
  ASSUME CleanInv, WorkersOK, NEW a \in Agent, NEW pc, Goto(a, pc), pc # "reporting",
         SameCalls, UNCHANGED <<transport, writes>>
  PROVE  CleanInv'
<1> DEFINE s == [agent[a] EXCEPT !.pc = pc]
<1>1. s.pc = pc
  BY DEF WorkersOK, AgentState
<1>2. agent' = [agent EXCEPT ![a] = s]
  BY DEF Goto
<1> HIDE DEF s
<1> QED
  BY <1>1, <1>2, CleanWorkerMoves

LEMMA CleanReport ==
  ASSUME CleanInv, WorkersOK, NEW a \in Agent, NEW r \in Result, ReportResult(a, r),
         Clean(r, agent[a].ticket), UNCHANGED <<transport, resultCalls, writes>>
  PROVE  CleanInv'
<1> DEFINE s == [agent[a] EXCEPT !.pc = "reporting", !.res = r]
<1>1. s.ticket = agent[a].ticket /\ s.res = r
  BY DEF WorkersOK, AgentState
<1>2. agent' = [agent EXCEPT ![a] = s]
  BY DEF ReportResult
<1> HIDE DEF s
<1> QED
  BY <1>1, <1>2, CleanWorkerMoves DEF SameCalls

LEMMA NextCleanInv ==
  "lostwrite" \notin Fault /\ TypeInv /\ GrantInv /\ TellInv /\ CleanInv /\ [Next]_vars
    => CleanInv'
<1> SUFFICES ASSUME "lostwrite" \notin Fault, TypeInv, RegistriesOK, WorkersOK, GrantInv,
                    TellInv, CleanInv, [Next]_vars
             PROVE  CleanInv'
  BY DEF TypeInv, TypeOK, References, RegistriesOK, WorkersOK
<1>1. CASE Tick
  BY <1>1, CleanElsewhere DEF Tick, serverVars
<1>2. CASE SetMode
  BY <1>2, CleanElsewhere DEF SetMode, serverVars
<1>3. ASSUME NEW g \in Guid, ChangeDirectory(g) PROVE CleanInv'
  BY <1>3, CleanElsewhere DEF ChangeDirectory, serverVars
<1>4. ASSUME NEW g \in Guid, NEW h \in Actor, NEW ttl \in 1..ExecTicketTTL,
             ConsumeExecutionTicket(g, h, ttl)
      PROVE CleanInv'
  BY <1>4, CleanElsewhere DEF ConsumeExecutionTicket
<1>5. ASSUME NEW h \in Actor, NEW u \in DOMAIN execUses, QueueBegin(h, u)
      PROVE CleanInv'
  BY <1>5, CleanElsewhere DEF QueueBegin
<1>6. ASSUME NEW c \in queueCalls, QueueCommit(c) PROVE CleanInv'
  <2>1. UNCHANGED <<resultCalls, agent, writes>>
    BY <1>6 DEF QueueCommit
  <2>2. RecordedFailureIsClean'
    <3>1. CASE UNCHANGED transport
      BY <2>1, <3>1 DEF CleanInv, RecordedFailureIsClean, WroteFor
    <3>2. ASSUME NEW r \in Record, transport' = Append(transport, r), r.state = "pending"
          PROVE  RecordedFailureIsClean'
      <4> DEFINE n == Len(transport)
      <4>1. /\ n \in Nat /\ DOMAIN transport = 1..n /\ DOMAIN transport' = 1..(n + 1)
            /\ transport'[n + 1] = r /\ \A i \in 1..n : transport'[i] = transport[i]
        BY <3>2 DEF RegistriesOK
      <4> HIDE DEF n
      <4> QED
        BY <2>1, <3>2, <4>1 DEF CleanInv, RecordedFailureIsClean, WroteFor
    <3> QED
      BY <1>6, <3>1, <3>2, QueueCommitted
  <2> QED
    BY <2>1, <2>2 DEF CleanInv, Clean, WroteFor
<1>7. ASSUME NEW a \in Agent, NEW s, s.pc # "reporting", agent' = [agent EXCEPT ![a] = s],
             UNCHANGED <<transport, resultCalls, writes>>
      PROVE CleanInv'
  BY <1>7, CleanWorkerMoves DEF SameCalls
<1>8. ASSUME NEW a \in Agent, Poll(a) \/ EndOfRun(a) PROVE CleanInv'
  <2>1. CASE Poll(a)
    <3> DEFINE s == [agent[a] EXCEPT !.pc = "ready", !.todo = Listed]
    <3>1. s.pc = "ready" /\ agent' = [agent EXCEPT ![a] = s]
      BY <2>1 DEF Poll, WorkersOK, AgentState
    <3> HIDE DEF s
    <3> QED
      BY <1>7, <2>1, <3>1 DEF Poll, serverVars
  <2>2. CASE EndOfRun(a)
    BY <1>7, <2>2 DEF EndOfRun, serverVars, Idle
  <2> QED
    BY <1>8, <2>1, <2>2
<1>9. ASSUME NEW a \in Agent, NEW t \in agent[a].todo, Claim(a, t) PROVE CleanInv'
  <2>1. agent'[a].pc # "reporting" /\ \A b \in Agent \ {a} : agent'[b] = agent[b]
    BY <1>9 DEF Claim, WorkersOK, AgentState
  <2> QED
    BY <1>9, <2>1 DEF Claim, CleanInv, Clean, RecordedFailureIsClean, WroteFor
<1>10. ASSUME NEW c \in claimCalls, ClaimCommit(c) PROVE CleanInv'
  <2>1. c \in ClaimCall /\ c.by \in Agent /\ UNCHANGED <<resultCalls, writes>>
    BY <1>10 DEF RegistriesOK, ClaimCall, ClaimCommit
  <2>2. \A a \in Agent : agent'[a] = agent[a] \/ agent'[a].pc # "reporting"
    <3> DEFINE s == [agent[c.by] EXCEPT !.pc = "claimed", !.exec = minted + 1,
                       !.env = EnvelopeOf(transport[c.ticket])]
    <3>1. s.pc = "claimed" /\ NextTicket(agent[c.by]).pc = "ready"
      BY <2>1, NextTicketType DEF WorkersOK, AgentState
    <3>2. \/ agent' = [agent EXCEPT ![c.by] = s]
          \/ agent' = [agent EXCEPT ![c.by] = NextTicket(agent[c.by])]
          \/ agent' = agent
      BY <1>10 DEF ClaimCommit
    <3> HIDE DEF s
    <3> QED
      BY <2>1, <3>1, <3>2 DEF WorkersOK
  <2>3. RecordedFailureIsClean'
    <3>1. CASE UNCHANGED transport
      BY <2>1, <3>1 DEF CleanInv, RecordedFailureIsClean, WroteFor
    <3>2. ASSUME NEW r \in Record, transport' = [transport EXCEPT ![c.ticket] = r],
                 r.state = "processing"
          PROVE  RecordedFailureIsClean'
      BY <2>1, <3>2 DEF CleanInv, RecordedFailureIsClean, WroteFor, RegistriesOK
    <3> QED
      BY <1>10, <3>1, <3>2, ClaimCommitted
  <2> QED
    BY <2>1, <2>2, <2>3 DEF CleanInv, Clean, WroteFor
<1>11. ASSUME NEW a \in Agent, VerifyEnvelope(a) \/ Inspect(a) PROVE CleanInv'
  <2>1. \A r \in Result : Clean(r, agent[a].ticket)
    BY <1>11 DEF VerifyEnvelope, Inspect, GrantInv, NotYetWritten, Unwritten, Clean
  <2> QED
    BY <1>11, <2>1, CleanGoto, CleanReport, ResultTypes
    DEF VerifyEnvelope, Inspect, serverVars, SameCalls
<1>12. ASSUME NEW a \in Agent, Restore(a) PROVE CleanInv'
  <2>1. agent[a].pc = "inspected" /\ UNCHANGED <<transport, resultCalls>>
    BY <1>12 DEF Restore, serverVars
  <2>2. CASE ReportResult(a, CmdletFailed) /\ UNCHANGED writes
    <3>1. Clean(CmdletFailed, agent[a].ticket)
      BY <2>1 DEF GrantInv, NotYetWritten, Unwritten, Clean
    <3> QED
      BY <2>1, <2>2, <3>1, CleanReport, ResultTypes
  <2>3. CASE RestoreADObject(a) /\ Goto(a, "restored")
    <3> DEFINE t == agent[a].ticket
               w == [use |-> agent[a].env.use, guid |-> agent[a].env.guid, ticket |-> t,
                     exec |-> agent[a].exec, by |-> a, mode |-> mode]
               n == Len(writes)
    <3>1. w.ticket = t /\ writes' = Append(writes, w)
      BY <2>3 DEF RestoreADObject
    <3> HIDE DEF w
    <3>2. /\ n \in Nat /\ DOMAIN writes = 1..n /\ DOMAIN writes' = 1..(n + 1)
          /\ writes'[n + 1] = w /\ \A i \in 1..n : writes'[i] = writes[i]
      BY <3>1 DEF RegistriesOK
    <3> HIDE DEF n, t
    <3>3. ASSUME NEW k, k # t, ~WroteFor(k)
          PROVE  ~(\E i \in DOMAIN writes' : writes'[i].ticket = k)
      BY <3>1, <3>2, <3>3 DEF WroteFor
    <3>4. \A b \in Agent \ {a} :
            agent'[b] = agent[b] /\ (agent[b].pc = "reporting" => agent[b].ticket # t)
      BY <2>1, <2>3 DEF Goto, WorkersOK, GrantInv, HoldersMatch, HolderMatches, Holding,
         Unwritten, t
    <3>5. agent'[a].pc = "restored"
      BY <2>3 DEF Goto, WorkersOK, AgentState
    <3>6. transport[t].state = "processing" /\ \A c \in resultCalls : c.ticket # t
      BY <2>1 DEF TellInv, WorkIsOpen, Working, Unwritten, t
    <3>7. RecordedFailureIsClean'
      BY <2>1, <3>3, <3>6 DEF CleanInv, RecordedFailureIsClean, WroteFor
    <3>8. \A b \in Agent : agent'[b].pc = "reporting" => Clean(agent[b].res, agent[b].ticket)'
      BY <3>3, <3>4, <3>5 DEF CleanInv, Clean, WroteFor
    <3>9. \A c \in resultCalls' : Clean(c.res, c.ticket)'
      BY <2>1, <3>3, <3>6 DEF CleanInv, Clean, WroteFor
    <3> QED
      BY <3>7, <3>8, <3>9 DEF CleanInv
  <2> QED
    BY <1>12, <2>1, <2>2, <2>3 DEF Restore
<1>13. ASSUME NEW a \in Agent, VerifyRestored(a) PROVE CleanInv'
  <2>1. Clean(Success, agent[a].ticket) /\ Clean(NotVerified, agent[a].ticket)
    BY DEF Clean, Success, NotVerified, Failure
  <2> QED
    BY <1>13, <2>1, CleanReport, ResultTypes DEF VerifyRestored, serverVars
<1>14. ASSUME NEW a \in Agent, Send(a) PROVE CleanInv'
  <2>1. agent[a] \in AgentState /\ agent[a].pc = "reporting"
    BY <1>14 DEF WorkersOK, Send
  <2>2. agent'[a].pc # "reporting" /\ \A b \in Agent \ {a} : agent'[b] = agent[b]
    BY <1>14, <2>1, NextTicketType DEF Send, Goto, WorkersOK, AgentState
  <2>3. UNCHANGED <<transport, writes>>
    BY <1>14 DEF Send
  <2>4. \A d \in resultCalls' : d \in resultCalls
          \/ (d.ticket = agent[a].ticket /\ d.res = agent[a].res)
    <3>1. CASE mode = "Simulation"
      <4> DEFINE call == [by |-> a, ticket |-> agent[a].ticket, exec |-> agent[a].exec,
                          res |-> agent[a].res, at |-> now, waiting |-> TRUE]
      <4>1. call.ticket = agent[a].ticket /\ call.res = agent[a].res
        OBVIOUS
      <4>2. resultCalls' = resultCalls \cup {call}
        BY <1>14, <3>1 DEF Send
      <4> HIDE DEF call
      <4> QED
        BY <4>1, <4>2
    <3>2. CASE mode # "Simulation"
      BY <1>14, <3>2 DEF Send
    <3> QED
      BY <3>1, <3>2
  <2>5. \A d \in resultCalls' : Clean(d.res, d.ticket)
    BY <2>1, <2>4 DEF CleanInv
  <2> QED
    BY <2>2, <2>3, <2>5 DEF CleanInv, Clean, RecordedFailureIsClean, WroteFor
<1>15. ASSUME NEW c \in resultCalls, ResultCommit(c) PROVE CleanInv'
  <2>1. /\ c.by \in Agent /\ c.ticket \in DOMAIN transport
        /\ resultCalls' = resultCalls \ {c} /\ writes' = writes
    BY <1>15 DEF RegistriesOK, ResultCall, TellInv, CallsTell, ResultCommit
  <2>2. \A a \in Agent : agent'[a] = agent[a] \/ agent'[a].pc # "reporting"
    BY <1>15, <2>1, NextTicketType DEF ResultCommit, WorkersOK
  <2>3. RecordedFailureIsClean'
    BY <1>15, <2>1, ResultCommitted
    DEF CleanInv, Clean, RecordedFailureIsClean, WroteFor, RegistriesOK
  <2> QED
    BY <2>1, <2>2, <2>3 DEF CleanInv, Clean, WroteFor
<1>16. ASSUME NEW a \in Agent, NEW s, s.pc \in {"idle", "ready"}, AgentLeaves(a, s)
       PROVE CleanInv'
  <2>1. SameCalls
    BY <1>16 DEF AgentLeaves, Abandon, SameCalls, RegistriesOK, ResultCall
  <2> QED
    BY <1>16, <2>1, CleanWorkerMoves DEF AgentLeaves
<1>17. ASSUME NEW a \in Agent, AnswerLost(a) \/ AgentCrash(a) PROVE CleanInv'
  BY <1>16, <1>17, NextTicketType DEF AnswerLost, AgentCrash, Idle, WorkersOK
<1>18. CASE ApiRestart
  BY <1>18 DEF ApiRestart, CleanInv, Clean, RecordedFailureIsClean, WroteFor
<1>19. CASE UNCHANGED vars
  BY <1>19, CleanElsewhere DEF vars, serverVars
<1> QED
  BY <1>1, <1>2, <1>3, <1>4, <1>5, <1>6, <1>8, <1>9, <1>10, <1>11, <1>12, <1>13, <1>14,
     <1>15, <1>17, <1>18, <1>19
  DEF Next, Step, AgentStep, Commit

\* When no answer of the domain controller is lost after a write, a failure
\* recorded without write_performed left the directory untouched.
THEOREM CleanFailures ==
  ASSUME "lostwrite" \notin Fault
  PROVE  Spec => []RecordedFailureIsClean
<1>1. TypeInv /\ GrantInv /\ TellInv /\ CleanInv /\ [Next]_vars => CleanInv'
  BY NextCleanInv
<1>2. CleanInv => RecordedFailureIsClean
  BY DEF CleanInv
<1> QED
  BY TypeCorrect, GrantInvariant, TellInvariant, InitCleanInv, <1>1, <1>2, PTL DEF Spec

-----------------------------------------------------------------------------
(***************************************************************************)
(* The refinement.  Every record is of a grant that exists; a grant that   *)
(* is offered has one record, which is its fate.                           *)
(***************************************************************************)
Grants == 1 .. MaxUses

GrantsExist ==
  /\ Len(execUses) <= MaxUses
  /\ \A t \in DOMAIN transport : transport[t].use \in DOMAIN execUses

LEMMA InitGrantsExist == Init => GrantsExist
BY TransportAssumption DEF Init, GrantsExist

LEMMA NextGrantsExist == TypeInv /\ GrantsExist /\ [Next]_vars => GrantsExist'
<1> SUFFICES ASSUME TypeInv, GrantsExist, [Next]_vars
             PROVE  GrantsExist'
  OBVIOUS
<1>1. transport \in Seq(Record) /\ execUses \in Seq(ExecUse)
  BY DEF TypeInv, TypeOK
<1>2. Len(execUses') <= MaxUses /\ DOMAIN execUses \subseteq DOMAIN execUses'
  <2>1. CASE UNCHANGED execUses
    BY <2>1 DEF GrantsExist
  <2>2. ASSUME NEW g \in Guid, NEW h \in Actor, NEW ttl \in 1..ExecTicketTTL,
               ConsumeExecutionTicket(g, h, ttl)
        PROVE  Len(execUses') <= MaxUses /\ DOMAIN execUses \subseteq DOMAIN execUses'
    <3> DEFINE x == [guid |-> g, actor |-> h, expires |-> now + ttl]
    <3>1. execUses' = Append(execUses, x) /\ Len(execUses) < MaxUses
      BY <2>2 DEF ConsumeExecutionTicket
    <3>2. Len(execUses') = Len(execUses) + 1 /\ DOMAIN execUses' = 1..(Len(execUses) + 1)
      BY <1>1, <3>1
    <3> QED
      BY <1>1, <3>1, <3>2, TransportAssumption
  <2>3. \/ UNCHANGED execUses
        \/ \E g \in Guid, h \in Actor, ttl \in 1..ExecTicketTTL :
             ConsumeExecutionTicket(g, h, ttl)
    BY DEF Next, Step, Commit, AgentStep, vars, serverVars, Tick, SetMode, ChangeDirectory,
       QueueBegin, QueueCommit, Poll, EndOfRun, Claim, ClaimCommit, VerifyEnvelope, Inspect,
       Restore, VerifyRestored, Send, ResultCommit, AnswerLost, AgentCrash, AgentLeaves,
       ApiRestart
  <2> QED
    BY <2>1, <2>2, <2>3
<1>3. \A t \in DOMAIN transport' : transport'[t].use \in DOMAIN execUses
  <2>1. CASE UNCHANGED transport
    BY <2>1 DEF GrantsExist
  <2>2. ASSUME NEW c \in queueCalls, QueueCommit(c)
        PROVE  \A t \in DOMAIN transport' : transport'[t].use \in DOMAIN execUses
    <3>1. ASSUME NEW r \in Record, transport' = Append(transport, r),
                 r.use = c.use, c.use \in DOMAIN execUses
          PROVE  \A t \in DOMAIN transport' : transport'[t].use \in DOMAIN execUses
      BY <1>1, <3>1 DEF GrantsExist
    <3> QED
      BY <2>1, <2>2, <3>1, QueueCommitted
  <2>3. ASSUME NEW t \in DOMAIN transport, NEW r, r.use = transport[t].use,
               transport' = [transport EXCEPT ![t] = r]
        PROVE  \A k \in DOMAIN transport' : transport'[k].use \in DOMAIN execUses
    BY <1>1, <2>3 DEF GrantsExist
  <2>4. ASSUME NEW c \in claimCalls, ClaimCommit(c)
        PROVE  \A t \in DOMAIN transport' : transport'[t].use \in DOMAIN execUses
    BY <2>1, <2>3, <2>4, ClaimCommitted
  <2>5. ASSUME NEW c \in resultCalls, ResultCommit(c)
        PROVE  \A t \in DOMAIN transport' : transport'[t].use \in DOMAIN execUses
    <3>1. CASE c.ticket \in DOMAIN transport
      BY <2>1, <2>3, <2>5, <3>1, ResultCommitted
    <3>2. CASE c.ticket \notin DOMAIN transport
      BY <1>1, <2>1, <2>5, <3>2 DEF ResultCommit
    <3> QED
      BY <3>1, <3>2
  <2> QED
    BY <2>1, <2>2, <2>4, <2>5, OnlyCommits
<1> QED
  BY <1>2, <1>3 DEF GrantsExist

LEMMA GrantsInvariant == Spec => []GrantsExist
BY TypeCorrect, InitGrantsExist, NextGrantsExist, PTL DEF Spec

LEMMA Chosen ==
  ASSUME NEW S, NEW t \in S, \A s \in S : s = t
  PROVE  (CHOOSE s \in S : TRUE) = t
OBVIOUS

LEMMA Fate ==
  ASSUME OneRecordPerUse, NEW t \in DOMAIN transport, transport[t].use \in Grants
  PROVE  /\ transport[t].use \in Offered
         /\ Taker[transport[t].use] = transport[t].by
         /\ VerdictGiven[transport[t].use] = VerdictOf(transport[t])
<1> DEFINE u == transport[t].use
<1>1. (CHOOSE s \in TicketsOf(u) : TRUE) = t
  BY Chosen DEF TicketsOf, OneRecordPerUse
<1>2. u \in Offered
  BY DEF Offered
<1> QED
  BY <1>1, <1>2 DEF Taker, VerdictGiven, Grants

LEMMA FateAfter ==
  ASSUME OneRecordPerUse', NEW t \in DOMAIN transport', transport'[t].use \in Grants
  PROVE  /\ transport'[t].use \in Offered'
         /\ Taker'[transport'[t].use] = transport'[t].by
         /\ VerdictGiven'[transport'[t].use] = VerdictOf(transport'[t])
<1> DEFINE u == transport'[t].use
           tickets == {s \in DOMAIN transport' : transport'[s].use = u}
<1>1. (CHOOSE s \in tickets : TRUE) = t
  <2> t \in tickets /\ \A s \in tickets : s = t
    BY DEF OneRecordPerUse
  <2> HIDE DEF tickets
  <2> QED
    BY Chosen
<1>2. u \in Offered'
  BY DEF Offered
<1>3. Taker'[u] = IF u \in Offered' THEN transport'[CHOOSE s \in tickets : TRUE].by ELSE "nobody"
  BY DEF Taker, Grants, TicketsOf
<1>4. VerdictGiven'[u] = IF u \in Offered'
        THEN VerdictOf(transport'[CHOOSE s \in tickets : TRUE]) ELSE "none"
  BY DEF VerdictGiven, Grants, TicketsOf, VerdictOf
<1> QED
  BY <1>1, <1>2, <1>3, <1>4

LEMMA NoFate ==
  ASSUME NEW u \in Grants
  PROVE  /\ u \notin Offered => Taker[u] = "nobody" /\ VerdictGiven[u] = "none"
         /\ u \notin Offered' => Taker'[u] = "nobody" /\ VerdictGiven'[u] = "none"
BY DEF Taker, VerdictGiven, Grants

LEMMA FunctionsEqual ==
  /\ Taker \in [Grants -> {Taker[u] : u \in Grants}]
  /\ Taker' \in [Grants -> {Taker'[u] : u \in Grants}]
  /\ VerdictGiven \in [Grants -> {VerdictGiven[u] : u \in Grants}]
  /\ VerdictGiven' \in [Grants -> {VerdictGiven'[u] : u \in Grants}]
BY DEF Taker, VerdictGiven, Grants

LEMMA RecordChanges ==
  ASSUME TypeInv, GrantsExist, OneRecordPerUse, OneRecordPerUse',
         NEW t \in DOMAIN transport, NEW r, r.use = transport[t].use,
         transport' = [transport EXCEPT ![t] = r]
  PROVE  LET u == transport[t].use IN
         /\ u \in Grants /\ u \in Offered
         /\ Taker[u] = transport[t].by /\ VerdictGiven[u] = VerdictOf(transport[t])
         /\ Offered' = Offered
         /\ Taker' = [Taker EXCEPT ![u] = r.by]
         /\ VerdictGiven' = [VerdictGiven EXCEPT ![u] = VerdictOf(r)]
<1> DEFINE u == transport[t].use
<1>1. /\ DOMAIN transport' = DOMAIN transport /\ transport'[t] = r
      /\ \A s \in DOMAIN transport \ {t} : transport'[s] = transport[s]
  BY DEF TypeInv, TypeOK
<1>2. \A s \in DOMAIN transport : transport[s].use \in Grants
  BY TransportAssumption DEF GrantsExist, Grants, TypeInv, TypeOK
<1>3. Offered' = Offered
  BY <1>1 DEF Offered
<1>4. /\ u \in Offered /\ Taker[u] = transport[t].by /\ VerdictGiven[u] = VerdictOf(transport[t])
  BY <1>2, Fate
<1>5. Taker'[u] = r.by /\ VerdictGiven'[u] = VerdictOf(r)
  BY <1>1, <1>2, FateAfter
<1>6. ASSUME NEW v \in Grants, v # u
      PROVE  Taker'[v] = Taker[v] /\ VerdictGiven'[v] = VerdictGiven[v]
  <2>1. CASE v \notin Offered
    BY <1>3, <2>1, NoFate
  <2>2. CASE v \in Offered
    <3>1. PICK s \in DOMAIN transport : transport[s].use = v
      BY <2>2 DEF Offered
    <3>2. s # t /\ transport'[s] = transport[s] /\ s \in DOMAIN transport'
      BY <1>1, <1>6, <3>1
    <3>3. Taker[v] = transport[s].by /\ VerdictGiven[v] = VerdictOf(transport[s])
      BY <1>2, <3>1, Fate
    <3>4. Taker'[v] = transport'[s].by /\ VerdictGiven'[v] = VerdictOf(transport'[s])
      BY <1>2, <3>1, <3>2, FateAfter
    <3> QED
      BY <3>2, <3>3, <3>4
  <2> QED
    BY <2>1, <2>2
<1>7. u \in Grants
  BY <1>2
<1> HIDE DEF u
<1>8. Taker' = [Taker EXCEPT ![u] = r.by]
  BY <1>5, <1>6, <1>7, FunctionsEqual
<1>9. VerdictGiven' = [VerdictGiven EXCEPT ![u] = VerdictOf(r)]
  BY <1>5, <1>6, <1>7, FunctionsEqual
<1> QED
  BY <1>3, <1>4, <1>7, <1>8, <1>9 DEF u

LEMMA RecordAdded ==
  ASSUME TypeInv, GrantsExist, OneRecordPerUse, OneRecordPerUse',
         NEW r \in Record, transport' = Append(transport, r),
         r.state = "pending", r.by = "nobody", r.use \in DOMAIN execUses, ~Queued(r.use)
  PROVE  /\ r.use \in Grants /\ r.use \notin Offered
         /\ Offered' = Offered \cup {r.use}
         /\ Taker' = Taker /\ VerdictGiven' = VerdictGiven
<1> DEFINE n == Len(transport)
<1>1. /\ n \in Nat /\ DOMAIN transport = 1..n /\ DOMAIN transport' = 1..(n + 1)
      /\ transport'[n + 1] = r /\ \A t \in 1..n : transport'[t] = transport[t]
  BY DEF TypeInv, TypeOK
<1> HIDE DEF n
<1>2. r.use \in Grants /\ \A s \in DOMAIN transport : transport[s].use \in Grants
  BY TransportAssumption DEF GrantsExist, Grants, TypeInv, TypeOK
<1>3. r.use \notin Offered
  BY DEF Offered, Queued
<1>4. Offered' = Offered \cup {r.use}
  BY <1>1 DEF Offered
<1>5. ASSUME NEW v \in Grants
      PROVE  Taker'[v] = Taker[v] /\ VerdictGiven'[v] = VerdictGiven[v]
  <2>1. CASE v = r.use
    <3>1. Taker[v] = "nobody" /\ VerdictGiven[v] = "none"
      BY <1>2, <1>3, <2>1, NoFate
    <3>2. Taker'[v] = r.by /\ VerdictGiven'[v] = VerdictOf(r)
      BY <1>1, <1>2, <2>1, FateAfter
    <3> QED
      BY <3>1, <3>2 DEF VerdictOf
  <2>2. CASE v \notin Offered /\ v # r.use
    BY <1>4, <2>2, NoFate
  <2>3. CASE v \in Offered
    <3>1. PICK s \in DOMAIN transport : transport[s].use = v
      BY <2>3 DEF Offered
    <3>2. transport'[s] = transport[s] /\ s \in DOMAIN transport'
      BY <1>1, <3>1
    <3>3. Taker[v] = transport[s].by /\ VerdictGiven[v] = VerdictOf(transport[s])
      BY <1>2, <3>1, Fate
    <3>4. Taker'[v] = transport'[s].by /\ VerdictGiven'[v] = VerdictOf(transport'[s])
      BY <1>2, <3>1, <3>2, FateAfter
    <3> QED
      BY <3>2, <3>3, <3>4
  <2> QED
    BY <2>1, <2>2, <2>3
<1>6. Taker' = Taker /\ VerdictGiven' = VerdictGiven
  BY <1>5, FunctionsEqual
<1> QED
  BY <1>2, <1>3, <1>4, <1>6

(***************************************************************************)
(* A step maps to the action of OneShotRestore that its commit or write    *)
(* carries out, or to a stutter.                                           *)
(***************************************************************************)
View == <<Offered, Taker, Written, VerdictGiven>>

LEMMA ViewUnchanged ==
  ASSUME UNCHANGED <<transport, writes>>
  PROVE  UNCHANGED View
BY DEF View, Offered, Taker, Written, VerdictGiven, TicketsOf, VerdictOf

\* Only a restore adds to the history of writes.
LEMMA OnlyRestores ==
  ASSUME [Next]_vars
  PROVE  \/ UNCHANGED writes
         \/ \E a \in Agent : Restore(a)
BY DEF Next, Step, Commit, AgentStep, vars, serverVars, Tick, SetMode, ChangeDirectory,
   ConsumeExecutionTicket, QueueBegin, QueueCommit, Poll, EndOfRun, Claim, ClaimCommit,
   VerifyEnvelope, Inspect, VerifyRestored, Send, ResultCommit, AnswerLost, AgentCrash,
   AgentLeaves, ApiRestart

LEMMA InitRefines == Init => OneShot!OneShotInit
<1> SUFFICES ASSUME Init PROVE OneShot!OneShotInit
  OBVIOUS
<1>1. DOMAIN transport = {} /\ DOMAIN writes = {}
  BY DEF Init
<1>2. Offered = {} /\ Written = {}
  BY <1>1 DEF Offered, Written
<1>3. /\ Taker = [g \in 1..MaxUses |-> "nobody"]
      /\ VerdictGiven = [g \in 1..MaxUses |-> "none"]
  BY <1>2 DEF Taker, VerdictGiven
<1> QED
  BY <1>2, <1>3 DEF OneShot!OneShotInit

LEMMA StepRefines ==
  TypeInv /\ GrantInv /\ GrantInv' /\ TellInv /\ GrantsExist /\ [Next]_vars
    => [OneShot!OneShotNext]_View
<1> SUFFICES ASSUME TypeInv, GrantInv, GrantInv', TellInv, GrantsExist, [Next]_vars
             PROVE  OneShot!OneShotNext \/ UNCHANGED View
  OBVIOUS
<1>1. OneRecordPerUse /\ OneRecordPerUse'
  BY DEF GrantInv
<1>2. CASE UNCHANGED <<transport, writes>>
  BY <1>2, ViewUnchanged
<1>3. ASSUME NEW c \in queueCalls, QueueCommit(c)
      PROVE  OneShot!OneShotNext \/ UNCHANGED View
  <2>1. writes' = writes
    BY <1>3 DEF QueueCommit
  <2>2. ASSUME NEW r \in Record, transport' = Append(transport, r), r.state = "pending",
               r.by = "nobody", r.use \in DOMAIN execUses, ~Queued(r.use)
        PROVE  OneShot!OneShotNext
    <3>1. /\ r.use \in Grants /\ r.use \notin Offered
          /\ Offered' = Offered \cup {r.use}
          /\ Taker' = Taker /\ VerdictGiven' = VerdictGiven
      BY <1>1, <2>2, RecordAdded
    <3>2. OneShot!Offer(r.use)
      BY <2>1, <3>1 DEF OneShot!Offer, Written
    <3> QED
      BY <3>1, <3>2 DEF OneShot!OneShotNext, Grants
  <2> QED
    BY <1>2, <1>3, <2>1, <2>2, QueueCommitted
<1>4. ASSUME NEW c \in claimCalls, ClaimCommit(c)
      PROVE  OneShot!OneShotNext \/ UNCHANGED View
  <2>1. writes' = writes /\ c.by \in Agent
    BY <1>4 DEF ClaimCommit, TypeInv, TypeOK, ClaimCall
  <2>2. ASSUME NEW r \in Record, transport' = [transport EXCEPT ![c.ticket] = r],
               c.ticket \in DOMAIN transport, transport[c.ticket].state = "pending",
               r.state = "processing", r.by = c.by, r.use = transport[c.ticket].use
        PROVE  OneShot!OneShotNext
    <3> DEFINE u == transport[c.ticket].use
    <3>1. /\ u \in Grants /\ u \in Offered /\ Taker[u] = transport[c.ticket].by
          /\ VerdictGiven[u] = VerdictOf(transport[c.ticket]) /\ Offered' = Offered
          /\ Taker' = [Taker EXCEPT ![u] = r.by]
          /\ VerdictGiven' = [VerdictGiven EXCEPT ![u] = VerdictOf(r)]
      BY <1>1, <2>2, RecordChanges
    <3>2. Taker[u] = "nobody"
      BY <2>2, <3>1 DEF TellInv, ClaimerNamed
    <3>3. VerdictGiven[u] = "none" /\ VerdictOf(r) = "none"
      BY <2>2, <3>1 DEF VerdictOf
    <3>4. VerdictGiven' = VerdictGiven
      BY <3>1, <3>3, FunctionsEqual
    <3>5. OneShot!Take(u, c.by)
      BY <2>1, <2>2, <3>1, <3>2, <3>4 DEF OneShot!Take, Written
    <3> QED
      BY <2>1, <3>1, <3>5 DEF OneShot!OneShotNext, Grants
  <2> QED
    BY <1>2, <1>4, <2>1, <2>2, ClaimCommitted
<1>5. ASSUME NEW c \in resultCalls, ResultCommit(c)
      PROVE  OneShot!OneShotNext \/ UNCHANGED View
  <2>1. /\ writes' = writes /\ c.ticket \in DOMAIN transport /\ c.res \in Result
        /\ TellsOfWrite(c.res) => WroteFor(c.ticket)
    BY <1>5 DEF ResultCommit, TypeInv, TypeOK, ResultCall, TellInv, CallsTell
  <2>2. ASSUME NEW r \in Record, transport' = [transport EXCEPT ![c.ticket] = r],
               transport[c.ticket].state = "processing",
               r.state = Verdict(c.res.success), r.write = c.res.write,
               r.use = transport[c.ticket].use, r.by = transport[c.ticket].by
        PROVE  OneShot!OneShotNext
    <3> DEFINE u == transport[c.ticket].use
               v == VerdictOf(r)
    <3>1. /\ u \in Grants /\ u \in Offered /\ Taker[u] = transport[c.ticket].by
          /\ VerdictGiven[u] = VerdictOf(transport[c.ticket]) /\ Offered' = Offered
          /\ Taker' = [Taker EXCEPT ![u] = r.by]
          /\ VerdictGiven' = [VerdictGiven EXCEPT ![u] = v]
      BY <1>1, <2>1, <2>2, RecordChanges
    <3>2. Taker[u] # "nobody"
      BY <2>1, <2>2, <3>1, TransportAssumption DEF TellInv, ClaimerNamed
    <3>3. VerdictGiven[u] = "none"
      BY <2>2, <3>1 DEF VerdictOf
    <3>4. Taker' = Taker
      BY <2>2, <3>1, FunctionsEqual
    <3>5. v \in {"restored", "failed after write", "failed"}
      BY <2>2 DEF VerdictOf, Verdict
    <3>6. v # "failed" => u \in Written
      <4>1. v # "failed" => TellsOfWrite(c.res)
        BY <2>2 DEF VerdictOf, Verdict, TellsOfWrite
      <4>2. WroteFor(c.ticket) => u \in Written
        BY DEF WroteFor, Written, GrantInv, WriteUnderClaim
      <4> QED
        BY <2>1, <4>1, <4>2
    <3> HIDE DEF v
    <3>7. OneShot!Settle(u, v)
      BY <2>1, <3>1, <3>2, <3>3, <3>4, <3>6 DEF OneShot!Settle, Written
    <3> QED
      BY <3>1, <3>5, <3>7 DEF OneShot!OneShotNext, OneShot!Verdicts, Grants
  <2> QED
    BY <1>2, <1>5, <2>1, <2>2, ResultCommitted
<1>6. ASSUME NEW a \in Agent, Restore(a)
      PROVE  OneShot!OneShotNext \/ UNCHANGED View
  <2>1. transport' = transport /\ agent[a].pc = "inspected"
    BY <1>6 DEF Restore, serverVars
  <2>2. CASE UNCHANGED writes
    BY <1>2, <2>1, <2>2
  <2>3. CASE RestoreADObject(a)
    <3> DEFINE t == agent[a].ticket
               u == agent[a].env.use
               w == [use |-> u, guid |-> agent[a].env.guid, ticket |-> t,
                     exec |-> agent[a].exec, by |-> a, mode |-> mode]
               n == Len(writes)
    <3>1. /\ t \in DOMAIN transport /\ transport[t].state = "processing"
          /\ transport[t].use = u /\ transport[t].by = a /\ ~WroteFor(t)
      BY <2>1 DEF GrantInv, HoldersMatch, HolderMatches, NotYetWritten, Holding, Unwritten,
         TellInv, WorkIsOpen, Working
    <3>2. u \in Grants
      BY <3>1, TransportAssumption DEF GrantsExist, Grants, TypeInv, TypeOK
    <3>3. Taker[u] = a /\ VerdictGiven[u] = "none"
      BY <1>1, <3>1, <3>2, Fate DEF VerdictOf
    <3>4. u \notin Written
      BY <1>1, <3>1 DEF Written, WroteFor, GrantInv, WriteUnderClaim, OneRecordPerUse
    <3>5. w.use = u /\ writes' = Append(writes, w)
      BY <2>3 DEF RestoreADObject
    <3> HIDE DEF w
    <3>6. /\ n \in Nat /\ DOMAIN writes = 1..n /\ DOMAIN writes' = 1..(n + 1)
          /\ writes'[n + 1] = w /\ \A i \in 1..n : writes'[i] = writes[i]
      BY <3>5 DEF TypeInv, TypeOK
    <3> HIDE DEF n
    <3>7. Written' = Written \cup {u}
      BY <3>5, <3>6 DEF Written
    <3>8. UNCHANGED <<Offered, Taker, VerdictGiven>>
      BY <2>1 DEF Offered, Taker, VerdictGiven, TicketsOf, VerdictOf
    <3>9. OneShot!WriteGrant(u)
      BY <3>3, <3>4, <3>7, <3>8, TransportAssumption DEF OneShot!WriteGrant
    <3> QED
      BY <3>2, <3>9 DEF OneShot!OneShotNext, Grants
  <2> QED
    BY <1>6, <2>2, <2>3 DEF Restore
<1> QED
  BY <1>2, <1>3, <1>4, <1>5, <1>6, OnlyCommits, OnlyRestores

\* The routes and workers, with all their faults, keep the promise of
\* OneShotRestore for every execution consumption.
THEOREM Implements == Spec => ImplementsOneShot
<1>1. Init => OneShot!OneShotInit
  BY InitRefines
<1>2. TypeInv /\ GrantInv /\ GrantInv' /\ TellInv /\ GrantsExist /\ [Next]_vars
        => [OneShot!OneShotNext]_(OneShot!grantVars)
  BY StepRefines DEF View, OneShot!grantVars
<1> QED
  BY TypeCorrect, GrantInvariant, TellInvariant, GrantsInvariant, <1>1, <1>2, PTL
  DEF Spec, ImplementsOneShot, OneShot!OneShotSpec

-----------------------------------------------------------------------------
(***************************************************************************)
(* The lifetimes of the restore transport nest, although each route reads  *)
(* the clock before it waits for the registry's lock.  A call in flight    *)
(* carries the instant it read and the clock only moves on, so whatever is *)
(* stored under the lock was right when it was read and stays so.          *)
(***************************************************************************)
Timely(r) ==
  /\ r.created <= now
  /\ r.expires <= execUses[r.use].expires
  /\ r.state # "pending" => r.created <= r.claimed /\ r.claimed < r.expires

TimesInv ==
  /\ \A t \in DOMAIN transport : Timely(transport[t])
  /\ \A c \in queueCalls : c.at <= now /\ c.expires <= execUses[c.use].expires
  /\ \A c \in claimCalls : transport[c.ticket].created <= c.at

LEMMA InitTimesInv == Init => TimesInv
BY DEF Init, TimesInv

\* The clock does not go back, and a consumption keeps its record.
Onward ==
  /\ now \in Nat /\ now' \in Nat /\ now <= now'
  /\ DOMAIN execUses \subseteq DOMAIN execUses'
  /\ \A u \in DOMAIN execUses : execUses'[u].expires = execUses[u].expires

LEMMA StepOnward == TypeInv /\ [Next]_vars => Onward
<1> SUFFICES ASSUME TypeInv, [Next]_vars
             PROVE  Onward
  OBVIOUS
<1>1. now \in Nat /\ execUses \in Seq(ExecUse)
  BY DEF TypeInv, TypeOK
<1>2. CASE UNCHANGED <<now, execUses>>
  BY <1>1, <1>2 DEF Onward
<1>3. CASE Tick
  BY <1>1, <1>3 DEF Tick, serverVars, Onward
<1>4. ASSUME NEW g \in Guid, NEW h \in Actor, NEW ttl \in 1..ExecTicketTTL,
             ConsumeExecutionTicket(g, h, ttl)
      PROVE  Onward
  <2> DEFINE x == [guid |-> g, actor |-> h, expires |-> now + ttl]
             n == Len(execUses)
  <2>1. execUses' = Append(execUses, x) /\ now' = now
    BY <1>4 DEF ConsumeExecutionTicket
  <2> HIDE DEF x
  <2>2. /\ n \in Nat /\ DOMAIN execUses = 1..n /\ DOMAIN execUses' = 1..(n + 1)
        /\ \A u \in 1..n : execUses'[u] = execUses[u]
    BY <1>1, <2>1
  <2> QED
    BY <1>1, <2>1, <2>2 DEF Onward
<1> QED
  BY <1>2, <1>3, <1>4
  DEF Next, Step, Commit, AgentStep, vars, serverVars, SetMode, ChangeDirectory,
      QueueBegin, QueueCommit, Poll, EndOfRun, Claim, ClaimCommit, VerifyEnvelope,
      Inspect, Restore, VerifyRestored, Send, ResultCommit, AnswerLost, AgentCrash,
      AgentLeaves, ApiRestart

\* What time and new consumptions do to a record, a call and a claim.
LEMMA StaysTimely ==
  ASSUME Onward, NEW r \in Record, r.use \in DOMAIN execUses, Timely(r),
         execUses \in Seq(ExecUse)
  PROVE  r.created <= now' /\ r.expires <= execUses'[r.use].expires
<1>1. /\ r.created \in Nat /\ r.expires \in Nat
      /\ execUses'[r.use].expires = execUses[r.use].expires
  BY DEF Record, Onward
<1> QED
  BY <1>1 DEF Onward, Timely

\* A claim in flight is the one it was, or was made at this instant.
ClaimsKept ==
  \A d \in claimCalls' :
    \/ \E c \in claimCalls : d.ticket = c.ticket /\ d.at = c.at
    \/ d.ticket \in DOMAIN transport /\ d.at = now

LEMMA StepKeepsClaims == TypeInv /\ [Next]_vars => ClaimsKept
<1> SUFFICES ASSUME TypeInv, WorkersOK, [Next]_vars
             PROVE  ClaimsKept
  BY DEF TypeInv, TypeOK, References, WorkersOK
<1>1. claimCalls \subseteq ClaimCall
  BY DEF TypeInv, TypeOK
<1>2. CASE claimCalls' \subseteq claimCalls
  BY <1>2 DEF ClaimsKept
<1>3. ASSUME NEW a \in Agent, NEW t \in agent[a].todo, Claim(a, t)
      PROVE  ClaimsKept
  <2> DEFINE call == [by |-> a, ticket |-> t, at |-> now, waiting |-> TRUE]
  <2>1. claimCalls' \subseteq claimCalls \cup {call}
    BY <1>3 DEF Claim
  <2>2. t \in DOMAIN transport
    BY DEF WorkersOK, WorkerRefs
  <2>3. call.ticket = t /\ call.at = now
    OBVIOUS
  <2> HIDE DEF call
  <2> QED
    BY <2>1, <2>2, <2>3 DEF ClaimsKept
<1>4. ASSUME NEW a \in Agent, claimCalls' = Abandon(claimCalls, a)
      PROVE  ClaimsKept
  BY <1>1, <1>4 DEF ClaimsKept, Abandon, ClaimCall
<1>5. CASE \E c \in claimCalls : ClaimCommit(c)
  BY <1>2, <1>5 DEF ClaimCommit
<1> QED
  BY <1>2, <1>3, <1>4, <1>5
  DEF Next, Step, Commit, AgentStep, vars, serverVars, Tick, SetMode, ChangeDirectory,
      ConsumeExecutionTicket, QueueBegin, QueueCommit, Poll, EndOfRun, VerifyEnvelope,
      Inspect, Restore, VerifyRestored, Send, ResultCommit, AnswerLost, AgentCrash,
      AgentLeaves, ApiRestart

\* The same of a queue call, which carries the end of life it computed.
QueuesKept ==
  \A d \in queueCalls' :
    \/ d \in queueCalls
    \/ /\ d.use \in DOMAIN execUses /\ d.at = now
       /\ d.expires <= execUses[d.use].expires

LEMMA StepKeepsQueues == TypeInv /\ [Next]_vars => QueuesKept
<1> SUFFICES ASSUME TypeInv, [Next]_vars
             PROVE  QueuesKept
  OBVIOUS
<1>1. CASE queueCalls' \subseteq queueCalls
  BY <1>1 DEF QueuesKept
<1>2. ASSUME NEW h \in Actor, NEW u \in DOMAIN execUses, QueueBegin(h, u)
      PROVE  QueuesKept
  <2> DEFINE e == MinOf(now + EnvelopeTTL, execUses[u].expires)
             call == [by |-> h, use |-> u, at |-> now, expires |-> e]
  <2>1. queueCalls' = queueCalls \cup {call}
    BY <1>2 DEF QueueBegin
  <2>2. now + EnvelopeTTL \in Nat /\ execUses[u].expires \in Nat
    <3>1. execUses[u] \in ExecUse /\ now \in Nat
      BY DEF TypeInv, TypeOK
    <3> QED
      BY <3>1, TransportAssumption DEF ExecUse
  <2>3. e <= execUses[u].expires
    BY <2>2 DEF MinOf
  <2> HIDE DEF e
  <2>4. call.use = u /\ call.at = now /\ call.expires <= execUses[u].expires
    BY <2>3
  <2> HIDE DEF call
  <2> QED
    BY <2>1, <2>4 DEF QueuesKept
<1>3. CASE \E c \in queueCalls : QueueCommit(c)
  BY <1>1, <1>3 DEF QueueCommit
<1> QED
  BY <1>1, <1>2, <1>3
  DEF Next, Step, Commit, AgentStep, vars, serverVars, Tick, SetMode, ChangeDirectory,
      ConsumeExecutionTicket, Poll, EndOfRun, Claim, ClaimCommit, VerifyEnvelope,
      Inspect, Restore, VerifyRestored, Send, ResultCommit, AnswerLost, AgentCrash,
      AgentLeaves, ApiRestart

LEMMA NextTimesInv == TypeInv /\ GrantsExist /\ TimesInv /\ [Next]_vars => TimesInv'
<1> SUFFICES ASSUME TypeInv, GrantsExist, TimesInv, [Next]_vars, Onward
             PROVE  TimesInv'
  BY StepOnward
<1>1. /\ transport \in Seq(Record) /\ execUses \in Seq(ExecUse) /\ now \in Nat
      /\ \A t \in DOMAIN transport : transport[t] \in Record
      /\ \A t \in DOMAIN transport : transport[t].use \in DOMAIN execUses
      /\ queueCalls \subseteq QueueCall /\ claimCalls \subseteq ClaimCall
      /\ \A c \in queueCalls : c.use \in DOMAIN execUses
      /\ \A c \in claimCalls : c.ticket \in DOMAIN transport
  BY DEF TypeInv, TypeOK, References, CallRefs, GrantsExist
<1>2. \A t \in DOMAIN transport :
        /\ transport[t].created <= now'
        /\ transport[t].expires <= execUses'[transport[t].use].expires
  BY <1>1, StaysTimely DEF TimesInv
<1>3. \A d \in queueCalls' : d.at <= now' /\ d.expires <= execUses'[d.use].expires
  <2>1. ASSUME NEW d \in queueCalls
        PROVE  d.at <= now' /\ d.expires <= execUses'[d.use].expires
    BY <1>1, <2>1 DEF TimesInv, Onward, QueueCall
  <2>2. ASSUME NEW d \in queueCalls', d.use \in DOMAIN execUses, d.at = now,
               d.expires <= execUses[d.use].expires
        PROVE  d.at <= now' /\ d.expires <= execUses'[d.use].expires
    BY <2>2 DEF Onward
  <2> QED
    BY <2>1, <2>2, StepKeepsQueues DEF QueuesKept
<1>4. \A d \in claimCalls' :
        d.ticket \in DOMAIN transport /\ transport[d.ticket].created <= d.at
  BY <1>1, StepKeepsClaims DEF ClaimsKept, TimesInv, Timely
<1>5. CASE UNCHANGED transport
  BY <1>2, <1>3, <1>4, <1>5 DEF TimesInv, Timely
<1>6. ASSUME NEW c \in queueCalls, NEW r \in Record, transport' = Append(transport, r),
             r.use = c.use, r.state = "pending", r.created = c.at, r.expires = c.expires
      PROVE  TimesInv'
  <2> DEFINE n == Len(transport)
  <2>1. /\ n \in Nat /\ DOMAIN transport = 1..n /\ DOMAIN transport' = 1..(n + 1)
        /\ transport'[n + 1] = r /\ \A t \in 1..n : transport'[t] = transport[t]
    BY <1>1, <1>6
  <2> HIDE DEF n
  <2>2. r.created <= now' /\ r.expires <= execUses'[r.use].expires
    BY <1>1, <1>6 DEF TimesInv, Onward, QueueCall
  <2>3. \A t \in DOMAIN transport' : Timely(transport[t])'
    BY <1>2, <1>6, <2>1, <2>2 DEF TimesInv, Timely
  <2>4. \A d \in claimCalls' : transport'[d.ticket].created <= d.at
    BY <1>4, <2>1
  <2> QED
    BY <1>3, <2>3, <2>4 DEF TimesInv
<1>7. ASSUME NEW t \in DOMAIN transport, NEW r \in Record,
             transport' = [transport EXCEPT ![t] = r],
             r.use = transport[t].use, r.created = transport[t].created,
             r.expires = transport[t].expires,
             r.created <= r.claimed /\ r.claimed < r.expires
      PROVE  TimesInv'
  <2>1. DOMAIN transport' = DOMAIN transport /\ transport'[t] = r
        /\ \A k \in DOMAIN transport \ {t} : transport'[k] = transport[k]
    BY <1>1, <1>7
  <2>2. \A k \in DOMAIN transport' : Timely(transport[k])'
    BY <1>2, <1>7, <2>1 DEF TimesInv, Timely
  <2>3. \A d \in claimCalls' : transport'[d.ticket].created <= d.at
    BY <1>4, <1>7, <2>1
  <2> QED
    BY <1>3, <2>2, <2>3 DEF TimesInv
<1>8. ASSUME NEW c \in queueCalls, QueueCommit(c) PROVE TimesInv'
  BY <1>5, <1>6, <1>8, QueueCommitted
<1>9. ASSUME NEW c \in claimCalls, ClaimCommit(c) PROVE TimesInv'
  <2>1. transport[c.ticket].created <= c.at
    BY DEF TimesInv
  <2> QED
    BY <1>5, <1>7, <1>9, <2>1, ClaimCommitted
<1>10. ASSUME NEW c \in resultCalls, ResultCommit(c) PROVE TimesInv'
  <2>1. CASE c.ticket \in DOMAIN transport
    <3>1. transport[c.ticket].state = "processing" =>
            /\ transport[c.ticket].created <= transport[c.ticket].claimed
            /\ transport[c.ticket].claimed < transport[c.ticket].expires
      BY <2>1 DEF TimesInv, Timely
    <3> QED
      BY <1>5, <1>7, <1>10, <2>1, <3>1, ResultCommitted
  <2>2. CASE c.ticket \notin DOMAIN transport
    BY <1>1, <1>5, <1>10, <2>2 DEF ResultCommit
  <2> QED
    BY <2>1, <2>2
<1> QED
  BY <1>5, <1>8, <1>9, <1>10, OnlyCommits

\* Every claim is made inside the envelope's life, which ends no later than the
\* execution ticket's, whatever waits for the lock between reading the clock and
\* storing the record (ClaimedInTime).
THEOREM ClaimsInTime == Spec => []ClaimedInTime
<1>1. TimesInv => ClaimedInTime
  BY DEF TimesInv, Timely, ClaimedInTime
<1>2. TypeInv /\ GrantsExist /\ TimesInv /\ [Next]_vars => TimesInv'
  BY NextTimesInv
<1> QED
  BY TypeCorrect, GrantsInvariant, InitTimesInv, <1>1, <1>2, PTL DEF Spec
===============================================================================
