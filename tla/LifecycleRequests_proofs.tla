----------------------- MODULE LifecycleRequests_proofs -----------------------
(***************************************************************************)
(* Theorems about the lifecycle workflow, for any requests and agents, any *)
(* number of overlapping calls, retries and resets, and any faults.        *)
(***************************************************************************)
EXTENDS LifecycleRequests, TLAPS

Op == AgentOp \cup OperatorOp

LEMMA UpdatedType ==
  ASSUME NEW e \in Entry, NEW op \in Op \ {"create"}
  PROVE  /\ Updated(op, e) \in Entry
         /\ Updated(op, e).status = "completed" => op = "success"
<1>1. CASE op = "approve"
  BY <1>1 DEF Updated, Entry
<1>2. CASE op = "reject"
  BY <1>2 DEF Updated, Entry
<1>3. CASE op = "retry"
  BY <1>3 DEF Updated, Entry, Retried
<1>4. CASE op = "claim"
  BY <1>4 DEF Updated, Entry
<1>5. CASE op = "success"
  BY <1>5 DEF Updated, Entry
<1>6. CASE op = "failure"
  BY <1>6 DEF Updated, Entry
<1> QED
  BY <1>1, <1>2, <1>3, <1>4, <1>5, <1>6 DEF Op, AgentOp, OperatorOp

\* The content a call will save differs from the file in its request only, unless
\* it is the empty list of a reset.
LEMMA ContentType ==
  ASSUME file \in File, NEW op \in Op \cup {"reset"}, NEW r \in Request
  PROVE  /\ Content(op, r) \in File
         /\ op = "reset" => \A q \in Request : Content(op, r)[q] = Absent
         /\ op # "reset" => \A q \in Request \ {r} : Content(op, r)[q] = file[q]
         /\ op = "create" => Content(op, r)[r] = NewEntry
         /\ op \notin {"reset", "create"} => Content(op, r)[r] = Updated(op, file[r])
<1>1. Absent \in Entry /\ NewEntry \in Entry
  BY DEF Absent, NewEntry, Entry
<1>2. file[r] \in Entry
  BY DEF File
<1>3. CASE op = "reset"
  BY <1>1, <1>3 DEF Content, File
<1>4. CASE op = "create"
  BY <1>1, <1>4 DEF Content, File
<1>5. CASE op \notin {"reset", "create"}
  <2>1. Updated(op, file[r]) \in Entry
    BY <1>2, <1>5, UpdatedType
  <2>2. Content(op, r) = [file EXCEPT ![r] = Updated(op, file[r])]
    BY <1>5 DEF Content
  <2> QED
    BY <1>5, <2>1, <2>2 DEF File
<1> QED
  BY <1>3, <1>4, <1>5

-----------------------------------------------------------------------------
(***************************************************************************)
(* Types.                                                                  *)
(***************************************************************************)
Step == {"idle", "next", "claim", "check", "create", "groups", "success", "failure"}

LEMMA MoveType ==
  ASSUME agents \in [Agent -> AgentState], NEW a \in Agent, NEW step \in Step, Move(a, step)
  PROVE  agents' \in [Agent -> AgentState]
BY DEF Move, AgentState, Step

LEMMA LoadType ==
  ASSUME TypeOK, NEW caller \in Agent \cup {NoOne}, NEW op \in Op \cup {"reset"},
         NEW r \in Request, Load(caller, op, r)
  PROVE  calls' \subseteq Call /\ overlapped' \in BOOLEAN
<1>1. calls' \subseteq Call
  BY ContentType DEF TypeOK, Load, Call, Op
<1>2. overlapped' \in BOOLEAN
  BY Zenon DEF Load
<1> QED
  BY <1>1, <1>2

LEMMA OrphanedType ==
  ASSUME calls \subseteq Call, NEW a \in Agent
  PROVE  Orphaned(a) \subseteq Call
BY DEF Orphaned, Call

LEMMA AnsweredType ==
  ASSUME NEW s \in AgentState, NEW op
  PROVE  [s EXCEPT !.step = AfterAnswer(op), !.waits = FALSE] \in AgentState
<1>1. AfterAnswer(op) \in {"check", "next"}
  BY DEF AfterAnswer
<1> HIDE DEF AfterAnswer
<1> QED
  BY <1>1 DEF AgentState

LEMMA RefusalType ==
  ASSUME NEW step
  PROVE  AfterRefusal(step) \in {"next", "failure"}
BY DEF AfterRefusal, OnError

\* An agent that takes the next request of its pass.
LEMMA TakenType ==
  ASSUME NEW s \in AgentState, NEW r \in s.queue
  PROVE  LET t == [s EXCEPT !.step = "claim", !.current = r, !.queue = @ \ {r}]
         IN  t \in AgentState /\ t.step = "claim"
BY DEF AgentState

LEMMA TypeInit == Init => TypeOK
<1> SUFFICES ASSUME Init PROVE TypeOK
  OBVIOUS
<1>1. file \in File
  BY DEF Init, File, Absent, Entry
<1>2. agents \in [Agent -> AgentState]
  BY DEF Init, AgentState
<1> QED
  BY <1>1, <1>2 DEF Init, TypeOK, Account

LEMMA TypeSave ==
  ASSUME TypeOK, NEW c \in calls, Save(c)
  PROVE  TypeOK'
<1>1. c \in Call /\ c.content \in File /\ c.request \in Request
  BY DEF TypeOK, Call
<1>2. agents' \in [Agent -> AgentState]
  <2>1. CASE c.caller = NoOne
    BY <2>1 DEF Save, TypeOK
  <2>2. CASE c.caller # NoOne
    <3>1. c.caller \in Agent /\ agents[c.caller] \in AgentState
      BY <1>1, <2>2 DEF Call, TypeOK
    <3>2. [agents[c.caller] EXCEPT !.step = AfterAnswer(c.op), !.waits = FALSE] \in AgentState
      BY <3>1, AnsweredType
    <3> QED
      BY <2>2, <3>1, <3>2 DEF Save, TypeOK
  <2> QED
    BY <2>1, <2>2
<1>3. released' \in [Request -> Nat] /\ executions' \in [Request -> Nat]
  BY <1>1 DEF Save, TypeOK
<1> QED
  BY <1>1, <1>2, <1>3 DEF Save, TypeOK

LEMMA TypeAgentStep ==
  ASSUME TypeOK, NEW a \in Agent, AgentStep(a)
  PROVE  TypeOK'
<1> USE DEF TypeOK
<1>1. agents[a] \in AgentState /\ agents[a].current \in Request
  BY DEF AgentState
<1>2. CASE Poll(a)
  BY <1>1, <1>2 DEF Poll, Pending, AgentState, history
<1>3. CASE TakeNext(a)
  <2>1. CASE Move(a, "idle")
    BY <1>3, <2>1, MoveType DEF TakeNext, Step, history
  <2>2. ASSUME NEW r \in agents[a].queue,
               agents' = [agents EXCEPT ![a].step = "claim", ![a].current = r,
                                        ![a].queue = @ \ {r}]
        PROVE  agents' \in [Agent -> AgentState]
    BY <1>1, <2>2, TakenType
  <2>3. agents' \in [Agent -> AgentState]
    BY <1>3, <2>1, <2>2, MoveType DEF TakeNext, Step
  <2> QED
    BY <1>3, <2>3 DEF TakeNext, history
<1>4. CASE AgentCall(a)
  <2> DEFINE op == agents[a].step
             r == agents[a].current
  <2>1. op \in AgentOp
    BY <1>4 DEF AgentCall
  <2>2. agents' \in [Agent -> AgentState]
    <3>1. CASE agents' = [agents EXCEPT ![a].waits = TRUE]
      BY <1>1, <3>1 DEF AgentState
    <3>2. CASE Move(a, AfterRefusal(op))
      BY <3>2, RefusalType, MoveType DEF Step
    <3> QED
      BY <1>4, <3>1, <3>2 DEF AgentCall
  <2>3. calls' \subseteq Call /\ overlapped' \in BOOLEAN
    <3>1. CASE Load(a, op, r)
      BY <1>1, <2>1, <3>1, LoadType DEF Op
    <3>2. CASE UNCHANGED <<calls, overlapped>>
      BY <3>2
    <3> QED
      BY <1>4, <3>1, <3>2 DEF AgentCall
  <2> QED
    BY <1>4, <2>2, <2>3 DEF AgentCall, history
<1>5. CASE CheckLogin(a)
  BY <1>5, MoveType DEF CheckLogin, OnError, Step, history
<1>6. CASE CreateAccount(a)
  <2>1. agents' \in [Agent -> AgentState]
    BY <1>6, MoveType DEF CreateAccount, OnError, Step
  <2>2. account' \in [Request -> Account]
    BY <1>6 DEF CreateAccount, Account
  <2> QED
    BY <1>6, <2>1, <2>2 DEF CreateAccount, history
<1>7. CASE AddGroups(a)
  <2>1. agents' \in [Agent -> AgentState]
    BY <1>7, MoveType DEF AddGroups, OnGroupError, OnError, Step
  <2>2. account' \in [Request -> Account]
    BY <1>7 DEF AddGroups, Account
  <2> QED
    BY <1>7, <2>1, <2>2 DEF AddGroups, history
<1> QED
  BY <1>2, <1>3, <1>4, <1>5, <1>6, <1>7 DEF AgentStep

LEMMA TypeStep == TypeOK /\ [Next]_lifecycleVars => TypeOK'
<1> SUFFICES ASSUME TypeOK, [Next]_lifecycleVars PROVE TypeOK'
  OBVIOUS
<1>1. ASSUME NEW op \in OperatorOp, NEW r \in Request, OperatorCall(op, r) PROVE TypeOK'
  <2>1. calls' \subseteq Call /\ overlapped' \in BOOLEAN
    BY <1>1, LoadType DEF OperatorCall, Op
  <2> QED
    BY <1>1, <2>1 DEF OperatorCall, TypeOK
<1>2. ASSUME NEW r \in Request, ResetCall(r) PROVE TypeOK'
  <2>1. calls' \subseteq Call /\ overlapped' \in BOOLEAN
    BY <1>2, LoadType DEF ResetCall
  <2> QED
    BY <1>2, <2>1 DEF ResetCall, TypeOK
<1>3. ASSUME NEW a \in Agent, Unanswered(a) PROVE TypeOK'
  <2>1. calls' \subseteq Call
    BY <1>3, OrphanedType DEF Unanswered, TypeOK
  <2>2. agents' \in [Agent -> AgentState]
    <3>1. AfterRefusal(agents[a].step) \in {"next", "failure"}
      BY RefusalType
    <3> QED
      BY <1>3, <3>1 DEF Unanswered, TypeOK, AgentState
  <2> QED
    BY <1>3, <2>1, <2>2 DEF Unanswered, TypeOK, history
<1>4. ASSUME NEW a \in Agent, AgentCrash(a) PROVE TypeOK'
  BY <1>4, OrphanedType DEF AgentCrash, TypeOK, AgentState, history
<1>5. CASE UNCHANGED lifecycleVars
  BY <1>5 DEF lifecycleVars, history, TypeOK
<1> QED
  BY <1>1, <1>2, <1>3, <1>4, <1>5, TypeSave, TypeAgentStep DEF Next

\* The types hold in every reachable state: the file, the calls that save it,
\* the agents, the directory and the history (TypeOK).
THEOREM TypeInvariant == Spec => []TypeOK
BY TypeInit, TypeStep, PTL DEF Spec

-----------------------------------------------------------------------------
(***************************************************************************)
(* Results.  The file and the content of every call show a result exactly  *)
(* for the finished requests, so it does not matter which one is saved     *)
(* last.                                                                   *)
(***************************************************************************)
Matches(f) ==
  \A r \in Request :
    /\ f[r].status = "completed" <=> f[r].result = "success"
    /\ f[r].status = "failed" <=> f[r].result = "failure"

ResultInv == TypeOK /\ Matches(file) /\ \A c \in calls : Matches(c.content)

LEMMA ResultInit == Init => ResultInv
<1> SUFFICES ASSUME Init PROVE Matches(file) /\ calls = {}
  BY TypeInit DEF ResultInv
<1> QED
  BY DEF Init, Matches, Absent

LEMMA LoadMatches ==
  ASSUME TypeOK, Matches(file), NEW op \in Op \cup {"reset"}, NEW r \in Request,
         op # "reset" => Allowed(op, r)
  PROVE  Matches(Content(op, r))
<1>1. CASE op = "reset"
  <2>1. \A q \in Request : Content(op, r)[q] = Absent
    BY <1>1, ContentType DEF TypeOK
  <2>2. Absent.status = "absent" /\ Absent.result = "none"
    BY DEF Absent
  <2> QED
    BY <2>1, <2>2 DEF Matches
<1>2. CASE op = "create"
  BY <1>2, ContentType DEF TypeOK, Matches, NewEntry
<1>3. CASE op \notin {"reset", "create"}
  <2> DEFINE e == Updated(op, file[r])
  <2>1. file[r] \in Entry /\ Allowed(op, r) /\ op \in Op \ {"create"}
    BY <1>3 DEF TypeOK, File
  <2>2. /\ e.status = "completed" <=> e.result = "success"
        /\ e.status = "failed" <=> e.result = "failure"
    <3>0. /\ file[r].status = "completed" <=> file[r].result = "success"
          /\ file[r].status = "failed" <=> file[r].result = "failure"
      BY DEF Matches
    <3>1. CASE op \in {"approve", "reject", "claim"}
      BY <2>1, <3>0, <3>1 DEF Allowed, Rejectable, Claimable, Updated, Entry
    <3>2. CASE op \in {"retry", "success", "failure"}
      BY <2>1, <3>2 DEF Updated, Retried, Entry
    <3> QED
      BY <2>1, <3>1, <3>2 DEF Op, AgentOp, OperatorOp
  <2> HIDE DEF e
  <2>3. Content(op, r)[r] = e /\ \A q \in Request \ {r} : Content(op, r)[q] = file[q]
    BY <1>3, ContentType DEF TypeOK, e
  <2> QED
    BY <2>2, <2>3 DEF Matches
<1> QED
  BY <1>1, <1>2, <1>3

LEMMA OrphanedContent ==
  ASSUME calls \subseteq Call, NEW a, NEW d \in Orphaned(a)
  PROVE  \E c \in calls : d.content = c.content
<1>1. PICK c \in calls : d = [c EXCEPT !.caller = IF @ = a THEN NoOne ELSE @]
  BY DEF Orphaned
<1>2. c \in Call
  OBVIOUS
<1> QED
  BY <1>1, <1>2 DEF Call

LEMMA ResultStep == ResultInv /\ [Next]_lifecycleVars => ResultInv'
<1> SUFFICES ASSUME ResultInv, [Next]_lifecycleVars
             PROVE  Matches(file)' /\ (\A c \in calls : Matches(c.content))'
  BY TypeStep DEF ResultInv
<1> USE DEF ResultInv
<1>1. ASSUME NEW op \in OperatorOp, NEW r \in Request, OperatorCall(op, r)
      PROVE  Matches(file)' /\ (\A c \in calls : Matches(c.content))'
  BY <1>1, LoadMatches DEF OperatorCall, Op, Load, Matches, OperatorOp
<1>2. ASSUME NEW r \in Request, ResetCall(r)
      PROVE  Matches(file)' /\ (\A c \in calls : Matches(c.content))'
  BY <1>2, LoadMatches DEF ResetCall, Load, Matches
<1>3. ASSUME NEW c \in calls, Save(c)
      PROVE  Matches(file)' /\ (\A d \in calls : Matches(d.content))'
  BY <1>3 DEF Save, Matches
<1>4. ASSUME NEW a \in Agent, AgentStep(a)
      PROVE  Matches(file)' /\ (\A c \in calls : Matches(c.content))'
  <2>1. CASE AgentCall(a)
    <3>1. agents[a].step \in Op /\ agents[a].current \in Request /\ agents[a].step # "reset"
      BY <2>1 DEF AgentCall, TypeOK, AgentState, Op, AgentOp
    <3>2. CASE UNCHANGED calls
      BY <2>1, <3>2 DEF AgentCall, Matches
    <3>3. CASE /\ Allowed(agents[a].step, agents[a].current)
               /\ Load(a, agents[a].step, agents[a].current)
      BY <2>1, <3>1, <3>3, LoadMatches DEF AgentCall, Load, Matches
    <3> QED
      BY <2>1, <3>2, <3>3 DEF AgentCall
  <2>2. CASE UNCHANGED <<file, calls>>
    BY <2>2 DEF Matches
  <2> QED
    BY <1>4, <2>1, <2>2 DEF AgentStep, Poll, TakeNext, CheckLogin, CreateAccount, AddGroups
<1>5. ASSUME NEW a \in Agent, Unanswered(a) \/ AgentCrash(a)
      PROVE  Matches(file)' /\ (\A c \in calls : Matches(c.content))'
  <2>1. file' = file /\ calls' = Orphaned(a)
    BY <1>5 DEF Unanswered, AgentCrash
  <2>2. ASSUME NEW d \in calls' PROVE Matches(d.content)
    BY <2>1, OrphanedContent DEF TypeOK
  <2> QED
    BY <2>1, <2>2 DEF Matches
<1>6. CASE UNCHANGED lifecycleVars
  BY <1>6 DEF lifecycleVars, Matches
<1> QED
  BY <1>1, <1>2, <1>3, <1>4, <1>5, <1>6 DEF Next

\* Whatever calls overlap and whichever content is saved last, a request shows a
\* result exactly when it is finished, and the one its status names
\* (ResultMatchesStatus).
THEOREM ResultsMatch == Spec => []ResultMatchesStatus
<1>1. ResultInv => ResultMatchesStatus
  BY DEF ResultInv, Matches, ResultMatchesStatus
<1> QED
  BY ResultInit, ResultStep, <1>1, PTL DEF Spec

-----------------------------------------------------------------------------
(***************************************************************************)
(* Completed requests.  Accounts stay in their groups, and only an agent   *)
(* that has added the groups itself reports a success.                     *)
(***************************************************************************)
Provisioned(f) == \A r \in Request : f[r].status = "completed" => account[r] = "member"

SuccessIsMember ==
  \A a \in Agent : agents[a].step = "success" => account[agents[a].current] = "member"

ProvisionInv ==
  /\ TypeOK
  /\ Provisioned(file)
  /\ \A c \in calls : Provisioned(c.content)
  /\ SuccessIsMember

LEMMA ProvisionInit == Init => ProvisionInv
<1> SUFFICES ASSUME Init PROVE Provisioned(file) /\ calls = {} /\ SuccessIsMember
  BY TypeInit DEF ProvisionInv
<1>1. \A a \in Agent : agents[a].step = "idle"
  BY DEF Init
<1> QED
  BY <1>1 DEF Init, Provisioned, SuccessIsMember, Absent

LEMMA LoadProvisioned ==
  ASSUME TypeOK, Provisioned(file), NEW op \in Op \cup {"reset"}, NEW r \in Request,
         op = "success" => account[r] = "member"
  PROVE  Provisioned(Content(op, r))
<1>1. CASE op = "reset"
  <2>1. \A q \in Request : Content(op, r)[q] = Absent
    BY <1>1, ContentType DEF TypeOK
  <2>2. Absent.status = "absent"
    BY DEF Absent
  <2> QED
    BY <2>1, <2>2 DEF Provisioned
<1>2. CASE op = "create"
  BY <1>2, ContentType DEF TypeOK, Provisioned, NewEntry
<1>3. CASE op \notin {"reset", "create"}
  <2> DEFINE e == Updated(op, file[r])
  <2>1. file[r] \in Entry /\ op \in Op \ {"create"}
    BY <1>3 DEF TypeOK, File
  <2>2. e.status = "completed" => account[r] = "member"
    BY <2>1, UpdatedType
  <2> HIDE DEF e
  <2>3. Content(op, r)[r] = e /\ \A q \in Request \ {r} : Content(op, r)[q] = file[q]
    BY <1>3, ContentType DEF TypeOK, e
  <2> QED
    BY <2>2, <2>3 DEF Provisioned
<1> QED
  BY <1>1, <1>2, <1>3

\* A step of the directory that takes no account out of its groups.
LEMMA MembersStay ==
  ASSUME ProvisionInv, UNCHANGED <<file, calls>>,
         \A r \in Request : account[r] = "member" => account'[r] = "member"
  PROVE  Provisioned(file)' /\ (\A c \in calls : Provisioned(c.content))'
BY DEF ProvisionInv, Provisioned

\* A step of one agent to a step other than its report.
LEMMA OtherStep ==
  ASSUME TypeOK, SuccessIsMember, NEW a \in Agent,
         agents'[a].step # "success", \A b \in Agent \ {a} : agents'[b] = agents[b],
         \A r \in Request : account[r] = "member" => account'[r] = "member"
  PROVE  SuccessIsMember'
<1> SUFFICES ASSUME NEW b \in Agent, agents'[b].step = "success"
             PROVE  account'[agents'[b].current] = "member"
  BY DEF SuccessIsMember
<1>1. agents'[b] = agents[b]
  OBVIOUS
<1>2. agents[b].current \in Request
  BY DEF TypeOK, AgentState
<1> QED
  BY <1>1, <1>2 DEF SuccessIsMember

LEMMA ProvisionAgentStep ==
  ASSUME ProvisionInv, NEW a \in Agent, AgentStep(a)
  PROVE  /\ Provisioned(file)' /\ (\A c \in calls : Provisioned(c.content))'
         /\ SuccessIsMember'
<1> USE DEF ProvisionInv
<1> DEFINE r == agents[a].current
<1>1. agents[a] \in AgentState /\ r \in Request
  BY DEF TypeOK, AgentState
<1>2. CASE Poll(a)
  <2>1. agents'[a].step = "next" /\ \A b \in Agent \ {a} : agents'[b] = agents[b]
    BY <1>1, <1>2 DEF Poll, TypeOK, AgentState
  <2> QED
    BY <1>2, <2>1, MembersStay, OtherStep DEF Poll
<1>3. CASE TakeNext(a)
  <2>1. agents'[a].step # "success"
    <3>1. CASE Move(a, "idle")
      BY <1>1, <3>1 DEF Move, TypeOK, AgentState
    <3>2. ASSUME NEW q \in agents[a].queue,
                 agents' = [agents EXCEPT ![a].step = "claim", ![a].current = q,
                                          ![a].queue = @ \ {q}]
          PROVE  agents'[a].step = "claim"
      BY <1>1, <3>2, TakenType DEF TypeOK
    <3> QED
      BY <1>3, <3>1, <3>2 DEF TakeNext
  <2>2. \A b \in Agent \ {a} : agents'[b] = agents[b]
    BY <1>3 DEF TakeNext, Move, TypeOK
  <2> QED
    BY <1>3, <2>1, <2>2, MembersStay, OtherStep DEF TakeNext
<1>4. CASE AgentCall(a)
  <2> DEFINE op == agents[a].step
  <2>1. op \in Op /\ UNCHANGED <<file, account>>
    BY <1>4 DEF AgentCall, Op
  <2>2. (\A c \in calls : Provisioned(c.content))'
    <3>1. CASE Load(a, op, r)
      <4>1. Provisioned(Content(op, r))
        BY <1>1, <2>1, LoadProvisioned DEF SuccessIsMember
      <4>2. \A c \in calls' : Provisioned(c.content)
        BY <3>1, <4>1 DEF Load
      <4> QED
        BY <2>1, <4>2 DEF Provisioned
    <3>2. CASE UNCHANGED calls
      BY <2>1, <3>2 DEF Provisioned
    <3> QED
      BY <1>4, <3>1, <3>2 DEF AgentCall
  <2>3. SuccessIsMember'
    <3>1. CASE agents' = [agents EXCEPT ![a].waits = TRUE]
      BY <1>1, <2>1, <3>1 DEF SuccessIsMember, TypeOK, AgentState
    <3>2. CASE Move(a, AfterRefusal(op))
      <4>1. AfterRefusal(op) # "success"
        BY RefusalType
      <4> HIDE DEF op
      <4>2. agents'[a].step = AfterRefusal(op)
        BY <1>1, <3>2 DEF Move, TypeOK, AgentState
      <4> QED
        BY <2>1, <3>2, <4>1, <4>2, OtherStep DEF Move
    <3> QED
      BY <1>4, <3>1, <3>2 DEF AgentCall
  <2> QED
    BY <2>1, <2>2, <2>3 DEF Provisioned
<1>5. CASE CheckLogin(a)
  <2>1. agents'[a].step # "success" /\ \A b \in Agent \ {a} : agents'[b] = agents[b]
    BY <1>1, <1>5 DEF CheckLogin, Move, OnError, TypeOK, AgentState
  <2> QED
    BY <1>5, <2>1, MembersStay, OtherStep DEF CheckLogin
<1>6. CASE CreateAccount(a)
  <2>1. agents'[a].step # "success" /\ \A b \in Agent \ {a} : agents'[b] = agents[b]
    BY <1>1, <1>6 DEF CreateAccount, Move, OnError, TypeOK, AgentState
  <2>2. \A q \in Request : account[q] = "member" => account'[q] = "member"
    BY <1>6 DEF CreateAccount, TypeOK
  <2> QED
    BY <1>6, <2>1, <2>2, MembersStay, OtherStep DEF CreateAccount
<1>7. CASE AddGroups(a)
  <2>1. \A q \in Request : account[q] = "member" => account'[q] = "member"
    BY <1>7 DEF AddGroups, TypeOK
  <2>2. \A b \in Agent \ {a} : agents'[b] = agents[b]
    BY <1>7 DEF AddGroups, Move, TypeOK
  <2>3. SuccessIsMember'
    <3>1. CASE account' = [account EXCEPT ![r] = "member"] /\ Move(a, "success")
      <4>1. account'[r] = "member" /\ agents'[a].current = r
        BY <1>1, <3>1 DEF Move, TypeOK, AgentState
      <4> HIDE DEF r
      <4> QED
        BY <2>1, <2>2, <4>1 DEF SuccessIsMember, TypeOK, AgentState
    <3>2. CASE Move(a, OnGroupError)
      <4>1. agents'[a].step = "failure"
        BY <1>1, <3>2 DEF Move, OnGroupError, OnError, TypeOK, AgentState
      <4> QED
        BY <2>1, <2>2, <4>1, OtherStep
    <3> QED
      BY <1>7, <3>1, <3>2 DEF AddGroups
  <2> QED
    BY <1>7, <2>1, <2>3, MembersStay DEF AddGroups
<1> QED
  BY <1>2, <1>3, <1>4, <1>5, <1>6, <1>7 DEF AgentStep

LEMMA ProvisionStep == ProvisionInv /\ [Next]_lifecycleVars => ProvisionInv'
<1> SUFFICES ASSUME ProvisionInv, [Next]_lifecycleVars
             PROVE  /\ Provisioned(file)' /\ (\A c \in calls : Provisioned(c.content))'
                    /\ SuccessIsMember'
  BY TypeStep DEF ProvisionInv
<1> USE DEF ProvisionInv
<1> DEFINE Goal == /\ Provisioned(file)' /\ (\A c \in calls : Provisioned(c.content))'
                   /\ SuccessIsMember'
<1>1. ASSUME NEW op \in OperatorOp, NEW r \in Request, OperatorCall(op, r) PROVE Goal
  <2>1. op \in Op /\ op # "success"
    BY DEF Op, OperatorOp
  <2> QED
    BY <1>1, <2>1, LoadProvisioned DEF OperatorCall, Load, Provisioned, SuccessIsMember
<1>2. ASSUME NEW r \in Request, ResetCall(r) PROVE Goal
  BY <1>2, LoadProvisioned DEF ResetCall, Load, Provisioned, SuccessIsMember
<1>3. ASSUME NEW c \in calls, Save(c) PROVE Goal
  <2>1. Provisioned(file)' /\ (\A d \in calls : Provisioned(d.content))'
    BY <1>3 DEF Save, Provisioned
  <2>2. CASE c.caller = NoOne
    BY <1>3, <2>1, <2>2 DEF Save, SuccessIsMember
  <2>3. CASE c.caller # NoOne
    <3>1. c.caller \in Agent
      BY <2>3 DEF TypeOK, Call
    <3>2. agents'[c.caller] = [agents[c.caller] EXCEPT !.step = AfterAnswer(c.op),
                                                       !.waits = FALSE]
      BY <1>3, <2>3, <3>1 DEF Save, TypeOK
    <3>3. agents'[c.caller].step # "success"
      BY <3>1, <3>2 DEF TypeOK, AgentState, AfterAnswer
    <3>4. \A b \in Agent \ {c.caller} : agents'[b] = agents[b]
      BY <1>3, <2>3, <3>1 DEF Save, TypeOK
    <3>5. UNCHANGED account
      BY <1>3 DEF Save
    <3> QED
      BY <2>1, <3>1, <3>3, <3>4, <3>5, OtherStep
  <2> QED
    BY <2>2, <2>3
<1>4. ASSUME NEW a \in Agent, AgentStep(a) PROVE Goal
  BY <1>4, ProvisionAgentStep
<1>5. ASSUME NEW a \in Agent, Unanswered(a) \/ AgentCrash(a) PROVE Goal
  <2>1. file' = file /\ calls' = Orphaned(a) /\ account' = account
    BY <1>5 DEF Unanswered, AgentCrash
  <2>2. \A d \in calls' : Provisioned(d.content)
    BY <2>1, OrphanedContent DEF TypeOK
  <2>3. agents'[a].step # "success" /\ \A b \in Agent \ {a} : agents'[b] = agents[b]
    <3>1. CASE Unanswered(a)
      <4>1. AfterRefusal(agents[a].step) # "success"
        BY RefusalType
      <4> QED
        BY <3>1, <4>1 DEF Unanswered, TypeOK, AgentState
    <3>2. CASE AgentCrash(a)
      BY <3>2 DEF AgentCrash, TypeOK, AgentState
    <3> QED
      BY <1>5, <3>1, <3>2
  <2> QED
    BY <2>1, <2>2, <2>3, OtherStep DEF Provisioned
<1>6. CASE UNCHANGED lifecycleVars
  BY <1>6 DEF lifecycleVars, history, Provisioned, SuccessIsMember
<1> QED
  BY <1>1, <1>2, <1>3, <1>4, <1>5, <1>6 DEF Next

\* A request shown as completed has its account in its groups
\* (CompletedIsProvisioned): the agent reports a success only after the last of
\* its group changes, and no stale content can show a success that was not.
THEOREM CompletedProvisioned == Spec => []CompletedIsProvisioned
<1>1. ProvisionInv => CompletedIsProvisioned
  BY DEF ProvisionInv, Provisioned, CompletedIsProvisioned
<1> QED
  BY ProvisionInit, ProvisionStep, <1>1, PTL DEF Spec

-----------------------------------------------------------------------------
(***************************************************************************)
(* Serial calls.  As long as no two calls have been in flight at a time, a *)
(* call saves what it would load now, so its guard still holds when it     *)
(* saves, and a pending request has a release no execution has used.       *)
(***************************************************************************)
Current(c) ==
  /\ c.content = Content(c.op, c.request)
  /\ c.op = "claim" => file[c.request].status = "pending"
  /\ c.op = "reject" => Rejectable(c.request)

ReleasesLeft ==
  \A r \in Request :
    /\ executions[r] <= released[r]
    /\ file[r].status = "pending" => executions[r] < released[r]

Serial ==
  /\ \A c, d \in calls : c = d
  /\ \A c \in calls : Current(c)
  /\ ReleasesLeft

SerialInv == TypeOK /\ (~overlapped => Serial)

\* A call that leaves the calls serial found none in flight, and is current.
LEMMA SerialLoad ==
  ASSUME SerialInv, NEW caller \in Agent \cup {NoOne}, NEW op \in Op \cup {"reset"},
         NEW r \in Request, op # "reset" => Allowed(op, r), Load(caller, op, r),
         UNCHANGED <<file, released, executions>>, ~overlapped'
  PROVE  Serial'
<1>1. ~overlapped /\ calls = {}
  BY Zenon DEF Load
<1> PICK c : c = [caller |-> caller, op |-> op, request |-> r, content |-> Content(op, r)]
  OBVIOUS
<1>2. calls' = {c}
  BY <1>1 DEF Load
<1>3. Current(c)'
  BY DEF Current, Allowed, Claimable, Rejectable, Content
<1>4. ReleasesLeft'
  BY <1>1 DEF SerialInv, Serial, ReleasesLeft
<1> QED
  BY <1>2, <1>3, <1>4 DEF Serial

\* What a save does to the releases of its own request, and to no other.
LEMMA SerialSave ==
  ASSUME TypeOK, Serial, NEW c \in calls, Save(c)
  PROVE  Serial'
<1>1. /\ c \in Call /\ c.request \in Request /\ c.op \in Op \cup {"reset"}
      /\ file \in File /\ released \in [Request -> Nat] /\ executions \in [Request -> Nat]
  BY DEF TypeOK, Call, Op
<1>2. Current(c) /\ calls' = {} /\ file' = Content(c.op, c.request)
  BY DEF Serial, Save, Current
<1>3. /\ \A q \in Request \ {c.request} :
           released'[q] = released[q] /\ executions'[q] = executions[q]
      /\ released'[c.request] = IF c.op \in {"approve", "retry"}
                                  THEN released[c.request] + 1 ELSE released[c.request]
      /\ executions'[c.request] \in {executions[c.request], executions[c.request] + 1}
      /\ c.op # "claim" => executions'[c.request] = executions[c.request]
  BY <1>1 DEF Save
<1>4. ReleasesLeft'
  <2> SUFFICES ASSUME NEW q \in Request
               PROVE  /\ executions'[q] <= released'[q]
                      /\ file'[q].status = "pending" => executions'[q] < released'[q]
    BY DEF ReleasesLeft
  <2>0. /\ executions[q] \in Nat /\ released[q] \in Nat /\ executions[q] <= released[q]
        /\ file[q].status = "pending" => executions[q] < released[q]
        /\ file[q] \in Entry
    BY <1>1 DEF Serial, ReleasesLeft, File
  <2>1. CASE q # c.request
    <3>1. file'[q] = IF c.op = "reset" THEN Absent ELSE file[q]
      BY <1>1, <1>2, <2>1, ContentType
    <3> QED
      BY <1>3, <2>0, <2>1, <3>1 DEF Absent
  <2>2. CASE q = c.request /\ c.op \in {"reset", "create"}
    <3>1. file'[q].status # "pending"
      BY <1>1, <1>2, <2>2, ContentType DEF Absent, NewEntry
    <3> QED
      BY <1>3, <2>0, <2>2, <3>1
  <2>3. CASE q = c.request /\ c.op \notin {"reset", "create"}
    <3>1. file'[q] = Updated(c.op, file[q])
      BY <1>1, <1>2, <2>3, ContentType
    <3>2. CASE c.op \in {"approve", "retry"}
      BY <1>3, <2>0, <2>3, <3>2
    <3>3. CASE c.op = "claim"
      <4>1. file[q].status = "pending" /\ file'[q].status = "processing"
        BY <1>2, <2>0, <2>3, <3>1, <3>3 DEF Current, Updated, Entry
      <4> QED
        BY <1>3, <2>0, <2>3, <3>3, <4>1
    <3>4. CASE c.op \in {"reject", "success", "failure"}
      <4>1. file'[q].status # "pending"
        BY <2>0, <3>1, <3>4 DEF Updated, Entry
      <4> QED
        BY <1>3, <2>0, <2>3, <3>4, <4>1
    <3> QED
      BY <1>1, <2>3, <3>2, <3>3, <3>4 DEF Op, AgentOp, OperatorOp
  <2> QED
    BY <2>1, <2>2, <2>3
<1> QED
  BY <1>2, <1>4 DEF Serial

\* A call whose caller has gone is otherwise as it was.
LEMMA OrphanedCurrent ==
  ASSUME calls \subseteq Call, NEW a, NEW d \in Orphaned(a)
  PROVE  \E c \in calls :
           d.op = c.op /\ d.request = c.request /\ d.content = c.content
<1>1. PICK c \in calls : d = [c EXCEPT !.caller = IF @ = a THEN NoOne ELSE @]
  BY DEF Orphaned
<1>2. c \in Call
  OBVIOUS
<1> QED
  BY <1>1, <1>2 DEF Call

LEMMA SerialOrphaned ==
  ASSUME TypeOK, Serial, NEW a \in Agent, calls' = Orphaned(a),
         UNCHANGED <<file, released, executions>>
  PROVE  Serial'
<1>1. \A c, d \in calls' : c = d
  BY DEF Serial, Orphaned
<1>2. ASSUME NEW d \in calls' PROVE Current(d)'
  <2>1. PICK c \in calls : d.op = c.op /\ d.request = c.request /\ d.content = c.content
    BY <1>2, OrphanedCurrent DEF TypeOK
  <2>2. Current(d)
    BY <2>1 DEF Serial, Current
  <2> QED
    BY <2>2 DEF Current, Content, Rejectable
<1> QED
  BY <1>1, <1>2 DEF Serial, ReleasesLeft

LEMMA SerialInit == Init => SerialInv
<1> SUFFICES ASSUME Init PROVE Serial
  BY TypeInit DEF SerialInv
<1>1. \A r \in Request : file[r].status = "absent" /\ executions[r] = 0 /\ released[r] = 0
  BY DEF Init, Absent
<1> QED
  BY <1>1 DEF Init, Serial, ReleasesLeft

LEMMA SerialStep == SerialInv /\ [Next]_lifecycleVars => SerialInv'
<1> SUFFICES ASSUME SerialInv, [Next]_lifecycleVars, ~overlapped'
             PROVE  Serial'
  BY TypeStep DEF SerialInv
<1> USE DEF SerialInv
<1>1. ASSUME NEW op \in OperatorOp, NEW r \in Request, OperatorCall(op, r) PROVE Serial'
  BY <1>1, SerialLoad DEF OperatorCall, Op
<1>2. ASSUME NEW r \in Request, ResetCall(r) PROVE Serial'
  BY <1>2, SerialLoad DEF ResetCall
<1>3. ASSUME NEW c \in calls, Save(c) PROVE Serial'
  BY <1>3, SerialSave DEF Save
<1>4. ASSUME NEW a \in Agent, Unanswered(a) \/ AgentCrash(a) PROVE Serial'
  BY <1>4, SerialOrphaned DEF Unanswered, AgentCrash, history
<1>5. CASE UNCHANGED <<file, calls, released, executions, overlapped>>
  BY <1>5 DEF Serial, Current, Content, Rejectable, ReleasesLeft
<1>6. ASSUME NEW a \in Agent, AgentCall(a) PROVE Serial'
  <2>1. agents[a].step \in Op /\ agents[a].current \in Request
    BY <1>6 DEF AgentCall, TypeOK, AgentState, Op
  <2>2. CASE /\ Allowed(agents[a].step, agents[a].current)
             /\ Load(a, agents[a].step, agents[a].current)
    BY <1>6, <2>1, <2>2, SerialLoad DEF AgentCall
  <2>3. CASE UNCHANGED <<calls, overlapped>>
    BY <1>5, <1>6, <2>3 DEF AgentCall
  <2> QED
    BY <1>6, <2>2, <2>3 DEF AgentCall
<1>7. ASSUME NEW a \in Agent, AgentStep(a) PROVE Serial'
  BY <1>5, <1>6, <1>7
  DEF AgentStep, Poll, TakeNext, CheckLogin, CreateAccount, AddGroups, history
<1> QED
  BY <1>1, <1>2, <1>3, <1>4, <1>5, <1>7 DEF Next, lifecycleVars, history

\* As long as the calls have not overlapped, each execution has an approval or a
\* retry of its own (SerialExecutionsAreReleased), whatever crashes, lost answers
\* and failures there are: only the load and the save of another call between
\* the load and the save of one can spoil it.
THEOREM SerialReleases == Spec => []SerialExecutionsAreReleased
<1>1. SerialInv => SerialExecutionsAreReleased
  BY DEF SerialInv, Serial, ReleasesLeft, SerialExecutionsAreReleased, ExecutionsAreReleased
<1> QED
  BY SerialInit, SerialStep, <1>1, PTL DEF Spec

\* Nor is a rejection then saved over a request an agent has taken.
THEOREM SerialRejects == Spec => SerialRejectSparesProcessing
<1> DEFINE Spares ==
      ~overlapped => \A r \in Request :
        file'[r].status = "rejected" /\ file[r].status # "rejected" =>
          file[r].status \in {"waiting_approval", "pending"}
<1>1. SerialInv /\ [Next]_lifecycleVars => [Spares]_lifecycleVars
  <2> SUFFICES ASSUME SerialInv, [Next]_lifecycleVars, ~overlapped, NEW r \in Request,
                      file'[r].status = "rejected", file[r].status # "rejected"
               PROVE  file[r].status \in {"waiting_approval", "pending"}
    OBVIOUS
  <2>1. PICK c \in calls : Save(c)
    BY DEF Next, OperatorCall, ResetCall, AgentStep, Poll, TakeNext, AgentCall, CheckLogin,
           CreateAccount, AddGroups, Unanswered, AgentCrash, lifecycleVars
  <2>2. Current(c) /\ file' = Content(c.op, c.request)
    BY <2>1 DEF SerialInv, Serial, Current, Save
  <2>3. c.request \in Request /\ c.op \in Op \cup {"reset"} /\ file[r] \in Entry
    BY DEF SerialInv, TypeOK, Call, Op, File
  <2>4. r = c.request /\ c.op \notin {"reset", "create"} /\ file'[r] = Updated(c.op, file[r])
    BY <2>2, <2>3, ContentType DEF SerialInv, TypeOK, Absent, NewEntry
  <2>5. c.op = "reject"
    BY <2>3, <2>4 DEF Updated, Retried, Entry, Op, AgentOp, OperatorOp
  <2> QED
    BY <2>2, <2>4, <2>5 DEF Current, Rejectable
<1> QED
  BY SerialInit, SerialStep, <1>1, PTL DEF Spec, SerialRejectSparesProcessing

\* Calls that come one at a time can rely on both.
THEOREM SerialCalls == Spec => SerialCallsAreHonoured
BY SerialReleases, SerialRejects DEF SerialCallsAreHonoured
=============================================================================
