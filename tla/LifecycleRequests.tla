-------------------------- MODULE LifecycleRequests --------------------------
(***************************************************************************)
(* The employee lifecycle workflow: requests.json, the routes that change  *)
(* it and the Windows agents that carry requests out in Production.        *)
(*                                                                         *)
(* Every route loads the whole file, checks one request and saves the      *)
(* whole file; the storage lock is taken by each load and each save, not   *)
(* around the two.  A call in flight therefore holds the content it is     *)
(* going to save, and what is saved between its load and its save is lost. *)
(***************************************************************************)
EXTENDS Naturals, FiniteSets

CONSTANTS
  Request,    \* onboarding requests, each for a login of its own
  Agent,      \* employee lifecycle agents
  NoOne,      \* the caller of a call nobody waits for
  MaxCalls,   \* calls that may overlap; with 1 they are serialised
  MaxRework,  \* bound: retries and resets
  Fault       \* a subset of {"crash", "unanswered", "directory"}

ASSUME LifecycleAssumption ==
  /\ NoOne \notin Agent
  /\ MaxCalls \in Nat \ {0} /\ MaxRework \in Nat
  /\ Fault \subseteq {"crash", "unanswered", "directory"}

VARIABLES
  file,        \* content of requests.json
  calls,       \* calls between their load and their save
  agents,
  account,     \* the AD account of a request's login
  created,     \* history: requests ever created
  released,    \* history: approvals and retries saved, per request
  executions,  \* history: executions begun, per request
  overlapped,  \* history: two calls have been in flight at a time
  rework       \* retries and resets so far

history == <<created, released, executions, overlapped, rework>>
lifecycleVars == <<file, calls, agents, account, history>>

\* "absent" stands for a request the list does not hold.
Entry == [status: {"absent", "waiting_approval", "pending", "processing",
                   "completed", "failed", "rejected"},
          approved: BOOLEAN,
          result: {"none", "success", "failure"}]

File == [Request -> Entry]

Absent == [status |-> "absent", approved |-> FALSE, result |-> "none"]

AgentOp == {"claim", "success", "failure"}
OperatorOp == {"create", "approve", "reject", "retry"}

Call == [caller: Agent \cup {NoOne}, op: AgentOp \cup OperatorOp \cup {"reset"},
         request: Request, content: File]

AgentState == [step: {"idle", "next", "claim", "check", "create", "groups",
                      "success", "failure"},
               waits: BOOLEAN, queue: SUBSET Request, current: Request]

Account == {"absent", "created", "member"}

Init ==
  /\ file = [r \in Request |-> Absent]
  /\ calls = {}
  /\ agents \in [Agent -> [step: {"idle"}, waits: {FALSE}, queue: {{}}, current: Request]]
  /\ account = [r \in Request |-> "absent"]
  /\ created = {} /\ rework = 0 /\ overlapped = FALSE
  /\ released = [r \in Request |-> 0]
  /\ executions = [r \in Request |-> 0]

-----------------------------------------------------------------------------
(***************************************************************************)
(* The routes: the guard on the loaded request, and the content to save.   *)
(***************************************************************************)
\* Mutant: a request in processing can be claimed again.
ClaimableAgain(r) == file[r].status \in {"pending", "processing"}

Claimable(r) == file[r].status = "pending"

\* Mutant: a request can be rejected until it is completed.
RejectableLate(r) == file[r].status \in {"waiting_approval", "pending", "processing"}

Rejectable(r) == file[r].status \in {"waiting_approval", "pending"}

Allowed(op, r) ==
  IF op = "create" THEN r \notin created
  ELSE /\ file[r].status # "absent"
       /\ op = "approve" => file[r].status = "waiting_approval"
       /\ op = "reject" => Rejectable(r)
       /\ op = "claim" => Claimable(r)

\* Mutant: a retry leaves the former result in the request.
RetriedKeepingResult(e) == [e EXCEPT !.status = "pending"]

Retried(e) == [e EXCEPT !.status = "pending", !.result = "none"]

Updated(op, e) ==
  CASE op = "approve" -> [e EXCEPT !.status = "pending", !.approved = TRUE]
    [] op = "reject"  -> [e EXCEPT !.status = "rejected", !.approved = FALSE]
    [] op = "retry"   -> Retried(e)
    [] op = "claim"   -> [e EXCEPT !.status = "processing"]
    [] op = "success" -> [e EXCEPT !.status = "completed", !.result = "success"]
    [] op = "failure" -> [e EXCEPT !.status = "failed", !.result = "failure"]

\* Mutant: the first status is the one of the AD job files.
NewEntryCreated == [status |-> "created", approved |-> FALSE, result |-> "none"]

NewEntry == [status |-> "waiting_approval", approved |-> FALSE, result |-> "none"]

Content(op, r) ==
  CASE op = "reset"  -> [q \in Request |-> Absent]
    [] op = "create" -> [file EXCEPT ![r] = NewEntry]
    [] OTHER         -> [file EXCEPT ![r] = Updated(op, @)]

Load(caller, op, r) ==
  /\ Cardinality(calls) < MaxCalls
  /\ calls' = calls \cup {[caller |-> caller, op |-> op, request |-> r,
                           content |-> Content(op, r)]}
  /\ overlapped' = (overlapped \/ calls # {})

OperatorCall(op, r) ==
  /\ Allowed(op, r)
  /\ op = "retry" => rework < MaxRework
  /\ Load(NoOne, op, r)
  /\ created' = IF op = "create" THEN created \cup {r} ELSE created
  /\ rework' = IF op = "retry" THEN rework + 1 ELSE rework
  /\ UNCHANGED <<file, agents, account, released, executions>>

ResetCall(r) ==
  /\ rework < MaxRework
  /\ Load(NoOne, "reset", r)
  /\ rework' = rework + 1
  /\ UNCHANGED <<file, agents, account, created, released, executions>>

-----------------------------------------------------------------------------
(***************************************************************************)
(* The agent: one pass over the pending requests, claim, execute, report.  *)
(***************************************************************************)
Move(a, step) == agents' = [agents EXCEPT ![a].step = step]

\* Mutant: only approved requests are listed, not those a retry brought back.
PendingApproved == {r \in Request : file[r].status = "pending" /\ file[r].approved}

Pending == {r \in Request : file[r].status = "pending"}

Poll(a) ==
  /\ agents[a].step = "idle"
  /\ Pending # {}
  /\ agents' = [agents EXCEPT ![a].step = "next", ![a].queue = Pending]
  /\ UNCHANGED <<file, calls, account, history>>

TakeNext(a) ==
  /\ agents[a].step = "next"
  /\ \/ /\ agents[a].queue = {}
        /\ Move(a, "idle")
     \/ \E r \in agents[a].queue :
          agents' = [agents EXCEPT ![a].step = "claim", ![a].current = r,
                                   ![a].queue = @ \ {r}]
  /\ UNCHANGED <<file, calls, account, history>>

\* Mutant: the loop goes on to the next request without a word to the API.
OnErrorSilent == "next"

\* The catch block of the loop reports a failure, whatever raised it.
OnError == "failure"

AfterRefusal(step) == IF step = "failure" THEN "next" ELSE OnError

\* The agent calls claim or result; a refusal (404, 409) is an exception.
AgentCall(a) ==
  LET r == agents[a].current
      op == agents[a].step
  IN
  /\ op \in AgentOp /\ ~agents[a].waits
  /\ \/ /\ Allowed(op, r)
        /\ Load(a, op, r)
        /\ agents' = [agents EXCEPT ![a].waits = TRUE]
     \/ /\ ~Allowed(op, r)
        /\ Move(a, AfterRefusal(op))
        /\ UNCHANGED <<calls, overlapped>>
  /\ UNCHANGED <<file, account, created, released, executions, rework>>

AfterAnswer(op) == IF op = "claim" THEN "check" ELSE "next"

\* The call saves its content, and its caller, if it still waits, goes on.
Save(c) ==
  /\ c \in calls
  /\ file' = c.content
  /\ calls' = calls \ {c}
  /\ released' = IF c.op \in {"approve", "retry"}
       THEN [released EXCEPT ![c.request] = @ + 1] ELSE released
  /\ IF c.caller = NoOne
       THEN UNCHANGED <<agents, executions>>
       ELSE /\ agents' = [agents EXCEPT ![c.caller].step = AfterAnswer(c.op),
                                        ![c.caller].waits = FALSE]
            /\ executions' = IF c.op = "claim"
                 THEN [executions EXCEPT ![c.request] = @ + 1] ELSE executions
  /\ UNCHANGED <<account, created, overlapped, rework>>

\* Invoke-OnboardingProduction: the login must not exist yet, and an error of
\* Get-ADUser is taken for its absence ...
CheckLogin(a) ==
  /\ agents[a].step = "check"
  /\ \/ /\ account[agents[a].current] = "absent" \/ "directory" \in Fault
        /\ Move(a, "create")
     \/ /\ account[agents[a].current] # "absent"
        /\ Move(a, OnError)
  /\ UNCHANGED <<file, calls, account, history>>

\* ... New-ADUser creates it unless it appeared meanwhile; when the directory
\* fails, before or after the account is there ...
CreateAccount(a) ==
  LET r == agents[a].current IN
  /\ agents[a].step = "create"
  /\ \/ /\ account[r] = "absent"
        /\ account' = [account EXCEPT ![r] = "created"]
        /\ Move(a, "groups")
     \/ /\ account[r] # "absent" \/ "directory" \in Fault
        /\ account' \in {account, [account EXCEPT ![r] = IF @ = "absent" THEN "created" ELSE @]}
        /\ Move(a, OnError)
  /\ UNCHANGED <<file, calls, history>>

\* Mutant: an error of Add-ADGroupMember does not stop the handler.
OnGroupErrorGoOn == "success"

OnGroupError == OnError

\* ... and Add-ADGroupMember makes it a member of the groups computed.
AddGroups(a) ==
  /\ agents[a].step = "groups"
  /\ \/ /\ account' = [account EXCEPT ![agents[a].current] = "member"]
        /\ Move(a, "success")
     \/ /\ "directory" \in Fault
        /\ Move(a, OnGroupError)
        /\ UNCHANGED account
  /\ UNCHANGED <<file, calls, history>>

-----------------------------------------------------------------------------
Orphaned(a) == {[c EXCEPT !.caller = IF @ = a THEN NoOne ELSE @] : c \in calls}

\* The agent's request times out; the API still serves the call.
Unanswered(a) ==
  /\ "unanswered" \in Fault
  /\ agents[a].waits
  /\ calls' = Orphaned(a)
  /\ agents' = [agents EXCEPT ![a].waits = FALSE, ![a].step = AfterRefusal(@)]
  /\ UNCHANGED <<file, account, history>>

\* The agent's process ends; the scheduled task starts it again.
AgentCrash(a) ==
  /\ "crash" \in Fault
  /\ agents[a].step # "idle"
  /\ calls' = Orphaned(a)
  /\ agents' = [agents EXCEPT ![a].step = "idle", ![a].waits = FALSE, ![a].queue = {}]
  /\ UNCHANGED <<file, account, history>>

AgentStep(a) ==
  \/ Poll(a)
  \/ TakeNext(a)
  \/ AgentCall(a)
  \/ CheckLogin(a)
  \/ CreateAccount(a)
  \/ AddGroups(a)

Next ==
  \/ \E op \in OperatorOp, r \in Request : OperatorCall(op, r)
  \/ \E r \in Request : ResetCall(r)
  \/ \E c \in calls : Save(c)
  \/ \E a \in Agent : AgentStep(a) \/ Unanswered(a) \/ AgentCrash(a)

Spec == Init /\ [][Next]_lifecycleVars

\* The API threads finish their calls and the scheduled agents run; operators
\* need not act.
FairSpec ==
  /\ Spec
  /\ WF_lifecycleVars(\E c \in calls : Save(c))
  /\ \A a \in Agent : WF_lifecycleVars(AgentStep(a))

-----------------------------------------------------------------------------
(***************************************************************************)
(* Properties.                                                             *)
(***************************************************************************)
\* The file, the calls and the agents have the shapes of their records.
TypeOK ==
  /\ file \in File
  /\ calls \subseteq Call
  /\ agents \in [Agent -> AgentState]
  /\ account \in [Request -> Account]
  /\ created \subseteq Request
  /\ released \in [Request -> Nat]
  /\ executions \in [Request -> Nat]
  /\ overlapped \in BOOLEAN
  /\ rework \in Nat

\* Each execution consumes a release of its own: an approval or a retry lets
\* one agent carry the request out once.
ExecutionsAreReleased == \A r \in Request : executions[r] <= released[r]

\* So it is as long as the calls have not overlapped, whatever crashes, unheard
\* answers and failures there are.
SerialExecutionsAreReleased == ~overlapped => ExecutionsAreReleased

\* Whatever stale content is saved over whatever other, a request shows a
\* result exactly when it is finished, and the one its status names.
ResultMatchesStatus ==
  \A r \in Request :
    /\ file[r].status = "completed" <=> file[r].result = "success"
    /\ file[r].status = "failed" <=> file[r].result = "failure"

\* A request the portal shows as completed has its account in its groups, also
\* after crashes, partial failures, retries and two agents on one request.
CompletedIsProvisioned ==
  \A r \in Request : file[r].status = "completed" => account[r] = "member"

\* As long as the calls have not overlapped, a request leaves for "rejected" only
\* while no agent has it: a rejection is never saved over a request in processing
\* or finished.
SerialRejectSparesProcessing ==
  [][~overlapped => \A r \in Request :
       file'[r].status = "rejected" /\ file[r].status # "rejected" =>
         file[r].status \in {"waiting_approval", "pending"}]_lifecycleVars

\* What serial calls, one at a time, can rely on.
SerialCallsAreHonoured == []SerialExecutionsAreReleased /\ SerialRejectSparesProcessing

\* A pending request does not stay pending: an agent's pass reaches it.
PendingIsTaken == \A r \in Request : file[r].status = "pending" ~> file[r].status # "pending"

\* A claimed request does not stay in processing while its agent lives.
ProcessingEnds == \A r \in Request : file[r].status = "processing" ~> file[r].status # "processing"
=============================================================================
