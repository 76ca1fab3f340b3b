-------------------------------- MODULE AdJobs --------------------------------
(***************************************************************************)
(* A file of Active Directory jobs (lookup, explorer, check or admin) and  *)
(* the workers that carry the jobs out.  As in LifecycleRequests a route   *)
(* loads the whole file and later saves the whole file; but saving to a    *)
(* "-jobs.json" file merges the content with what is stored, job by job,   *)
(* and keeps the state that is further on.                                 *)
(***************************************************************************)
EXTENDS Naturals, FiniteSets

CONSTANTS
  Job,
  Worker,
  NoOne,     \* the caller of a call nobody waits for
  MaxCalls,  \* calls that may overlap; with 1 they are serialised
  SkipsConflict,  \* the workers skip a job whose claim is refused with 409
  Fault      \* a subset of {"crash", "unanswered", "directory"}

ASSUME JobsAssumption ==
  /\ NoOne \notin Worker
  /\ MaxCalls \in Nat \ {0}
  /\ SkipsConflict \in BOOLEAN
  /\ Fault \subseteq {"crash", "unanswered", "directory"}

VARIABLES
  file,       \* content of the jobs file
  calls,      \* calls between their load and their save
  workers,
  now,        \* timestamps taken so far
  created,    \* history: jobs a create call was made for
  stored,     \* history: jobs a create call was saved for
  raced,      \* history: jobs with two claims in flight at a time
  unheard,    \* history: jobs with a call whose answer was not received
  executions  \* history: executions begun, per job

history == <<now, created, stored, raced, unheard, executions>>
jobsVars == <<file, calls, workers, history>>

\* "absent" stands for a job the list does not hold.
Status == {"absent", "pending", "processing", "completed", "failed"}
Entry == [status: Status, at: Nat]
File == [Job -> Entry]

WorkerOp == {"claim", "success", "failure"}

Call == [caller: Worker \cup {NoOne}, op: WorkerOp \cup {"create"}, job: Job, content: File]

WorkerState == [step: {"idle", "next", "execute"} \cup WorkerOp,
                waits: BOOLEAN, queue: SUBSET Job, current: Job]

Init ==
  /\ file = [j \in Job |-> [status |-> "absent", at |-> 0]]
  /\ calls = {}
  /\ workers \in [Worker -> [step: {"idle"}, waits: {FALSE}, queue: {{}}, current: Job]]
  /\ now = 0 /\ created = {} /\ stored = {} /\ raced = {} /\ unheard = {}
  /\ executions = [j \in Job |-> 0]

-----------------------------------------------------------------------------
(***************************************************************************)
(* save_json: a job that is in one of the lists only stays; of two states  *)
(* of a job the one of higher rank stays, and of two states of the same    *)
(* rank the incoming one unless its timestamp is earlier.                  *)
(***************************************************************************)
Rank(status) ==
  CASE status = "absent" -> 0
    [] status = "pending" -> 1
    [] status = "processing" -> 2
    [] OTHER -> 3

\* Mutant: of two states of a job the incoming one stays.
IncomingJob(existing, incoming) ==
  IF incoming.status # "absent" THEN incoming ELSE existing

NewerJob(existing, incoming) ==
  IF \/ Rank(incoming.status) > Rank(existing.status)
     \/ /\ Rank(incoming.status) = Rank(existing.status)
        /\ incoming.at >= existing.at
    THEN incoming
    ELSE existing

\* Mutant: the content is saved as it was loaded, as for the other files.
Overwritten(existing, incoming) == incoming

Merged(existing, incoming) == [j \in Job |-> NewerJob(existing[j], incoming[j])]

-----------------------------------------------------------------------------
(***************************************************************************)
(* The routes.                                                             *)
(***************************************************************************)
\* Mutant: a job in processing can be claimed again.
ClaimableAgain(j) == file[j].status \in {"pending", "processing"}

Claimable(j) == file[j].status = "pending"

\* A result is accepted in whatever state the job is.
Allowed(op, j) == file[j].status # "absent" /\ (op = "claim" => Claimable(j))

\* Mutant: a failure has the status the workers use in their logs.
StatusAfterError(op) ==
  CASE op = "create" -> "pending"
    [] op = "claim" -> "processing"
    [] op = "success" -> "completed"
    [] op = "failure" -> "error"

StatusAfter(op) ==
  CASE op = "create" -> "pending"
    [] op = "claim" -> "processing"
    [] op = "success" -> "completed"
    [] op = "failure" -> "failed"

Content(op, j) ==
  [file EXCEPT ![j] = [status |-> StatusAfter(op), at |-> now]]

ClaimsInFlight(j) == {c \in calls : c.op = "claim" /\ c.job = j}

Load(caller, op, j) ==
  /\ Cardinality(calls) < MaxCalls
  /\ calls' = calls \cup {[caller |-> caller, op |-> op, job |-> j, content |-> Content(op, j)]}
  /\ now' = now + 1
  /\ raced' = IF op = "claim" /\ ClaimsInFlight(j) # {} THEN raced \cup {j} ELSE raced

CreateJob(j) ==
  /\ j \notin created
  /\ Load(NoOne, "create", j)
  /\ created' = created \cup {j}
  /\ UNCHANGED <<file, workers, stored, unheard, executions>>

-----------------------------------------------------------------------------
(***************************************************************************)
(* The worker: one pass over the pending jobs, claim, execute, report.     *)
(***************************************************************************)
Move(w, step) == workers' = [workers EXCEPT ![w].step = step]

Pending == {j \in Job : file[j].status = "pending"}

Poll(w) ==
  /\ workers[w].step = "idle"
  /\ Pending # {}
  /\ workers' = [workers EXCEPT ![w].step = "next", ![w].queue = Pending]
  /\ UNCHANGED <<file, calls, history>>

TakeNext(w) ==
  /\ workers[w].step = "next"
  /\ \/ /\ workers[w].queue = {}
        /\ Move(w, "idle")
     \/ \E j \in workers[w].queue :
          workers' = [workers EXCEPT ![w].step = "claim", ![w].current = j,
                                     ![w].queue = @ \ {j}]
  /\ UNCHANGED <<file, calls, history>>

\* Mutant: an exception is logged and the worker goes on.
OnErrorGoesOn(op) == "next"

\* An exception is reported as a failure, except by the report of a failure.
OnError(op) == IF op = "failure" THEN "next" ELSE "failure"

\* Mutant: the conflict is not told from the other errors.
AfterRefusalError(op) == OnError(op)

\* The lookup, explorer and admin workers leave alone a job that another worker
\* has claimed; for the check worker the conflict is an error as any other.
AfterRefusal(op) ==
  IF op = "claim" /\ SkipsConflict THEN "next" ELSE OnError(op)

\* The worker calls claim or result.
WorkerCall(w) ==
  LET j == workers[w].current
      op == workers[w].step
  IN
  /\ op \in WorkerOp /\ ~workers[w].waits
  /\ \/ /\ Allowed(op, j)
        /\ Load(w, op, j)
        /\ workers' = [workers EXCEPT ![w].waits = TRUE]
     \/ /\ ~Allowed(op, j)
        /\ Move(w, AfterRefusal(op))
        /\ UNCHANGED <<calls, now, raced>>
  /\ UNCHANGED <<file, created, stored, unheard, executions>>

AfterAnswer(op) == IF op = "claim" THEN "execute" ELSE "next"

\* The call saves its content, and its caller, if it still waits, goes on.
Save(c) ==
  /\ c \in calls
  /\ file' = Merged(file, c.content)
  /\ calls' = calls \ {c}
  /\ stored' = IF c.op = "create" THEN stored \cup {c.job} ELSE stored
  /\ workers' = IF c.caller = NoOne THEN workers
       ELSE [workers EXCEPT ![c.caller].step = AfterAnswer(c.op), ![c.caller].waits = FALSE]
  /\ UNCHANGED <<now, created, raced, unheard, executions>>

Execute(w) ==
  /\ workers[w].step = "execute"
  /\ executions' = [executions EXCEPT ![workers[w].current] = @ + 1]
  /\ \/ Move(w, "success")
     \/ "directory" \in Fault /\ Move(w, OnError("execute"))
  /\ UNCHANGED <<file, calls, now, created, stored, raced, unheard>>

-----------------------------------------------------------------------------
Orphaned(w) == {[c EXCEPT !.caller = IF @ = w THEN NoOne ELSE @] : c \in calls}

\* The worker's request times out; the API still serves the call.
Unanswered(w) ==
  /\ "unanswered" \in Fault
  /\ workers[w].waits
  /\ calls' = Orphaned(w)
  /\ workers' = [workers EXCEPT ![w].waits = FALSE, ![w].step = OnError(@)]
  /\ unheard' = unheard \cup {workers[w].current}
  /\ UNCHANGED <<file, now, created, stored, raced, executions>>

WorkerCrash(w) ==
  /\ "crash" \in Fault
  /\ workers[w].step # "idle"
  /\ calls' = Orphaned(w)
  /\ workers' = [workers EXCEPT ![w].step = "idle", ![w].waits = FALSE, ![w].queue = {}]
  /\ UNCHANGED <<file, history>>

WorkerStep(w) == Poll(w) \/ TakeNext(w) \/ WorkerCall(w) \/ Execute(w)

Next ==
  \/ \E j \in Job : CreateJob(j)
  \/ \E c \in calls : Save(c)
  \/ \E w \in Worker : WorkerStep(w) \/ Unanswered(w) \/ WorkerCrash(w)

Spec == Init /\ [][Next]_jobsVars

\* The API threads finish their calls and the worker loops run on.
FairSpec ==
  /\ Spec
  /\ WF_jobsVars(\E c \in calls : Save(c))
  /\ \A w \in Worker : WF_jobsVars(WorkerStep(w))

-----------------------------------------------------------------------------
(***************************************************************************)
(* Properties.                                                             *)
(***************************************************************************)
\* The file, the calls and the workers have the shapes of their records.
TypeOK ==
  /\ file \in File
  /\ calls \subseteq Call
  /\ workers \in [Worker -> WorkerState]
  /\ now \in Nat
  /\ created \subseteq Job
  /\ stored \subseteq Job
  /\ raced \subseteq Job
  /\ unheard \subseteq Job
  /\ executions \in [Job -> Nat]

\* A job whose creation was answered is never lost, whatever content of before
\* its creation is saved after it.
NoJobLost == \A j \in stored : file[j].status # "absent"

\* Saving stale content never takes a job back: its rank never falls, and
\* within a rank its timestamp never does.
JobsAdvance ==
  [][\A j \in Job :
       \/ Rank(file'[j].status) > Rank(file[j].status)
       \/ /\ Rank(file'[j].status) = Rank(file[j].status)
          /\ file'[j].at >= file[j].at]_jobsVars

\* A job is carried out at most once, unless two claims of it were in flight at a
\* time: there is no way back to pending, and no other overlap undoes a claim.
ExecutedOnce == \A j \in Job \ raced : executions[j] <= 1

\* Where workers skip a conflict, a job that failed was carried out, unless an
\* answer about it was lost: the worker that lost the race for a job does not
\* report the failure of a job that another one is carrying out.
FailedWasExecuted ==
  SkipsConflict => \A j \in Job \ unheard : file[j].status = "failed" => executions[j] > 0

\* A job in processing ends, also when calls overlap: no stale content brings
\* it back to processing once its worker has reported.
JobEnds == \A j \in Job : file[j].status = "processing" ~> [](file[j].status # "processing")
=============================================================================
