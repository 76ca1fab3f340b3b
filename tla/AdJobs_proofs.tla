---------------------------- MODULE AdJobs_proofs ----------------------------
(***************************************************************************)
(* Theorems about a file of jobs, for any jobs and workers, any number of  *)
(* overlapping calls and any faults.                                       *)
(***************************************************************************)
EXTENDS AdJobs, TLAPS

LEMMA ContentType ==
  ASSUME file \in File, now \in Nat, NEW op \in WorkerOp \cup {"create"}, NEW j \in Job
  PROVE  /\ Content(op, j) \in File
         /\ Content(op, j)[j].status = StatusAfter(op)
         /\ StatusAfter(op) \in Status \ {"absent"}
         /\ \A k \in Job \ {j} : Content(op, j)[k] = file[k]
BY DEF Content, File, Entry, Status, StatusAfter, WorkerOp

LEMMA MergedType ==
  ASSUME NEW f \in File, NEW g \in File
  PROVE  Merged(f, g) \in File
BY DEF Merged, NewerJob, File, Entry

\* Merging takes no job back: neither of the two states it picks from is ahead
\* of the one it picks.
LEMMA MergedAhead ==
  ASSUME NEW f \in File, NEW g \in File, NEW j \in Job
  PROVE  LET m == Merged(f, g)[j] IN
         /\ m \in {f[j], g[j]}
         /\ \/ Rank(m.status) > Rank(f[j].status)
            \/ Rank(m.status) = Rank(f[j].status) /\ m.at >= f[j].at
         /\ Rank(m.status) >= Rank(g[j].status)
         /\ f[j].status # "absent" \/ g[j].status # "absent" => m.status # "absent"
<1>1. f[j] \in Entry /\ g[j] \in Entry
  BY DEF File
<1>2. Merged(f, g)[j] = NewerJob(f[j], g[j])
  BY DEF Merged
<1>3. \A s \in Status : Rank(s) \in Nat /\ (Rank(s) = 0 <=> s = "absent")
  BY DEF Rank, Status
<1>4. f[j].status \in Status /\ g[j].status \in Status /\ f[j].at \in Nat /\ g[j].at \in Nat
  BY <1>1 DEF Entry
<1>5. CASE NewerJob(f[j], g[j]) = f[j]
  BY <1>2, <1>3, <1>4, <1>5 DEF NewerJob
<1>6. CASE NewerJob(f[j], g[j]) = g[j]
  BY <1>2, <1>3, <1>4, <1>6 DEF NewerJob
<1> QED
  BY <1>5, <1>6 DEF NewerJob

-----------------------------------------------------------------------------
(***************************************************************************)
(* Types.                                                                  *)
(***************************************************************************)
LEMMA MoveType ==
  ASSUME workers \in [Worker -> WorkerState], NEW w \in Worker,
         NEW step \in {"idle", "next", "execute"} \cup WorkerOp, Move(w, step)
  PROVE  workers' \in [Worker -> WorkerState]
BY DEF Move, WorkerState

LEMMA AnsweredType ==
  ASSUME NEW s \in WorkerState, NEW op
  PROVE  [s EXCEPT !.step = AfterAnswer(op), !.waits = FALSE] \in WorkerState
<1>1. AfterAnswer(op) \in {"execute", "next"}
  BY DEF AfterAnswer
<1> HIDE DEF AfterAnswer
<1> QED
  BY <1>1 DEF WorkerState

LEMMA LoadType ==
  ASSUME TypeOK, NEW caller \in Worker \cup {NoOne},
         NEW op \in WorkerOp \cup {"create"}, NEW j \in Job, Load(caller, op, j)
  PROVE  calls' \subseteq Call /\ now' \in Nat /\ raced' \subseteq Job
BY ContentType DEF TypeOK, Load, Call

LEMMA OnErrorType ==
  ASSUME NEW op
  PROVE  OnError(op) \in {"next", "failure"} /\ AfterRefusal(op) \in {"next", "failure"}
BY DEF OnError, AfterRefusal

LEMMA OrphanedType ==
  ASSUME calls \subseteq Call, NEW w \in Worker
  PROVE  Orphaned(w) \subseteq Call
BY DEF Orphaned, Call

LEMMA TypeInit == Init => TypeOK
<1> SUFFICES ASSUME Init PROVE TypeOK
  OBVIOUS
<1>1. file \in File
  BY DEF Init, File, Entry, Status
<1>2. workers \in [Worker -> WorkerState]
  BY DEF Init, WorkerState
<1> QED
  BY <1>1, <1>2 DEF Init, TypeOK

LEMMA TypeStep == TypeOK /\ [Next]_jobsVars => TypeOK'
<1> SUFFICES ASSUME TypeOK, [Next]_jobsVars PROVE TypeOK'
  OBVIOUS
<1>1. ASSUME NEW j \in Job, CreateJob(j) PROVE TypeOK'
  <2>1. calls' \subseteq Call /\ now' \in Nat /\ raced' \subseteq Job
    BY <1>1, LoadType DEF CreateJob
  <2> QED
    BY <1>1, <2>1 DEF CreateJob, TypeOK
<1>2. ASSUME NEW c \in calls, Save(c) PROVE TypeOK'
  <2>1. c \in Call
    BY DEF TypeOK
  <2>2. file' \in File
    BY <1>2, <2>1, MergedType DEF Save, TypeOK, Call
  <2>3. workers' \in [Worker -> WorkerState]
    <3>1. CASE c.caller = NoOne
      BY <1>2, <3>1 DEF Save, TypeOK
    <3>2. CASE c.caller # NoOne
      <4>1. c.caller \in Worker /\ workers[c.caller] \in WorkerState
        BY <2>1, <3>2 DEF Call, TypeOK
      <4>2. [workers[c.caller] EXCEPT !.step = AfterAnswer(c.op), !.waits = FALSE]
              \in WorkerState
        BY <4>1, AnsweredType
      <4> QED
        BY <1>2, <3>2, <4>1, <4>2 DEF Save, TypeOK
    <3> QED
      BY <3>1, <3>2
  <2>4. calls' \subseteq Call /\ stored' \subseteq Job
    BY <1>2, <2>1 DEF Save, TypeOK, Call
  <2> QED
    BY <1>2, <2>2, <2>3, <2>4 DEF Save, TypeOK
<1>3. ASSUME NEW w \in Worker, WorkerStep(w) PROVE TypeOK'
  <2>1. CASE Poll(w)
    BY <2>1 DEF Poll, TypeOK, WorkerState, Pending, history
  <2>2. CASE TakeNext(w)
    <3>1. workers' \in [Worker -> WorkerState]
      <4>1. CASE Move(w, "idle")
        BY <4>1, MoveType DEF TypeOK
      <4>2. ASSUME NEW j \in workers[w].queue,
                   workers' = [workers EXCEPT ![w].step = "claim", ![w].current = j,
                                              ![w].queue = @ \ {j}]
            PROVE  workers' \in [Worker -> WorkerState]
        <5>1. workers[w] \in WorkerState /\ j \in Job
          BY <4>2 DEF TypeOK, WorkerState
        <5>2. [workers[w] EXCEPT !.step = "claim", !.current = j, !.queue = @ \ {j}]
                \in WorkerState
          BY <5>1 DEF WorkerState, WorkerOp
        <5> QED
          BY <4>2, <5>2 DEF TypeOK
      <4> QED
        BY <2>2, <4>1, <4>2 DEF TakeNext
    <3> QED
      BY <2>2, <3>1 DEF TakeNext, TypeOK, history
  <2>3. CASE WorkerCall(w)
    <3> DEFINE j == workers[w].current
               op == workers[w].step
    <3>1. j \in Job /\ op \in WorkerOp
      BY <2>3 DEF WorkerCall, TypeOK, WorkerState
    <3>2. workers' \in [Worker -> WorkerState]
      <4>1. CASE workers' = [workers EXCEPT ![w].waits = TRUE]
        BY <4>1 DEF TypeOK, WorkerState
      <4>2. CASE Move(w, AfterRefusal(op))
        BY <4>2, OnErrorType, MoveType DEF TypeOK, WorkerOp
      <4> QED
        BY <2>3, <4>1, <4>2 DEF WorkerCall
    <3>3. calls' \subseteq Call /\ now' \in Nat /\ raced' \subseteq Job
      <4>1. CASE Load(w, op, j)
        BY <3>1, <4>1, LoadType
      <4>2. CASE UNCHANGED <<calls, now, raced>>
        BY <4>2 DEF TypeOK
      <4> QED
        BY <2>3, <4>1, <4>2 DEF WorkerCall
    <3> QED
      BY <2>3, <3>2, <3>3 DEF WorkerCall, TypeOK
  <2>4. CASE Execute(w)
    <3>1. workers' \in [Worker -> WorkerState]
      BY <2>4, OnErrorType, MoveType DEF Execute, TypeOK, WorkerOp
    <3>2. executions' \in [Job -> Nat]
      BY <2>4 DEF Execute, TypeOK, WorkerState
    <3> QED
      BY <2>4, <3>1, <3>2 DEF Execute, TypeOK
  <2> QED
    BY <1>3, <2>1, <2>2, <2>3, <2>4 DEF WorkerStep
<1>4. ASSUME NEW w \in Worker, Unanswered(w) PROVE TypeOK'
  BY <1>4, OrphanedType, OnErrorType DEF Unanswered, TypeOK, WorkerState, WorkerOp, history
<1>5. ASSUME NEW w \in Worker, WorkerCrash(w) PROVE TypeOK'
  BY <1>5, OrphanedType DEF WorkerCrash, TypeOK, WorkerState, history
<1>6. CASE UNCHANGED jobsVars
  BY <1>6 DEF TypeOK, jobsVars, history
<1> QED
  BY <1>1, <1>2, <1>3, <1>4, <1>5, <1>6 DEF Next

\* The types hold in every reachable state: the file, the calls that save it,
\* the workers and the history (TypeOK).
THEOREM TypeInvariant == Spec => []TypeOK
BY TypeInit, TypeStep, PTL DEF Spec

-----------------------------------------------------------------------------
(***************************************************************************)
(* No job is lost and none goes back.  The content of a create call holds  *)
(* its own job, and merging drops no job of either side: what any other    *)
(* call loaded before does not matter.                                     *)
(***************************************************************************)
CreatesHoldTheirJob ==
  \A c \in calls : c.op = "create" => c.content[c.job].status # "absent"

LossInv == TypeOK /\ CreatesHoldTheirJob /\ NoJobLost

\* A step other than Save and the calls leaves the file alone, and takes no call
\* but to let its caller go.
LEMMA LoadHolds ==
  ASSUME TypeOK, CreatesHoldTheirJob, NEW caller,
         NEW op \in WorkerOp \cup {"create"}, NEW j \in Job, Load(caller, op, j)
  PROVE  CreatesHoldTheirJob'
BY ContentType DEF TypeOK, CreatesHoldTheirJob, Load

LEMMA OrphanedHolds ==
  ASSUME calls \subseteq Call, CreatesHoldTheirJob, NEW w, calls' = Orphaned(w)
  PROVE  CreatesHoldTheirJob'
<1> SUFFICES ASSUME NEW d \in calls', d.op = "create"
             PROVE  d.content[d.job].status # "absent"
  BY DEF CreatesHoldTheirJob
<1>1. PICK c \in calls : d = [c EXCEPT !.caller = IF @ = w THEN NoOne ELSE @]
  BY DEF Orphaned
<1>2. c \in Call
  OBVIOUS
<1>3. d.op = c.op /\ d.job = c.job /\ d.content = c.content
  BY <1>1, <1>2 DEF Call
<1> QED
  BY <1>3 DEF CreatesHoldTheirJob

LEMMA LossStep == LossInv /\ [Next]_jobsVars => LossInv'
<1> SUFFICES ASSUME LossInv, [Next]_jobsVars
             PROVE  CreatesHoldTheirJob' /\ NoJobLost'
  BY TypeStep DEF LossInv
<1> USE DEF LossInv
<1>1. ASSUME NEW j \in Job, CreateJob(j) PROVE CreatesHoldTheirJob' /\ NoJobLost'
  BY <1>1, LoadHolds DEF CreateJob, NoJobLost
<1>2. ASSUME NEW c \in calls, Save(c) PROVE CreatesHoldTheirJob' /\ NoJobLost'
  <2>1. c \in Call /\ c.content \in File /\ c.job \in Job
    BY DEF TypeOK, Call
  <2>2. ASSUME NEW j \in stored' PROVE file'[j].status # "absent"
    <3>1. j \in Job
      BY <1>2, <2>1 DEF Save, TypeOK
    <3>2. file[j].status # "absent" \/ c.content[j].status # "absent"
      BY <1>2 DEF Save, NoJobLost, CreatesHoldTheirJob
    <3> QED
      BY <1>2, <2>1, <3>1, <3>2, MergedAhead DEF Save, TypeOK
  <2> QED
    BY <1>2, <2>2 DEF Save, NoJobLost, CreatesHoldTheirJob
<1>3. ASSUME NEW w \in Worker, WorkerStep(w) PROVE CreatesHoldTheirJob' /\ NoJobLost'
  <2>1. UNCHANGED <<file, stored>>
    BY <1>3 DEF WorkerStep, Poll, TakeNext, WorkerCall, Execute, history
  <2>2. CreatesHoldTheirJob'
    <3>1. CASE WorkerCall(w)
      <4>1. workers[w].current \in Job /\ workers[w].step \in WorkerOp
        BY <3>1 DEF WorkerCall, TypeOK, WorkerState
      <4> QED
        BY <3>1, <4>1, LoadHolds DEF WorkerCall, CreatesHoldTheirJob
    <3>2. CASE UNCHANGED calls
      BY <3>2 DEF CreatesHoldTheirJob
    <3> QED
      BY <1>3, <3>1, <3>2 DEF WorkerStep, Poll, TakeNext, Execute
  <2> QED
    BY <2>1, <2>2 DEF NoJobLost
<1>4. ASSUME NEW w \in Worker, Unanswered(w) \/ WorkerCrash(w)
      PROVE  CreatesHoldTheirJob' /\ NoJobLost'
  BY <1>4, OrphanedHolds DEF Unanswered, WorkerCrash, TypeOK, NoJobLost, history
<1>5. CASE UNCHANGED jobsVars
  BY <1>5 DEF jobsVars, history, NoJobLost, CreatesHoldTheirJob
<1> QED
  BY <1>1, <1>2, <1>3, <1>4, <1>5 DEF Next

LEMMA LossInit == Init => LossInv
BY TypeInit DEF Init, LossInv, CreatesHoldTheirJob, NoJobLost

\* A job whose creation was answered is never lost (NoJobLost), whatever calls
\* overlap: save_json merges what it stores with what it is given.
THEOREM NoLoss == Spec => []NoJobLost
<1>1. LossInv => NoJobLost
  BY DEF LossInv
<1> QED
  BY LossInit, LossStep, <1>1, PTL DEF Spec

LEMMA AheadStep ==
  TypeOK /\ [Next]_jobsVars =>
    [\A j \in Job :
       \/ Rank(file'[j].status) > Rank(file[j].status)
       \/ /\ Rank(file'[j].status) = Rank(file[j].status)
          /\ file'[j].at >= file[j].at]_jobsVars
<1> SUFFICES ASSUME TypeOK, Next, NEW j \in Job
             PROVE  \/ Rank(file'[j].status) > Rank(file[j].status)
                    \/ /\ Rank(file'[j].status) = Rank(file[j].status)
                       /\ file'[j].at >= file[j].at
  BY DEF jobsVars
<1>1. CASE file' = file
  BY <1>1 DEF TypeOK, File, Entry
<1>2. ASSUME NEW c \in calls, Save(c)
      PROVE  \/ Rank(file'[j].status) > Rank(file[j].status)
             \/ /\ Rank(file'[j].status) = Rank(file[j].status)
                /\ file'[j].at >= file[j].at
  BY <1>2, MergedAhead DEF Save, TypeOK, Call
<1> QED
  BY <1>1, <1>2 DEF Next, CreateJob, WorkerStep, Poll, TakeNext, WorkerCall, Execute,
                    Unanswered, WorkerCrash, history

\* No step takes a job back to an earlier status or an earlier change of the
\* same status (JobsAdvance): stale content never wins over the stored state.
THEOREM Advance == Spec => JobsAdvance
BY TypeInvariant, AheadStep, PTL DEF Spec, JobsAdvance

-----------------------------------------------------------------------------
(***************************************************************************)
(* Failures.  Content that shows a failure is of a job that was begun, or  *)
(* of which an answer was lost, and so is the job a worker is about to     *)
(* report.                                                                 *)
(***************************************************************************)
Begun(j) == executions[j] > 0 \/ j \in unheard

FailedInFile == \A j \in Job : file[j].status = "failed" => Begun(j)

FailedInCalls ==
  \A c \in calls : \A j \in Job : c.content[j].status = "failed" => Begun(j)

ReportsAreBegun ==
  \A w \in Worker : workers[w].step \in {"success", "failure"} => Begun(workers[w].current)

FailureInv == TypeOK /\ FailedInFile /\ FailedInCalls /\ ReportsAreBegun

LEMMA FailureInit == Init => FailureInv
<1> SUFFICES ASSUME Init PROVE FailedInFile /\ FailedInCalls /\ ReportsAreBegun
  BY TypeInit DEF FailureInv
<1>1. \A w \in Worker : workers[w].step = "idle"
  BY DEF Init
<1> QED
  BY <1>1 DEF Init, FailedInFile, FailedInCalls, ReportsAreBegun

\* What a call loads shows the failures of the file, and its own.
LEMMA LoadBegun ==
  ASSUME FailureInv, NEW caller, NEW op \in WorkerOp \cup {"create"}, NEW j \in Job,
         Load(caller, op, j), op = "failure" => Begun(j), UNCHANGED <<executions, unheard>>
  PROVE  FailedInCalls'
<1> DEFINE new == [caller |-> caller, op |-> op, job |-> j, content |-> Content(op, j)]
<1> SUFFICES ASSUME NEW c \in calls', NEW k \in Job, c.content[k].status = "failed"
             PROVE  Begun(k)
  BY DEF FailedInCalls, Begun
<1>1. CASE c \in calls
  BY <1>1 DEF FailureInv, FailedInCalls
<1>2. CASE c = new
  <2>1. c.content = Content(op, j)
    BY <1>2
  <2>2. CASE k = j
    <3>1. op = "failure"
      BY <2>1, <2>2, ContentType DEF FailureInv, TypeOK, StatusAfter, WorkerOp
    <3> QED
      BY <3>1, <2>2
  <2>3. CASE k # j
    BY <2>1, <2>3, ContentType DEF FailureInv, TypeOK, FailedInFile
  <2> QED
    BY <2>2, <2>3
<1> QED
  BY <1>1, <1>2 DEF Load

LEMMA FailureStep ==
  ASSUME SkipsConflict, FailureInv, [Next]_jobsVars
  PROVE  FailureInv'
<1> USE DEF FailureInv
<1> SUFFICES FailedInFile' /\ FailedInCalls' /\ ReportsAreBegun'
  BY TypeStep
<1>1. ASSUME NEW j \in Job, CreateJob(j)
      PROVE  FailedInFile' /\ FailedInCalls' /\ ReportsAreBegun'
  <2>1. FailedInCalls'
    BY <1>1, LoadBegun DEF CreateJob
  <2> QED
    BY <1>1, <2>1 DEF CreateJob, FailedInFile, ReportsAreBegun, Begun
<1>2. ASSUME NEW c \in calls, Save(c)
      PROVE  FailedInFile' /\ FailedInCalls' /\ ReportsAreBegun'
  <2>1. c \in Call /\ c.content \in File
    BY DEF TypeOK, Call
  <2>2. FailedInFile'
    BY <1>2, <2>1, MergedAhead DEF Save, TypeOK, FailedInFile, FailedInCalls, Begun
  <2>3. FailedInCalls'
    BY <1>2 DEF Save, FailedInCalls, Begun
  <2>4. ASSUME NEW w \in Worker, workers'[w].step \in {"success", "failure"}
        PROVE  workers'[w] = workers[w]
    <3>1. CASE c.caller = NoOne \/ w # c.caller
      BY <1>2, <3>1 DEF Save, TypeOK
    <3>2. CASE c.caller # NoOne /\ w = c.caller
      <4>1. workers'[w] = [workers[w] EXCEPT !.step = AfterAnswer(c.op), !.waits = FALSE]
        BY <1>2, <3>2 DEF Save, TypeOK
      <4>2. workers'[w].step = AfterAnswer(c.op)
        BY <4>1 DEF TypeOK, WorkerState
      <4> QED
        BY <2>4, <4>2 DEF AfterAnswer
    <3> QED
      BY <3>1, <3>2
  <2>5. ReportsAreBegun'
    <3>1. UNCHANGED <<executions, unheard>>
      BY <1>2 DEF Save
    <3> SUFFICES ASSUME NEW w \in Worker, workers'[w].step \in {"success", "failure"}
                 PROVE  Begun(workers[w].current)'
      BY DEF ReportsAreBegun
    <3>2. workers'[w] = workers[w]
      BY <2>4
    <3>3. Begun(workers[w].current)
      BY <3>2 DEF ReportsAreBegun
    <3> QED
      BY <3>1, <3>2, <3>3 DEF Begun
  <2> QED
    BY <2>2, <2>3, <2>5
<1>3. ASSUME NEW w \in Worker, WorkerStep(w)
      PROVE  FailedInFile' /\ FailedInCalls' /\ ReportsAreBegun'
  <2> USE DEF TypeOK
  <2>1. workers[w] \in WorkerState /\ workers[w].current \in Job
    BY DEF WorkerState
  <2>2. CASE Poll(w)
    BY <2>2 DEF Poll, FailedInFile, FailedInCalls, ReportsAreBegun, Begun, history, WorkerState
  <2>3. CASE TakeNext(w)
    <3>1. workers'[w].step \in {"idle", "claim"}
      <4>1. CASE Move(w, "idle")
        BY <2>1, <4>1 DEF Move, WorkerState
      <4>2. ASSUME NEW j \in workers[w].queue,
                   workers' = [workers EXCEPT ![w].step = "claim", ![w].current = j,
                                              ![w].queue = @ \ {j}]
            PROVE  workers'[w].step = "claim"
        BY <2>1, <4>2 DEF WorkerState
      <4> QED
        BY <2>3, <4>1, <4>2 DEF TakeNext
    <3>2. \A v \in Worker \ {w} : workers'[v] = workers[v]
      BY <2>3 DEF TakeNext, Move
    <3>3. ReportsAreBegun'
      BY <2>3, <3>1, <3>2 DEF TakeNext, history, ReportsAreBegun, Begun
    <3> QED
      BY <2>3, <3>3 DEF TakeNext, history, FailedInFile, FailedInCalls, Begun
  <2>4. CASE WorkerCall(w)
    <3> DEFINE op == workers[w].step
               j == workers[w].current
    <3>1. op \in WorkerOp /\ (op = "failure" => Begun(j)) /\ UNCHANGED <<executions, unheard>>
      BY <2>4 DEF WorkerCall, ReportsAreBegun
    <3>2. FailedInCalls'
      BY <2>1, <2>4, <3>1, LoadBegun DEF WorkerCall, FailedInCalls, Begun
    <3>3. ReportsAreBegun'
      <4>1. CASE workers' = [workers EXCEPT ![w].waits = TRUE]
        BY <2>4, <4>1 DEF WorkerCall, ReportsAreBegun, Begun, WorkerState
      <4>2. CASE Move(w, AfterRefusal(op))
        <5>1. AfterRefusal(op) \in {"next", "failure"}
          BY OnErrorType
        <5>2. AfterRefusal(op) = "failure" => op = "success"
          BY <3>1 DEF AfterRefusal, OnError, WorkerOp
        <5> HIDE DEF op
        <5>3. workers'[w].step = AfterRefusal(op) /\ workers'[w].current = j
          BY <2>1, <4>2 DEF Move, WorkerState
        <5>4. \A v \in Worker \ {w} : workers'[v] = workers[v]
          BY <4>2 DEF Move
        <5>5. op = "success" => Begun(j)
          BY DEF op, ReportsAreBegun
        <5> QED
          BY <3>1, <5>1, <5>2, <5>3, <5>4, <5>5 DEF ReportsAreBegun, Begun
      <4> QED
        BY <2>4, <4>1, <4>2 DEF WorkerCall
    <3> QED
      BY <2>4, <3>2, <3>3 DEF WorkerCall, FailedInFile, Begun
  <2>5. CASE Execute(w)
    <3>1. executions'[workers[w].current] > 0 /\ \A j \in Job : Begun(j) => Begun(j)'
      <4> DEFINE j == workers[w].current
      <4>1. j \in Job
        BY <2>1
      <4>2. executions' = [executions EXCEPT ![j] = @ + 1]
        BY <2>5 DEF Execute
      <4> HIDE DEF j
      <4>3. executions'[j] > 0 /\ \A k \in Job : executions[k] > 0 => executions'[k] > 0
        BY <4>1, <4>2
      <4> QED
        BY <2>5, <4>3 DEF Execute, Begun, j
    <3>2. workers'[w].current = workers[w].current
      BY <2>1, <2>5 DEF Execute, Move, WorkerState
    <3>3. \A v \in Worker \ {w} : workers'[v] = workers[v]
      BY <2>5 DEF Execute, Move
    <3>4. ReportsAreBegun'
      BY <3>1, <3>2, <3>3 DEF ReportsAreBegun, Begun, WorkerState
    <3> QED
      BY <2>5, <3>1, <3>4 DEF Execute, FailedInFile, FailedInCalls, Call, File
  <2> QED
    BY <1>3, <2>2, <2>3, <2>4, <2>5 DEF WorkerStep
<1>4. ASSUME NEW w \in Worker, WorkerCrash(w)
      PROVE  FailedInFile' /\ FailedInCalls' /\ ReportsAreBegun'
  <2>1. ASSUME NEW d \in calls' PROVE \E c \in calls : d.content = c.content
    <3>1. PICK c \in calls : d = [c EXCEPT !.caller = IF @ = w THEN NoOne ELSE @]
      BY <1>4 DEF WorkerCrash, Orphaned
    <3> QED
      BY <3>1 DEF TypeOK, Call
  <2>2. FailedInCalls'
    BY <1>4, <2>1 DEF WorkerCrash, history, FailedInCalls, Begun
  <2> QED
    BY <1>4, <2>2 DEF WorkerCrash, history, TypeOK, WorkerState, FailedInFile, ReportsAreBegun,
                      Begun
<1>5. CASE UNCHANGED jobsVars
  BY <1>5 DEF jobsVars, history, FailedInFile, FailedInCalls, ReportsAreBegun, Begun
<1>6. ASSUME NEW w \in Worker, Unanswered(w)
      PROVE  FailedInFile' /\ FailedInCalls' /\ ReportsAreBegun'
  <2>1. ASSUME NEW d \in calls' PROVE \E c \in calls : d.content = c.content
    <3>1. PICK c \in calls : d = [c EXCEPT !.caller = IF @ = w THEN NoOne ELSE @]
      BY <1>6 DEF Unanswered, Orphaned
    <3> QED
      BY <3>1 DEF TypeOK, Call
  <2>2. \A j \in Job : Begun(j) => Begun(j)'
    BY <1>6 DEF Unanswered, Begun
  <2>3. FailedInFile' /\ FailedInCalls'
    BY <1>6, <2>1, <2>2 DEF Unanswered, FailedInFile, FailedInCalls
  <2>4. workers'[w].current = workers[w].current
    BY <1>6 DEF Unanswered, TypeOK, WorkerState
  <2>5. workers'[w].current \in unheard'
    BY <1>6, <2>4 DEF Unanswered
  <2>6. \A v \in Worker \ {w} : workers'[v] = workers[v]
    BY <1>6 DEF Unanswered, TypeOK
  <2>7. \A v \in Worker : workers[v].current \in Job
    BY DEF TypeOK, WorkerState
  <2>8. ASSUME NEW v \in Worker, workers'[v].step \in {"success", "failure"}
        PROVE  Begun(workers[v].current)' 
    <3>1. CASE v = w
      BY <2>5, <3>1 DEF Begun
    <3>2. CASE v # w
      BY <2>2, <2>6, <2>7, <2>8, <3>2 DEF ReportsAreBegun
    <3> QED
      BY <3>1, <3>2
  <2> QED
    BY <2>3, <2>8 DEF ReportsAreBegun
<1> QED
  BY <1>1, <1>2, <1>3, <1>4, <1>5, <1>6 DEF Next

\* Where workers skip a conflict, no failure is recorded of a job that was never
\* begun and of which every answer was heard (FailedWasExecuted): the loser of a
\* race for a job leaves the winner's job alone.
THEOREM NoFalseFailure == Spec => []FailedWasExecuted
<1>1. CASE SkipsConflict
  <2>1. FailureInv => FailedWasExecuted
    BY DEF FailureInv, FailedInFile, FailedWasExecuted, Begun
  <2>2. FailureInv /\ [Next]_jobsVars => FailureInv'
    BY <1>1, FailureStep
  <2> QED
    BY FailureInit, <2>1, <2>2, PTL DEF Spec
<1>2. CASE ~SkipsConflict
  <2>1. FailedWasExecuted
    BY <1>2 DEF FailedWasExecuted
  <2> QED
    BY <2>1, PTL
<1> QED
  BY <1>1, <1>2

-----------------------------------------------------------------------------
(***************************************************************************)
(* Executions.  As long as no two claims of a job have been in flight at a *)
(* time, the job has one token: the pending entry, the claim in flight,    *)
(* the worker about to carry it out or the execution.                      *)
(***************************************************************************)
Executing(w, j) == workers[w].step = "execute" /\ workers[w].current = j

Unclaimed(j) == Rank(file[j].status) <= 1

\* Nobody carries out the job, or has.
Untouched(j) == executions[j] = 0 /\ \A w \in Worker : ~Executing(w, j)

\* A call its worker waits for is the one of the worker's step; a worker has one.
CallersWait ==
  \A c \in calls : c.caller # NoOne =>
    /\ workers[c.caller].waits
    /\ workers[c.caller].step = c.op /\ workers[c.caller].current = c.job
    /\ \A d \in calls : d.caller = c.caller => d = c

ClaimsProcess == \A c \in calls : c.op = "claim" => c.content[c.job].status = "processing"

Token(j) ==
  /\ executions[j] <= 1
  /\ Unclaimed(j) => Untouched(j)
  /\ ClaimsInFlight(j) # {} => Untouched(j)
  /\ \A c, d \in ClaimsInFlight(j) : c = d
  /\ \A w \in Worker : Executing(w, j) =>
       executions[j] = 0 /\ \A v \in Worker : Executing(v, j) => v = w

OnceInv ==
  /\ TypeOK
  /\ CallersWait
  /\ ClaimsProcess
  /\ \A j \in Job \ raced : Token(j)

LEMMA OnceInit == Init => OnceInv
<1> SUFFICES ASSUME Init PROVE OnceInv
  OBVIOUS
<1>1. \A w \in Worker : workers[w].step = "idle"
  BY DEF Init
<1>2. CallersWait /\ ClaimsProcess
  BY DEF Init, CallersWait, ClaimsProcess
<1>3. ASSUME NEW j \in Job PROVE Token(j)
  BY <1>1 DEF Init, Token, Untouched, Executing, ClaimsInFlight
<1> QED
  BY <1>2, <1>3, TypeInit DEF OnceInv

\* A step that starts no execution, adds no claim and takes no job back keeps
\* the token.
LEMMA TokenStays ==
  ASSUME NEW j \in Job, Token(j), executions'[j] = executions[j],
         \A w \in Worker : Executing(w, j)' => Executing(w, j),
         Unclaimed(j)' => Unclaimed(j),
         ClaimsInFlight(j)' # {} => ClaimsInFlight(j) # {},
         (\A c, d \in ClaimsInFlight(j) : c = d)'
  PROVE  Token(j)'
<1>1. Untouched(j) => Untouched(j)'
  BY DEF Untouched
<1> QED
  BY <1>1 DEF Token

LEMMA RankAhead ==
  ASSUME TypeOK, NEW c \in calls, Save(c), NEW j \in Job
  PROVE  /\ Rank(file'[j].status) >= Rank(file[j].status)
         /\ Rank(file'[j].status) >= Rank(c.content[j].status)
<1>1. c.content \in File /\ file \in File
  BY DEF TypeOK, Call
<1>2. file' = Merged(file, c.content) /\ file' \in File
  BY <1>1, MergedType DEF Save
<1>3. \A s \in Status : Rank(s) \in Nat
  BY DEF Rank, Status
<1>4. file[j].status \in Status /\ file'[j].status \in Status
  BY <1>1, <1>2 DEF File, Entry
<1> QED
  BY <1>1, <1>2, <1>3, <1>4, MergedAhead

\* A worker whose step is no call has no call in flight.
LEMMA NoCall ==
  ASSUME TypeOK, CallersWait, NEW w \in Worker,
         workers[w].step \notin WorkerOp \/ ~workers[w].waits
  PROVE  \A c \in calls : c.caller # w
<1> SUFFICES ASSUME NEW c \in calls, c.caller = w PROVE FALSE
  OBVIOUS
<1>1. c.caller # NoOne
  BY JobsAssumption
<1>2. workers[w].waits /\ workers[w].step = c.op
  BY <1>1 DEF CallersWait
<1>3. c.op \in WorkerOp \cup {"create"} /\ workers[w].step # "create"
  BY DEF TypeOK, Call, WorkerState, WorkerOp
<1> QED
  BY <1>2, <1>3

\* A step of such a worker that makes no call.
LEMMA FreeStep ==
  ASSUME TypeOK, CallersWait, ClaimsProcess, NEW w \in Worker,
         workers[w].step \notin WorkerOp \/ ~workers[w].waits,
         calls' = calls, \A v \in Worker \ {w} : workers'[v] = workers[v]
  PROVE  CallersWait' /\ ClaimsProcess'
<1>1. \A c \in calls : c.caller # w
  BY NoCall
<1>2. \A c \in calls : c.caller \in Worker \cup {NoOne}
  BY DEF TypeOK, Call
<1> QED
  BY <1>1, <1>2 DEF CallersWait, ClaimsProcess

LEMMA OrphanedCall ==
  ASSUME TypeOK, NEW w \in Worker, NEW d \in Orphaned(w)
  PROVE  \E c \in calls :
           /\ d = [c EXCEPT !.caller = IF @ = w THEN NoOne ELSE @]
           /\ d.op = c.op /\ d.job = c.job /\ d.content = c.content
           /\ d.caller # w
           /\ d.caller # NoOne => d = c
<1>1. PICK c \in calls : d = [c EXCEPT !.caller = IF @ = w THEN NoOne ELSE @]
  BY DEF Orphaned
<1>2. c \in Call
  BY DEF TypeOK
<1>3. d.op = c.op /\ d.job = c.job /\ d.content = c.content
  BY <1>1, <1>2 DEF Call
<1>4. d.caller = IF c.caller = w THEN NoOne ELSE c.caller
  BY <1>1, <1>2 DEF Call
<1>5. c.caller # w => d = c
  BY <1>1, <1>2 DEF Call
<1> QED
  BY <1>1, <1>3, <1>4, <1>5, JobsAssumption

\* A step that lets go of the call of a worker.
LEMMA OrphanStep ==
  ASSUME OnceInv, NEW w \in Worker, calls' = Orphaned(w), file' = file,
         executions' = executions, raced' = raced, workers'[w].step # "execute",
         \A v \in Worker \ {w} : workers'[v] = workers[v]
  PROVE  CallersWait' /\ ClaimsProcess' /\ (\A j \in Job \ raced : Token(j))'
<1> USE DEF OnceInv
<1>1. ClaimsProcess'
  BY OrphanedCall DEF ClaimsProcess
<1>2. CallersWait'
  <2> SUFFICES ASSUME NEW d \in calls', d.caller # NoOne
               PROVE  /\ workers'[d.caller].waits
                      /\ workers'[d.caller].step = d.op /\ workers'[d.caller].current = d.job
                      /\ \A e \in calls' : e.caller = d.caller => e = d
    BY DEF CallersWait
  <2>1. d \in calls /\ d.caller # w
    BY OrphanedCall
  <2>2. d.caller \in Worker
    BY <2>1 DEF TypeOK, Call
  <2>3. workers'[d.caller] = workers[d.caller]
    BY <2>1, <2>2
  <2>4. ASSUME NEW e \in calls', e.caller = d.caller PROVE e = d
    <3>1. e \in calls
      BY <2>4, OrphanedCall
    <3> QED
      BY <2>1, <2>4, <3>1 DEF CallersWait
  <2> QED
    BY <2>1, <2>3, <2>4 DEF CallersWait
<1>3. ASSUME NEW j \in Job \ raced PROVE Token(j)'
  <2>1. \A v \in Worker : Executing(v, j)' => Executing(v, j)
    BY DEF Executing
  <2>2. ASSUME NEW d \in ClaimsInFlight(j)'
        PROVE  \E c \in ClaimsInFlight(j) : d = [c EXCEPT !.caller = IF @ = w THEN NoOne ELSE @]
    BY <2>2, OrphanedCall DEF ClaimsInFlight
  <2>3. (\A c, d \in ClaimsInFlight(j) : c = d)'
    BY <2>2 DEF Token
  <2>4. ClaimsInFlight(j)' # {} => ClaimsInFlight(j) # {}
    BY <2>2
  <2> QED
    BY <2>1, <2>3, <2>4, TokenStays DEF Unclaimed
<1> QED
  BY <1>1, <1>2, <1>3

\* A call that is made: the new one is the only one of its caller.
LEMMA LoadStep ==
  ASSUME OnceInv, NEW caller \in Worker \cup {NoOne}, NEW op \in WorkerOp \cup {"create"},
         NEW j \in Job, Load(caller, op, j),
         op = "claim" /\ j \notin raced => Untouched(j),
         UNCHANGED <<file, executions>>,
         \/ caller = NoOne /\ workers' = workers
         \/ /\ caller \in Worker /\ ~workers[caller].waits
            /\ workers[caller].step = op /\ workers[caller].current = j
            /\ workers' = [workers EXCEPT ![caller].waits = TRUE]
  PROVE  CallersWait' /\ ClaimsProcess' /\ (\A k \in Job \ raced : Token(k))'
<1> USE DEF OnceInv
<1> DEFINE new == [caller |-> caller, op |-> op, job |-> j, content |-> Content(op, j)]
<1>1. calls' = calls \cup {new}
  BY DEF Load
<1>2. new.caller = caller /\ new.op = op /\ new.job = j /\ new.content = Content(op, j)
  OBVIOUS
<1> HIDE DEF new
<1>3. ClaimsProcess'
  <2>1. op = "claim" => Content(op, j)[j].status = "processing"
    BY ContentType DEF TypeOK, StatusAfter
  <2> QED
    BY <1>1, <1>2, <2>1 DEF ClaimsProcess
<1>4. CallersWait'
  <2>1. CASE caller = NoOne
    <3>1. workers' = workers
      BY <2>1, JobsAssumption
    <3> QED
      BY <1>1, <1>2, <2>1, <3>1 DEF CallersWait
  <2>2. CASE caller # NoOne
    <3>1. \A c \in calls : c.caller # caller
      BY <2>2, NoCall
    <3>2. /\ workers'[caller].waits
          /\ workers'[caller].step = op /\ workers'[caller].current = j
      BY <2>2 DEF TypeOK, WorkerState
    <3>3. \A v \in Worker \ {caller} : workers'[v] = workers[v]
      BY <2>2 DEF TypeOK
    <3>4. \A c \in calls : c.caller \in Worker \cup {NoOne}
      BY DEF TypeOK, Call
    <3> QED
      BY <1>1, <1>2, <2>2, <3>1, <3>2, <3>3, <3>4 DEF CallersWait
  <2> QED
    BY <2>1, <2>2
<1>5. ASSUME NEW k \in Job \ raced' PROVE Token(k)'
  <2>1. k \notin raced /\ Token(k)
    BY DEF Load
  <2>2. \A v \in Worker : Executing(v, k)' <=> Executing(v, k)
    BY DEF Executing, TypeOK, WorkerState
  <2>3. CASE op = "claim" /\ k = j
    <3>1. ClaimsInFlight(j) = {}
      BY <2>3 DEF Load
    <3>2. ClaimsInFlight(j)' = {new}
      BY <1>1, <1>2, <2>3, <3>1 DEF ClaimsInFlight
    <3>3. Untouched(k)'
      BY <2>1, <2>2, <2>3 DEF Untouched
    <3> QED
      BY <2>1, <2>2, <2>3, <3>2, <3>3 DEF Token, Untouched
  <2>4. CASE ~(op = "claim" /\ k = j)
    <3>1. ClaimsInFlight(k)' = ClaimsInFlight(k)
      BY <1>1, <1>2, <2>4 DEF ClaimsInFlight
    <3>2. (\A c, d \in ClaimsInFlight(k) : c = d)'
      BY <2>1, <3>1 DEF Token
    <3> QED
      BY <2>1, <2>2, <3>1, <3>2, TokenStays DEF Unclaimed
  <2> QED
    BY <2>3, <2>4
<1> QED
  BY <1>3, <1>4, <1>5

LEMMA SaveStep ==
  ASSUME OnceInv, NEW c \in calls, Save(c)
  PROVE  CallersWait' /\ ClaimsProcess' /\ (\A k \in Job \ raced : Token(k))'
<1> USE DEF OnceInv
<1>1. c \in Call /\ calls' = calls \ {c} /\ UNCHANGED <<raced, executions>>
  BY DEF Save, TypeOK
<1>2. \A v \in Worker : v # c.caller \/ c.caller = NoOne => workers'[v] = workers[v]
  BY DEF Save, TypeOK
<1>4. c.caller # NoOne =>
        /\ c.caller \in Worker
        /\ workers'[c.caller].step = AfterAnswer(c.op)
        /\ workers'[c.caller].current = c.job
  <2> SUFFICES ASSUME c.caller # NoOne
               PROVE  /\ c.caller \in Worker
                      /\ workers'[c.caller].step = AfterAnswer(c.op)
                      /\ workers'[c.caller].current = c.job
    OBVIOUS
  <2>1. c.caller \in Worker
    BY <1>1 DEF Call
  <2>2. workers'[c.caller] = [workers[c.caller] EXCEPT !.step = AfterAnswer(c.op), !.waits = FALSE]
    BY <2>1 DEF Save, TypeOK
  <2>3. workers[c.caller].current = c.job
    BY DEF CallersWait
  <2> QED
    BY <2>1, <2>2, <2>3 DEF TypeOK, WorkerState
<1>5. CallersWait'
  <2> SUFFICES ASSUME NEW d \in calls', d.caller # NoOne
               PROVE  workers'[d.caller] = workers[d.caller]
    BY <1>1 DEF CallersWait
  <2>1. d.caller \in Worker
    BY <1>1 DEF TypeOK, Call
  <2>2. d.caller # c.caller
    BY <1>1 DEF CallersWait
  <2> QED
    BY <1>2, <2>1, <2>2
<1>6. ClaimsProcess'
  BY <1>1 DEF ClaimsProcess
<1>7. ASSUME NEW k \in Job \ raced PROVE Token(k)'
  <2>1. Unclaimed(k)' => Unclaimed(k)
    <3>1. file'[k].status \in Status /\ file[k].status \in Status
      BY TypeStep DEF Next, TypeOK, File, Entry
    <3>2. \A s \in Status : Rank(s) \in Nat
      BY DEF Rank, Status
    <3> QED
      BY <3>1, <3>2, RankAhead DEF Unclaimed
  <2>2. ClaimsInFlight(k)' = ClaimsInFlight(k) \ {c}
    BY <1>1 DEF ClaimsInFlight
  <2>3. CASE c.op = "claim" /\ c.job = k
    <3>1. c \in ClaimsInFlight(k)
      BY <2>3 DEF ClaimsInFlight
    <3>2. Untouched(k) /\ ClaimsInFlight(k)' = {}
      BY <2>2, <3>1 DEF Token
    <3>3. ~Unclaimed(k)'
      <4>1. Rank(c.content[k].status) = 2
        BY <2>3 DEF ClaimsProcess, Rank
      <4>2. Rank(file'[k].status) \in Nat
        <5>1. file'[k].status \in Status
          BY TypeStep DEF Next, TypeOK, File, Entry
        <5> QED
          BY <5>1 DEF Rank, Status
      <4> QED
        BY <4>1, <4>2, RankAhead DEF Unclaimed
    <3>4. \A v \in Worker : Executing(v, k)' => v = c.caller
      BY <1>2, <3>2 DEF Executing, Untouched
    <3> QED
      BY <1>1, <3>2, <3>3, <3>4 DEF Token, Untouched
  <2>4. CASE ~(c.op = "claim" /\ c.job = k)
    <3>1. ASSUME NEW v \in Worker, Executing(v, k)' PROVE Executing(v, k)
      <4>1. CASE c.caller # NoOne /\ v = c.caller
        BY <1>4, <2>4, <3>1, <4>1 DEF Executing, AfterAnswer
      <4>2. CASE ~(c.caller # NoOne /\ v = c.caller)
        BY <1>2, <3>1, <4>2 DEF Executing
      <4> QED
        BY <4>1, <4>2
    <3>2. (\A e, d \in ClaimsInFlight(k) : e = d)'
      BY <2>2 DEF Token
    <3> QED
      BY <1>1, <2>1, <2>2, <3>1, <3>2, TokenStays
  <2> QED
    BY <2>3, <2>4
<1> QED
  BY <1>1, <1>5, <1>6, <1>7

LEMMA WorkerOnceStep ==
  ASSUME OnceInv, NEW w \in Worker, WorkerStep(w)
  PROVE  CallersWait' /\ ClaimsProcess' /\ (\A k \in Job \ raced : Token(k))'
<1> USE DEF OnceInv
<1>1. workers[w] \in WorkerState /\ workers[w].current \in Job
  BY DEF TypeOK, WorkerState
<1>2. ASSUME calls' = calls, UNCHANGED <<file, raced, executions>>,
             workers[w].step \notin WorkerOp \/ ~workers[w].waits,
             \A v \in Worker \ {w} : workers'[v] = workers[v],
             workers'[w].step # "execute"
      PROVE  CallersWait' /\ ClaimsProcess' /\ (\A k \in Job \ raced : Token(k))'
  <2>1. CallersWait' /\ ClaimsProcess'
    BY <1>2, FreeStep
  <2>2. ASSUME NEW k \in Job \ raced PROVE Token(k)'
    <3>1. \A v \in Worker : Executing(v, k)' => Executing(v, k)
      BY <1>2 DEF Executing
    <3>2. ClaimsInFlight(k)' = ClaimsInFlight(k)
      BY <1>2 DEF ClaimsInFlight
    <3>3. (\A c, d \in ClaimsInFlight(k) : c = d)'
      BY <3>2 DEF Token
    <3> QED
      BY <1>2, <3>1, <3>2, <3>3, TokenStays DEF Unclaimed
  <2> QED
    BY <1>2, <2>1, <2>2
<1>3. CASE Poll(w)
  <2>1. workers'[w].step = "next" /\ \A v \in Worker \ {w} : workers'[v] = workers[v]
    BY <1>1, <1>3 DEF Poll, TypeOK, WorkerState
  <2> QED
    BY <1>2, <1>3, <2>1 DEF Poll, history, WorkerOp
<1>4. CASE TakeNext(w)
  <2>1. workers'[w].step \in {"idle", "claim"}
    <3>1. CASE Move(w, "idle")
      BY <1>1, <3>1 DEF Move, TypeOK, WorkerState
    <3>2. ASSUME NEW j \in workers[w].queue,
                 workers' = [workers EXCEPT ![w].step = "claim", ![w].current = j,
                                            ![w].queue = @ \ {j}]
          PROVE  workers'[w].step = "claim"
      BY <1>1, <3>2 DEF TypeOK, WorkerState
    <3> QED
      BY <1>4, <3>1, <3>2 DEF TakeNext
  <2>2. \A v \in Worker \ {w} : workers'[v] = workers[v]
    BY <1>4 DEF TakeNext, Move, TypeOK
  <2> QED
    BY <1>2, <1>4, <2>1, <2>2 DEF TakeNext, history, WorkerOp
<1>5. CASE WorkerCall(w)
  <2> DEFINE op == workers[w].step
             j == workers[w].current
  <2>1. op \in WorkerOp /\ ~workers[w].waits /\ UNCHANGED <<file, executions>>
    BY <1>5 DEF WorkerCall
  <2>2. CASE Allowed(op, j) /\ Load(w, op, j) /\ workers' = [workers EXCEPT ![w].waits = TRUE]
    <3>1. op = "claim" /\ j \notin raced => Untouched(j)
      BY <1>1, <2>2 DEF Allowed, Claimable, Token, Unclaimed, Rank
    <3> QED
      BY <1>1, <2>1, <2>2, <3>1, LoadStep
  <2>3. CASE Move(w, AfterRefusal(op)) /\ UNCHANGED <<calls, now, raced>>
    <3>1. AfterRefusal(op) # "execute"
      BY OnErrorType
    <3> HIDE DEF op
    <3>2. workers'[w].step = AfterRefusal(op) /\ \A v \in Worker \ {w} : workers'[v] = workers[v]
      BY <1>1, <2>3 DEF Move, TypeOK, WorkerState
    <3> QED
      BY <1>2, <2>1, <2>3, <3>1, <3>2
  <2> QED
    BY <1>5, <2>2, <2>3 DEF WorkerCall
<1>6. CASE Execute(w)
  <2> DEFINE j == workers[w].current
  <2>1. /\ Executing(w, j) /\ UNCHANGED <<file, calls, raced>>
        /\ executions' = [executions EXCEPT ![j] = @ + 1]
    BY <1>6 DEF Execute, Executing
  <2>2. workers'[w].step # "execute" /\ \A v \in Worker \ {w} : workers'[v] = workers[v]
    BY <1>1, <1>6 DEF Execute, Move, OnError, TypeOK, WorkerState
  <2>3. CallersWait' /\ ClaimsProcess'
    BY <1>6, <2>1, <2>2, FreeStep DEF Execute, WorkerOp
  <2>4. ASSUME NEW k \in Job \ raced PROVE Token(k)'
    <3>1. \A v \in Worker : Executing(v, k)' => Executing(v, k) /\ v # w
      BY <2>2 DEF Executing
    <3>2. ClaimsInFlight(k)' = ClaimsInFlight(k) /\ (Unclaimed(k)' <=> Unclaimed(k))
      BY <2>1 DEF ClaimsInFlight, Unclaimed
    <3>3. CASE k = j
      <4>1. executions[k] = 0 /\ ~Unclaimed(k) /\ ClaimsInFlight(k) = {}
        BY <1>1, <2>1, <3>3 DEF Token, Untouched
      <4>2. \A v \in Worker : Executing(v, k) => v = w
        BY <1>1, <2>1, <3>3 DEF Token
      <4>3. \A v \in Worker : ~Executing(v, k)'
        BY <3>1, <4>2
      <4>4. executions'[k] = 1
        BY <1>1, <2>1, <3>3, <4>1 DEF TypeOK
      <4>5. ~Unclaimed(k)' /\ ClaimsInFlight(k)' = {}
        BY <3>2, <4>1
      <4> QED
        BY <4>3, <4>4, <4>5 DEF Token
    <3>4. CASE k # j
      <4>1. executions'[k] = executions[k]
        BY <2>1, <3>4 DEF TypeOK
      <4>2. (\A c, d \in ClaimsInFlight(k) : c = d)'
        BY <3>2 DEF Token
      <4> QED
        BY <3>1, <3>2, <4>1, <4>2, TokenStays
    <3> QED
      BY <3>3, <3>4
  <2> QED
    BY <2>1, <2>3, <2>4
<1> QED
  BY <1>3, <1>4, <1>5, <1>6 DEF WorkerStep

LEMMA OnceStep == OnceInv /\ [Next]_jobsVars => OnceInv'
<1> SUFFICES ASSUME OnceInv, [Next]_jobsVars
             PROVE  CallersWait' /\ ClaimsProcess' /\ (\A k \in Job \ raced : Token(k))'
  BY TypeStep DEF OnceInv
<1>1. ASSUME NEW j \in Job, CreateJob(j)
      PROVE  CallersWait' /\ ClaimsProcess' /\ (\A k \in Job \ raced : Token(k))'
  BY <1>1, LoadStep DEF CreateJob
<1>2. ASSUME NEW w \in Worker, Unanswered(w)
      PROVE  CallersWait' /\ ClaimsProcess' /\ (\A k \in Job \ raced : Token(k))'
  <2>1. workers'[w].step # "execute" /\ \A v \in Worker \ {w} : workers'[v] = workers[v]
    <3>1. OnError(workers[w].step) # "execute"
      BY OnErrorType
    <3> QED
      BY <1>2, <3>1 DEF Unanswered, OnceInv, TypeOK, WorkerState
  <2> QED
    BY <1>2, <2>1, OrphanStep DEF Unanswered
<1>3. ASSUME NEW w \in Worker, WorkerCrash(w)
      PROVE  CallersWait' /\ ClaimsProcess' /\ (\A k \in Job \ raced : Token(k))'
  <2>1. workers'[w].step # "execute" /\ \A v \in Worker \ {w} : workers'[v] = workers[v]
    BY <1>3 DEF WorkerCrash, OnceInv, TypeOK, WorkerState
  <2> QED
    BY <1>3, <2>1, OrphanStep DEF WorkerCrash, history
<1>4. CASE UNCHANGED jobsVars
  BY <1>4 DEF jobsVars, history, OnceInv, CallersWait, ClaimsProcess, Token, Unclaimed, Untouched,
              Executing, ClaimsInFlight
<1> QED
  BY <1>1, <1>2, <1>3, <1>4, SaveStep, WorkerOnceStep DEF Next

\* A job of which no two claims were in flight at a time is carried out at most
\* once (ExecutedOnce), whatever other calls overlap, crash or go unanswered.
THEOREM Once == Spec => []ExecutedOnce
<1>1. OnceInv => ExecutedOnce
  BY DEF OnceInv, Token, ExecutedOnce
<1> QED
  BY OnceInit, OnceStep, <1>1, PTL DEF Spec
=============================================================================
