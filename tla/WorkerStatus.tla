------------------------------ MODULE WorkerStatus ------------------------------
(***************************************************************************)
(* What the workers page knows of the workers (worker_status.py).  A       *)
(* heartbeat loads the file of all workers, appends an event when the      *)
(* state of its worker changes, and saves the whole file; a listing does   *)
(* the same for every worker whose state has changed since it was stored.  *)
(* No lock is held from the load to the save, so that of two calls in      *)
(* flight the one saved last undoes the other.                             *)
(***************************************************************************)
EXTENDS Integers, FiniteSets

CONSTANTS
    Worker,
    StaleAfter,             \* stale_after_seconds
    MaxCalls, MaxTime       \* bounds: the calls in flight, and the clock

VARIABLES
    now,          \* the clock
    file,         \* the records of the workers
    calls,        \* the calls that have loaded the file and not saved yet
    reported,     \* the state each worker has in the last of its events
    heard,        \* history: the last heartbeat, and the last one without an error
    disturbed     \* history: two calls overlapped, or one was cut short

vars == <<now, file, calls, reported, heard, disturbed>>

\* What the constants are assumed to be.
WorkersAssumption == StaleAfter \in Nat /\ MaxTime \in Nat

Never == -StaleAfter - 1
NoRecord == [status |-> "absent", seen |-> Never, state |-> "unknown"]

\* _health_state of _decorate_worker, at an instant.
HealthState(record, at) ==
    IF record.status = "error" THEN "error"
    ELSE IF at - record.seen > StaleAfter THEN "stale" ELSE "healthy"

TypeOK ==
    /\ now \in 0..MaxTime
    /\ \A w \in Worker : /\ file[w].status \in {"absent", "running", "error"}
                         /\ file[w].seen \in {Never} \cup 0..now
    /\ \A c \in calls : c.kind \in {"beat", "list"} /\ DOMAIN c.content = Worker
    /\ reported \in [Worker -> {"unknown", "healthy", "stale", "error"}]

Init ==
    /\ now = 0 /\ calls = {} /\ disturbed = FALSE
    /\ file = [w \in Worker |-> NoRecord]
    /\ reported = [w \in Worker |-> "unknown"]
    /\ heard = [last |-> [w \in Worker |-> NoRecord], fine |-> [w \in Worker |-> Never]]

Tick == /\ now < MaxTime /\ now' = now + 1
        /\ UNCHANGED <<file, calls, reported, heard, disturbed>>

Loads(c) ==
    /\ Cardinality(calls) < MaxCalls
    /\ calls' = calls \cup {c}
    /\ disturbed' = (disturbed \/ calls # {})

\* _write_event, for every worker of the content whose state differs from the
\* one in the file.
Tells(content) ==
    reported' = [w \in Worker |->
                    IF content[w].state # file[w].state THEN content[w].state ELSE reported[w]]

\* receive_worker_heartbeat, up to the save.
ReceiveWorkerHeartbeat(w, status) ==
    LET record == [status |-> status, seen |-> now, state |-> "unknown"]
        content == [file EXCEPT ![w] = [record EXCEPT !.state = HealthState(record, now)]]
    IN  /\ Loads([kind |-> "beat", content |-> content])
        /\ Tells(content)
        /\ heard' = [last |-> [heard.last EXCEPT ![w] = record],
                     fine |-> IF status = "error" THEN heard.fine
                              ELSE [heard.fine EXCEPT ![w] = now]]
        /\ UNCHANGED <<now, file>>

\* mutant: the state that was stored is shown as long as it is not an error
StoredState(record) == IF record.state # "unknown" THEN record.state ELSE HealthState(record, now)

\* What a listing makes of a record.
CurrentState(record) == HealthState(record, now)

\* get_worker_status, which saves the file only when a state has changed.
GetWorkerStatus ==
    LET content == [w \in Worker |->
                       IF file[w] = NoRecord THEN NoRecord
                       ELSE [file[w] EXCEPT !.state = CurrentState(file[w])]]
    IN  /\ content # file
        /\ Loads([kind |-> "list", content |-> content])
        /\ Tells(content)
        /\ UNCHANGED <<now, file, heard>>

Save(c) ==
    /\ file' = c.content /\ calls' = calls \ {c}
    /\ UNCHANGED <<now, reported, heard, disturbed>>

\* The API stops: what it had loaded is not saved.
Restart ==
    /\ calls # {} /\ calls' = {} /\ disturbed' = TRUE
    /\ UNCHANGED <<now, file, reported, heard>>

Next ==
    \/ Tick \/ GetWorkerStatus \/ Restart
    \/ \E w \in Worker, status \in {"running", "error"} : ReceiveWorkerHeartbeat(w, status)
    \/ \E c \in calls : Save(c)

Spec == Init /\ [][Next]_vars

-----------------------------------------------------------------------------
\* A lost heartbeat never makes a silent worker look alive: a worker that a
\* listing shows as healthy sent a heartbeat without an error within StaleAfter.
HealthyIsAlive ==
    \A w \in Worker :
        file[w] # NoRecord /\ CurrentState(file[w]) = "healthy"
            => now - heard.fine[w] <= StaleAfter

\* As long as no two calls overlapped and none was cut short, a listing shows
\* every worker in the state of its last heartbeat, and the last event of a
\* worker tells the state that the file has.
SerialListingsAreRight ==
    ~disturbed /\ calls = {} =>
        \A w \in Worker :
            /\ reported[w] = file[w].state
            /\ file[w] # NoRecord => CurrentState(file[w]) = HealthState(heard.last[w], now)
=============================================================================
