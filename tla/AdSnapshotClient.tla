--------------------------- MODULE AdSnapshotClient ---------------------------
(***************************************************************************)
(* The browser's copy of the directory snapshot (hooks/useAdSnapshot.js).  *)
(* One request at a time is in flight: whoever wants a refresh while one   *)
(* is up waits for that one, forced or not.  The page runs on one thread:  *)
(* what follows an await runs from the queue micro before anything else,   *)
(* which the guard Idle of every other action states.  Callers that await  *)
(* one request go on in the order they called, which the page knows.       *)
(***************************************************************************)
EXTENDS Naturals

CONSTANTS Task,         \* the calls of the page that may be under way at once
          MaxVersion    \* bound: changes of the directory

VARIABLES dir,          \* the version of the directory itself
          served,       \* what GET /api/ad-snapshot would answer
          stored,       \* snapshotRef.current
          flight,       \* requestPromiseRef.current
          waiting,      \* which callers await the flight, and where in resolveSnapshot
          micro,        \* the microtasks queued: what each caller is about to be told
          revised       \* snapshotRevision changed, its effect has not run

clientVars == <<dir, served, stored, flight, waiting,
                micro, revised>>

Snapshot == [version : 0 .. MaxVersion, usable : BOOLEAN]
NoSnapshot == [version |-> 0, usable |-> FALSE]
Lost == [version |-> 0, usable |-> FALSE, lost |-> TRUE]
Unanswered == [unanswered |-> TRUE]
NoFlight == [up |-> FALSE]

\* What a caller is told: null, or a snapshot: the one held, one fetched for the
\* call, or the old one because the fetch failed.
Null == [null |-> TRUE]
Answer == {Null} \cup [version : 0 .. MaxVersion, from : {"held", "fetched", "fallback"}]
Stage == {"forced", "last"}

Silent == [t \in Task |-> Unanswered]
Idle == micro = Silent

ClientInit ==
    /\ dir = 1
    /\ served \in {NoSnapshot, [version |-> 1, usable |-> TRUE]}
    /\ stored = NoSnapshot
    /\ flight = [up |-> TRUE, answer |-> Unanswered]
    /\ micro = Silent
    /\ revised = FALSE

\* refreshSnapshot up to its await: the flight that is up, or a new one.
Launched ==
    IF flight.up THEN flight
    ELSE [up |-> TRUE, answer |-> Unanswered]

\* resolveSnapshot up to its first await.
ServesHeldAlways(force) == stored.usable    \* mutant: force is ignored
ServesHeld(force) == stored.usable /\ ~force
Resolve(t, force) ==
    IF ServesHeld(force)
    THEN /\ micro' = [micro EXCEPT ![t] = [version |-> stored.version, from |-> "held"]]
         /\ UNCHANGED <<flight, waiting>>
    ELSE /\ flight' = Launched
         /\ waiting' = [waiting EXCEPT ![t] = IF force THEN "forced" ELSE "last"]
         /\ UNCHANGED micro

-----------------------------------------------------------------------------
(* The directory and the server *)

ChangeDirectory ==
    /\ Idle /\ dir < MaxVersion
    /\ dir' = dir + 1
    /\ UNCHANGED <<served, stored, flight, waiting, micro, revised>>

\* The agent pushes a snapshot, or the one the server keeps grows too old.
Publish ==
    /\ Idle
    /\ served' \in {[version |-> dir, usable |-> TRUE], [served EXCEPT !.usable = FALSE]}
    /\ served' # served
    /\ UNCHANGED <<dir, stored, flight, waiting, micro, revised>>

Serve ==
    /\ Idle /\ flight.up /\ flight.answer = Unanswered
    /\ flight' \in {[flight EXCEPT !.answer = a] : a \in {served, Lost}}
    /\ UNCHANGED <<dir, served, stored, waiting, micro, revised>>

-----------------------------------------------------------------------------
(* The hook *)

\* The interval of the effect: a refresh, nothing when one is up.  What the
\* hook shows of a refresh (its loading flag, its error) is left out.
Poll ==
    /\ Idle /\ ~flight.up
    /\ flight' = Launched
    /\ UNCHANGED <<dir, served, stored, waiting, micro, revised>>

\* The rest of resolveSnapshot once the flight a caller waits for has settled:
\* what it answers, or Unanswered when it refreshes once more.
Resolved(stage, now) ==
    IF flight.answer # Lost /\ flight.answer.usable
    THEN [version |-> flight.answer.version, from |-> "fetched"]
    ELSE IF stage = "last" THEN Null
    ELSE IF now.usable THEN [version |-> now.version, from |-> "fallback"]
    ELSE Unanswered

\* A request that fails leaves the snapshot as it was.
Kept(answer) == IF answer = Lost THEN stored ELSE answer

Settle ==
    /\ Idle /\ flight.up /\ flight.answer # Unanswered
    /\ LET now == Kept(flight.answer)
           told == [t \in Task |-> IF waiting[t] = "no" THEN Unanswered
                                   ELSE Resolved(waiting[t], now)]
           again == {t \in Task : waiting[t] # "no" /\ told[t] = Unanswered}
       IN /\ stored' = now
          /\ revised' = (revised \/ now.version # stored.version)
          /\ micro' = told
          /\ waiting' = [t \in Task |-> IF t \in again THEN "last" ELSE "no"]
          /\ flight' = IF again = {} THEN NoFlight ELSE [up |-> TRUE, answer |-> Unanswered]
    /\ UNCHANGED <<dir, served>>

ClientTypeOK ==
    /\ dir \in 1 .. MaxVersion
    /\ served \in Snapshot
    /\ stored \in Snapshot
    /\ flight.up \in BOOLEAN
    /\ flight.up => flight.answer \in Snapshot \cup {Lost, Unanswered}
    /\ revised \in BOOLEAN
    /\ waiting \in [Task -> Stage \cup {"no"}]
    /\ micro \in [Task -> Answer \cup {Unanswered}]

ClientNext == ChangeDirectory \/ Publish \/ Serve \/ Poll \/ Settle
=============================================================================
