---------------------------- MODULE Console_proofs ----------------------------
(***************************************************************************)
(* The properties of the console's run, for any objects, values, tasks and *)
(* bounds.                                                                 *)
(*                                                                         *)
(* The components share nothing and one of them moves, so that an          *)
(* invariant of the console is one of each of them.  Every section below   *)
(* states the inductive invariant of a component, that it holds at the     *)
(* start and that the component's steps keep it.  The last two put them    *)
(* together (ConsoleInv) and draw the properties from them.                *)
(*                                                                         *)
(* What an invariant adds to its property is mostly what the calls under   *)
(* way hold: the number of a navigation, the object an answer is for, the  *)
(* stage of a chain that a click confirmed, the values a form was saved    *)
(* with.                                                                   *)
(***************************************************************************)
EXTENDS Console, Sequences, FiniteSetTheorems, TLAPS

-----------------------------------------------------------------------------
(***************************************************************************)
(* The explorer.  A call that may change the list without a forced refresh *)
(* and waits for the snapshot has a number no later content is below, for  *)
(* nothing usable is stored while it waits.                                *)
(***************************************************************************)

\* A call under way.
Visit ==
    [op : {"tree", "node"} \cup Special, at : {"snapshot", "catalog", "job", "content"},
     on : Node \cup Special \cup {"tree"}, force : BOOLEAN, request : Nat,
     joins : Task \cup {Nothing}, got : {"nothing", "failed", "read"},
     version : 0 .. MaxVersion, all : BOOLEAN, with : Task \cup {Nothing},
     turn : Nat, since : Nat, alone : BOOLEAN]

Visits == Visit \cup {Explorer!NoCall}

Waits(t) == waiting[t] # "no"
Told(t) == micro[t] # Explorer!Unanswered
Underway(t) == task[t].op # "none"
AtContent(t) == task[t].op = "node" /\ task[t].at = "content"

ExplorerTypes ==
    /\ Explorer!TypeOK
    /\ flight = Explorer!NoFlight
       \/ flight \in [up : {TRUE},
                      answer : Explorer!Snapshot \cup {Explorer!Lost, Explorer!Unanswered}]
    /\ view \in [of : Node \cup Special \cup {"nothing"}, version : 0 .. MaxVersion,
                 source : {"none", "node", "forced", "special"}, request : Nat]
    /\ requestId \in Nat
    /\ task \in [Task -> Visits]

\* What a call knows is not newer than what there is.
CallsHeld ==
    /\ served.version <= dir
    /\ \A t \in Task : Underway(t) =>
          /\ task[t].op = "node" => task[t].on \in Node
          /\ task[t].op \in Special => task[t].on = task[t].op
          /\ task[t].at = "catalog" => task[t].op \in Special
          /\ task[t].request <= requestId
          /\ task[t].turn < calls
          /\ task[t].since <= served.version

\* Who waits or is told awaits the snapshot, in one place, and a request is up.
QueuesHeld ==
    \A t \in Task :
        /\ Waits(t) \/ Told(t) => Underway(t) /\ task[t].at = "snapshot"
        /\ Waits(t) => flight.up /\ ~Told(t)
        /\ waiting[t] = "forced" => task[t].force

\* The calls that await the snapshot were made one after the other, and the
\* numbers of the navigations among them follow.
InTurn ==
    \A t, u \in Task :
        /\ t # u /\ Underway(t) /\ task[t].at = "snapshot"
        /\ Underway(u) /\ task[u].at = "snapshot"
        => /\ task[t].turn # task[u].turn
           /\ (task[t].op = "node" /\ task[u].op = "node" /\ task[t].turn < task[u].turn)
                => task[t].request < task[u].request

\* The request a forced call launched was answered after the call.
FlightIsNew ==
    \A t \in Task : Waits(t) /\ task[t].force /\ task[t].alone =>
        \/ flight.answer \in {Explorer!Unanswered, Explorer!Lost}
        \/ flight.answer.version >= task[t].since

\* What is shown and what is being read is older than a navigation that waits.
NavigationsWait ==
    \A t \in Task : task[t].op = "node" /\ ~task[t].force /\ (Waits(t) \/ Told(t)) =>
        /\ Waits(t) => ~stored.usable /\ Explorer!Idle
        /\ view.request <= task[t].request
        /\ \A u \in Task : AtContent(u) => task[u].request < task[t].request

\* Some call still has to say that the page no longer loads.
LoadingIsOwed ==
    loading => late \/ \E t \in Task : task[t].op \in {"node"} \cup (Special \ {"global"})

ExplorerInv ==
    /\ ExplorerTypes /\ CallsHeld /\ QueuesHeld /\ InTurn /\ FlightIsNew
    /\ NavigationsWait /\ LoadingIsOwed
    /\ Explorer!ForcedReadsAfterCall /\ Explorer!PromisesAreAwaited

-----------------------------------------------------------------------------
\* The same call, whatever refreshAll still expects of it.
SameCall(a, b) ==
    /\ a.op = b.op /\ a.at = b.at /\ a.on = b.on /\ a.force = b.force
    /\ a.request = b.request /\ a.joins = b.joins /\ a.turn = b.turn
    /\ a.since = b.since /\ a.alone = b.alone

\* The same call, or over, or past the snapshot.
Moves(a, b) ==
    \/ b = Explorer!NoCall
    \/ SameCall(a, b)
    \/ /\ a.op = b.op /\ a.on = b.on /\ a.force = b.force /\ a.request = b.request
       /\ b.turn \in {0, a.turn} /\ b.since \in {0, a.since}
       /\ b.at \in {"job", "content"}

\* What the assumption says of the explorer.
LEMMA ExplorerConstants ==
    /\ Nothing \notin Task
    /\ MaxVersion \in Nat \ {0} /\ MaxNavigations \in Nat \ {0, 1}
    /\ Covered \subseteq Node
    /\ Special \subseteq {"computers", "contacts", "search", "global"}
  BY ConsoleConstants DEF Explorer!Scope

\* What a caller is told, what a request answers and who calls are told apart.
LEMMA ExplorerRecords ==
    /\ \A a \in Explorer!Answer : a # Explorer!Unanswered
    /\ \A v \in Nat, f \in STRING : [version |-> v, from |-> f] # Explorer!Null
    /\ \A a \in Explorer!Snapshot : a # Explorer!Unanswered /\ a # Explorer!Lost
    /\ Explorer!Lost # Explorer!Unanswered
    /\ Explorer!NoFlight.up = FALSE
    /\ Explorer!NoCall.op = "none"
  <1>1. \A a \in [version : 0 .. MaxVersion, from : {"held", "fetched", "fallback"}] :
           a # [unanswered |-> TRUE]
    <2> SUFFICES ASSUME NEW a \in [version : 0 .. MaxVersion,
                                   from : {"held", "fetched", "fallback"}]
                 PROVE  a # [unanswered |-> TRUE]
      OBVIOUS
    <2>1. "from" \in DOMAIN a /\ "from" \notin DOMAIN [unanswered |-> TRUE]
      OBVIOUS
    <2> QED BY <2>1
  <1>2. [null |-> TRUE] # [unanswered |-> TRUE]
    <2>1. "null" \in DOMAIN [null |-> TRUE] /\ "null" \notin DOMAIN [unanswered |-> TRUE]
      OBVIOUS
    <2> QED BY <2>1
  <1>3. \A v \in Nat, f \in STRING : [version |-> v, from |-> f] # [null |-> TRUE]
    <2> SUFFICES ASSUME NEW v \in Nat, NEW f \in STRING
                 PROVE  [version |-> v, from |-> f] # [null |-> TRUE]
      OBVIOUS
    <2>1. "null" \in DOMAIN [null |-> TRUE]
          /\ "null" \notin DOMAIN [version |-> v, from |-> f]
      OBVIOUS
    <2> QED BY <2>1
  <1>4. \A a \in [version : 0 .. MaxVersion, usable : BOOLEAN] :
           a # [unanswered |-> TRUE] /\ a # [version |-> 0, usable |-> FALSE, lost |-> TRUE]
    <2> SUFFICES ASSUME NEW a \in [version : 0 .. MaxVersion, usable : BOOLEAN]
                 PROVE  /\ a # [unanswered |-> TRUE]
                        /\ a # [version |-> 0, usable |-> FALSE, lost |-> TRUE]
      OBVIOUS
    <2>1. /\ "usable" \in DOMAIN a /\ "usable" \notin DOMAIN [unanswered |-> TRUE]
          /\ "lost" \notin DOMAIN a
          /\ "lost" \in DOMAIN [version |-> 0, usable |-> FALSE, lost |-> TRUE]
      OBVIOUS
    <2> QED BY <2>1
  <1>5. [version |-> 0, usable |-> FALSE, lost |-> TRUE] # [unanswered |-> TRUE]
    <2>1. /\ "lost" \in DOMAIN [version |-> 0, usable |-> FALSE, lost |-> TRUE]
          /\ "lost" \notin DOMAIN [unanswered |-> TRUE]
      OBVIOUS
    <2> QED BY <2>1
  <1> QED
    BY <1>1, <1>2, <1>3, <1>4, <1>5
    DEF Explorer!Answer, Explorer!Unanswered, Explorer!Null, Explorer!Snapshot, Explorer!Lost,
        Explorer!NoFlight, Explorer!NoCall

\* The calls that end leave the others as they were.
LEMMA ReturnTasks ==
    ASSUME task \in [Task -> Visits], NEW ended \in SUBSET Task, NEW failed \in BOOLEAN, NEW load,
           NEW tardy, Explorer!Return(ended, failed, load, tardy)
    PROVE  /\ task' \in [Task -> Visits]
           /\ \A c \in Task : c \in ended => task'[c] = Explorer!NoCall
           /\ \A c \in Task : c \notin ended => SameCall(task[c], task'[c])
  <1>1. \A c \in Task : Explorer!Partner(c) \subseteq Task \cup {Nothing} \cup {task[c].with}
    BY DEF Explorer!Partner
  <1>2. ASSUME NEW c \in Task, c \notin ended
        PROVE  task'[c] \in Visits /\ SameCall(task[c], task'[c])
    <2>1. task[c] \in Visits
      OBVIOUS
    <2>2. task'[c] = task[c] \/ task'[c] = [task[c] EXCEPT !.with = Nothing, !.all = ~failed]
      BY <1>2 DEF Explorer!Return
    <2>3. CASE task[c] \in Visit
      BY <2>2, <2>3 DEF Visits, Visit, SameCall
    <2>4. CASE task[c] = Explorer!NoCall
      <3>1. [Explorer!NoCall EXCEPT !.with = Nothing, !.all = ~failed] = Explorer!NoCall
        BY DEF Explorer!NoCall
      <3> QED BY <3>1, <2>2, <2>4 DEF SameCall, Visits
    <2> QED BY <2>1, <2>3, <2>4 DEF Visits
  <1>3. \A c \in Task : c \in ended => task'[c] = Explorer!NoCall
    BY DEF Explorer!Return
  <1>4. task' \in [Task -> Visits]
    BY <1>2, <1>3 DEF Explorer!Return, Visits
  <1> QED
    BY <1>2, <1>3, <1>4

\* Nothing but what ends asks that the page goes on loading.
LEMMA ReturnEffect ==
    ASSUME task \in [Task -> Visits], loading \in BOOLEAN, late \in BOOLEAN,
           NEW ended \in SUBSET Task, NEW failed \in BOOLEAN, NEW load \in BOOLEAN,
           NEW tardy \in BOOLEAN, Explorer!Return(ended, failed, load, tardy)
    PROVE  /\ task' \in [Task -> Visits]
           /\ \A c \in Task : c \in ended => task'[c] = Explorer!NoCall
           /\ \A c \in Task : c \notin ended => SameCall(task[c], task'[c])
           /\ loading' \in BOOLEAN /\ late' \in BOOLEAN
           /\ loading' => load
           /\ loading' /\ (late \/ tardy) => late'
  <1>1. Explorer!EndsRefresh(ended, failed) \in BOOLEAN
    BY DEF Explorer!EndsRefresh
  <1>2. loading' = (load /\ ~Explorer!EndsRefresh(ended, failed))
        /\ late' = ((late \/ tardy) /\ loading')
    BY DEF Explorer!Return
  <1>3. /\ loading' \in BOOLEAN /\ late' \in BOOLEAN
        /\ loading' => load
        /\ loading' /\ (late \/ tardy) => late'
    BY <1>1, <1>2
  <1> QED
    BY <1>3, ReturnTasks

\* No call but those that still wait for the snapshot is of importance to what
\* they wait for.
LEMMA PageGoesOn ==
    ASSUME ExplorerInv, task' \in [Task -> Visits],
           UNCHANGED <<dir, served, stored, flight, waiting, calls>>,
           micro' \in [Task -> Explorer!Answer \cup {Explorer!Unanswered}],
           requestId' \in Nat, requestId' >= requestId,
           \A c \in Task : micro'[c] \in {micro[c], Explorer!Unanswered},
           \A c \in Task : Moves(task[c], task'[c]),
           \A c \in Task : Waits(c) \/ micro'[c] # Explorer!Unanswered
                             => SameCall(task[c], task'[c])
    PROVE  /\ CallsHeld' /\ QueuesHeld' /\ InTurn' /\ FlightIsNew'
           /\ Explorer!ForcedReadsAfterCall'
  <1> USE ExplorerRecords DEF Explorer!NoCall
  <1>1. /\ \A c \in Task : Underway(c)' => /\ Underway(c)
                                          /\ task'[c].op = task[c].op
                                          /\ task'[c].on = task[c].on
                                          /\ task'[c].force = task[c].force
                                          /\ task'[c].request = task[c].request
        /\ \A c \in Task : Underway(c)' => task'[c].turn \in {0, task[c].turn}
                                          /\ task'[c].since \in {0, task[c].since}
        /\ \A c \in Task : Underway(c)' /\ task'[c].at = "snapshot"
                             => SameCall(task[c], task'[c])
    BY DEF Moves, SameCall, Underway
  <1>2. CallsHeld'
    <2> SUFFICES ASSUME NEW c \in Task, Underway(c)'
                 PROVE  /\ task'[c].op = "node" => task'[c].on \in Node
                        /\ task'[c].op \in Special => task'[c].on = task'[c].op
                        /\ task'[c].at = "catalog" => task'[c].op \in Special
                        /\ task'[c].request <= requestId'
                        /\ task'[c].turn < calls'
                        /\ task'[c].since <= served'.version
      BY DEF CallsHeld, ExplorerInv
    <2>1. /\ task[c].request \in Nat /\ task[c].turn \in Nat /\ task[c].since \in Nat
          /\ task[c].op = "node" => task[c].on \in Node
          /\ task[c].op \in Special => task[c].on = task[c].op
          /\ task'[c].at = "catalog" => task[c].op \in Special
          /\ task[c].request <= requestId /\ task[c].turn < calls
          /\ task[c].since <= served.version
      BY <1>1 DEF ExplorerInv, ExplorerTypes, CallsHeld, Visits, Visit, Underway, Moves, SameCall
    <2>2. calls \in Nat /\ served.version \in Nat /\ requestId \in Nat
      BY ExplorerConstants DEF ExplorerInv, ExplorerTypes, Explorer!TypeOK, Explorer!ClientTypeOK,
                               Explorer!Snapshot
    <2>3. task'[c].turn < calls /\ task'[c].since <= served.version
      BY <1>1, <2>1, <2>2
    <2> QED BY <1>1, <2>1, <2>2, <2>3
  <1>3. QueuesHeld'
    BY <1>1 DEF ExplorerInv, QueuesHeld, Waits, Told, Underway, SameCall
  <1>4. InTurn'
    BY <1>1 DEF ExplorerInv, InTurn, Underway, SameCall
  <1>5. FlightIsNew'
    BY <1>1 DEF ExplorerInv, FlightIsNew, Waits, SameCall
  <1>6. Explorer!ForcedReadsAfterCall'
    BY <1>1 DEF ExplorerInv, Explorer!ForcedReadsAfterCall, SameCall
  <1> QED BY <1>2, <1>3, <1>4, <1>5, <1>6

\* The page opens with the two calls of refreshAll.
LEMMA ExplorerStart == Explorer!Init => ExplorerInv
  <1> SUFFICES ASSUME Explorer!Init PROVE ExplorerInv
    OBVIOUS
  <1> USE ExplorerConstants, ExplorerRecords
  <1>1. PICK t \in Task, u \in Task :
           /\ t # u
           /\ task = [c \in Task |->
                 IF c = t THEN Explorer!Called("tree", "tree", TRUE, 0, 0, u)
                 ELSE IF c = u THEN Explorer!Called("node", selected, TRUE, 1, 1, t)
                 ELSE Explorer!NoCall]
           /\ waiting = [c \in Task |-> IF c \in {t, u} THEN "forced" ELSE "no"]
    BY DEF Explorer!Init
  <1>2. /\ dir = 1 /\ served \in Explorer!Snapshot /\ served.version \in {0, 1}
        /\ stored = Explorer!NoSnapshot /\ stored \in Explorer!Snapshot
        /\ flight = [up |-> TRUE, answer |-> Explorer!Unanswered]
        /\ micro = [c \in Task |-> Explorer!Unanswered] /\ revised = FALSE
    <2>1. /\ dir = 1 /\ served \in {Explorer!NoSnapshot, [version |-> 1, usable |-> TRUE]}
          /\ stored = Explorer!NoSnapshot
          /\ flight = [up |-> TRUE, answer |-> Explorer!Unanswered]
          /\ micro = [c \in Task |-> Explorer!Unanswered] /\ revised = FALSE
      BY DEF Explorer!Init, Explorer!ClientInit, Explorer!Silent
    <2>2. /\ Explorer!NoSnapshot \in Explorer!Snapshot /\ Explorer!NoSnapshot.version = 0
          /\ [version |-> 1, usable |-> TRUE] \in Explorer!Snapshot
          /\ [version |-> 1, usable |-> TRUE].version = 1
      BY DEF Explorer!NoSnapshot, Explorer!Snapshot
    <2>3. served \in Explorer!Snapshot /\ served.version \in {0, 1}
      BY <2>1, <2>2
    <2> QED BY <2>1, <2>2, <2>3
  <1>3. /\ calls = 2 /\ selected \in Node /\ view = Explorer!Empty /\ tree = 0 /\ loading = TRUE
        /\ requestId = 1 /\ late = FALSE /\ cache = [n \in Node |-> 0]
        /\ promises = [n \in Node |-> Nothing]
    BY DEF Explorer!Init
  <1> DEFINE a == [op |-> "tree", at |-> "snapshot", on |-> "tree", force |-> TRUE, request |-> 0,
                   joins |-> Nothing, got |-> "nothing", version |-> 0, all |-> TRUE, with |-> u,
                   turn |-> 0, since |-> served.version, alone |-> FALSE]
             b == [op |-> "node", at |-> "snapshot", on |-> selected, force |-> TRUE,
                   request |-> 1, joins |-> Nothing, got |-> "nothing", version |-> 0,
                   all |-> TRUE, with |-> t, turn |-> 1, since |-> served.version,
                   alone |-> FALSE]
  <1>4. /\ Explorer!Called("tree", "tree", TRUE, 0, 0, u) = a
        /\ Explorer!Called("node", selected, TRUE, 1, 1, t) = b
    BY <1>2 DEF Explorer!Called
  <1>5. /\ a \in Visit /\ b \in Visit
        /\ a.op = "tree" /\ a.at = "snapshot" /\ a.force /\ a.request = 0 /\ a.turn = 0
        /\ a.since = served.version /\ ~a.alone
        /\ b.op = "node" /\ b.at = "snapshot" /\ b.on = selected /\ b.force /\ b.request = 1
        /\ b.turn = 1 /\ b.since = served.version /\ ~b.alone
    BY <1>2, <1>3 DEF Visit
  <1>6. /\ task[t] = a /\ task[u] = b
        /\ \A c \in Task : c \notin {t, u} => task[c] = Explorer!NoCall
        /\ task \in [Task -> Visits]
    <2> HIDE DEF a, b
    <2> QED BY <1>1, <1>4, <1>5 DEF Visits
  <1> HIDE DEF a, b
  <1>7. /\ view.request = 0 /\ view.of = "nothing" /\ view.version = 0
        /\ view \in [of : Node \cup Special \cup {"nothing"}, version : 0 .. MaxVersion,
                     source : {"none", "node", "forced", "special"}, request : Nat]
    BY <1>3 DEF Explorer!Empty
  <1>8. /\ flight.up /\ flight.answer = Explorer!Unanswered
        /\ flight \in [up : {TRUE},
                       answer : Explorer!Snapshot \cup {Explorer!Lost, Explorer!Unanswered}]
    BY <1>2
  <1>9. ExplorerTypes
    <2>1. waiting \in [Task -> Explorer!Stage \cup {"no"}]
      BY <1>1 DEF Explorer!Stage
    <2>2. Explorer!ClientTypeOK
      <3>1. /\ dir \in 1 .. MaxVersion
            /\ micro \in [Task -> Explorer!Answer \cup {Explorer!Unanswered}]
        BY <1>2
      <3> QED BY <2>1, <3>1, <1>2, <1>8 DEF Explorer!ClientTypeOK
    <2>3. /\ calls \in 0 .. MaxNavigations /\ tree \in 0 .. MaxVersion
          /\ cache \in [Node -> 0 .. MaxVersion]
          /\ promises \in [Node -> Task \cup {Nothing}]
          /\ view.request <= requestId
      BY <1>3, <1>7
    <2>4. Explorer!TypeOK
      BY <2>2, <2>3, <1>3, <1>7 DEF Explorer!TypeOK, Explorer!Place
    <2> QED BY <2>4, <1>3, <1>6, <1>7, <1>8 DEF ExplorerTypes
  <1>10. CallsHeld
    BY <1>2, <1>3, <1>5, <1>6 DEF CallsHeld, Underway
  <1>11. QueuesHeld
    BY <1>1, <1>2, <1>5, <1>6, <1>8 DEF QueuesHeld, Underway, Waits, Told
  <1>12. InTurn
    BY <1>5, <1>6 DEF InTurn, Underway
  <1>13. FlightIsNew
    BY <1>8 DEF FlightIsNew
  <1>14. NavigationsWait
    BY <1>1, <1>2, <1>5, <1>6 DEF NavigationsWait, Waits, Told
  <1>15. LoadingIsOwed
    BY <1>5, <1>6 DEF LoadingIsOwed
  <1>16. Explorer!ForcedReadsAfterCall /\ Explorer!PromisesAreAwaited
    BY <1>2, <1>3 DEF Explorer!ForcedReadsAfterCall, Explorer!PromisesAreAwaited
  <1> QED
    BY <1>9, <1>10, <1>11, <1>12, <1>13, <1>14, <1>15, <1>16 DEF ExplorerInv

\* What the types say of the versions and the counters.
LEMMA ExplorerCounts ==
    ASSUME ExplorerInv
    PROVE  /\ dir \in 1 .. MaxVersion /\ dir \in Nat
           /\ served \in Explorer!Snapshot /\ served.version \in 0 .. MaxVersion
           /\ stored \in Explorer!Snapshot /\ stored.version \in 0 .. MaxVersion
           /\ stored.usable \in BOOLEAN /\ flight.up \in BOOLEAN
           /\ calls \in Nat /\ requestId \in Nat /\ view.request \in Nat
           /\ task \in [Task -> Visits] /\ loading \in BOOLEAN /\ late \in BOOLEAN
           /\ waiting \in [Task -> {"no", "forced", "last"}]
           /\ micro \in [Task -> Explorer!Answer \cup {Explorer!Unanswered}]
           /\ cache \in [Node -> 0 .. MaxVersion]
           /\ promises \in [Node -> Task \cup {Nothing}]
  <1> USE ExplorerConstants DEF ExplorerInv, ExplorerTypes, Explorer!TypeOK, Explorer!ClientTypeOK
  <1>1. dir \in Nat /\ calls \in Nat /\ view.request \in Nat
    OBVIOUS
  <1>2. /\ served.version \in 0 .. MaxVersion /\ stored.version \in 0 .. MaxVersion
        /\ stored.usable \in BOOLEAN
    BY DEF Explorer!Snapshot
  <1>3. waiting \in [Task -> {"no", "forced", "last"}]
    BY DEF Explorer!Stage
  <1> QED BY <1>1, <1>2, <1>3

\* A call that asks the snapshot begins.
LEMMA CallBegins ==
    ASSUME ExplorerInv, NEW t \in Task, NEW op \in {"tree", "node"} \cup Special,
           NEW on \in Node \cup Special \cup {"tree"}, NEW force \in BOOLEAN, NEW req \in Nat,
           Explorer!Begin(t, Explorer!Call(op, on, force, req)), Explorer!Resolve(t, force),
           UNCHANGED <<dir, served, stored, revised, view, tree, late, cache, promises>>,
           op = "node" => on \in Node /\ req = requestId + 1 /\ requestId' = requestId + 1,
           op # "node" => req = 0 /\ requestId' = requestId,
           op \in Special => on = op,
           selected' \in Node \cup Special, loading' \in BOOLEAN,
           loading' => loading \/ op \in {"node"} \cup (Special \ {"global"})
    PROVE  ExplorerInv'
  <1> USE ExplorerConstants, ExplorerRecords, ExplorerCounts
  <1> DEFINE c == Explorer!Call(op, on, force, req)
  <1>1. /\ c.op = op /\ c.at = "snapshot" /\ c.on = on /\ c.force = force /\ c.request = req
        /\ c.turn = calls /\ c.since = served.version /\ c.alone = ~flight.up
        /\ c \in Visit
    BY DEF Explorer!Call, Explorer!Called, Visit
  <1>2. /\ Explorer!Idle /\ calls < MaxNavigations /\ task[t] = Explorer!NoCall
        /\ calls' = calls + 1 /\ task' = [task EXCEPT ![t] = c]
    BY DEF Explorer!Begin
  <1> HIDE DEF c
  <1>3. /\ task' \in [Task -> Visits] /\ task'[t] = c
        /\ \A u \in Task : u # t => task'[u] = task[u]
    BY <1>1, <1>2 DEF Visits
  <1>4. /\ \A u \in Task : micro[u] = Explorer!Unanswered
        /\ ~Underway(t) /\ waiting[t] = "no"
    BY <1>2 DEF Explorer!Idle, Explorer!Silent, Underway, ExplorerInv, QueuesHeld, Waits
  <1>5. \/ /\ stored.usable /\ ~force
           /\ micro' = [micro EXCEPT ![t] = [version |-> stored.version, from |-> "held"]]
           /\ flight' = flight /\ waiting' = waiting
        \/ /\ ~stored.usable \/ force
           /\ flight' = Explorer!Launched /\ micro' = micro
           /\ waiting' = [waiting EXCEPT ![t] = IF force THEN "forced" ELSE "last"]
    BY DEF Explorer!Resolve, Explorer!ServesHeld
  <1>6. /\ flight.up => flight' = flight
        /\ ~flight.up /\ flight' # flight => flight' = [up |-> TRUE, answer |-> Explorer!Unanswered]
        /\ waiting' # waiting => flight' = Explorer!Launched
    BY <1>5 DEF Explorer!Launched
  <1>7. /\ flight'.up \in BOOLEAN
        /\ flight'.up => flight'.answer \in Explorer!Snapshot
                                            \cup {Explorer!Lost, Explorer!Unanswered}
        /\ \/ flight' = Explorer!NoFlight
           \/ flight' \in [up : {TRUE},
                           answer : Explorer!Snapshot \cup {Explorer!Lost, Explorer!Unanswered}]
    <2>1. CASE flight' = flight
      BY <2>1 DEF ExplorerInv, ExplorerTypes, Explorer!TypeOK, Explorer!ClientTypeOK
    <2>2. CASE flight' # flight
      <3>1. flight' = [up |-> TRUE, answer |-> Explorer!Unanswered]
        BY <2>2, <1>6 DEF ExplorerInv, ExplorerTypes
      <3>2. flight' \in [up : {TRUE}, answer : Explorer!Snapshot
                                               \cup {Explorer!Lost, Explorer!Unanswered}]
        BY <3>1
      <3> QED BY <3>1, <3>2
    <2> QED BY <2>1, <2>2
  <1>8. /\ waiting' \in [Task -> Explorer!Stage \cup {"no"}]
        /\ micro' \in [Task -> Explorer!Answer \cup {Explorer!Unanswered}]
    <2>1. [version |-> stored.version, from |-> "held"] \in Explorer!Answer
      BY DEF Explorer!Answer
    <2> QED BY <2>1, <1>5 DEF Explorer!Stage
  <1>9. ExplorerTypes'
    <2>1. Explorer!ClientTypeOK'
      BY <1>7, <1>8 DEF ExplorerInv, ExplorerTypes, Explorer!TypeOK, Explorer!ClientTypeOK
    <2>2. calls' \in 0 .. MaxNavigations /\ requestId' \in Nat /\ view.request <= requestId'
      BY <1>2 DEF ExplorerInv, ExplorerTypes, Explorer!TypeOK
    <2>3. Explorer!TypeOK'
      BY <2>1, <2>2 DEF ExplorerInv, ExplorerTypes, Explorer!TypeOK, Explorer!Place
    <2> QED BY <2>2, <2>3, <1>3, <1>7 DEF ExplorerInv, ExplorerTypes
  <1>10. \A u \in Task : u # t => waiting'[u] = waiting[u] /\ micro'[u] = Explorer!Unanswered
    BY <1>4, <1>5
  <1>11. CallsHeld'
    <2> SUFFICES ASSUME NEW u \in Task, Underway(u)'
                 PROVE  /\ task'[u].op = "node" => task'[u].on \in Node
                        /\ task'[u].op \in Special => task'[u].on = task'[u].op
                        /\ task'[u].at = "catalog" => task'[u].op \in Special
                        /\ task'[u].request <= requestId'
                        /\ task'[u].turn < calls'
                        /\ task'[u].since <= served'.version
      BY DEF CallsHeld, ExplorerInv
    <2>1. CASE u = t
      BY <2>1, <1>1, <1>2, <1>3
    <2>2. CASE u # t
      BY <2>2, <1>2, <1>3 DEF ExplorerInv, CallsHeld, Underway, Visits, Visit
    <2> QED BY <2>1, <2>2
  <1>12. QueuesHeld'
    <2>1. waiting'[t] # "no" => flight'.up /\ micro'[t] = Explorer!Unanswered
      BY <1>4, <1>5, <1>6 DEF Explorer!Launched
    <2>2. waiting'[t] = "forced" => force
      BY <1>4, <1>5
    <2> QED
      BY <2>1, <2>2, <1>1, <1>3, <1>6, <1>10
      DEF ExplorerInv, QueuesHeld, Waits, Told, Underway
  <1>13. InTurn'
    <2>1. ASSUME NEW u \in Task, u # t, Underway(u)'
          PROVE  task'[u].turn < calls /\ (op = "node" => task'[u].request < req)
      BY <2>1, <1>3 DEF ExplorerInv, CallsHeld, Underway, Visits, Visit
    <2>2. ASSUME NEW u \in Task, u # t, Underway(u)' PROVE task'[u].turn \in Nat
      BY <2>2, <1>3 DEF Underway, Visits, Visit
    <2> QED BY <2>1, <2>2, <1>1, <1>3 DEF ExplorerInv, InTurn, Underway
  <1>14. FlightIsNew'
    <2> SUFFICES ASSUME NEW u \in Task, Waits(u)', task'[u].force, task'[u].alone
                 PROVE  \/ flight'.answer \in {Explorer!Unanswered, Explorer!Lost}
                        \/ flight'.answer.version >= task'[u].since
      BY DEF FlightIsNew
    <2>1. CASE u = t
      <3>1. ~flight.up /\ flight' = Explorer!Launched
        BY <2>1, <1>1, <1>3, <1>4, <1>6 DEF Waits
      <3> QED BY <3>1 DEF Explorer!Launched
    <2>2. CASE u # t
      <3>1. Waits(u) /\ flight.up /\ task'[u] = task[u]
        BY <2>2, <1>3, <1>10 DEF Waits, ExplorerInv, QueuesHeld
      <3> QED BY <3>1, <1>6 DEF ExplorerInv, FlightIsNew
    <2> QED BY <2>1, <2>2
  <1>15. NavigationsWait'
    <2> SUFFICES ASSUME NEW u \in Task, task'[u].op = "node", ~task'[u].force,
                        (Waits(u) \/ Told(u))'
                 PROVE  /\ Waits(u)' => ~stored'.usable /\ Explorer!Idle'
                        /\ view'.request <= task'[u].request
                        /\ \A w \in Task : AtContent(w)' => task'[w].request < task'[u].request
      BY DEF NavigationsWait
    <2>1. \A w \in Task : AtContent(w)' => w # t /\ AtContent(w) /\ task'[w] = task[w]
      BY <1>1, <1>3 DEF AtContent
    <2>2. CASE u = t
      <3>1. op = "node" /\ ~force /\ req = requestId + 1
        BY <2>2, <1>1, <1>3
      <3>2. Waits(u)' => ~stored.usable /\ micro' = micro
        BY <2>2, <3>1, <1>4, <1>5 DEF Waits
      <3>3. \A w \in Task : AtContent(w) => task[w].request <= requestId /\ task[w].request \in Nat
        BY DEF ExplorerInv, CallsHeld, AtContent, Underway, Visits, Visit
      <3>4. view.request <= requestId
        BY DEF ExplorerInv, ExplorerTypes, Explorer!TypeOK
      <3> QED
        BY <2>1, <2>2, <3>1, <3>2, <3>3, <3>4, <1>1, <1>2, <1>3 DEF Explorer!Idle, Explorer!Silent
    <2>3. CASE u # t
      <3>1. Waits(u) /\ task'[u] = task[u]
        BY <2>3, <1>3, <1>10 DEF Waits, Told
      <3>2. ~stored.usable
        BY <3>1 DEF ExplorerInv, NavigationsWait
      <3>3. micro' = micro
        BY <3>2, <1>5
      <3> QED
        BY <2>1, <3>1, <3>2, <3>3, <1>2
        DEF ExplorerInv, NavigationsWait, Explorer!Idle, Explorer!Silent
    <2> QED BY <2>2, <2>3
  <1>16. LoadingIsOwed'
    <2>1. CASE loading /\ ~late
      <3>1. PICK u \in Task : task[u].op \in {"node"} \cup (Special \ {"global"})
        BY <2>1 DEF ExplorerInv, LoadingIsOwed
      <3>2. u # t
        BY <3>1, <1>2
      <3> QED BY <3>1, <3>2, <1>3 DEF LoadingIsOwed
    <2>2. CASE ~loading \/ late
      BY <2>2, <1>1, <1>3 DEF LoadingIsOwed
    <2> QED BY <2>1, <2>2
  <1>17. Explorer!ForcedReadsAfterCall'
    <2>1. micro'[t] # Explorer!Unanswered => ~force
      BY <1>4, <1>5
    <2> QED BY <2>1, <1>1, <1>3, <1>10 DEF Explorer!ForcedReadsAfterCall
  <1>18. Explorer!PromisesAreAwaited'
    BY <1>2, <1>3 DEF ExplorerInv, Explorer!PromisesAreAwaited
  <1> QED
    BY <1>9, <1>11, <1>12, <1>13, <1>14, <1>15, <1>16, <1>17, <1>18 DEF ExplorerInv

\* A call that asks another copy of the hook, or a job, begins.
LEMMA CatalogBegins ==
    ASSUME ExplorerInv, NEW t \in Task, NEW s \in Special, Explorer!LoadCatalogView(t, s)
    PROVE  ExplorerInv'
  <1> USE ExplorerConstants, ExplorerRecords, ExplorerCounts
  <1> DEFINE a == IF s = "global" THEN "job" ELSE "catalog"
             b == Explorer!Call(s, s, FALSE, 0)
             c == [b EXCEPT !.at = a]
  <1>1. /\ Explorer!Idle /\ calls < MaxNavigations /\ task[t] = Explorer!NoCall
        /\ calls' = calls + 1 /\ task' = [task EXCEPT ![t] = c]
        /\ loading' = (loading \/ s = "computers")
        /\ UNCHANGED <<dir, served, stored, flight, waiting, micro, revised, selected, view, tree,
                       requestId, late, cache, promises>>
        /\ s \in {"computers", "global"}
    BY DEF Explorer!LoadCatalogView, Explorer!Begin, Explorer!clientVars
  <1>2. b \in Visit /\ b.op = s /\ b.on = s /\ b.request = 0 /\ b.turn = calls
        /\ b.since = served.version
    BY DEF Explorer!Call, Explorer!Called, Visit
  <1> HIDE DEF b
  <1>3. /\ c \in Visit /\ c.op = s /\ c.on = s /\ c.request = 0 /\ c.turn = calls
        /\ c.since = served.version /\ c.at # "snapshot"
    BY <1>1, <1>2 DEF Visit
  <1> HIDE DEF c, a
  <1>4. /\ task' \in [Task -> Visits] /\ task'[t] = c
        /\ \A u \in Task : u # t => task'[u] = task[u]
    BY <1>1, <1>3 DEF Visits
  <1>5. /\ \A u \in Task : micro[u] = Explorer!Unanswered
        /\ ~Underway(t) /\ waiting[t] = "no"
    BY <1>1 DEF Explorer!Idle, Explorer!Silent, Underway, ExplorerInv, QueuesHeld, Waits
  <1>6. ExplorerTypes'
    <2>1. Explorer!ClientTypeOK'
      BY <1>1 DEF ExplorerInv, ExplorerTypes, Explorer!TypeOK, Explorer!ClientTypeOK
    <2>2. calls' \in 0 .. MaxNavigations /\ loading' \in BOOLEAN
      BY <1>1 DEF ExplorerInv, ExplorerTypes, Explorer!TypeOK
    <2>3. Explorer!TypeOK'
      BY <1>1, <2>1, <2>2 DEF ExplorerInv, ExplorerTypes, Explorer!TypeOK
    <2> QED BY <1>1, <1>4, <2>3 DEF ExplorerInv, ExplorerTypes
  <1>7. CallsHeld'
    BY <1>1, <1>3, <1>4 DEF ExplorerInv, CallsHeld, Underway, Visits, Visit
  <1>8. QueuesHeld'
    BY <1>1, <1>4, <1>5 DEF ExplorerInv, QueuesHeld, Waits, Told, Underway
  <1>9. InTurn'
    BY <1>3, <1>4 DEF ExplorerInv, InTurn, Underway
  <1>10. FlightIsNew'
    BY <1>1, <1>4, <1>5 DEF ExplorerInv, FlightIsNew, Waits
  <1>11. NavigationsWait'
    BY <1>1, <1>3, <1>4
    DEF ExplorerInv, NavigationsWait, Waits, Told, AtContent, Explorer!Idle, Explorer!Silent
  <1>12. LoadingIsOwed'
    BY <1>1, <1>3, <1>4 DEF ExplorerInv, LoadingIsOwed
  <1>13. Explorer!ForcedReadsAfterCall'
    BY <1>1, <1>5 DEF Explorer!ForcedReadsAfterCall
  <1>14. Explorer!PromisesAreAwaited'
    BY <1>1, <1>4 DEF ExplorerInv, Explorer!PromisesAreAwaited
  <1> QED
    BY <1>6, <1>7, <1>8, <1>9, <1>10, <1>11, <1>12, <1>13, <1>14 DEF ExplorerInv

\* The directory, the server and the request that is up.
LEMMA ServerStep ==
    ASSUME ExplorerInv, UNCHANGED Explorer!pageVars,
           Explorer!ChangeDirectory \/ Explorer!Publish \/ Explorer!Serve \/ Explorer!Poll
    PROVE  ExplorerInv'
  <1> USE ExplorerConstants, ExplorerRecords, ExplorerCounts
  <1>1. /\ Explorer!Idle
        /\ UNCHANGED <<stored, waiting, micro, revised, task, calls, selected, view, tree, loading,
                       requestId, late, cache, promises>>
    BY DEF Explorer!ChangeDirectory, Explorer!Publish, Explorer!Serve, Explorer!Poll,
           Explorer!pageVars
  <1>2. \A u \in Task : micro[u] = Explorer!Unanswered
    BY <1>1 DEF Explorer!Idle, Explorer!Silent
  <1>3. /\ dir' \in 1 .. MaxVersion /\ served' \in Explorer!Snapshot
        /\ served'.version <= dir' /\ served'.version >= served.version
    <2>1. CASE Explorer!ChangeDirectory
      BY <2>1 DEF Explorer!ChangeDirectory, ExplorerInv, CallsHeld
    <2>2. CASE Explorer!Publish
      <3>1. served' = [version |-> dir, usable |-> TRUE]
            \/ served' = [served EXCEPT !.usable = FALSE]
        BY <2>2 DEF Explorer!Publish
      <3>2. /\ [version |-> dir, usable |-> TRUE] \in Explorer!Snapshot
            /\ [version |-> dir, usable |-> TRUE].version = dir
        BY DEF Explorer!Snapshot
      <3>3. /\ [served EXCEPT !.usable = FALSE] \in Explorer!Snapshot
            /\ [served EXCEPT !.usable = FALSE].version = served.version
        BY DEF Explorer!Snapshot
      <3>4. /\ served' \in Explorer!Snapshot
            /\ served'.version \in {dir, served.version}
        BY <3>1, <3>2, <3>3
      <3> QED BY <2>2, <3>4 DEF Explorer!Publish, ExplorerInv, CallsHeld
    <2>3. CASE Explorer!Serve \/ Explorer!Poll
      BY <2>3 DEF Explorer!Serve, Explorer!Poll, ExplorerInv, CallsHeld
    <2> QED BY <2>1, <2>2, <2>3
  <1>4. \/ flight' = flight
        \/ /\ flight.up
           /\ \E a \in {served, Explorer!Lost} : flight' = [flight EXCEPT !.answer = a]
        \/ ~flight.up /\ flight' = [up |-> TRUE, answer |-> Explorer!Unanswered]
    BY DEF Explorer!ChangeDirectory, Explorer!Publish, Explorer!Serve, Explorer!Poll,
           Explorer!Launched
  <1>5. ASSUME flight.up
        PROVE  /\ flight' \in [up : {TRUE}, answer : Explorer!Snapshot
                                                   \cup {Explorer!Lost, Explorer!Unanswered}]
               /\ flight'.up
               /\ flight'.answer \in {flight.answer, served, Explorer!Lost}
    <2>1. flight \in [up : {TRUE}, answer : Explorer!Snapshot
                                           \cup {Explorer!Lost, Explorer!Unanswered}]
      BY <1>5 DEF ExplorerInv, ExplorerTypes
    <2>2. CASE flight' = flight
      BY <2>1, <2>2
    <2>3. CASE flight' # flight
      <3>1. PICK a \in {served, Explorer!Lost} : flight' = [flight EXCEPT !.answer = a]
        BY <1>4, <1>5, <2>3
      <3>2. a \in Explorer!Snapshot \cup {Explorer!Lost}
        OBVIOUS
      <3> QED BY <2>1, <3>1, <3>2
    <2> QED BY <2>2, <2>3
  <1>6. ASSUME ~flight.up
        PROVE  flight' = Explorer!NoFlight
               \/ flight' \in [up : {TRUE}, answer : Explorer!Snapshot
                                                    \cup {Explorer!Lost, Explorer!Unanswered}]
    <2>1. flight = Explorer!NoFlight
      BY <1>6 DEF ExplorerInv, ExplorerTypes
    <2>2. [up |-> TRUE, answer |-> Explorer!Unanswered]
             \in [up : {TRUE}, answer : Explorer!Snapshot
                                       \cup {Explorer!Lost, Explorer!Unanswered}]
      OBVIOUS
    <2> QED BY <1>4, <1>6, <2>1, <2>2
  <1>7. /\ flight'.up \in BOOLEAN
        /\ flight'.up => flight'.answer \in Explorer!Snapshot
                                            \cup {Explorer!Lost, Explorer!Unanswered}
        /\ flight' = Explorer!NoFlight
           \/ flight' \in [up : {TRUE}, answer : Explorer!Snapshot
                                                \cup {Explorer!Lost, Explorer!Unanswered}]
    BY <1>5, <1>6
  <1>8. ExplorerTypes'
    <2>1. Explorer!ClientTypeOK'
      BY <1>1, <1>3, <1>7 DEF ExplorerInv, ExplorerTypes, Explorer!TypeOK, Explorer!ClientTypeOK
    <2>2. Explorer!TypeOK'
      BY <1>1, <2>1 DEF ExplorerInv, ExplorerTypes, Explorer!TypeOK
    <2> QED BY <1>1, <1>7, <2>2 DEF ExplorerInv, ExplorerTypes
  <1>9. \A u \in Task : Underway(u) => task[u].since \in Nat
    BY DEF Underway, Visits, Visit
  <1>10. CallsHeld'
    <2>1. \A u \in Task : Underway(u) => task[u].since <= served'.version
      <3>1. served'.version \in Nat
        BY <1>3 DEF Explorer!Snapshot
      <3> QED BY <3>1, <1>3, <1>9 DEF ExplorerInv, CallsHeld
    <2> QED BY <1>1, <1>3, <2>1 DEF ExplorerInv, CallsHeld, Underway
  <1>11. QueuesHeld'
    BY <1>1, <1>5 DEF ExplorerInv, QueuesHeld, Waits, Told, Underway
  <1>12. InTurn'
    BY <1>1 DEF ExplorerInv, InTurn, Underway
  <1>13. FlightIsNew'
    <2> SUFFICES ASSUME NEW u \in Task, Waits(u), task[u].force, task[u].alone
                 PROVE  \/ flight'.answer \in {Explorer!Unanswered, Explorer!Lost}
                        \/ flight'.answer.version >= task[u].since
      BY <1>1 DEF FlightIsNew, Waits
    <2>1. flight.up /\ Underway(u)
      BY DEF ExplorerInv, QueuesHeld
    <2>2. served.version >= task[u].since
      BY <1>9, <2>1 DEF ExplorerInv, CallsHeld
    <2>3. \/ flight.answer \in {Explorer!Unanswered, Explorer!Lost}
          \/ flight.answer.version >= task[u].since
      BY DEF ExplorerInv, FlightIsNew
    <2> QED BY <1>5, <2>1, <2>2, <2>3
  <1>14. NavigationsWait' /\ LoadingIsOwed' /\ Explorer!ForcedReadsAfterCall'
         /\ Explorer!PromisesAreAwaited'
    BY <1>1
    DEF ExplorerInv, NavigationsWait, LoadingIsOwed, Explorer!ForcedReadsAfterCall,
        Explorer!PromisesAreAwaited, Waits, Told, AtContent, Explorer!Idle, Explorer!Silent
  <1> QED
    BY <1>8, <1>10, <1>11, <1>12, <1>13, <1>14 DEF ExplorerInv

\* The request settles: the callers that awaited it are told, or ask once more.
LEMMA SettleStep ==
    ASSUME ExplorerInv, UNCHANGED Explorer!pageVars, Explorer!Settle
    PROVE  ExplorerInv'
  <1> USE ExplorerConstants, ExplorerRecords, ExplorerCounts
  <1> DEFINE now == Explorer!Kept(flight.answer)
             told == [t \in Task |-> IF waiting[t] = "no" THEN Explorer!Unanswered
                                     ELSE Explorer!Resolved(waiting[t], now)]
             again == {t \in Task : waiting[t] # "no" /\ told[t] = Explorer!Unanswered}
  <1>1. /\ Explorer!Idle /\ flight.up /\ flight.answer # Explorer!Unanswered
        /\ stored' = now /\ micro' = told
        /\ revised' = (revised \/ now.version # stored.version)
        /\ waiting' = [t \in Task |-> IF t \in again THEN "last" ELSE "no"]
        /\ flight' = IF again = {} THEN Explorer!NoFlight
                     ELSE [up |-> TRUE, answer |-> Explorer!Unanswered]
        /\ UNCHANGED <<dir, served, task, calls, selected, view, tree, loading,
                       requestId, late, cache, promises>>
    BY DEF Explorer!Settle, Explorer!pageVars
  <1>2. /\ flight.answer \in Explorer!Snapshot \cup {Explorer!Lost}
        /\ now \in Explorer!Snapshot /\ now.usable \in BOOLEAN /\ now.version \in 0 .. MaxVersion
        /\ flight.answer # Explorer!Lost => now = flight.answer
    <2>1. flight.answer \in Explorer!Snapshot \cup {Explorer!Lost}
      BY <1>1 DEF ExplorerInv, ExplorerTypes, Explorer!TypeOK, Explorer!ClientTypeOK
    <2>2. now \in Explorer!Snapshot /\ (flight.answer # Explorer!Lost => now = flight.answer)
      BY <2>1 DEF Explorer!Kept
    <2> HIDE DEF now
    <2> QED BY <2>1, <2>2 DEF Explorer!Snapshot
  <1> HIDE DEF now
  <1>3. ASSUME NEW t \in Task, waiting[t] # "no"
        PROVE  LET v == Explorer!Resolved(waiting[t], now)
               IN \/ /\ flight.answer # Explorer!Lost /\ flight.answer.usable
                     /\ v = [version |-> flight.answer.version, from |-> "fetched"]
                  \/ v = Explorer!Null
                  \/ waiting[t] = "forced" /\ v = [version |-> now.version, from |-> "fallback"]
                  \/ waiting[t] = "forced" /\ ~now.usable /\ v = Explorer!Unanswered
    BY <1>3 DEF Explorer!Resolved
  <1>4. ASSUME NEW t \in Task, waiting[t] # "no"
        PROVE  /\ Explorer!Resolved(waiting[t], now) \in Explorer!Answer \cup {Explorer!Unanswered}
               /\ t \in again => waiting[t] = "forced" /\ ~now.usable
    <2>1. flight.answer # Explorer!Lost => flight.answer.version \in 0 .. MaxVersion
      BY <1>2
    <2>2. /\ flight.answer # Explorer!Lost =>
               [version |-> flight.answer.version, from |-> "fetched"] \in Explorer!Answer
          /\ [version |-> now.version, from |-> "fallback"] \in Explorer!Answer
          /\ Explorer!Null \in Explorer!Answer
      BY <1>2, <2>1 DEF Explorer!Answer
    <2> QED BY <1>3, <1>4, <2>2
  <1>5. /\ micro' \in [Task -> Explorer!Answer \cup {Explorer!Unanswered}]
        /\ waiting' \in [Task -> Explorer!Stage \cup {"no"}]
        /\ \A t \in Task : /\ Told(t)' => Waits(t)
                           /\ Waits(t)' => Waits(t) /\ ~Told(t)' /\ task[t].force /\ flight'.up
                           /\ waiting'[t] # "forced"
    BY <1>1, <1>4 DEF Explorer!Stage, Waits, Told, ExplorerInv, QueuesHeld
  <1>6. ASSUME NEW t \in Task, Told(t)', micro'[t] # Explorer!Null, task[t].force, task[t].alone
        PROVE  micro'[t].version >= task[t].since \/ micro'[t].from = "fallback"
    <2>1. Waits(t) /\ micro'[t] = Explorer!Resolved(waiting[t], now)
      BY <1>1, <1>5, <1>6 DEF Waits
    <2>2. \/ flight.answer = Explorer!Lost
          \/ flight.answer.version >= task[t].since
      BY <1>1, <1>6, <2>1 DEF ExplorerInv, FlightIsNew
    <2> QED BY <1>3, <1>6, <2>1, <2>2 DEF Waits, Told
  <1>7. /\ flight'.up \in BOOLEAN
        /\ flight'.up => flight'.answer = Explorer!Unanswered
        /\ flight' = Explorer!NoFlight
           \/ flight' \in [up : {TRUE}, answer : Explorer!Snapshot
                                                \cup {Explorer!Lost, Explorer!Unanswered}]
    <2> HIDE DEF again
    <2>1. CASE again = {}
      BY <1>1, <2>1
    <2>2. CASE again # {}
      <3>1. flight' = [up |-> TRUE, answer |-> Explorer!Unanswered]
        BY <1>1, <2>2
      <3> QED BY <3>1
    <2> QED BY <2>1, <2>2
  <1> HIDE DEF told, again
  <1>8. ExplorerTypes'
    <2>1. Explorer!ClientTypeOK'
      BY <1>1, <1>2, <1>5, <1>7
      DEF ExplorerInv, ExplorerTypes, Explorer!TypeOK, Explorer!ClientTypeOK
    <2>2. Explorer!TypeOK'
      BY <1>1, <2>1 DEF ExplorerInv, ExplorerTypes, Explorer!TypeOK
    <2> QED BY <1>1, <1>7, <2>2 DEF ExplorerInv, ExplorerTypes
  <1>9. CallsHeld' /\ InTurn' /\ LoadingIsOwed' /\ Explorer!PromisesAreAwaited'
    BY <1>1 DEF ExplorerInv, CallsHeld, InTurn, LoadingIsOwed, Explorer!PromisesAreAwaited,
       Underway
  <1>10. QueuesHeld'
    BY <1>1, <1>5 DEF ExplorerInv, QueuesHeld, Underway, Waits, Told
  <1>11. FlightIsNew'
    BY <1>1, <1>5, <1>7 DEF FlightIsNew
  <1>12. NavigationsWait'
    BY <1>1, <1>5 DEF ExplorerInv, NavigationsWait, AtContent
  <1>13. Explorer!ForcedReadsAfterCall'
    BY <1>1, <1>6 DEF Explorer!ForcedReadsAfterCall, Told
  <1> QED
    BY <1>8, <1>9, <1>10, <1>11, <1>12, <1>13 DEF ExplorerInv

\* The types of what the page shows.
PageTyped ==
    /\ selected \in Node \cup Special
    /\ view \in [of : Node \cup Special \cup {"nothing"}, version : 0 .. MaxVersion,
                 source : {"none", "node", "forced", "special"}, request : Nat]
    /\ tree \in 0 .. MaxVersion /\ loading \in BOOLEAN /\ late \in BOOLEAN
    /\ cache \in [Node -> 0 .. MaxVersion]
    /\ promises \in [Node -> Task \cup {Nothing}]

LEMMA PageTypes ==
    ASSUME ExplorerInv, UNCHANGED <<dir, served, stored, flight, waiting, calls>>,
           micro' \in [Task -> Explorer!Answer \cup {Explorer!Unanswered}],
           revised' \in BOOLEAN, task' \in [Task -> Visits], PageTyped',
           requestId' \in Nat, view'.request <= requestId'
    PROVE  ExplorerTypes'
  <1>1. Explorer!ClientTypeOK'
    BY DEF ExplorerInv, ExplorerTypes, Explorer!TypeOK, Explorer!ClientTypeOK
  <1>2. view'.of \in Node \cup Special \cup {"nothing"} /\ view'.version \in 0 .. MaxVersion
    BY DEF PageTyped
  <1>3. Explorer!TypeOK'
    BY <1>1, <1>2 DEF ExplorerInv, ExplorerTypes, Explorer!TypeOK, Explorer!Place, PageTyped
  <1> QED BY <1>3 DEF ExplorerInv, ExplorerTypes, PageTyped

LEMMA PageIsTyped == ExplorerInv => PageTyped
  BY DEF ExplorerInv, ExplorerTypes, Explorer!TypeOK, Explorer!Place, PageTyped

\* The first of the callers told goes on.
LEMMA AnswerGoesOn ==
    ASSUME ExplorerInv, NEW t \in Task, task[t].at = "snapshot", Explorer!Answered(t),
           task' \in [Task -> Visits], UNCHANGED <<calls, requestId>>,
           \A c \in Task \ {t} : SameCall(task[c], task'[c]),
           Moves(task[t], task'[t]), PageTyped',
           \/ view'.request \in {view.request, 0}
           \/ task[t].op = "node" /\ view'.request = task[t].request
    PROVE  /\ ExplorerTypes' /\ CallsHeld' /\ QueuesHeld' /\ InTurn' /\ FlightIsNew'
           /\ NavigationsWait' /\ Explorer!ForcedReadsAfterCall'
  <1> USE ExplorerConstants, ExplorerRecords, ExplorerCounts
  <1>1. /\ Told(t) /\ \A c \in Task : Told(c) => task[t].turn <= task[c].turn
        /\ micro' = [micro EXCEPT ![t] = Explorer!Unanswered]
        /\ UNCHANGED <<dir, served, stored, flight, waiting, revised>>
    BY DEF Explorer!Answered, Explorer!IsFirst, Told
  <1>2. /\ Underway(t) /\ ~Waits(t) /\ ~Explorer!Idle
        /\ task[t].request \in Nat /\ task[t].request <= requestId
    BY <1>1
    DEF Told, Waits, Explorer!Idle, Explorer!Silent, ExplorerInv, QueuesHeld, CallsHeld, Underway,
        Visits, Visit
  <1>3. /\ micro' \in [Task -> Explorer!Answer \cup {Explorer!Unanswered}]
        /\ \A c \in Task : micro'[c] \in {micro[c], Explorer!Unanswered}
        /\ micro'[t] = Explorer!Unanswered
        /\ \A c \in Task : c # t => micro'[c] = micro[c]
    BY <1>1
  <1>4. /\ CallsHeld' /\ QueuesHeld' /\ InTurn' /\ FlightIsNew'
        /\ Explorer!ForcedReadsAfterCall'
    <2>1. \A c \in Task : Moves(task[c], task'[c])
      BY DEF Moves
    <2>2. \A c \in Task : Waits(c) \/ micro'[c] # Explorer!Unanswered
                              => SameCall(task[c], task'[c])
      BY <1>2, <1>3
    <2> QED BY <1>1, <1>3, <2>1, <2>2, PageGoesOn
  <1>5. view'.request <= requestId
    BY <1>2 DEF ExplorerInv, ExplorerTypes, Explorer!TypeOK
  <1>6. ExplorerTypes'
    BY <1>1, <1>3, <1>5, PageTypes DEF ExplorerInv, ExplorerTypes, Explorer!TypeOK,
       Explorer!ClientTypeOK
  <1>7. NavigationsWait'
    <2> SUFFICES ASSUME NEW u \in Task, task'[u].op = "node", ~task'[u].force,
                        (Waits(u) \/ Told(u))'
                 PROVE  /\ Waits(u)' => ~stored'.usable /\ Explorer!Idle'
                        /\ view'.request <= task'[u].request
                        /\ \A w \in Task : AtContent(w)' => task'[w].request < task'[u].request
      BY DEF NavigationsWait
    <2>1. u # t /\ (Waits(u) \/ Told(u)) /\ SameCall(task[u], task'[u])
      BY <1>1, <1>2, <1>3 DEF Waits, Told
    <2>2. /\ task[u].op = "node" /\ ~task[u].force /\ task'[u].request = task[u].request
          /\ Underway(u) /\ task[u].at = "snapshot"
      BY <2>1 DEF SameCall, ExplorerInv, QueuesHeld
    <2>3. /\ ~Waits(u) /\ Told(u) /\ view.request <= task[u].request
          /\ \A w \in Task : AtContent(w) => task[w].request < task[u].request
      BY <1>2, <2>1, <2>2 DEF ExplorerInv, NavigationsWait
    <2>4. task[t].op = "node" => task[t].request < task[u].request
      <3>1. task[t].turn \in Nat /\ task[u].turn \in Nat /\ task[t].turn <= task[u].turn
        BY <1>1, <1>2, <2>2, <2>3 DEF Underway, Visits, Visit
      <3>2. task[t].turn # task[u].turn
        BY <1>2, <2>1, <2>2 DEF ExplorerInv, InTurn
      <3> QED BY <3>1, <3>2, <1>2, <2>1, <2>2 DEF ExplorerInv, InTurn
    <2>5. task[u].request \in Nat
      BY <2>2 DEF Underway, Visits, Visit
    <2>6. view'.request <= task[u].request
      BY <1>2, <2>3, <2>4, <2>5
    <2>7. ASSUME NEW w \in Task, AtContent(w)' PROVE task'[w].request < task[u].request
      <3>1. CASE w = t
        BY <2>4, <2>7, <3>1 DEF AtContent, Moves, SameCall, Explorer!NoCall
      <3>2. CASE w # t
        BY <2>3, <2>7, <3>2 DEF AtContent, SameCall
      <3> QED BY <3>1, <3>2
    <2> QED BY <1>1, <2>2, <2>3, <2>6, <2>7 DEF Waits
  <1> QED BY <1>4, <1>6, <1>7

\* Between two turns a call that does not wait for the snapshot goes on.
LEMMA IdleGoesOn ==
    ASSUME ExplorerInv, Explorer!Idle,
           UNCHANGED <<dir, served, stored, flight, waiting, micro, calls>>,
           task' \in [Task -> Visits], revised' \in BOOLEAN,
           \A c \in Task : Moves(task[c], task'[c]),
           \A c \in Task : Underway(c) /\ task[c].at = "snapshot"
                             => SameCall(task[c], task'[c]),
           \A c \in Task : AtContent(c)' => AtContent(c),
           PageTyped', requestId' \in Nat, requestId' >= requestId, view'.request <= requestId',
           \A u \in Task : task[u].op = "node" /\ ~task[u].force /\ Waits(u)
                             => view'.request <= task[u].request
    PROVE  /\ ExplorerTypes' /\ CallsHeld' /\ QueuesHeld' /\ InTurn' /\ FlightIsNew'
           /\ NavigationsWait' /\ Explorer!ForcedReadsAfterCall'
  <1> USE ExplorerConstants, ExplorerRecords, ExplorerCounts
  <1>1. \A c \in Task : micro[c] = Explorer!Unanswered
    BY DEF Explorer!Idle, Explorer!Silent
  <1>2. \A c \in Task : Waits(c) => SameCall(task[c], task'[c])
    BY DEF ExplorerInv, QueuesHeld
  <1>3. /\ CallsHeld' /\ QueuesHeld' /\ InTurn' /\ FlightIsNew'
        /\ Explorer!ForcedReadsAfterCall'
    BY <1>1, <1>2, PageGoesOn
  <1>4. ExplorerTypes'
    BY PageTypes
  <1>5. NavigationsWait'
    <2> SUFFICES ASSUME NEW u \in Task, task'[u].op = "node", ~task'[u].force,
                        (Waits(u) \/ Told(u))'
                 PROVE  /\ Waits(u)' => ~stored'.usable /\ Explorer!Idle'
                        /\ view'.request <= task'[u].request
                        /\ \A w \in Task : AtContent(w)' => task'[w].request < task'[u].request
      BY DEF NavigationsWait
    <2>1. /\ Waits(u) /\ task[u].op = "node" /\ ~task[u].force
          /\ task'[u].request = task[u].request
      BY <1>1, <1>2 DEF Waits, Told, SameCall
    <2>2. \A w \in Task : AtContent(w)' => task'[w].request = task[w].request
      BY DEF AtContent, Moves, SameCall, Explorer!NoCall
    <2> QED
      BY <2>1, <2>2 DEF ExplorerInv, NavigationsWait, Explorer!Idle, Explorer!Silent
  <1> QED BY <1>3, <1>4, <1>5

\* Who owes that the page stops loading still does.
LEMMA LoadingStillOwed ==
    ASSUME LoadingIsOwed, loading' => loading, loading' /\ late => late',
           \A c \in Task : task[c].op \in {"node"} \cup (Special \ {"global"})
                              => task'[c].op = task[c].op
    PROVE  LoadingIsOwed'
  BY DEF LoadingIsOwed

\* The calls that read a content for the map are still there.
LEMMA PromisesStay ==
    ASSUME Explorer!PromisesAreAwaited, promises \in [Node -> Task \cup {Nothing}],
           promises' = promises, \A c \in Task : AtContent(c) => SameCall(task[c], task'[c])
    PROVE  Explorer!PromisesAreAwaited'
  BY DEF Explorer!PromisesAreAwaited, AtContent, SameCall

\* A call that had no snapshot runs a job.
LEMMA CallRunsJob ==
    ASSUME task \in [Task -> Visits], NEW t \in Task, Underway(t),
           task' = [task EXCEPT ![t].at = "job"]
    PROVE  /\ task' \in [Task -> Visits]
           /\ \A c \in Task : c # t => SameCall(task[c], task'[c])
           /\ Moves(task[t], task'[t]) /\ task'[t].op = task[t].op /\ task'[t].at = "job"
  <1> DEFINE r == [task[t] EXCEPT !.at = "job"]
  <1>1. task[t] \in Visit
    BY ExplorerRecords DEF Visits, Underway
  <1>2. /\ r \in Visit /\ r.op = task[t].op /\ r.on = task[t].on /\ r.force = task[t].force
        /\ r.request = task[t].request /\ r.turn = task[t].turn /\ r.since = task[t].since
        /\ r.at = "job"
    BY <1>1 DEF Visit
  <1>3. task' = [task EXCEPT ![t] = r]
    OBVIOUS
  <1> HIDE DEF r
  <1> QED BY <1>2, <1>3 DEF Visits, Moves, SameCall

\* What a caller is told of the snapshot has a version.
LEMMA AnswerHasVersion ==
    ASSUME ExplorerInv, NEW t \in Task, Told(t), micro[t] # Explorer!Null
    PROVE  micro[t].version \in 0 .. MaxVersion
  BY ExplorerCounts, ExplorerRecords DEF Told, Explorer!Answer

\* The end of a call that is no navigation.
LEMMA TreeStep ==
    ASSUME ExplorerInv, NEW t \in Task, Explorer!TreeAfterSnapshot(t)
    PROVE  ExplorerInv'
  <1> USE ExplorerConstants, ExplorerRecords, ExplorerCounts
  <1>1. /\ task[t].op = "tree" /\ task[t].at = "snapshot" /\ Explorer!Answered(t)
        /\ UNCHANGED <<calls, selected, view, requestId, cache, promises>>
        /\ Told(t) /\ Underway(t)
    BY DEF Explorer!TreeAfterSnapshot, Explorer!Answered, Told, Underway
  <1>2. /\ task' \in [Task -> Visits]
        /\ \A c \in Task : c # t => SameCall(task[c], task'[c])
        /\ Moves(task[t], task'[t])
        /\ tree' \in 0 .. MaxVersion /\ loading' \in BOOLEAN /\ late' \in BOOLEAN
        /\ loading' => loading
        /\ loading' /\ late => late'
    <2>1. CASE /\ micro[t] # Explorer!Null
               /\ tree' = micro[t].version
               /\ Explorer!Return({t}, FALSE, loading, FALSE)
      <3>1. {t} \in SUBSET Task /\ t \in {t} /\ \A c \in Task : c # t => c \notin {t}
        OBVIOUS
      <3> QED BY <1>1, <2>1, <3>1, ReturnEffect, AnswerHasVersion DEF Moves
    <2>2. CASE task' = [task EXCEPT ![t].at = "job"] /\ UNCHANGED <<tree, loading, late>>
      BY <1>1, <2>2, CallRunsJob DEF ExplorerInv, ExplorerTypes, Explorer!TypeOK
    <2> QED BY <2>1, <2>2 DEF Explorer!TreeAfterSnapshot
  <1>3. PageTyped'
    BY <1>1, <1>2, PageIsTyped DEF PageTyped
  <1>4. LoadingIsOwed'
    BY <1>1, <1>2, LoadingStillOwed DEF ExplorerInv, SameCall
  <1>5. Explorer!PromisesAreAwaited'
    BY <1>1, <1>2, PromisesStay DEF ExplorerInv, AtContent
  <1> QED BY <1>1, <1>2, <1>3, <1>4, <1>5, AnswerGoesOn DEF ExplorerInv

LEMMA ViewStep ==
    ASSUME ExplorerInv, NEW t \in Task, Explorer!ViewAfterSnapshot(t)
    PROVE  ExplorerInv'
  <1> USE ExplorerConstants, ExplorerRecords, ExplorerCounts
  <1>1. /\ task[t].op \in {"contacts", "search"} /\ task[t].at = "snapshot" /\ Explorer!Answered(t)
        /\ UNCHANGED <<calls, tree, requestId, cache, promises>>
        /\ Told(t) /\ Underway(t)
    BY DEF Explorer!ViewAfterSnapshot, Explorer!Answered, Told, Underway
  <1>2. task[t] \in Visit /\ task[t].op \in Special /\ task[t].on \in Special
    BY <1>1 DEF Underway, Visits, Visit, ExplorerInv, CallsHeld
  <1>3. /\ task' \in [Task -> Visits]
        /\ \A c \in Task : c # t => SameCall(task[c], task'[c])
        /\ Moves(task[t], task'[t])
        /\ selected' \in Node \cup Special
        /\ view' \in [of : Node \cup Special \cup {"nothing"}, version : 0 .. MaxVersion,
                      source : {"none", "node", "forced", "special"}, request : Nat]
        /\ view'.request \in {view.request, 0}
        /\ loading' \in BOOLEAN /\ late' \in BOOLEAN
        /\ \/ ~loading'
           \/ loading' = loading /\ late' = late /\ task'[t].op = task[t].op
    <2>1. selected \in Node \cup Special
      BY DEF ExplorerInv, ExplorerTypes, Explorer!TypeOK, Explorer!Place
    <2>2. CASE /\ micro[t] # Explorer!Null /\ selected' = task[t].on
               /\ Explorer!Shows(task[t].on, micro[t].version, "special", 0)
               /\ Explorer!Return({t}, FALSE, FALSE, FALSE)
      <3>1. {t} \in SUBSET Task /\ t \in {t} /\ \A c \in Task : c # t => c \notin {t}
        OBVIOUS
      <3>2. micro[t].version \in 0 .. MaxVersion
        BY <1>1, <2>2, AnswerHasVersion
      <3>3. /\ view'.request = 0
            /\ view' \in [of : Node \cup Special \cup {"nothing"}, version : 0 .. MaxVersion,
                          source : {"none", "node", "forced", "special"}, request : Nat]
        BY <1>2, <2>2, <3>2 DEF Explorer!Shows
      <3> QED BY <1>2, <2>2, <3>1, <3>3, ReturnEffect DEF Moves
    <2>3. CASE /\ view' = Explorer!Empty /\ Explorer!Return({t}, FALSE, FALSE, FALSE)
               /\ UNCHANGED selected
      <3>1. {t} \in SUBSET Task /\ t \in {t} /\ \A c \in Task : c # t => c \notin {t}
        OBVIOUS
      <3>2. /\ view'.request = 0
            /\ view' \in [of : Node \cup Special \cup {"nothing"}, version : 0 .. MaxVersion,
                          source : {"none", "node", "forced", "special"}, request : Nat]
        BY <2>3 DEF Explorer!Empty
      <3> QED BY <2>1, <2>3, <3>1, <3>2, ReturnEffect DEF Moves
    <2>4. CASE /\ task' = [task EXCEPT ![t].at = "job"]
               /\ UNCHANGED <<selected, view, loading, late>>
      BY <1>1, <2>1, <2>4, CallRunsJob DEF ExplorerInv, ExplorerTypes
    <2> QED BY <2>2, <2>3, <2>4 DEF Explorer!ViewAfterSnapshot
  <1>4. PageTyped'
    BY <1>1, <1>3, PageIsTyped DEF PageTyped
  <1>5. LoadingIsOwed'
    <2>1. CASE ~loading'
      BY <2>1 DEF LoadingIsOwed
    <2>2. CASE loading'
      <3>1. \A c \in Task : task'[c].op = task[c].op
        BY <1>3, <2>2 DEF SameCall
      <3>2. loading' = loading /\ late' = late
        BY <1>3, <2>2
      <3> QED BY <3>1, <3>2, LoadingStillOwed DEF ExplorerInv
    <2> QED BY <2>1, <2>2
  <1>6. Explorer!PromisesAreAwaited'
    BY <1>1, <1>3, PromisesStay DEF ExplorerInv, AtContent
  <1> QED BY <1>1, <1>3, <1>4, <1>5, <1>6, AnswerGoesOn DEF ExplorerInv

\* A content that the snapshot, the cache or nothing gives.
LEMMA NodeStep ==
    ASSUME ExplorerInv, NEW t \in Task, Explorer!NodeAfterSnapshot(t)
    PROVE  ExplorerInv'
  <1> USE ExplorerConstants, ExplorerRecords, ExplorerCounts
  <1> DEFINE n == task[t].on
             owner == IF task[t].force \/ promises[n] = Nothing THEN t ELSE promises[n]
  <1>1. /\ task[t].op = "node" /\ task[t].at = "snapshot" /\ Explorer!Answered(t)
        /\ UNCHANGED <<calls, selected, tree, requestId>>
        /\ Told(t) /\ Underway(t)
    BY DEF Explorer!NodeAfterSnapshot, Explorer!Answered, Told, Underway
  <1>2. task[t] \in Visit /\ n \in Node /\ task[t].request \in Nat
    BY <1>1 DEF Underway, Visits, Visit, ExplorerInv, CallsHeld
  <1>3. \/ /\ \E v \in 0 .. MaxVersion, f \in {"forced", "node"} :
                 Explorer!Shows(n, v, f, task[t].request)
           /\ Explorer!Return({t}, FALSE, FALSE, FALSE)
           /\ promises' = promises
           /\ cache' \in {cache, [m \in Node |-> 0]}
        \/ /\ cache' \in {cache, [m \in Node |-> 0]}
           /\ loading' = TRUE
           /\ promises' = [promises EXCEPT ![n] = owner]
           /\ task' = [task EXCEPT ![t].at = "content", ![t].joins = owner, ![t].turn = 0,
                                   ![t].since = 0, ![t].alone = FALSE]
           /\ UNCHANGED <<view, late>>
    <2>1. CASE /\ micro[t] # Explorer!Null /\ n \in Covered
               /\ Explorer!Shows(n, micro[t].version, IF task[t].force THEN "forced" ELSE "node",
                                 task[t].request)
               /\ Explorer!Return({t}, FALSE, FALSE, FALSE)
               /\ UNCHANGED <<cache, promises>>
      BY <1>1, <2>1, AnswerHasVersion
    <2>2. CASE /\ cache' = (IF task[t].force THEN [m \in Node |-> 0] ELSE cache)
               /\ ~task[t].force /\ cache[n] # 0
               /\ Explorer!Shows(n, cache[n], "node", task[t].request)
               /\ Explorer!Return({t}, FALSE, FALSE, FALSE)
               /\ UNCHANGED promises
      BY <1>2, <2>2
    <2>3. CASE /\ cache' = (IF task[t].force THEN [m \in Node |-> 0] ELSE cache)
               /\ loading' = TRUE
               /\ promises' = [promises EXCEPT ![n] = owner]
               /\ task' = [task EXCEPT ![t].at = "content", ![t].joins = owner, ![t].turn = 0,
                                       ![t].since = 0, ![t].alone = FALSE]
               /\ UNCHANGED <<view, late>>
      BY <2>3
    <2> QED BY <2>1, <2>2, <2>3 DEF Explorer!NodeAfterSnapshot
  <1>4. cache' \in [Node -> 0 .. MaxVersion]
    <2>1. cache' = cache \/ cache' = [m \in Node |-> 0]
      BY <1>3
    <2>2. [m \in Node |-> 0] \in [Node -> 0 .. MaxVersion]
      OBVIOUS
    <2> QED BY <2>1, <2>2
  <1>5. CASE /\ \E v \in 0 .. MaxVersion, f \in {"forced", "node"} :
                   Explorer!Shows(n, v, f, task[t].request)
             /\ Explorer!Return({t}, FALSE, FALSE, FALSE)
             /\ promises' = promises
    <2> HIDE DEF owner, n
    <2>1. {t} \in SUBSET Task /\ t \in {t} /\ \A c \in Task : c # t => c \notin {t}
      OBVIOUS
    <2>2. /\ task' \in [Task -> Visits]
          /\ \A c \in Task : c # t => SameCall(task[c], task'[c])
          /\ Moves(task[t], task'[t]) /\ loading' = FALSE /\ late' \in BOOLEAN
      BY <1>5, <2>1, ReturnEffect DEF Moves
    <2>3. /\ view' \in [of : Node \cup Special \cup {"nothing"}, version : 0 .. MaxVersion,
                        source : {"none", "node", "forced", "special"}, request : Nat]
          /\ view'.request = task[t].request
      BY <1>2, <1>5 DEF Explorer!Shows
    <2>4. PageTyped'
      BY <1>1, <1>4, <1>5, <2>2, <2>3, PageIsTyped DEF PageTyped
    <2>5. Explorer!PromisesAreAwaited'
      BY <1>1, <1>5, <2>2, PromisesStay DEF ExplorerInv, AtContent
    <2> QED BY <1>1, <2>2, <2>3, <2>4, <2>5, AnswerGoesOn DEF ExplorerInv, LoadingIsOwed
  <1>6. CASE /\ loading' = TRUE
             /\ promises' = [promises EXCEPT ![n] = owner]
             /\ task' = [task EXCEPT ![t].at = "content", ![t].joins = owner, ![t].turn = 0,
                                     ![t].since = 0, ![t].alone = FALSE]
             /\ UNCHANGED <<view, late>>
    <2> DEFINE r == [task[t] EXCEPT !.at = "content", !.joins = owner, !.turn = 0, !.since = 0,
                                    !.alone = FALSE]
    <2>1. task' = [task EXCEPT ![t] = r]
      BY <1>6
    <2>2. owner \in Task
      BY <1>2
    <2>3. owner # t => /\ AtContent(owner) /\ task[owner].on = n /\ task[owner].joins = owner
      BY <1>2 DEF ExplorerInv, Explorer!PromisesAreAwaited, AtContent
    <2> HIDE DEF owner
    <2>4. /\ r \in Visit /\ r.op = "node" /\ r.at = "content" /\ r.on = n
          /\ r.force = task[t].force /\ r.request = task[t].request /\ r.joins = owner
          /\ r.turn = 0 /\ r.since = 0
      BY <1>1, <1>2, <2>2 DEF Visit
    <2> HIDE DEF r, n
    <2>5. /\ task' \in [Task -> Visits] /\ task'[t] = r
          /\ \A c \in Task : c # t => task'[c] = task[c]
      BY <2>1, <2>4 DEF Visits
    <2>6. Moves(task[t], task'[t]) /\ \A c \in Task \ {t} : SameCall(task[c], task'[c])
      BY <1>1, <2>4, <2>5 DEF Moves, SameCall, n
    <2>7. PageTyped'
      BY <1>1, <1>2, <1>4, <1>6, <2>2, PageIsTyped DEF PageTyped
    <2>8. Explorer!PromisesAreAwaited'
      <3> SUFFICES ASSUME NEW m \in Node, promises'[m] # Nothing
                   PROVE  /\ task'[promises'[m]].op = "node"
                          /\ task'[promises'[m]].at = "content"
                          /\ task'[promises'[m]].on = m
                          /\ task'[promises'[m]].joins = promises'[m]
        BY DEF Explorer!PromisesAreAwaited
      <3>1. CASE m = n
        <4>1. promises'[m] = owner
          BY <1>2, <1>6, <3>1
        <4>2. CASE owner = t
          BY <2>4, <2>5, <3>1, <4>1, <4>2
        <4>3. CASE owner # t
          BY <2>2, <2>3, <2>5, <3>1, <4>1, <4>3 DEF AtContent
        <4> QED BY <4>2, <4>3
      <3>2. CASE m # n
        <4>1. promises'[m] = promises[m] /\ promises[m] \in Task
          BY <1>6, <3>2
        <4> QED BY <1>1, <2>5, <4>1 DEF ExplorerInv, Explorer!PromisesAreAwaited
      <3> QED BY <3>1, <3>2
    <2>9. LoadingIsOwed'
      BY <2>4, <2>5 DEF LoadingIsOwed
    <2> QED BY <1>1, <1>6, <2>5, <2>6, <2>7, <2>8, <2>9, AnswerGoesOn DEF ExplorerInv
  <1> QED BY <1>3, <1>5, <1>6

\* A catalog or a job answers: the call has no part in the snapshot.
LEMMA JobStep ==
    ASSUME ExplorerInv, NEW t \in Task,
           Explorer!CatalogAnswers(t) \/ Explorer!TreeJobAnswers(t) \/ Explorer!ViewJobAnswers(t)
    PROVE  ExplorerInv'
  <1> USE ExplorerConstants, ExplorerRecords, ExplorerCounts
  <1>1. /\ Explorer!Idle /\ Underway(t) /\ task[t].op # "node" /\ task[t].at # "snapshot"
        /\ UNCHANGED <<dir, served, stored, flight, waiting, micro, revised>>
        /\ UNCHANGED <<calls, requestId, cache, promises>>
    <2>1. CASE Explorer!CatalogAnswers(t)
      BY <2>1 DEF Explorer!CatalogAnswers, Explorer!clientVars, Underway, ExplorerInv, CallsHeld
    <2>2. CASE Explorer!TreeJobAnswers(t)
      BY <2>2 DEF Explorer!TreeJobAnswers, Explorer!clientVars, Underway
    <2>3. CASE Explorer!ViewJobAnswers(t)
      BY <2>3 DEF Explorer!ViewJobAnswers, Explorer!clientVars, Underway
    <2> QED BY <2>1, <2>2, <2>3
  <1>2. task[t] \in Visit /\ (task[t].op \in Special => task[t].on \in Special)
    BY <1>1 DEF Underway, Visits, Visit, ExplorerInv, CallsHeld
  <1>3. /\ selected \in Node \cup Special /\ PageTyped
        /\ {t} \in SUBSET Task /\ t \in {t} /\ \A c \in Task : c # t => c \notin {t}
    BY PageIsTyped DEF PageTyped
  <1>4. \A v \in 0 .. MaxVersion, s \in Special :
           Explorer!Shows(s, v, "special", 0) =>
              /\ view'.request = 0
              /\ view' \in [of : Node \cup Special \cup {"nothing"}, version : 0 .. MaxVersion,
                           source : {"none", "node", "forced", "special"}, request : Nat]
    BY DEF Explorer!Shows
  <1>5. view' = Explorer!Empty =>
           /\ view'.request = 0
           /\ view' \in [of : Node \cup Special \cup {"nothing"}, version : 0 .. MaxVersion,
                        source : {"none", "node", "forced", "special"}, request : Nat]
    BY DEF Explorer!Empty
  <1>6. /\ task' \in [Task -> Visits]
        /\ \A c \in Task : c # t => SameCall(task[c], task'[c])
        /\ Moves(task[t], task'[t])
        /\ selected' \in Node \cup Special /\ tree' \in 0 .. MaxVersion
        /\ view' \in [of : Node \cup Special \cup {"nothing"}, version : 0 .. MaxVersion,
                      source : {"none", "node", "forced", "special"}, request : Nat]
        /\ view'.request \in {view.request, 0}
        /\ loading' \in BOOLEAN /\ late' \in BOOLEAN
        /\ \/ ~loading'
           \/ /\ loading' => loading
              /\ loading' /\ late => late'
              /\ task'[t].op = task[t].op \/ task[t].op \in {"tree", "global"}
    <2>1. CASE /\ task[t].op \in Special /\ selected' = task[t].on
               /\ Explorer!Shows(task[t].on, dir, "special", 0)
               /\ Explorer!Return({t}, FALSE, FALSE, FALSE) /\ UNCHANGED tree
      <3>1. dir \in 0 .. MaxVersion
        OBVIOUS
      <3>2. /\ view'.request = 0
            /\ view' \in [of : Node \cup Special \cup {"nothing"}, version : 0 .. MaxVersion,
                         source : {"none", "node", "forced", "special"}, request : Nat]
        BY <1>2, <1>4, <2>1, <3>1
      <3> QED BY <1>2, <1>3, <2>1, <3>2, ReturnEffect DEF Moves, PageTyped
    <2>2. CASE /\ task' = [task EXCEPT ![t].at = "job"]
               /\ UNCHANGED <<selected, view, loading, late, tree>>
      BY <1>1, <1>3, <2>2, CallRunsJob DEF PageTyped
    <2>3. CASE /\ task[t].op = "tree" /\ tree' \in {dir, tree}
               /\ \E failed \in BOOLEAN : Explorer!Return({t}, failed, loading, FALSE)
               /\ UNCHANGED <<selected, view>>
      <3>1. PICK failed \in BOOLEAN : Explorer!Return({t}, failed, loading, FALSE)
        BY <2>3
      <3>2. tree' \in 0 .. MaxVersion
        BY <1>3, <2>3 DEF PageTyped
      <3>3. /\ task' \in [Task -> Visits] /\ task'[t] = Explorer!NoCall
            /\ \A c \in Task : c # t => SameCall(task[c], task'[c])
            /\ loading' \in BOOLEAN /\ late' \in BOOLEAN
            /\ loading' => loading
            /\ loading' /\ late => late'
        <4>1. loading \in BOOLEAN /\ late \in BOOLEAN /\ FALSE \in BOOLEAN
          OBVIOUS
        <4> QED BY <1>3, <3>1, <4>1, ReturnEffect
      <3> QED BY <1>3, <2>3, <3>2, <3>3 DEF Moves, PageTyped
    <2>4. CASE /\ task[t].op \in Special
               /\ \/ selected' = task[t].on /\ Explorer!Shows(task[t].on, dir, "special", 0)
                  \/ view' = Explorer!Empty /\ UNCHANGED selected
                  \/ UNCHANGED <<selected, view>>
               /\ Explorer!Return({t}, FALSE, loading /\ task[t].op = "global", FALSE)
               /\ UNCHANGED tree
      <3>1. dir \in 0 .. MaxVersion
        OBVIOUS
      <3>2. /\ selected' \in Node \cup Special /\ view'.request \in {view.request, 0}
            /\ view' \in [of : Node \cup Special \cup {"nothing"}, version : 0 .. MaxVersion,
                         source : {"none", "node", "forced", "special"}, request : Nat]
        BY <1>2, <1>3, <1>4, <1>5, <2>4, <3>1 DEF PageTyped
      <3>3. (loading /\ task[t].op = "global") \in BOOLEAN
        OBVIOUS
      <3>4. /\ task' \in [Task -> Visits] /\ task'[t] = Explorer!NoCall
            /\ \A c \in Task : c # t => SameCall(task[c], task'[c])
            /\ loading' \in BOOLEAN /\ late' \in BOOLEAN
            /\ loading' => loading /\ task[t].op = "global"
            /\ loading' /\ late => late'
        BY <1>3, <2>4, <3>3, ReturnEffect
      <3> QED BY <1>3, <2>4, <3>2, <3>4 DEF Moves, PageTyped
    <2>5. CASE Explorer!CatalogAnswers(t)
      <3>1. task[t].op \in Special /\ tree' = tree
        BY <1>1, <2>5 DEF Explorer!CatalogAnswers, ExplorerInv, CallsHeld
      <3> QED BY <2>1, <2>2, <2>5, <3>1 DEF Explorer!CatalogAnswers
    <2>6. CASE Explorer!TreeJobAnswers(t)
      BY <2>3, <2>6 DEF Explorer!TreeJobAnswers
    <2>7. CASE Explorer!ViewJobAnswers(t)
      BY <2>4, <2>7 DEF Explorer!ViewJobAnswers, Explorer!ClearsLoading
    <2> QED BY <2>5, <2>6, <2>7
  <1>7. PageTyped'
    BY <1>1, <1>3, <1>6 DEF PageTyped
  <1>8. LoadingIsOwed'
    <2>1. CASE ~loading'
      BY <2>1 DEF LoadingIsOwed
    <2>2. CASE loading'
      <3>1. \A c \in Task : task[c].op \in {"node"} \cup (Special \ {"global"})
                                => task'[c].op = task[c].op
        BY <1>6, <2>2 DEF SameCall
      <3>2. (loading' => loading) /\ (loading' /\ late => late')
        BY <1>6, <2>2
      <3> QED BY <3>1, <3>2, LoadingStillOwed DEF ExplorerInv
    <2> QED BY <2>1, <2>2
  <1>9. Explorer!PromisesAreAwaited'
    BY <1>1, <1>6, PromisesStay DEF ExplorerInv, AtContent
  <1>10. /\ \A c \in Task : Moves(task[c], task'[c])
         /\ \A c \in Task : Underway(c) /\ task[c].at = "snapshot" => SameCall(task[c], task'[c])
         /\ \A c \in Task : AtContent(c)' => AtContent(c)
    BY <1>1, <1>6 DEF Moves, SameCall, AtContent, Explorer!NoCall
  <1>11. /\ view'.request <= requestId'
         /\ \A u \in Task : task[u].op = "node" /\ ~task[u].force /\ Waits(u)
                               => view'.request <= task[u].request
    <2>1. /\ view.request <= requestId
          /\ \A u \in Task : task[u].op = "node" /\ ~task[u].force /\ Waits(u)
                               => view.request <= task[u].request
      BY DEF ExplorerInv, ExplorerTypes, Explorer!TypeOK, NavigationsWait
    <2>2. \A u \in Task : task[u].op = "node" => task[u].request \in Nat
      BY DEF Visits, Visit
    <2> QED BY <1>1, <1>6, <2>1, <2>2
  <1> QED
    <2>1. requestId' \in Nat /\ requestId' >= requestId /\ revised' \in BOOLEAN
      BY <1>1 DEF ExplorerInv, ExplorerTypes, Explorer!TypeOK, Explorer!ClientTypeOK
    <2> QED
      BY <1>1, <1>6, <1>7, <1>8, <1>9, <1>10, <1>11, <2>1, IdleGoesOn DEF ExplorerInv

\* A content is read: its calls still await it.
LEMMA ReadStep ==
    ASSUME ExplorerInv, NEW t \in Task, Explorer!ContentRead(t)
    PROVE  ExplorerInv'
  <1> USE ExplorerConstants, ExplorerRecords, ExplorerCounts
  <1>1. PICK got \in {"failed", "read"} :
           task' = [task EXCEPT ![t].got = got, ![t].version = dir]
    BY DEF Explorer!ContentRead
  <1>2. /\ Explorer!Idle /\ task[t].op = "node" /\ task[t].at = "content"
        /\ UNCHANGED <<dir, served, stored, flight, waiting, micro, revised>>
        /\ UNCHANGED <<calls, selected, view, tree, loading, late, requestId, cache, promises>>
    BY DEF Explorer!ContentRead, Explorer!clientVars
  <1>3. task[t] \in Visit
    BY <1>2 DEF Visits
  <1> DEFINE r == [task[t] EXCEPT !.got = got, !.version = dir]
  <1>4. r \in Visit /\ SameCall(task[t], r)
    <2>1. dir \in 0 .. MaxVersion
      OBVIOUS
    <2> QED BY <1>3, <2>1 DEF Visit, SameCall
  <1>5. task' = [task EXCEPT ![t] = r]
    BY <1>1
  <1> HIDE DEF r
  <1>6. task' \in [Task -> Visits] /\ \A c \in Task : SameCall(task[c], task'[c])
    BY <1>4, <1>5 DEF Visits, SameCall
  <1>7. PageTyped'
    BY <1>2, PageIsTyped DEF PageTyped
  <1>8. LoadingIsOwed'
    BY <1>2, <1>6, LoadingStillOwed DEF ExplorerInv, SameCall
  <1>9. Explorer!PromisesAreAwaited'
    BY <1>2, <1>6, PromisesStay DEF ExplorerInv
  <1>10. /\ \A c \in Task : Moves(task[c], task'[c])
         /\ \A c \in Task : AtContent(c)' => AtContent(c)
    BY <1>6 DEF Moves, SameCall, AtContent
  <1>11. /\ view'.request <= requestId' /\ requestId' \in Nat /\ requestId' >= requestId
         /\ revised' \in BOOLEAN
         /\ \A u \in Task : task[u].op = "node" /\ ~task[u].force /\ Waits(u)
                               => view'.request <= task[u].request
    BY <1>2 DEF ExplorerInv, ExplorerTypes, Explorer!TypeOK, Explorer!ClientTypeOK,
       NavigationsWait
  <1> QED
    BY <1>2, <1>6, <1>7, <1>8, <1>9, <1>10, <1>11, IdleGoesOn DEF ExplorerInv

\* A content arrives: every call that awaits it ends.
LEMMA ArriveStep ==
    ASSUME ExplorerInv, NEW t \in Task, Explorer!ContentArrives(t)
    PROVE  ExplorerInv'
  <1> USE ExplorerConstants, ExplorerRecords, ExplorerCounts
  <1> DEFINE n == task[t].on
             all == {c \in Task : /\ task[c].op = "node" /\ task[c].at = "content"
                                  /\ task[c].joins = t}
             mine == {c \in all : task[c].request = requestId}
  <1>1. /\ Explorer!Idle /\ AtContent(t) /\ task[t].joins = t
        /\ promises' = [promises EXCEPT ![n] = IF @ = t THEN Nothing ELSE @]
        /\ UNCHANGED <<dir, served, stored, flight, waiting, micro, revised>>
        /\ UNCHANGED <<calls, selected, tree, requestId>>
        /\ \/ /\ mine = {}
              /\ Explorer!Return(all, FALSE, loading, TRUE)
              /\ UNCHANGED <<view, cache>>
           \/ /\ mine # {}
              /\ Explorer!Return(all, FALSE, FALSE, FALSE)
              /\ \/ view' = Explorer!Empty /\ UNCHANGED cache
                 \/ /\ \E c \in mine :
                          Explorer!Shows(n, task[t].version, "node", task[c].request)
                    /\ cache' = [cache EXCEPT ![n] = task[t].version]
    BY DEF Explorer!ContentArrives, Explorer!IsCurrent, Explorer!Unpromised, Explorer!clientVars,
           AtContent
  <1>2. task[t] \in Visit /\ n \in Node /\ task[t].version \in 0 .. MaxVersion
    BY <1>1 DEF AtContent, Visits, Visit, ExplorerInv, CallsHeld, Underway
  <1>3. /\ all \in SUBSET Task /\ t \in all
        /\ \A c \in Task : c \in all <=> AtContent(c) /\ task[c].joins = t
    BY <1>1 DEF AtContent
  <1>4. mine \subseteq all /\ \A c \in mine : task[c].request = requestId
    OBVIOUS
  <1>5. PageTyped
    BY PageIsTyped
  <1> HIDE DEF all, mine, n
  <1>6. /\ task' \in [Task -> Visits]
        /\ \A c \in Task : c \in all => task'[c] = Explorer!NoCall
        /\ \A c \in Task : c \notin all => SameCall(task[c], task'[c])
        /\ loading' \in BOOLEAN /\ late' \in BOOLEAN
        /\ loading' => late'
    <2>1. CASE Explorer!Return(all, FALSE, loading, TRUE)
      <3>1. loading \in BOOLEAN /\ late \in BOOLEAN /\ FALSE \in BOOLEAN /\ TRUE \in BOOLEAN
        OBVIOUS
      <3>2. loading' /\ (late \/ TRUE) => late'
        BY <1>3, <2>1, <3>1, ReturnEffect
      <3>3. loading' => late'
        BY <3>2
      <3>4. /\ task' \in [Task -> Visits]
            /\ \A c \in Task : c \in all => task'[c] = Explorer!NoCall
            /\ \A c \in Task : c \notin all => SameCall(task[c], task'[c])
        BY <1>3, <2>1, ReturnTasks
      <3>5. loading' \in BOOLEAN /\ late' \in BOOLEAN
        BY <1>3, <2>1, <3>1, ReturnEffect
      <3> QED BY <3>3, <3>4, <3>5
    <2>2. CASE Explorer!Return(all, FALSE, FALSE, FALSE)
      BY <1>3, <2>2, ReturnEffect DEF ExplorerInv, ExplorerTypes, Explorer!TypeOK
    <2> QED BY <1>1, <2>1, <2>2
  <1>7. /\ view' \in [of : Node \cup Special \cup {"nothing"}, version : 0 .. MaxVersion,
                      source : {"none", "node", "forced", "special"}, request : Nat]
        /\ \/ view'.request \in {view.request, 0}
           \/ mine # {} /\ view'.request = requestId
    <2>1. CASE UNCHANGED view
      BY <1>5, <2>1 DEF PageTyped
    <2>2. CASE view' = Explorer!Empty
      BY <2>2 DEF Explorer!Empty
    <2>3. ASSUME NEW c \in mine, Explorer!Shows(n, task[t].version, "node", task[c].request)
          PROVE  /\ view'.request = requestId
                 /\ view' \in [of : Node \cup Special \cup {"nothing"}, version : 0 .. MaxVersion,
                               source : {"none", "node", "forced", "special"}, request : Nat]
      BY <1>2, <1>4, <2>3 DEF Explorer!Shows
    <2> QED BY <1>1, <2>1, <2>2, <2>3
  <1>8. cache' \in [Node -> 0 .. MaxVersion]
    BY <1>1, <1>2
  <1>9. promises' \in [Node -> Task \cup {Nothing}]
    BY <1>1
  <1>10. PageTyped'
    BY <1>1, <1>5, <1>6, <1>7, <1>8, <1>9 DEF PageTyped
  <1>11. LoadingIsOwed'
    BY <1>6 DEF LoadingIsOwed
  <1>12. Explorer!PromisesAreAwaited'
    <2> SUFFICES ASSUME NEW m \in Node, promises'[m] # Nothing
                 PROVE  /\ task'[promises'[m]].op = "node"
                        /\ task'[promises'[m]].at = "content"
                        /\ task'[promises'[m]].on = m
                        /\ task'[promises'[m]].joins = promises'[m]
      BY DEF Explorer!PromisesAreAwaited
    <2>1. promises'[m] = promises[m] /\ promises[m] \in Task
      BY <1>1
    <2>2. /\ AtContent(promises[m]) /\ task[promises[m]].on = m
          /\ task[promises[m]].joins = promises[m]
      BY <2>1 DEF ExplorerInv, Explorer!PromisesAreAwaited, AtContent
    <2>3. promises[m] # t
      BY <1>1, <1>2, <2>1, <2>2 DEF n
    <2>4. promises[m] \notin all
      BY <1>3, <2>1, <2>2, <2>3
    <2> QED BY <1>6, <2>1, <2>2, <2>4 DEF AtContent, SameCall
  <1>13. /\ \A c \in Task : Moves(task[c], task'[c])
         /\ \A c \in Task : Underway(c) /\ task[c].at = "snapshot" => SameCall(task[c], task'[c])
         /\ \A c \in Task : AtContent(c)' => AtContent(c)
    BY <1>3, <1>6 DEF Moves, SameCall, AtContent, Explorer!NoCall
  <1>14. /\ view'.request <= requestId' /\ requestId' \in Nat /\ requestId' >= requestId
         /\ revised' \in BOOLEAN
    BY <1>1, <1>7 DEF ExplorerInv, ExplorerTypes, Explorer!TypeOK, Explorer!ClientTypeOK
  <1>15. ASSUME NEW u \in Task, task[u].op = "node", ~task[u].force, Waits(u)
         PROVE  view'.request <= task[u].request
    <2>1. /\ view.request <= task[u].request /\ task[u].request \in Nat
          /\ task[u].request <= requestId
          /\ \A w \in Task : AtContent(w) => task[w].request < task[u].request
      BY <1>15 DEF ExplorerInv, NavigationsWait, CallsHeld, Underway, Visits, Visit
    <2>2. mine = {}
      BY <1>3, <1>4, <2>1
    <2> QED BY <1>7, <2>1, <2>2
  <1> QED
    BY <1>1, <1>6, <1>10, <1>11, <1>12, <1>13, <1>14, <1>15, IdleGoesOn DEF ExplorerInv

\* The effect of a new revision runs: no navigation waits, for the snapshot is usable.
LEMMA RevisionStep ==
    ASSUME ExplorerInv, Explorer!RevisionEffect
    PROVE  ExplorerInv'
  <1> USE ExplorerConstants, ExplorerRecords, ExplorerCounts
  <1>1. /\ Explorer!Idle /\ revised' = FALSE
        /\ UNCHANGED <<dir, served, stored, flight, waiting, micro>>
        /\ UNCHANGED <<task, calls, selected, loading, late, promises>>
        /\ \/ UNCHANGED <<cache, tree, view, requestId>>
           \/ /\ stored.usable /\ cache' = [n \in Node |-> 0] /\ tree' = stored.version
              /\ \/ /\ selected \in Covered /\ requestId' = requestId + 1
                    /\ Explorer!Shows(selected, stored.version, "node", requestId + 1)
                 \/ UNCHANGED <<view, requestId>>
    BY DEF Explorer!RevisionEffect
  <1>2. PageTyped
    BY PageIsTyped
  <1>3. /\ view' \in [of : Node \cup Special \cup {"nothing"}, version : 0 .. MaxVersion,
                      source : {"none", "node", "forced", "special"}, request : Nat]
        /\ requestId' \in Nat /\ requestId' >= requestId /\ view'.request <= requestId'
        /\ stored.usable \/ view' = view
    <2>1. view.request <= requestId
      BY DEF ExplorerInv, ExplorerTypes, Explorer!TypeOK
    <2>2. CASE UNCHANGED <<view, requestId>>
      BY <1>2, <2>1, <2>2 DEF PageTyped
    <2>3. CASE /\ stored.usable /\ selected \in Covered /\ requestId' = requestId + 1
               /\ Explorer!Shows(selected, stored.version, "node", requestId + 1)
      BY <2>3 DEF Explorer!Shows
    <2> QED BY <1>1, <2>2, <2>3
  <1>4. cache' \in [Node -> 0 .. MaxVersion] /\ tree' \in 0 .. MaxVersion
    <2>1. [n \in Node |-> 0] \in [Node -> 0 .. MaxVersion]
      OBVIOUS
    <2> QED BY <1>1, <1>2, <2>1 DEF PageTyped
  <1>5. PageTyped'
    BY <1>1, <1>2, <1>3, <1>4 DEF PageTyped
  <1>6. \A u \in Task : task[u].op = "node" /\ ~task[u].force /\ Waits(u)
                           => view'.request <= task[u].request
    BY <1>3 DEF ExplorerInv, NavigationsWait
  <1>7. LoadingIsOwed' /\ Explorer!PromisesAreAwaited'
    BY <1>1 DEF ExplorerInv, LoadingIsOwed, Explorer!PromisesAreAwaited
  <1>8. \A c \in Task : SameCall(task[c], task'[c]) /\ Moves(task[c], task'[c])
    BY <1>1 DEF SameCall, Moves
  <1>9. \A c \in Task : AtContent(c)' => AtContent(c)
    BY <1>1 DEF AtContent
  <1> QED
    BY <1>1, <1>3, <1>5, <1>6, <1>7, <1>8, <1>9, IdleGoesOn DEF ExplorerInv

LEMMA ExplorerStep ==
    ASSUME ExplorerInv, Explorer!Next
    PROVE  ExplorerInv'
  <1> USE ExplorerConstants, ExplorerCounts
  <1>1. ASSUME Explorer!Client PROVE ExplorerInv'
    BY <1>1, ServerStep, SettleStep DEF Explorer!Client, Explorer!ClientNext
  <1>2. ASSUME NEW t \in Task, NEW n \in Node, NEW force \in BOOLEAN,
               Explorer!LoadNodeContent(t, n, force)
        PROVE  ExplorerInv'
    <2>1. requestId + 1 \in Nat /\ loading \in BOOLEAN
      OBVIOUS
    <2>2. /\ Explorer!Begin(t, Explorer!Call("node", n, force, requestId + 1))
          /\ Explorer!Resolve(t, force)
          /\ UNCHANGED <<dir, served, stored, revised, view, tree, late, cache, promises>>
          /\ requestId' = requestId + 1 /\ selected' = n /\ loading' = loading
      BY <1>2 DEF Explorer!LoadNodeContent
    <2> QED BY <2>1, <2>2, CallBegins
  <1>3. ASSUME NEW t \in Task, NEW force \in BOOLEAN, Explorer!LoadTree(t, force)
        PROVE  ExplorerInv'
    <2>1. loading \in BOOLEAN /\ selected \in Node \cup Special
      BY PageIsTyped DEF PageTyped
    <2>2. /\ Explorer!Begin(t, Explorer!Call("tree", "tree", force, 0))
          /\ Explorer!Resolve(t, force)
          /\ UNCHANGED <<dir, served, stored, revised, view, tree, late, cache, promises>>
          /\ requestId' = requestId /\ selected' = selected /\ loading' = loading
      BY <1>3 DEF Explorer!LoadTree
    <2> QED BY <2>1, <2>2, CallBegins
  <1>4. ASSUME NEW t \in Task, NEW s \in Special, Explorer!LoadSnapshotView(t, s)
        PROVE  ExplorerInv'
    <2>1. selected \in Node \cup Special /\ s \notin {"global", "tree", "node"}
      BY <1>4, PageIsTyped DEF PageTyped, Explorer!LoadSnapshotView
    <2>2. /\ Explorer!Begin(t, Explorer!Call(s, s, FALSE, 0))
          /\ Explorer!Resolve(t, FALSE)
          /\ UNCHANGED <<dir, served, stored, revised, view, tree, late, cache, promises>>
          /\ requestId' = requestId /\ selected' = selected /\ loading' = TRUE
      BY <1>4 DEF Explorer!LoadSnapshotView
    <2> QED BY <2>1, <2>2, CallBegins
  <1> QED
    BY <1>1, <1>2, <1>3, <1>4, RevisionStep, CatalogBegins, NodeStep, TreeStep, ViewStep, JobStep,
       ReadStep, ArriveStep
    DEF Explorer!Next

\* What the runs check of a state follows.
LEMMA ExplorerServes ==
    ASSUME ExplorerInv
    PROVE  /\ Explorer!TypeOK /\ Explorer!LoadingMeansBusy
           /\ Explorer!ForcedReadsAfterCall /\ Explorer!PromisesAreAwaited
  <1>1. Explorer!LoadingMeansBusy
    BY ExplorerConstants, ExplorerRecords
    DEF ExplorerInv, LoadingIsOwed, Explorer!LoadingMeansBusy
  <1> QED BY <1>1 DEF ExplorerInv, ExplorerTypes

\* What a step shows is no older navigation's, unless it is a special view's or a
\* forced refresh's.
LEMMA ExplorerShows ==
    ASSUME ExplorerInv, Explorer!Next
    PROVE  Explorer!ShowsInOrder
  <1> USE ExplorerConstants, ExplorerCounts
  <1>1. view.request <= requestId
    BY DEF ExplorerInv, ExplorerTypes, Explorer!TypeOK
  <1>2. /\ Explorer!Empty.request = 0
        /\ \A of, v, f, r : Explorer!Shows(of, v, f, r) => view'.request = r /\ view'.source = f
    BY DEF Explorer!Empty, Explorer!Shows
  <1>3. ASSUME NEW t \in Task, Explorer!NodeAfterSnapshot(t) PROVE Explorer!ShowsInOrder
    <2>1. Told(t) /\ task[t].op = "node"
      BY <1>3 DEF Explorer!NodeAfterSnapshot, Explorer!Answered, Told
    <2>2. ~task[t].force => view.request <= task[t].request
      BY <2>1 DEF ExplorerInv, NavigationsWait
    <2>3. \/ view' = view
          \/ /\ view'.request = task[t].request
             /\ task[t].force => view'.source = "forced"
      BY <1>2, <1>3 DEF Explorer!NodeAfterSnapshot
    <2> QED
      BY <2>1, <2>2, <2>3 DEF Explorer!ShowsInOrder, ExplorerInv, ExplorerTypes, Visits, Visit
  <1>4. ASSUME NEW t \in Task, Explorer!ViewAfterSnapshot(t) \/ Explorer!CatalogAnswers(t)
                               \/ Explorer!ViewJobAnswers(t)
        PROVE  Explorer!ShowsInOrder
    <2>1. view' = view \/ view'.request = 0
      BY <1>2, <1>4 DEF Explorer!ViewAfterSnapshot, Explorer!CatalogAnswers,
         Explorer!ViewJobAnswers
    <2> QED BY <2>1 DEF Explorer!ShowsInOrder
  <1>5. ASSUME NEW t \in Task, Explorer!ContentArrives(t) PROVE Explorer!ShowsInOrder
    <2>1. view' = view \/ view'.request \in {0, requestId}
      BY <1>2, <1>5 DEF Explorer!ContentArrives, Explorer!IsCurrent
    <2> QED BY <1>1, <2>1 DEF Explorer!ShowsInOrder
  <1>6. ASSUME Explorer!RevisionEffect PROVE Explorer!ShowsInOrder
    <2>1. view' = view \/ view'.request = requestId + 1
      BY <1>2, <1>6 DEF Explorer!RevisionEffect
    <2> QED BY <1>1, <2>1 DEF Explorer!ShowsInOrder
  <1>7. ASSUME view' = view PROVE Explorer!ShowsInOrder
    BY <1>7 DEF Explorer!ShowsInOrder
  <1>8. ASSUME Explorer!Client PROVE view' = view
    BY <1>8 DEF Explorer!Client, Explorer!pageVars
  <1>9. ASSUME NEW t \in Task, Explorer!TreeAfterSnapshot(t) \/ Explorer!TreeJobAnswers(t)
                               \/ Explorer!ContentRead(t)
        PROVE  view' = view
    BY <1>9 DEF Explorer!TreeAfterSnapshot, Explorer!TreeJobAnswers, Explorer!ContentRead
  <1>10. ASSUME NEW t \in Task, NEW n, NEW force,
                \/ Explorer!LoadNodeContent(t, n, force) \/ Explorer!LoadTree(t, force)
                \/ Explorer!LoadSnapshotView(t, n) \/ Explorer!LoadCatalogView(t, n)
         PROVE  view' = view
    BY <1>10 DEF Explorer!LoadNodeContent, Explorer!LoadTree, Explorer!LoadSnapshotView,
                 Explorer!LoadCatalogView
  <1> QED
    BY <1>3, <1>4, <1>5, <1>6, <1>7, <1>8, <1>9, <1>10 DEF Explorer!Next

-----------------------------------------------------------------------------
(* The object on show.                                                     *)

Shows == [of : Viewer \cup Group \cup {Nothing}, details : Viewer \cup Group \cup {Nothing},
          version : Nat]
Fetch == [op : Pane!Fetching, of : Viewer, request : Nat, acted : Nat, job : Task,
          got : {"nothing", "read", "failed"}, version : Nat]
Errand == [op : {"members", "descriptor"}, of : Viewer \cup Group]

PaneTypes ==
    /\ selected \in Shows /\ window \in Shows /\ request \in Nat
    /\ dir \in [Viewer -> Nat] /\ cache \in [Viewer -> Nat]
    /\ shared \in [Viewer -> Task \cup {Nothing}]
    /\ task \in [Task -> Fetch \cup Errand \cup {Pane!NoCall}]

\* The job of a reading under way is the one to share, or stale.
JobsAreShared ==
    \A t \in Task : Pane!Waits(t, t) => \/ shared[task[t].of] = t
                                        \/ task[t].of \in invalidated

PaneInv == PaneTypes /\ JobsAreShared /\ Pane!PaneKeepsItsObject

LEMMA PaneConstants ==
    Nothing \notin Task /\ Nothing \notin Viewer \cup Group /\ Viewer \cap Group = {}
  BY ConsoleConstants DEF Pane!Kinds

LEMMA PaneShares == PaneInv => Pane!DetailsAreShared
  BY DEF PaneInv, JobsAreShared, Pane!DetailsAreShared

LEMMA PaneRecords ==
    /\ Pane!NoItem \in Shows /\ Pane!NoItem.details = Nothing
    /\ \A o \in Viewer \cup Group : /\ Pane!Plain(o) \in Shows
                                    /\ Pane!Plain(o).details = Nothing
    /\ Pane!NoCall.op = "none"
    /\ \A c \in Fetch \cup Errand \cup {Pane!NoCall} :
          c.op \in Pane!Fetching => c \in Fetch
  BY DEF Pane!NoItem, Pane!Plain, Pane!NoCall, Shows, Fetch, Errand, Pane!Fetching

LEMMA PaneStart == Pane!Init => PaneInv
  BY PaneRecords DEF Pane!Init, PaneInv, PaneTypes, JobsAreShared, Pane!PaneKeepsItsObject,
     Pane!Waits, Pane!Fetching

\* What is shown of an object keeps to it.
Keeps(item) == item \in Shows /\ item.details \in {Nothing, item.of}

LEMMA ShownKeeps ==
    ASSUME NEW item, Keeps(item), NEW o \in Viewer \cup Group, NEW v \in Nat
    PROVE  /\ item.of = o => Keeps(Pane!Merged(item, o, v))
           /\ \A op, r : Keeps(Pane!Shown(item, op, o, v, r))
           /\ \A op, r : Pane!Shown(item, op, o, v, r) # item => item.of = o
  BY DEF Keeps, Shows, Pane!Merged, Pane!Shown, Pane!Matches

\* Reading the details of an object, when what is shown has become sel and win.
LEMMA AskStep ==
    ASSUME PaneInv, NEW t \in Task, NEW op \in Pane!Fetching, NEW o \in Viewer \cup Group,
           NEW sel, NEW win, Keeps(sel), Keeps(win), NEW acted \in Nat,
           Pane!AskDetails(t, op, o, sel, win, acted), request' \in Nat, dir' \in [Viewer -> Nat]
    PROVE  PaneInv'
  <1>1. CASE o \notin Viewer
    BY <1>1 DEF Pane!AskDetails, PaneInv, PaneTypes, JobsAreShared, Pane!PaneKeepsItsObject,
       Keeps, Pane!detailVars, Pane!Waits
  <1>2. CASE o \in Viewer /\ cache[Pane!CacheKey(o)] # 0
    <2>1. /\ selected' = Pane!Shown(sel, op, o, cache[o], request')
          /\ window' = Pane!Shown(win, op, o, cache[o], request')
          /\ UNCHANGED <<task, cache, shared, invalidated>>
      BY <1>2 DEF Pane!AskDetails, Pane!CacheKey, Pane!detailVars
    <2>2. cache[o] \in Nat
      BY <1>2 DEF PaneInv, PaneTypes
    <2>3. Keeps(selected') /\ Keeps(window')
      BY <2>1, <2>2, ShownKeeps
    <2> QED
      BY <2>1, <2>3 DEF PaneInv, PaneTypes, JobsAreShared, Pane!PaneKeepsItsObject, Keeps,
         Pane!Waits
  <1>3. CASE o \in Viewer /\ cache[Pane!CacheKey(o)] = 0
    <2> DEFINE r == [op |-> op, of |-> o, request |-> request', acted |-> acted,
                     job |-> Pane!Sharing(t, o), got |-> "nothing", version |-> 0]
    <2>1. /\ selected' = sel /\ window' = win /\ task' = [task EXCEPT ![t] = r]
          /\ shared' = [shared EXCEPT ![o] = Pane!Sharing(t, o)]
          /\ UNCHANGED <<cache, invalidated>> /\ task[t] = Pane!NoCall
      BY <1>3 DEF Pane!AskDetails, Pane!CacheKey
    <2>2. /\ Pane!Sharing(t, o) \in Task
          /\ Pane!Sharing(t, o) = IF shared[o] = Nothing THEN t ELSE shared[o]
      BY <1>3 DEF Pane!Sharing, Pane!CacheKey, PaneInv, PaneTypes
    <2>3. /\ r \in Fetch /\ r.op = op /\ r.of = o
          /\ r.job = IF shared[o] = Nothing THEN t ELSE shared[o]
      BY <1>3, <2>2 DEF Fetch
    <2> HIDE DEF r
    <2>4. PaneTypes'
      BY <2>1, <2>2, <2>3 DEF PaneInv, PaneTypes, Keeps
    <2>5. JobsAreShared'
      <3> SUFFICES ASSUME NEW w \in Task, Pane!Waits(w, w)'
                   PROVE  shared'[task'[w].of] = w \/ task'[w].of \in invalidated'
        BY DEF JobsAreShared
      <3>1. CASE w = t
        BY <3>1, <2>1, <2>2, <2>3, <1>3 DEF Pane!Waits, PaneInv, PaneTypes
      <3>2. CASE w # t
        <4>1. task'[w] = task[w] /\ Pane!Waits(w, w)
          BY <3>2, <2>1 DEF Pane!Waits, PaneInv, PaneTypes
        <4>2. shared[task[w].of] = w \/ task[w].of \in invalidated
          BY <4>1 DEF PaneInv, JobsAreShared
        <4>3. task[w].of \in Viewer
          BY <4>1, PaneRecords DEF Pane!Waits, PaneInv, PaneTypes, Fetch
        <4> QED
          BY <4>1, <4>2, <4>3, <2>1, <2>2, PaneConstants DEF PaneInv, PaneTypes
      <3> QED
        BY <3>1, <3>2
    <2> QED
      BY <2>1, <2>4, <2>5 DEF PaneInv, Pane!PaneKeepsItsObject, Keeps
  <1> QED
    BY <1>1, <1>2, <1>3

LEMMA PaneShown == PaneInv => Keeps(selected) /\ Keeps(window)
  BY DEF PaneInv, PaneTypes, Pane!PaneKeepsItsObject, Keeps

LEMMA ActivateStep ==
    ASSUME PaneInv, NEW t \in Task, NEW o \in Viewer \cup Group, Pane!Activate(t, o),
           UNCHANGED <<request, dir>>
    PROVE  PaneInv'
  <1>1. Keeps(Pane!Plain(o))
    BY PaneRecords DEF Keeps
  <1>2. CASE o \in Group
    <2> DEFINE r == [op |-> "members", of |-> o]
    <2>1. /\ selected' = Pane!Plain(o) /\ task' = [task EXCEPT ![t] = r] /\ task[t] = Pane!NoCall
          /\ UNCHANGED <<window, cache, shared, invalidated>>
      BY <1>2 DEF Pane!Activate, Pane!AskMembers, Pane!detailVars
    <2>2. r \in Errand /\ r.op = "members"
      BY DEF Errand
    <2> HIDE DEF r
    <2>3. PaneTypes'
      BY <1>1, <2>1, <2>2 DEF PaneInv, PaneTypes, Keeps
    <2>4. JobsAreShared'
      BY <2>1, <2>2 DEF PaneInv, PaneTypes, JobsAreShared, Pane!Waits, Pane!Fetching
    <2> QED
      BY <1>1, <2>1, <2>3, <2>4 DEF PaneInv, Pane!PaneKeepsItsObject, Keeps
  <1>3. CASE o \notin Group
    <2>1. Pane!AskDetails(t, "prefetch", o, Pane!Plain(o), window, 0)
      BY <1>3 DEF Pane!Activate
    <2>2. "prefetch" \in Pane!Fetching /\ request' \in Nat /\ dir' \in [Viewer -> Nat]
      BY DEF Pane!Fetching, PaneInv, PaneTypes
    <2> QED
      BY <1>1, <2>1, <2>2, AskStep, PaneShown
  <1> QED
    BY <1>2, <1>3

\* A call that ends, or begins, without the details of a user.
LEMMA ErrandStep ==
    ASSUME PaneInv, NEW t \in Task, NEW r \in Errand \cup {Pane!NoCall},
           task[t].op \notin Pane!Fetching, task' = [task EXCEPT ![t] = r],
           UNCHANGED <<selected, window, request, dir, cache, shared, invalidated>>
    PROVE  PaneInv'
  <1>1. r.op \notin Pane!Fetching
    BY DEF Errand, Pane!NoCall, Pane!Fetching
  <1>2. PaneTypes'
    BY DEF PaneInv, PaneTypes
  <1>3. JobsAreShared'
    BY <1>1 DEF PaneInv, PaneTypes, JobsAreShared, Pane!Waits
  <1> QED
    BY <1>2, <1>3 DEF PaneInv, Pane!PaneKeepsItsObject

LEMMA PaneStep ==
    ASSUME PaneInv, Pane!Next
    PROVE  PaneInv'
  <1> USE DEF Pane!paneVars, Pane!detailVars, Pane!memberVars, Pane!descriptorVars
  <1>1. CASE Pane!CloseProperties
    BY <1>1, PaneRecords DEF Pane!CloseProperties, PaneInv, PaneTypes, JobsAreShared,
       Pane!PaneKeepsItsObject, Pane!Waits
  <1>2. CASE Pane!ClearSelection
    BY <1>2, PaneRecords DEF Pane!ClearSelection, PaneInv, PaneTypes, JobsAreShared,
       Pane!PaneKeepsItsObject, Pane!Waits
  <1>3. CASE Pane!RevisionEffect
    <2>1. Keeps(selected') /\ UNCHANGED <<window, request, dir, cache, shared, invalidated, task>>
      <3>1. Keeps(Pane!Plain(selected.of)) /\ Keeps(Pane!NoItem)
        BY PaneRecords DEF Keeps, PaneInv, PaneTypes, Shows, Pane!Plain
      <3> QED
        BY <1>3, <3>1 DEF Pane!RevisionEffect
    <2> QED
      BY <2>1 DEF PaneInv, PaneTypes, JobsAreShared, Pane!PaneKeepsItsObject, Pane!Waits, Keeps
  <1>4. ASSUME NEW u \in Viewer, Pane!ChangeUser(u) PROVE PaneInv'
    BY <1>4 DEF Pane!ChangeUser, PaneInv, PaneTypes, JobsAreShared, Pane!PaneKeepsItsObject,
       Pane!Waits
  <1>5. ASSUME NEW u \in Viewer, Pane!Invalidate(u) PROVE PaneInv'
    <2>1. /\ cache' = [cache EXCEPT ![u] = 0] /\ shared' = [shared EXCEPT ![u] = Nothing]
          /\ invalidated' = invalidated \cup {u}
          /\ dir' = [dir EXCEPT ![u] = IF @ < MaxVersion THEN @ + 1 ELSE @]
          /\ UNCHANGED <<task, selected, window, request>>
      BY <1>5 DEF Pane!Invalidate, Pane!ForgottenBut, Pane!CacheKey
    <2>2. PaneTypes'
      BY <2>1 DEF PaneInv, PaneTypes
    <2>3. JobsAreShared'
      <3> SUFFICES ASSUME NEW w \in Task, Pane!Waits(w, w)
                   PROVE  shared'[task[w].of] = w \/ task[w].of \in invalidated'
        BY <2>1 DEF JobsAreShared, Pane!Waits
      <3>1. task[w].of \in Viewer
        BY PaneRecords DEF Pane!Waits, PaneInv, PaneTypes, Fetch
      <3> QED
        BY <2>1, <3>1 DEF PaneInv, PaneTypes, JobsAreShared
    <2> QED
      BY <2>1, <2>2, <2>3 DEF PaneInv, Pane!PaneKeepsItsObject
  <1>6. ASSUME NEW t \in Task, NEW o \in Viewer \cup Group, NEW chosen,
               Pane!SelectObject(t, o, chosen)
        PROVE  PaneInv'
    BY <1>6, ActivateStep DEF Pane!SelectObject
  <1>7. ASSUME NEW t \in Task, NEW o \in Viewer \cup Group, Pane!OpenProperties(t, o) PROVE PaneInv'
    <2>1. Pane!AskDetails(t, "properties", o, Pane!Plain(o), Pane!Plain(o), 0)
      BY <1>7 DEF Pane!OpenProperties
    <2>2. "properties" \in Pane!Fetching /\ request' \in Nat /\ dir' \in [Viewer -> Nat]
      BY <1>7 DEF Pane!OpenProperties, Pane!Fetching, PaneInv, PaneTypes
    <2>3. Keeps(Pane!Plain(o))
      BY PaneRecords DEF Keeps
    <2> QED
      BY <2>1, <2>2, <2>3, AskStep
  <1>8. ASSUME NEW t \in Task, NEW o \in Viewer \cup Group, NEW force \in BOOLEAN,
               Pane!LoadSecurityDescriptor(t, o, force)
        PROVE  PaneInv'
    <2>1. /\ task' = [task EXCEPT ![t] = [op |-> "descriptor", of |-> o]]
          /\ UNCHANGED <<selected, window, request, dir, cache, shared, invalidated>>
          /\ task[t].op \notin Pane!Fetching
      BY <1>8, PaneRecords DEF Pane!LoadSecurityDescriptor, Pane!Fetching
    <2>2. [op |-> "descriptor", of |-> o] \in Errand
      BY DEF Errand
    <2> QED
      BY <2>1, <2>2, ErrandStep
  <1>9. ASSUME NEW t \in Task, NEW u \in Viewer, Pane!OpenLinkedObject(t, u) PROVE PaneInv'
    <2>1. Pane!AskDetails(t, "prefetch", u, Pane!Plain(u), Pane!Plain(u), 0)
      BY <1>9 DEF Pane!OpenLinkedObject
    <2>2. "prefetch" \in Pane!Fetching /\ request' \in Nat /\ dir' \in [Viewer -> Nat]
      BY <1>9 DEF Pane!OpenLinkedObject, Pane!Fetching, PaneInv, PaneTypes
    <2>3. Keeps(Pane!Plain(u))
      BY PaneRecords DEF Keeps
    <2> QED
      BY <2>1, <2>2, <2>3, AskStep
  <1>10. ASSUME NEW t \in Task, NEW u \in Viewer, Pane!AccountActionEnds(t, u) PROVE PaneInv'
    <2>1. /\ Pane!AskDetails(t, "refresh", u, selected, window, dir'[u])
          /\ dir' = [dir EXCEPT ![u] = @ + 1] /\ request' = request
      BY <1>10 DEF Pane!AccountActionEnds
    <2>2. /\ "refresh" \in Pane!Fetching /\ request' \in Nat
          /\ dir' \in [Viewer -> Nat] /\ dir'[u] \in Nat
      BY <2>1 DEF Pane!Fetching, PaneInv, PaneTypes
    <2> QED
      BY <2>1, <2>2, AskStep, PaneShown
  <1>11. ASSUME NEW t \in Task, NEW recursive \in BOOLEAN, Pane!LoadGroupMembers(t, recursive)
         PROVE  PaneInv'
    <2>1. /\ task' = [task EXCEPT ![t] = [op |-> "members", of |-> selected.of]]
          /\ UNCHANGED <<selected, window, request, dir, cache, shared, invalidated>>
          /\ task[t].op \notin Pane!Fetching /\ selected.of \in Group
      BY <1>11, PaneRecords DEF Pane!LoadGroupMembers, Pane!AskMembers, Pane!Fetching
    <2>2. [op |-> "members", of |-> selected.of] \in Errand
      BY <2>1 DEF Errand
    <2> QED
      BY <2>1, <2>2, ErrandStep
  <1>12. ASSUME NEW t \in Task, Pane!JobAnswers(t) PROVE PaneInv'
    <2>1. PICK got \in {"read", "failed"} :
             task' = [task EXCEPT ![t].got = got, ![t].version = dir[task[t].of]]
      BY <1>12 DEF Pane!JobAnswers
    <2>2. /\ task[t] \in Fetch
          /\ UNCHANGED <<selected, window, request, dir, cache, shared, invalidated>>
      BY <1>12, PaneRecords DEF Pane!JobAnswers, Pane!Waits, PaneInv, PaneTypes
    <2> DEFINE r == [task[t] EXCEPT !.got = got, !.version = dir[task[t].of]]
    <2>3. /\ r \in Fetch /\ r.op = task[t].op /\ r.of = task[t].of /\ r.job = task[t].job
      BY <2>2 DEF Fetch, PaneInv, PaneTypes
    <2>4. task' = [task EXCEPT ![t] = r]
      BY <2>1 DEF PaneInv, PaneTypes
    <2> HIDE DEF r
    <2>5. PaneTypes'
      BY <2>2, <2>3, <2>4 DEF PaneInv, PaneTypes
    <2>6. JobsAreShared'
      BY <2>2, <2>3, <2>4 DEF PaneInv, PaneTypes, JobsAreShared, Pane!Waits
    <2> QED
      BY <2>2, <2>5, <2>6 DEF PaneInv, Pane!PaneKeepsItsObject
  <1>13. ASSUME NEW t \in Task, Pane!DetailsArrive(t) PROVE PaneInv'
    <2> DEFINE u == task[t].of
               v == task[t].version
               callers == {c \in Task : Pane!Waits(c, t)}
               news(item) == {Pane!Shown(item, task[c].op, u, v, task[c].request) : c \in callers}
                                 \ {item}
               showing(item) == IF task[t].got = "read" /\ news(item) # {}
                                THEN Pane!Merged(item, u, v) ELSE item
    <2>1. /\ Pane!Waits(t, t)
          /\ cache' = (IF task[t].got = "read" THEN [cache EXCEPT ![u] = v] ELSE cache)
          /\ shared' = [shared EXCEPT ![u] = IF @ = t THEN Nothing ELSE @]
          /\ selected' = showing(selected) /\ window' = showing(window)
          /\ task' = [c \in Task |-> IF c \in callers THEN Pane!NoCall ELSE task[c]]
          /\ UNCHANGED <<request, dir, invalidated>>
      BY <1>13 DEF Pane!DetailsArrive, Pane!CacheKey
    <2>2. u \in Viewer /\ v \in Nat
      BY <2>1, PaneRecords DEF Pane!Waits, PaneInv, PaneTypes, Fetch
    <2>3. ASSUME NEW item, Keeps(item) PROVE Keeps(showing(item))
      <3>1. ASSUME news(item) # {} PROVE item.of = u
        <4>1. PICK c \in callers : Pane!Shown(item, task[c].op, u, v, task[c].request) # item
          BY <3>1
        <4> QED
          BY <2>2, <2>3, <4>1, ShownKeeps
      <3> QED
        BY <2>2, <2>3, <3>1, ShownKeeps
    <2>4. Keeps(selected') /\ Keeps(window')
      BY <2>1, <2>3, PaneShown
    <2>5. /\ t \in callers
          /\ \A c \in Task : task'[c] = IF c \in callers THEN Pane!NoCall ELSE task[c]
          /\ task' \in [Task -> Fetch \cup Errand \cup {Pane!NoCall}]
      BY <2>1 DEF PaneInv, PaneTypes
    <2> HIDE DEF u, v, callers, news, showing
    <2>6. PaneTypes'
      BY <2>1, <2>2, <2>4, <2>5 DEF PaneInv, PaneTypes, Keeps
    <2>7. JobsAreShared'
      <3> SUFFICES ASSUME NEW w \in Task, Pane!Waits(w, w)'
                   PROVE  shared'[task'[w].of] = w \/ task'[w].of \in invalidated'
        BY DEF JobsAreShared
      <3>1. w \notin callers /\ task'[w] = task[w] /\ Pane!Waits(w, w) /\ w # t
        BY <2>5, PaneRecords DEF Pane!Waits, Pane!Fetching
      <3>2. task[w].of \in Viewer
        BY <3>1, PaneRecords DEF Pane!Waits, PaneInv, PaneTypes, Fetch
      <3> QED
        BY <2>1, <2>2, <3>1, <3>2 DEF PaneInv, PaneTypes, JobsAreShared
    <2> QED
      BY <2>4, <2>6, <2>7 DEF PaneInv, Pane!PaneKeepsItsObject, Keeps
  <1>14. ASSUME NEW t \in Task, Pane!MembersArrive(t) \/ Pane!DescriptorArrives(t) PROVE PaneInv'
    <2>1. /\ task' = [task EXCEPT ![t] = Pane!NoCall] /\ task[t].op \notin Pane!Fetching
          /\ UNCHANGED <<selected, window, request, dir, cache, shared, invalidated>>
      BY <1>14 DEF Pane!MembersArrive, Pane!DescriptorArrives, Pane!Fetching
    <2> QED
      BY <2>1, ErrandStep
  <1> QED
    BY <1>1, <1>2, <1>3, <1>4, <1>5, <1>6, <1>7, <1>8, <1>9, <1>10, <1>11, <1>12, <1>13, <1>14
       DEF Pane!Next, Pane!Object

-----------------------------------------------------------------------------
(* The dialogs of one object.                                              *)

\* Until a flag falls that another call still needs, each flag is that of one job,
\* and one account action at most awaits the mode, with no job of its kind.
FlagsAreHeld ==
    ~cleared => /\ \A j \in running : Actions!Flag(j.kind) \in busy
                /\ \A i, j \in running : Actions!Flag(i.kind) = Actions!Flag(j.kind) => i = j
                /\ \A v, w \in verifying : v = w
                /\ verifying # {} => /\ checking
                                     /\ \A j \in running : j.kind # "account"

ActionsInv == /\ \A j \in running : j.kind \in Actions!Kind
              /\ \A v \in verifying : v.d.mode = "Production" => v.d.typed
              /\ FlagsAreHeld /\ Actions!JobsAreWhatWasConfirmed

LEMMA ActionsSubmitOnce == ActionsInv => Actions!NoSecondSubmission
  BY DEF ActionsInv, FlagsAreHeld, Actions!NoSecondSubmission

LEMMA ActionsStart == Actions!Init => ActionsInv
  BY DEF Actions!Init, ActionsInv, FlagsAreHeld, Actions!JobsAreWhatWasConfirmed

LEMMA FlagsDiffer ==
    /\ Actions!Flag("move") = "admin" /\ Actions!Flag("account") = "account"
    /\ Actions!Flag("rename") = "loading" /\ Actions!Flag("delete") = "loading"
    /\ Actions!Flag("computer") = "computer"
    /\ \A k \in Actions!Kind : Actions!Flag(k) = "account" => k = "account"
  BY DEF Actions!Flag, Actions!Kind

\* A job posted with its flag down, of what the dialogs let through.
LEMMA PostStep ==
    ASSUME ActionsInv, NEW k \in Actions!Kind, NEW d, NEW m, Actions!Post(k, d, m, Actions!Flag(k)),
           k = "move" => Actions!MoveIsValid(d.of, d.to),
           k = "account" => m = d.mode /\ (d.mode = "Production" => d.typed),
           verifying' \subseteq verifying,
           k # "account" => UNCHANGED <<checking, verifying>>,
           ~cleared => /\ \A j \in running : Actions!Flag(j.kind) # Actions!Flag(k)
                       /\ k = "account" => verifying' = {}
    PROVE  ActionsInv'
  <1> DEFINE j == [kind |-> k, of |-> d.of, to |-> d.to, n |-> jobs, verified |-> m,
                   mode |-> d.mode, typed |-> d.typed]
  <1>1. /\ running' = running \cup {j} /\ busy' = busy \cup {Actions!Flag(k)}
        /\ cleared' = cleared
    BY DEF Actions!Post, Actions!Flagged
  <1>2. /\ j.kind = k /\ j.of = d.of /\ j.to = d.to /\ j.verified = m /\ j.mode = d.mode
        /\ j.typed = d.typed
    OBVIOUS
  <1> HIDE DEF j
  <1>3. FlagsAreHeld'
    BY <1>1, <1>2 DEF ActionsInv, FlagsAreHeld
  <1>4. Actions!JobsAreWhatWasConfirmed'
    BY <1>1, <1>2 DEF ActionsInv, Actions!JobsAreWhatWasConfirmed, Actions!MoveIsValid,
                      Actions!IsMoveDestinationBlocked, Actions!MoveCurrentParent
  <1> QED
    BY <1>1, <1>2, <1>3, <1>4 DEF ActionsInv

LEMMA ActionsStep ==
    ASSUME ActionsInv, Actions!Next
    PROVE  ActionsInv'
  <1> USE DEF Actions!modeVars, Actions!moveVars, Actions!accountVars, Actions!jobVars
  <1> DEFINE Steady == UNCHANGED <<running, busy, cleared, verifying, checking>>
  <1>1. ASSUME Steady PROVE ActionsInv'
    BY <1>1 DEF ActionsInv, FlagsAreHeld, Actions!JobsAreWhatWasConfirmed
  <1>2. CASE Actions!PageLoads
    BY <1>2 DEF Actions!PageLoads, ActionsInv, FlagsAreHeld, Actions!JobsAreWhatWasConfirmed
  <1>3. CASE Actions!PageLoaded
    BY <1>3 DEF Actions!PageLoaded, ActionsInv, FlagsAreHeld, Actions!JobsAreWhatWasConfirmed
  <1>4. CASE Actions!SubmitAccountAction
    <2> DEFINE v == [d |-> dialog["account"], n |-> Actions!Cardinality(verifying)]
    <2>1. /\ verifying' = verifying \cup {v} /\ checking' = TRUE
          /\ UNCHANGED <<running, busy, cleared>>
          /\ v.d.mode = "Production" => v.d.typed
          /\ "account" \notin busy /\ ~checking
      BY <1>4 DEF Actions!SubmitAccountAction, Actions!AccountModalOffers
    <2> HIDE DEF v
    <2>2. FlagsAreHeld'
      BY <2>1, FlagsDiffer DEF ActionsInv, FlagsAreHeld
    <2> QED
      BY <2>1, <2>2 DEF ActionsInv, Actions!JobsAreWhatWasConfirmed
  <1>5. ASSUME NEW v \in verifying, Actions!ModeVerified(v) PROVE ActionsInv'
    <2>1. /\ verifying' = verifying \ {v} /\ checking' = FALSE
      BY <1>5 DEF Actions!ModeVerified, Actions!ModeRead
    <2>2. CASE UNCHANGED <<running, busy, cleared>>
      BY <2>1, <2>2 DEF ActionsInv, FlagsAreHeld, Actions!JobsAreWhatWasConfirmed
    <2>3. CASE /\ Actions!SameMode(shown', v.d)
               /\ Actions!Post("account", v.d, shown', "account")
      <3>1. ~cleared => /\ \A j \in running : Actions!Flag(j.kind) # "account"
                        /\ verifying' = {}
        BY <2>1, FlagsDiffer DEF ActionsInv, FlagsAreHeld
      <3>2. v.d.mode = "Production" => v.d.typed
        BY DEF ActionsInv
      <3> QED
        BY <2>1, <2>3, <3>1, <3>2, PostStep, FlagsDiffer DEF Actions!SameMode, Actions!Kind
    <2> QED
      BY <1>5, <2>2, <2>3 DEF Actions!ModeVerified
  <1>6. CASE Actions!SubmitMove
    <2>1. /\ Actions!Post("move", dialog["move"], shown, "admin") /\ "admin" \notin busy
          /\ Actions!MoveIsValid(dialog["move"].of, dialog["move"].to)
          /\ UNCHANGED <<checking, verifying>>
      BY <1>6 DEF Actions!SubmitMove, Actions!MoveModalOffers
    <2> QED
      BY <2>1, PostStep, FlagsDiffer DEF ActionsInv, FlagsAreHeld, Actions!Kind
  <1>7. CASE Actions!SubmitRename
    <2>1. /\ Actions!Post("rename", dialog["rename"], "none", "loading") /\ "loading" \notin busy
          /\ UNCHANGED <<checking, verifying>>
      BY <1>7 DEF Actions!SubmitRename, Actions!RenameModalOffers
    <2> QED
      BY <2>1, PostStep, FlagsDiffer DEF ActionsInv, FlagsAreHeld, Actions!Kind
  <1>8. CASE Actions!SubmitDelete
    <2>1. /\ Actions!Post("delete", dialog["delete"], "none", "loading") /\ "loading" \notin busy
          /\ UNCHANGED <<checking, verifying>>
      BY <1>8 DEF Actions!SubmitDelete, Actions!DeleteModalOffers
    <2> QED
      BY <2>1, PostStep, FlagsDiffer DEF ActionsInv, FlagsAreHeld, Actions!Kind
  <1>9. CASE Actions!SubmitCreateComputer
    <2>1. /\ Actions!Post("computer", dialog["computer"], shown, "computer")
          /\ "computer" \notin busy
          /\ UNCHANGED <<checking, verifying>>
      BY <1>9 DEF Actions!SubmitCreateComputer, Actions!ComputerModalOffers
    <2> QED
      BY <2>1, PostStep, FlagsDiffer DEF ActionsInv, FlagsAreHeld, Actions!Kind
  <1>10. ASSUME NEW o \in Target, Actions!PrepareAccountAction(o) PROVE ActionsInv'
    BY <1>10 DEF Actions!PrepareAccountAction, ActionsInv, FlagsAreHeld,
       Actions!JobsAreWhatWasConfirmed
  <1>11. ASSUME NEW o \in Target, Actions!AccountDialogOpens(o) PROVE ActionsInv'
    BY <1>11 DEF Actions!AccountDialogOpens, Actions!ModeRead, ActionsInv, FlagsAreHeld,
                 Actions!JobsAreWhatWasConfirmed
  <1>12. ASSUME NEW j \in running, Actions!JobEnds(j) PROVE ActionsInv'
    <2>1. /\ running' = running \ {j} /\ busy' = busy \ {Actions!Flag(j.kind)}
          /\ cleared' = (cleared \/ \E i \in running' : Actions!Flag(i.kind) = Actions!Flag(j.kind))
          /\ UNCHANGED <<verifying, checking>>
      BY <1>12 DEF Actions!JobEnds
    <2> QED
      BY <2>1 DEF ActionsInv, FlagsAreHeld, Actions!JobsAreWhatWasConfirmed
  <1>13. ASSUME NEW k \in Actions!Kind,
                \/ Actions!Type(k) \/ Actions!Close(k)
                \/ \E o \in Target : Actions!OpenFor(k, o)
         PROVE  Steady
    BY <1>13 DEF Actions!Type, Actions!Close, Actions!OpenFor
  <1>14. ASSUME NEW o \in Target,
                \/ Actions!OpenMoveObject(o) \/ Actions!MoveOptionsArrive(o)
                \/ Actions!ChooseDestination(o) \/ Actions!OpenCreateComputer(o)
                \/ \E to \in Target : Actions!DragAndDrop(o, to)
         PROVE  Steady
    BY <1>14 DEF Actions!OpenMoveObject, Actions!MoveOptionsArrive, Actions!ChooseDestination,
                 Actions!OpenCreateComputer, Actions!DragAndDrop
  <1>15. ASSUME Actions!FlipMode \/ Actions!ModeArrives PROVE Steady
    BY <1>15 DEF Actions!FlipMode, Actions!ModeArrives
  <1> HIDE DEF Steady
  <1> QED
    BY <1>1, <1>2, <1>3, <1>4, <1>5, <1>6, <1>7, <1>8, <1>9, <1>10, <1>11, <1>12, <1>13, <1>14,
       <1>15
       DEF Actions!Next

-----------------------------------------------------------------------------
(* The permissions of an object and the chain of a delegation.             *)

Known == Secured \cup {Nothing}
Evidence == [dn : Known, sim : Nat, desc : Nat, claim : Nat]
AclCall == [kind : {"sim", "prep", "pre", "conf"},
            step : {"job", "mode", "server", "ticket", "poll"}, ev : Evidence, n : Nat,
            over : BOOLEAN, typed : Known, shown : Nat]
Delegation == [dn : Known, sim : Nat, desc : Nat,
               state : {"claimed", "ticketed", "processing", "validated", "failed"},
               confirmed : BOOLEAN, shown : Nat, typed : Known]

Stages == [sim : Evidence, prep : Evidence, pre : Evidence, typed : Known]

AclTypes ==
    /\ selected \in Known /\ descriptor \in Evidence
    /\ reading \in [asked : SUBSET Evidence, flag : BOOLEAN, for : Known]
    /\ panel \in Stages
    /\ calls \subseteq AclCall /\ registry \in Seq(Delegation)
    /\ jobs \in Nat /\ started \in Nat /\ crossed \in BOOLEAN

\* A claim that the panel or a call holds is that of its own simulation.
IsClaimOf(ev) == ev.claim \in DOMAIN registry /\ registry[ev.claim].sim = ev.sim
ClaimsHeld ==
    /\ panel.pre # Acl!None => IsClaimOf(panel.pre)
    /\ \A c \in calls :
          /\ c.step \in {"ticket", "poll"} => c.kind = "pre" /\ IsClaimOf(c.ev)
          /\ c.kind = "conf" => /\ c.ev.claim \in DOMAIN registry
                                /\ registry[c.ev.claim].sim = c.shown \/ crossed

\* Until an answer comes to a panel that has moved on, the stages it holds and
\* the calls that have not been overtaken are of the simulation it shows.
OfSimulation(ev) == panel.sim # Acl!None /\ ev.sim = panel.sim.sim
StagesAgree ==
    ~crossed =>
        /\ panel.prep # Acl!None => OfSimulation(panel.prep)
        /\ panel.pre # Acl!None => OfSimulation(panel.pre)
        /\ \A c \in calls :
              ~c.over =>
                 /\ c.kind = "sim" => /\ {panel.sim, panel.prep, panel.pre} = {Acl!None}
                                      /\ \A b \in calls \ {c} : b.over
                 /\ c.kind \in {"prep", "pre"} => OfSimulation(c.ev)

AclInv == /\ AclTypes /\ ClaimsHeld /\ StagesAgree
          /\ Acl!ConfirmedAsShown /\ Acl!EvidenceIsSpentOnce

LEMMA AclRecords ==
    /\ Acl!None \in Evidence /\ Nothing \in Known /\ Secured \subseteq Known
    /\ \A d \in Known : \A i, j \in Nat :
          /\ [Acl!None EXCEPT !.dn = d, !.desc = i] \in Evidence
          /\ [Acl!None EXCEPT !.dn = d, !.sim = i] \in Evidence
    /\ \A ev \in Evidence : \A i \in Nat :
          /\ [ev EXCEPT !.desc = i] \in Evidence /\ [ev EXCEPT !.desc = i].sim = ev.sim
          /\ ev.dn \in Known /\ ev.sim \in Nat /\ ev.desc \in Nat
  BY DEF Acl!None, Evidence, Known

LEMMA AclStart == Acl!Init => AclInv
  <1> SUFFICES ASSUME Acl!Init PROVE AclInv
    OBVIOUS
  <1>1. panel.sim \in Evidence /\ panel = Acl!Fresh /\ panel.prep = Acl!None /\ panel.pre = Acl!None
    BY AclRecords DEF Acl!Init, Acl!Fresh
  <1>2. registry \in Seq(Delegation) /\ DOMAIN registry = {}
    BY DEF Acl!Init
  <1>3. AclTypes
    BY <1>2, AclRecords DEF Acl!Init, Acl!Fresh, AclTypes, Stages
  <1> QED
    BY <1>1, <1>2, <1>3 DEF Acl!Init, AclInv, ClaimsHeld, StagesAgree, Acl!ConfirmedAsShown,
       Acl!EvidenceIsSpentOnce

\* The calls that a step has overtaken are those that there were.
LEMMA OvertakenCalls ==
    ASSUME calls \subseteq AclCall
    PROVE  /\ Acl!Overtaken \subseteq AclCall
           /\ \A c \in Acl!Overtaken : /\ c.over
                                      /\ \E b \in calls : /\ c.kind = b.kind /\ c.step = b.step
                                                          /\ c.ev = b.ev /\ c.shown = b.shown
  BY DEF Acl!Overtaken, AclCall

LEMMA CallRecords ==
    /\ \A c \in AclCall : /\ c.ev \in Evidence /\ c.shown \in Nat /\ c.typed \in Known
                          /\ c.over \in BOOLEAN
    /\ \A p \in Stages : /\ p.sim \in Evidence /\ p.prep \in Evidence /\ p.pre \in Evidence
                         /\ p.typed \in Known
  BY DEF AclCall, Stages

\* A panel that starts over, and the calls it starts with what is left to it.
LEMMA PanelStartsOver ==
    ASSUME AclInv, panel' \in Stages, panel'.prep = Acl!None, panel'.pre = Acl!None,
           NEW S \in SUBSET AclCall, calls' = Acl!Overtaken \cup S,
           \A b, c \in S : b = c,
           \A c \in S : /\ c.step \notin {"ticket", "poll"} /\ c.kind \in {"sim", "prep"}
                        /\ c.kind = "sim" => panel'.sim = Acl!None
                        /\ c.kind = "prep" =>
                              panel'.sim # Acl!None /\ c.ev.sim = panel'.sim.sim,
           UNCHANGED <<registry, crossed>>
    PROVE  /\ calls' \subseteq AclCall /\ ClaimsHeld' /\ StagesAgree'
           /\ Acl!ConfirmedAsShown' /\ Acl!EvidenceIsSpentOnce'
  <1>1. calls' \subseteq AclCall
    BY OvertakenCalls DEF AclInv, AclTypes
  <1>2. ClaimsHeld'
    BY OvertakenCalls DEF AclInv, AclTypes, ClaimsHeld, IsClaimOf
  <1>3. StagesAgree'
    BY OvertakenCalls DEF AclInv, AclTypes, StagesAgree, OfSimulation
  <1> QED
    BY <1>1, <1>2, <1>3 DEF AclInv, Acl!ConfirmedAsShown, Acl!EvidenceIsSpentOnce

LEMMA DescriptorStep ==
    ASSUME AclInv, NEW d \in Evidence, Acl!DescriptorBecomes(d),
           UNCHANGED <<registry, crossed>>
    PROVE  /\ descriptor' \in Evidence /\ panel' \in Stages /\ calls' \subseteq AclCall
           /\ ClaimsHeld' /\ StagesAgree' /\ Acl!ConfirmedAsShown' /\ Acl!EvidenceIsSpentOnce'
  <1>1. CASE UNCHANGED <<panel, calls>>
    BY <1>1 DEF AclInv, AclTypes, ClaimsHeld, StagesAgree, IsClaimOf, OfSimulation,
       Acl!DescriptorBecomes,
                Acl!ConfirmedAsShown, Acl!EvidenceIsSpentOnce
  <1>2. CASE panel' = Acl!OnlySimulation(panel) /\ calls' = Acl!Overtaken
    <2>1. panel' \in Stages /\ panel'.prep = Acl!None /\ panel'.pre = Acl!None
      BY <1>2, AclRecords DEF Acl!OnlySimulation, Acl!Fresh, AclInv, AclTypes, Stages
    <2>2. descriptor' \in Evidence
      BY DEF Acl!DescriptorBecomes
    <2>3. calls' = Acl!Overtaken \cup {} /\ {} \in SUBSET AclCall
      BY <1>2
    <2> QED
      BY <2>1, <2>2, <2>3, PanelStartsOver
  <1> QED
    BY <1>1, <1>2 DEF Acl!DescriptorBecomes

\* An answer takes its call away; the panel it leaves has to agree still.
LEMMA AnswerStep ==
    ASSUME AclInv, NEW c \in calls, NEW p \in Stages, Acl!Answers(c, p), UNCHANGED registry,
           p.pre # Acl!None => IsClaimOf(p.pre),
           ~crossed /\ ~c.over =>
              /\ p.prep # Acl!None => p.sim # Acl!None /\ p.prep.sim = p.sim.sim
              /\ p.pre # Acl!None => p.sim # Acl!None /\ p.pre.sim = p.sim.sim
              /\ \A b \in calls \ {c} :
                   ~b.over => /\ b.kind # "sim"
                              /\ b.kind \in {"prep", "pre"} =>
                                   p.sim # Acl!None /\ b.ev.sim = p.sim.sim
    PROVE  AclInv'
  <1> USE DEF Acl!Answers, Acl!boundVars, Acl!descriptorVars
  <1>1. AclTypes'
    BY DEF AclInv, AclTypes
  <1>2. ClaimsHeld'
    BY DEF AclInv, ClaimsHeld, IsClaimOf
  <1>3. StagesAgree'
    BY DEF AclInv, StagesAgree, OfSimulation
  <1> QED
    BY <1>1, <1>2, <1>3 DEF AclInv, Acl!ConfirmedAsShown, Acl!EvidenceIsSpentOnce

\* What a change of the record of one delegation leaves of every one.
Kept == /\ registry' \in Seq(Delegation) /\ DOMAIN registry \subseteq DOMAIN registry'
        /\ \A k \in DOMAIN registry : /\ registry'[k].sim = registry[k].sim
                                      /\ registry'[k].desc = registry[k].desc

LEMMA GoesOnStep ==
    ASSUME AclInv, NEW c \in calls, NEW s \in {"job", "mode", "server", "ticket", "poll"},
           NEW i \in Nat, Acl!GoesOn(c, s, i), Kept,
           c.kind # "conf" \/ i = c.ev.claim,
           s \in {"ticket", "poll"} => /\ c.kind = "pre" /\ i \in DOMAIN registry'
                                       /\ registry'[i].sim = c.ev.sim
    PROVE  AclTypes' /\ ClaimsHeld' /\ StagesAgree'
  <1> DEFINE d == [c EXCEPT !.step = s, !.ev.claim = i]
  <1>1. /\ d \in AclCall
        /\ d.kind = c.kind /\ d.step = s /\ d.over = c.over /\ d.shown = c.shown
        /\ d.ev.sim = c.ev.sim /\ d.ev.claim = i
    <2> DEFINE e == [c.ev EXCEPT !.claim = i]
    <2>1. c \in AclCall
      BY DEF AclInv, AclTypes
    <2>2. e \in Evidence /\ e.sim = c.ev.sim /\ e.claim = i
      BY <2>1 DEF AclCall, Evidence
    <2>3. d = [c EXCEPT !.step = s, !.ev = e]
      BY <2>1 DEF AclCall
    <2> HIDE DEF e, d
    <2> QED
      BY <2>1, <2>2, <2>3 DEF AclCall
  <1>2. /\ calls' = (calls \ {c}) \cup {d}
        /\ UNCHANGED <<selected, descriptor, reading, panel, jobs, started, crossed>>
    BY DEF Acl!GoesOn, Acl!descriptorVars, Acl!boundVars
  <1> HIDE DEF d
  <1>3. AclTypes'
    BY <1>1, <1>2 DEF AclInv, AclTypes, Kept
  <1>4. ClaimsHeld'
    BY <1>1, <1>2 DEF AclInv, ClaimsHeld, IsClaimOf, Kept
  <1>5. StagesAgree'
    BY <1>1, <1>2 DEF AclInv, StagesAgree, OfSimulation
  <1> QED
    BY <1>3, <1>4, <1>5

\* A stage in the life of a delegation, which changes nothing else of its record.
LEMMA BecomesStep ==
    ASSUME AclInv, NEW i \in DOMAIN registry, NEW from,
           NEW to \in {"claimed", "ticketed", "processing", "validated", "failed"},
           Acl!Becomes(i, from, to), UNCHANGED crossed
    PROVE  /\ Kept /\ DOMAIN registry' = DOMAIN registry
           /\ Acl!EvidenceIsSpentOnce' /\ Acl!ConfirmedAsShown'
  <1>1. registry \in Seq(Delegation) /\ registry' = [registry EXCEPT ![i].state = to]
    BY DEF AclInv, AclTypes, Acl!Becomes
  <1> DEFINE r == [registry[i] EXCEPT !.state = to]
  <1>2. registry[i] \in Delegation
    BY <1>1
  <1>3. /\ r \in Delegation /\ r.sim = registry[i].sim /\ r.desc = registry[i].desc
        /\ r.dn = registry[i].dn /\ r.confirmed = registry[i].confirmed
        /\ r.shown = registry[i].shown /\ r.typed = registry[i].typed
    BY <1>2 DEF Delegation
  <1>4. registry' = [registry EXCEPT ![i] = r]
    BY <1>1
  <1> HIDE DEF r
  <1>5. /\ registry' \in Seq(Delegation) /\ DOMAIN registry' = DOMAIN registry
        /\ \A k \in DOMAIN registry : registry'[k] = IF k = i THEN r ELSE registry[k]
    BY <1>1, <1>3, <1>4
  <1> QED
    BY <1>3, <1>5 DEF AclInv, Acl!ConfirmedAsShown, Acl!EvidenceIsSpentOnce, Kept

LEMMA AclStep ==
    ASSUME AclInv, Acl!Next
    PROVE  AclInv'
  <1> USE DEF Acl!boundVars, Acl!descriptorVars, Acl!modeVars
  <1>1. CASE Acl!FlipMode
    BY <1>1 DEF Acl!FlipMode, AclInv, AclTypes, ClaimsHeld, StagesAgree, IsClaimOf, OfSimulation,
         Acl!ConfirmedAsShown, Acl!EvidenceIsSpentOnce
  <1>2. ASSUME NEW o \in Secured, Acl!SelectObject(o) PROVE AclInv'
    <2>1. panel' \in Stages /\ panel'.prep = Acl!None /\ panel'.pre = Acl!None
      BY <1>2, AclRecords DEF Acl!SelectObject, Acl!Fresh, Stages
    <2>2. /\ calls' = Acl!Overtaken /\ selected' \in Known
          /\ UNCHANGED <<descriptor, reading, registry, jobs, started, crossed>>
      BY <1>2, AclRecords DEF Acl!SelectObject
    <2>3. /\ calls' \subseteq AclCall /\ ClaimsHeld' /\ StagesAgree'
          /\ Acl!ConfirmedAsShown' /\ Acl!EvidenceIsSpentOnce'
      <3>1. calls' = Acl!Overtaken \cup {} /\ {} \in SUBSET AclCall
        BY <2>2
      <3> QED
        BY <2>1, <2>2, <3>1, PanelStartsOver
    <2> QED
      BY <2>1, <2>2, <2>3 DEF AclInv, AclTypes
  <1>3. CASE Acl!LoadSecurityDescriptor
    <2>1. /\ Acl!DescriptorBecomes(IF descriptor.dn \in {Nothing, selected} THEN descriptor
                                     ELSE Acl!None)
          /\ UNCHANGED <<selected, registry, started, crossed>> /\ jobs' = jobs + 1
          /\ reading' = [asked |-> reading.asked
                                    \cup {[Acl!None EXCEPT !.dn = selected, !.desc = jobs']},
                         flag |-> TRUE, for |-> selected]
      BY <1>3 DEF Acl!LoadSecurityDescriptor
    <2>2. selected \in Known /\ jobs' \in Nat /\ descriptor \in Evidence
      BY <2>1 DEF AclInv, AclTypes
    <2>3. [Acl!None EXCEPT !.dn = selected, !.desc = jobs'] \in Evidence /\ Acl!None \in Evidence
      BY <2>2, AclRecords
    <2>4. reading' \in [asked : SUBSET Evidence, flag : BOOLEAN, for : Known]
      BY <2>1, <2>2, <2>3 DEF AclInv, AclTypes
    <2>5. /\ descriptor' \in Evidence /\ panel' \in Stages /\ calls' \subseteq AclCall
          /\ ClaimsHeld' /\ StagesAgree' /\ Acl!ConfirmedAsShown' /\ Acl!EvidenceIsSpentOnce'
      BY <2>1, <2>2, <2>3, DescriptorStep
    <2> QED
      BY <2>1, <2>2, <2>4, <2>5 DEF AclInv, AclTypes
  <1>4. ASSUME NEW d \in reading.asked, Acl!DescriptorArrives(d) PROVE AclInv'
    <2>1. d \in Evidence /\ UNCHANGED <<selected, registry, jobs, started, crossed>>
      BY <1>4 DEF AclInv, AclTypes, Acl!DescriptorArrives
    <2>2. reading' \in [asked : SUBSET Evidence, flag : BOOLEAN, for : Known]
      BY <1>4 DEF AclInv, AclTypes, Acl!DescriptorArrives
    <2>3. CASE Acl!DescriptorBecomes(d)
      BY <2>1, <2>2, <2>3, DescriptorStep DEF AclInv, AclTypes
    <2>4. CASE UNCHANGED <<descriptor, panel, calls>>
      BY <2>1, <2>2, <2>4 DEF AclInv, AclTypes, ClaimsHeld, StagesAgree, IsClaimOf, OfSimulation,
                Acl!ConfirmedAsShown, Acl!EvidenceIsSpentOnce
    <2> QED
      BY <1>4, <2>3, <2>4 DEF Acl!DescriptorArrives
  <1>5. CASE Acl!SubmitSimulation
    <2> DEFINE c == [kind |-> "sim", step |-> "job",
                     ev |-> [Acl!None EXCEPT !.dn = selected, !.sim = jobs'],
                     n |-> started, over |-> FALSE, typed |-> panel.typed, shown |-> panel.sim.sim]
    <2>1. /\ calls' = Acl!Overtaken \cup {c} /\ panel' = Acl!Fresh
          /\ UNCHANGED <<selected, descriptor, reading, registry, crossed>>
          /\ jobs' = jobs + 1 /\ started' = started + 1
      BY <1>5 DEF Acl!SubmitSimulation, Acl!Starts, Acl!Restarted
    <2>2. /\ selected \in Known /\ jobs' \in Nat /\ started \in Nat /\ started' \in Nat
          /\ panel \in Stages
      BY <2>1 DEF AclInv, AclTypes
    <2>3. /\ panel' \in Stages /\ panel'.prep = Acl!None /\ panel'.pre = Acl!None
          /\ panel'.sim = Acl!None
      BY <2>1, AclRecords DEF Acl!Fresh, Stages
    <2>4. c.ev \in Evidence /\ c.shown \in Nat /\ c.typed \in Known
      BY <2>2, AclRecords, CallRecords
    <2>5. c \in AclCall /\ c.kind = "sim" /\ c.step = "job"
      BY <2>2, <2>4 DEF AclCall
    <2> HIDE DEF c
    <2>6. /\ calls' \subseteq AclCall /\ ClaimsHeld' /\ StagesAgree'
          /\ Acl!ConfirmedAsShown' /\ Acl!EvidenceIsSpentOnce'
      <3>1. {c} \in SUBSET AclCall
        BY <2>5
      <3> QED
        BY <2>1, <2>3, <2>5, <3>1, PanelStartsOver
    <2> QED
      BY <2>1, <2>2, <2>3, <2>6 DEF AclInv, AclTypes
  <1>6. CASE Acl!SubmitPreparation
    <2> DEFINE c == [kind |-> "prep", step |-> "mode",
                     ev |-> [panel.sim EXCEPT !.desc = descriptor.desc],
                     n |-> started, over |-> FALSE, typed |-> panel.typed, shown |-> panel.sim.sim]
    <2>1. /\ calls' = Acl!Overtaken \cup {c} /\ panel' = Acl!OnlySimulation(panel)
          /\ UNCHANGED <<selected, descriptor, reading, registry, jobs, crossed>>
          /\ started' = started + 1 /\ panel.sim # Acl!None
      BY <1>6 DEF Acl!SubmitPreparation, Acl!Starts, Acl!PreparationIsOffered
    <2>2. /\ descriptor \in Evidence /\ started \in Nat /\ started' \in Nat /\ panel \in Stages
      BY <2>1 DEF AclInv, AclTypes
    <2>3. /\ panel' \in Stages /\ panel'.prep = Acl!None /\ panel'.pre = Acl!None
          /\ panel'.sim = panel.sim
      BY <2>1, <2>2, AclRecords DEF Acl!OnlySimulation, Acl!Fresh, Stages
    <2>4. c.ev \in Evidence /\ c.shown \in Nat /\ c.typed \in Known /\ c.ev.sim = panel.sim.sim
      <3>1. /\ panel.sim \in Evidence /\ descriptor.desc \in Nat
            /\ panel.typed \in Known /\ panel.sim.sim \in Nat
        BY <2>2, AclRecords, CallRecords
      <3> QED
        BY <3>1, AclRecords
    <2>5. c \in AclCall /\ c.kind = "prep" /\ c.step = "mode"
      BY <2>2, <2>4 DEF AclCall
    <2> HIDE DEF c
    <2>6. panel'.sim # Acl!None /\ c.ev.sim = panel'.sim.sim
      BY <2>1, <2>3, <2>4
    <2>7. /\ calls' \subseteq AclCall /\ ClaimsHeld' /\ StagesAgree'
          /\ Acl!ConfirmedAsShown' /\ Acl!EvidenceIsSpentOnce'
      <3>1. {c} \in SUBSET AclCall
        BY <2>5
      <3> QED
        BY <2>1, <2>3, <2>5, <2>6, <3>1, PanelStartsOver
    <2> QED
      BY <2>1, <2>2, <2>3, <2>7 DEF AclInv, AclTypes
  <1>7. CASE Acl!SubmitPrewrite
    <2> DEFINE c == [kind |-> "pre", step |-> "mode", ev |-> panel.prep,
                     n |-> started, over |-> FALSE, typed |-> panel.typed, shown |-> panel.sim.sim]
    <2>1. /\ calls' = calls \cup {c} /\ panel' = [panel EXCEPT !.pre = Acl!None, !.typed = Nothing]
          /\ UNCHANGED <<selected, descriptor, reading, registry, jobs, crossed>>
          /\ started' = started + 1 /\ panel.sim # Acl!None /\ panel.prep # Acl!None
      BY <1>7 DEF Acl!SubmitPrewrite, Acl!Starts, Acl!PrewriteIsOffered
    <2>2. /\ started \in Nat /\ started' \in Nat /\ panel \in Stages
      BY <2>1 DEF AclInv, AclTypes
    <2>3. /\ panel' \in Stages /\ panel'.prep = panel.prep /\ panel'.pre = Acl!None
          /\ panel'.sim = panel.sim
      BY <2>1, <2>2, AclRecords DEF Stages
    <2>4. c.ev = panel.prep /\ c.shown \in Nat /\ c.typed \in Known /\ c.ev \in Evidence
      BY <2>2, AclRecords, CallRecords
    <2>5. c \in AclCall /\ c.kind = "pre" /\ c.step = "mode"
      BY <2>2, <2>4 DEF AclCall
    <2> HIDE DEF c
    <2>6. AclTypes'
      BY <2>1, <2>2, <2>3, <2>5 DEF AclInv, AclTypes
    <2>7. ClaimsHeld'
      BY <2>1, <2>3, <2>5 DEF AclInv, ClaimsHeld, IsClaimOf
    <2>8. StagesAgree'
      BY <2>1, <2>3, <2>4, <2>5 DEF AclInv, StagesAgree, OfSimulation
    <2> QED
      BY <2>1, <2>6, <2>7, <2>8 DEF AclInv, Acl!ConfirmedAsShown, Acl!EvidenceIsSpentOnce
  <1>8. ASSUME NEW o \in Secured, Acl!TypeDn(o) PROVE AclInv'
    <2>1. /\ panel' \in Stages /\ panel'.sim = panel.sim /\ panel'.prep = panel.prep
          /\ panel'.pre = panel.pre
      BY <1>8, AclRecords DEF Acl!TypeDn, AclInv, AclTypes, Stages
    <2>2. UNCHANGED <<selected, descriptor, reading, calls, registry, jobs, started, crossed>>
      BY <1>8 DEF Acl!TypeDn
    <2> QED
      BY <2>1, <2>2 DEF AclInv, AclTypes, ClaimsHeld, StagesAgree, IsClaimOf, OfSimulation,
                Acl!ConfirmedAsShown, Acl!EvidenceIsSpentOnce
  <1>9. CASE Acl!SubmitConfirmation
    <2> DEFINE c == [kind |-> "conf", step |-> "mode", ev |-> panel.pre,
                     n |-> started, over |-> FALSE, typed |-> panel.typed, shown |-> panel.sim.sim]
    <2>1. /\ calls' = calls \cup {c} /\ panel.pre # Acl!None
          /\ UNCHANGED <<selected, descriptor, reading, registry, jobs, crossed, panel>>
          /\ started' = started + 1
      BY <1>9 DEF Acl!SubmitConfirmation, Acl!Starts, Acl!ConfirmationIsOffered
    <2>2. /\ started \in Nat /\ started' \in Nat /\ panel \in Stages
      BY <2>1 DEF AclInv, AclTypes
    <2>3. /\ c.ev = panel.pre /\ c.ev \in Evidence
          /\ c.shown = panel.sim.sim /\ c.shown \in Nat /\ c.typed \in Known
      BY <2>2, AclRecords, CallRecords
    <2>4. c \in AclCall /\ c.kind = "conf" /\ c.step = "mode"
      BY <2>2, <2>3 DEF AclCall
    <2> HIDE DEF c
    <2>5. AclTypes'
      BY <2>1, <2>2, <2>4 DEF AclInv, AclTypes
    <2>6. ClaimsHeld'
      BY <2>1, <2>3, <2>4 DEF AclInv, ClaimsHeld, IsClaimOf, StagesAgree, OfSimulation
    <2>7. StagesAgree'
      BY <2>1, <2>3, <2>4 DEF AclInv, StagesAgree, OfSimulation
    <2> QED
      BY <2>1, <2>5, <2>6, <2>7 DEF AclInv, Acl!ConfirmedAsShown, Acl!EvidenceIsSpentOnce
  <1>10. ASSUME NEW c \in calls, Acl!Answers(c, panel), UNCHANGED registry PROVE AclInv'
    <2>1. panel \in Stages /\ (panel.pre # Acl!None => IsClaimOf(panel.pre))
      BY DEF AclInv, AclTypes, ClaimsHeld
    <2>2. ~crossed =>
              /\ panel.prep # Acl!None => panel.sim # Acl!None /\ panel.prep.sim = panel.sim.sim
              /\ panel.pre # Acl!None => panel.sim # Acl!None /\ panel.pre.sim = panel.sim.sim
              /\ \A b \in calls \ {c} :
                   ~b.over => /\ b.kind = "sim" => c.over
                              /\ b.kind \in {"prep", "pre"} =>
                                   panel.sim # Acl!None /\ b.ev.sim = panel.sim.sim
      BY DEF AclInv, StagesAgree, OfSimulation
    <2> QED
      BY <1>10, <2>1, <2>2, AnswerStep
  <1>11. ASSUME NEW c \in calls, Acl!SimulationEnds(c), ~Acl!Fails(c) PROVE AclInv'
    <2> DEFINE p == [panel EXCEPT !.sim = c.ev]
    <2>1. Acl!Answers(c, p) /\ UNCHANGED registry /\ c.kind = "sim"
      BY <1>11 DEF Acl!SimulationEnds
    <2>2. panel \in Stages /\ c \in AclCall
      BY DEF AclInv, AclTypes
    <2>3. p \in Stages /\ p.sim = c.ev /\ p.prep = panel.prep /\ p.pre = panel.pre
      BY <2>2, CallRecords DEF Stages
    <2> HIDE DEF p
    <2>4. p.pre # Acl!None => IsClaimOf(p.pre)
      BY <2>3 DEF AclInv, ClaimsHeld
    <2>5. ~crossed /\ ~c.over =>
              /\ panel.sim = Acl!None /\ p.prep = Acl!None /\ p.pre = Acl!None
              /\ \A b \in calls \ {c} : b.over
      BY <2>1, <2>3 DEF AclInv, StagesAgree, OfSimulation
    <2> QED
      BY <2>1, <2>3, <2>4, <2>5, AnswerStep DEF AclInv
  <1>12. ASSUME NEW c \in calls, Acl!ModeIsRead(c), ~Acl!Fails(c) PROVE AclInv'
    <2>1. Acl!GoesOn(c, "server", c.ev.claim) /\ UNCHANGED registry
      BY <1>12 DEF Acl!ModeIsRead
    <2>2. Kept /\ c.ev.claim \in Nat
      BY <2>1 DEF Kept, AclInv, AclTypes, AclCall, Evidence
    <2>3. AclTypes' /\ ClaimsHeld' /\ StagesAgree'
      BY <2>1, <2>2, GoesOnStep
    <2> QED
      BY <2>1, <2>3 DEF Acl!GoesOn, AclInv, Acl!ConfirmedAsShown, Acl!EvidenceIsSpentOnce
  <1>13. ASSUME NEW c \in calls, Acl!Prepared(c), ~Acl!Fails(c) PROVE AclInv'
    <2> DEFINE p == [panel EXCEPT !.prep = c.ev]
    <2>1. Acl!Answers(c, p) /\ UNCHANGED registry /\ c.kind = "prep"
      BY <1>13 DEF Acl!Prepared
    <2>2. panel \in Stages /\ c \in AclCall
      BY DEF AclInv, AclTypes
    <2>3. p \in Stages /\ p.sim = panel.sim /\ p.prep = c.ev /\ p.pre = panel.pre
      BY <2>2, CallRecords DEF Stages
    <2> HIDE DEF p
    <2> QED
      BY <2>1, <2>3, AnswerStep DEF AclInv, ClaimsHeld, StagesAgree, OfSimulation
  <1>14. ASSUME NEW c \in calls, Acl!Claimed(c), ~Acl!Fails(c) PROVE AclInv'
    <2> DEFINE r == [dn |-> c.ev.dn, sim |-> c.ev.sim, desc |-> c.ev.desc, state |-> "claimed",
                     confirmed |-> FALSE, shown |-> 0, typed |-> Nothing]
    <2>1. /\ registry' = Append(registry, r) /\ Acl!GoesOn(c, "ticket", Len(registry'))
          /\ Acl!NotConsumed(c.ev) /\ c.kind = "pre"
      BY <1>14 DEF Acl!Claimed
    <2>2. registry \in Seq(Delegation) /\ c.ev \in Evidence
      BY CallRecords DEF AclInv, AclTypes
    <2>3. r \in Delegation /\ ~r.confirmed /\ r.sim = c.ev.sim /\ r.desc = c.ev.desc
      BY <2>2, AclRecords DEF Delegation
    <2> HIDE DEF r
    <2>4. /\ Len(registry') \in Nat /\ Len(registry') \in DOMAIN registry'
          /\ registry' \in Seq(Delegation) /\ registry'[Len(registry')] = r
          /\ \A k \in DOMAIN registry : k \in DOMAIN registry' /\ registry'[k] = registry[k]
          /\ \A k \in DOMAIN registry' : k \in DOMAIN registry \/ k = Len(registry')
      BY <2>1, <2>2, <2>3
    <2>5. AclTypes' /\ ClaimsHeld' /\ StagesAgree'
      BY <2>1, <2>3, <2>4, GoesOnStep DEF Kept
    <2>6. Acl!ConfirmedAsShown'
      BY <2>1, <2>3, <2>4 DEF AclInv, Acl!ConfirmedAsShown, Acl!GoesOn
    <2>7. Acl!EvidenceIsSpentOnce'
      BY <2>1, <2>3, <2>4 DEF AclInv, Acl!EvidenceIsSpentOnce, Acl!NotConsumed
    <2> QED
      BY <2>5, <2>6, <2>7 DEF AclInv
  <1>15. ASSUME NEW c \in calls, Acl!PrewriteAnswers(c), ~Acl!Fails(c) PROVE AclInv'
    <2> DEFINE p == [panel EXCEPT !.pre = c.ev]
    <2>1. Acl!Answers(c, p) /\ UNCHANGED registry /\ c.step = "poll"
      BY <1>15 DEF Acl!PrewriteAnswers
    <2>2. panel \in Stages /\ c \in AclCall
      BY DEF AclInv, AclTypes
    <2>3. p \in Stages /\ p.sim = panel.sim /\ p.prep = panel.prep /\ p.pre = c.ev
      BY <2>2, CallRecords DEF Stages
    <2> HIDE DEF p
    <2>4. c.kind = "pre" /\ IsClaimOf(c.ev)
      BY <2>1 DEF AclInv, ClaimsHeld
    <2> QED
      BY <2>1, <2>3, <2>4, AnswerStep DEF AclInv, StagesAgree, OfSimulation
  <1>16. ASSUME NEW i \in DOMAIN registry, Acl!AgentClaims(i) \/ Acl!AgentCompletes(i) PROVE AclInv'
    <2>1. UNCHANGED <<selected, descriptor, reading, panel, calls, jobs, started, crossed>>
      BY <1>16 DEF Acl!AgentClaims, Acl!AgentCompletes
    <2>2. Kept /\ Acl!EvidenceIsSpentOnce' /\ Acl!ConfirmedAsShown'
      BY <1>16, <2>1, BecomesStep DEF Acl!AgentClaims, Acl!AgentCompletes
    <2>3. AclTypes'
      BY <2>1, <2>2 DEF AclInv, AclTypes, Kept
    <2>4. ClaimsHeld'
      BY <2>1, <2>2 DEF AclInv, ClaimsHeld, IsClaimOf, Kept
    <2> QED
      BY <2>1, <2>2, <2>3, <2>4 DEF AclInv, StagesAgree, OfSimulation
  <1>17. ASSUME NEW c \in calls, Acl!Ticketed(c), ~Acl!Fails(c) PROVE AclInv'
    <2>1. /\ Acl!Becomes(c.ev.claim, "claimed", "ticketed") /\ Acl!GoesOn(c, "poll", c.ev.claim)
          /\ c.step = "ticket" /\ UNCHANGED crossed
      BY <1>17 DEF Acl!Ticketed, Acl!GoesOn
    <2>2. c.ev.claim \in DOMAIN registry /\ registry[c.ev.claim].sim = c.ev.sim /\ c.kind = "pre"
      BY <2>1 DEF AclInv, ClaimsHeld, IsClaimOf
    <2>3. /\ Kept /\ DOMAIN registry' = DOMAIN registry
          /\ Acl!EvidenceIsSpentOnce' /\ Acl!ConfirmedAsShown'
      BY <2>1, <2>2, BecomesStep
    <2>4. c.ev.claim \in Nat
      BY DEF AclInv, AclTypes, AclCall, Evidence
    <2>5. AclTypes' /\ ClaimsHeld' /\ StagesAgree'
      BY <2>1, <2>2, <2>3, <2>4, GoesOnStep DEF Kept
    <2> QED
      BY <2>3, <2>5 DEF AclInv
  <1>18. ASSUME NEW c \in calls, Acl!ConfirmationAnswers(c), ~Acl!Fails(c) PROVE AclInv'
    <2> DEFINE i == c.ev.claim
               r == [registry[i] EXCEPT !.confirmed = TRUE, !.shown = c.shown, !.typed = c.typed]
    <2>1. Acl!Confirms(i, c) /\ Acl!Answers(c, panel) /\ c.kind = "conf"
      BY <1>18 DEF Acl!ConfirmationAnswers
    <2>2. i \in DOMAIN registry /\ (registry[i].sim = c.shown \/ crossed)
      BY <2>1 DEF AclInv, ClaimsHeld
    <2>3. /\ registry \in Seq(Delegation) /\ registry[i] \in Delegation
          /\ c.typed \in Known /\ c.shown \in Nat
      <3>1. registry \in Seq(Delegation) /\ c \in AclCall
        BY DEF AclInv, AclTypes
      <3> QED
        BY <3>1, <2>2, CallRecords
    <2>4. /\ r \in Delegation /\ r.sim = registry[i].sim /\ r.desc = registry[i].desc
          /\ r.dn = registry[i].dn /\ r.shown = c.shown /\ r.typed = c.typed
      BY <2>3 DEF Delegation
    <2>5. registry' = [registry EXCEPT ![i] = r] /\ registry[i].dn = c.typed
      BY <2>1 DEF Acl!Confirms
    <2> HIDE DEF r, i
    <2>6. /\ registry' \in Seq(Delegation) /\ DOMAIN registry' = DOMAIN registry
          /\ \A k \in DOMAIN registry : registry'[k] = IF k = i THEN r ELSE registry[k]
      BY <2>2, <2>3, <2>4, <2>5
    <2>7. /\ calls' = calls \ {c}
          /\ UNCHANGED <<selected, descriptor, reading, panel, jobs, started>>
          /\ crossed' = (crossed \/ c.over)
      BY <2>1 DEF Acl!Answers
    <2>8. AclTypes'
      BY <2>6, <2>7 DEF AclInv, AclTypes
    <2>9. ClaimsHeld'
      BY <2>4, <2>6, <2>7 DEF AclInv, ClaimsHeld, IsClaimOf
    <2>10. StagesAgree'
      BY <2>7 DEF AclInv, StagesAgree, OfSimulation
    <2>11. Acl!ConfirmedAsShown'
      BY <2>2, <2>4, <2>5, <2>6, <2>7 DEF AclInv, Acl!ConfirmedAsShown
    <2>12. Acl!EvidenceIsSpentOnce'
      BY <2>4, <2>6 DEF AclInv, Acl!EvidenceIsSpentOnce
    <2> QED
      BY <2>8, <2>9, <2>10, <2>11, <2>12 DEF AclInv
  <1> QED
    BY <1>1, <1>2, <1>3, <1>4, <1>5, <1>6, <1>7, <1>8, <1>9, <1>10, <1>11, <1>12, <1>13, <1>14,
       <1>15,
       <1>16, <1>17, <1>18 DEF Acl!Next, Acl!Fails, Acl!SimulationEnds, Acl!ModeIsRead,
          Acl!Prepared, Acl!Claimed,
       Acl!Ticketed, Acl!PrewriteAnswers, Acl!ConfirmationAnswers

-----------------------------------------------------------------------------
(* The creation of an object.                                              *)

Created == [n : Nat, of : Copied \cup {Nothing}, form : Copied \cup {Nothing},
            ou : Creation!Place \cup {Nothing}, start : Creation!Place \cup {Nothing},
            chosen : Creation!Place \cup {Nothing}, options : SUBSET Unit,
            preparing : BOOLEAN, typed : BOOLEAN]
Load == [kind : Creation!Kind, for : Creation!Place, n : Nat]
Copy == [of : Copied, req : Nat]
Job == [kind : Creation!Kind, d : Created, done : BOOLEAN]

CreationTypes ==
    /\ dialog \in [Creation!Kind -> Created]
    /\ flag \in [Creation!Kind -> BOOLEAN] /\ ouFlag \in [Creation!Kind -> BOOLEAN]
    /\ loads \subseteq Load /\ copies \subseteq Copy /\ running \subseteq Job
    /\ request \in Nat /\ opens \in Nat /\ crossed \in BOOLEAN

\* A dialog on show has a number, none is to come, and of the requests neither.
IsOpen(k) == dialog[k].n # 0
DialogsNumbered ==
    /\ \A k \in Creation!Kind : /\ dialog[k].n <= opens
                                /\ dialog[k] # Creation!Closed => IsOpen(k)
    /\ \A l \in loads : l.n <= opens
    /\ \A c \in copies : c.req <= request

\* One creation of a user at most awaits its answer, under a dialog that stays
\* open with its flag up; so has the dialog of a copy that is being prepared.
Awaits(j) == j.kind = "user" /\ ~j.done
CreationsHeld ==
    /\ \A i, j \in running : Awaits(i) /\ Awaits(j) => i = j
    /\ \A j \in running : Awaits(j) => IsOpen("user") /\ flag["user"]
                                       /\ ~dialog["user"].preparing
    /\ dialog["user"].preparing => flag["user"]

\* The copy that would be shown is that of the dialog, which waits for it.
CopyIsAwaited ==
    \A c \in copies :
       c.req = request =>
          /\ IsOpen("user") /\ flag["user"] /\ dialog["user"].preparing
          /\ dialog["user"].of = c.of /\ dialog["user"].chosen = Nothing
          /\ dialog["user"].start = Creation!CopyPreparation(c.of).ou
          /\ \A j \in running : ~Awaits(j)

\* The places that a dialog asked for are its own, and a user's cannot be chosen
\* meanwhile.
PlacesAwaited ==
    \A l \in loads :
       l.n = dialog[l.kind].n /\ IsOpen(l.kind) =>
          /\ l.for = dialog[l.kind].start
          /\ l.kind = "user" => ouFlag["user"] /\ dialog["user"].chosen = Nothing

\* What a dialog holds is what was asked for in it, or where its list moved it.
Asked(k, d) ==
    /\ d.form = d.of
    /\ \/ d.ou = d.chosen
       \/ d.ou = d.start /\ d.chosen \in Container \cup {Nothing}
       \/ Creation!MovedByItsList(k, d)
DialogsAsked == \A k \in Creation!Kind : Asked(k, dialog[k])

\* A barred unit is in the dialog from its opening, until its list has come if it
\* is not a copy's.
BarredIsStart ==
    /\ \A ou \in Barred \cap ({dialog["user"].ou} \cup dialog["user"].options) :
          ou = dialog["user"].start
    /\ ~ouFlag["user"] /\ dialog["user"].of = Nothing =>
          Barred \cap ({dialog["user"].ou} \cup dialog["user"].options) = {}

\* What is posted was so when it was.
AsAsked(j) ==
    /\ Asked(j.kind, j.d)
    /\ j.kind = "user" /\ j.d.ou \in Barred => j.d.ou = j.d.start /\ j.d.of # Nothing
PostedAsAsked == \A j \in running : AsAsked(j)

Uncrossed == /\ CreationsHeld /\ CopyIsAwaited /\ PlacesAwaited
             /\ DialogsAsked /\ BarredIsStart /\ PostedAsAsked
CreationInv == CreationTypes /\ DialogsNumbered /\ (~crossed => Uncrossed)

LEMMA CreationConstants ==
    /\ Nothing \notin Copied \cup Unit \cup Container
    /\ Root \in Unit /\ Barred \subseteq Unit \ {Root} /\ Foremost \in [Creation!Kind -> Unit]
    /\ Foremost["user"] \notin Barred /\ Home \in [Copied \cup Container -> Creation!Place]
    /\ Unit \cup Container = Creation!Place /\ Creation!Kind = {"user", "admin"}
    /\ \A u \in Copied : Creation!CopyPreparation(u).ou \in Unit
    /\ \A u \in Copied : Creation!CopyPreparation(u).form = u
  BY ConsoleConstants DEF Creation!Places, Creation!Place, Creation!Kind, Creation!CopyPreparation

LEMMA ClosedDialog ==
    /\ Creation!Closed \in Created /\ Creation!Closed.n = 0 /\ Creation!Closed.of = Nothing
    /\ Creation!Closed.form = Nothing /\ Creation!Closed.ou = Nothing
    /\ Creation!Closed.start = Nothing /\ Creation!Closed.chosen = Nothing
    /\ Creation!Closed.options = {} /\ ~Creation!Closed.preparing
  BY DEF Creation!Closed, Created

\* Nothing is no unit, and no barred one is in what is closed.
LEMMA ClosedIsAsked ==
    ASSUME NEW k
    PROVE  Asked(k, Creation!Closed)
  BY ClosedDialog DEF Asked

\* One of the dialogs becomes another record, the other stays.
LEMMA DialogBecomes ==
    ASSUME CreationTypes, NEW k \in Creation!Kind, NEW d \in Created,
           dialog' = [dialog EXCEPT ![k] = d]
    PROVE  /\ dialog' \in [Creation!Kind -> Created] /\ dialog'[k] = d
           /\ \A i \in Creation!Kind : i # k => dialog'[i] = dialog[i]
  BY DEF CreationTypes

LEMMA CreationStart == Creation!Init => CreationInv
  <1> SUFFICES ASSUME Creation!Init PROVE CreationInv
    OBVIOUS
  <1>1. /\ \A k \in Creation!Kind : dialog[k] = Creation!Closed
        /\ loads = {} /\ copies = {} /\ running = {} /\ request = 0 /\ opens = 0
    BY DEF Creation!Init
  <1>2. CreationTypes
    BY ClosedDialog, CreationConstants DEF Creation!Init, CreationTypes
  <1>3. DialogsNumbered /\ CreationsHeld /\ CopyIsAwaited /\ PlacesAwaited /\ PostedAsAsked
    BY <1>1, ClosedDialog, CreationConstants DEF DialogsNumbered, CreationsHeld, CopyIsAwaited,
       PlacesAwaited, PostedAsAsked, IsOpen
  <1>4. DialogsAsked
    BY <1>1, ClosedIsAsked DEF DialogsAsked
  <1>5. BarredIsStart
    BY <1>1, ClosedDialog, CreationConstants DEF BarredIsStart
  <1> QED
    BY <1>2, <1>3, <1>4, <1>5 DEF CreationInv, Uncrossed

LEMMA CreationStep ==
    ASSUME CreationInv, Creation!Next
    PROVE  CreationInv'
  <1> USE DEF IsOpen
  <1>0. /\ CreationTypes /\ DialogsNumbered /\ (~crossed => Uncrossed)
        /\ "user" \in Creation!Kind /\ "admin" \in Creation!Kind
    BY CreationConstants DEF CreationInv
  <1>1. ASSUME NEW target \in Creation!Place \cup Copied, Creation!OpenCreateUser(target)
       PROVE  CreationInv'
    <2> DEFINE ou == Creation!DefaultOu(target)
               d == Creation!Opened(Nothing, ou, Creation!FirstOptions(ou), FALSE)
    <2>1. /\ ou \in Creation!Place /\ opens' = opens + 1 /\ opens \in Nat /\ opens' \in Nat
          /\ \A k \in Creation!Kind : dialog[k] = Creation!Closed /\ dialog[k].n = 0
          /\ dialog' = [dialog EXCEPT !["user"] = d]
          /\ loads' = loads \cup {[kind |-> "user", for |-> ou, n |-> opens']}
          /\ ouFlag' = [ouFlag EXCEPT !["user"] = TRUE]
          /\ UNCHANGED <<flag, copies, request, mode, running, crossed>>
      BY <1>0, <1>1, CreationConstants, ClosedDialog DEF Creation!OpenCreateUser,
         Creation!Reaches, Creation!DefaultOu, Creation!AsksPlaces, CreationTypes, Creation!Place
    <2>2. /\ d \in Created /\ d.n = opens' /\ d.of = Nothing /\ d.form = Nothing /\ d.ou = ou
          /\ d.start = ou /\ d.chosen = Nothing /\ ~d.preparing
          /\ d.options \subseteq {Root, ou}
      BY <2>1, CreationConstants DEF Creation!Opened, Creation!Closed, Created,
         Creation!FirstOptions
    <2>3. /\ dialog' \in [Creation!Kind -> Created] /\ dialog'["user"] = d
          /\ dialog'["admin"] = dialog["admin"]
      BY <1>0, <2>1, <2>2, DialogBecomes, CreationConstants
    <2> HIDE DEF d, ou
    <2>4. CreationTypes'
      BY <1>0, <2>1, <2>2, <2>3, CreationConstants DEF CreationTypes, Load, Copy, Job
    <2>5. DialogsNumbered'
      BY <1>0, <2>1, <2>2, <2>3, CreationConstants DEF DialogsNumbered, CreationTypes, Load, Copy
    <2>6. ASSUME ~crossed' PROVE Uncrossed'
      <3>0. ~crossed /\ Uncrossed
        BY <1>0, <2>1, <2>2, <2>3, <2>6 DEF CreationTypes
      <3>1. CreationsHeld'
        BY <1>0, <2>1, <2>2, <2>3, <3>0, CreationConstants DEF Uncrossed, CreationsHeld, Awaits,
           CopyIsAwaited
      <3>2. CopyIsAwaited'
        BY <1>0, <2>1, <2>2, <2>3, <3>0, CreationConstants DEF Uncrossed, CopyIsAwaited, Awaits,
           CreationsHeld, CreationTypes, Copy, DialogsNumbered
      <3>3. PlacesAwaited'
        BY <1>0, <2>1, <2>2, <2>3, <3>0, CreationConstants DEF Uncrossed, PlacesAwaited,
           CopyIsAwaited, CreationTypes, Load, DialogsNumbered
      <3>4. DialogsAsked'
        BY <1>0, <2>1, <2>2, <2>3, <3>0, CreationConstants DEF Uncrossed, DialogsAsked, Asked
      <3>5. BarredIsStart'
        BY <1>0, <2>1, <2>2, <2>3, <3>0, CreationConstants DEF Uncrossed, BarredIsStart,
           CopyIsAwaited, CreationTypes
      <3>6. PostedAsAsked'
        BY <1>0, <2>1, <2>2, <2>3, <3>0, CreationConstants DEF Uncrossed, PostedAsAsked
      <3> QED
        BY <3>1, <3>2, <3>3, <3>4, <3>5, <3>6 DEF Uncrossed
    <2> QED
      BY <2>4, <2>5, <2>6 DEF CreationInv
  <1>2. ASSUME NEW p \in Creation!Place, Creation!OpenAdminCreation(p) PROVE CreationInv'
    <2> DEFINE d == Creation!Opened(Nothing, p, {}, FALSE)
    <2>1. /\ opens' = opens + 1 /\ opens \in Nat /\ opens' \in Nat
          /\ \A k \in Creation!Kind : dialog[k] = Creation!Closed /\ dialog[k].n = 0
          /\ dialog' = [dialog EXCEPT !["admin"] = d]
          /\ loads' = loads \cup {[kind |-> "admin", for |-> p, n |-> opens']}
          /\ ouFlag' = [ouFlag EXCEPT !["admin"] = TRUE]
          /\ UNCHANGED <<flag, copies, request, mode, running, crossed>>
      BY <1>0, <1>2, CreationConstants, ClosedDialog DEF Creation!OpenAdminCreation,
         Creation!Reaches, Creation!AsksPlaces, CreationTypes
    <2>2. /\ d \in Created /\ d.n = opens' /\ d.of = Nothing /\ d.form = Nothing /\ d.ou = p
          /\ d.start = p /\ d.chosen = Nothing
      BY <2>1, CreationConstants DEF Creation!Opened, Creation!Closed, Created
    <2>3. /\ dialog' \in [Creation!Kind -> Created] /\ dialog'["admin"] = d
          /\ dialog'["user"] = dialog["user"]
      BY <1>0, <2>1, <2>2, DialogBecomes, CreationConstants
    <2> HIDE DEF d
    <2>4. CreationTypes'
      BY <1>0, <2>1, <2>2, <2>3, CreationConstants DEF CreationTypes, Load, Copy, Job
    <2>5. DialogsNumbered'
      BY <1>0, <2>1, <2>2, <2>3, CreationConstants DEF DialogsNumbered, CreationTypes, Load, Copy
    <2>6. ASSUME ~crossed' PROVE Uncrossed'
      <3>0. ~crossed /\ Uncrossed
        BY <1>0, <2>1, <2>2, <2>3, <2>6 DEF CreationTypes
      <3>1. CreationsHeld'
        BY <1>0, <2>1, <2>2, <2>3, <3>0, CreationConstants DEF Uncrossed, CreationsHeld, Awaits,
           CopyIsAwaited
      <3>2. CopyIsAwaited'
        BY <1>0, <2>1, <2>2, <2>3, <3>0, CreationConstants DEF Uncrossed, CopyIsAwaited, Awaits,
           CreationsHeld, CreationTypes, Copy, DialogsNumbered
      <3>3. PlacesAwaited'
        BY <1>0, <2>1, <2>2, <2>3, <3>0, CreationConstants DEF Uncrossed, PlacesAwaited,
           CopyIsAwaited, CreationTypes, Load, DialogsNumbered
      <3>4. DialogsAsked'
        BY <1>0, <2>1, <2>2, <2>3, <3>0, CreationConstants DEF Uncrossed, DialogsAsked, Asked
      <3>5. BarredIsStart'
        BY <1>0, <2>1, <2>2, <2>3, <3>0, CreationConstants DEF Uncrossed, BarredIsStart,
           CopyIsAwaited, CreationTypes
      <3>6. PostedAsAsked'
        BY <1>0, <2>1, <2>2, <2>3, <3>0, CreationConstants DEF Uncrossed, PostedAsAsked
      <3> QED
        BY <3>1, <3>2, <3>3, <3>4, <3>5, <3>6 DEF Uncrossed
    <2> QED
      BY <2>4, <2>5, <2>6 DEF CreationInv
  <1>3. ASSUME NEW u \in Copied, Creation!OpenCopyUser(u) PROVE CreationInv'
    <2> DEFINE ou == Creation!CopyPreparation(u).ou
               d == Creation!Opened(u, ou, Creation!FirstOptions(ou), TRUE)
    <2>1. /\ ou \in Unit /\ opens' = opens + 1 /\ opens \in Nat /\ opens' \in Nat
          /\ request' = request + 1 /\ request \in Nat /\ request' \in Nat
          /\ \A k \in Creation!Kind : dialog[k] = Creation!Closed /\ dialog[k].n = 0
          /\ dialog' = [dialog EXCEPT !["user"] = d]
          /\ flag' = [flag EXCEPT !["user"] = TRUE]
          /\ copies' = copies \cup {[of |-> u, req |-> request']}
          /\ UNCHANGED <<ouFlag, loads, mode, running, crossed>>
      BY <1>0, <1>3, CreationConstants, ClosedDialog DEF Creation!OpenCopyUser,
         Creation!Reaches, CreationTypes
    <2>2. /\ d \in Created /\ d.n = opens' /\ d.of = u /\ d.form = u /\ d.ou = ou
          /\ d.start = Creation!CopyPreparation(u).ou /\ d.start = ou /\ d.chosen = Nothing
          /\ d.preparing /\ d.options \subseteq {Root, ou}
      BY <2>1, CreationConstants DEF Creation!Opened, Creation!Closed, Created,
         Creation!FirstOptions
    <2>3. /\ dialog' \in [Creation!Kind -> Created] /\ dialog'["user"] = d
          /\ dialog'["admin"] = dialog["admin"]
      BY <1>0, <2>1, <2>2, DialogBecomes, CreationConstants
    <2> HIDE DEF d, ou
    <2>4. CreationTypes'
      BY <1>0, <2>1, <2>2, <2>3, CreationConstants DEF CreationTypes, Load, Copy, Job
    <2>5. DialogsNumbered'
      BY <1>0, <2>1, <2>2, <2>3, CreationConstants DEF DialogsNumbered, CreationTypes, Load, Copy
    <2>6. ASSUME ~crossed' PROVE Uncrossed'
      <3>0. ~crossed /\ Uncrossed
        BY <1>0, <2>1, <2>2, <2>3, <2>6 DEF CreationTypes
      <3>9. /\ \A j \in running : ~Awaits(j)
            /\ \A c \in copies : c.req # request'
            /\ flag'["user"]
        BY <1>0, <2>1, <3>0 DEF Uncrossed, CreationsHeld, CreationTypes, Copy, DialogsNumbered
      <3>1. CreationsHeld'
        BY <2>1, <2>2, <2>3, <3>9 DEF CreationsHeld, Awaits
      <3>2. CopyIsAwaited'
        <4>1. \A c \in copies' : c.req = request' => c.of = u
          BY <2>1, <3>9
        <4>2. dialog'["user"].n # 0
          BY <2>1, <2>2, <2>3
        <4>3. dialog'["user"].start = Creation!CopyPreparation(u).ou
          BY <2>2, <2>3
        <4> QED
          BY <2>1, <2>2, <2>3, <3>9, <4>1, <4>2, <4>3 DEF CopyIsAwaited, Awaits
      <3>3. PlacesAwaited'
        BY <1>0, <2>1, <2>2, <2>3, <3>0, CreationConstants DEF Uncrossed, PlacesAwaited,
           CopyIsAwaited, CreationTypes, Load, DialogsNumbered
      <3>4. DialogsAsked'
        BY <1>0, <2>1, <2>2, <2>3, <3>0, CreationConstants DEF Uncrossed, DialogsAsked, Asked
      <3>5. BarredIsStart'
        BY <1>0, <2>1, <2>2, <2>3, <3>0, CreationConstants DEF Uncrossed, BarredIsStart,
           CopyIsAwaited, CreationTypes
      <3>6. PostedAsAsked'
        BY <1>0, <2>1, <2>2, <2>3, <3>0, CreationConstants DEF Uncrossed, PostedAsAsked
      <3> QED
        BY <3>1, <3>2, <3>3, <3>4, <3>5, <3>6 DEF Uncrossed
    <2> QED
      BY <2>4, <2>5, <2>6 DEF CreationInv
  <1>4. ASSUME NEW ou \in Unit, Creation!ChooseUserOu(ou) PROVE CreationInv'
    <2> DEFINE d == [dialog["user"] EXCEPT !.ou = ou, !.chosen = ou]
    <2>1. /\ dialog["user"] \in Created /\ dialog["user"] # Creation!Closed
          /\ ou \in dialog["user"].options /\ ~flag["user"] /\ ~ouFlag["user"]
          /\ dialog' = [dialog EXCEPT !["user"] = d]
          /\ UNCHANGED <<flag, ouFlag, loads, copies, request, mode, running, opens, crossed>>
      BY <1>0, <1>4 DEF Creation!ChooseUserOu, Creation!UserModalOffersPlaces, CreationTypes
    <2>2. /\ d \in Created /\ d.n = dialog["user"].n /\ d.of = dialog["user"].of
          /\ d.form = dialog["user"].form /\ d.start = dialog["user"].start
          /\ d.preparing = dialog["user"].preparing /\ d.options = dialog["user"].options
          /\ d.ou = ou /\ d.chosen = ou
      BY <2>1, CreationConstants DEF Created
    <2>3. /\ dialog' \in [Creation!Kind -> Created] /\ dialog'["user"] = d
          /\ dialog'["admin"] = dialog["admin"]
      BY <1>0, <2>1, <2>2, DialogBecomes, CreationConstants
    <2> HIDE DEF d
    <2>4. CreationTypes'
      BY <1>0, <2>1, <2>2, <2>3, CreationConstants DEF CreationTypes, Load, Copy, Job
    <2>5. DialogsNumbered'
      BY <1>0, <2>1, <2>2, <2>3, CreationConstants DEF DialogsNumbered, CreationTypes, Load, Copy
    <2>6. ASSUME ~crossed' PROVE Uncrossed'
      <3>0. ~crossed /\ Uncrossed
        BY <1>0, <2>1, <2>2, <2>3, <2>6 DEF CreationTypes
      <3>1. CreationsHeld'
        BY <1>0, <2>1, <2>2, <2>3, <3>0, CreationConstants DEF Uncrossed, CreationsHeld, Awaits,
           CopyIsAwaited
      <3>2. CopyIsAwaited'
        BY <1>0, <2>1, <2>2, <2>3, <3>0, CreationConstants DEF Uncrossed, CopyIsAwaited, Awaits,
           CreationsHeld, CreationTypes, Copy, DialogsNumbered
      <3>3. PlacesAwaited'
        BY <1>0, <2>1, <2>2, <2>3, <3>0, CreationConstants DEF Uncrossed, PlacesAwaited,
           CopyIsAwaited, CreationTypes, Load, DialogsNumbered
      <3>4. DialogsAsked'
        BY <1>0, <2>1, <2>2, <2>3, <3>0, CreationConstants DEF Uncrossed, DialogsAsked, Asked
      <3>5. BarredIsStart'
        BY <1>0, <2>1, <2>2, <2>3, <3>0, CreationConstants DEF Uncrossed, BarredIsStart,
           CopyIsAwaited, CreationTypes
      <3>6. PostedAsAsked'
        BY <1>0, <2>1, <2>2, <2>3, <3>0, CreationConstants DEF Uncrossed, PostedAsAsked
      <3> QED
        BY <3>1, <3>2, <3>3, <3>4, <3>5, <3>6 DEF Uncrossed
    <2> QED
      BY <2>4, <2>5, <2>6 DEF CreationInv
  <1>5. CASE Creation!TypeProduction
    <2> DEFINE d == [dialog["user"] EXCEPT !.typed = TRUE]
    <2>1. /\ dialog["user"] \in Created /\ dialog["user"] # Creation!Closed /\ ~flag["user"]
          /\ dialog' = [dialog EXCEPT !["user"] = d]
          /\ UNCHANGED <<flag, ouFlag, loads, copies, request, mode, running, opens, crossed>>
      BY <1>0, <1>5 DEF Creation!TypeProduction, Creation!UserModalOffersFields, CreationTypes
    <2>2. /\ d \in Created /\ d.n = dialog["user"].n /\ d.of = dialog["user"].of
          /\ d.form = dialog["user"].form /\ d.start = dialog["user"].start
          /\ d.preparing = dialog["user"].preparing /\ d.options = dialog["user"].options
          /\ d.ou = dialog["user"].ou /\ d.chosen = dialog["user"].chosen
      BY <2>1, CreationConstants DEF Created
    <2>3. /\ dialog' \in [Creation!Kind -> Created] /\ dialog'["user"] = d
          /\ dialog'["admin"] = dialog["admin"]
      BY <1>0, <2>1, <2>2, DialogBecomes, CreationConstants
    <2> HIDE DEF d
    <2>4. CreationTypes'
      BY <1>0, <2>1, <2>2, <2>3, CreationConstants DEF CreationTypes, Load, Copy, Job
    <2>5. DialogsNumbered'
      BY <1>0, <2>1, <2>2, <2>3, CreationConstants DEF DialogsNumbered, CreationTypes, Load, Copy
    <2>6. ASSUME ~crossed' PROVE Uncrossed'
      <3>0. ~crossed /\ Uncrossed
        BY <1>0, <2>1, <2>2, <2>3, <2>6 DEF CreationTypes
      <3>1. CreationsHeld'
        BY <1>0, <2>1, <2>2, <2>3, <3>0, CreationConstants DEF Uncrossed, CreationsHeld, Awaits,
           CopyIsAwaited
      <3>2. CopyIsAwaited'
        BY <1>0, <2>1, <2>2, <2>3, <3>0, CreationConstants DEF Uncrossed, CopyIsAwaited, Awaits,
           CreationsHeld, CreationTypes, Copy, DialogsNumbered
      <3>3. PlacesAwaited'
        BY <1>0, <2>1, <2>2, <2>3, <3>0, CreationConstants DEF Uncrossed, PlacesAwaited,
           CopyIsAwaited, CreationTypes, Load, DialogsNumbered
      <3>4. DialogsAsked'
        BY <1>0, <2>1, <2>2, <2>3, <3>0, CreationConstants DEF Uncrossed, DialogsAsked, Asked,
           Creation!MovedByItsList
      <3>5. BarredIsStart'
        BY <1>0, <2>1, <2>2, <2>3, <3>0, CreationConstants DEF Uncrossed, BarredIsStart,
           CopyIsAwaited, CreationTypes
      <3>6. PostedAsAsked'
        BY <1>0, <2>1, <2>2, <2>3, <3>0, CreationConstants DEF Uncrossed, PostedAsAsked
      <3> QED
        BY <3>1, <3>2, <3>3, <3>4, <3>5, <3>6 DEF Uncrossed
    <2> QED
      BY <2>4, <2>5, <2>6 DEF CreationInv
  <1>6. ASSUME NEW p \in Creation!Place, Creation!ChooseParent(p) PROVE CreationInv'
    <2> DEFINE d == [dialog["admin"] EXCEPT !.ou = p, !.chosen = p]
    <2>1. /\ dialog["admin"] \in Created /\ dialog["admin"] # Creation!Closed
          /\ dialog' = [dialog EXCEPT !["admin"] = d]
          /\ UNCHANGED <<flag, ouFlag, loads, copies, request, mode, running, opens, crossed>>
      BY <1>0, <1>6 DEF Creation!ChooseParent, Creation!AdminModalOffersFields, CreationTypes
    <2>2. /\ d \in Created /\ d.n = dialog["admin"].n /\ d.of = dialog["admin"].of
          /\ d.form = dialog["admin"].form /\ d.start = dialog["admin"].start
          /\ d.ou = p /\ d.chosen = p
      BY <2>1, CreationConstants DEF Created
    <2>3. /\ dialog' \in [Creation!Kind -> Created] /\ dialog'["admin"] = d
          /\ dialog'["user"] = dialog["user"]
      BY <1>0, <2>1, <2>2, DialogBecomes, CreationConstants
    <2> HIDE DEF d
    <2>4. CreationTypes'
      BY <1>0, <2>1, <2>2, <2>3, CreationConstants DEF CreationTypes, Load, Copy, Job
    <2>5. DialogsNumbered'
      BY <1>0, <2>1, <2>2, <2>3, CreationConstants DEF DialogsNumbered, CreationTypes, Load, Copy
    <2>6. ASSUME ~crossed' PROVE Uncrossed'
      <3>0. ~crossed /\ Uncrossed
        BY <1>0, <2>1, <2>2, <2>3, <2>6 DEF CreationTypes
      <3>1. CreationsHeld'
        BY <1>0, <2>1, <2>2, <2>3, <3>0, CreationConstants DEF Uncrossed, CreationsHeld, Awaits,
           CopyIsAwaited
      <3>2. CopyIsAwaited'
        BY <1>0, <2>1, <2>2, <2>3, <3>0, CreationConstants DEF Uncrossed, CopyIsAwaited, Awaits,
           CreationsHeld, CreationTypes, Copy, DialogsNumbered
      <3>3. PlacesAwaited'
        BY <1>0, <2>1, <2>2, <2>3, <3>0, CreationConstants DEF Uncrossed, PlacesAwaited,
           CopyIsAwaited, CreationTypes, Load, DialogsNumbered
      <3>4. DialogsAsked'
        BY <1>0, <2>1, <2>2, <2>3, <3>0, CreationConstants DEF Uncrossed, DialogsAsked, Asked
      <3>5. BarredIsStart'
        BY <1>0, <2>1, <2>2, <2>3, <3>0, CreationConstants DEF Uncrossed, BarredIsStart,
           CopyIsAwaited, CreationTypes
      <3>6. PostedAsAsked'
        BY <1>0, <2>1, <2>2, <2>3, <3>0, CreationConstants DEF Uncrossed, PostedAsAsked
      <3> QED
        BY <3>1, <3>2, <3>3, <3>4, <3>5, <3>6 DEF Uncrossed
    <2> QED
      BY <2>4, <2>5, <2>6 DEF CreationInv
  <1>7. CASE Creation!CloseUser
    <2>1. /\ request' = request + 1 /\ request \in Nat /\ request' \in Nat
          /\ dialog["user"] # Creation!Closed /\ (flag["user"] => dialog["user"].preparing)
          /\ flag' = [flag EXCEPT !["user"] = FALSE]
          /\ UNCHANGED <<ouFlag, loads, copies, mode, running, opens, crossed>>
      BY <1>0, <1>7 DEF Creation!CloseUser, CreationTypes
    <2>2. /\ dialog' \in [Creation!Kind -> Created] /\ dialog'["user"] = Creation!Closed
          /\ dialog'["admin"] = dialog["admin"]
      BY <1>0, <1>7, ClosedDialog, DialogBecomes, CreationConstants DEF Creation!CloseUser
    <2>3. dialog'["user"].n = 0 /\ ~dialog'["user"].preparing
      BY <2>2, ClosedDialog
    <2>4. CreationTypes'
      BY <1>0, <2>1, <2>2, <2>3, CreationConstants DEF CreationTypes, Load, Copy, Job
    <2>5. DialogsNumbered'
      BY <1>0, <2>1, <2>2, <2>3, CreationConstants DEF DialogsNumbered, CreationTypes, Load, Copy
    <2>6. ASSUME ~crossed' PROVE Uncrossed'
      <3>0. ~crossed /\ Uncrossed
        BY <1>0, <2>1, <2>2, <2>3, <2>6 DEF CreationTypes
      <3>1. CreationsHeld'
        BY <1>0, <2>1, <2>2, <2>3, <3>0, CreationConstants DEF Uncrossed, CreationsHeld, Awaits,
           CopyIsAwaited
      <3>2. CopyIsAwaited'
        BY <1>0, <2>1, <2>2, <2>3, <3>0, CreationConstants DEF Uncrossed, CopyIsAwaited, Awaits,
           CreationsHeld, CreationTypes, Copy, DialogsNumbered
      <3>3. PlacesAwaited'
        BY <1>0, <2>1, <2>2, <2>3, <3>0, CreationConstants DEF Uncrossed, PlacesAwaited,
           CopyIsAwaited, CreationTypes, Load, DialogsNumbered
      <3>4. DialogsAsked'
        BY <2>2, <3>0, ClosedIsAsked, CreationConstants DEF Uncrossed, DialogsAsked
      <3>5. BarredIsStart'
        BY <2>2, ClosedDialog, CreationConstants DEF BarredIsStart
      <3>6. PostedAsAsked'
        BY <1>0, <2>1, <2>2, <2>3, <3>0, CreationConstants DEF Uncrossed, PostedAsAsked
      <3> QED
        BY <3>1, <3>2, <3>3, <3>4, <3>5, <3>6 DEF Uncrossed
    <2> QED
      BY <2>4, <2>5, <2>6 DEF CreationInv
  <1>8. CASE Creation!CloseAdmin
    <2>1. /\ ouFlag' = [ouFlag EXCEPT !["admin"] = FALSE]
          /\ UNCHANGED <<flag, loads, copies, request, mode, running, opens, crossed>>
      BY <1>8 DEF Creation!CloseAdmin
    <2>2. /\ dialog' \in [Creation!Kind -> Created] /\ dialog'["admin"] = Creation!Closed
          /\ dialog'["user"] = dialog["user"]
      BY <1>0, <1>8, ClosedDialog, DialogBecomes, CreationConstants DEF Creation!CloseAdmin
    <2>3. dialog'["admin"].n = 0
      BY <2>2, ClosedDialog
    <2>4. CreationTypes'
      BY <1>0, <2>1, <2>2, <2>3, CreationConstants DEF CreationTypes, Load, Copy, Job
    <2>5. DialogsNumbered'
      BY <1>0, <2>1, <2>2, <2>3, CreationConstants DEF DialogsNumbered, CreationTypes, Load, Copy
    <2>6. ASSUME ~crossed' PROVE Uncrossed'
      <3>0. ~crossed /\ Uncrossed
        BY <1>0, <2>1, <2>2, <2>3, <2>6 DEF CreationTypes
      <3>1. CreationsHeld'
        BY <1>0, <2>1, <2>2, <2>3, <3>0, CreationConstants DEF Uncrossed, CreationsHeld, Awaits,
           CopyIsAwaited
      <3>2. CopyIsAwaited'
        BY <1>0, <2>1, <2>2, <2>3, <3>0, CreationConstants DEF Uncrossed, CopyIsAwaited, Awaits,
           CreationsHeld, CreationTypes, Copy, DialogsNumbered
      <3>3. PlacesAwaited'
        BY <1>0, <2>1, <2>2, <2>3, <3>0, CreationConstants DEF Uncrossed, PlacesAwaited,
           CopyIsAwaited, CreationTypes, Load, DialogsNumbered
      <3>4. DialogsAsked'
        BY <2>2, <3>0, ClosedIsAsked, CreationConstants DEF Uncrossed, DialogsAsked
      <3>5. BarredIsStart'
        BY <1>0, <2>1, <2>2, <2>3, <3>0, CreationConstants DEF Uncrossed, BarredIsStart,
           CopyIsAwaited, CreationTypes
      <3>6. PostedAsAsked'
        BY <1>0, <2>1, <2>2, <2>3, <3>0, CreationConstants DEF Uncrossed, PostedAsAsked
      <3> QED
        BY <3>1, <3>2, <3>3, <3>4, <3>5, <3>6 DEF Uncrossed
    <2> QED
      BY <2>4, <2>5, <2>6 DEF CreationInv
  <1>9. CASE Creation!SubmitCreateUser
    <2> DEFINE j == [kind |-> "user", d |-> dialog["user"], done |-> FALSE]
    <2>1. /\ running' = running \cup {j} /\ flag' = [flag EXCEPT !["user"] = TRUE]
          /\ ~flag["user"] /\ ~ouFlag["user"] /\ dialog["user"] # Creation!Closed
          /\ UNCHANGED <<dialog, ouFlag, loads, copies, request, mode, opens, crossed>>
      BY <1>9 DEF Creation!SubmitCreateUser, Creation!Posts, Creation!UserModalOffers
    <2>2. j \in Job /\ j.kind = "user" /\ j.d = dialog["user"] /\ ~j.done /\ IsOpen("user")
      BY <1>0, <2>1 DEF Job, CreationTypes, DialogsNumbered
    <2> HIDE DEF j
    <2>3. CreationTypes'
      BY <1>0, <2>1, <2>2, CreationConstants DEF CreationTypes, Load, Copy, Job
    <2>4. DialogsNumbered'
      BY <1>0, <2>1, <2>2, CreationConstants DEF DialogsNumbered, CreationTypes, Load, Copy
    <2>5. ASSUME ~crossed' PROVE Uncrossed'
      <3>0. ~crossed /\ Uncrossed
        BY <1>0, <2>1, <2>2, <2>5 DEF CreationTypes
      <3>9. /\ \A i \in running : ~Awaits(i)
            /\ ~dialog["user"].preparing /\ flag'["user"]
        BY <1>0, <2>1, <3>0 DEF Uncrossed, CreationsHeld, CreationTypes
      <3>1. CreationsHeld'
        BY <2>1, <2>2, <3>9 DEF CreationsHeld, Awaits
      <3>2. CopyIsAwaited'
        BY <1>0, <2>1, <2>2, <3>0, CreationConstants DEF Uncrossed, CopyIsAwaited, Awaits,
           CreationsHeld, CreationTypes, Copy, DialogsNumbered
      <3>3. PlacesAwaited'
        BY <1>0, <2>1, <2>2, <3>0, CreationConstants DEF Uncrossed, PlacesAwaited, CopyIsAwaited,
           CreationTypes, Load, DialogsNumbered
      <3>4. DialogsAsked'
        BY <1>0, <2>1, <2>2, <3>0, CreationConstants DEF Uncrossed, DialogsAsked, Asked
      <3>5. BarredIsStart'
        BY <1>0, <2>1, <2>2, <3>0, CreationConstants DEF Uncrossed, BarredIsStart, CopyIsAwaited,
           CreationTypes
      <3>6. PostedAsAsked'
        BY <1>0, <2>1, <2>2, <3>0, CreationConstants DEF Uncrossed, PostedAsAsked, AsAsked,
           DialogsAsked, BarredIsStart
      <3> QED
        BY <3>1, <3>2, <3>3, <3>4, <3>5, <3>6 DEF Uncrossed
    <2> QED
      BY <2>3, <2>4, <2>5 DEF CreationInv
  <1>10. CASE Creation!SubmitAdAdminJob
    <2> DEFINE j == [kind |-> "admin", d |-> dialog["admin"], done |-> FALSE]
    <2>1. /\ running' = running \cup {j} /\ flag' = [flag EXCEPT !["admin"] = TRUE]
          /\ UNCHANGED <<dialog, ouFlag, loads, copies, request, mode, opens, crossed>>
      BY <1>10 DEF Creation!SubmitAdAdminJob, Creation!Posts
    <2>2. j \in Job /\ j.kind = "admin" /\ j.d = dialog["admin"]
      BY <1>0 DEF Job, CreationTypes
    <2> HIDE DEF j
    <2>3. CreationTypes'
      BY <1>0, <2>1, <2>2, CreationConstants DEF CreationTypes, Load, Copy, Job
    <2>4. DialogsNumbered'
      BY <1>0, <2>1, <2>2, CreationConstants DEF DialogsNumbered, CreationTypes, Load, Copy
    <2>5. ASSUME ~crossed' PROVE Uncrossed'
      <3>0. ~crossed /\ Uncrossed
        BY <1>0, <2>1, <2>2, <2>5 DEF CreationTypes
      <3>1. CreationsHeld'
        BY <1>0, <2>1, <2>2, <3>0, CreationConstants DEF Uncrossed, CreationsHeld, Awaits,
           CopyIsAwaited
      <3>2. CopyIsAwaited'
        BY <1>0, <2>1, <2>2, <3>0, CreationConstants DEF Uncrossed, CopyIsAwaited, Awaits,
           CreationsHeld, CreationTypes, Copy, DialogsNumbered
      <3>3. PlacesAwaited'
        BY <1>0, <2>1, <2>2, <3>0, CreationConstants DEF Uncrossed, PlacesAwaited, CopyIsAwaited,
           CreationTypes, Load, DialogsNumbered
      <3>4. DialogsAsked'
        BY <1>0, <2>1, <2>2, <3>0, CreationConstants DEF Uncrossed, DialogsAsked, Asked
      <3>5. BarredIsStart'
        BY <1>0, <2>1, <2>2, <3>0, CreationConstants DEF Uncrossed, BarredIsStart, CopyIsAwaited,
           CreationTypes
      <3>6. PostedAsAsked'
        BY <1>0, <2>1, <2>2, <3>0, CreationConstants DEF Uncrossed, PostedAsAsked, AsAsked,
           DialogsAsked
      <3> QED
        BY <3>1, <3>2, <3>3, <3>4, <3>5, <3>6 DEF Uncrossed
    <2> QED
      BY <2>3, <2>4, <2>5 DEF CreationInv
  <1>11. ASSUME NEW j \in running, Creation!CreationSucceeds(j) PROVE CreationInv'
    <2> DEFINE i == [j EXCEPT !.done = TRUE]
    <2>1. /\ ~j.done /\ running' = (running \ {j}) \cup {i} /\ j \in Job
          /\ UNCHANGED <<flag, ouFlag, loads, copies, request, mode, opens, crossed>>
      BY <1>0, <1>11 DEF Creation!CreationSucceeds, CreationTypes
    <2>2. i \in Job /\ i.kind = j.kind /\ i.d = j.d /\ i.done /\ j.kind \in Creation!Kind
      BY <2>1 DEF Job
    <2>3. /\ dialog' \in [Creation!Kind -> Created] /\ dialog'[j.kind] = Creation!Closed
          /\ \A k \in Creation!Kind : k # j.kind => dialog'[k] = dialog[k]
      BY <1>0, <1>11, <2>2, ClosedDialog, DialogBecomes DEF Creation!CreationSucceeds
    <2>4. dialog'[j.kind].n = 0 /\ ~dialog'[j.kind].preparing
      BY <2>3, ClosedDialog
    <2> HIDE DEF i
    <2>5. CreationTypes'
      BY <1>0, <2>1, <2>2, <2>3, <2>4, CreationConstants DEF CreationTypes, Load, Copy, Job
    <2>6. DialogsNumbered'
      BY <1>0, <2>1, <2>2, <2>3, <2>4, CreationConstants DEF DialogsNumbered, CreationTypes,
         Load, Copy
    <2>7. ASSUME ~crossed' PROVE Uncrossed'
      <3>0. ~crossed /\ Uncrossed
        BY <1>0, <2>1, <2>2, <2>3, <2>4, <2>7 DEF CreationTypes
      <3>1. CreationsHeld'
        BY <1>0, <2>1, <2>2, <2>3, <2>4, <3>0, CreationConstants DEF Uncrossed, CreationsHeld,
           Awaits, CopyIsAwaited
      <3>2. CopyIsAwaited'
        BY <1>0, <2>1, <2>2, <2>3, <2>4, <3>0, CreationConstants DEF Uncrossed, CopyIsAwaited,
           Awaits, CreationsHeld, CreationTypes, Copy, DialogsNumbered
      <3>3. PlacesAwaited'
        BY <1>0, <2>1, <2>2, <2>3, <2>4, <3>0, CreationConstants DEF Uncrossed, PlacesAwaited,
           CopyIsAwaited, CreationTypes, Load, DialogsNumbered
      <3>4. DialogsAsked'
        BY <2>3, <3>0, ClosedIsAsked, CreationConstants DEF Uncrossed, DialogsAsked
      <3>5. BarredIsStart'
        BY <2>1, <2>2, <2>3, <3>0, ClosedDialog, CreationConstants DEF Uncrossed, BarredIsStart
      <3>6. PostedAsAsked'
        BY <2>1, <2>2, <3>0 DEF Uncrossed, PostedAsAsked, AsAsked
      <3> QED
        BY <3>1, <3>2, <3>3, <3>4, <3>5, <3>6 DEF Uncrossed
    <2> QED
      BY <2>5, <2>6, <2>7 DEF CreationInv
  <1>12. ASSUME NEW j \in running, Creation!CreationEnds(j) PROVE CreationInv'
    <2>1. /\ running' = running \ {j} /\ flag' = [flag EXCEPT ![j.kind] = FALSE] /\ j \in Job
          /\ crossed' = (crossed \/ Creation!FlagIsAnothers(j))
          /\ UNCHANGED <<dialog, ouFlag, loads, copies, request, mode, opens>>
      BY <1>0, <1>12 DEF Creation!CreationEnds, CreationTypes
    <2>2. /\ j.kind \in Creation!Kind /\ crossed' \in BOOLEAN
          /\ ~crossed' => /\ ~dialog[j.kind].preparing
                          /\ \A i \in running \ {j} : i.kind # j.kind
      BY <1>0, <2>1 DEF Job, Creation!FlagIsAnothers, CreationTypes
    <2>3. CreationTypes'
      BY <1>0, <2>1, <2>2, CreationConstants DEF CreationTypes, Load, Copy, Job
    <2>4. DialogsNumbered'
      BY <1>0, <2>1, <2>2, CreationConstants DEF DialogsNumbered, CreationTypes, Load, Copy
    <2>5. ASSUME ~crossed' PROVE Uncrossed'
      <3>0. ~crossed /\ Uncrossed
        BY <1>0, <2>1, <2>2, <2>5 DEF CreationTypes
      <3>7. ASSUME j.kind = "user" PROVE CreationsHeld' /\ CopyIsAwaited'
        <4>1. ~dialog["user"].preparing /\ \A i \in running' : i.kind # "user"
          BY <2>1, <2>2, <2>5, <3>7
        <4>2. \A c \in copies : c.req # request
          BY <3>0, <4>1 DEF Uncrossed, CopyIsAwaited
        <4>3. CreationsHeld'
          BY <2>1, <4>1 DEF CreationsHeld, Awaits
        <4>4. CopyIsAwaited'
          BY <2>1, <4>2 DEF CopyIsAwaited
        <4> QED
          BY <4>3, <4>4
      <3>8. ASSUME j.kind = "admin" PROVE CreationsHeld' /\ CopyIsAwaited'
        <4>1. flag'["user"] = flag["user"] /\ running' \subseteq running
          BY <1>0, <2>1, <3>8 DEF CreationTypes
        <4>2. CreationsHeld'
          BY <2>1, <3>0, <4>1 DEF Uncrossed, CreationsHeld, Awaits
        <4>3. CopyIsAwaited'
          BY <2>1, <3>0, <4>1 DEF Uncrossed, CopyIsAwaited, Awaits
        <4> QED
          BY <4>2, <4>3
      <3>1. CreationsHeld' /\ CopyIsAwaited'
        BY <2>2, <3>7, <3>8, CreationConstants
      <3>3. PlacesAwaited'
        BY <1>0, <2>1, <2>2, <3>0, CreationConstants DEF Uncrossed, PlacesAwaited, CopyIsAwaited,
           CreationTypes, Load, DialogsNumbered
      <3>4. DialogsAsked'
        BY <1>0, <2>1, <2>2, <3>0, CreationConstants DEF Uncrossed, DialogsAsked, Asked
      <3>5. BarredIsStart'
        BY <1>0, <2>1, <2>2, <3>0, CreationConstants DEF Uncrossed, BarredIsStart, CopyIsAwaited,
           CreationTypes
      <3>6. PostedAsAsked'
        BY <1>0, <2>1, <2>2, <3>0, CreationConstants DEF Uncrossed, PostedAsAsked
      <3> QED
        BY <3>1, <3>3, <3>4, <3>5, <3>6 DEF Uncrossed
    <2> QED
      BY <2>3, <2>4, <2>5 DEF CreationInv
  <1>13. ASSUME NEW m, Creation!ModeArrives(m) PROVE CreationInv'
    <2>1. UNCHANGED <<dialog, flag, ouFlag, loads, copies, request, running, opens, crossed>>
      BY <1>13 DEF Creation!ModeArrives
    <2>2. CreationTypes'
      BY <1>0, <2>1, CreationConstants DEF CreationTypes, Load, Copy, Job
    <2>3. DialogsNumbered'
      BY <1>0, <2>1, CreationConstants DEF DialogsNumbered, CreationTypes, Load, Copy
    <2>4. ASSUME ~crossed' PROVE Uncrossed'
      <3>0. ~crossed /\ Uncrossed
        BY <1>0, <2>1, <2>4 DEF CreationTypes
      <3>1. CreationsHeld'
        BY <1>0, <2>1, <3>0, CreationConstants DEF Uncrossed, CreationsHeld, Awaits, CopyIsAwaited
      <3>2. CopyIsAwaited'
        BY <1>0, <2>1, <3>0, CreationConstants DEF Uncrossed, CopyIsAwaited, Awaits,
           CreationsHeld, CreationTypes, Copy, DialogsNumbered
      <3>3. PlacesAwaited'
        BY <1>0, <2>1, <3>0, CreationConstants DEF Uncrossed, PlacesAwaited, CopyIsAwaited,
           CreationTypes, Load, DialogsNumbered
      <3>4. DialogsAsked'
        BY <1>0, <2>1, <3>0, CreationConstants DEF Uncrossed, DialogsAsked, Asked
      <3>5. BarredIsStart'
        BY <1>0, <2>1, <3>0, CreationConstants DEF Uncrossed, BarredIsStart, CopyIsAwaited,
           CreationTypes
      <3>6. PostedAsAsked'
        BY <1>0, <2>1, <3>0, CreationConstants DEF Uncrossed, PostedAsAsked
      <3> QED
        BY <3>1, <3>2, <3>3, <3>4, <3>5, <3>6 DEF Uncrossed
    <2> QED
      BY <2>2, <2>3, <2>4 DEF CreationInv
  <1>14. ASSUME NEW c \in copies, Creation!CopyArrives(c), ~Creation!IsCurrentCopy(c)
        PROVE  CreationInv'
    <2>1. /\ copies' = copies \ {c}
          /\ UNCHANGED <<dialog, flag, ouFlag, loads, request, running, opens, crossed>>
      BY <1>14 DEF Creation!CopyArrives
    <2>2. CreationTypes'
      BY <1>0, <2>1, CreationConstants DEF CreationTypes, Load, Copy, Job
    <2>3. DialogsNumbered'
      BY <1>0, <2>1, CreationConstants DEF DialogsNumbered, CreationTypes, Load, Copy
    <2>4. ASSUME ~crossed' PROVE Uncrossed'
      <3>0. ~crossed /\ Uncrossed
        BY <1>0, <2>1, <2>4 DEF CreationTypes
      <3>1. CreationsHeld'
        BY <1>0, <2>1, <3>0, CreationConstants DEF Uncrossed, CreationsHeld, Awaits, CopyIsAwaited
      <3>2. CopyIsAwaited'
        BY <1>0, <2>1, <3>0, CreationConstants DEF Uncrossed, CopyIsAwaited, Awaits,
           CreationsHeld, CreationTypes, Copy, DialogsNumbered
      <3>3. PlacesAwaited'
        BY <1>0, <2>1, <3>0, CreationConstants DEF Uncrossed, PlacesAwaited, CopyIsAwaited,
           CreationTypes, Load, DialogsNumbered
      <3>4. DialogsAsked'
        BY <1>0, <2>1, <3>0, CreationConstants DEF Uncrossed, DialogsAsked, Asked
      <3>5. BarredIsStart'
        BY <1>0, <2>1, <3>0, CreationConstants DEF Uncrossed, BarredIsStart, CopyIsAwaited,
           CreationTypes
      <3>6. PostedAsAsked'
        BY <1>0, <2>1, <3>0, CreationConstants DEF Uncrossed, PostedAsAsked
      <3> QED
        BY <3>1, <3>2, <3>3, <3>4, <3>5, <3>6 DEF Uncrossed
    <2> QED
      BY <2>2, <2>3, <2>4 DEF CreationInv
  <1>15. ASSUME NEW c \in copies, Creation!CopyArrives(c), Creation!IsCurrentCopy(c),
               dialog' = IF dialog["user"] = Creation!Closed THEN dialog
                         ELSE [dialog EXCEPT
                                  !["user"].form = Creation!CopyPreparation(c.of).form,
                                  !["user"].ou = Creation!CopyPreparation(c.of).ou,
                                  !["user"].options =
                                      Creation!FirstOptions(Creation!CopyPreparation(c.of).ou),
                                  !["user"].preparing = FALSE],
               Creation!AsksPlaces("user", Creation!CopyPreparation(c.of).ou, dialog["user"].n)
        PROVE  CreationInv'
    <2> DEFINE ou == Creation!CopyPreparation(c.of).ou
               d == [dialog["user"] EXCEPT !.form = c.of, !.ou = ou, !.preparing = FALSE,
                                           !.options = Creation!FirstOptions(ou)]
    <2>0. c \in Copy /\ Creation!CopyPreparation(c.of).form = c.of
      BY <1>0, CreationConstants DEF CreationTypes, Copy
    <2>1. /\ copies' = copies \ {c} /\ c.req = request /\ flag' = [flag EXCEPT !["user"] = FALSE]
          /\ dialog' = IF dialog["user"] = Creation!Closed THEN dialog
                       ELSE [dialog EXCEPT !["user"] = d]
          /\ loads' = loads \cup {[kind |-> "user", for |-> ou, n |-> dialog["user"].n]}
          /\ ouFlag' = [ouFlag EXCEPT !["user"] = TRUE]
          /\ UNCHANGED <<request, running, opens, crossed>>
      <3>1. dialog["user"] # Creation!Closed => dialog' = [dialog EXCEPT !["user"] = d]
        BY <1>0, <1>15, <2>0 DEF CreationTypes, Created
      <3> QED
        BY <1>15, <3>1 DEF Creation!CopyArrives, Creation!IsCurrentCopy, Creation!AsksPlaces
    <2>2. /\ c \in Copy /\ c.of \in Copied /\ ou \in Unit /\ ou \in Creation!Place
          /\ dialog["user"] \in Created /\ dialog["user"].n \in Nat
      BY <1>0, CreationConstants DEF CreationTypes, Copy, Created
    <2>3. /\ d \in Created /\ d.n = dialog["user"].n /\ d.of = dialog["user"].of
          /\ d.form = c.of /\ d.start = dialog["user"].start /\ d.chosen = dialog["user"].chosen
          /\ ~d.preparing /\ d.ou = ou /\ d.options \subseteq {Root, ou}
          /\ ou = Creation!CopyPreparation(c.of).ou
      BY <2>2, CreationConstants DEF Created, Creation!FirstOptions
    <2>4. /\ dialog' \in [Creation!Kind -> Created] /\ dialog'["admin"] = dialog["admin"]
          /\ dialog'["user"].n = dialog["user"].n
          /\ dialog["user"] = Creation!Closed => dialog'["user"] = Creation!Closed
          /\ dialog["user"] # Creation!Closed => dialog'["user"] = d
      BY <1>0, <2>1, <2>3, DialogBecomes, CreationConstants DEF CreationTypes
    <2> HIDE DEF d, ou
    <2>5. CreationTypes'
      BY <1>0, <2>1, <2>2, <2>3, <2>4, CreationConstants DEF CreationTypes, Load, Copy, Job
    <2>6. DialogsNumbered'
      BY <1>0, <2>1, <2>2, <2>3, <2>4, CreationConstants DEF DialogsNumbered, CreationTypes,
         Load, Copy
    <2>7. ASSUME ~crossed' PROVE Uncrossed'
      <3>0. ~crossed /\ Uncrossed
        BY <1>0, <2>1, <2>2, <2>3, <2>4, <2>7 DEF CreationTypes
      <3>9. /\ dialog["user"].of = c.of /\ dialog["user"].start = ou
            /\ dialog["user"].chosen = Nothing /\ dialog["user"].preparing
            /\ dialog["user"] # Creation!Closed /\ \A j \in running : ~Awaits(j)
            /\ \A e \in copies : e.req = request => e = c
        BY <1>0, <2>1, <2>2, <2>3, <3>0, ClosedDialog DEF Uncrossed, CopyIsAwaited, CreationTypes,
           Copy
      <3>1. CreationsHeld'
        BY <1>0, <2>1, <2>2, <2>3, <2>4, <3>0, <3>9, CreationConstants DEF Uncrossed,
           CreationsHeld, Awaits
      <3>2. CopyIsAwaited'
        BY <2>1, <3>9 DEF CopyIsAwaited
      <3>3. PlacesAwaited'
        BY <1>0, <2>1, <2>2, <2>3, <2>4, <3>0, <3>9, CreationConstants DEF Uncrossed,
           PlacesAwaited, CreationTypes,
           Load
      <3>4. DialogsAsked'
        BY <1>0, <2>1, <2>2, <2>3, <2>4, <3>0, <3>9, CreationConstants DEF Uncrossed,
           DialogsAsked, Asked
      <3>5. BarredIsStart'
        BY <1>0, <2>1, <2>2, <2>3, <2>4, <3>0, <3>9, CreationConstants DEF Uncrossed, BarredIsStart
      <3>6. PostedAsAsked'
        BY <1>0, <2>1, <2>2, <2>3, <2>4, <3>0, CreationConstants DEF Uncrossed, PostedAsAsked
      <3> QED
        BY <3>1, <3>2, <3>3, <3>4, <3>5, <3>6 DEF Uncrossed
    <2> QED
      BY <2>5, <2>6, <2>7 DEF CreationInv
  <1>16. ASSUME NEW c \in copies, Creation!CopyArrives(c), Creation!IsCurrentCopy(c),
               UNCHANGED <<loads, ouFlag>>,
               dialog' = [dialog EXCEPT !["user"].preparing = FALSE]
        PROVE  CreationInv'
    <2> DEFINE d == [dialog["user"] EXCEPT !.preparing = FALSE]
    <2>1. /\ copies' = copies \ {c} /\ c.req = request /\ flag' = [flag EXCEPT !["user"] = FALSE]
          /\ dialog' = [dialog EXCEPT !["user"] = d] /\ c \in Copy
          /\ dialog["user"] = Creation!Closed => d = Creation!Closed
          /\ UNCHANGED <<loads, ouFlag, request, running, opens, crossed>>
      <3>1. [Creation!Closed EXCEPT !.preparing = FALSE] = Creation!Closed
        <4>1. Creation!Closed \in Created /\ Creation!Closed.preparing = FALSE
          BY ClosedDialog DEF Creation!Closed
        <4> QED
          BY <4>1 DEF Created
      <3>2. c \in Copy /\ dialog' = [dialog EXCEPT !["user"] = d]
        <4>1. c \in Copy
          BY <1>0 DEF CreationTypes
        <4>2. dialog' = [dialog EXCEPT !["user"] = d]
          BY <1>16
        <4> QED
          BY <4>1, <4>2
      <3>3. dialog["user"] = Creation!Closed => d = Creation!Closed
        BY <3>1
      <3>4. /\ copies' = copies \ {c} /\ c.req = request
            /\ flag' = [flag EXCEPT !["user"] = FALSE]
            /\ UNCHANGED <<loads, ouFlag, request, running, opens, crossed>>
        <4>1. c.req = request
          BY <1>16 DEF Creation!IsCurrentCopy
        <4>2. flag' = [flag EXCEPT !["user"] = FALSE] /\ UNCHANGED crossed
          BY <1>16 DEF Creation!CopyArrives
        <4>3. copies' = copies \ {c} /\ UNCHANGED <<request, running, opens>>
          BY <1>16 DEF Creation!CopyArrives
        <4> QED
          BY <1>16, <4>1, <4>2, <4>3
      <3> QED
        BY <3>2, <3>3, <3>4
    <2>2. /\ d \in Created /\ d.n = dialog["user"].n /\ d.of = dialog["user"].of
          /\ d.form = dialog["user"].form /\ d.start = dialog["user"].start
          /\ ~d.preparing /\ d.options = dialog["user"].options
          /\ d.ou = dialog["user"].ou /\ d.chosen = dialog["user"].chosen
      <3>1. dialog["user"] \in Created
        BY <1>0 DEF CreationTypes
      <3> QED
        BY <3>1 DEF Created
    <2>3. /\ dialog' \in [Creation!Kind -> Created] /\ dialog'["user"] = d
          /\ dialog'["admin"] = dialog["admin"]
      BY <1>0, <2>1, <2>2, DialogBecomes, CreationConstants
    <2> HIDE DEF d
    <2>4. CreationTypes'
      BY <1>0, <2>1, <2>2, <2>3, CreationConstants DEF CreationTypes, Load, Copy, Job
    <2>5. DialogsNumbered'
      BY <1>0, <2>1, <2>2, <2>3, CreationConstants DEF DialogsNumbered, CreationTypes, Load, Copy
    <2>6. ASSUME ~crossed' PROVE Uncrossed'
      <3>0. ~crossed /\ Uncrossed
        BY <1>0, <2>1, <2>2, <2>3, <2>6 DEF CreationTypes
      <3>9. /\ \A j \in running : ~Awaits(j)
            /\ \A e \in copies : e.req = request => e = c
        BY <1>0, <2>1, <3>0 DEF Uncrossed, CopyIsAwaited, CreationTypes, Copy
      <3>1. CreationsHeld'
        BY <1>0, <2>1, <2>2, <2>3, <3>0, <3>9, CreationConstants DEF Uncrossed, CreationsHeld,
           Awaits
      <3>2. CopyIsAwaited'
        BY <2>1, <3>9 DEF CopyIsAwaited
      <3>3. PlacesAwaited'
        BY <1>0, <2>1, <2>2, <2>3, <3>0, CreationConstants DEF Uncrossed, PlacesAwaited,
           CopyIsAwaited, CreationTypes, Load, DialogsNumbered
      <3>4. DialogsAsked'
        BY <1>0, <2>1, <2>2, <2>3, <3>0, CreationConstants DEF Uncrossed, DialogsAsked, Asked,
           Creation!MovedByItsList
      <3>5. BarredIsStart'
        BY <1>0, <2>1, <2>2, <2>3, <3>0, CreationConstants DEF Uncrossed, BarredIsStart,
           CopyIsAwaited, CreationTypes
      <3>6. PostedAsAsked'
        BY <1>0, <2>1, <2>2, <2>3, <3>0, CreationConstants DEF Uncrossed, PostedAsAsked
      <3> QED
        BY <3>1, <3>2, <3>3, <3>4, <3>5, <3>6 DEF Uncrossed
    <2> QED
      BY <2>4, <2>5, <2>6 DEF CreationInv
  <1>17. ASSUME NEW l \in loads, Creation!PlacesArrive(l), UNCHANGED dialog,
               dialog[l.kind] = Creation!Closed \/ l.kind = "admin"
        PROVE  CreationInv'
    <2>1. /\ loads' = loads \ {l} /\ ouFlag' = [ouFlag EXCEPT ![l.kind] = FALSE] /\ l \in Load
          /\ ~crossed' => dialog[l.kind] = Creation!Closed \/ dialog[l.kind].n = l.n
          /\ (crossed => crossed') /\ crossed' \in BOOLEAN
          /\ UNCHANGED <<flag, copies, request, mode, running, opens>>
      BY <1>0, <1>17 DEF Creation!PlacesArrive, CreationTypes
    <2>2. l.kind \in Creation!Kind /\ UNCHANGED dialog
      BY <1>17, <2>1 DEF Load
    <2>3. CreationTypes'
      BY <1>0, <2>1, <2>2, CreationConstants DEF CreationTypes, Load, Copy, Job
    <2>4. DialogsNumbered'
      BY <1>0, <2>1, <2>2, CreationConstants DEF DialogsNumbered, CreationTypes, Load, Copy
    <2>5. ASSUME ~crossed' PROVE Uncrossed'
      <3>0. ~crossed /\ Uncrossed
        BY <1>0, <2>1, <2>2, <2>5 DEF CreationTypes
      <3>9. l.kind = "user" => dialog["user"] = Creation!Closed /\ dialog["user"].n = 0
        BY <1>17, ClosedDialog
      <3>1. CreationsHeld'
        BY <1>0, <2>1, <2>2, <3>0, CreationConstants DEF Uncrossed, CreationsHeld, Awaits,
           CopyIsAwaited
      <3>2. CopyIsAwaited'
        BY <1>0, <2>1, <2>2, <3>0, CreationConstants DEF Uncrossed, CopyIsAwaited, Awaits,
           CreationsHeld, CreationTypes, Copy, DialogsNumbered
      <3>3. PlacesAwaited'
        BY <1>0, <2>1, <2>2, <3>0, <3>9, CreationConstants DEF Uncrossed, PlacesAwaited,
           CreationTypes,
           Load
      <3>4. DialogsAsked'
        BY <1>0, <2>1, <2>2, <3>0, CreationConstants DEF Uncrossed, DialogsAsked, Asked
      <3>5. BarredIsStart'
        BY <1>0, <2>1, <2>2, <3>0, <3>9, ClosedDialog, CreationConstants DEF Uncrossed,
           BarredIsStart,
           CreationTypes
      <3>6. PostedAsAsked'
        BY <1>0, <2>1, <2>2, <3>0, CreationConstants DEF Uncrossed, PostedAsAsked
      <3> QED
        BY <3>1, <3>2, <3>3, <3>4, <3>5, <3>6 DEF Uncrossed
    <2> QED
      BY <2>3, <2>4, <2>5 DEF CreationInv
  <1>18. ASSUME NEW l \in loads, Creation!PlacesArrive(l), l.kind = "user",
               dialog["user"] # Creation!Closed
        PROVE  CreationInv'
    <2>0. PICK p \in Creation!UserPlaces(l) :
             dialog' = [dialog EXCEPT !["user"].ou = p.ou, !["user"].options = p.options]
      BY <1>18 DEF Creation!PlacesArrive
    <2> DEFINE d == [dialog["user"] EXCEPT !.ou = p.ou, !.options = p.options]
    <2>1. /\ dialog' = [dialog EXCEPT !["user"] = d]
          /\ loads' = loads \ {l} /\ ouFlag' = [ouFlag EXCEPT ![l.kind] = FALSE] /\ l \in Load
          /\ ~crossed' => dialog[l.kind] = Creation!Closed \/ dialog[l.kind].n = l.n
          /\ (crossed => crossed') /\ crossed' \in BOOLEAN
          /\ UNCHANGED <<flag, copies, request, mode, running, opens>>
      BY <1>0, <1>18, <2>0 DEF Creation!PlacesArrive, CreationTypes
    <2>2. /\ p.ou \in Unit \ Barred /\ p.options \subseteq Unit \ Barred
          /\ p.ou \in {Root, Foremost["user"], l.for}
          /\ p.ou \notin {Root, l.for} => l.for \notin Creation!UserOptions \ {Root}
      BY CreationConstants DEF Creation!UserPlaces, Creation!PreferredUserOu,
         Creation!UserOptions
    <2>3. /\ d \in Created /\ d.n = dialog["user"].n /\ d.of = dialog["user"].of
          /\ d.form = dialog["user"].form /\ d.start = dialog["user"].start
          /\ d.chosen = dialog["user"].chosen /\ d.preparing = dialog["user"].preparing
          /\ d.ou = p.ou /\ d.options = p.options
      <3>1. dialog["user"] \in Created /\ p.ou \in Creation!Place \cup {Nothing}
        BY <1>0, <2>2, CreationConstants DEF CreationTypes
      <3> QED
        BY <2>2, <3>1 DEF Created
    <2>4. /\ dialog' \in [Creation!Kind -> Created] /\ dialog'["user"] = d
          /\ dialog'["admin"] = dialog["admin"]
      BY <1>0, <2>1, <2>3, DialogBecomes, CreationConstants
    <2> HIDE DEF d
    <2>5. CreationTypes'
      BY <1>0, <2>1, <2>2, <2>3, <2>4, CreationConstants DEF CreationTypes, Load, Copy, Job
    <2>6. DialogsNumbered'
      BY <1>0, <1>18, <2>1, <2>2, <2>3, <2>4, CreationConstants DEF DialogsNumbered,
         CreationTypes, Load, Copy
    <2>7. ASSUME ~crossed' PROVE Uncrossed'
      <3>0. ~crossed /\ Uncrossed
        BY <1>0, <2>1, <2>2, <2>3, <2>4, <2>7 DEF CreationTypes
      <3>8. l.n = dialog["user"].n /\ IsOpen("user")
        BY <1>0, <1>18, <2>1, <2>7 DEF DialogsNumbered
      <3>9. /\ l.for = dialog["user"].start /\ dialog["user"].chosen = Nothing
            /\ \A e \in loads : e.kind = "user" /\ e.n = dialog["user"].n => e = l
        <4>1. /\ l.for = dialog["user"].start /\ dialog["user"].chosen = Nothing
              /\ \A e \in loads : e.kind = "user" /\ e.n = dialog["user"].n => e.for = l.for
          BY <1>18, <3>0, <3>8 DEF Uncrossed, PlacesAwaited
        <4> QED
          BY <1>0, <1>18, <3>8, <4>1 DEF CreationTypes, Load
      <3>1. CreationsHeld'
        BY <1>0, <2>1, <2>2, <2>3, <2>4, <3>0, CreationConstants DEF Uncrossed, CreationsHeld,
           Awaits, CopyIsAwaited
      <3>2. CopyIsAwaited'
        BY <1>0, <2>1, <2>2, <2>3, <2>4, <3>0, CreationConstants DEF Uncrossed, CopyIsAwaited,
           Awaits, CreationsHeld, CreationTypes, Copy, DialogsNumbered
      <3>3. PlacesAwaited'
        BY <1>0, <1>18, <2>1, <2>2, <2>3, <2>4, <3>0, <3>9, CreationConstants DEF Uncrossed,
           PlacesAwaited,
           CreationTypes, Load
      <3>4. DialogsAsked'
        BY <1>0, <2>1, <2>2, <2>3, <2>4, <3>0, <3>9, CreationConstants DEF Uncrossed,
           DialogsAsked, Asked,
           Creation!MovedByItsList
      <3>5. BarredIsStart'
        BY <2>2, <2>3, <2>4, CreationConstants DEF BarredIsStart
      <3>6. PostedAsAsked'
        BY <1>0, <2>1, <2>2, <2>3, <2>4, <3>0, CreationConstants DEF Uncrossed, PostedAsAsked
      <3> QED
        BY <3>1, <3>2, <3>3, <3>4, <3>5, <3>6 DEF Uncrossed
    <2> QED
      BY <2>5, <2>6, <2>7 DEF CreationInv
  <1>19. ASSUME NEW l \in loads, Creation!PlacesArrive(l), l.kind = "admin",
               dialog["admin"] # Creation!Closed
        PROVE  CreationInv'
    <2>0. PICK ou \in Creation!Parents(l) : dialog' = [dialog EXCEPT !["admin"].ou = ou]
      BY <1>19 DEF Creation!PlacesArrive
    <2> DEFINE d == [dialog["admin"] EXCEPT !.ou = ou]
    <2>1. /\ dialog' = [dialog EXCEPT !["admin"] = d]
          /\ loads' = loads \ {l} /\ ouFlag' = [ouFlag EXCEPT ![l.kind] = FALSE] /\ l \in Load
          /\ ~crossed' => dialog[l.kind] = Creation!Closed \/ dialog[l.kind].n = l.n
          /\ (crossed => crossed') /\ crossed' \in BOOLEAN
          /\ UNCHANGED <<flag, copies, request, mode, running, opens>>
      BY <1>0, <1>19, <2>0 DEF Creation!PlacesArrive, CreationTypes
    <2>2. \/ ou = dialog["admin"].ou
          \/ /\ dialog["admin"].ou \notin Unit
             /\ ou = l.for \/ (ou = Foremost["admin"] /\ l.for \notin Unit)
      BY DEF Creation!Parents, Creation!AdminOptions, Creation!PreferredParent
    <2>3. /\ d \in Created /\ d.n = dialog["admin"].n /\ d.of = dialog["admin"].of
          /\ d.form = dialog["admin"].form /\ d.start = dialog["admin"].start
          /\ d.chosen = dialog["admin"].chosen /\ d.ou = ou
      BY <1>0, <2>1, <2>2, CreationConstants DEF Created, CreationTypes, Load
    <2>4. /\ dialog' \in [Creation!Kind -> Created] /\ dialog'["admin"] = d
          /\ dialog'["user"] = dialog["user"]
      BY <1>0, <2>1, <2>3, DialogBecomes, CreationConstants
    <2> HIDE DEF d
    <2>5. CreationTypes'
      BY <1>0, <2>1, <2>2, <2>3, <2>4, CreationConstants DEF CreationTypes, Load, Copy, Job
    <2>6. DialogsNumbered'
      BY <1>0, <1>19, <2>1, <2>2, <2>3, <2>4, CreationConstants DEF DialogsNumbered,
         CreationTypes, Load, Copy
    <2>7. ASSUME ~crossed' PROVE Uncrossed'
      <3>0. ~crossed /\ Uncrossed
        BY <1>0, <2>1, <2>2, <2>3, <2>4, <2>7 DEF CreationTypes
      <3>8. l.n = dialog["admin"].n /\ IsOpen("admin")
        BY <1>0, <1>19, <2>1, <2>7 DEF DialogsNumbered
      <3>9. l.for = dialog["admin"].start
        BY <1>19, <3>0, <3>8 DEF Uncrossed, PlacesAwaited
      <3>1. CreationsHeld'
        BY <1>0, <2>1, <2>2, <2>3, <2>4, <3>0, CreationConstants DEF Uncrossed, CreationsHeld,
           Awaits, CopyIsAwaited
      <3>2. CopyIsAwaited'
        BY <1>0, <2>1, <2>2, <2>3, <2>4, <3>0, CreationConstants DEF Uncrossed, CopyIsAwaited,
           Awaits, CreationsHeld, CreationTypes, Copy, DialogsNumbered
      <3>3. PlacesAwaited'
        BY <1>0, <1>19, <2>1, <2>2, <2>3, <2>4, <3>0, CreationConstants DEF Uncrossed,
           PlacesAwaited,
           CreationTypes, Load
      <3>4. DialogsAsked'
        BY <1>0, <2>1, <2>2, <2>3, <2>4, <3>0, <3>9, CreationConstants DEF Uncrossed,
           DialogsAsked, Asked,
           Creation!MovedByItsList, CreationTypes, Created, Load
      <3>5. BarredIsStart'
        BY <1>0, <1>19, <2>1, <2>2, <2>3, <2>4, <3>0, CreationConstants DEF Uncrossed,
           BarredIsStart, CreationTypes
      <3>6. PostedAsAsked'
        BY <1>0, <2>1, <2>2, <2>3, <2>4, <3>0, CreationConstants DEF Uncrossed, PostedAsAsked
      <3> QED
        BY <3>1, <3>2, <3>3, <3>4, <3>5, <3>6 DEF Uncrossed
    <2> QED
      BY <2>5, <2>6, <2>7 DEF CreationInv
  <1>20. ASSUME NEW c \in copies, Creation!CopyArrives(c) PROVE CreationInv'
    BY <1>14, <1>15, <1>16, <1>20 DEF Creation!CopyArrives
  <1>21. ASSUME NEW l \in loads, Creation!PlacesArrive(l) PROVE CreationInv'
    BY <1>0, <1>17, <1>18, <1>19, <1>21, CreationConstants DEF Creation!PlacesArrive, CreationTypes,
       Load
  <1> QED
    BY <1>1, <1>2, <1>3, <1>4, <1>5, <1>6, <1>7, <1>8, <1>9, <1>10, <1>11, <1>12, <1>13, <1>20,
       <1>21, CreationConstants DEF Creation!Next

\* The property is the last part of the invariant.
LEMMA CreationAsAsked ==
    ASSUME CreationInv
    PROVE  Creation!CreatedAsAsked
  BY DEF CreationInv, CreationTypes, Uncrossed, PostedAsAsked, AsAsked, Asked,
     Creation!CreatedAsAsked

-----------------------------------------------------------------------------
(* The properties form.                                                    *)

Forms == [Field -> Text]

UpdateTypes ==
    /\ window \in [of : Edited \cup {Nothing}, editing : BOOLEAN]
    /\ update \in [target : Edited \cup {Nothing}, editor : BOOLEAN, pending : SUBSET Late,
                   dirty : SUBSET Field, form : Forms, original : Forms]
    /\ answers \subseteq [of : Edited, current : BOOLEAN]
    /\ loading \in BOOLEAN /\ crossed \in BOOLEAN
    /\ typed \in [Field -> Text \cup {Nothing}] /\ known \in Forms
    /\ \A s \in saves : s.form \in Forms

\* The window edits what it shows, and not under a dialog; an answer that will be
\* used is that of the form's object.
Surfaces ==
    /\ update.editor => window.of = Nothing
    /\ window.editing => window.of # Nothing
    /\ ~crossed /\ window.editing => update.target = window.of
    /\ \A r \in answers : r.current => r.of = update.target

\* One save at a time, the form held meanwhile.
SavesHeld ==
    ~crossed => /\ \A s, t \in saves : s = t
                /\ saves # {} => loading
                /\ \A s \in saves : s.way = "dialog" => ~window.editing

\* What was typed is in the form, where no answer reaches it.
TypedIsHeld ==
    /\ \A f \in Field : typed[f] # Nothing => /\ update.form[f] = typed[f]
                                              /\ f \in update.dirty \/ f \notin Detailed
    /\ update.dirty \cap update.pending = {}

\* The rest of the form is as it was, and that is what the form said.
RestIsKnown ==
    ~crossed => \A f \in Field : /\ typed[f] = Nothing => update.form[f] = update.original[f]
                                 /\ f \notin update.pending => update.original[f] = known[f]

UpdateInv == UpdateTypes /\ Surfaces /\ SavesHeld /\ TypedIsHeld /\ RestIsKnown

LEMMA UpdateConstants ==
    /\ Late \subseteq Detailed /\ Detailed \subseteq Field /\ Manager \in Field
    /\ Manager \notin Detailed
    /\ Blank \in Text /\ Nothing \notin Edited /\ Nothing \notin Text
    /\ Directory \in [Edited -> [Field -> Text]]
  BY ConsoleConstants DEF Update!Fields

LEMMA EditsKnown == UpdateInv => Update!EditsAreWhatIsSent
  <1> SUFFICES ASSUME UpdateInv, Update!FormIsShown, ~crossed
               PROVE  /\ update.target = IF update.editor THEN update.target ELSE window.of
                      /\ Update!ChangedProperties =
                            [f \in {g \in Field : typed[g] \notin {Nothing, known[g]}} |-> typed[f]]
    BY DEF Update!EditsAreWhatIsSent
  <1>1. update.target = IF update.editor THEN update.target ELSE window.of
    BY DEF UpdateInv, Surfaces, Update!FormIsShown
  <1>2. \A f \in Field : /\ update.form[f] # update.original[f]
                              <=> typed[f] \notin {Nothing, known[f]}
                         /\ update.form[f] # update.original[f] => update.form[f] = typed[f]
    BY UpdateConstants DEF UpdateInv, UpdateTypes, TypedIsHeld, RestIsKnown
  <1>3. {g \in Field : update.form[g] # update.original[g]}
           = {g \in Field : typed[g] \notin {Nothing, known[g]}}
    BY <1>2
  <1>4. Update!ChangedProperties
           = [f \in {g \in Field : update.form[g] # update.original[g]} |-> update.form[f]]
    BY DEF Update!ChangedProperties
  <1> QED
    BY <1>1, <1>2, <1>3, <1>4

LEMMA EmptyForm ==
    /\ Update!NoUpdate \in [target : Edited \cup {Nothing}, editor : BOOLEAN, pending : SUBSET Late,
                            dirty : SUBSET Field, form : Forms, original : Forms]
    /\ Update!NoUpdate.target = Nothing /\ ~Update!NoUpdate.editor /\ Update!NoUpdate.pending = {}
    /\ Update!NoUpdate.form = [f \in Field |-> Blank]
    /\ Update!NoUpdate.original = [f \in Field |-> Blank]
    /\ Update!NoUpdate.form \in Forms
    /\ Update!Untouched = [f \in Field |-> Nothing]
  BY UpdateConstants DEF Update!NoUpdate, Update!Untouched, Forms

LEMMA UpdateStart == Update!Init => UpdateInv
  <1> SUFFICES ASSUME Update!Init PROVE UpdateInv
    OBVIOUS
  <1>1. UpdateTypes
    BY EmptyForm, UpdateConstants DEF Update!Init, UpdateTypes, Forms
  <1>2. TypedIsHeld /\ RestIsKnown
    BY EmptyForm, UpdateConstants DEF Update!Init, TypedIsHeld, RestIsKnown
  <1> QED
    BY <1>1, <1>2, EmptyForm DEF Update!Init, UpdateInv, Surfaces, SavesHeld

LEMMA OvertakenAnswers ==
    ASSUME answers \subseteq [of : Edited, current : BOOLEAN]
    PROVE  /\ Update!Overtaken \subseteq [of : Edited, current : BOOLEAN]
           /\ \A r \in Update!Overtaken : ~r.current
  BY DEF Update!Overtaken

\* The form closes: nothing of it is left.
LEMMA FormCloses ==
    ASSUME UpdateInv, Update!Closes
    PROVE  /\ update' = Update!NoUpdate
           /\ answers' \subseteq [of : Edited, current : BOOLEAN] /\ \A r \in answers' : ~r.current
           /\ typed' \in [Field -> Text \cup {Nothing}] /\ known' \in Forms
           /\ TypedIsHeld' /\ RestIsKnown'
  <1>1. /\ update' = Update!NoUpdate /\ answers' = Update!Overtaken
        /\ typed' = Update!Untouched /\ known' = Update!NoUpdate.form
    BY DEF Update!Closes
  <1>2. answers' \subseteq [of : Edited, current : BOOLEAN] /\ \A r \in answers' : ~r.current
    BY <1>1, OvertakenAnswers DEF UpdateInv, UpdateTypes
  <1>3. typed' \in [Field -> Text \cup {Nothing}] /\ known' \in Forms
    BY <1>1, EmptyForm, UpdateConstants
  <1>4. TypedIsHeld' /\ RestIsKnown'
    BY <1>1, EmptyForm DEF TypedIsHeld, RestIsKnown
  <1> QED
    BY <1>1, <1>2, <1>3, <1>4

\* The form is made anew, for its object.
LEMMA FormPrepared ==
    ASSUME UpdateInv, NEW o \in Edited, NEW missing \in Update!Missing,
           NEW blanks \in {{}, {Manager}},
           NEW e \in BOOLEAN, Update!Prepares(o, missing, blanks, e)
    PROVE  /\ update' \in [target : Edited \cup {Nothing}, editor : BOOLEAN, pending : SUBSET Late,
                           dirty : SUBSET Field, form : Forms, original : Forms]
           /\ update'.target = o /\ update'.editor = e
           /\ answers' \subseteq [of : Edited, current : BOOLEAN]
           /\ \A r \in answers' : r.current => r.of = o
           /\ typed' \in [Field -> Text \cup {Nothing}] /\ known' \in Forms
           /\ TypedIsHeld' /\ RestIsKnown'
  <1> DEFINE form == Update!FormOf(o, missing)
             filled == [f \in Field |-> IF f \in blanks THEN Blank ELSE form[f]]
  <1>1. /\ update' = [target |-> o, editor |-> e, pending |-> missing, dirty |-> {},
                      original |-> form, form |-> filled]
        /\ answers' = Update!Overtaken \cup {[of |-> o, current |-> TRUE] : f \in missing}
        /\ typed' = [f \in Field |-> IF f \in blanks THEN Blank ELSE Nothing]
        /\ known' = Directory[o]
    BY DEF Update!Prepares
  <1>2. missing \subseteq Late /\ \A f \in blanks : f \in Field \ Detailed
    BY UpdateConstants DEF Update!Missing
  <1>3. /\ form \in Forms /\ Directory[o] \in Forms
        /\ \A f \in Field \ missing : form[f] = Directory[o][f]
    BY UpdateConstants DEF Update!FormOf, Forms
  <1>4. filled \in Forms
    BY <1>3, UpdateConstants DEF Forms
  <1>5. \A f \in Field : filled[f] = IF f \in blanks THEN Blank ELSE form[f]
    OBVIOUS
  <1> HIDE DEF form, filled
  <1>6. /\ update' \in [target : Edited \cup {Nothing}, editor : BOOLEAN, pending : SUBSET Late,
                        dirty : SUBSET Field, form : Forms, original : Forms]
        /\ update'.target = o /\ update'.editor = e
    BY <1>1, <1>2, <1>3, <1>4
  <1>7. /\ answers' \subseteq [of : Edited, current : BOOLEAN]
        /\ \A r \in answers' : r.current => r.of = o
    <2> DEFINE a == [of |-> o, current |-> TRUE]
    <2>1. a \in [of : Edited, current : BOOLEAN] /\ a.of = o
      OBVIOUS
    <2>2. \A r \in answers' : r \in Update!Overtaken \/ r = a
      BY <1>1
    <2> HIDE DEF a
    <2> QED
      BY <2>1, <2>2, OvertakenAnswers DEF UpdateInv, UpdateTypes
  <1>8. typed' \in [Field -> Text \cup {Nothing}] /\ known' \in Forms
    BY <1>1, <1>3, UpdateConstants
  <1>9. TypedIsHeld'
    BY <1>1, <1>2, <1>5, UpdateConstants DEF TypedIsHeld
  <1>10. RestIsKnown'
    BY <1>1, <1>3, <1>5, UpdateConstants DEF RestIsKnown
  <1> QED
    BY <1>6, <1>7, <1>8, <1>9, <1>10

LEMMA FieldSet ==
    ASSUME UpdateInv, NEW f \in Field, NEW v \in Text, Update!Sets(f, v), f \notin update.pending,
           UNCHANGED <<window, answers, waits, loading, saves, known, crossed>>
    PROVE  UpdateInv'
  <1>1. /\ update'.target = update.target /\ update'.editor = update.editor
        /\ update'.pending = update.pending /\ update'.original = update.original
        /\ update'.dirty = update.dirty \cup {f}
        /\ \A g \in Field : update'.form[g] = IF g = f THEN v ELSE update.form[g]
        /\ update' \in [target : Edited \cup {Nothing}, editor : BOOLEAN, pending : SUBSET Late,
                        dirty : SUBSET Field, form : Forms, original : Forms]
    BY DEF Update!Sets, UpdateInv, UpdateTypes, Forms
  <1>2. /\ typed' \in [Field -> Text \cup {Nothing}]
        /\ \A g \in Field : typed'[g] = IF g = f THEN v ELSE typed[g]
    BY DEF Update!Sets, UpdateInv, UpdateTypes
  <1>3. UpdateTypes'
    BY <1>1, <1>2 DEF UpdateInv, UpdateTypes
  <1>4. Surfaces' /\ SavesHeld'
    BY <1>1 DEF UpdateInv, Surfaces, SavesHeld
  <1>5. TypedIsHeld'
    BY <1>1, <1>2 DEF UpdateInv, TypedIsHeld
  <1>6. RestIsKnown'
    BY <1>1, <1>2, UpdateConstants DEF UpdateInv, RestIsKnown
  <1> QED
    BY <1>3, <1>4, <1>5, <1>6 DEF UpdateInv

LEMMA UpdateStep ==
    ASSUME UpdateInv, Update!Next
    PROVE  UpdateInv'
  <1>1. ASSUME NEW o \in Edited, Update!ShowProperties(o) PROVE UpdateInv'
    BY <1>1, UpdateConstants DEF Update!ShowProperties, Update!Uncovered, UpdateInv, UpdateTypes,
       Surfaces, SavesHeld, TypedIsHeld, RestIsKnown
  <1>2. ASSUME NEW o \in Edited, Update!OpenUpdateObject(o) PROVE UpdateInv'
    <2>1. PICK missing \in Update!Missing : Update!Prepares(o, missing, {}, TRUE)
      BY <1>2 DEF Update!OpenUpdateObject
    <2>2. UNCHANGED <<window, loading, saves, crossed>> /\ window.of = Nothing
      BY <1>2 DEF Update!OpenUpdateObject, Update!Uncovered
    <2> QED
      BY <2>1, <2>2, FormPrepared DEF UpdateInv, UpdateTypes, Surfaces, SavesHeld
  <1>3. CASE Update!BeginEditing
    <2>1. PICK missing \in Update!Missing, blanks \in {{}, {Manager}} :
             Update!Prepares(window.of, missing, blanks, FALSE)
      BY <1>3 DEF Update!BeginEditing
    <2>2. /\ UNCHANGED <<loading, saves, crossed>> /\ window.of \in Edited /\ ~loading
          /\ window' = [window EXCEPT !.editing = TRUE]
      BY <1>3 DEF Update!BeginEditing, UpdateInv, UpdateTypes
    <2>3. /\ window' \in [of : Edited \cup {Nothing}, editing : BOOLEAN] /\ window'.of = window.of
          /\ window.of # Nothing
      BY <2>2, UpdateConstants DEF UpdateInv, UpdateTypes
    <2>4. /\ update' \in [target : Edited \cup {Nothing}, editor : BOOLEAN, pending : SUBSET Late,
                           dirty : SUBSET Field, form : Forms, original : Forms]
          /\ update'.target = window.of /\ update'.editor = FALSE
          /\ answers' \subseteq [of : Edited, current : BOOLEAN]
          /\ \A r \in answers' : r.current => r.of = window.of
          /\ typed' \in [Field -> Text \cup {Nothing}] /\ known' \in Forms
          /\ TypedIsHeld' /\ RestIsKnown'
      BY <2>1, <2>2, FormPrepared
    <2>5. UpdateTypes' /\ TypedIsHeld' /\ RestIsKnown'
      BY <2>2, <2>3, <2>4 DEF UpdateInv, UpdateTypes
    <2> QED
      BY <2>2, <2>3, <2>4, <2>5 DEF UpdateInv, Surfaces, SavesHeld
  <1>4. CASE Update!BeginOtherEditor
    BY <1>4 DEF Update!BeginOtherEditor, UpdateInv, UpdateTypes, Surfaces, SavesHeld,
       TypedIsHeld, RestIsKnown
  <1>5. ASSUME Update!Closes, window' \in [of : Edited \cup {Nothing}, editing : BOOLEAN],
               ~crossed => ~window'.editing, window'.editing => window'.of # Nothing,
               UNCHANGED crossed, saves' \subseteq saves, loading' \in BOOLEAN,
               ~crossed /\ saves' # {} => loading'
        PROVE  UpdateInv'
    <2>1. UpdateTypes'
      BY <1>5, FormCloses, EmptyForm DEF UpdateInv, UpdateTypes
    <2>2. Surfaces'
      BY <1>5, FormCloses, EmptyForm DEF Surfaces
    <2>3. SavesHeld'
      BY <1>5 DEF UpdateInv, SavesHeld
    <2> QED
      BY <1>5, <2>1, <2>2, <2>3, FormCloses DEF UpdateInv
  <1>6. CASE Update!OtherEditorOpens
    <2>1. /\ Update!Closes /\ UNCHANGED <<loading, saves, crossed>>
          /\ window' = [window EXCEPT !.editing = FALSE]
      BY <1>6 DEF Update!OtherEditorOpens
    <2> QED
      BY <1>5, <2>1 DEF UpdateInv, UpdateTypes, SavesHeld
  <1>7. CASE Update!CloseForm
    <2>1. /\ Update!Closes /\ UNCHANGED <<loading, saves, crossed>>
          /\ window' \in {[window EXCEPT !.editing = FALSE], [of |-> Nothing, editing |-> FALSE]}
      BY <1>7 DEF Update!CloseForm
    <2>2. window' \in [of : Edited \cup {Nothing}, editing : BOOLEAN] /\ ~window'.editing
      <3>1. CASE window' = [window EXCEPT !.editing = FALSE]
        BY <3>1 DEF UpdateInv, UpdateTypes
      <3>2. CASE window' = [of |-> Nothing, editing |-> FALSE]
        BY <3>2
      <3> QED
        BY <2>1, <3>1, <3>2
    <2> QED
      BY <1>5, <2>1, <2>2 DEF UpdateInv, UpdateTypes, SavesHeld
  <1>8. ASSUME NEW f \in Field, NEW v \in Text, Update!TypeField(f, v) PROVE UpdateInv'
    BY <1>8, FieldSet DEF Update!TypeField, Update!FormOffers
  <1>9. ASSUME NEW v \in Text, Update!SelectManager(v) PROVE UpdateInv'
    <2>1. Manager \notin update.pending
      BY UpdateConstants DEF UpdateInv, UpdateTypes
    <2> QED
      BY <1>9, <2>1, UpdateConstants, FieldSet DEF Update!SelectManager
  <1>10. ASSUME NEW r \in answers, Update!DetailsArrive(r) PROVE UpdateInv'
    <2>1. /\ answers' \subseteq answers
          /\ UNCHANGED <<window, loading, saves, typed, known>>
      BY <1>10 DEF Update!DetailsArrive
    <2>2. CASE UNCHANGED <<update, crossed>>
      BY <2>1, <2>2 DEF UpdateInv, UpdateTypes, Surfaces, SavesHeld, TypedIsHeld, RestIsKnown
    <2>3. CASE /\ Update!CurrentRequest(r)
               /\ \E read \in {Directory[r.of], known} :
                      /\ update' = [update EXCEPT
                            !.pending = {},
                            !.original = Update!Patched(@, read, Detailed),
                            !.form = Update!Patched(@, read, Update!CleanFields)]
                      /\ crossed' = (crossed \/ (r.of = update.target /\ read # known))
      <3>1. PICK read \in {Directory[r.of], known} :
                      /\ update' = [update EXCEPT
                            !.pending = {},
                            !.original = Update!Patched(@, read, Detailed),
                            !.form = Update!Patched(@, read, Update!CleanFields)]
                      /\ crossed' = (crossed \/ (r.of = update.target /\ read # known))
        BY <2>3
      <3>2. r.of \in Edited /\ r.of = update.target
        BY <2>3 DEF Update!CurrentRequest, UpdateInv, UpdateTypes, Surfaces
      <3>3. read \in Forms
        BY <3>2, UpdateConstants DEF UpdateInv, UpdateTypes, Forms
      <3>4. /\ Update!Patched(update.original, read, Detailed) \in Forms
            /\ Update!Patched(update.form, read, Update!CleanFields) \in Forms
        BY <3>3 DEF UpdateInv, UpdateTypes, Forms, Update!Patched
      <3>5. /\ update' \in [target : Edited \cup {Nothing}, editor : BOOLEAN, pending : SUBSET Late,
                            dirty : SUBSET Field, form : Forms, original : Forms]
            /\ update'.target = update.target /\ update'.editor = update.editor
            /\ update'.pending = {} /\ update'.dirty = update.dirty
            /\ update'.original = Update!Patched(update.original, read, Detailed)
            /\ update'.form = Update!Patched(update.form, read, Update!CleanFields)
        BY <3>1, <3>4 DEF UpdateInv, UpdateTypes
      <3>6. \A f \in Field :
               /\ update'.original[f] = IF f \in Detailed THEN read[f] ELSE update.original[f]
               /\ update'.form[f] = IF f \in Detailed /\ f \notin update.dirty THEN read[f]
                                   ELSE update.form[f]
        BY <3>5 DEF Update!Patched, Update!CleanFields
      <3>7. crossed' \in BOOLEAN /\ (~crossed' => ~crossed /\ read = known)
        BY <3>1, <3>2 DEF UpdateInv, UpdateTypes
      <3>8. UpdateTypes'
        BY <2>1, <3>5, <3>7 DEF UpdateInv, UpdateTypes
      <3>9. Surfaces' /\ SavesHeld'
        BY <2>1, <3>5, <3>7 DEF UpdateInv, Surfaces, SavesHeld
      <3>10. TypedIsHeld'
        BY <2>1, <3>5, <3>6 DEF UpdateInv, TypedIsHeld
      <3>11. RestIsKnown'
        <4> SUFFICES ASSUME ~crossed', NEW f \in Field
                     PROVE  /\ typed'[f] = Nothing => update'.form[f] = update'.original[f]
                            /\ update'.original[f] = known'[f]
          BY DEF RestIsKnown
        <4>1. ~crossed /\ read = known /\ known' = known /\ typed' = typed
          BY <2>1, <3>7
        <4>2. f \in Detailed \/ f \notin update.pending
          BY UpdateConstants DEF UpdateInv, UpdateTypes
        <4>3. typed[f] = Nothing => update.form[f] = update.original[f]
          BY <4>1 DEF UpdateInv, RestIsKnown
        <4>4. f \notin update.pending => update.original[f] = known[f]
          BY <4>1 DEF UpdateInv, RestIsKnown
        <4>5. update'.original[f] = known[f]
          BY <3>6, <4>1, <4>2, <4>4
        <4>6. CASE f \in update.pending
          <5>1. f \in Detailed /\ f \notin update.dirty
            BY <4>6, UpdateConstants DEF UpdateInv, UpdateTypes, TypedIsHeld
          <5> QED
            BY <3>6, <4>1, <4>5, <5>1
        <4> QED
          BY <3>6, <4>1, <4>3, <4>4, <4>5, <4>6
      <3> QED
        BY <3>8, <3>9, <3>10, <3>11 DEF UpdateInv
    <2> QED
      BY <1>10, <2>2, <2>3 DEF Update!DetailsArrive
  <1>11. ASSUME NEW way \in {"dialog", "apply", "ok"}, Update!Submit(way) PROVE UpdateInv'
    <2> DEFINE s == [way |-> way,
                     form |-> IF way = "apply" THEN update.form ELSE Update!NoUpdate.form]
    <2>1. /\ loading' = TRUE /\ saves' = saves \cup {s} /\ ~loading
          /\ UNCHANGED <<window, update, answers, typed, known, crossed>>
          /\ way = "dialog" => update.editor
      BY <1>11 DEF Update!Submit, Update!FormOffersSave
    <2>2. s.form \in Forms /\ s.way = way
      BY EmptyForm DEF UpdateInv, UpdateTypes
    <2> HIDE DEF s
    <2>3. UpdateTypes'
      BY <2>1, <2>2 DEF UpdateInv, UpdateTypes
    <2>4. SavesHeld'
      BY <2>1, <2>2 DEF UpdateInv, SavesHeld, Surfaces
    <2> QED
      BY <2>1, <2>3, <2>4 DEF UpdateInv, Surfaces, TypedIsHeld, RestIsKnown
  <1>12. ASSUME NEW s \in saves, Update!SaveEnds(s) PROVE UpdateInv'
    <2>1. saves' = saves \ {s} /\ loading' = FALSE /\ UNCHANGED crossed /\ s.form \in Forms
      BY <1>12 DEF Update!SaveEnds, UpdateInv, UpdateTypes
    <2>2. ~crossed => saves' = {}
      BY <2>1 DEF UpdateInv, SavesHeld
    <2>3. CASE UNCHANGED <<window, update, answers, typed, known>>
      BY <2>1, <2>2, <2>3 DEF UpdateInv, UpdateTypes, Surfaces, SavesHeld, TypedIsHeld,
         RestIsKnown
    <2>4. CASE /\ s.way \in {"dialog", "ok"} /\ Update!Closes
               /\ window' = IF s.way = "ok" THEN [of |-> Nothing, editing |-> FALSE] ELSE window
      <3>1. /\ window' \in [of : Edited \cup {Nothing}, editing : BOOLEAN]
            /\ window'.editing => window'.of # Nothing
            /\ ~crossed => ~window'.editing
        BY <2>4 DEF UpdateInv, UpdateTypes, Surfaces, SavesHeld
      <3>2. UpdateTypes'
        BY <2>1, <2>4, <3>1, FormCloses, EmptyForm DEF UpdateInv, UpdateTypes
      <3>3. Surfaces'
        BY <2>1, <2>4, <3>1, FormCloses, EmptyForm DEF Surfaces
      <3>4. SavesHeld'
        BY <2>1, <2>2 DEF UpdateInv, SavesHeld
      <3> QED
        BY <2>4, <3>2, <3>3, <3>4, FormCloses DEF UpdateInv
    <2>5. CASE /\ update' = [update EXCEPT !.form = s.form, !.original = s.form, !.editor = FALSE]
               /\ typed' = Update!Untouched /\ known' = s.form
               /\ UNCHANGED <<window, answers>>
      <3>1. /\ update' \in [target : Edited \cup {Nothing}, editor : BOOLEAN, pending : SUBSET Late,
                            dirty : SUBSET Field, form : Forms, original : Forms]
            /\ update'.target = update.target /\ update'.editor = FALSE
            /\ update'.form = s.form /\ update'.original = s.form /\ known' = s.form
            /\ update'.dirty = update.dirty /\ update'.pending = update.pending
        BY <2>1, <2>5 DEF UpdateInv, UpdateTypes
      <3>2. /\ typed' \in [Field -> Text \cup {Nothing}] /\ \A f \in Field : typed'[f] = Nothing
        BY <2>5, EmptyForm
      <3>3. UpdateTypes'
        BY <2>1, <2>5, <3>1, <3>2 DEF UpdateInv, UpdateTypes
      <3>4. Surfaces' /\ SavesHeld'
        BY <2>1, <2>2, <2>5, <3>1 DEF UpdateInv, Surfaces, SavesHeld
      <3>5. TypedIsHeld' /\ RestIsKnown'
        BY <3>1, <3>2 DEF UpdateInv, TypedIsHeld, RestIsKnown
      <3> QED
        BY <3>3, <3>4, <3>5 DEF UpdateInv
    <2> QED
      BY <1>12, <2>3, <2>4, <2>5 DEF Update!SaveEnds
  <1>13. CASE Update!OtherCallEnds
    BY <1>13 DEF Update!OtherCallEnds, UpdateInv, UpdateTypes, Surfaces, SavesHeld, TypedIsHeld,
       RestIsKnown
  <1> QED
    BY <1>1, <1>2, <1>3, <1>4, <1>6, <1>7, <1>8, <1>9, <1>10, <1>11, <1>12, <1>13 DEF Update!Next

-----------------------------------------------------------------------------
(* The LDAP and HAB editors.                                               *)

Drafts == [Attribute -> [operation : {"unchanged", "set", "clear"}, value : Draft]]
Editor == [editor : {"ldap", "hab"}, of : Subject]

\* A validation that the HAB editor holds is one of the service's.
EditorsTypes ==
    /\ window \in Subject \cup {Nothing} /\ mode \in Editors!Mode
    /\ waits \subseteq Editor /\ validations \subseteq Editors!Payload
    /\ \A j \in jobs : j.of \in Subject
    /\ ldap \in [active : BOOLEAN, of : Subject \cup {Nothing}, draft : Drafts,
                 submitting : BOOLEAN]
    /\ hab \in [active : BOOLEAN, shown : BOOLEAN, operation : {"set", "clear"}, value : Draft,
                validating : BOOLEAN, preview : validated \cup {Nothing}, submitting : BOOLEAN]

\* What the LDAP editor holds was typed on the object on show, if on any.
TypedOnWindow == /\ typedOn \subseteq {window}
                 /\ typedOn = {} => \A a \in Attribute : ldap.draft[a].operation = "unchanged"

EditorsInv == EditorsTypes /\ TypedOnWindow

LEMMA EditorsConstants ==
    /\ Senior \subseteq Subject /\ Nothing \notin Subject \cup Editors!Payload
    /\ (CHOOSE v \in Draft : TRUE) \in Draft
    /\ Editors!NoLdap \in [active : BOOLEAN, of : Subject \cup {Nothing}, draft : Drafts,
                           submitting : BOOLEAN]
    /\ Editors!NoLdap.draft = Editors!EmptyDraft /\ Editors!EmptyDraft \in Drafts
    /\ \A a \in Attribute : Editors!EmptyDraft[a].operation = "unchanged"
    /\ Editors!NoHab \in [active : BOOLEAN, shown : BOOLEAN, operation : {"set", "clear"},
                          value : Draft, validating : BOOLEAN,
                          preview : validated \cup {Nothing}, submitting : BOOLEAN]
  BY ConsoleConstants DEF Editors!Texts, Editors!NoLdap, Editors!NoHab, Editors!EmptyDraft, Drafts

LEMMA EditorsShown == EditorsInv => Editors!SimulationsAreAsShown
  <1> SUFFICES ASSUME EditorsInv PROVE Editors!SimulationsAreAsShown
    OBVIOUS
  <1>1. ASSUME Editors!HabOffersJob PROVE Editors!HabPayload \in validated
    <2>1. window \in Subject /\ hab.preview = Editors!HabPayload
      BY <1>1, EditorsConstants DEF Editors!HabOffersJob, Editors!HabIsEligible,
         Editors!ValidationIsCurrent
    <2>2. Editors!HabPayload \in Editors!Payload
      BY <2>1 DEF EditorsInv, EditorsTypes, Editors!HabPayload, Editors!Payload
    <2> QED
      BY <2>1, <2>2, EditorsConstants DEF EditorsInv, EditorsTypes
  <1>2. Editors!LdapOffersJob => typedOn = {window}
    BY DEF EditorsInv, TypedOnWindow, Editors!LdapOffersJob, Editors!LdapPreviewIsValid,
       Editors!LdapChanges
  <1> QED
    BY <1>1, <1>2 DEF Editors!SimulationsAreAsShown

LEMMA EditorsStart == Editors!Init => EditorsInv
  BY EditorsConstants DEF Editors!Init, EditorsInv, EditorsTypes, TypedOnWindow, Editors!Mode

LEMMA EditorsStep ==
    ASSUME EditorsInv, Editors!Next
    PROVE  EditorsInv'
  <1> USE DEF EditorsInv, EditorsTypes, TypedOnWindow
  <1>1. ASSUME NEW o \in Subject \cup {Nothing}, Editors!ShowObject(o) PROVE EditorsInv'
    BY <1>1, EditorsConstants DEF Editors!ShowObject, Editors!ObjectChanges
  <1>2. ASSUME NEW e \in {"ldap", "hab"}, Editors!Begins(e) PROVE EditorsInv'
    BY <1>2 DEF Editors!Begins, Editors!Calls, Editor
  <1>3. ASSUME NEW w \in waits, Editors!ModeArrives(w) PROVE EditorsInv'
    <2>1. w.of \in Subject /\ waits' \subseteq Editor /\ mode' \in Editors!Mode
          /\ UNCHANGED <<window, validations, jobs, validated>>
      BY <1>3 DEF Editors!ModeArrives, Editor
    <2>2. CASE Editors!LdapOpens(w)
      BY <2>1, <2>2, EditorsConstants DEF Editors!LdapOpens
    <2>3. CASE Editors!HabOpens(w)
      BY <2>1, <2>3, EditorsConstants DEF Editors!HabOpens
    <2> QED
      BY <1>3, <2>2, <2>3 DEF Editors!ModeArrives
  <1>4. CASE Editors!BackToProperties
    BY <1>4, EditorsConstants DEF Editors!BackToProperties
  <1>5. ASSUME NEW a \in Attribute, NEW op \in {"unchanged", "set", "clear"}, NEW v \in Draft,
               Editors!UpdateDraft(a, op, v)
        PROVE  EditorsInv'
    BY <1>5 DEF Editors!UpdateDraft, Drafts
  <1>6. ASSUME NEW op \in {"set", "clear"}, NEW v \in Draft, Editors!UpdateHab(op, v)
        PROVE  EditorsInv'
    BY <1>6 DEF Editors!UpdateHab
  <1>7. CASE Editors!ValidateHab
    <2>1. Editors!HabPayload \in Editors!Payload
      BY <1>7, EditorsConstants DEF Editors!ValidateHab, Editors!HabIsEligible,
         Editors!HabPayload, Editors!Payload
    <2> QED
      BY <1>7, <2>1 DEF Editors!ValidateHab, Editors!Calls
  <1>8. ASSUME NEW p \in validations, Editors!HabValidated(p) PROVE EditorsInv'
    BY <1>8 DEF Editors!HabValidated
  <1>9. CASE Editors!SubmitLdap
    <2> DEFINE j == [editor |-> "ldap", of |-> window, n |-> calls']
    <2>1. /\ j.of \in Subject /\ jobs' = jobs \cup {j} /\ ldap' = [ldap EXCEPT !.submitting = TRUE]
          /\ UNCHANGED <<window, mode, waits, hab, validations, typedOn, validated>>
      BY <1>9 DEF Editors!SubmitLdap, Editors!LdapOffersJob, Editors!LdapIsShown
    <2> HIDE DEF j
    <2> QED
      BY <2>1
  <1>10. CASE Editors!SubmitHab
    <2> DEFINE j == [editor |-> "hab", of |-> window, n |-> calls']
    <2>1. /\ j.of \in Subject /\ jobs' = jobs \cup {j} /\ hab' = [hab EXCEPT !.submitting = TRUE]
          /\ UNCHANGED <<window, mode, waits, ldap, validations, typedOn, validated>>
      BY <1>10 DEF Editors!SubmitHab, Editors!HabOffersJob, Editors!HabIsShown
    <2> HIDE DEF j
    <2> QED
      BY <2>1
  <1>11. ASSUME NEW j \in jobs, Editors!JobEnds(j) PROVE EditorsInv'
    BY <1>11, EditorsConstants DEF Editors!JobEnds
  <1> QED
    BY <1>1, <1>2, <1>3, <1>4, <1>5, <1>6, <1>7, <1>8, <1>9, <1>10, <1>11 DEF Editors!Next

-----------------------------------------------------------------------------
(* The deleted objects and the chain of a restoration.                     *)

\* The steps that carry the number of the call that made them.
Numbered == {"simulation", "evidence", "challenge", "authorization", "newEvidence"}

SimulationShown == [for : Panel!Restored, n : Nat]

NumbersFit ==
    \A s \in Numbered :
       chain[s] # Nothing => /\ chain[s].n \in Nat /\ chain[s].n <= calls
                             /\ call # Nothing => chain[s].n < calls

PanelTypes ==
    /\ calls \in Nat /\ chain = [s \in Panel!Step |-> chain[s]]
    /\ selected # Nothing => selected \in Panel!Restored
    /\ chain["simulation"] # Nothing => chain["simulation"] \in SimulationShown
    /\ chain["challenge"] # Nothing => chain["challenge"] \in Panel!Challenge
    /\ call # Nothing =>
          /\ call = [what |-> call.what, n |-> calls, with |-> call.with]
          /\ call.what = "simulation" => call.with.for \in Panel!Restored
          /\ call.what = "challenge" => /\ call.with.simulation \in SimulationShown
                                        /\ call.with.evidence.n \in Nat

Unset(steps) == \A s \in steps : chain[s] = Nothing

\* A call under way carries what the panel shows, as long as it shows it: another
\* selection takes everything away, and nothing else changes during a call.
CallFits ==
    /\ call.what = "simulation" => Unset(Panel!Sensitive)
    /\ Panel!Shown =>
          /\ call.what = "evidence" => Unset(Panel!Sensitive)
          /\ call.what = "challenge" =>
                /\ call.with = [simulation |-> chain["simulation"],
                                evidence |-> chain["evidence"]]
                /\ chain["evidence"] # Nothing /\ Unset(Panel!Sensitive \ {"evidence"})
          /\ call.what = "authorization" =>
                /\ chain["challenge"] # Nothing /\ call.with.n = chain["challenge"].n
                /\ Panel!ConfirmationIsExact
                /\ Unset({"authorization", "newEvidence", "released"})
          /\ call.what = "new evidence" =>
                chain["authorization"] # Nothing /\ Unset({"newEvidence", "released"})
          /\ call.what = "release" =>
                /\ chain["newEvidence"] # Nothing
                /\ call.with = [authorization |-> chain["authorization"].n,
                                evidence |-> chain["newEvidence"].n]

\* A step is there only with those it rests on.
StepsRest ==
    Panel!Shown => /\ chain["challenge"] # Nothing => chain["evidence"] # Nothing
                   /\ chain["released"] # Nothing => chain["newEvidence"] # Nothing

PanelInv == /\ PanelTypes /\ NumbersFit /\ StepsRest /\ Panel!ChainIsOne
            /\ call # Nothing => CallFits

LEMMA PanelStart == Panel!Init => PanelInv
  BY DEF Panel!Init, PanelInv, PanelTypes, NumbersFit, StepsRest, CallFits, Numbered, Panel!Shown,
         Panel!ChainIsOne, Panel!Step, Panel!Sensitive

LEMMA PanelConstants == /\ LastKnown \in [Guid -> Position]
                        /\ Nothing \notin Panel!Restored /\ Nothing \notin Panel!Challenge
  BY ConsoleConstants DEF Panel!Places

\* A call takes away what rests on what it is about to read, and its answer puts
\* one step in place: an answer that carries an older step than is shown finds
\* the chain empty.
LEMMA PanelStep ==
    ASSUME PanelInv, Panel!Next
    PROVE  PanelInv'
  <1> USE DEF PanelInv, Numbered, Panel!Shown, Panel!Step, Panel!Sensitive
  <1>1. CASE Panel!LoadDeletedObjects
    BY <1>1 DEF Panel!LoadDeletedObjects, Panel!Calls, PanelTypes, NumbersFit, StepsRest,
       Panel!ChainIsOne, Panel!ConfirmationIsExact, CallFits
  <1>2. CASE Panel!InventoryArrives
    BY <1>2 DEF Panel!InventoryArrives, Panel!Answers, Panel!Cleared, PanelTypes, NumbersFit,
       StepsRest, Panel!ChainIsOne, CallFits
  <1>3. ASSUME NEW g \in Guid, Panel!Select(g) PROVE PanelInv'
    BY <1>3, PanelConstants DEF Panel!Select, Panel!Restored, Panel!Cleared, PanelTypes,
       NumbersFit, StepsRest, Panel!ChainIsOne, CallFits, Unset
  <1>4. ASSUME NEW p \in Position, Panel!Retarget(p) PROVE PanelInv'
    BY <1>4, PanelConstants DEF Panel!Retarget, Panel!Restored, Panel!Cleared, PanelTypes,
       NumbersFit, StepsRest, Panel!ChainIsOne, CallFits
  <1>5. CASE Panel!EvaluateEligibility
    BY <1>5 DEF Panel!EvaluateEligibility, Panel!Calls, Panel!Cleared, PanelTypes, NumbersFit,
       StepsRest, Panel!ChainIsOne, CallFits
  <1>6. CASE Panel!PreflightArrives
    <2>1. /\ \A s \in Panel!Step \ {"preflight", "live"} : chain'[s] = chain[s]
          /\ chain' = [s \in Panel!Step |-> chain'[s]]
      BY <1>6 DEF Panel!PreflightArrives, PanelTypes
    <2>2. call' = Nothing /\ UNCHANGED <<selected, typed, calls>>
      BY <1>6 DEF Panel!PreflightArrives, Panel!Answers, PanelTypes
    <2>3. PanelTypes'
      BY <2>1, <2>2 DEF PanelTypes, SimulationShown
    <2>4. NumbersFit'
      BY <2>1, <2>2 DEF PanelTypes, NumbersFit
    <2>5. StepsRest' /\ Panel!ChainIsOne'
      BY <2>1, <2>2 DEF NumbersFit, StepsRest, Panel!ChainIsOne, Panel!ConfirmationIsExact,
         CallFits, PanelTypes, Unset
    <2>6. call' # Nothing => CallFits'
      BY <2>1, <2>2 DEF CallFits, Unset, Panel!ConfirmationIsExact
    <2> QED
      BY <2>4, <2>3, <2>5, <2>6
  <1>7. CASE Panel!RunLiveRevalidation
    BY <1>7 DEF Panel!RunLiveRevalidation, Panel!Calls, Panel!Cleared, PanelTypes, NumbersFit,
       StepsRest, Panel!ChainIsOne, CallFits
  <1>8. CASE Panel!LiveJobEnds
    <2>1. PICK w : call = [what |-> "revalidation", n |-> calls, with |-> w] /\ call # Nothing
      BY <1>8 DEF Panel!LiveJobEnds, Panel!Answers, PanelTypes
    <2>2. /\ \A s \in Panel!Step \ {"live"} : chain'[s] = chain[s]
          /\ chain' = [s \in Panel!Step |-> chain'[s]]
      BY <1>8 DEF Panel!LiveJobEnds, PanelTypes
    <2>3. /\ call' = [what |-> "bound preflight", n |-> calls, with |-> w]
          /\ UNCHANGED <<selected, typed, calls>>
      BY <1>8, <2>1 DEF Panel!LiveJobEnds, Panel!Answers, PanelTypes
    <2>4. PanelTypes'
      BY <2>1, <2>2, <2>3 DEF PanelTypes, SimulationShown
    <2>5. NumbersFit'
      BY <2>1, <2>2, <2>3 DEF PanelTypes, NumbersFit
    <2>6. StepsRest' /\ Panel!ChainIsOne'
      BY <2>1, <2>2, <2>3 DEF NumbersFit, StepsRest, Panel!ChainIsOne, Panel!ConfirmationIsExact,
         CallFits, PanelTypes, Unset
    <2>7. call' # Nothing => CallFits'
      BY <2>1, <2>2, <2>3 DEF CallFits, Unset, Panel!ConfirmationIsExact
    <2> QED
      BY <2>5, <2>4, <2>6, <2>7
  <1>9. CASE Panel!BoundPreflightArrives
    BY <1>9 DEF Panel!BoundPreflightArrives, Panel!Answers, PanelTypes, NumbersFit, StepsRest,
       Panel!ChainIsOne, Panel!ConfirmationIsExact, CallFits
  <1>10. CASE Panel!PrepareSimulation
    BY <1>10 DEF Panel!PrepareSimulation, Panel!SensitiveReset, Panel!Calls, Panel!Cleared,
       PanelTypes, NumbersFit, StepsRest, Panel!ChainIsOne, CallFits, Unset
  <1>11. CASE Panel!SimulationArrives
    <2>1. PICK w : call = [what |-> "simulation", n |-> calls, with |-> w] /\ call # Nothing
      BY <1>11 DEF Panel!SimulationArrives, Panel!Answers, PanelTypes
    <2>2. /\ \A s \in Panel!Step \ {"simulation"} : chain'[s] = chain[s]
          /\ chain' = [s \in Panel!Step |-> chain'[s]]
      BY <1>11 DEF Panel!SimulationArrives, PanelTypes
    <2>3. /\ call' = Nothing /\ UNCHANGED <<selected, typed, calls>>
          /\ call # Nothing /\ call.what = "simulation" /\ call.n = calls
          /\ chain'["simulation"] = [for |-> w.for, n |-> calls]
      BY <1>11, <2>1 DEF Panel!SimulationArrives, Panel!Answers, PanelTypes
    <2>4. PanelTypes'
      BY <2>1, <2>2, <2>3 DEF PanelTypes, SimulationShown
    <2>5. NumbersFit'
      BY <2>1, <2>2, <2>3 DEF PanelTypes, NumbersFit
    <2>6. StepsRest' /\ Panel!ChainIsOne'
      BY <2>1, <2>2, <2>3 DEF NumbersFit, StepsRest, Panel!ChainIsOne, Panel!ConfirmationIsExact,
         CallFits, PanelTypes, Unset
    <2>7. call' # Nothing => CallFits'
      BY <2>1, <2>2, <2>3 DEF CallFits, Unset, Panel!ConfirmationIsExact
    <2> QED
      BY <2>5, <2>4, <2>6, <2>7
  <1>12. CASE Panel!RunChallengeRevalidation
    BY <1>12 DEF Panel!RunChallengeRevalidation, Panel!Calls, Panel!Cleared, PanelTypes,
       NumbersFit, StepsRest, Panel!ChainIsOne, CallFits, Unset
  <1>13. CASE Panel!EvidenceArrives
    <2>1. PICK w : call = [what |-> "evidence", n |-> calls, with |-> w] /\ call # Nothing
      BY <1>13 DEF Panel!EvidenceArrives, Panel!Answers, PanelTypes
    <2>2. /\ \A s \in Panel!Step \ {"evidence"} : chain'[s] = chain[s]
          /\ chain' = [s \in Panel!Step |-> chain'[s]]
      BY <1>13 DEF Panel!EvidenceArrives, PanelTypes
    <2>3. /\ call' = Nothing /\ UNCHANGED <<selected, typed, calls>>
          /\ call # Nothing /\ call.what = "evidence" /\ call.n = calls
          /\ chain'["evidence"] = [for |-> w, n |-> calls]
      BY <1>13, <2>1 DEF Panel!EvidenceArrives, Panel!Answers, PanelTypes
    <2>4. PanelTypes'
      BY <2>1, <2>2, <2>3 DEF PanelTypes, SimulationShown
    <2>5. NumbersFit'
      BY <2>1, <2>2, <2>3 DEF PanelTypes, NumbersFit
    <2>6. StepsRest' /\ Panel!ChainIsOne'
      BY <2>1, <2>2, <2>3 DEF NumbersFit, StepsRest, Panel!ChainIsOne, Panel!ConfirmationIsExact,
         CallFits, PanelTypes, Unset
    <2>7. call' # Nothing => CallFits'
      BY <2>1, <2>2, <2>3 DEF CallFits, Unset, Panel!ConfirmationIsExact
    <2> QED
      BY <2>5, <2>4, <2>6, <2>7
  <1>14. CASE Panel!CreateHumanChallenge
    BY <1>14 DEF Panel!CreateHumanChallenge, Panel!Calls, Panel!Cleared, PanelTypes, NumbersFit,
       StepsRest, Panel!ChainIsOne, CallFits, Unset
  <1>15. CASE Panel!ChallengeArrives
    <2>1. PICK w : call = [what |-> "challenge", n |-> calls, with |-> w] /\ call # Nothing
      BY <1>15 DEF Panel!ChallengeArrives, Panel!Answers, PanelTypes
    <2>2. /\ \A s \in Panel!Step \ {"challenge"} : chain'[s] = chain[s]
          /\ chain' = [s \in Panel!Step |-> chain'[s]]
      BY <1>15 DEF Panel!ChallengeArrives, PanelTypes
    <2>3. /\ call' = Nothing /\ UNCHANGED <<selected, calls>>
          /\ call # Nothing /\ call.what = "challenge" /\ call.n = calls
          /\ chain'["challenge"] = [for |-> w.simulation.for, n |-> calls, expired |-> FALSE,
                                    simulation |-> w.simulation.n,
                                    evidence |-> w.evidence.n]
      BY <1>15, <2>1 DEF Panel!ChallengeArrives, Panel!Answers, PanelTypes
    <2>4. PanelTypes'
      BY <2>1, <2>2, <2>3 DEF PanelTypes, SimulationShown, Panel!Challenge
    <2>5. NumbersFit'
      BY <2>1, <2>2, <2>3 DEF PanelTypes, NumbersFit
    <2>6. StepsRest' /\ Panel!ChainIsOne'
      BY <2>1, <2>2, <2>3 DEF NumbersFit, StepsRest, Panel!ChainIsOne, Panel!ConfirmationIsExact,
         CallFits, PanelTypes, Unset
    <2>7. call' # Nothing => CallFits'
      BY <2>1, <2>2, <2>3 DEF CallFits, Unset, Panel!ConfirmationIsExact
    <2> QED
      BY <2>5, <2>4, <2>6, <2>7
  <1>16. CASE Panel!ChallengeExpires
    <2>1. /\ \A s \in Panel!Step \ {"challenge"} : chain'[s] = chain[s]
          /\ chain' = [s \in Panel!Step |-> chain'[s]]
          /\ chain'["challenge"] = [chain["challenge"] EXCEPT !.expired = TRUE]
      BY <1>16 DEF Panel!ChallengeExpires, PanelTypes
    <2>2. UNCHANGED <<selected, typed, call, calls>> /\ chain["challenge"] # Nothing
      BY <1>16 DEF Panel!ChallengeExpires
    <2>3. /\ chain'["challenge"] \in Panel!Challenge
          /\ chain'["challenge"].for = chain["challenge"].for
          /\ chain'["challenge"].n = chain["challenge"].n
          /\ chain'["challenge"].simulation = chain["challenge"].simulation
          /\ chain'["challenge"].evidence = chain["challenge"].evidence
      BY <2>1, <2>2 DEF PanelTypes, Panel!Challenge
    <2>4. chain'["challenge"] # Nothing
      BY <2>3, PanelConstants
    <2>5. PanelTypes'
      BY <2>1, <2>2, <2>3, <2>4 DEF PanelTypes, SimulationShown
    <2>6. NumbersFit'
      BY <2>1, <2>2, <2>3, <2>4 DEF PanelTypes, NumbersFit
    <2>7. StepsRest' /\ Panel!ChainIsOne'
      BY <2>1, <2>2, <2>3, <2>4 DEF StepsRest, Panel!ChainIsOne, Panel!ConfirmationIsExact
    <2>8. call' # Nothing => CallFits'
      BY <2>1, <2>2, <2>3, <2>4 DEF CallFits, Unset, Panel!ConfirmationIsExact
    <2> QED
      BY <2>6, <2>5, <2>7, <2>8
  <1>17. ASSUME NEW g \in Guid, NEW p \in Position, Panel!TypeConfirmation(g, p) PROVE PanelInv'
    BY <1>17 DEF Panel!TypeConfirmation, Panel!ChallengeIsShown, PanelTypes, NumbersFit,
       StepsRest, Panel!ChainIsOne, CallFits
  <1>18. CASE Panel!CreateHumanAuthorization
    BY <1>18 DEF Panel!CreateHumanAuthorization, Panel!ChallengeIsShown, Panel!Calls,
       Panel!Cleared, PanelTypes, NumbersFit, StepsRest, Panel!ChainIsOne,
       Panel!ConfirmationIsExact, CallFits, Unset
  <1>19. CASE Panel!AuthorizationArrives
    <2>1. PICK w : call = [what |-> "authorization", n |-> calls, with |-> w] /\ call # Nothing
      BY <1>19 DEF Panel!AuthorizationArrives, Panel!Answers, PanelTypes
    <2>2. /\ \A s \in Panel!Step \ {"authorization"} : chain'[s] = chain[s]
          /\ chain' = [s \in Panel!Step |-> chain'[s]]
      BY <1>19 DEF Panel!AuthorizationArrives, PanelTypes
    <2>3. /\ call' = Nothing /\ UNCHANGED <<selected, typed, calls>>
          /\ call # Nothing /\ call.what = "authorization" /\ call.n = calls
          /\ chain'["authorization"] = [challenge |-> w.n, n |-> calls]
      BY <1>19, <2>1 DEF Panel!AuthorizationArrives, Panel!Answers, PanelTypes
    <2>4. PanelTypes'
      BY <2>1, <2>2, <2>3 DEF PanelTypes, SimulationShown
    <2>5. NumbersFit'
      BY <2>1, <2>2, <2>3 DEF PanelTypes, NumbersFit
    <2>6. StepsRest' /\ Panel!ChainIsOne'
      BY <2>1, <2>2, <2>3 DEF NumbersFit, StepsRest, Panel!ChainIsOne, Panel!ConfirmationIsExact,
         CallFits, PanelTypes, Unset
    <2>7. call' # Nothing => CallFits'
      BY <2>1, <2>2, <2>3 DEF CallFits, Unset, Panel!ConfirmationIsExact
    <2> QED
      BY <2>5, <2>4, <2>6, <2>7
  <1>20. CASE Panel!RunPostAuthorizationRevalidation
    <2>1. /\ \A s \in Panel!Step \ {"newEvidence", "released"} : chain'[s] = chain[s]
          /\ chain'["newEvidence"] = Nothing /\ chain'["released"] = Nothing
          /\ chain' = [s \in Panel!Step |-> chain'[s]]
      BY <1>20 DEF Panel!RunPostAuthorizationRevalidation, Panel!Cleared
    <2>2. /\ UNCHANGED <<selected, typed>> /\ call = Nothing /\ calls' = calls + 1
          /\ call' = [what |-> "new evidence", n |-> calls', with |-> chain["challenge"].for]
          /\ chain["authorization"] # Nothing
      BY <1>20 DEF Panel!RunPostAuthorizationRevalidation, Panel!Calls
    <2>3. PanelTypes'
      <3>1. /\ chain'["simulation"] = chain["simulation"]
            /\ chain'["challenge"] = chain["challenge"]
        BY <2>1
      <3>2. calls \in Nat /\ calls' = calls + 1 /\ selected' = selected
        <4>1. calls \in Nat
          BY DEF PanelTypes
        <4> QED
          BY <4>1, <2>2
      <3>3. call' = [what |-> call'.what, n |-> calls', with |-> call'.with]
            /\ call'.what = "new evidence"
        BY <2>2
      <3>4. chain' = [s \in Panel!Step |-> chain'[s]]
        BY <2>1
      <3>5. calls' \in Nat
        BY <3>2
      <3>6. call'.what \notin {"simulation", "challenge"}
        BY <3>3
      <3>7. selected' # Nothing => selected' \in Panel!Restored
        BY <3>2 DEF PanelTypes
      <3> QED
        BY <3>1, <3>3, <3>4, <3>5, <3>6, <3>7 DEF PanelTypes
    <2>4. NumbersFit'
      <3>1. \A s \in Numbered : chain'[s] # Nothing => chain'[s] = chain[s]
        BY <2>1
      <3>2. calls \in Nat /\ calls' = calls + 1
        BY <2>2 DEF PanelTypes
      <3> QED
        BY <3>1, <3>2 DEF NumbersFit
    <2>5. StepsRest' /\ Panel!ChainIsOne'
      BY <2>1, <2>2 DEF StepsRest, Panel!ChainIsOne, Panel!ConfirmationIsExact
    <2>6. CallFits'
      BY <2>1, <2>2 DEF CallFits, Unset
    <2> QED
      BY <2>4, <2>3, <2>5, <2>6
  <1>21. CASE Panel!NewEvidenceArrives
    <2>1. PICK w : call = [what |-> "new evidence", n |-> calls, with |-> w] /\ call # Nothing
      BY <1>21 DEF Panel!NewEvidenceArrives, Panel!Answers, PanelTypes
    <2>2. /\ \A s \in Panel!Step \ {"newEvidence"} : chain'[s] = chain[s]
          /\ chain' = [s \in Panel!Step |-> chain'[s]]
      BY <1>21 DEF Panel!NewEvidenceArrives, PanelTypes
    <2>3. /\ call' = Nothing /\ UNCHANGED <<selected, typed, calls>>
          /\ call # Nothing /\ call.what = "new evidence" /\ call.n = calls
          /\ chain'["newEvidence"].n = calls
      BY <1>21, <2>1 DEF Panel!NewEvidenceArrives, Panel!Answers, PanelTypes
    <2>4. PanelTypes'
      BY <2>1, <2>2, <2>3 DEF PanelTypes, SimulationShown
    <2>5. NumbersFit'
      <3>1. \A s \in Numbered \ {"newEvidence"} : chain'[s] = chain[s]
        BY <2>2
      <3>2. chain'["newEvidence"].n = calls /\ call' = Nothing /\ UNCHANGED calls /\ calls \in Nat
        BY <2>3 DEF PanelTypes
      <3> QED
        BY <3>1, <3>2 DEF NumbersFit
    <2>6. StepsRest' /\ Panel!ChainIsOne'
      <3>1. /\ chain'["simulation"] = chain["simulation"]
            /\ chain'["challenge"] = chain["challenge"]
            /\ chain'["evidence"] = chain["evidence"]
            /\ chain'["authorization"] = chain["authorization"]
            /\ chain'["released"] = chain["released"]
        BY <2>2
      <3>2. chain["authorization"] # Nothing => chain["authorization"].n < calls
        BY <2>1 DEF NumbersFit
      <3>3. Panel!Shown => chain["authorization"] # Nothing /\ chain["released"] = Nothing
        BY <2>3 DEF CallFits, Unset
      <3>4. chain'["newEvidence"].n = calls
        BY <2>3
      <3> QED
        BY <2>3, <3>1, <3>2, <3>3, <3>4 DEF StepsRest, Panel!ChainIsOne, Panel!ConfirmationIsExact
    <2>7. call' # Nothing => CallFits'
      BY <2>1, <2>2, <2>3 DEF CallFits, Unset, Panel!ConfirmationIsExact
    <2> QED
      BY <2>5, <2>4, <2>6, <2>7
  <1>22. CASE Panel!PreparePostAuthorization
    BY <1>22 DEF Panel!PreparePostAuthorization, Panel!Calls, Panel!Cleared, PanelTypes,
       NumbersFit, StepsRest, Panel!ChainIsOne, Panel!ConfirmationIsExact, CallFits, Unset
  <1>23. CASE Panel!ReleaseArrives
    BY <1>23 DEF Panel!ReleaseArrives, Panel!Answers, PanelTypes, NumbersFit, StepsRest,
       Panel!ChainIsOne, Panel!ConfirmationIsExact, CallFits, Unset
  <1>24. CASE Panel!CallFails
    BY <1>24 DEF Panel!CallFails, PanelTypes, NumbersFit, StepsRest, Panel!ChainIsOne,
       Panel!ConfirmationIsExact, CallFits
  <1> QED
    BY <1>1, <1>2, <1>3, <1>4, <1>5, <1>6, <1>7, <1>8, <1>9, <1>10, <1>11, <1>12, <1>13, <1>14,
       <1>15,
       <1>16, <1>17, <1>18, <1>19, <1>20, <1>21, <1>22, <1>23, <1>24 DEF Panel!Next

-----------------------------------------------------------------------------
(* The components together.                                                *)

ConsoleInv ==
    /\ part = "explorer" => ExplorerInv
    /\ part = "pane" => PaneInv
    /\ part = "actions" => ActionsInv
    /\ part = "acl" => AclInv
    /\ part = "creation" => CreationInv
    /\ part = "update" => UpdateInv
    /\ part = "editors" => EditorsInv
    /\ part = "panel" => PanelInv

\* A step of the console is a step of the component that was picked.
LEMMA OneMoves ==
    ASSUME [Next]_vars
    PROVE  /\ part' = part
           /\ part = "explorer" => [Explorer!Next]_(Explorer!vars)
           /\ part = "pane" => [Pane!Next]_(Pane!vars)
           /\ part = "actions" => [Actions!Next]_(Actions!vars)
           /\ part = "acl" => [Acl!Next]_(Acl!vars)
           /\ part = "creation" => [Creation!Next]_(Creation!vars)
           /\ part = "update" => [Update!Next]_(Update!vars)
           /\ part = "editors" => [Editors!Next]_(Editors!vars)
           /\ part = "panel" => [Panel!Next]_(Panel!vars)
  <1>1. CASE Next
    BY <1>1 DEF Next
  <1>2. CASE UNCHANGED vars
    <2>1. UNCHANGED <<part, explorerVars, paneVars, actionsVars, aclVars, creationVars,
                      updateVars, editorsVars, panelVars, sharedVars>>
      BY <1>2 DEF vars
    <2>2. UNCHANGED Explorer!vars
      BY <2>1 DEF explorerVars, sharedVars, Explorer!vars, Explorer!clientVars, Explorer!pageVars
    <2>3. UNCHANGED Pane!vars
      BY <2>1 DEF paneVars, sharedVars, Pane!vars, Pane!paneVars, Pane!detailVars,
         Pane!memberVars, Pane!descriptorVars
    <2>4. UNCHANGED Actions!vars
      BY <2>1 DEF actionsVars, sharedVars, Actions!vars, Actions!modeVars, Actions!moveVars,
         Actions!accountVars, Actions!jobVars
    <2>5. UNCHANGED Acl!vars
      BY <2>1 DEF aclVars, sharedVars, Acl!vars, Acl!modeVars, Acl!descriptorVars, Acl!boundVars
    <2>6. UNCHANGED Creation!vars
      BY <2>1 DEF creationVars, sharedVars, Creation!vars
    <2>7. UNCHANGED Update!vars
      BY <2>1 DEF updateVars, sharedVars, Update!vars
    <2>8. UNCHANGED Editors!vars
      BY <2>1 DEF editorsVars, sharedVars, Editors!vars
    <2>9. UNCHANGED Panel!vars
      BY <2>1 DEF panelVars, sharedVars, Panel!vars
    <2> QED
      BY <2>1, <2>2, <2>3, <2>4, <2>5, <2>6, <2>7, <2>8, <2>9
  <1> QED
    BY <1>1, <1>2

\* Where nothing of a component moves, what holds of it goes on holding.
LEMMA ExplorerRests ==
    ASSUME ExplorerInv, UNCHANGED Explorer!vars
    PROVE  ExplorerInv'
  <1> USE DEF Explorer!vars, Explorer!clientVars, Explorer!pageVars, Underway, Waits, Told
  <1>1. ExplorerTypes' /\ CallsHeld'
    BY DEF ExplorerInv, ExplorerTypes, CallsHeld, Explorer!TypeOK, Explorer!ClientTypeOK
  <1>2. QueuesHeld' /\ InTurn' /\ FlightIsNew'
    BY DEF ExplorerInv, QueuesHeld, InTurn, FlightIsNew
  <1>3. NavigationsWait'
    BY DEF ExplorerInv, NavigationsWait, AtContent, Explorer!Idle
  <1>4. LoadingIsOwed'
    BY DEF ExplorerInv, LoadingIsOwed
  <1>5. Explorer!ForcedReadsAfterCall' /\ Explorer!PromisesAreAwaited'
    BY DEF ExplorerInv, Explorer!ForcedReadsAfterCall, Explorer!PromisesAreAwaited
  <1> QED
    BY <1>1, <1>2, <1>3, <1>4, <1>5 DEF ExplorerInv

LEMMA PaneRests ==
    ASSUME PaneInv, UNCHANGED Pane!vars
    PROVE  PaneInv'
  BY DEF Pane!vars, Pane!paneVars, Pane!detailVars, Pane!memberVars, Pane!descriptorVars,
     PaneInv, JobsAreShared, Pane!Waits, Pane!PaneKeepsItsObject, PaneTypes

LEMMA ActionsRests ==
    ASSUME ActionsInv, UNCHANGED Actions!vars
    PROVE  ActionsInv'
  BY DEF Actions!vars, Actions!modeVars, Actions!moveVars, Actions!accountVars, Actions!jobVars,
     ActionsInv, Actions!JobsAreWhatWasConfirmed, FlagsAreHeld

LEMMA AclRests ==
    ASSUME AclInv, UNCHANGED Acl!vars
    PROVE  AclInv'
  BY DEF Acl!vars, Acl!modeVars, Acl!descriptorVars, Acl!boundVars, AclInv, Acl!ConfirmedAsShown,
     Acl!EvidenceIsSpentOnce, AclTypes, ClaimsHeld, IsClaimOf, StagesAgree, OfSimulation

LEMMA CreationRests ==
    ASSUME CreationInv, UNCHANGED Creation!vars
    PROVE  CreationInv'
  BY DEF Creation!vars, CreationInv, CreationTypes, DialogsNumbered, IsOpen, Uncrossed,
     CreationsHeld, CopyIsAwaited, Awaits, PlacesAwaited, DialogsAsked, BarredIsStart,
     PostedAsAsked

LEMMA UpdateRests ==
    ASSUME UpdateInv, UNCHANGED Update!vars
    PROVE  UpdateInv'
  BY DEF Update!vars, UpdateInv, RestIsKnown, SavesHeld, Surfaces, TypedIsHeld, UpdateTypes

LEMMA EditorsRests ==
    ASSUME EditorsInv, UNCHANGED Editors!vars
    PROVE  EditorsInv'
  BY DEF Editors!vars, EditorsInv, EditorsTypes, TypedOnWindow

LEMMA PanelRests ==
    ASSUME PanelInv, UNCHANGED Panel!vars
    PROVE  PanelInv'
  BY DEF Panel!vars, PanelInv, CallFits, Panel!ConfirmationIsExact, Panel!Shown, Unset,
     NumbersFit, Panel!ChainIsOne, PanelTypes, StepsRest

THEOREM ConsoleInvariant == Spec => []ConsoleInv
  <1>1. ASSUME Init
        PROVE  ConsoleInv
    <2>1. CASE part = "explorer" /\ Explorer!Init
      BY <2>1, ExplorerStart DEF ConsoleInv
    <2>2. CASE part = "pane" /\ Pane!Init
      BY <2>2, PaneStart DEF ConsoleInv
    <2>3. CASE part = "actions" /\ Actions!Init
      BY <2>3, ActionsStart DEF ConsoleInv
    <2>4. CASE part = "acl" /\ Acl!Init
      BY <2>4, AclStart DEF ConsoleInv
    <2>5. CASE part = "creation" /\ Creation!Init
      BY <2>5, CreationStart DEF ConsoleInv
    <2>6. CASE part = "update" /\ Update!Init
      BY <2>6, UpdateStart DEF ConsoleInv
    <2>7. CASE part = "editors" /\ Editors!Init
      BY <2>7, EditorsStart DEF ConsoleInv
    <2>8. CASE part = "panel" /\ Panel!Init
      BY <2>8, PanelStart DEF ConsoleInv
    <2> QED
      BY <1>1, <2>1, <2>2, <2>3, <2>4, <2>5, <2>6, <2>7, <2>8 DEF Init
  <1>2. ASSUME ConsoleInv, [Next]_vars
        PROVE  ConsoleInv'
    <2>1. part' = part
      BY <1>2, OneMoves
    <2>2. CASE part = "explorer"
      BY <1>2, <2>1, <2>2, OneMoves, ExplorerStep, ExplorerRests DEF ConsoleInv
    <2>3. CASE part = "pane"
      BY <1>2, <2>1, <2>3, OneMoves, PaneStep, PaneRests DEF ConsoleInv
    <2>4. CASE part = "actions"
      BY <1>2, <2>1, <2>4, OneMoves, ActionsStep, ActionsRests DEF ConsoleInv
    <2>5. CASE part = "acl"
      BY <1>2, <2>1, <2>5, OneMoves, AclStep, AclRests DEF ConsoleInv
    <2>6. CASE part = "creation"
      BY <1>2, <2>1, <2>6, OneMoves, CreationStep, CreationRests DEF ConsoleInv
    <2>7. CASE part = "update"
      BY <1>2, <2>1, <2>7, OneMoves, UpdateStep, UpdateRests DEF ConsoleInv
    <2>8. CASE part = "editors"
      BY <1>2, <2>1, <2>8, OneMoves, EditorsStep, EditorsRests DEF ConsoleInv
    <2>9. CASE part = "panel"
      BY <1>2, <2>1, <2>9, OneMoves, PanelStep, PanelRests DEF ConsoleInv
    <2> QED
      BY <2>1, <2>2, <2>3, <2>4, <2>5, <2>6, <2>7, <2>8, <2>9 DEF ConsoleInv
  <1> QED
    BY <1>1, <1>2, PTL DEF Spec

-----------------------------------------------------------------------------
(* What it implies.                                                        *)

\* However the calls of the explorer, the answers of the snapshot and the writes
\* overlap, the page says that it loads only while a call is under way, a refresh
\* after a write shows that write, and the promises the page holds are those the
\* snapshot handed out.
THEOREM CallsServed == Spec => []CallsAreServed
  <1>1. ConsoleInv => CallsAreServed
    BY ExplorerServes DEF ConsoleInv, CallsAreServed
  <1> QED
    BY <1>1, ConsoleInvariant, PTL

\* Of the navigations of the explorer the last one wins: no answer that comes
\* late takes the place of what a later navigation shows.
THEOREM NavigationInOrder == Spec => NavigationsWinInOrder
  <1>1. ASSUME ConsoleInv, [Next]_vars
        PROVE  [part = "explorer" => Explorer!ShowsInOrder]_vars
    <2>1. ASSUME part = "explorer", ~UNCHANGED vars
          PROVE  Explorer!ShowsInOrder
      <3>1. CASE Explorer!Next
        BY <1>1, <2>1, <3>1, ExplorerShows DEF ConsoleInv
      <3>2. CASE ~Explorer!Next
        BY <1>1, <2>1, <3>2 DEF Next
      <3> QED
        BY <3>1, <3>2
    <2> QED
      BY <2>1
  <1> QED
    BY <1>1, ConsoleInvariant, PTL DEF Spec, NavigationsWinInOrder

\* Whatever answers late, the pane and the properties window show the object that
\* is selected with its own details, and the calls for an object share one job.
THEOREM OneObject == Spec => []PaneIsOneObject
  <1>1. ConsoleInv => PaneIsOneObject
    BY PaneShares DEF ConsoleInv, PaneInv, PaneIsOneObject
  <1> QED
    BY <1>1, ConsoleInvariant, PTL

\* Whatever is clicked, switched or answered meanwhile, a job that changes an
\* object is the one its dialog showed when it was confirmed; what a creation
\* makes is of the profile its dialog was opened to copy, in the place chosen, the
\* one the dialog opened with or the one the dialog's own list of places moved it
\* to, never a barred one but for a copy of who is there; a save sends what was
\* typed, and a second click submits nothing: the last as long as no flag was
\* cleared for another dialog, and the creations and what is sent as long as no
\* late answer or end has fallen on another's dialog.
THEOREM AsShown == Spec => []JobsAreWhatWasShown
  <1>1. ConsoleInv => JobsAreWhatWasShown
    BY ActionsSubmitOnce, EditsKnown, CreationAsAsked
       DEF ConsoleInv, ActionsInv, JobsAreWhatWasShown
  <1> QED
    BY <1>1, ConsoleInvariant, PTL

\* Whatever the operator selects, types and switches while the calls are under
\* way, what is applied after a simulation is what was simulated and shown, and
\* the simulation serves once: for permissions (which simulation was shown, as
\* long as no answer came to a panel that had moved on), for the values of the
\* LDAP and HAB editors and for the restoration of a deleted object.
THEOREM SimulatedShown == Spec => []SimulatedAsShown
  <1>1. ConsoleInv => SimulatedAsShown
    BY EditorsShown DEF ConsoleInv, AclInv, PanelInv, SimulatedAsShown
  <1> QED
    BY <1>1, ConsoleInvariant, PTL
===============================================================================
