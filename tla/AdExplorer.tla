------------------------------ MODULE AdExplorer ------------------------------
(***************************************************************************)
(* The Active Directory page's views (AdExplorerPage.jsx): the navigation  *)
(* to a node, the tree, the special views and the searches, the cache and  *)
(* the shared requests of the nodes' contents, and the effect of a new     *)
(* snapshot.  Each call is a task; its record says where it awaits.        *)
(***************************************************************************)
EXTENDS AdSnapshotClient

CONSTANTS Node,         \* the containers of the tree
          Covered,      \* the nodes under the snapshot's base
          Special,      \* the views that are not a node
          NoTask,
          MaxCalls      \* bound: calls made, the two of the first refreshAll among them

\* What the constants are assumed to be.
Scope == /\ NoTask \notin Task
         /\ MaxVersion \in Nat \ {0} /\ MaxCalls \in Nat \ {0, 1}
         /\ Covered \subseteq Node
         /\ Special \subseteq {"computers", "contacts", "search", "global"}

VARIABLES task,         \* the calls under way
          calls,        \* how many have been made
          selected,     \* selectedNode
          view,         \* viewItems: whose content, of which version, for whom
          tree,         \* treeItems: the version it was built from
          loading,
          requestId,    \* nodeContentRequestIdRef.current
          late,         \* a content came too late and left loading as it was
          cache,        \* nodeContentCacheRef.current
          promises      \* nodeContentPromisesRef.current: the call that runs the job

pageVars == <<task, calls, selected, view, tree, loading, requestId, late,
              cache, promises>>
vars == <<clientVars, pageVars>>

NoCall == [op |-> "none"]
Place == Node \cup Special
Empty == [of |-> "nothing", version |-> 0, source |-> "none", request |-> 0]

Called(op, on, force, req, turn, with) ==
    [op |-> op, at |-> "snapshot", on |-> on, force |-> force, request |-> req,
     joins |-> NoTask, got |-> "nothing", version |-> 0, all |-> with # NoTask,
     with |-> with, turn |-> turn, since |-> served.version, alone |-> ~flight.up]
Call(op, on, force, req) == Called(op, on, force, req, calls, NoTask)

Init ==
    /\ ClientInit
    /\ calls = 2
    /\ selected \in Covered
    /\ view = Empty
    /\ tree = 0
    /\ loading = TRUE
    /\ requestId = 1
    /\ late = FALSE
    /\ cache = [n \in Node |-> 0]
    /\ promises = [n \in Node |-> NoTask]
    \* refreshAll has run: the tree and the node wait for the first request.
    /\ \E t, u \in Task :
          /\ t # u
          /\ task = [c \in Task |->
                IF c = t THEN Called("tree", "tree", TRUE, 0, 0, u)
                ELSE IF c = u THEN Called("node", selected, TRUE, 1, 1, t)
                ELSE NoCall]
          /\ waiting = [c \in Task |-> IF c \in {t, u} THEN "forced" ELSE "no"]

\* A call takes a free slot; the user acts between two turns of the event loop.
Begin(t, call) ==
    /\ Idle /\ calls < MaxCalls /\ task[t] = NoCall
    /\ calls' = calls + 1
    /\ task' = [task EXCEPT ![t] = call]

-----------------------------------------------------------------------------
(* What the user starts *)

\* loadNodeContent up to its first await.
LoadNodeContent(t, n, force) ==
    /\ Begin(t, Call("node", n, force, requestId + 1))
    /\ requestId' = requestId + 1
    /\ selected' = n
    /\ Resolve(t, force)
    /\ UNCHANGED <<dir, served, stored, revised>>
    /\ UNCHANGED <<view, tree, loading, late, cache, promises>>

LoadTree(t, force) ==
    /\ Begin(t, Call("tree", "tree", force, 0))
    /\ Resolve(t, force)
    /\ UNCHANGED <<dir, served, stored, revised>>
    /\ UNCHANGED <<selected, view, tree, loading, requestId, late, cache, promises>>

\* loadContactsView and searchInOuSimple ask the snapshot first.
LoadSnapshotView(t, s) ==
    /\ s \in {"contacts", "search"}
    /\ Begin(t, Call(s, s, FALSE, 0))
    /\ loading' = TRUE
    /\ Resolve(t, FALSE)
    /\ UNCHANGED <<dir, served, stored, revised>>
    /\ UNCHANGED <<selected, view, tree, requestId, late, cache, promises>>

\* loadComputersView asks the domain catalog, another copy of the same hook;
\* runGlobalAdSearch asks a job, and has a flag of its own for loading.
LoadCatalogView(t, s) ==
    /\ s \in {"computers", "global"}
    /\ Begin(t, [Call(s, s, FALSE, 0) EXCEPT
                    !.at = IF s = "global" THEN "job" ELSE "catalog"])
    /\ loading' = (loading \/ s = "computers")
    /\ UNCHANGED clientVars
    /\ UNCHANGED <<selected, view, tree, requestId, late, cache, promises>>

-----------------------------------------------------------------------------
(* What runs after an await *)

\* The callers told go on one after the other, the first to have called first.
IsFirst(t) == \A c \in Task : micro[c] # Unanswered => task[t].turn <= task[c].turn
Answered(t) == /\ micro[t] # Unanswered /\ IsFirst(t)
               /\ micro' = [micro EXCEPT ![t] = Unanswered]
               /\ UNCHANGED <<dir, served, stored, flight, waiting, revised>>

\* The calls in ended are over.  The second of refreshAll's two calls to end,
\* or its tree when it fails, ends it: loading falls, whatever else runs.
Partner(t) == IF task[t].all THEN {task[t].with} \ {NoTask} ELSE {}
EndsRefresh(ended, failed) ==
    \E t \in ended : task[t].all /\ (failed \/ Partner(t) \subseteq ended)
Return(ended, failed, load, tardy) ==
    /\ task' = [c \in Task |->
                  IF c \in ended THEN NoCall
                  ELSE IF \E t \in ended : c \in Partner(t)
                  THEN [task[c] EXCEPT !.with = NoTask, !.all = ~failed]
                  ELSE task[c]]
    /\ loading' = (load /\ ~EndsRefresh(ended, failed))
    /\ late' = ((late \/ tardy) /\ loading')

Shows(of, version, source, request) ==
    view' = [of |-> of, version |-> version, source |-> source, request |-> request]

\* loadNodeContent after getChildren: the snapshot, the cache, or a job that
\* a call for the same node may already have started.
NodeAfterSnapshot(t) ==
    LET c == task[t]
        value == micro[t]
        owner == IF c.force \/ promises[c.on] = NoTask THEN t ELSE promises[c.on]
    IN /\ c.op = "node" /\ c.at = "snapshot"
       /\ Answered(t)
       /\ \/ /\ value # Null /\ c.on \in Covered
             /\ Shows(c.on, value.version, IF c.force THEN "forced" ELSE "node", c.request)
             /\ Return({t}, FALSE, FALSE, FALSE)
             /\ UNCHANGED <<cache, promises>>
          \/ /\ value = Null \/ c.on \notin Covered
             /\ cache' = IF c.force THEN [n \in Node |-> 0] ELSE cache
             /\ \/ /\ ~c.force /\ cache[c.on] # 0
                   /\ Shows(c.on, cache[c.on], "node", c.request)
                   /\ Return({t}, FALSE, FALSE, FALSE)
                   /\ UNCHANGED promises
                \/ /\ c.force \/ cache[c.on] = 0
                   /\ loading' = TRUE
                   /\ promises' = [promises EXCEPT ![c.on] = owner]
                   /\ task' = [task EXCEPT ![t].at = "content", ![t].joins = owner,
                                           ![t].turn = 0, ![t].since = 0, ![t].alone = FALSE]
                   /\ UNCHANGED <<view, late>>
       /\ UNCHANGED <<calls, selected, tree, requestId>>

\* loadTree after getNavigationNodes.
TreeAfterSnapshot(t) ==
    /\ task[t].op = "tree" /\ task[t].at = "snapshot"
    /\ Answered(t)
    /\ \/ /\ micro[t] # Null
          /\ tree' = micro[t].version
          /\ Return({t}, FALSE, loading, FALSE)
       \/ /\ micro[t] = Null
          /\ task' = [task EXCEPT ![t].at = "job"]
          /\ UNCHANGED <<tree, loading, late>>
    /\ UNCHANGED <<calls, selected, view, requestId, cache, promises>>

\* loadContactsView and searchInOuSimple after adSnapshot.search: without a
\* snapshot the contacts are an error, the search runs jobs.
ViewAfterSnapshot(t) ==
    /\ task[t].op \in {"contacts", "search"} /\ task[t].at = "snapshot"
    /\ Answered(t)
    /\ \/ /\ micro[t] # Null
          /\ selected' = task[t].on
          /\ Shows(task[t].on, micro[t].version, "special", 0)
          /\ Return({t}, FALSE, FALSE, FALSE)
       \/ /\ micro[t] = Null /\ task[t].op = "contacts"
          /\ view' = Empty
          /\ Return({t}, FALSE, FALSE, FALSE)
          /\ UNCHANGED selected
       \/ /\ micro[t] = Null /\ task[t].op = "search"
          /\ task' = [task EXCEPT ![t].at = "job"]
          /\ UNCHANGED <<selected, view, loading, late>>
    /\ UNCHANGED <<calls, tree, requestId, cache, promises>>

\* The catalog answers, or has nothing usable and a job is run.
CatalogAnswers(t) ==
    /\ Idle /\ task[t].op # "none" /\ task[t].at = "catalog"
    /\ \/ /\ selected' = task[t].on
          /\ Shows(task[t].on, dir, "special", 0)
          /\ Return({t}, FALSE, FALSE, FALSE)
       \/ /\ task' = [task EXCEPT ![t].at = "job"]
          /\ UNCHANGED <<selected, view, loading, late>>
    /\ UNCHANGED clientVars
    /\ UNCHANGED <<calls, tree, requestId, cache, promises>>

\* runJob for the tree: the units, an error or a timeout.
TreeJobAnswers(t) ==
    /\ Idle /\ task[t].op = "tree" /\ task[t].at = "job"
    /\ \/ /\ tree' = dir
          /\ Return({t}, FALSE, loading, FALSE)
       \/ /\ Return({t}, TRUE, loading, FALSE)
          /\ UNCHANGED tree
    /\ UNCHANGED clientVars
    /\ UNCHANGED <<calls, selected, view, requestId, cache, promises>>

\* The finally of a special view: the global search has a flag of its own.
ClearsUnlessSearch(op) == op = "computers"      \* mutant: not after a search's jobs
ClearsLoading(op) == op # "global"

\* runJob for a special view: the items, an error or a timeout.  The search
\* takes what its three jobs give and never fails.
ViewJobAnswers(t) ==
    /\ Idle /\ task[t].op \in Special /\ task[t].at = "job"
    /\ \/ /\ selected' = task[t].on
          /\ Shows(task[t].on, dir, "special", 0)
       \/ /\ task[t].op = "computers"
          /\ view' = Empty
          /\ UNCHANGED selected
       \/ /\ task[t].op = "global"
          /\ UNCHANGED <<selected, view>>
    /\ Return({t}, FALSE, loading /\ ~ClearsLoading(task[t].op), FALSE)
    /\ UNCHANGED clientVars
    /\ UNCHANGED <<calls, tree, requestId, cache, promises>>

\* The job of a node's content reads the directory, fails or times out.
ContentRead(t) ==
    /\ Idle /\ task[t].op = "node" /\ task[t].at = "content"
    /\ task[t].joins = t /\ task[t].got = "nothing"
    /\ \E got \in {"failed", "read"} :
          task' = [task EXCEPT ![t].got = got, ![t].version = dir]
    /\ UNCHANGED clientVars
    /\ UNCHANGED <<calls, selected, view, tree, loading, late, requestId, cache, promises>>

\* A call whose request is no longer the last one shows and keeps nothing.
IsAnyRequest(c) == TRUE                \* mutant: the number is not compared
IsCurrent(c) == c.request = requestId

\* The call that ran the job takes it out of the map, unless another is there.
StaysPromised(n, t) == promises        \* mutant: it stays
Unpromised(n, t) == [promises EXCEPT ![n] = IF @ = t THEN NoTask ELSE @]

\* The content arrives: every call that awaits it goes on.
ContentArrives(t) ==
    /\ Idle /\ task[t].op = "node" /\ task[t].at = "content"
    /\ task[t].joins = t /\ task[t].got # "nothing"
    /\ LET n == task[t].on
           all == {c \in Task : /\ task[c].op = "node" /\ task[c].at = "content"
                                /\ task[c].joins = t}
           mine == {c \in all : IsCurrent(task[c])}
       IN /\ promises' = Unpromised(n, t)
          /\ \/ /\ mine = {}
                /\ Return(all, FALSE, loading, TRUE)
                /\ UNCHANGED <<view, cache>>
             \/ /\ mine # {}
                /\ Return(all, FALSE, FALSE, FALSE)
                /\ \/ /\ task[t].got = "failed"
                      /\ view' = Empty
                      /\ UNCHANGED cache
                   \/ /\ task[t].got = "read"
                      /\ \E c \in mine : Shows(n, task[t].version, "node", task[c].request)
                      /\ cache' = [cache EXCEPT ![n] = task[t].version]
    /\ UNCHANGED clientVars
    /\ UNCHANGED <<calls, selected, tree, requestId>>

\* The effect of a new revision of the snapshot.
RevisionEffect ==
    /\ Idle /\ revised
    /\ revised' = FALSE
    /\ \/ /\ ~stored.usable
          /\ UNCHANGED <<cache, tree, view, requestId>>
       \/ /\ stored.usable
          /\ cache' = [n \in Node |-> 0]
          /\ tree' = stored.version
          /\ IF selected \in Covered
             THEN /\ requestId' = requestId + 1
                  /\ Shows(selected, stored.version, "node", requestId + 1)
             ELSE UNCHANGED <<view, requestId>>
    /\ UNCHANGED <<dir, served, stored, flight, waiting, micro>>
    /\ UNCHANGED <<task, calls, selected, loading, late, promises>>

Client == ClientNext /\ UNCHANGED pageVars

Next ==
    \/ Client
    \/ RevisionEffect
    \/ \E t \in Task :
        \/ \E n \in Node, force \in BOOLEAN : LoadNodeContent(t, n, force)
        \/ \E force \in BOOLEAN : LoadTree(t, force)
        \/ \E s \in Special : LoadSnapshotView(t, s) \/ LoadCatalogView(t, s)
        \/ NodeAfterSnapshot(t) \/ TreeAfterSnapshot(t) \/ ViewAfterSnapshot(t)
        \/ CatalogAnswers(t) \/ TreeJobAnswers(t) \/ ViewJobAnswers(t)
        \/ ContentRead(t) \/ ContentArrives(t)

Spec == Init /\ [][Next]_vars

-----------------------------------------------------------------------------
(* Properties *)

\* The types of the page's state.
TypeOK ==
    /\ ClientTypeOK
    /\ calls \in 0 .. MaxCalls
    /\ selected \in Place
    /\ view.of \in Place \cup {"nothing"} /\ view.version \in 0 .. MaxVersion
    /\ view.request <= requestId
    /\ tree \in 0 .. MaxVersion
    /\ loading \in BOOLEAN /\ late \in BOOLEAN
    /\ cache \in [Node -> 0 .. MaxVersion]
    /\ promises \in [Node -> Task \cup {NoTask}]

\* A promise of the map is the job of a call that still awaits it: no call joins
\* a job whose answer has come, and none joins the job of another place.
PromisesAreAwaited ==
    \A n \in Node : promises[n] # NoTask =>
        /\ task[promises[n]].op = "node" /\ task[promises[n]].at = "content"
        /\ task[promises[n]].on = n /\ task[promises[n]].joins = promises[n]

\* Among navigations the last one wins: content that arrives late never takes
\* the place of what a later navigation shows, except a forced refresh that the
\* snapshot answers, which loadNodeContent shows without looking at its number.
ShowsInOrder ==
    view' # view => \/ view'.request >= view.request
                    \/ view'.request = 0
                    \/ view'.source = "forced"
NavigationsWinInOrder == [][ShowsInOrder]_vars

\* The console is left saying that it loads, with nothing under way, only by a
\* content that came after its request was overtaken (it does not clear it).
LoadingMeansBusy ==
    loading /\ Idle /\ (\A t \in Task : task[t] = NoCall) => late

\* A forced call that found no request in flight is answered with the
\* directory as published at the call or later, or with what was there when
\* its own request was lost: a refresh after a write shows the write.
ForcedReadsAfterCall ==
    \A t \in Task : micro[t] # Unanswered /\ micro[t] # Null =>
        (task[t].force /\ task[t].alone
            => \/ micro[t].version >= task[t].since
               \/ micro[t].from = "fallback")
=============================================================================
