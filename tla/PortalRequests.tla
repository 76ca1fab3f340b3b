---------------------------- MODULE PortalRequests ----------------------------
(***************************************************************************)
(* The requests page of the portal (src/frontend/src/App.jsx): the list    *)
(* the portal holds of the server's requests, its filters and pages, the   *)
(* selection, the actions on one request (from its row or from the drawer) *)
(* and on many of them, one after the other.                               *)
(*                                                                         *)
(* The answers of the list are not numbered: the live refresh, the reload  *)
(* button and the end of every action each ask for one, and they arrive in *)
(* any order.  The drawer shows a copy of the request that was opened.     *)
(***************************************************************************)
EXTENDS Integers, FiniteSets, FiniteSetsExt, Functions

CONSTANTS
    Request,
    TypeOf,                 \* the type of each request
    Searches,               \* what the search texts match: sets of requests
    StatusFilters,          \* the statuses the filter is set to
    Initial,                \* the requests of the server when the page opens
    PageSizes,              \* rows of a page the page lets choose
    MaxUi, MaxServer, MaxFlows, MaxLoads    \* bounds of the instance

Status == {"waiting_approval", "pending", "processing", "completed", "failed", "rejected"}
Absent == "absent"
All == "all"

\* What the constants are assumed to be.
RequestsAssumption ==
    /\ IsFiniteSet(Request) /\ Initial \subseteq [Request -> Status \cup {Absent}]
    /\ Request \in Searches /\ All \in StatusFilters /\ PageSizes \subseteq Nat \ {0}

NoDrawer == [open |-> FALSE]
Approvals == {"approve", "approveSelected", "approveFiltered"}
Bulk == {"approveSelected", "retrySelected", "approveFiltered", "retryFiltered"}

VARIABLES
    status,         \* the requests of the server
    shown,          \* the list the portal holds
    search, statusFilter, typeFilter,
    requestPage, requestPageSize,
    selected,       \* selectedRequestIds
    drawer,         \* the request opened, as it was in the list
    loads,          \* answers of the list on their way
    flows,          \* actions under way
    ui, steps, started      \* bounds

filters == <<search, statusFilter, typeFilter>>
vars == <<status, shown, filters, requestPage, requestPageSize, selected, drawer,
          loads, flows, ui, steps, started>>

-----------------------------------------------------------------------------
TypeOK ==
    /\ status \in [Request -> Status \cup {Absent}]
    /\ shown \in [Request -> Status \cup {Absent}]
    /\ search \in Searches
    /\ statusFilter \in StatusFilters
    /\ requestPage \in Nat \ {0} /\ requestPageSize \in PageSizes
    /\ selected \subseteq Request

Matches(r, list) ==
    /\ list[r] # Absent /\ r \in search
    /\ statusFilter \in {All, list[r]} /\ typeFilter \in {All, TypeOf[r]}

FilteredRequests == {r \in Request : Matches(r, shown)}
SelectedRequests == FilteredRequests \cap selected

TotalPages(n) == Max({1, (n + requestPageSize - 1) \div requestPageSize})

\* mutant: an action is offered whatever the status
AcceptsAny(kind, s) == s # Absent

\* What a kind of action is offered for, on a request seen in a status.
Accepts(kind, s) ==
    IF kind \in Approvals \cup {"reject"}
    THEN s = "waiting_approval"
    ELSE s \in {"failed", "rejected"}

Effect(kind) == IF kind = "reject" THEN "rejected" ELSE "pending"

\* The server checks the status before an approval or a rejection, which may
\* also come before an agent has begun, and puts back to work whatever a retry
\* names.
ServerAccepts(kind, s) ==
    IF kind \in Approvals THEN s = "waiting_approval"
    ELSE IF kind = "reject" THEN s \in {"waiting_approval", "pending"}
    ELSE s # Absent

\* What follows every change of the list or of the filters once the page is
\* drawn again: the selection and the page number stay within the list.
KeepsSelection == selected' = selected \cap FilteredRequests'

\* mutant: an empty list has no page at all
SettlesOnFilled(from) ==
    requestPage' = Min({from, (Cardinality(FilteredRequests') + requestPageSize - 1)
                                  \div requestPageSize})

SettlesPage(from) ==
    requestPage' = Min({from, TotalPages(Cardinality(FilteredRequests))'})

-----------------------------------------------------------------------------
Init ==
    /\ status \in Initial
    /\ shown = [r \in Request |-> Absent]
    /\ search = Request
    /\ statusFilter = All /\ typeFilter = All
    /\ requestPage = 1 /\ requestPageSize \in PageSizes
    /\ selected = {} /\ drawer = NoDrawer
    /\ loads = {status} /\ flows = {}
    /\ ui = 0 /\ steps = 0 /\ started = 0

Ui == ui < MaxUi /\ ui' = ui + 1

\* The agent, another operator or a new request.
ServerMoves(r) ==
    /\ steps < MaxServer /\ steps' = steps + 1
    /\ \E next \in Status :
          /\ <<status[r], next>> \in
                {<<Absent, "waiting_approval">>, <<"waiting_approval", "pending">>,
                 <<"waiting_approval", "rejected">>, <<"pending", "processing">>,
                 <<"processing", "completed">>, <<"processing", "failed">>,
                 <<"failed", "pending">>, <<"rejected", "pending">>}
          /\ status' = [status EXCEPT ![r] = next]
    /\ UNCHANGED <<shown, filters, requestPage, requestPageSize, selected, drawer,
                   loads, flows, ui, started>>

\* loadRequests: the live refresh and the reload button.
LoadRequests ==
    /\ Cardinality(loads) < MaxLoads
    /\ loads' = loads \cup {status} /\ loads' # loads
    /\ UNCHANGED <<status, shown, filters, requestPage, requestPageSize, selected,
                   drawer, flows, ui, steps, started>>

ListArrives(list) ==
    /\ loads' = loads \ {list}
    /\ shown' = list
    /\ UNCHANGED <<status, filters, requestPageSize, drawer, flows, ui,
                   steps, started>>
    /\ KeepsSelection /\ SettlesPage(requestPage)

\* Changing a filter also goes back to the first page.
SetFilters(text, oneStatus, oneType) ==
    /\ Ui
    /\ search' = text /\ statusFilter' = oneStatus /\ typeFilter' = oneType
    /\ filters' # filters
    /\ UNCHANGED <<status, shown, requestPageSize, drawer, loads, flows,
                   steps, started>>
    /\ KeepsSelection /\ SettlesPage(1)

SetPage(n) ==
    /\ Ui /\ requestPage' = n
    /\ UNCHANGED <<status, shown, filters, requestPageSize, selected, drawer, loads,
                   flows, steps, started>>

SetPageSize(size) ==
    /\ Ui /\ size # requestPageSize
    /\ requestPageSize' = size /\ requestPage' = 1
    /\ UNCHANGED <<status, shown, filters, selected, drawer, loads, flows,
                   steps, started>>

\* The rows of the page drawn: any set of rows the page number allows, since
\* the order of the list is the server's.
PageRows ==
    LET n == Cardinality(FilteredRequests) - (requestPage - 1) * requestPageSize
    IN  {rows \in SUBSET FilteredRequests :
            Cardinality(rows) = Max({0, Min({n, requestPageSize})})}

TogglePageSelection(rows) ==
    /\ Ui /\ rows # {}
    /\ selected' = IF rows \subseteq selected THEN selected \ rows ELSE selected \cup rows
    /\ UNCHANGED <<status, shown, filters, requestPage, requestPageSize, drawer, loads,
                   flows, steps, started>>

ToggleRequestSelection(r) ==
    /\ Ui
    /\ selected' = IF r \in selected THEN selected \ {r} ELSE selected \cup {r}
    /\ UNCHANGED <<status, shown, filters, requestPage, requestPageSize, drawer, loads,
                   flows, steps, started>>

ClearRequestSelection ==
    /\ Ui /\ selected # {} /\ selected' = {}
    /\ UNCHANGED <<status, shown, filters, requestPage, requestPageSize, drawer, loads,
                   flows, steps, started>>

OpenDrawer(r) ==
    /\ Ui
    /\ drawer' = [open |-> TRUE, request |-> r, status |-> shown[r]]
    /\ UNCHANGED <<status, shown, filters, requestPage, requestPageSize, selected, loads,
                   flows, steps, started>>

CloseDrawer ==
    /\ Ui /\ drawer.open /\ drawer' = NoDrawer
    /\ UNCHANGED <<status, shown, filters, requestPage, requestPageSize, selected, loads,
                   flows, steps, started>>

-----------------------------------------------------------------------------
(* Actions on requests.                                                    *)

Starts(kind, requests, seen) ==
    /\ started < MaxFlows /\ started' = started + 1
    /\ requests # {}
    /\ flows' = flows \cup
           {[n |-> started', kind |-> kind, todo |-> requests, done |-> {},
             seen |-> [r \in requests |-> seen[r]],
             among |-> IF kind \in {"approveSelected", "retrySelected"}
                       THEN selected ELSE Request]}
    /\ UNCHANGED <<status, shown, filters, requestPage, requestPageSize, selected,
                   drawer, loads, ui, steps>>

\* The buttons of a row and of the drawer; none is disabled while another
\* action runs, and the drawer's copy is not refreshed by what it asks.
ActOnRow(kind, r) == Accepts(kind, shown[r]) /\ Starts(kind, {r}, shown)

ActOnDrawer(kind) ==
    /\ drawer.open /\ Accepts(kind, drawer.status)
    /\ Starts(kind, {drawer.request}, [r \in {drawer.request} |-> drawer.status])

ActOnMany(kind) ==
    LET among == IF kind \in {"approveSelected", "retrySelected"} THEN SelectedRequests
                 ELSE FilteredRequests
    IN  Starts(kind, {r \in among : Accepts(kind, shown[r])}, shown)

\* One request is asked and answered; a lost answer counts as an error.
PostOne(flow, r, answered) ==
    LET accepted == ServerAccepts(flow.kind, status[r])
    IN  /\ answered => accepted
        /\ status' = IF accepted THEN [status EXCEPT ![r] = Effect(flow.kind)] ELSE status
        /\ flows' = (flows \ {flow}) \cup
               {[flow EXCEPT !.todo = @ \ {r},
                             !.done = IF answered THEN @ \cup {r} ELSE @]}
        /\ UNCHANGED <<shown, filters, requestPage, requestPageSize, selected, drawer,
                       loads, ui, steps, started>>

\* mutant: the whole selection is dropped
WholeSelection(flow) == selected

\* What is taken out of the selection at the end: what was answered.
Processed(flow) == IF flow.kind \in {"approveSelected", "retrySelected"} THEN flow.done ELSE {}

EndFlow(flow) ==
    /\ flow.todo = {}
    /\ flows' = flows \ {flow}
    /\ selected' = selected \ Processed(flow)
    /\ loads' = IF flow.kind \in Bulk \/ flow.done # {} THEN loads \cup {status} ELSE loads
    /\ UNCHANGED <<status, shown, filters, requestPage, requestPageSize, drawer,
                   ui, steps, started>>

Next ==
    \/ LoadRequests \/ (\E list \in loads : ListArrives(list))
    \/ \E r \in Request : ServerMoves(r)
    \/ \E text \in Searches, s \in StatusFilters, t \in Range(TypeOf) \cup {All} :
          SetFilters(text, s, t)
    \/ \E n \in {requestPage - 1, requestPage + 1} :
          n \in 1..TotalPages(Cardinality(FilteredRequests)) /\ SetPage(n)
    \/ \E size \in PageSizes : SetPageSize(size)
    \/ \E rows \in PageRows :
          \/ TogglePageSelection(rows)
          \/ \E r \in rows :
                \/ ToggleRequestSelection(r) \/ OpenDrawer(r)
                \/ \E kind \in {"approve", "reject", "retry"} : ActOnRow(kind, r)
    \/ ClearRequestSelection \/ CloseDrawer
    \/ \E kind \in {"approve", "reject", "retry"} : ActOnDrawer(kind)
    \/ \E kind \in Bulk : ActOnMany(kind)
    \/ \E flow \in flows :
          \/ \E r \in flow.todo, answered \in BOOLEAN : PostOne(flow, r, answered)
          \/ EndFlow(flow)

Spec == Init /\ [][Next]_vars

-----------------------------------------------------------------------------
(* Properties.                                                             *)

\* The selection never holds a request the filters hide and the page number
\* never points past the list, whichever order the lists arrive in; and every
\* action asked of the server is on a request the operator saw in a status
\* that offers it, and had selected when the action is on the selection.
ActionsAreOnWhatWasSeen ==
    /\ selected \subseteq FilteredRequests
    /\ requestPage <= TotalPages(Cardinality(FilteredRequests))
    /\ \A flow \in flows : \A r \in flow.todo :
          /\ r \in flow.among
          /\ flow.seen[r] \in IF Effect(flow.kind) = "rejected" \/ flow.kind \in Approvals
                             THEN {"waiting_approval"} ELSE {"failed", "rejected"}

\* A request leaves the selection without the operator only because the list
\* no longer shows it, or because an action on the selection succeeded on it:
\* the ones that failed stay selected to be tried again.
UnselectsOnlyDone ==
    \A r \in selected \ selected' :
        \/ ui' # ui
        \/ r \notin FilteredRequests'
        \/ \E flow \in flows \ flows' : r \in flow.done
FailuresStaySelected == [][UnselectsOnlyDone]_vars
=============================================================================
