----------------------------- MODULE PortalSession -----------------------------
(***************************************************************************)
(* The roles of the operator as the portal and the server see them.  The   *)
(* portal reads them from the token once, when it starts or when the       *)
(* session is renewed by hand (auth/keycloak.js, App.jsx refreshSession);  *)
(* they decide the page that is shown, the calls it makes on its own and   *)
(* those it offers (auth/rbac.js).  The server reads them from the token   *)
(* of each call (require_roles in src/api/main.py), and the token is       *)
(* renewed without the portal looking at it.  What an operator starts may  *)
(* be several calls, one after the other: the last ones are made whatever  *)
(* became of the roles meanwhile, and some of them whatever the roles are. *)
(***************************************************************************)
EXTENDS Integers, FiniteSets

CONSTANTS
    Grants,                     \* the sets of roles an administrator may grant
    MaxGrants, MaxMoves,        \* bounds of the instance
    MaxCalls,                   \* the same, on what is started outside of a panel
    MaxFollowed                 \* the same, on the calls made together that are followed

PortalRead == {"Viewer", "Operator", "ADAdmin", "SecurityAdmin", "Auditor", "UltraAdmin"}
Operator == {"Operator", "UltraAdmin"}
ActiveDirectory == {"ADAdmin", "UltraAdmin"}
Security == {"SecurityAdmin", "UltraAdmin"}
Audit == {"Auditor", "UltraAdmin"}

PageRoles ==
    [overview |-> PortalRead, requests |-> PortalRead, newRequest |-> Operator,
     csvImport |-> Operator, offboarding |-> Operator, modification |-> Operator,
     templates |-> Security, agentOps |-> Security, agentMode |-> Security,
     workers |-> Security, adChecks |-> ActiveDirectory, adExplorer |-> ActiveDirectory,
     audit |-> Audit]
Pages == DOMAIN PageRoles \cup {"settings"}

Has(roles, expected) == roles \cap expected # {}
CanAccess(page, roles) == page = "settings" \/ Has(roles, PageRoles[page])

DefaultPage(roles, preferred) ==
    IF CanAccess(preferred, roles) THEN preferred
    ELSE IF CanAccess("overview", roles) THEN "overview" ELSE "settings"

\* The roles each route asks for; one of them is enough, none when the set is
\* that of every role and the route asks for a token only.
RouteRoles ==
    [getTemplates |-> PortalRead, getRequests |-> PortalRead,
     getMode |-> ActiveDirectory \cup Security, getStatus |-> Security,
     getConfig |-> Security, getWorkers |-> Security, getChecks |-> ActiveDirectory,
     getAudit |-> Audit, getCheck |-> ActiveDirectory, getLookup |-> ActiveDirectory,
     postRequest |-> Operator, approve |-> Operator, reject |-> Operator,
     retry |-> Operator, saveTemplate |-> Security, setConfig |-> Security,
     setMode |-> Security, postCheck |-> ActiveDirectory,
     postLookup |-> ActiveDirectory, explore |-> ActiveDirectory]

VARIABLES
    granted,        \* the roles the identity service would put in a token now
    token,          \* the roles of the token
    identity,       \* authIdentity.roles
    page,           \* the page shown, which the browser keeps (eitas_last_page)
    calls,          \* calls on their way: what for, the route, the roles it was made by
    refused,        \* the call the server has just refused, with the roles of its token
    overlays,       \* the panels of a lookup or a check, by the route that refreshes them
    grants, moves, made     \* bounds

vars == <<granted, token, identity, page, calls, refused, overlays, grants, moves, made>>

TypeOK ==
    /\ {granted, token, identity} \subseteq Grants
    /\ page \in Pages
    /\ {c.route : c \in calls \cup refused} \subseteq DOMAIN RouteRoles
    /\ overlays \subseteq {"getLookup", "getCheck"}

If(condition, routes) == IF condition THEN routes ELSE {}

\* When the portal starts and when a right comes or goes, and "refresh all".
MountCalls(roles) ==
    If(Has(roles, PortalRead), {"getTemplates", "getRequests"})
    \cup If(Has(roles, Security), {"getMode", "getStatus", "getConfig", "getWorkers"})
    \cup If(Has(roles, ActiveDirectory), {"getChecks"})
    \cup If(Has(roles, Audit), {"getAudit"})

\* mutant: the overview shows the workers to everyone who reads the portal
PageCallsOfOverview(p, roles) ==
    If(p \in {"overview", "workers"}, {"getWorkers"})
    \cup If(p = "agentOps" /\ Has(roles, Security), {"getStatus", "getConfig"})

\* When a page is shown, and every five seconds while it stays.
PageCalls(p, roles) ==
    If(p \in {"overview", "workers"} /\ Has(roles, Security), {"getWorkers"})
    \cup If(p = "agentOps" /\ Has(roles, Security),
            {"getStatus", "getConfig"} \cup If(Has(roles, Audit), {"getAudit"}))
    \cup If(p = "agentMode" /\ Has(roles, Security), {"getMode"})
    \cup If(p = "audit" /\ Has(roles, Audit), {"getAudit"})
    \cup If(p = "adChecks" /\ Has(roles, ActiveDirectory), {"getChecks"})
    \cup If(/\ Has(roles, PortalRead)
            /\ p \in {"templates", "newRequest", "csvImport", "offboarding", "modification"},
            {"getTemplates"})
    \cup If(p = "adExplorer" /\ Has(roles, ActiveDirectory), {"explore", "getMode"})

\* One operation for each of the routes.
Ask(for, routes) == {[for |-> for, route |-> r] : r \in routes}

\* A lookup is asked by a form, and leads back to it.
Lookups == {"offboarding", "modification"}

\* The calls nothing follows: those of a page, of the live refresh, of "refresh
\* all" and of the buttons that read again.
Loads(p, roles) == Ask("load", MountCalls(roles) \cup PageCalls(p, roles))

\* What the page offers, and the drawer of a request and the panels, which stay
\* open over any page.
Offered(p, roles) ==
    If(p \in {"newRequest", "offboarding", "modification"}, Ask("create", {"postRequest"}))
    \cup If(p \in Lookups, Ask(p, {"postLookup"}))
    \cup If(p = "csvImport",
            Ask("import", {"postRequest"}) \cup Ask("approveImported", {"approve"}))
    \cup If(Has(roles, Operator), Ask("decide", {"approve", "reject", "retry"}))
    \cup If(Has(roles, Audit), Ask("openAudit", {"getAudit"}))
    \cup If(p = "requests" /\ Has(roles, Operator), Ask("bulk", {"approve", "retry"}))
    \cup If(p = "requests" /\ Has(roles, ActiveDirectory), Ask("check", {"postCheck"}))
    \cup If(p = "templates", Ask("template", {"saveTemplate"}))
    \cup If(p = "agentOps", Ask("interval", {"setConfig"}) \cup Ask("pause", {"setConfig"})
                            \cup Ask("history", {"getAudit"}))
    \cup If(p = "agentMode", Ask("mode", {"setMode"}))
    \cup If(p = "adChecks", Ask("panel", {"getCheck"}))
    \cup If(p = "adExplorer", Ask("load", {"explore"}))
    \cup Ask("panel", overlays)

Made(asked, roles) == {[for |-> a.for, route |-> a.route, by |-> roles] : a \in asked}

\* The calls made together do not depend on each other.
Followed(asked) == {sent \in SUBSET asked : Cardinality(sent) <= MaxFollowed}
Sends(kept, asked) ==
    \E sent \in Followed(asked) : calls' = kept \cup Made(sent, identity')

\* The effects of a new page or of new roles: a page that is not allowed gives
\* way to the default one.
Settles(wanted) ==
    page' = IF CanAccess(wanted, identity') THEN wanted
            ELSE DefaultPage(identity', "overview")

\* setPage: a page that was not shown makes its calls.
Shows(wanted) ==
    IF wanted = page THEN UNCHANGED page ELSE Settles(wanted)
ShownCalls(wanted) == If(wanted # page, Ask("load", PageCalls(page', identity')))

\* One of the rights the portal keeps came or went.
RightsChange == \E right \in {PortalRead, Security, ActiveDirectory, Audit} :
                    Has(identity, right) # Has(identity', right)

\* What may follow a call of an operation: its next calls, together, the page the
\* portal shows then, and whether that is for a lookup that found its account.
Then(routes) == [routes |-> routes, page |-> page, found |-> FALSE]
FollowUps(c) ==
    CASE c.for = "create" /\ c.route = "postRequest" ->
            {[Then({"getRequests"}) EXCEPT !.page = "requests"]}
      [] c.for \in {"import", "bulk", "approveImported"} /\ c.route # "getRequests"
                                                      /\ c.route # "getAudit" ->
            {Then({c.route}), Then({"getRequests"})}
      [] c.for = "decide" /\ c.route # "getRequests" -> {Then({"getRequests"})}
      [] c.for = "bulk" /\ c.route = "getRequests" -> {Then({"getAudit"})}
      [] c.for = "openAudit" -> {[Then({}) EXCEPT !.page = "audit"]}
      [] c.for = "template" /\ c.route = "saveTemplate" -> {Then({"getTemplates"})}
      [] c.for = "interval" /\ c.route = "setConfig" -> {Then({"getAudit"})}
      [] c.for = "pause" /\ c.route = "setConfig" -> {Then({"getStatus"})}
      [] c.for = "pause" /\ c.route = "getStatus" -> {Then({"getAudit"})}
      [] c.for = "mode" /\ c.route = "setMode" -> {Then({"getStatus", "getWorkers"})}
      [] c.for = "check" /\ c.route = "postCheck" -> {Then({"getCheck"})}
      [] c.for = "check" /\ c.route = "getCheck" -> {Then({"getCheck"}), Then({"getChecks"})}
      [] c.for \in Lookups /\ c.route = "postLookup" -> {Then({"getLookup"})}
      [] c.for \in Lookups /\ c.route = "getLookup" ->
            {Then({"getLookup"}), Then({}), [routes |-> {}, page |-> c.for, found |-> TRUE]}
      [] OTHER -> {Then({})}

\* The operations go on when one of these fails: the readings report their errors
\* themselves, and a decision or a line of several is counted as an error.
Catches(c) ==
    \/ c.for \in {"import", "bulk", "approveImported"}
    \/ c.route \in {"getRequests", "getStatus", "getAudit"}

-----------------------------------------------------------------------------
Init ==
    /\ granted \in Grants /\ token = granted /\ identity = granted
    /\ \E last \in Pages : page = DefaultPage(granted, last)
    /\ \E sent \in Followed(Loads(page, granted)) : calls = Made(sent, granted)
    /\ refused = {} /\ overlays = {} /\ grants = 0 /\ moves = 0 /\ made = 0

\* An administrator changes the roles.
Grant(roles) ==
    /\ grants < MaxGrants /\ grants' = grants + 1
    /\ roles # granted /\ granted' = roles
    /\ refused' = {}
    /\ UNCHANGED <<token, identity, page, calls, overlays, moves, made>>

\* onTokenExpired, or a call within thirty seconds of the end of the token.
UpdateToken ==
    /\ token # granted /\ token' = granted
    /\ refused' = {}
    /\ UNCHANGED <<granted, identity, page, calls, overlays, grants, moves, made>>

\* refreshSession: the roles that are shown follow the new token.  With the roles
\* they were it makes the calls of the page again, as the live refresh does.
RefreshSession ==
    /\ identity # granted
    /\ token' = granted /\ identity' = granted
    /\ Settles(page)
    /\ Sends(calls, Ask("load", If(RightsChange, MountCalls(identity'))
                                   \cup PageCalls(page', identity')))
    /\ refused' = {}
    /\ UNCHANGED <<granted, overlays, grants, moves, made>>

\* The page is loaded again, with a token of its own.
Reload ==
    /\ moves < MaxMoves /\ moves' = moves + 1
    /\ token' = granted /\ identity' = granted
    /\ page' = DefaultPage(granted, page)
    /\ Sends({}, Loads(page', granted)) /\ overlays' = {}
    /\ refused' = {}
    /\ UNCHANGED <<granted, grants, made>>

\* The menu, and the links between the pages.
SetPage(p) ==
    /\ moves < MaxMoves /\ moves' = moves + 1
    /\ p # page /\ UNCHANGED identity
    /\ Settles(p)
    /\ Sends(calls, ShownCalls(p))
    /\ refused' = {}
    /\ UNCHANGED <<granted, token, overlays, grants, made>>

\* The live refresh, or a button.  A new lookup or check empties its panel until
\* its job is created; the list of checks opens one in it.
Call(a) ==
    /\ IF a.for = "panel" THEN UNCHANGED made ELSE made < MaxCalls /\ made' = made + 1
    /\ UNCHANGED identity
    /\ calls' = calls \cup Made({a}, identity)
    /\ overlays' = (overlays \ (If(a.for \in Lookups, {"getLookup"})
                           \cup If(a.for = "check", {"getCheck"})))
                 \cup If(a.for = "panel", {a.route})
    /\ refused' = {}
    /\ UNCHANGED <<granted, token, page, grants, moves>>

\* applyAdLookupResultToForm, and the button that closes a panel.
UseResult(p) ==
    /\ "getLookup" \in overlays /\ overlays' = overlays \ {"getLookup"}
    /\ UNCHANGED identity
    /\ Shows(p) /\ Sends(calls, ShownCalls(p))
    /\ refused' = {}
    /\ UNCHANGED <<granted, token, grants, moves, made>>
ClosePanel(panel) ==
    /\ panel \in overlays /\ overlays' = overlays \ {panel}
    /\ refused' = {}
    /\ UNCHANGED <<granted, token, identity, page, calls, grants, moves, made>>

\* apiFetch: the call goes with the token, renewed first when it is about to
\* end or when the server no longer takes it, and then only once.
Sent(c) ==
    /\ token' \in {token, granted}
    /\ refused' = IF Has(token', RouteRoles[c.route]) THEN {}
                  ELSE {[for |-> c.for, route |-> c.route, by |-> c.by, token |-> token']}
    /\ UNCHANGED <<granted, identity, grants, moves, made>>

\* The call that succeeds, or whose failure is caught, is followed by the next of
\* its operation.  A panel opens with the job created, and again with each
\* reading of it, until a result that was found is given to its form.
Answer(c) ==
    /\ Sent(c)
    /\ \E next \in FollowUps(c), ok \in BOOLEAN :
        /\ ok => Has(token', RouteRoles[c.route])
        /\ ok \/ Catches(c)
        /\ Shows(next.page)
        /\ Sends((calls \ {c}) \cup Made(Ask(c.for, next.routes), c.by),
                 ShownCalls(next.page))
        /\ overlays' = IF ~ok THEN overlays
                     ELSE IF next.found THEN overlays \ {"getLookup"}
                     ELSE overlays
                          \cup If(c.route \in {"postLookup", "getLookup"}, {"getLookup"})
                          \cup If(c.route \in {"postCheck", "getCheck"}, {"getCheck"})

\* The call that fails is the last of its operation.
Fails(c) ==
    /\ Sent(c) /\ ~Catches(c)
    /\ calls' = calls \ {c}
    /\ UNCHANGED <<page, overlays>>

Next ==
    \/ \E roles \in Grants : Grant(roles)
    \/ UpdateToken \/ RefreshSession \/ Reload
    \/ \E p \in Pages : SetPage(p)
    \/ \E a \in Loads(page, identity) \cup Offered(page, identity) : Call(a)
    \/ \E p \in Lookups : UseResult(p)
    \/ \E panel \in overlays : ClosePanel(panel)
    \/ \E c \in calls : Answer(c) \/ Fails(c)

Spec == Init /\ [][Next]_vars

-----------------------------------------------------------------------------
\* The calls that are made without a look at the right to them.
Unguarded(c) ==
    \/ c.for \in {"bulk", "interval", "pause", "history"} /\ c.route = "getAudit"
    \/ c.for \in Lookups /\ c.route \in {"postLookup", "getLookup"}
    \/ c.for = "panel"

\* The server refuses a call of the portal only because a role that allowed it
\* was withdrawn after the portal read the roles, with three exceptions: the
\* audit log read after a decision on several requests, after a change of the
\* agent's interval or pause and by the button of its history; the lookup the
\* forms offer to operators; and the button of a panel that stayed open.  All
\* the other calls, those the pages make on their own and the later calls of an
\* operation among them, agree with the roles of the routes.
RefusedIsWithdrawn ==
    \A c \in refused :
        Unguarded(c) \/ \E role \in RouteRoles[c.route] : role \in c.by \ c.token
=============================================================================
