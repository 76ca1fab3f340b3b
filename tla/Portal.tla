-------------------------------- MODULE Portal --------------------------------
(***************************************************************************)
(* The components of the employee portal, what the server keeps of its     *)
(* workers, and what the agent does to an account, side by side in one     *)
(* model, as Console does for the console: one component is picked at the  *)
(* start and only that one moves.  The components share nothing: where two *)
(* of them have a variable of one name, it is the variable of the one that *)
(* was picked, so that the states of this model are the states of the one, *)
(* of the other, and so on, and never their product.                       *)
(***************************************************************************)
EXTENDS Integers, FiniteSets

CONSTANTS
    Files, Catalogues, Department, Job, Person,     \* the import
    MaxEdits, MaxImports, MaxApprovals,
    Request, TypeOf, Searches, StatusFilters,       \* the list of requests
    Initial, PageSizes, MaxUi, MaxServer, MaxFlows, MaxLoads,
    Group, CommonGroups, InitialTemplates,          \* the templates
    MaxTemplateEdits, MaxSaves,
    Employee, HasDepartment, MaxPolls,              \* the forms
    MaxFormUi, MaxFormFlows,
    Page, Interval, Default, MaxPosts,              \* the controls of the agent
    Grants, MaxGrants, MaxMoves, MaxCalls, MaxFollowed,     \* the session
    Worker, StaleAfter, MaxHeartbeats, MaxTime,     \* the workers
    Agent, Demand, Asked, Ours, Nowhere,            \* the handlers of the agent
    MaxHandlers, MaxOthers

VARIABLES
    part,                                           \* the component picked
    text, records, mapping, rows, importing, report, approving, posted, clicks, asks,
    status, search, statusFilter, typeFilter, requestPage, requestPageSize,
    selected, drawer, steps,
    handlers, service, post, form, saves,
    forms, panels, jobs, onboarding,
    agentConfig, modeControl, choices, pauseAsked, posts,
    granted, token, identity, refused, overlays, grants, moves, made,
    now, reported, heard, disturbed,
    account, run, begun, others, strayed, parked,
    \* names of more than one component
    templates, server, shown, flows, edits, loads, ui, started, file, page, calls

Csv == INSTANCE CsvImport
Requests == INSTANCE PortalRequests
Templates == INSTANCE PortalTemplates WITH MaxEdits <- MaxTemplateEdits
Forms == INSTANCE PortalForms WITH Account <- Employee, MaxUi <- MaxFormUi,
                                   MaxFlows <- MaxFormFlows
Controls == INSTANCE AgentControls
Session == INSTANCE PortalSession
Workers == INSTANCE WorkerStatus WITH MaxCalls <- MaxHeartbeats
Handlers == INSTANCE AccountHandlers_proofs WITH Request <- Demand

ASSUME PortalConstants ==
    /\ Csv!CsvAssumption /\ Requests!RequestsAssumption /\ Templates!TemplatesAssumption
    /\ Forms!FormsAssumption /\ Controls!ControlsAssumption /\ Workers!WorkersAssumption
    /\ Handlers!Payloads

-----------------------------------------------------------------------------
csvVars == <<text, records, mapping, rows, importing, report, approving, posted, clicks,
             asks>>
requestsVars == <<status, search, statusFilter, typeFilter, requestPage, requestPageSize,
                  selected, drawer, steps>>
templatesVars == <<handlers, service, post, form, saves>>
formsVars == <<forms, panels, jobs, onboarding>>
controlsVars == <<agentConfig, modeControl, choices, pauseAsked, posts>>
sessionVars == <<granted, token, identity, refused, overlays, grants, moves, made>>
workersVars == <<now, reported, heard, disturbed>>
handlersVars == <<account, run, begun, others, strayed, parked>>
sharedVars == <<templates, server, shown, flows, edits, loads, ui, started, file, page,
                calls>>
vars == <<part, csvVars, requestsVars, templatesVars, formsVars, controlsVars, sessionVars,
          workersVars, handlersVars, sharedVars>>

\* The variables of the other components hold an empty set for ever.
OthersEmpty ==
    /\ part # "csv" =>
          /\ text = {} /\ records = {} /\ mapping = {} /\ rows = {} /\ importing = {}
          /\ report = {} /\ approving = {} /\ posted = {} /\ clicks = {} /\ asks = {}
    /\ part # "requests" =>
          /\ status = {} /\ search = {} /\ statusFilter = {} /\ typeFilter = {}
          /\ requestPage = {} /\ requestPageSize = {} /\ selected = {} /\ drawer = {}
          /\ steps = {}
    /\ part # "templates" =>
          /\ handlers = {} /\ service = {} /\ post = {} /\ form = {} /\ saves = {}
    /\ part # "forms" => forms = {} /\ panels = {} /\ jobs = {} /\ onboarding = {}
    /\ part # "controls" =>
          /\ agentConfig = {} /\ modeControl = {} /\ choices = {} /\ pauseAsked = {}
          /\ posts = {}
    /\ part # "session" =>
          /\ granted = {} /\ token = {} /\ identity = {} /\ refused = {} /\ overlays = {}
          /\ grants = {} /\ moves = {} /\ made = {}
    /\ part # "workers" => now = {} /\ reported = {} /\ heard = {} /\ disturbed = {}
    /\ part # "handlers" =>
          /\ account = {} /\ run = {} /\ begun = {} /\ others = {} /\ strayed = {}
          /\ parked = {}
    /\ part \notin {"csv", "templates"} => templates = {} /\ edits = {}
    /\ part \notin {"csv", "forms"} => server = {}
    /\ part \notin {"csv", "requests", "forms"} => shown = {} /\ flows = {}
    /\ part \notin {"requests", "templates", "controls"} => loads = {}
    /\ part \notin {"requests", "forms"} => ui = {} /\ started = {}
    /\ part \notin {"templates", "controls", "workers"} => file = {}
    /\ part \notin {"forms", "session"} => page = {}
    /\ part \notin {"controls", "session", "workers"} => calls = {}

OthersUnchanged ==
    /\ part # "csv" => UNCHANGED csvVars
    /\ part # "requests" => UNCHANGED requestsVars
    /\ part # "templates" => UNCHANGED templatesVars
    /\ part # "forms" => UNCHANGED formsVars
    /\ part # "controls" => UNCHANGED controlsVars
    /\ part # "session" => UNCHANGED sessionVars
    /\ part # "workers" => UNCHANGED workersVars
    /\ part # "handlers" => UNCHANGED handlersVars
    /\ part \notin {"csv", "templates"} => UNCHANGED <<templates, edits>>
    /\ part \notin {"csv", "forms"} => UNCHANGED server
    /\ part \notin {"csv", "requests", "forms"} => UNCHANGED <<shown, flows>>
    /\ part \notin {"requests", "templates", "controls"} => UNCHANGED loads
    /\ part \notin {"requests", "forms"} => UNCHANGED <<ui, started>>
    /\ part \notin {"templates", "controls", "workers"} => UNCHANGED file
    /\ part \notin {"forms", "session"} => UNCHANGED page
    /\ part \notin {"controls", "session", "workers"} => UNCHANGED calls

Init ==
    /\ \/ part = "csv" /\ Csv!Init
       \/ part = "requests" /\ Requests!Init
       \/ part = "templates" /\ Templates!Init
       \/ part = "forms" /\ Forms!Init
       \/ part = "controls" /\ Controls!Init
       \/ part = "session" /\ Session!Init
       \/ part = "workers" /\ Workers!Init
       \/ part = "handlers" /\ Handlers!Init
    /\ OthersEmpty

Next ==
    /\ \/ part = "csv" /\ Csv!Next
       \/ part = "requests" /\ Requests!Next
       \/ part = "templates" /\ Templates!Next
       \/ part = "forms" /\ Forms!Next
       \/ part = "controls" /\ Controls!Next
       \/ part = "session" /\ Session!Next
       \/ part = "workers" /\ Workers!Next
       \/ part = "handlers" /\ Handlers!Next
    /\ UNCHANGED part /\ OthersUnchanged

Spec == Init /\ [][Next]_vars

-----------------------------------------------------------------------------
\* The types of the components.
TypeOK ==
    /\ part = "csv" => Csv!TypeOK
    /\ part = "requests" => Requests!TypeOK
    /\ part = "templates" => Templates!TypeOK
    /\ part = "forms" => Forms!TypeOK
    /\ part = "controls" => Controls!TypeOK
    /\ part = "session" => Session!TypeOK
    /\ part = "workers" => Workers!TypeOK
    /\ part = "handlers" => Handlers!TypeOK

\* What is done to requests is what the page showed when it was asked for: the
\* rows imported are those shown and valid, and a request is approved,
\* rejected or retried only for a status in which it was seen.
ActedOnWhatWasSeen ==
    /\ part = "csv" => Csv!ImportsAreAsShown
    /\ part = "requests" => Requests!ActionsAreOnWhatWasSeen

\* After an action on many requests, those that failed stay selected.
FailuresStaySelected == [][part = "requests" => Requests!UnselectsOnlyDone]_vars

\* A form is about one thing: a service and a post that the templates have
\* together, and one person's account.
FormsAreConsistent ==
    /\ part = "templates" => Templates!FormsFitTheTemplates
    /\ part = "forms" => Forms!FormsNameOnePerson

\* The agent works in Production only because an operator chose it, whatever
\* the configuration and the mode routes do to their common file; and what it
\* then does to an account is what was asked: a success that nothing disturbed
\* has made it so, whatever failed before it, a departed account is disabled,
\* and an account that leaves the perimeter under a handler is left alone,
\* but for the groups of a modification.
AgentDoesAsAsked ==
    /\ part = "controls" => Controls!ProductionIsAsked
    /\ part = "handlers" => /\ Handlers!SuccessIsAsAsked
                            /\ Handlers!StaysInPerimeter
                            /\ Handlers!ParkedIsDisabled

\* The server refuses a call of the portal only for a role withdrawn meanwhile,
\* but for the calls that are made without a look at the roles: the audit log
\* after a bulk decision or a change of the agent, the lookups of the forms, and
\* the panels that stayed open.
RefusedIsWithdrawn == part = "session" => Session!RefusedIsWithdrawn

\* Whatever heartbeats are lost to overlapping saves, no silent or failing
\* worker is listed as healthy; and without an overlap each is listed as it is.
WorkersAreAsListed ==
    part = "workers" => Workers!HealthyIsAlive /\ Workers!SerialListingsAreRight
=============================================================================
