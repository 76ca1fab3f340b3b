-------------------------------- MODULE Console --------------------------------
(***************************************************************************)
(* The components of the Active Directory console, side by side in one     *)
(* model: the initial state picks one of them, part, and only that one     *)
(* moves.  The components share nothing here (each page mounts its own     *)
(* hooks): where two of them have a variable of one name, it is the        *)
(* variable of the one that was picked, so that the states of this model   *)
(* are the states of the one, of the other, and so on, and never their     *)
(* product.                                                                *)
(***************************************************************************)
EXTENDS Naturals, FiniteSets

CONSTANTS
    Nothing,                                     \* no object, no call, no value
    Task, MaxVersion,                            \* of the explorer and of the pane
    Node, Covered, Special, MaxNavigations,      \* the explorer
    Viewer, Group, MaxReadings,                  \* the pane
    Target, Structural, Managed, Account,        \* the dialogs of one object
    Above, Parent, MaxJobs, MaxOpens, MaxFlips,
    Secured, MaxEvidence, MaxStages,             \* the permissions
    Copied, Unit, Container, Root, Barred, Foremost,       \* the creation
    Home, MaxCreations,
    Edited, Field, Detailed, Late, Manager, Text,          \* the properties form
    Blank, Directory, MaxSaves,
    Subject, Senior, Attribute, UserOnly, Draft, Refused,    \* the LDAP and HAB editors
    MaxSimulations,
    Guid, Position, LastKnown, MaxRestoreCalls             \* the deleted objects

VARIABLES
    part,                                        \* the component picked
    served, stored, flight, waiting, micro, revised,
    view, tree, requestId, late, promises,
    ids, shared, members, membersMode, membersLoading, descriptorLoading,
    invalidated, outcome,
    shown, modeAsked, options, optionsFor, moveOuLoading, verifying, preparing, checking,
    busy, cleared,
    reading, panel, registry, started,
    flag, ouFlag, loads, copies,
    update, answers, saves, known,
    ldap, hab, validations, typedOn, validated,
    loaded, chain, call,
    \* names of more than one component
    dir, task, cache, loading, selected, window, request, descriptor, mode, flips,
    dialog, running, opens, jobs, crossed, waits, typed, calls

Explorer == INSTANCE AdExplorer WITH NoTask <- Nothing, MaxCalls <- MaxNavigations
Pane == INSTANCE AdObjectPane WITH User <- Viewer, NoObject <- Nothing, NoTask <- Nothing,
                                   MaxCalls <- MaxReadings
Actions == INSTANCE AdObjectActions WITH Object <- Target, NoObject <- Nothing
Acl == INSTANCE AclDelegation WITH Object <- Secured, NoObject <- Nothing,
                                   MaxJobs <- MaxEvidence, MaxCalls <- MaxStages
Creation == INSTANCE AdCreation WITH User <- Copied, MaxOpens <- MaxCreations
Update == INSTANCE AdObjectUpdate WITH Object <- Edited, MaxCalls <- MaxSaves
Editors == INSTANCE AdSimulationEditors WITH Object <- Subject, User <- Senior, Text <- Draft,
                                             MaxCalls <- MaxSimulations
Panel == INSTANCE DeletedRestorePanel WITH Place <- Position, Home <- LastKnown,
                                           None <- Nothing, MaxCalls <- MaxRestoreCalls

ASSUME ConsoleConstants ==
    /\ Explorer!Scope /\ Pane!Kinds /\ Actions!Tree /\ Creation!Places
    /\ Update!Fields /\ Editors!Texts /\ Panel!Places

-----------------------------------------------------------------------------
explorerVars == <<served, stored, flight, waiting, micro, revised, view, tree, requestId,
                  late, promises>>
paneVars == <<ids, shared, members, membersMode, membersLoading, descriptorLoading,
              invalidated, outcome>>
actionsVars == <<shown, modeAsked, options, optionsFor, moveOuLoading, verifying,
                 preparing, checking, busy, cleared>>
aclVars == <<reading, panel, registry, started>>
creationVars == <<flag, ouFlag, loads, copies>>
updateVars == <<update, answers, saves, known>>
editorsVars == <<ldap, hab, validations, typedOn, validated>>
panelVars == <<loaded, chain, call>>
sharedVars == <<dir, task, cache, loading, selected, window, request, descriptor, mode,
                flips, dialog, running, opens, jobs, crossed, waits, typed, calls>>
vars == <<part, explorerVars, paneVars, actionsVars, aclVars, creationVars, updateVars,
          editorsVars, panelVars, sharedVars>>

\* The variables of the other components hold an empty set for ever.
OthersEmpty ==
    /\ part # "explorer" =>
          /\ served = {} /\ stored = {} /\ flight = {} /\ waiting = {} /\ micro = {}
          /\ revised = {} /\ view = {} /\ tree = {} /\ requestId = {} /\ late = {}
          /\ promises = {}
    /\ part # "pane" =>
          /\ ids = {} /\ shared = {} /\ members = {} /\ membersMode = {}
          /\ membersLoading = {} /\ descriptorLoading = {} /\ invalidated = {}
          /\ outcome = {}
    /\ part # "actions" =>
          /\ shown = {} /\ modeAsked = {} /\ options = {} /\ optionsFor = {}
          /\ moveOuLoading = {} /\ verifying = {} /\ preparing = {} /\ checking = {}
          /\ busy = {} /\ cleared = {}
    /\ part # "acl" => reading = {} /\ panel = {} /\ registry = {} /\ started = {}
    /\ part # "creation" => flag = {} /\ ouFlag = {} /\ loads = {} /\ copies = {}
    /\ part # "update" => update = {} /\ answers = {} /\ saves = {} /\ known = {}
    /\ part # "editors" =>
          ldap = {} /\ hab = {} /\ validations = {} /\ typedOn = {} /\ validated = {}
    /\ part # "panel" => loaded = {} /\ chain = {} /\ call = {}
    /\ part \notin {"explorer", "pane"} => dir = {} /\ task = {} /\ cache = {}
    /\ part \notin {"explorer", "update"} => loading = {}
    /\ part \notin {"explorer", "pane", "acl", "panel"} => selected = {}
    /\ part \notin {"pane", "update", "editors"} => window = {}
    /\ part \notin {"pane", "creation"} => request = {}
    /\ part \notin {"pane", "acl"} => descriptor = {}
    /\ part \notin {"actions", "acl", "creation", "editors"} => mode = {}
    /\ part \notin {"actions", "acl"} => flips = {}
    /\ part \notin {"actions", "creation"} => dialog = {} /\ running = {} /\ opens = {}
    /\ part \notin {"actions", "acl", "editors"} => jobs = {}
    /\ part \notin {"acl", "creation", "update"} => crossed = {}
    /\ part \notin {"acl", "update", "editors"} => waits = {}
    /\ part \notin {"update", "panel"} => typed = {}
    /\ part \in {"actions", "creation"} => calls = {}

OthersUnchanged ==
    /\ part # "explorer" => UNCHANGED explorerVars
    /\ part # "pane" => UNCHANGED paneVars
    /\ part # "actions" => UNCHANGED actionsVars
    /\ part # "acl" => UNCHANGED aclVars
    /\ part # "creation" => UNCHANGED creationVars
    /\ part # "update" => UNCHANGED updateVars
    /\ part # "editors" => UNCHANGED editorsVars
    /\ part # "panel" => UNCHANGED panelVars
    /\ part \notin {"explorer", "pane"} => UNCHANGED <<dir, task, cache>>
    /\ part \notin {"explorer", "update"} => UNCHANGED loading
    /\ part \notin {"explorer", "pane", "acl", "panel"} => UNCHANGED selected
    /\ part \notin {"pane", "update", "editors"} => UNCHANGED window
    /\ part \notin {"pane", "creation"} => UNCHANGED request
    /\ part \notin {"pane", "acl"} => UNCHANGED descriptor
    /\ part \notin {"actions", "acl", "creation", "editors"} => UNCHANGED mode
    /\ part \notin {"actions", "acl"} => UNCHANGED flips
    /\ part \notin {"actions", "creation"} => UNCHANGED <<dialog, running, opens>>
    /\ part \notin {"actions", "acl", "editors"} => UNCHANGED jobs
    /\ part \notin {"acl", "creation", "update"} => UNCHANGED crossed
    /\ part \notin {"acl", "update", "editors"} => UNCHANGED waits
    /\ part \notin {"update", "panel"} => UNCHANGED typed
    /\ part \in {"actions", "creation"} => UNCHANGED calls

Init ==
    /\ \/ part = "explorer" /\ Explorer!Init
       \/ part = "pane" /\ Pane!Init
       \/ part = "actions" /\ Actions!Init
       \/ part = "acl" /\ Acl!Init
       \/ part = "creation" /\ Creation!Init
       \/ part = "update" /\ Update!Init
       \/ part = "editors" /\ Editors!Init
       \/ part = "panel" /\ Panel!Init
    /\ OthersEmpty

Next ==
    /\ \/ part = "explorer" /\ Explorer!Next
       \/ part = "pane" /\ Pane!Next
       \/ part = "actions" /\ Actions!Next
       \/ part = "acl" /\ Acl!Next
       \/ part = "creation" /\ Creation!Next
       \/ part = "update" /\ Update!Next
       \/ part = "editors" /\ Editors!Next
       \/ part = "panel" /\ Panel!Next
    /\ UNCHANGED part /\ OthersUnchanged

Spec == Init /\ [][Next]_vars

-----------------------------------------------------------------------------
\* Among navigations the last one wins: what AdExplorerPage shows late never
\* takes the place of what a later navigation shows.
NavigationsWinInOrder == [][part = "explorer" => Explorer!ShowsInOrder]_vars

\* The page never says that it loads with nothing under way, a refresh after a
\* write shows the write, and the promises the page holds are those that were
\* handed out by the snapshot.
CallsAreServed ==
    part = "explorer" => /\ Explorer!TypeOK /\ Explorer!LoadingMeansBusy
                         /\ Explorer!ForcedReadsAfterCall
                         /\ Explorer!PromisesAreAwaited

\* Whatever answers late, the pane and the properties window show one object:
\* the one selected, with its own details, and calls for it share their answer.
PaneIsOneObject ==
    part = "pane" => Pane!PaneKeepsItsObject /\ Pane!DetailsAreShared

\* A job that changes the directory is the one its dialog showed when it was
\* confirmed, the object, the destination and the mode, and a second click
\* confirms nothing; what is created has the profile that was asked for, in the
\* place that was asked for or where its own list of places moved the form; what
\* the properties form sends is what was typed in it.
JobsAreWhatWasShown ==
    /\ part = "actions" => Actions!JobsAreWhatWasConfirmed /\ Actions!NoSecondSubmission
    /\ part = "creation" => Creation!CreatedAsAsked
    /\ part = "update" => Update!EditsAreWhatIsSent

\* What is applied after a simulation is what was simulated and shown, and a
\* simulation serves once: the permissions confirmed, the values of the LDAP
\* and HAB editors, and the chain of a restoration.
SimulatedAsShown ==
    /\ part = "acl" => Acl!ConfirmedAsShown /\ Acl!EvidenceIsSpentOnce
    /\ part = "editors" => Editors!SimulationsAreAsShown
    /\ part = "panel" => Panel!ChainIsOne
=============================================================================
