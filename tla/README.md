# TLA+ for EITAS, the enterprise IT automation suite

EITAS is a FastAPI service (`src/api`), a set of PowerShell workers beside the
domain controller (`src/agent-windows`), a React portal (`src/frontend`) and a
Keycloak distribution (`src/eitas-identity`). The service never touches Active
Directory: it keeps requests, jobs and registries in JSON files, and the workers
poll it, claim what is pending, change the directory and report. The portal
shows what the service knows and posts what the operator decides.

What is hard sits between these parts. On the server, FastAPI runs the
synchronous routes on a thread pool, the files have different locking
disciplines (none, a merge on save, a flock), and a worker may crash or lose an
answer at any point. In the portal, everything awaits: an answer comes after the
user has selected another object, closed the dialog or clicked again, and only
some of the awaits compare what they were asked for with what is on show now.

## Inventory

### Server and workers

| Component | State | Operations | Hard | Module |
|---|---|---|---|---|
| Restore execution transport (`services/ad_deleted_object_restore_execution_transport.py`) | registry file of at most 256 records under a flock | queue, pending, claim, result | clock and mode read before the lock, repeated calls, lost answers | `RestoreTransport` |
| Restore execution worker (`EitasAdAdmin.ps1`) | position in its loop, result it built | poll, claim, verify, `Restore-ADObject`, post-check, report | crash between write and report, failure after the write, mode read once | `RestoreTransport` |
| Restore authorization chain (the services `..._ticket_challenge` to `..._execution_consumption`) | five registries, three flocks | challenge, human authorization, post-authorization | two operators, restart between two registries, a clock reading per service | `RestoreAuthorization` |
| Restore simulation and preflight | simulation jobs, live revalidations | prepare, revalidate | freshness of evidence | `RestoreAuthorization` (its evidence only) |
| Employee lifecycle requests (`main.py`, `agent_runtime.py`, `Invoke-EmployeeLifecycleAgent.ps1`) | `requests.json`, unlocked | create, approve, reject, retry, reset, pending, claim, result; the agent's loop | lost updates, double claim, partial provisioning | `LifecycleRequests` |
| The agent's handlers of departures and modifications (the same script) | what a handler read of the account, the groups it has yet to do | read, groups, disable, describe, attributes, enable, move | the account moved or changed under a handler, a cmdlet that fails half way, a retry | `AccountHandlers` |
| AD jobs (`ad_admin.py`, `ad_jobs.py`, `ad_explorer.py` and their workers) | one jobs file each, merged on save | create, list, claim, result; the workers' loops | stale saves, double claim, false failures | `AdJobs` |
| JSON storage (`core/storage.py`) | the files | load, save with merge | a lock per load and per save, none around both | in `LifecycleRequests`, `AdJobs` |
| Agent configuration and mode (`agent_runtime.py`, `main.py`) | one file for both | read, save, switch mode | a save drops the mode and the pause; a write in place | `AgentControls` |
| Worker status (`worker_status.py`) | one file, one log | heartbeat, list | two load-modify-saves overlap | `WorkerStatus` |
| Templates (`services/templates.py`) | one file | list, save and delete a service or a post | load-modify-save of the whole file | `PortalTemplates` |
| ACL delegation chain (`services/acl_delegation_*.py`) | a replay registry | prepare, claim, ticket, status, confirm | evidence used twice or for another object | `AclDelegation`, with its panel |
| Recycle bin activation chain | registries | intent; ticket, authorization and consumptions, which no route reaches | as the restore chain | not modelled |
| Identity update | one request file | request a check, read the status | | not modelled |
| LDAP and HAB policies, AD snapshot worker, restore simulation envelope, access control, audit | none of their own | | | not modelled, or as a guard of another module |

### Portal

| Component | State | Operations | Hard | Module |
|---|---|---|---|---|
| Snapshot client (`hooks/useAdSnapshot.js`) | the snapshot held, the request that is up | refresh, resolve, poll | a caller that waits for a request older than itself | `AdSnapshotClient` |
| Explorer (`AdExplorerPage.jsx`) | selected node, tree, list, cache, shared requests | navigate, search, special views, effect of a new snapshot | late contents, cache of an older snapshot | `AdExplorer` |
| Object pane (`AdExplorerPage.jsx`) | selected object, properties window, details, members, permissions | select, open, load, refresh after an action | late details merged into another object | `AdObjectPane` |
| Object dialogs (`useAdObjectMove.js`, `...Rename`, `...Deletion`, account actions, computers) | what each dialog is open for, flags | open, edit, confirm, poll the job | double submission, mode that changed since it was shown | `AdObjectActions` |
| Creation dialogs (`useAdUserCreation.js`, `useAdAdminCreation.js` and the page) | form, places offered, copied user, flags | open, copy, load places, choose, create, read again | answers for the previous copy, lists that move the form, flags shared by two dialogs | `AdCreation` |
| Properties form (`useAdObjectUpdate.js`, `UpdateObjectForm.jsx`) | form, original form, editing | open, details, edit, save, read again | late details undo edits or fill another object's form | `AdObjectUpdate` |
| LDAP and HAB editors (`AdObjectPropertiesModal.jsx`) | draft, validation | open, validate, simulate | a validation of an older draft | `AdSimulationEditors` |
| Permissions panel (`ObjectDetailsPanel.jsx`) | stages of the delegation | simulate, read, prepare, validate, confirm | stages of different simulations | `AclDelegation` |
| Recycle bin panel (`DeletedObjectRestorePanel.jsx`) | the chain of results | inventory to confirmation | a result of an object no longer selected | `DeletedRestorePanel` |
| Requests page and drawer (`App.jsx`) | list, filters, pages, selection, drawer | load, select, act on one or many | stale lists, failures of a bulk action | `PortalRequests` |
| CSV import (`App.jsx`) | file, rows, report | parse, map, edit, import, approve | edits during the import, file changed under the rows | `CsvImport` |
| Request forms (`App.jsx`, `OffboardingPage.jsx`, `ModificationPage.jsx`) | forms, lookup panels, flows | look up, check, submit | two lookups of one form | `PortalForms` |
| Templates page and onboarding form (`App.jsx`) | service and post forms | edit, save, choose | a post that its service has no more | `PortalTemplates` |
| Agent pages (`AgentModePage.jsx`, `App.jsx`) | configuration and mode shown | change mode, pause, frequency | two routes on one file | `AgentControls` |
| Session and roles (`auth/*.js`, `App.jsx`) | roles read from the token, panels open | sign in, renew, navigate, call, and the calls that follow | token renewed without the page; operations of several calls; calls that look at no role | `PortalSession` |

Components interact by HTTP calls from the workers and the portal, and by the
files. The authorization chain hands execution consumptions to the transport
(`RestoreChain`); the mode gates both; jobs and requests are independent of each other. In the
portal, the explorer and the pane share the snapshot; the dialogs share the
page's flag `loading`; the panels share only the service.

What makes each component correct is what its properties say (below); what can
go wrong in it is the list of hazards in `PROJECT.json`.

## How the code is modelled

**Routes.** A route is a thread. Where a file is protected by a flock, the route
is one step that captures what the code reads before the lock (mode, clock) and
one step that runs under it. Where nothing protects the file, the route is one
step that loads the content and one that saves what it computed, and any number
of routes may be between the two. A *call* is the record of such a thread; calls
form a set, so two identical waiting calls are one, which changes nothing: the
second would do what the first did, in the same order of events.

**Registries** only grow, so they are sequences, and an identifier drawn with
`uuid4()` is the index of the record. The digests and signatures that bind
records to each other are abstracted to that index. The transport's records name
the execution consumption (`use`) they descend from: the *grant*.

**Time** is one bounded clock. It stands for the API host's clock; the worker
reads it too (`VerifyEnvelope`), that is, the hosts' clocks agree.

**Workers** are their position in the loop of the script. They and the API fail
separately: `crash` ends a worker while the route it called still runs,
`timeout`/`unanswered` makes it go on without an answer, `restart` ends every
route in flight. `directory` lets other administrators change the directory or a
cmdlet fail; `lostwrite` makes `Restore-ADObject` raise after it has written.
A run names the faults it allows in `Fault`.

### RestoreTransport, OneShotRestore

Variables: the clock, the mode, the registries `execUses` and `transport`, the
waiting calls of the queue, claim and result routes, each worker's state, the
directory `ad`, and the history `writes` of successful `Restore-ADObject` calls.
`QueueBegin/QueueCommit`, `Claim/ClaimCommit`, `Send/ResultCommit` are the two
halves of the routes; `Poll`, `VerifyEnvelope`, `Inspect`, `Restore`,
`VerifyRestored`, `EndOfRun` are the worker's loop, in its order.
`ConsumeExecutionTicket` stands for the authorization chain: its route reads the
mode once, before it waits, so it has no guard on the mode.

`OneShotRestore` is what the whole promises of each grant: offered once, taken
once, written at most once and before any verdict, judged once. The refinement
mapping at the end of `RestoreTransport` reads that off the registry and the
writes; `ImplementsOneShot` is checked by `transport_faults` and proved in
`RestoreTransport_proofs`.

### RestoreAuthorization

One action per service that reads the clock or a registry: a challenge is
preflight, build, persist, consume; an approval build, persist; a release
preexecution, consumption, gate, execution ticket, execution consumption. The
flock of each route is `LockFree`. `Restart` drops the calls and keeps the
registries, so a route may end between two of them.

### RestoreChain

The whole controlled restore: `Authorization` and `Execution` are instances of the
two modules (of their proof modules, so that the lemmas come with them), over the
same clock, mode, consumptions and directory. The queue route reads the object,
the person and the deadline of a consumption; `Grants` is that reading, and the
only link from one to the other. A revalidation succeeds while the object is in
the recycle bin (`Revalidate`), so what a worker restores takes the object from
under the chains that follow. `Restart` ends the calls of all routes at once,
because one process serves them.

`SimulationIsOneShot` says that `OneShotRestore` holds of prepared simulations: a
simulation is offered, taken, written and judged as the consumption is that
descends from it (`SimulationBehind`).

### LifecycleRequests

`requests.json` as a function of requests; `Content` is what a route makes of
the content it loaded, `Save` stores it, whatever has been saved since. The
agent carries out onboarding in Production mode, with one login per request:
check the login, create the account, add the groups. The agent is assumed not to
be paused. `overlapped` records that two calls were ever in flight together.

### AccountHandlers

`Invoke-OffboardingProduction` and `Invoke-ModificationProduction` on one account
that exists, cmdlet by cmdlet. A handler keeps what it read of the account, and
`Finds` says whether the DN it read still leads to it; the two cmdlets that
change the groups of a modification take the login instead, so they find it
wherever it is. Every cmdlet may succeed, fail, or raise after its effect, and a
failure ends the handler: the script has no compensation, and a retry is another
`Begin`. `Ends` is the result or a crash, wherever the handler is. Two agents may
run at once (the claim allows it, see `lifecycle_double_claim`), and
`OthersChange` is an administrator who moves the account or adds a group.
History: `strayed`, the cmdlets that had an effect out of the perimeter, and
`parked`, that a departure nothing disturbed put the account where it is.

### AdJobs

As above with `Merged`, the merge of `save_json`, and the workers of the three
jobs files. `SkipsConflict` tells the workers that skip a refused claim (admin,
lookup, explorer) from the one that reports it as a failure (check). History:
`raced`, the jobs of which two claims were in flight at a time; `unheard`, the
jobs of which an answer was lost.

### The portal: threads, awaits and answers

A page runs on one thread, so what a handler does between two awaits is one
step. A call under way is a record that keeps what the handler captured at the
click (its closure); its continuation is another step, which reads the state of
that moment where the code reads a ref or a functional update, and the captured
value where it reads the closure. Answers come in any order, may fail, and are
applied under exactly the comparisons the code makes. A React effect is a step of
its own, queued by what triggers it.

Where the next microtasks run before anything else, `Idle` says so
(`AdSnapshotClient`). `waiting` is how each caller awaits the request that is up
(`"forced"`: it goes on to its second refresh if the answer is of no use;
`"last"`: it takes what comes), and `micro` what each caller is about to be told.
When a request settles all who await it are told at once, and they go on in the
order they called: `turn` is a caller's place in that order, and `IsFirst` in
`AdExplorer` lets the lowest go first. The two calls of the page's first
`refreshAll` have the turns 0 and 1 and count among `MaxCalls`.

Data is reduced to what the guards compare: a snapshot is its version, a form
field is one of three kinds (in the list, only in the details, and late), a row
of a file is a person, a department and a post.

`AdSnapshotClient` is extended by `AdExplorer`, whose navigations wait for it.
`AdObjectPane` has the cache and the shared promise of the user details beside
the selection. `AdObjectActions` has the mode of the server and the one last
shown as two variables, as `AdCreation` and `AdSimulationEditors` have the one
they open with. `AclDelegation` is the panel and the five services in one, since
each property spans both. `AgentControls`, `PortalTemplates` and `WorkerStatus`
have the routes' load and save apart.

`AdCreation` reduces the organizational units to what the lists of places tell
apart: `Root` is OU=EITAS, `Barred` are the units under an OU=Groups or an
OU=Computers, which the list for users leaves out
(`useAdUserCreation.js:401-407`), and `Foremost` is what each sorted list has
first: for a user the first unit under an OU=Users, or the root where there is
none; for the other objects the first entry. `PreferredUserOu` is the choice the
code makes when the list comes (lines 419-453): the place asked for only if the
list holds it and it is not the root, else `Foremost["user"]`, and it writes the
form whatever was chosen meanwhile. `PreferredParent` is the choice of the second
dialog, which keeps any parent that its list holds. A success closes the dialog at
once, but the flag stays up while the page is read again and falls in the end,
even if another dialog has raised it since (`CreationEnds`).

In `PortalSession` a call carries the operation it belongs to, its route and the
roles it was made by. `Offered` are the operations that a page, the drawer of a
request and an open panel offer; `FollowUps` is what follows each of their calls,
as `loadAgentHistory` follows a change of the interval (`App.jsx:2010`), and
`Catches` says after which failures the operation goes on. `overlays` are the
panels of a lookup or of a check, which stay open over any page and whose button
asks for no role.

### Sums

`Console` and `Portal` (with their instances `MCConsole` and `MCPortal`) and
`Liveness` check several
components in one run. The initial state picks one of them, `part`, and only that
one moves, so the state space is the union of theirs, never the product; nothing
is lost by that, because these components share no state. Two components that
have a variable of one name have it in common, each while it is the one that
moves, and the variables of the others hold an empty set; that keeps the states
small. Each conjunct of a property names the part it speaks of.

## Runs

All bounds are constants of the modules, named there with the word *bound*.

| Run | Shows | Bounds and why they are enough |
|---|---|---|
| `transport_faults` | one write per grant, under the claim the registry names; recorded writes happened, and a recorded failure without `write_performed` left the directory alone; registry monotone; the refinement of `OneShotRestore` | 2 workers and 1 grant: every property speaks of one grant, two workers make every race for it, and other administrators stand for the chains of others; clock to 3 passes both lifetimes and the age limit; every fault but `lostwrite`, with which the recorded failure is false |
| `transport_early_failure` | *violation*: a failure before the payload's names are read cannot be recorded | 1 worker |
| `transport_mode_flip` | *violation*: restores go on after the mode has left Simulation | 1 worker, 1 flip |
| `authorization_races` | one ticket and one use per simulation, nested lifetimes, order of evidence, one identity | 2 operators, 2 objects, 2 calls per route, 3 revalidations (the chain needs 3), 1 simulation |
| `restore_chain` | one write per simulation; a claim inside the life of all that was decided; the refinement of `OneShotRestore` by simulation | 1 operator, 1 object, 1 worker, 1 simulation and 3 revalidations (the least that reaches a write), 2 calls per operator route and 1 of the queue, clock to 3, 1 mode change, restart, and changes by other administrators. An answer of the domain controller may be lost (`lostwrite`). Races of two operators or two workers are those of the two runs above; here the two halves meet. Crashes of the worker and lost answers of the API (`crash`, `timeout`) are left to `transport_faults` and to the theorems |
| `lifecycle_overlap` | status and result agree; completed means provisioned; releases and rejections of serialised calls | 2 agents, 1 request, 2 calls, 2 retries, every fault |
| `lifecycle_double_claim` | *violation*: two agents carry out one release | 2 agents, no fault |
| `jobs_overlap` | no job lost or taken back, double execution only of raced claims, no false failure | 2 jobs (a save for one carries the other), 2 workers, 2 calls, every fault |
| `liveness` | grants are taken and settled or expire; a consumed authorization becomes an execution consumption; approved requests are taken and end; jobs in processing end for good | sum of four; 2 grants, so that one can be starved by the other; 1 call of the release chain; 2 requests with calls one at a time; 2 jobs with 3 calls in flight |
| `console` | the last navigation wins; forced refreshes see the write; the pane is one object; jobs are what was confirmed; creations are what was asked for, or where their own list put them; saves are what was typed; simulations are what was shown and serve once | sum of eight; 2 objects (the late answer's and the one on show), 2 versions of the snapshot, 1 to 5 calls, and 12 for the restore panel, whose whole chain takes more; for the creations 2 openings (a dialog and its successor, which meets the answers and the end of the first), 2 users and 1 container, and 4 units, one for each kind that the lists tell apart: the root, the list's first, an ordinary one and a barred one |
| `portal` | actions on what was seen; forms about one person and one service; failures stay selected; no Production nobody asked for; handlers do what was asked, within the perimeter; refusals are withdrawn roles, but of calls that look at none; no silent worker healthy | sum of eight; 2 rows, 2 requests, 2 services, 2 accounts, 2 heartbeats in flight; 3 edits or clicks; 2 sets of roles that between them have all but the viewer's and the highest, 1 change of the roles, 1 move and 1 started operation with all the calls that follow it, and of the calls made together one at a time (they do not depend on each other); one account under 2 agents, 3 handlers (two that overlap and a retry), 5 requests (a departure that removes the groups and one that keeps them; modifications that stay, come back and leave the perimeter), 1 change by others |
| `pause_lasts` | *violation*: changing the frequency resumes a paused agent | 1 page, 2 posts |

Deadlock is not checked: the clock and the bounded counters end, and a system in
which nobody calls rests.

The properties of the sums are conjunctions of the properties of the components:

- `CallsAreServed`: `TypeOK`, `LoadingMeansBusy`, `ForcedReadsAfterCall`,
  `PromisesAreAwaited` of `AdExplorer`;
- `PaneIsOneObject`: `PaneKeepsItsObject`, `DetailsAreShared` of `AdObjectPane`;
- `JobsAreWhatWasShown`: `JobsAreWhatWasConfirmed`, `NoSecondSubmission` of
  `AdObjectActions`, `CreatedAsAsked` of `AdCreation`, `EditsAreWhatIsSent` of
  `AdObjectUpdate`;
- `SimulatedAsShown`: `ConfirmedAsShown`, `EvidenceIsSpentOnce` of
  `AclDelegation`, `SimulationsAreAsShown` of `AdSimulationEditors`, `ChainIsOne`
  of `DeletedRestorePanel`;
- `ActedOnWhatWasSeen`: `ImportsAreAsShown` of `CsvImport`,
  `ActionsAreOnWhatWasSeen` of `PortalRequests`;
- `FormsAreConsistent`: `FormsFitTheTemplates` of `PortalTemplates`,
  `FormsNameOnePerson` of `PortalForms`;
- `AgentDoesAsAsked`: `ProductionIsAsked` of `AgentControls`, `SuccessIsAsAsked`,
  `StaysInPerimeter`, `ParkedIsDisabled` of `AccountHandlers`;
- `WorkersAreAsListed`: `HealthyIsAlive`, `SerialListingsAreRight` of
  `WorkerStatus`.

A mutant definition (marked *mutant* in the modules) is a plausible slip in the
code. `PROJECT.json` has one for each property. The others that stand in the
modules break the remaining conjuncts in the same runs: `LockFreeAlways`
(`OneTicketPerSimulation`), `ClaimableAgain` (`SerialExecutionsAreReleased`),
`ClaimableIfPending` (the record's own life in `ClaimedWhileAuthorized`),
`ClearsUnlessSearch`
(`LoadingMeansBusy`), `StaysPromised` (`PromisesAreAwaited`), `NotFlagged`
(`NoSecondSubmission`), `IsMoveDestinationItself` (`JobsAreWhatWasConfirmed`),
`WithoutSimulation` (`ConfirmedAsShown`), `DigestNotConsumed`
(`EvidenceIsSpentOnce`), `NothingReset` (`ChainIsOne`), `RebuiltKeepingMode`
(`ProductionIsAsked`), `AcceptsAnyDestination` (`StaysInPerimeter`),
`DisableOrGoOn` (`ParkedIsDisabled`), and `IsAnyCopy` and `AlwaysOffersPlaces`
(`CreatedAsAsked`).

### Violations

The four violation runs check what a comment, a test, a document or the portal's
own text says and the code does not do; `PROJECT.json` quotes the lines.
More disagreements were met and have no run of their own:

- `docs/features/employee-lifecycle.md:81` says that a rejection spares requests
  in processing, which holds of calls that do not overlap
  (`SerialRejectSparesProcessing`, half of `SerialCallsAreHonoured`) and not of
  those that do.
- The check worker reports a refused claim as a failure of a job another worker
  carries out (`FailedWasExecuted` holds with `SkipsConflict` only).
- The import marks rows "déjà présents" and does not block them
  (`App.jsx:1127-1130` beside `235-269`).
- The refresh after an account action is not forced (`AdExplorerPage.jsx:3603`,
  where the test `adAccountActionsIntegration.test.mjs:65` names it a forced
  refresh); `AccountRefreshIsFresh` in `AdObjectPane` states it.
- The directory lookup is offered to operators whose role its route refuses
  (`App.jsx:2925`, `main.py:789`); see the session below.

### What the code lets happen

Modelling the portal showed behaviours that no text of the repository excludes.
They are in the models, and the properties are stated so as to leave room for
them; a maintainer may want to decide about each.

- Requests: the buttons stay enabled during an action, so a double click creates
  or approves twice; `retry_request` has no guard on the status (`main.py:652`);
  the drawer acts on the copy it was opened with (`App.jsx:4537`); answers of the
  list are not numbered (`App.jsx:1925`).
- Templates: every write reads and replaces the whole file.
- Lookups: a flow cannot be cancelled and opens a closed panel again; with
  `|| current` the department of the person before stays (`App.jsx:2825`); a
  refresh after a timeout sets the flag with nothing polling (`2856`, `3025`).
- Agent: the pause button writes back the interval it holds (`2017-2025`); a mode
  that is read while another is being written shows the old one (`2073`); a write
  in place is lost if the configuration route has replaced the file.
- Departures and modifications: nothing keeps a departure and a modification of
  one account apart, so a modification may enable the account between `Disable`
  and `Move`, and the departure succeeds with an enabled account among the
  disabled ones (`SuccessIsAsAsked` speaks of undisturbed handlers only); a
  modification without a destination enables a departed account
  (`ShouldReactivate`), for the service drops the field by which a request could
  refuse (`reactivate_account`); a modification checks its destination in its last
  step, after its other writes; its groups are changed by login, so also when the
  account has left the perimeter; the service's default destination of a departure
  (`OU=Disabled Users,DC=api,DC=local`) is not below the base OU of the agent's
  default configuration.
- Navigation: special views carry no request number; `loading` is shared by
  navigation and dialogs.
- Dialogs: an account dialog cancelled while the mode is verified still posts;
  two openings in a row clear each other's flag; destinations loaded for one
  object are shown for the next; the end of a job closes whatever dialog of its
  kind is open.
- Session: `GET /api/audit-logs` asks for Auditor or UltraAdmin (`main.py:4174`,
  `287`), and the portal makes it without a look at them: `loadAgentHistory` after
  every change of the interval or of the pause (`App.jsx:2010`, `2032`) and behind
  "Recharger historique" (`AgentOperationsPage.jsx:490`), for a SecurityAdmin; and
  `loadAuditLogs(true)` after the decisions on several requests (`App.jsx:3219`,
  `3265`, `3315`, `3362`), for an Operator. The refusal is caught: the agent's history
  is emptied, the audit log stays as it was. The lookups of the departure and modification pages are offered
  to operators and refused, and the button of a panel left open goes on calling for
  whoever the operator has become. `Unguarded` lists exactly these.
- Creations: a user's dialog opened from OU=Groups, OU=Computers, a container or
  OU=EITAS moves to the first unit under an OU=Users when its list comes, and to
  OU=EITAS when the list cannot be read, without a word and without a choice
  (`useAdUserCreation.js:401-518`); a parent for another object that is not in its
  list moves to the list's first. A copy whose details cannot be read stays in the
  unit of its source, a barred one too. The flag that a creation lowers when the
  page has been read again may be that of a dialog opened since, whose button then
  works before its details or its answer have come, so that a user may be created
  twice (`useAdUserCreation.js:1083`; `crossed`).
- Panels: late members and permissions of a group are not compared with the
  selection; the permissions panel may hold stages of two simulations (which the
  service then refuses); places of a creation carry no number; details read
  before a save and arriving after it reset the original form
  (`useAdObjectUpdate.js:1076-1117`); the deleted objects stay selectable during
  a call (`DeletedObjectRestorePanel.jsx:971-990`).

### Fairness

Only the `liveness` run assumes any, and only of what runs on its own:

- the thread that serves a worker's call gets the flock and commits, and a worker
  goes on with its loop (it is a loop in a scheduled task). Nobody is obliged to
  queue, and the clock may stop, so expiry is never what makes a property true by
  force; it only excuses;
- a release call that holds the flock goes on;
- a route that has loaded a file saves it.

Crashes and lost answers are left out of this run: nothing in the code recovers a
request or a job in processing but an operator. `ProcessingEnds` needs
serialised calls: an overlapping save brings "processing" back. `JobEnds` does
not, because of the merge. The portal has no liveness property: its users owe it
nothing, and its polls give up after a fixed number of readings.

## Theorems

TLAPS proves the following for every value of the constants, from the
assumptions on them named in each module and nothing else.

| Module | Theorem | Property |
|---|---|---|
| `RestoreTransport_proofs` | `TypeInvariant` | `TypeOK` |
| `RestoreTransport_proofs` | `OneWrite` | `OneWritePerGrant` |
| `RestoreTransport_proofs` | `WritesAreClaimed` | `WriteUnderClaim` |
| `RestoreTransport_proofs` | `RegistryNeverGoesBack` | `RegistryMonotone` |
| `RestoreTransport_proofs` | `RecordsAreTrue` | `RecordedWriteHappened` |
| `RestoreTransport_proofs` | `CleanFailures` | `RecordedFailureIsClean`, when no answer is lost after a write |
| `RestoreTransport_proofs` | `Implements` | `ImplementsOneShot` |
| `RestoreTransport_proofs` | `ClaimsInTime` | `ClaimedInTime`, of which the chain's `ClaimedWhileAuthorized` is made |
| `RestoreAuthorization_proofs` | `TypeInvariant` | `TypeOK` |
| `RestoreAuthorization_proofs` | `OneWay` (from `OneTicket`, `OneUse`) | `OneWayPerSimulation` |
| `RestoreAuthorization_proofs` | `LifetimesNest` | `NestedLifetimes` |
| `RestoreAuthorization_proofs` | `EvidenceInOrder` | `EvidenceOrder` |
| `RestoreAuthorization_proofs` | `OneDecider` | `SameOperatorThroughout` |
| `RestoreChain_proofs` | `OneWriteBySimulation` | `OneWritePerSimulation` |
| `RestoreChain_proofs` | `ClaimsWhileAuthorized` | `ClaimedWhileAuthorized` |
| `RestoreChain_proofs` | `SimulationsAreOneShot` | `SimulationIsOneShot` |
| `LifecycleRequests_proofs` | `TypeInvariant` | `TypeOK` |
| `LifecycleRequests_proofs` | `ResultsMatch` | `ResultMatchesStatus` |
| `LifecycleRequests_proofs` | `CompletedProvisioned` | `CompletedIsProvisioned` |
| `LifecycleRequests_proofs` | `SerialCalls` (from `SerialReleases`, `SerialRejects`) | `SerialCallsAreHonoured` |
| `AdJobs_proofs` | `TypeInvariant` | `TypeOK` |
| `AdJobs_proofs` | `NoLoss` | `NoJobLost` |
| `AdJobs_proofs` | `Advance` | `JobsAdvance` |
| `AdJobs_proofs` | `NoFalseFailure` | `FailedWasExecuted` |
| `AdJobs_proofs` | `Once` | `ExecutedOnce` |
| `AccountHandlers_proofs` | `SuccessAsAsked` | `SuccessIsAsAsked`, a conjunct of `AgentDoesAsAsked` |
| `AccountHandlers_proofs` | `InPerimeterOnly` | `StaysInPerimeter`, likewise |
| `AccountHandlers_proofs` | `ParkedStaysDisabled` | `ParkedIsDisabled`, likewise |
| `Console_proofs` | `CallsServed` | `CallsAreServed` |
| `Console_proofs` | `NavigationInOrder` | `NavigationsWinInOrder` |
| `Console_proofs` | `OneObject` | `PaneIsOneObject` |
| `Console_proofs` | `AsShown` | `JobsAreWhatWasShown` |
| `Console_proofs` | `SimulatedShown` | `SimulatedAsShown` |
| `Portal_proofs` | `PortalTypes` | `TypeOK` |
| `Portal_proofs` | `ActedAsSeen` | `ActedOnWhatWasSeen` |
| `Portal_proofs` | `FailedStaySelected` | `FailuresStaySelected` |
| `Portal_proofs` | `FormsConsistent` | `FormsAreConsistent` |
| `Portal_proofs` | `AgentAsAsked` | `AgentDoesAsAsked` |
| `Portal_proofs` | `RefusedWithdrawn` | `RefusedIsWithdrawn` |
| `Portal_proofs` | `WorkersAsListed` | `WorkersAreAsListed` |

*The transport, one write.* `OneWritePerGrant` is not inductive: nothing in it
keeps a worker from being about to write a second time. `GrantInv` adds what the
registry, the calls and the workers know of each other:

- `OneRecordPerUse`: a grant has one record;
- `HoldersMatch`: a worker between claim and report works on a record, pending no
  more, that names it and its execution id, and for that record's grant;
- `NotYetWritten`: a worker that may still write has not written;
- `CallsMatch`: an awaited call is of the worker that waits, for what it asked;
- `WriteUnderClaim` and `OneWritePerTicket`.

The first conjunct needs `Queued`, read under the lock; the second `Claimable`.
A worker that crashes or gives up leaves no holder behind, its calls go on
unawaited, and a claim committed then binds nobody: that grant is never written.

*The transport, true records.* `TellInv` carries the fact that the directory was
written from the worker's `Restore` to its report, the result call and the
record (`WorkersTell`, `CallsTell`, `RecordsTell`), so `RecordedWriteHappened`
survives losing any of them. `CleanInv` carries the opposite fact, "not
written". It needs that no other worker can write for the same record meanwhile,
which is `HoldersMatch`, and that the cmdlet does not raise after writing:
`CleanFailures` assumes `"lostwrite" \notin Fault`, and without that assumption
the property is false.

*The transport, refinement.* Only a commit touches the registry and only
`Restore` the writes (`OnlyCommits`, `OnlyRestores`). Under the mapping each of
them is one action of `OneShotRestore` or none: a queue commit offers, a claim
commit takes, a restore writes, a result commit judges; all else stutters.
`Fate` says that the `CHOOSE` in the mapping picks the grant's only record, which
is where `OneRecordPerUse` comes in again; `RecordChanges` and `RecordAdded` say
what a change of one record does to the mapping. `GrantsExist` bounds the grants.

*The transport, lifetimes.* `TimesInv` gives every call in flight the facts that
held at the instant it read the clock; `Onward` (the clock does not go back, a
consumption does not change) keeps them until the commit.

*RestoreAuthorization.* A call appends what it read several steps before, in
registries that other calls append to. The argument has four layers, each an
inductive invariant that rests on those before it: types and references
(`TypeInv`); tickets and the challenges that make them (`TicketInv`);
authorizations and approvals (`AuthorizationInv`); consumptions and releases
(`ReleaseInv`). What makes each of them inductive is the flock: a call past its
first step holds it (`FlocksHeld`), so no other call can append what the holder
has looked for in vain, and what the holder has found stays, because the
registries only grow (`Grown`). `Descent` follows a consumption back to the
simulation it descends from; two consumptions with one simulation then have one
ticket, one authorization, and are one. The lifetimes nest because each record
takes the minimum with its parent's expiry, which never changes.

*RestoreChain.* Every step of the chain is a step of `RestoreAuthorization` or
leaves it alone (`StepDecides`), and a step of `RestoreTransport`, with `Grants`
for its consumptions, or leaves that alone (`StepExecutes`): a release that ends
is the action `ConsumeExecutionTicket`, for which its deadline must lie within
`ExecTicketTTL` of now although it was computed before (`TicketsEnd`). So every
behaviour of the chain is one of each (`Decides`, `Executes`), and all their
invariants hold of it (`Decisions`, `Executions`) without being proved again.
`OneWriteBySimulation` puts "one consumption per simulation" and "one write per
consumption" together; `ClaimsWhileAuthorized` the nesting of lifetimes and
`ClaimedInTime`. For the refinement, a consumption keeps the simulation that
stands behind it because the registries only grow (`OriginsStay`), no two have
the same one, and a new consumption has no fate yet (`NewHasNoFate`); so a step
that is an action of `OneShotRestore` on a consumption is the same action on its
simulation (`ShowsTheMove`, `StepIsWhole`), and every decision is a stutter.
Since the theorem about `RestoreTransport` is proved for any source of
consumptions, that this source is the authorization chain is all there is to
show.

*LifecycleRequests.* What is stored is a content some call computed, so a fact of
the file has to hold of the content of every call in flight as well: `ResultInv`
and `ProvisionInv` state the property of both. `ProvisionInv` also says that an
agent about to report success has an account with its groups behind it. The two
halves of `SerialCallsAreHonoured` follow from `SerialInv`: until two calls have been in
flight together, the one call there may be holds what it would compute of the
file now (`Current`), and a request that may be claimed has a release to spend
(`ReleasesLeft`).

*AdJobs.* `LossInv` says that the content of a create call in flight holds its
job. `FailureInv` says that a failure, in the file or in a call, is of a job that
was carried out or whose answer was lost, and that a worker that reports has
begun. `OnceInv` counts: for a job of which no two claims were in flight at a
time there is one token, which is a pending status, a claim in flight, a worker
at the job, or an execution, and never two of these.

*AccountHandlers.* The three properties speak of the last step of a handler, or of
none. `HandlersKnow` says of every handler that has read the account what it has
made of it so far (`Done`), as long as nothing else has changed it, and what it
has checked whoever has (`Checked`). A step that changes the account ends the
knowledge of all other handlers (`OthersKnow`), so each action has to say only
what its own handler gains. `InPerimeterOnly` needs `Checked` alone: a cmdlet that
names the DN has an effect where the account was read, and that was checked;
`ParkedStaysDisabled` needs `Done` at the move. The invariant was checked by TLC
on the instance of `portal` before it was proved.

*Portal.* Its components share nothing, so `PortalInv` is the invariant of the
one that was picked, and a step of the portal is a step of that one (`OneMoves`).
The constants are assumed to be what the components say of them
(`PortalConstants`: a file is a sequence of rows, a default interval is allowed,
the requests are finitely many, and the like; TLC evaluates them in `portal`).
What each component's invariant adds to its property is what is under way:

- *CSV import*: the rows still to be posted are complete, each has a key of its
  own, and none of those keys was posted since the click (`ImportFits`); every row
  of the table that has its groups from the templates has those of its own
  service and post, which is what `EditedRow` must restore. That the keys are
  different is where the count of `RepeatsInFile` comes in (`RepeatsAreOnePlace`).
- *Requests page*: what is left of an action was seen in a status that offers it,
  and was selected when the action is one on the selection (`AsSeen`); the pages
  shown exist (`PagesOf`).
- *Templates*: what the server holds, what is on its way to the page and what each
  call has read and not saved yet are template files (`TemplatesTypes`); whatever
  file arrives, the forms are moved to a service and a post it has.
- *Request forms*: every panel and every flow is about a directory job that
  exists, whose result names an account (`JobsExist`).
- *Agent configuration*: a call that changes the mode holds the mode that was
  chosen from the moment it opens the file, and is the only one of its choice
  (`ModeCalls`); while the file says Production there is a choice of Production
  such that no choice of Simulation made after its end has opened the file
  (`Explained`). The property alone says that of choices that have ended, which a
  call about to write would break.
- *Session*: a call under way was made with a role its route takes, or is one of
  those that look at none (`Permitted`), because the tables of the pages and of
  what they offer agree with those of the routes (`LoadsAllowed`,
  `OffersAllowed`), and because a role that lets a call through lets the next call
  of its operation through (`FollowUpsAllowed`), which says of each operation that
  its first right is enough for its last call.
- *Workers*: a record claims no more than was heard of its worker. That is not
  inductive for the file alone, because any call in flight may become the file:
  `HonestInv` says it of every content that is loaded and not saved as well.
  `SerialInv` says that as long as no two calls overlap, the file, or the one call
  there is, tells what was heard last.
- *Handlers*: `HandlerInv`, above.

`FailedStaySelected` is an action property: each step of the requests page either
leaves the selection alone, is the operator's, keeps what is still listed, or
ends an action and takes out what it has done.

*Console.* Built as the portal: `ConsoleInv` is the invariant of the component
that was picked (`OneMoves`). The constants are assumed to be what the components
say of them (`ConsoleConstants`, which TLC evaluates in `console`): the directory
has a version and the page makes at least the two calls of its first refresh
(`Scope`); no object, place, value or payload is also "nothing" (`Texts`,
`Places`), no call is (`Kinds`), and the containers, places, fields and accounts
are those of the component (`Tree`, `Fields`). Each invariant was checked by TLC
on the instance of `console` before it was proved. They add what follows to the
properties:

- *Explorer* (`ExplorerInv`): the last navigation wins although a navigation that
  the snapshot answers does not compare its number (`loadNodeContent` compares it
  only after a job). It wins because of the snapshot client. A navigation that is
  not forced waits only as long as nothing usable is held, and while it waits
  nobody is told and nothing becomes usable; so no later navigation can have
  overtaken it, and what is shown and what is being read is of an older number
  (`NavigationsWait`). Those who wait are told together, in the order of their
  calls, which is the order of their numbers (`InTurn`). `ForcedReadsAfterCall`
  needs to know of the request that is up that a forced call which launched it is
  not older than its answer (`FlightIsNew`), and of every caller told that it
  awaits the snapshot and nobody is told twice (`QueuesHeld`). `LoadingMeansBusy`
  follows from `LoadingIsOwed`: while the page says that it loads, a call that
  will clear the flag is under way, or a content came too late.
- *Pane* (`PaneInv`): a call that reads the details of an object runs the job that
  is shared for that object, unless a save has invalidated the cache since
  (`JobsAreShared`); the rest is the property.
- *Dialogs of one object* (`ActionsInv`): the flag of every dialog whose job runs
  is up until the end of another clears it (`FlagsAreHeld`, and the history
  `cleared`), so a second click finds it; and what waits for the
  verification of the mode has been typed if it is about Production.
- *Permissions* (`AclInv`): what was sent is what was shown because a claim that
  the panel or a call holds is the claim of its own simulation (`ClaimsHeld`), and,
  until an answer comes to a panel that has moved on, all stages held are of the
  simulation shown (`StagesAgree`). The service consumes a simulation once
  whatever the panel does.
- *Creation* (`CreationInv`): the copy that would be shown is the one the dialog
  waits for (`CopyIsAwaited`), which numbers make so (`DialogsNumbered`); one
  creation of a user at most awaits its answer, under a dialog whose flag is up
  (`CreationsHeld`); the places that a dialog asked for are about its own start and
  a user's cannot be chosen meanwhile (`PlacesAwaited`), so that what a dialog
  holds is what was asked for in it or where its list moved it (`DialogsAsked`);
  a barred unit is in a user's dialog only from its opening, and after its list has
  come only as the place of the user who is copied (`BarredIsStart`), so that no
  other creation is posted there.
- *Properties form* (`UpdateInv`): an answer that will be used is of the form's
  object (`Surfaces`); what was typed is in the form and no answer reaches it
  (`TypedIsHeld`); the rest is as it was known (`RestIsKnown`); one save at a time
  holds the form (`SavesHeld`).
- *Editors* (`EditorsInv`): what is typed is about the object of the window
  (`TypedOnWindow`), for the draft is reset when the object changes.
- *Deleted objects* (`PanelInv`): numbers grow (`NumbersFit`), a step of the chain
  is there only with those it rests on (`StepsRest`), and the one call under way
  carries what the panel shows for as long as it shows it (`CallFits`).

In the permissions, the creation and the form, the conjuncts about what late
answers can mix up hold until one has done so (`crossed`), as the properties do.

`NavigationsWinInOrder` is an action property: each step of the explorer either
leaves the list alone, shows a special view or a forced refresh, or shows a
navigation of which the invariant says that it is not older.

Model-checked only: the liveness properties, which rest on fairness (out of
TLAPS's reach, as is ENABLED). Every other property of a passing run is a theorem.
The properties of the four violation runs are false, as their counterexamples
show. No module uses a RECURSIVE operator, and no theorem rests on an induction
over data.

## Not modelled

- The recycle bin activation chain: only the preparation of an intent is reached
  by a route (`main.py:1120`), which appends one record under a flock. The ticket,
  authorization, pre-execution and consumption services are imported by tests
  only, so there is no composition of them to be faithful to.
- Identity update: one request file under a flock, refused while another waits;
  what consumes it runs on the host.
- LDAP and HAB policies, the restore simulation envelope, verification of tokens
  and keys: functions of one request, which keep no state.
- `request_actions.py`, `services/agent_mode.py`: imported by no route.
- Keycloak packaging and theme; layout, menus, sorting, columns, exports, wording
  and styles of the portal.
- Signatures, digests and canonical encodings: a record names its parent.
- Simulation runs of lifecycle requests, and the effect of the pause on the
  agent's loop. Departures and modifications are in `AccountHandlers`, apart from
  the protocol that starts them: neither shares a variable with the other but
  the request, and a claimed request starts at most one handler.
- What a job does in the directory: one step that succeeds or fails.
- The quarantine of an unreadable file and torn writes.
- Skew between the clocks of the API and of the worker.
- That one flag, `adminLoading`, serves both the creation of units, containers,
  groups and contacts and the move of an object (`useAdObjectMove.js:489`, `543`):
  `AdCreation` and `AdObjectActions` each have their own. Both dialogs cover the
  page, so one is opened while the job of the other runs only during the reading
  again of the page. The reading of the mode also disables the button of these
  creations (`AdminCreationModal.jsx:637`); here it does not, which allows more.
- React's batching: a handler's updates are visible to the next step, and a
  closure is what the handler was rendered with only where that matters.

## Plan

Done: the server's protocols, the restore from the first click to the write, the
portal and the console, with the proofs of their safety properties, and the two
routes of the agent's file. What is left, in
this order:

1. `LifecycleRequests` composed with `AccountHandlers`, so that a completed
   departure is a departed account.
2. The activation of the recycle bin, once a route executes it.

Runs follow the same pattern: one with every fault for safety, fair runs without
the faults that nothing recovers, one per disagreement with a document.
