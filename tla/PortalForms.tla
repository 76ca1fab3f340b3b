------------------------------ MODULE PortalForms ------------------------------
(***************************************************************************)
(* The forms of a departure and of a modification in the portal, and the   *)
(* two kinds of jobs its pages hand to the Windows agent and wait for:     *)
(* the directory lookup that fills a form, and the directory check of the  *)
(* selected requests (src/frontend/src/App.jsx).  Also the onboarding form *)
(* and its check for duplicates.                                           *)
(*                                                                         *)
(* Each click starts a flow of its own: it creates the job, then reads it  *)
(* every two seconds until it ends or sixty readings have passed.  Nothing *)
(* stops a flow: a closed panel is opened again by the next reading.       *)
(***************************************************************************)
EXTENDS Integers, Sequences, FiniteSets

CONSTANTS
    Account,
    HasDepartment,          \* the accounts whose department the directory gives
    MaxPolls,               \* 60 in the code
    MaxUi, MaxFlows         \* bounds of the instance

Blank == "blank"
Typed == "typed"

\* What the constants are assumed to be.
FormsAssumption ==
    /\ HasDepartment \subseteq Account /\ MaxPolls \in Nat \ {0}
    /\ {Blank, Typed} \cap Account = {}

Target == {"offboarding", "modification"}
Value == Account \cup {Blank, Typed}
NoResult == [found |-> FALSE]
ClosedPanel == [open |-> FALSE, job |-> 0, target |-> Blank, result |-> NoResult,
                loading |-> FALSE]

VARIABLES
    forms,          \* of each target: the account its fields name
    panels,         \* adLookupPanel and adCheckTerminal
    jobs,           \* the jobs of the server
    flows,
    page,           \* "requests", or the page of a form
    shown, server,  \* who has an onboarding under way: in the list, and really
    onboarding,     \* creations on their way
    ui, started     \* bounds

vars == <<forms, panels, jobs, flows, page, shown, server, onboarding, ui, started>>

Fields == [username : Value, display_name : Value, department : Value]

TypeOK ==
    /\ forms \in [Target -> Fields]
    /\ \A p \in {"lookup", "check"} : panels[p].job \in 0..Len(jobs)
    /\ shown \subseteq server

PanelOf(target) == IF target \in Target THEN "lookup" ELSE "check"
Ended(job) == job.status \in {"completed", "failed"}

Init ==
    /\ forms = [t \in Target |-> [username |-> Blank, display_name |-> Blank,
                                  department |-> Blank]]
    /\ panels = [p \in {"lookup", "check"} |-> ClosedPanel]
    /\ jobs = <<>> /\ flows = {} /\ page = "offboarding"
    /\ shown = {} /\ server = {} /\ onboarding = {}
    /\ ui = 0 /\ started = 0

Ui == ui < MaxUi /\ ui' = ui + 1

-----------------------------------------------------------------------------
(* The forms.                                                              *)

UpdateForm(t, field) ==
    /\ Ui /\ page = t
    /\ forms' = [forms EXCEPT ![t][field] = Typed]
    /\ UNCHANGED <<panels, jobs, flows, page, shown, server, onboarding, started>>

\* A request of the list is loaded into a form, whole.
LoadRequestInto(t, a) ==
    /\ Ui
    /\ forms' = [forms EXCEPT ![t] = [username |-> a, display_name |-> a, department |-> a]]
    /\ page' = t
    /\ UNCHANGED <<panels, jobs, flows, shown, server, onboarding, started>>

\* mutant: the name is kept when there is one
FilledIfEmpty(form, a) ==
    [username |-> a, department |-> a,
     display_name |-> IF form.display_name = Blank THEN a ELSE form.display_name]

\* What the directory says of an account; an empty department leaves the
\* form's own.
Filled(form, a) ==
    [username |-> a, display_name |-> a,
     department |-> IF a \in HasDepartment THEN a ELSE form.department]

ApplyResult(t, result) ==
    /\ forms' = [forms EXCEPT ![t] = Filled(@, result.account)]
    /\ page' = t

\* A creation posts the form and shows the list of the requests again.
SubmitForm(t) ==
    /\ Ui /\ page = t /\ forms[t].username # Blank
    /\ page' = "requests"
    /\ UNCHANGED <<forms, panels, jobs, flows, shown, server, onboarding, started>>

GoTo(p) ==
    /\ Ui /\ p # page /\ page' = p
    /\ UNCHANGED <<forms, panels, jobs, flows, shown, server, onboarding, started>>

\* createRequest: refused for a person the list shows already; the button
\* stays enabled while the creation is on its way.
CreateOnboarding(a) ==
    /\ Ui /\ a \notin shown
    /\ onboarding' = onboarding \cup {a}
    /\ UNCHANGED <<forms, panels, jobs, flows, page, shown, server, started>>

OnboardingAnswered(a, ok) ==
    /\ onboarding' = onboarding \ {a}
    /\ server' = server \cup {a}
    /\ page' = IF ok THEN "requests" ELSE page
    /\ shown' = IF ok THEN server' ELSE shown
    /\ UNCHANGED <<forms, panels, jobs, flows, ui, started>>

-----------------------------------------------------------------------------
(* The jobs and their panels.                                              *)

Start(target) ==
    /\ started < MaxFlows /\ started' = started + 1
    /\ flows' = flows \cup {[n |-> started', target |-> target, stage |-> "create",
                             job |-> 0, polls |-> 0]}
    /\ panels' = [panels EXCEPT ![PanelOf(target)] =
                     [open |-> TRUE, job |-> 0, target |-> target, result |-> NoResult,
                      loading |-> TRUE]]
    /\ UNCHANGED <<forms, jobs, page, shown, server, onboarding, ui>>

\* The search button of a form waits for the lookup the panel is showing for
\* it, the check of a selection waits for nothing.
RunLookup(t) ==
    /\ page = t /\ forms[t].username # Blank
    /\ ~(panels["lookup"].loading /\ panels["lookup"].target = t)
    /\ Start(t)

RunCheck == page = "requests" /\ Start("check")

Fails(flow) ==
    /\ flows' = flows \ {flow}
    /\ panels' = [panels EXCEPT ![PanelOf(flow.target)].loading = FALSE]

JobCreated(flow) ==
    /\ flow.stage = "create"
    /\ jobs' = Append(jobs, [status |-> "pending", result |-> NoResult])
    /\ flows' = (flows \ {flow}) \cup {[flow EXCEPT !.stage = "poll", !.job = Len(jobs')]}
    /\ panels' = [panels EXCEPT ![PanelOf(flow.target)] =
                     [@ EXCEPT !.job = Len(jobs'), !.loading = TRUE]]
    /\ UNCHANGED <<forms, page, shown, server, onboarding, ui, started>>

\* The creation or a reading fails: the flow is over.
CallFails(flow) ==
    /\ Fails(flow)
    /\ UNCHANGED <<forms, jobs, page, shown, server, onboarding, ui, started>>

\* refreshAdLookupJob and refreshAdCheckJob: the panel shows the job read.
Refreshed(target, n) ==
    [open |-> TRUE, job |-> n, target |-> target, result |-> jobs[n].result,
     loading |-> ~Ended(jobs[n])]

Poll(flow) ==
    /\ flow.stage = "poll"
    /\ IF Ended(jobs[flow.job])
       THEN /\ flows' = flows \ {flow}
            /\ IF jobs[flow.job].result.found /\ flow.target \in Target
               THEN /\ ApplyResult(flow.target, jobs[flow.job].result)
                    /\ panels' = [panels EXCEPT !["lookup"] = ClosedPanel]
               ELSE /\ panels' = [panels EXCEPT ![PanelOf(flow.target)] =
                                     Refreshed(flow.target, flow.job)]
                    /\ UNCHANGED <<forms, page>>
       ELSE /\ UNCHANGED <<forms, page>>
            /\ LET now == Refreshed(flow.target, flow.job)
                   timeout == flow.polls + 1 = MaxPolls
               IN  /\ panels' = [panels EXCEPT ![PanelOf(flow.target)] =
                                    [now EXCEPT !.loading = ~timeout]]
                   /\ flows' = (flows \ {flow}) \cup
                          IF timeout THEN {} ELSE {[flow EXCEPT !.polls = @ + 1]}
    /\ UNCHANGED <<jobs, shown, server, onboarding, ui, started>>

\* The refresh button of a panel, and a check opened from the history.
RefreshPanel(p, n) ==
    /\ Ui
    /\ panels' = [panels EXCEPT ![p] = Refreshed(@.target, n)]
    /\ UNCHANGED <<forms, jobs, flows, page, shown, server, onboarding, started>>

\* "Utiliser pour offboarding", "Utiliser pour modification".
UseResult(t) ==
    /\ Ui /\ panels["lookup"].open /\ panels["lookup"].result.found
    /\ ApplyResult(t, panels["lookup"].result)
    /\ panels' = [panels EXCEPT !["lookup"] = ClosedPanel]
    /\ UNCHANGED <<jobs, flows, shown, server, onboarding, started>>

ClosePanel(p) ==
    /\ Ui /\ panels[p].open
    /\ panels' = [panels EXCEPT ![p] = ClosedPanel]
    /\ UNCHANGED <<forms, jobs, flows, page, shown, server, onboarding, started>>

\* The Windows agent, at its own pace: the login searched may be anyone's.
AgentEnds(n, ok) ==
    /\ ~Ended(jobs[n])
    /\ \E result \in {NoResult} \cup [found : {TRUE}, account : Account] :
          /\ ok \/ ~result.found
          /\ jobs' = [jobs EXCEPT ![n] = [status |-> IF ok THEN "completed" ELSE "failed",
                                          result |-> result]]
    /\ UNCHANGED <<forms, panels, flows, page, shown, server, onboarding, ui, started>>

Next ==
    \/ \E t \in Target :
          \/ \E f \in {"username", "display_name", "department"} : UpdateForm(t, f)
          \/ \E a \in Account : LoadRequestInto(t, a)
          \/ SubmitForm(t) \/ RunLookup(t) \/ UseResult(t)
    \/ \E p \in Target \cup {"requests"} : GoTo(p)
    \/ \E a \in Account : CreateOnboarding(a)
    \/ \E a \in onboarding, ok \in BOOLEAN : OnboardingAnswered(a, ok)
    \/ RunCheck
    \/ \E flow \in flows : JobCreated(flow) \/ Poll(flow) \/ CallFails(flow)
    \/ \E p \in {"lookup", "check"} : ClosePanel(p)
    \/ panels["lookup"].open /\ panels["lookup"].job # 0
       /\ RefreshPanel("lookup", panels["lookup"].job)
    \/ \E n \in DOMAIN jobs : RefreshPanel("check", n)
    \/ \E n \in DOMAIN jobs, ok \in BOOLEAN : AgentEnds(n, ok)

Spec == Init /\ [][Next]_vars

-----------------------------------------------------------------------------
(* Properties.                                                             *)

\* Whatever lookups overlap, and whatever is loaded over what, a form never
\* shows the login of one account beside the name of another: the two move
\* together except where the operator types.
FormsNameOnePerson ==
    \A t \in Target :
        {forms[t].username, forms[t].display_name} \subseteq Account
           => forms[t].username = forms[t].display_name
=============================================================================
