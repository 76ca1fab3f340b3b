---------------------------- MODULE PortalTemplates ----------------------------
(***************************************************************************)
(* The templates of the onboarding: services, each with its default groups *)
(* and its posts, each with its own groups.  The handlers of               *)
(* src/api/app/services/templates.py read the whole file, change it and    *)
(* write it back; TemplatesPage in src/frontend/src/App.jsx edits them;    *)
(* and the onboarding form of the portal chooses a service and a post      *)
(* among those the portal holds (loadTemplates, updateForm).               *)
(*                                                                         *)
(* Services are listed in the order of the file: "the first service" and   *)
(* "the first post" are any of them here.                                  *)
(***************************************************************************)
EXTENDS Integers, FiniteSets, Functions

CONSTANTS
    Department, Job, Group,
    CommonGroups,           \* proposed for every post
    InitialTemplates,       \* the template files to start from
    MaxEdits, MaxSaves, MaxLoads    \* bounds of the instance

Blank == "blank"
NoTemplates == <<>>

\* A template file: services to their groups and posts.
Posts == UNION {[jobs -> SUBSET Group] : jobs \in SUBSET Job}
Service == [default_groups : SUBSET Group, roles : Posts]
TemplateFile == UNION {[services -> Service] : services \in SUBSET Department}

\* What the constants are assumed to be.
TemplatesAssumption == InitialTemplates \subseteq TemplateFile /\ CommonGroups \subseteq Group

VARIABLES
    file,           \* the templates of the server
    handlers,       \* writes that have read the file and not saved it yet
    templates,      \* what the portal holds
    loads,          \* answers on their way to the portal
    service,        \* the form of a service: its name and groups
    post,           \* the form of a post: its service, name and groups
    form,           \* the service and the post of the onboarding form
    edits, saves    \* bounds

pageForms == <<service, post>>
vars == <<file, handlers, templates, loads, service, post, form, edits, saves>>

TypeOK ==
    /\ {file, templates} \subseteq TemplateFile
    /\ service \in [name : Department, groups : SUBSET Group]
    /\ post \in [department : Department \cup {Blank}, name : Job, groups : SUBSET Group]
    /\ form \in [department : Department \cup {Blank}, job_title : Job \cup {Blank}]

-----------------------------------------------------------------------------
(* The server: what each handler makes of the file it has read.            *)

With(f, key, value) == [k \in DOMAIN f \cup {key} |-> IF k = key THEN value ELSE f[k]]
Without(f, key) == Restrict(f, DOMAIN f \ {key})

Roles(t, d) == IF d \in DOMAIN t THEN t[d].roles ELSE <<>>

\* A service that exists keeps its posts.
UpsertDepartment(t, op) ==
    With(t, op.department, [default_groups |-> op.groups, roles |-> Roles(t, op.department)])

DeleteDepartment(t, op) == Without(t, op.department)

UpsertRole(t, op) ==
    [t EXCEPT ![op.department].roles = With(@, op.role, op.groups)]

DeleteRole(t, op) == [t EXCEPT ![op.department].roles = Without(@, op.role)]

\* The refusals: a service or a post that is not there.
Finds(t, op) ==
    CASE op.kind = "upsertDepartment" -> TRUE
      [] op.kind \in {"deleteDepartment", "upsertRole"} -> op.department \in DOMAIN t
      [] OTHER -> op.department \in DOMAIN t /\ op.role \in DOMAIN t[op.department].roles

Changed(t, op) ==
    CASE op.kind = "upsertDepartment" -> UpsertDepartment(t, op)
      [] op.kind = "deleteDepartment" -> DeleteDepartment(t, op)
      [] op.kind = "upsertRole" -> UpsertRole(t, op)
      [] OTHER -> DeleteRole(t, op)

-----------------------------------------------------------------------------
(* The portal.                                                             *)

\* loadTemplates keeps the service and the post of the onboarding form when
\* the templates still have them, and takes the first ones otherwise.
KeptOrFirst(current, names) ==
    IF current \in names THEN {current} ELSE IF names = {} THEN {Blank} ELSE names

\* mutant: the service is checked again and the post is not
FormsOfService(t) ==
    {[form EXCEPT !.department = d] : d \in KeptOrFirst(form.department, DOMAIN t)}

FormsFor(t) ==
    UNION {{[department |-> d, job_title |-> j] :
               j \in KeptOrFirst(form.job_title, DOMAIN Roles(t, d))} :
           d \in KeptOrFirst(form.department, DOMAIN t)}

\* The post form's service follows the list once there is one.
PostDepartments(t, current) ==
    IF DOMAIN t = {} THEN {current} ELSE KeptOrFirst(current, DOMAIN t)

Init ==
    /\ file \in InitialTemplates
    /\ handlers = {} /\ templates = NoTemplates
    /\ loads = {file}
    /\ service \in [name : Department, groups : {{}}]
    /\ post \in [department : {Blank}, name : Job, groups : {{}}]
    /\ form = [department |-> Blank, job_title |-> Blank]
    /\ edits = 0 /\ saves = 0

LoadTemplates ==
    /\ Cardinality(loads) < MaxLoads
    /\ loads' = loads \cup {file} /\ loads' # loads
    /\ UNCHANGED <<file, handlers, templates, pageForms, form, edits, saves>>

TemplatesArrive(t) ==
    /\ loads' = loads \ {t}
    /\ templates' = t
    /\ form' \in FormsFor(t)
    /\ \E d \in PostDepartments(t, post.department) :
          post' = [post EXCEPT !.department = d]
    /\ UNCHANGED <<file, handlers, service, edits, saves>>

Edit == edits < MaxEdits /\ edits' = edits + 1

\* updateForm: a new service brings its first post.
UpdateFormDepartment(d) ==
    /\ Edit
    /\ \E j \in KeptOrFirst(Blank, DOMAIN Roles(templates, d)) :
          form' = [department |-> d, job_title |-> j]
    /\ UNCHANGED <<file, handlers, templates, loads, pageForms, saves>>

UpdateFormJob(j) ==
    /\ Edit
    /\ form' = [form EXCEPT !.job_title = j]
    /\ UNCHANGED <<file, handlers, templates, loads, pageForms, saves>>

LoadDepartmentIntoForm(d) ==
    /\ Edit
    /\ service' = [name |-> d, groups |-> templates[d].default_groups]
    /\ post' = [post EXCEPT !.department = d]
    /\ UNCHANGED <<file, handlers, templates, loads, form, saves>>

LoadRoleIntoForm(d, r) ==
    /\ Edit
    /\ post' = [department |-> d, name |-> r, groups |-> templates[d].roles[r]]
    /\ UNCHANGED <<file, handlers, templates, loads, service, form, saves>>

TypeService(name, groups) ==
    /\ Edit
    /\ service' = [name |-> name, groups |-> groups]
    /\ UNCHANGED <<file, handlers, templates, loads, post, form, saves>>

TypePost(d, name) ==
    /\ Edit
    /\ post' = [post EXCEPT !.department = d, !.name = name]
    /\ UNCHANGED <<file, handlers, templates, loads, service, form, saves>>

\* The groups proposed for a post: its service's and the common ones.
Suggestions ==
    CommonGroups \cup
    IF post.department \in DOMAIN templates
    THEN templates[post.department].default_groups ELSE {}

AddRoleGroup(g) ==
    /\ Edit /\ g \notin post.groups
    /\ post' = [post EXCEPT !.groups = @ \cup {g}]
    /\ UNCHANGED <<file, handlers, templates, loads, service, form, saves>>

RemoveRoleGroups(groups) ==
    /\ Edit /\ groups # {}
    /\ post' = [post EXCEPT !.groups = @ \ groups]
    /\ UNCHANGED <<file, handlers, templates, loads, service, form, saves>>

\* The four buttons: the request reads the file on the server.  A post needs
\* a service chosen.
Ask(kind) ==
    LET op == IF kind \in {"upsertDepartment", "deleteDepartment"}
              THEN [kind |-> kind, department |-> service.name, groups |-> service.groups]
              ELSE [kind |-> kind, department |-> post.department, role |-> post.name,
                    groups |-> post.groups]
    IN  /\ saves < MaxSaves /\ saves' = saves + 1
        /\ op.department # Blank
        /\ Finds(file, op)
        /\ handlers' = handlers \cup {[n |-> saves', op |-> op, read |-> file]}
        /\ UNCHANGED <<file, templates, loads, pageForms, form, edits>>

\* The handler writes back the file it read with its change, and the page
\* reloads the templates when the answer comes.
Save(h, answered) ==
    /\ file' = Changed(h.read, h.op)
    /\ handlers' = handlers \ {h}
    /\ loads' = IF answered THEN loads \cup {file'} ELSE loads
    /\ UNCHANGED <<templates, pageForms, form, edits, saves>>

Next ==
    \/ LoadTemplates \/ (\E t \in loads : TemplatesArrive(t))
    \/ \E d \in DOMAIN templates :
          \/ UpdateFormDepartment(d) \/ LoadDepartmentIntoForm(d)
          \/ \E r \in DOMAIN Roles(templates, d) : LoadRoleIntoForm(d, r)
          \/ \E j \in Job : TypePost(d, j)
    \/ \E j \in DOMAIN Roles(templates, form.department) : UpdateFormJob(j)
    \/ \E d \in Department, groups \in SUBSET Group : TypeService(d, groups)
    \/ \E g \in Suggestions : AddRoleGroup(g)
    \/ \E groups \in {{g} : g \in post.groups} \cup {post.groups} : RemoveRoleGroups(groups)
    \/ \E kind \in {"upsertDepartment", "deleteDepartment", "upsertRole", "deleteRole"} :
          Ask(kind)
    \/ \E h \in handlers, answered \in BOOLEAN : Save(h, answered)

Spec == Init /\ [][Next]_vars

-----------------------------------------------------------------------------
(* Properties.                                                             *)

\* Whatever templates arrive and in whatever order, the onboarding form names
\* a service the portal shows and a post of that service (nothing only where
\* there is nothing to choose), and the form of a post names a service of the
\* list: what the two select boxes display is what would be sent.
FormsFitTheTemplates ==
    DOMAIN templates # {} =>
        /\ form.department \in DOMAIN templates
        /\ LET jobs == DOMAIN templates[form.department].roles
           IN  form.job_title \in IF jobs = {} THEN {Blank} ELSE jobs
        /\ post.department \in DOMAIN templates
=============================================================================
