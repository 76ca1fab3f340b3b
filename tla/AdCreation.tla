------------------------------ MODULE AdCreation ------------------------------
(***************************************************************************)
(* The two dialogs by which the page creates objects: one for a user, from *)
(* an empty form or as the copy of another user, one for a unit, a         *)
(* container, a group or a contact.  Each fills itself from answers that   *)
(* come after it opened: the details of the copied user, whose requests    *)
(* are numbered, and the places to create in, whose are not.               *)
(***************************************************************************)
EXTENDS Naturals, FiniteSets

CONSTANTS User,         \* the users that can be copied
          Unit,         \* the organizational units under OU=EITAS
          Container,    \* the containers there
          Root,         \* OU=EITAS itself
          Barred,       \* the units under an OU=Groups or OU=Computers
          Foremost,     \* of each sorted list of places, the first: see Places
          Nothing,
          Home,         \* the place each user and each container is in
          MaxOpens      \* bound: dialogs opened

Kind == {"user", "admin"}
Place == Unit \cup Container

\* What the constants are assumed to be.  sortCreateUserOuOptions puts what lies
\* under an OU=Users before the rest, and Root before the rest of that.
Places == /\ Nothing \notin User \cup Place
          /\ Root \in Unit /\ Barred \subseteq Unit \ {Root}
          /\ Home \in [User \cup Container -> Place]
          /\ Foremost \in [Kind -> Unit] /\ Foremost["user"] \notin Barred

VARIABLES dialog,       \* createUserModal and its form, adminModal and adminForm
          flag,         \* createUserLoading and adminLoading
          ouFlag,       \* createUserOuLoading and adminOuLoading
          loads,        \* the loadings of places under way
          copies,       \* the readings of copied users under way
          request,      \* copyUserRequestIdRef
          mode,         \* adAgentMode, as last read
          running,      \* the creations posted and not ended
          opens,
          crossed       \* history: an end or an answer fell on another dialog

vars == <<dialog, flag, ouFlag, loads, copies, request, mode, running, opens, crossed>>

\* options is createUserOuOptions; the other dialog takes a place typed by hand.
Closed == [n |-> 0, of |-> Nothing, form |-> Nothing, ou |-> Nothing, start |-> Nothing,
           chosen |-> Nothing, options |-> {}, preparing |-> FALSE, typed |-> FALSE]

Init ==
    /\ dialog = [k \in Kind |-> Closed]
    /\ flag = [k \in Kind |-> FALSE] /\ ouFlag = [k \in Kind |-> FALSE]
    /\ loads = {} /\ copies = {} /\ request = 0
    /\ mode = "Inconnu" /\ running = {} /\ opens = 0 /\ crossed = FALSE

\* Either dialog covers the page.
Reaches == /\ \A k \in Kind : dialog[k] = Closed
           /\ opens < MaxOpens /\ opens' = opens + 1

\* normalizeAdminCreationOptions: the root, and units only.
FirstOptions(ou) == {Root} \cup ({ou} \cap Unit)

Opened(of, ou, options, preparing) ==
    [Closed EXCEPT !.n = opens', !.of = of, !.form = of, !.ou = ou, !.start = ou,
                   !.options = options, !.preparing = preparing]
\* loadCreateUserOuOptions, loadAdminOuOptions up to their await.
AsksPlaces(k, ou, n) ==
    /\ loads' = loads \cup {[kind |-> k, for |-> ou, n |-> n]}
    /\ ouFlag' = [ouFlag EXCEPT ![k] = TRUE]

-----------------------------------------------------------------------------
(* Opening *)

\* getCreateUserDefaultOuDn: the unit itself, or what is around, a container too.
DefaultOu(target) == IF target \in Unit THEN target ELSE Home[target]

OpenCreateUser(target) ==
    /\ Reaches
    /\ dialog' = [dialog EXCEPT !["user"] = Opened(
                        Nothing, DefaultOu(target), FirstOptions(DefaultOu(target)), FALSE)]
    /\ AsksPlaces("user", DefaultOu(target), opens')
    /\ UNCHANGED <<flag, copies, request, mode, running, crossed>>

\* buildCopyUserPreparation: the profile, never the identity; the user's own unit,
\* or the root for a user in a container.
CopyPreparation(u) == [form |-> u, ou |-> IF Home[u] \in Unit THEN Home[u] ELSE Root]

\* openCopyUser: a first form from what the list shows, then the details.
OpenCopyUser(u) ==
    /\ Reaches
    /\ request' = request + 1
    /\ dialog' = [dialog EXCEPT !["user"] = Opened(
                        u, CopyPreparation(u).ou, FirstOptions(CopyPreparation(u).ou), TRUE)]
    /\ flag' = [flag EXCEPT !["user"] = TRUE]
    /\ copies' = copies \cup {[of |-> u, req |-> request']}
    /\ UNCHANGED <<ouFlag, loads, mode, running, crossed>>

\* The details arrive, or their reading fails; an answer that a closing or
\* another copy has overtaken changes nothing.
IsAnyCopy(c) == TRUE                           \* mutant: the request is not looked at
IsCurrentCopy(c) == c.req = request
CopyArrives(c) ==
    /\ c \in copies
    /\ copies' = copies \ {c}
    /\ IF ~IsCurrentCopy(c) THEN UNCHANGED <<dialog, flag, loads, ouFlag, crossed>>
       ELSE /\ flag' = [flag EXCEPT !["user"] = FALSE]
            /\ UNCHANGED crossed
            /\ \/ /\ dialog' =
                        IF dialog["user"] = Closed THEN dialog
                        ELSE [dialog EXCEPT
                                 !["user"].form = CopyPreparation(c.of).form,
                                 !["user"].ou = CopyPreparation(c.of).ou,
                                 !["user"].options = FirstOptions(CopyPreparation(c.of).ou),
                                 !["user"].preparing = FALSE]
                  /\ AsksPlaces("user", CopyPreparation(c.of).ou, dialog["user"].n)
               \/ /\ dialog' = [dialog EXCEPT !["user"].preparing = FALSE]
                  /\ UNCHANGED <<loads, ouFlag>>
    /\ UNCHANGED <<request, mode, running, opens>>

\* openCreateOu, openCreateContainer, openCreateContact, openCreateGroup
OpenAdminCreation(target) ==
    /\ Reaches
    /\ dialog' = [dialog EXCEPT !["admin"] = Opened(Nothing, target, {}, FALSE)]
    /\ AsksPlaces("admin", target, opens')
    /\ UNCHANGED <<flag, copies, request, mode, running, crossed>>

\* loadAdAgentMode answers, at any time after an opening.
ModeArrives(m) ==
    /\ m # mode /\ opens > 0
    /\ mode' = m
    /\ UNCHANGED <<dialog, flag, ouFlag, loads, copies, request, running, opens, crossed>>

-----------------------------------------------------------------------------
(* The places arrive *)

\* loadCreateUserOuOptions: no unit that is barred.
UserOptions == Unit \ Barred
\* Its choice: the place asked for, if the list holds it and it is not the root;
\* else the list's first.  What has been chosen meanwhile does not count.
PreferredUserOu(l) == IF l.for \in UserOptions \ {Root} THEN l.for ELSE Foremost["user"]
\* What is on show after: the list, or the root alone when it could not be read.
UserPlaces(l) == {[options |-> UserOptions, ou |-> PreferredUserOu(l)],
                  [options |-> {Root}, ou |-> Root]}

\* loadAdminOuOptions: the units, and the containers in the snapshot of the opening.
AdminOptions(listed) == Unit \cup listed
\* getPreferredOuForAction, for no action: the modal was not there at the opening.
PreferredParent(l, options) == IF l.for \in options THEN l.for ELSE Foremost["admin"]
\* The form keeps a parent that the list holds, and any when it could not be read.
Parents(l) ==
    LET ou == dialog["admin"].ou
    IN  {ou} \cup {IF ou \in options THEN ou ELSE PreferredParent(l, options) :
                      options \in {AdminOptions(listed) : listed \in SUBSET Container}}

PlacesArrive(l) ==
    /\ l \in loads
    /\ loads' = loads \ {l}
    /\ ouFlag' = [ouFlag EXCEPT ![l.kind] = FALSE]
    /\ crossed' = (crossed \/ (dialog[l.kind] # Closed /\ dialog[l.kind].n # l.n))
    /\ IF dialog[l.kind] = Closed THEN UNCHANGED dialog
       ELSE \/ /\ l.kind = "user"
               /\ \E p \in UserPlaces(l) :
                      dialog' = [dialog EXCEPT !["user"].ou = p.ou,
                                               !["user"].options = p.options]
            \/ /\ l.kind = "admin"
               /\ \E ou \in Parents(l) : dialog' = [dialog EXCEPT !["admin"].ou = ou]
    /\ UNCHANGED <<flag, copies, request, mode, running, opens>>

-----------------------------------------------------------------------------
(* Filling in, closing, submitting *)

\* CreateUserModal: the list of units is disabled while it loads.
AlwaysOffersPlaces(k) == ~flag[k]              \* mutant: the list is open while it loads
UserModalOffersPlaces(k) == ~flag[k] /\ ~ouFlag[k]
\* updateCreateUserField; the other fields follow or keep what was typed.
ChooseUserOu(ou) ==
    /\ dialog["user"] # Closed /\ UserModalOffersPlaces("user")
    /\ ou \in dialog["user"].options /\ ou # dialog["user"].ou
    /\ dialog' = [dialog EXCEPT !["user"].ou = ou, !["user"].chosen = ou]
    /\ UNCHANGED <<flag, ouFlag, loads, copies, request, mode, running, opens, crossed>>
UserModalOffersFields == dialog["user"] # Closed /\ ~flag["user"]
TypeProduction ==
    /\ UserModalOffersFields /\ mode = "Production"
    /\ dialog' = [dialog EXCEPT !["user"].typed = TRUE]
    /\ UNCHANGED <<flag, ouFlag, loads, copies, request, mode, running, opens, crossed>>
\* AdminCreationModal: the advanced field takes a DN even while the list loads.
AdminModalOffersFields == dialog["admin"] # Closed /\ ~flag["admin"]
ChooseParent(ou) ==
    /\ AdminModalOffersFields
    /\ ou # dialog["admin"].ou
    /\ dialog' = [dialog EXCEPT !["admin"].ou = ou, !["admin"].chosen = ou]
    /\ UNCHANGED <<flag, ouFlag, loads, copies, request, mode, running, opens, crossed>>

\* closeCreateUserModal gives up a copy that is being prepared, never a creation.
CloseUser ==
    /\ dialog["user"] # Closed
    /\ flag["user"] => dialog["user"].preparing
    /\ request' = request + 1
    /\ dialog' = [dialog EXCEPT !["user"] = Closed]
    /\ flag' = [flag EXCEPT !["user"] = FALSE]
    /\ UNCHANGED <<ouFlag, loads, copies, mode, running, opens, crossed>>
CloseAdmin ==
    /\ dialog["admin"] # Closed /\ ~flag["admin"]
    /\ dialog' = [dialog EXCEPT !["admin"] = Closed]
    /\ ouFlag' = [ouFlag EXCEPT !["admin"] = FALSE]
    /\ UNCHANGED <<flag, loads, copies, request, mode, running, opens, crossed>>

\* validateCreateUserForm, getAdminCreationValidationError: of the place.
UserOuIsValid(ou) == ou \in Unit
ParentIsValid(ou) == ou \in Place

UserModalOffers == ~flag["user"] /\ ~ouFlag["user"]
AdminModalOffers == ~flag["admin"] /\ ~ouFlag["admin"] /\ ParentIsValid(dialog["admin"].ou)

Posts(k) ==
    /\ running' = running \cup {[kind |-> k, d |-> dialog[k], done |-> FALSE]}
    /\ flag' = [flag EXCEPT ![k] = TRUE]
    /\ UNCHANGED <<dialog, ouFlag, loads, copies, request, mode, opens, crossed>>
SubmitCreateUser ==
    /\ dialog["user"] # Closed /\ UserModalOffers /\ UserOuIsValid(dialog["user"].ou)
    /\ mode = "Production" => dialog["user"].typed
    /\ Posts("user")
\* submitAdAdminJob, after the browser's confirmation in Production.
SubmitAdAdminJob ==
    /\ dialog["admin"] # Closed /\ AdminModalOffers
    /\ Posts("admin")

\* A success closes the dialog on show, then the page is read again; a failure
\* leaves it open.
CreationSucceeds(j) ==
    /\ j \in running /\ ~j.done
    /\ running' = (running \ {j}) \cup {[j EXCEPT !.done = TRUE]}
    /\ dialog' = [dialog EXCEPT ![j.kind] = Closed]
    /\ UNCHANGED <<flag, ouFlag, loads, copies, request, mode, opens, crossed>>
\* The flag falls in the end, for whoever has raised it since.
FlagIsAnothers(j) ==
    \/ dialog[j.kind].preparing
    \/ \E i \in running \ {j} : i.kind = j.kind
CreationEnds(j) ==
    /\ j \in running
    /\ running' = running \ {j}
    /\ flag' = [flag EXCEPT ![j.kind] = FALSE]
    /\ crossed' = (crossed \/ FlagIsAnothers(j))
    /\ UNCHANGED <<dialog, ouFlag, loads, copies, request, mode, opens>>

Next ==
    \/ \E p \in Place : OpenAdminCreation(p) \/ ChooseParent(p)
    \/ \E target \in Place \cup User : OpenCreateUser(target)
    \/ \E u \in User : OpenCopyUser(u)
    \/ \E ou \in Unit : ChooseUserOu(ou)
    \/ \E c \in copies : CopyArrives(c)
    \/ \E l \in loads : PlacesArrive(l)
    \/ \E m \in {"Simulation", "Production", "Inconnu"} : ModeArrives(m)
    \/ TypeProduction \/ CloseUser \/ CloseAdmin \/ SubmitCreateUser \/ SubmitAdAdminJob
    \/ \E j \in running : CreationSucceeds(j) \/ CreationEnds(j)

Spec == Init /\ [][Next]_vars

-----------------------------------------------------------------------------
(* Properties *)

\* Where a list moves the place of a dialog in which nothing else was chosen.  A
\* user's goes to OU=EITAS when the list cannot be read, and to the list's first
\* from a place that the list does not hold or from OU=EITAS; another object's,
\* from a container that the list does not hold, to that list's first.
MovedByItsList(k, d) ==
    \/ /\ k = "user" /\ d.chosen = Nothing
       /\ \/ d.ou = Root
          \/ d.ou = Foremost["user"] /\ d.start \notin UserOptions \ {Root}
    \/ /\ k = "admin" /\ d.ou = Foremost["admin"]
       /\ d.start \in Container /\ d.chosen \in Container \cup {Nothing}

\* What is created is what was asked for: the profile is that of the user the
\* dialog was opened to copy, however many copies were prepared and given up; the
\* place is the one chosen last, or else the one the dialog opened with (which a
\* container typed by hand may give way to), or else where its own list moved it;
\* and a user comes under OU=Groups or OU=Computers only as the copy of one who is
\* there.  So until the end of a creation lowers the flag of a dialog opened
\* since, or places come that another dialog had asked for.
CreatedAsAsked ==
    ~crossed => \A j \in running :
        /\ j.d.form = j.d.of
        /\ \/ j.d.ou = j.d.chosen
           \/ j.d.ou = j.d.start /\ j.d.chosen \in Container \cup {Nothing}
           \/ MovedByItsList(j.kind, j.d)
        /\ j.kind = "user" /\ j.d.ou \in Barred => j.d.ou = j.d.start /\ j.d.of # Nothing
=============================================================================
