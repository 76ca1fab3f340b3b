----------------------------- MODULE AdObjectPane -----------------------------
(***************************************************************************)
(* The object the Active Directory page shows (AdExplorerPage.jsx): the    *)
(* selection and the window of properties, and what is loaded for them     *)
(* after the fact: the details of a user, the members of a group, the      *)
(* security descriptor.  The page runs on one thread; a call under way is  *)
(* a task, and another call may begin before it is answered.               *)
(***************************************************************************)
EXTENDS Naturals, FiniteSets

CONSTANTS User, Group,
          NoObject,
          Task,         \* the calls that may be under way at once
          NoTask,
          MaxVersion,   \* bound: changes of the directory
          MaxCalls      \* bound: calls the user makes

\* What the constants are assumed to be.
Kinds == /\ User \cap Group = {} /\ NoObject \notin User \cup Group
         /\ NoTask \notin Task

VARIABLES dir,          \* the version of each user in the directory
          task,         \* the calls under way
          calls,
          selected,     \* selectedObject, with the details merged into it
          ids,          \* selectedObjectIds
          window,       \* propertiesModal
          request,      \* propertiesDetailsRequestIdRef.current
          cache,        \* userDetailsCacheRef.current
          shared,       \* userDetailsPromisesRef.current: whose job it is
          members,      \* objectMembers: whose
          membersMode,
          membersLoading,
          descriptor,   \* securityDescriptor: whose
          descriptorLoading,
          invalidated,  \* history: users whose cache an update has emptied
          outcome       \* history: the last account action refreshed: what it wrote,
                        \* and what the refresh then showed

paneVars == <<selected, ids, window, request>>
detailVars == <<cache, shared, invalidated>>
memberVars == <<members, membersMode, membersLoading>>
descriptorVars == <<descriptor, descriptorLoading>>
vars == <<dir, task, calls, paneVars, detailVars, memberVars, descriptorVars, outcome>>

Object == User \cup Group
NoCall == [op |-> "none"]

\* An object as the page holds it: its details, if any, are those of a user, of
\* a version of it (0: only what the snapshot or the view gave).
Item == [of : Object, details : Object \cup {NoObject}, version : 0 .. MaxVersion]
NoItem == [of |-> NoObject, details |-> NoObject, version |-> 0]
Plain(o) == [of |-> o, details |-> NoObject, version |-> 0]

NoOutcome == [of |-> NoObject, acted |-> 0, shown |-> 0]

\* mergeAdUserDetails: the details replace what the object had.
Merged(item, o, version) == [item EXCEPT !.details = o, !.version = version]

Init ==
    /\ dir = [u \in User |-> 1]
    /\ task = [t \in Task |-> NoCall]
    /\ calls = 0
    /\ selected = NoItem /\ window = NoItem /\ ids = {} /\ request = 0
    /\ cache = [u \in User |-> 0]
    /\ shared = [u \in User |-> NoTask]
    /\ invalidated = {}
    /\ members = NoObject /\ membersMode = "direct" /\ membersLoading = FALSE
    /\ descriptor = NoObject /\ descriptorLoading = FALSE
    /\ outcome = NoOutcome

\* Another administrator, or a job of the page, changes a user.
ChangeUser(u) ==
    /\ dir[u] < MaxVersion
    /\ dir' = [dir EXCEPT ![u] = @ + 1]
    /\ UNCHANGED <<task, calls, paneVars, detailVars, memberVars, descriptorVars, outcome>>

-----------------------------------------------------------------------------
(* The details of a user *)

\* getUserDetailsCacheKey: the identity and a revision read from when_changed,
\* whenChanged or usn_changed.  The agent sends updated_at for a user and none
\* of those (EitasAdSnapshot.ps1:925, EitasAdLookup.ps1:290), so the revision is
\* always empty and the identity is the whole key.
CacheKey(u) == u

\* invalidateUserDetailsCache, which an update that keeps its form open calls.
ForgottenBut(u) == [cache EXCEPT ![CacheKey(u)] = 0]
Invalidate(u) ==
    /\ cache' = ForgottenBut(u)
    /\ shared' = [shared EXCEPT ![CacheKey(u)] = NoTask]
    /\ invalidated' = invalidated \cup {u}
    /\ dir' = [dir EXCEPT ![u] = IF @ < MaxVersion THEN @ + 1 ELSE @]
    /\ UNCHANGED <<task, calls, paneVars, memberVars, descriptorVars, outcome>>

\* runAdUserDetailsJob, a call that does not force: a job under way is shared.
SharesNothing(t, u) == t                       \* mutant: the job under way is not looked up
Sharing(t, u) == IF shared[CacheKey(u)] = NoTask THEN t ELSE shared[CacheKey(u)]

Fetching == {"prefetch", "properties", "refresh"}
Waits(t, job) == task[t].op \in Fetching /\ task[t].job = job

\* mergeAdUserDetails where the object is still the one shown.
MatchesAnything(item, o) == item.of # NoObject        \* mutant: whatever is shown takes them
Matches(item, o) == item.of = o

\* What a call makes of what is shown once it has the details: prefetchUserDetails
\* and refreshAccountTarget merge them, openProperties shows the object it was
\* called with unless the window has been opened again since.
Shown(item, op, o, version, req) ==
    IF ~Matches(item, o) \/ (op = "properties" /\ req # request') THEN item
    ELSE Merged(item, o, version)

\* A call for the details of o, when sel and win have become what is shown.  The
\* cache answers within the turn of the event loop.
AskDetails(t, op, o, sel, win, acted) ==
    /\ task[t] = NoCall /\ calls < MaxCalls
    /\ calls' = calls + 1
    /\ IF o \notin User
       THEN /\ selected' = sel /\ window' = win
            /\ UNCHANGED <<task, detailVars, outcome>>
       ELSE IF cache[CacheKey(o)] # 0
       THEN /\ selected' = Shown(sel, op, o, cache[CacheKey(o)], request')
            /\ window' = Shown(win, op, o, cache[CacheKey(o)], request')
            /\ outcome' = IF op # "refresh" THEN outcome
                          ELSE [of |-> o, acted |-> acted, shown |-> cache[CacheKey(o)]]
            /\ UNCHANGED <<task, detailVars>>
       ELSE /\ selected' = sel /\ window' = win
            /\ task' = [task EXCEPT ![t] =
                  [op |-> op, of |-> o, request |-> request', acted |-> acted,
                   job |-> Sharing(t, o), got |-> "nothing", version |-> 0]]
            /\ shared' = [shared EXCEPT ![CacheKey(o)] = Sharing(t, o)]
            /\ UNCHANGED <<cache, invalidated, outcome>>

\* The job of a get_user reads the user, fails, or times out.
JobAnswers(t) ==
    /\ Waits(t, t) /\ task[t].got = "nothing"
    /\ \E got \in {"read", "failed"} :
          task' = [task EXCEPT ![t].got = got, ![t].version = dir[task[t].of]]
    /\ UNCHANGED <<dir, calls, paneVars, detailVars, memberVars, descriptorVars, outcome>>

\* Its answer arrives: kept, taken out of the map of the shared ones if it is
\* still there, and shown by every call that awaited it.
DetailsArrive(t) ==
    LET u == task[t].of
        read == task[t].got = "read"
        callers == {c \in Task : Waits(c, t)}
        news(item) == {Shown(item, task[c].op, u, task[t].version, task[c].request) :
                         c \in callers} \ {item}
        showing(item) == IF read /\ news(item) # {} THEN Merged(item, u, task[t].version)
                         ELSE item
        refreshed == {c \in callers : read /\ task[c].op = "refresh"}
    IN /\ Waits(t, t) /\ task[t].got # "nothing"
       /\ cache' = IF read THEN [cache EXCEPT ![CacheKey(u)] = task[t].version] ELSE cache
       /\ shared' = [shared EXCEPT ![CacheKey(u)] = IF @ = t THEN NoTask ELSE @]
       /\ request' = request
       /\ selected' = showing(selected)
       /\ window' = showing(window)
       /\ \/ /\ refreshed = {}
             /\ UNCHANGED outcome
          \/ \E c \in refreshed :
                outcome' = [of |-> u, acted |-> task[c].acted, shown |-> task[t].version]
       /\ task' = [c \in Task |-> IF c \in callers THEN NoCall ELSE task[c]]
       /\ UNCHANGED <<dir, calls, ids, invalidated, memberVars, descriptorVars>>

-----------------------------------------------------------------------------
(* Selecting, opening, closing *)

\* loadGroupMembers up to its await; a recursive reading is a job, a direct one
\* is answered by the snapshot if it can.
AskMembers(t, g, recursive) ==
    /\ task' = [task EXCEPT ![t] = [op |-> "members", of |-> g]]
    /\ membersMode' = IF recursive THEN "recursive" ELSE "direct"
    /\ membersLoading' = TRUE

\* activateAdExplorerPrimaryObject: the object is shown, and what it needs asked.
Activate(t, o) ==
    /\ members' = NoObject
    /\ IF o \in Group
       THEN /\ task[t] = NoCall /\ calls < MaxCalls
            /\ calls' = calls + 1
            /\ selected' = Plain(o)
            /\ AskMembers(t, o, FALSE)
            /\ UNCHANGED <<window, detailVars, outcome>>
       ELSE /\ AskDetails(t, "prefetch", o, Plain(o), window, 0)
            /\ membersMode' = "direct"
            /\ UNCHANGED membersLoading

\* selectObject and the keyboard's selection of everything: the object clicked is
\* shown if it is among those selected, else another of those.
SelectObject(t, o, chosen) ==
    /\ o \in chosen
    /\ ids' = chosen
    /\ request' = request
    /\ Activate(t, o)
    /\ UNCHANGED <<dir, descriptorVars>>

\* openLinkedObject selects the object and opens its window.
OpenLinkedObject(t, o) ==
    /\ ids' = {o}
    /\ request' = request
    /\ o \in User
    /\ members' = NoObject /\ membersMode' = "direct"
    /\ AskDetails(t, "prefetch", o, Plain(o), Plain(o), 0)
    /\ UNCHANGED <<dir, membersLoading, descriptorVars>>

OpenProperties(t, o) ==
    /\ request' = request + 1
    /\ AskDetails(t, "properties", o, Plain(o), Plain(o), 0)
    /\ UNCHANGED <<dir, ids, memberVars, descriptorVars>>

CloseProperties ==
    /\ window # NoItem
    /\ window' = NoItem
    /\ UNCHANGED <<dir, task, calls, selected, ids, request, detailVars, memberVars,
                   descriptorVars, outcome>>

\* clearAdExplorerSelection; a navigation does the same to what is shown.
ClearSelection ==
    /\ selected # NoItem
    /\ selected' = NoItem /\ ids' = {}
    /\ members' = NoObject /\ membersMode' = "direct"
    /\ UNCHANGED <<dir, task, calls, window, request, detailVars, membersLoading,
                   descriptorVars, outcome>>

\* A new snapshot: the object shown is the snapshot's, or none if it is not there;
\* without an object, nothing stays selected.
RevisionEffect ==
    /\ selected # NoItem
    /\ \/ /\ selected' = Plain(selected.of)
          /\ UNCHANGED ids
       \/ /\ selected' = NoItem
          /\ ids' = {}
    /\ UNCHANGED <<dir, task, calls, window, request, detailVars, memberVars,
                   descriptorVars, outcome>>

\* The job of an account action has ended: refreshAccountTarget reads the details
\* of its target, by the same call as the others.
AccountActionEnds(t, u) ==
    /\ dir[u] < MaxVersion
    /\ dir' = [dir EXCEPT ![u] = @ + 1]
    /\ request' = request
    /\ AskDetails(t, "refresh", u, selected, window, dir'[u])
    /\ UNCHANGED <<ids, memberVars, descriptorVars>>

-----------------------------------------------------------------------------
(* Members and permissions *)

\* The button that reads the members again, directly or recursively.
LoadGroupMembers(t, recursive) ==
    /\ selected.of \in Group
    /\ task[t] = NoCall /\ calls < MaxCalls
    /\ calls' = calls + 1
    /\ AskMembers(t, selected.of, recursive)
    /\ UNCHANGED <<dir, paneVars, detailVars, members, descriptorVars, outcome>>

\* The members are shown whatever is selected by then.
MembersArrive(t) ==
    /\ task[t].op = "members"
    /\ members' \in {task[t].of, NoObject}
    /\ membersLoading' = FALSE
    /\ task' = [task EXCEPT ![t] = NoCall]
    /\ UNCHANGED <<dir, calls, paneVars, detailVars, membersMode, descriptorVars, outcome>>

\* loadSecurityDescriptor: the descriptor shown is kept for the same object, and
\* removed for another.
LoadSecurityDescriptor(t, o, force) ==
    /\ o = selected.of /\ o # NoObject
    /\ force \/ descriptor # o
    /\ task[t] = NoCall /\ calls < MaxCalls
    /\ calls' = calls + 1
    /\ task' = [task EXCEPT ![t] = [op |-> "descriptor", of |-> o]]
    /\ descriptorLoading' = TRUE
    /\ descriptor' = IF descriptor = o THEN o ELSE NoObject
    /\ UNCHANGED <<dir, paneVars, detailVars, memberVars, outcome>>

DescriptorArrives(t) ==
    /\ task[t].op = "descriptor"
    /\ descriptor' \in {task[t].of, descriptor}
    /\ descriptorLoading' = FALSE
    /\ task' = [task EXCEPT ![t] = NoCall]
    /\ UNCHANGED <<dir, calls, paneVars, detailVars, memberVars, outcome>>

Next ==
    \/ CloseProperties \/ ClearSelection \/ RevisionEffect
    \/ \E u \in User : ChangeUser(u) \/ Invalidate(u)
    \/ \E t \in Task :
        \/ \E o \in Object :
            \/ \E chosen \in SUBSET Object : SelectObject(t, o, chosen)
            \/ OpenProperties(t, o)
            \/ \E force \in BOOLEAN : LoadSecurityDescriptor(t, o, force)
        \/ \E u \in User : OpenLinkedObject(t, u) \/ AccountActionEnds(t, u)
        \/ \E recursive \in BOOLEAN : LoadGroupMembers(t, recursive)
        \/ JobAnswers(t) \/ DetailsArrive(t) \/ MembersArrive(t) \/ DescriptorArrives(t)

Spec == Init /\ [][Next]_vars

-----------------------------------------------------------------------------
(* Properties *)

\* What is shown of an object, in the pane or in the window, is never the details
\* of another, however late they come ("une reponse ancienne ne peut donc pas
\* remplacer une autre fenetre de proprietes", AdExplorerPage.jsx:3292).
PaneKeepsItsObject ==
    \A item \in {selected, window} : item.details \in {NoObject, item.of}

\* Two readings of one user's details are never under way at once, unless an
\* update has meanwhile declared the first one stale.
DetailsAreShared ==
    \A t, u \in Task :
        Waits(t, t) /\ Waits(u, u) /\ t # u /\ task[t].of = task[u].of
            => task[t].of \in invalidated

\* The refresh after an account action shows the account as the action left it.
AccountRefreshIsFresh == outcome.shown >= outcome.acted
=============================================================================
