---------------------------- MODULE AdObjectActions ----------------------------
(***************************************************************************)
(* The dialogs by which the Active Directory page changes one object: move *)
(* (also by drag and drop), rename, delete, the account actions, and the   *)
(* creation of a computer.  Each posts one job and waits for it; the page  *)
(* stays alive meanwhile, and its flag loading belongs to the navigation   *)
(* as much as to two of these dialogs.                                     *)
(***************************************************************************)
EXTENDS Naturals, FiniteSets

CONSTANTS Object,
          NoObject,
          Structural,   \* the units and containers among the objects
          Managed,      \* the objects under OU=EITAS
          Account,      \* the objects the account actions are offered for
          Above,        \* of each object, those it is in, at any depth
          Parent,       \* the one it is directly in
          MaxJobs,      \* bound: jobs posted
          MaxOpens,     \* bound: dialogs the user opens
          MaxFlips      \* bound: changes of the agent's mode

\* What the constants are assumed to be.
Tree == /\ NoObject \notin Object
        /\ Structural \subseteq Object /\ Managed \subseteq Object
        /\ Account \subseteq Object
        /\ \A o \in Object : /\ Above[o] \subseteq Structural
                             /\ Parent[o] \in Above[o] \cup {NoObject}

VARIABLES mode,         \* the agent's mode, on the server
          flips,
          shown,        \* adAgentMode, as last read
          modeAsked,    \* adAgentModeLoading
          dialog,       \* what each dialog is open for and what was typed in it
          options,      \* moveOuOptions
          optionsFor,   \* the targets of the loadings under way
          moveOuLoading,    \* one flag for them all
          verifying,    \* the account actions that await the mode
          preparing,    \* the account dialogs about to open: how many, for whom
          checking,     \* accountActionModeLoading
          running,      \* the jobs posted and not ended
          busy,         \* the flags that close and submit look at
          cleared,      \* history: a flag fell that another call still needed
          jobs,         \* how many have been posted
          opens         \* how many dialogs the user has opened

modeVars == <<mode, flips, shown, modeAsked>>
moveVars == <<options, optionsFor, moveOuLoading>>
accountVars == <<verifying, preparing, checking>>
jobVars == <<running, busy, cleared, jobs>>
vars == <<modeVars, dialog, moveVars, accountVars, jobVars, opens>>

Kind == {"move", "rename", "delete", "account", "computer"}
Mode == {"Simulation", "Production"}
Closed == [of |-> NoObject, to |-> NoObject, mode |-> "none", typed |-> FALSE]
\* The flag each dialog's buttons look at.  Rename and delete use the page's own.
Flag(kind) ==
    CASE kind = "move" -> "admin"
      [] kind \in {"rename", "delete"} -> "loading"
      [] kind = "account" -> "account"
      [] kind = "computer" -> "computer"

Init ==
    /\ mode \in Mode /\ flips = 0 /\ shown = "Inconnu" /\ modeAsked = FALSE
    /\ dialog = [k \in Kind |-> Closed]
    /\ options = {} /\ optionsFor = {} /\ moveOuLoading = FALSE
    /\ verifying = {} /\ preparing = [o \in Object |-> 0] /\ checking = FALSE
    /\ running = {} /\ busy = {} /\ cleared = FALSE /\ jobs = 0 /\ opens = 0

\* A dialog covers the page: the user reaches the page when none is open.
Reaches ==
    /\ \A k \in Kind : dialog[k] = Closed
    /\ opens < MaxOpens
    /\ opens' = opens + 1

-----------------------------------------------------------------------------
(* The mode *)

FlipMode ==
    /\ flips < MaxFlips
    /\ flips' = flips + 1
    /\ mode' \in Mode \ {mode}
    /\ UNCHANGED <<shown, modeAsked, dialog, moveVars, accountVars, jobVars, opens>>

\* loadAdAgentMode answers the page; a failure shows "Inconnu".
ModeArrives ==
    /\ modeAsked
    /\ modeAsked' = FALSE
    /\ shown' \in {mode, "Inconnu"}
    /\ UNCHANGED <<mode, flips, dialog, moveVars, accountVars, jobVars, opens>>

-----------------------------------------------------------------------------
(* Moving *)

IsMoveDestinationItself(o, to) == to = o       \* mutant: descendants are let through
IsMoveDestinationBlocked(o, to) == to = o \/ o \in Above[to]
MoveCurrentParent(o) == Parent[o]

\* buildMoveOuOptions: every managed place but the current one and those inside.
BuildMoveOptions(o, places) ==
    {to \in places \cap Structural \cap Managed :
        to # MoveCurrentParent(o) /\ ~IsMoveDestinationBlocked(o, to)}

\* getMoveValidationError, which the dialog and its submission both ask.  A
\* container has to be among the options, a unit need not.
MoveIsValid(o, to) ==
    /\ o # NoObject /\ to # NoObject
    /\ to \in Structural
    /\ to \in Managed
    /\ to # MoveCurrentParent(o)
    /\ ~IsMoveDestinationBlocked(o, to)

\* openMoveObject: the tree's options at once, the agent's a little later.
OpenedMove(o, to) ==
    /\ o \in Managed
    /\ dialog' = [dialog EXCEPT !["move"] = [Closed EXCEPT !.of = o, !.to = to]]
    /\ options' = BuildMoveOptions(o, Object)
    /\ optionsFor' = optionsFor \cup {o} /\ moveOuLoading' = TRUE
    /\ modeAsked' = TRUE
OpenMoveObject(o) ==
    /\ Reaches
    /\ OpenedMove(o, NoObject)
    /\ UNCHANGED <<mode, flips, shown, accountVars, jobVars>>

\* loadMoveOuOptions answers: the options are those of its target, whatever the
\* dialog has been opened for since, and the first answer lowers the flag.
MoveOptionsArrive(o) ==
    /\ o \in optionsFor
    /\ optionsFor' = optionsFor \ {o} /\ moveOuLoading' = FALSE
    /\ \E places \in {Object, {}} :
          options' = IF places = {} THEN options ELSE BuildMoveOptions(o, places)
    /\ UNCHANGED <<modeVars, dialog, accountVars, jobVars, opens>>

\* A destination is chosen from the list, or typed.
ChooseDestination(to) ==
    /\ dialog["move"].of # NoObject /\ "admin" \notin busy
    /\ to \in options \cup Structural
    /\ dialog' = [dialog EXCEPT !["move"].to = to]
    /\ UNCHANGED <<modeVars, moveVars, accountVars, jobVars, opens>>

\* getAdExplorerDropError
DropIsRefused(o, to) ==
    \/ o \notin Managed \/ to \notin Structural \/ to \notin Managed
    \/ to = Parent[o]
    \/ to = o \/ o \in Above[to]

\* startAdExplorerDrag to dropAdExplorerObject: the drop prepares a move, it does
\* not carry it out.
DragAndDrop(o, to) ==
    /\ Reaches
    /\ ~DropIsRefused(o, to)
    /\ OpenedMove(o, to)
    /\ UNCHANGED <<mode, flips, shown, accountVars, jobVars>>

-----------------------------------------------------------------------------
(* Opening, typing, closing *)

\* openRenameObject, openDeleteObject; delete asks for the DN to be typed.
OpenFor(kind, o) ==
    /\ kind \in {"rename", "delete"}
    /\ Reaches /\ o \in Managed
    /\ dialog' = [dialog EXCEPT ![kind] = [Closed EXCEPT !.of = o]]
    /\ UNCHANGED <<modeVars, moveVars, accountVars, jobVars>>

\* openCreateComputerModal: the form stands for the object to be.
OpenCreateComputer(o) ==
    /\ Reaches /\ o \in Structural \cap Managed
    /\ dialog' = [dialog EXCEPT !["computer"] = [Closed EXCEPT !.of = o]]
    /\ modeAsked' = TRUE
    /\ UNCHANGED <<mode, flips, shown, moveVars, accountVars, jobVars>>

\* The confirmation the dialog asks for: a name, the DN or PRODUCTION.
Type(kind) ==
    /\ kind \in {"rename", "delete", "account", "computer"}
    /\ dialog[kind].of # NoObject /\ ~dialog[kind].typed /\ Flag(kind) \notin busy
    /\ dialog' = [dialog EXCEPT ![kind].typed = TRUE]
    /\ UNCHANGED <<modeVars, moveVars, accountVars, jobVars, opens>>

Close(kind) ==
    /\ dialog[kind].of # NoObject
    /\ Flag(kind) \notin busy
    /\ dialog' = [dialog EXCEPT ![kind] = Closed]
    /\ options' = IF kind = "move" THEN {} ELSE options
    /\ UNCHANGED <<modeVars, optionsFor, moveOuLoading, accountVars, jobVars, opens>>

-----------------------------------------------------------------------------
(* Posting a job, and its end *)

\* setLoading(true) and its like, before the first await of a submission.
NotFlagged(flag) == busy                       \* mutant: the flag is forgotten
Flagged(flag) == busy \cup {flag}

\* runAdAdminJob up to its await.
Post(kind, d, verified, flag) ==
    /\ jobs < MaxJobs
    /\ jobs' = jobs + 1
    /\ running' = running \cup {[kind |-> kind, of |-> d.of, to |-> d.to, n |-> jobs,
                                  verified |-> verified, mode |-> d.mode, typed |-> d.typed]}
    /\ busy' = Flagged(flag)
    /\ UNCHANGED cleared

\* What the dialogs let through: the conditions of their submit buttons.
MoveModalOffers ==
    /\ "admin" \notin busy /\ ~moveOuLoading /\ ~modeAsked
    /\ MoveIsValid(dialog["move"].of, dialog["move"].to)
RenameModalOffers == dialog["rename"].typed /\ "loading" \notin busy
DeleteModalOffers == dialog["delete"].typed /\ "loading" \notin busy
ComputerModalOffers ==
    /\ dialog["computer"].of # NoObject
    /\ "computer" \notin busy /\ ~modeAsked
    /\ shown = "Production" => dialog["computer"].typed
AccountModalOffers ==
    /\ dialog["account"].of # NoObject
    /\ "account" \notin busy /\ ~checking
    /\ dialog["account"].mode = "Production" => dialog["account"].typed

\* submitMoveObject; in Production the browser asks for a confirmation.
SubmitMove ==
    /\ MoveModalOffers
    /\ MoveIsValid(dialog["move"].of, dialog["move"].to)
    /\ Post("move", dialog["move"], shown, "admin")
    /\ UNCHANGED <<modeVars, dialog, moveVars, accountVars, opens>>

\* Rename and delete are posted whatever the mode.
SubmitRename ==
    /\ RenameModalOffers
    /\ Post("rename", dialog["rename"], "none", "loading")
    /\ UNCHANGED <<modeVars, dialog, moveVars, accountVars, opens>>
SubmitDelete ==
    /\ DeleteModalOffers
    /\ Post("delete", dialog["delete"], "none", "loading")
    /\ UNCHANGED <<modeVars, dialog, moveVars, accountVars, opens>>

\* submitCreateComputer: the mode is the one last read.
SubmitCreateComputer ==
    /\ ComputerModalOffers
    /\ Post("computer", dialog["computer"], shown, "computer")
    /\ UNCHANGED <<modeVars, dialog, moveVars, accountVars, opens>>

\* The job answers, or the page stops waiting: a success closes the dialog of its
\* kind, whatever it shows by then.
JobEnds(j) ==
    /\ j \in running
    /\ running' = running \ {j}
    /\ busy' = busy \ {Flag(j.kind)}
    /\ cleared' = (cleared \/ \E i \in running' : Flag(i.kind) = Flag(j.kind))
    /\ dialog' \in {dialog, [dialog EXCEPT ![j.kind] = Closed]}
    /\ options' = IF j.kind = "move" /\ dialog'["move"] = Closed THEN {} ELSE options
    /\ UNCHANGED <<modeVars, optionsFor, moveOuLoading, accountVars, jobs, opens>>

\* A navigation begins or ends: it owns loading too.
PageLoads == /\ "loading" \notin busy
             /\ busy' = busy \cup {"loading"}
             /\ UNCHANGED <<modeVars, dialog, moveVars, accountVars, running, cleared, jobs, opens>>
PageLoaded == /\ "loading" \in busy
              /\ busy' = busy \ {"loading"}
              /\ cleared' = (cleared \/ \E j \in running : Flag(j.kind) = "loading")
              /\ UNCHANGED <<modeVars, dialog, moveVars, accountVars, running, jobs, opens>>

-----------------------------------------------------------------------------
(* Account actions: the mode is read before the dialog opens and again before *)
(* the job is posted.                                                         *)

PrepareAccountAction(o) ==
    /\ Reaches /\ o \in Managed \cap Account
    /\ preparing[o] < 2
    /\ preparing' = [preparing EXCEPT ![o] = @ + 1]
    /\ checking' = TRUE
    /\ UNCHANGED <<modeVars, dialog, moveVars, verifying, jobVars>>

\* The flag falls for every reading of the mode that is still awaited.
ModeRead == /\ checking' = FALSE
            /\ shown' \in {mode, "Inconnu"}

\* The dialog opens, over whatever the user has opened since.
AccountDialogOpens(o) ==
    /\ preparing[o] > 0
    /\ preparing' = [preparing EXCEPT ![o] = @ - 1]
    /\ ModeRead
    /\ cleared' = (cleared \/ verifying # {})
    /\ dialog' = IF shown' = "Inconnu" THEN dialog
                 ELSE [dialog EXCEPT !["account"] =
                          [Closed EXCEPT !.of = o, !.mode = shown']]
    /\ UNCHANGED <<mode, flips, modeAsked, moveVars, verifying, running, busy, jobs, opens>>

\* submitAccountAction up to its await: what it goes on with is what the dialog
\* showed at the click, confirmation included.
SubmitAccountAction ==
    /\ AccountModalOffers
    /\ verifying' = verifying \cup {[d |-> dialog["account"], n |-> Cardinality(verifying)]}
    /\ checking' = TRUE
    /\ UNCHANGED <<modeVars, dialog, moveVars, preparing, jobVars, opens>>

\* The rest: the mode has to be the one the dialog showed.
AnyKnownMode(verified, d) == TRUE              \* mutant: the two readings are not compared
SameMode(verified, d) == verified = d.mode
ModeVerified(v) ==
    /\ v \in verifying
    /\ verifying' = verifying \ {v}
    /\ ModeRead
    /\ \/ /\ shown' = "Inconnu"
          /\ UNCHANGED <<dialog, jobVars>>
       \/ /\ shown' # "Inconnu" /\ ~SameMode(shown', v.d)
          \* The dialog is updated, though it may be another one or none by now.
          /\ dialog' = [dialog EXCEPT !["account"].mode = shown', !["account"].typed = FALSE]
          /\ UNCHANGED jobVars
       \/ /\ shown' # "Inconnu" /\ SameMode(shown', v.d)
          /\ Post("account", v.d, shown', "account")
          /\ UNCHANGED dialog
    /\ UNCHANGED <<mode, flips, modeAsked, moveVars, preparing, opens>>

Next ==
    \/ FlipMode \/ ModeArrives \/ PageLoads \/ PageLoaded
    \/ SubmitAccountAction
    \/ \E v \in verifying : ModeVerified(v)
    \/ SubmitMove \/ SubmitRename \/ SubmitDelete \/ SubmitCreateComputer
    \/ \E kind \in Kind :
        \/ Type(kind) \/ Close(kind)
        \/ \E o \in Object : OpenFor(kind, o)
    \/ \E o \in Object :
        \/ OpenMoveObject(o) \/ MoveOptionsArrive(o) \/ ChooseDestination(o)
        \/ OpenCreateComputer(o) \/ PrepareAccountAction(o) \/ AccountDialogOpens(o)
        \/ \E to \in Object : DragAndDrop(o, to)
    \/ \E j \in running : JobEnds(j)

Spec == Init /\ [][Next]_vars

-----------------------------------------------------------------------------
(* Properties *)

\* What is posted is what the user was shown and confirmed: a move never goes
\* into its own object or where that already is, though the options shown may be
\* another object's; an account action is sent in the mode its dialog announced,
\* and in Production only when confirmed for it, though the dialog may have been
\* closed or opened again during the reading of the mode.
JobsAreWhatWasConfirmed ==
    \A j \in running :
        /\ j.kind = "move" => /\ j.to \in Managed \ {j.of, Parent[j.of]}
                              /\ j.of \notin Above[j.to]
        /\ j.kind = "account" => /\ j.verified = j.mode
                                 /\ j.mode = "Production" => j.typed

\* One job is under way twice at a time only where a flag that the buttons look
\* at is not the dialog's own: a navigation that ended, the end of another job or
\* the opening of another dialog has cleared it.
NoSecondSubmission ==
    \A i, j \in running :
        i.kind = j.kind /\ i.of = j.of /\ i # j => cleared
=============================================================================
