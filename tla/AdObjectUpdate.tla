---------------------------- MODULE AdObjectUpdate ----------------------------
(***************************************************************************)
(* The editing of an object's attributes, in the properties window or in   *)
(* the dialog of its own.  The form is made at once from what the list     *)
(* holds; the options that only the directory knows come later, in an      *)
(* answer that must neither reach the form of another object nor undo what *)
(* the user typed meanwhile.  A save posts the fields that differ from     *)
(* their original.                                                         *)
(***************************************************************************)
EXTENDS Naturals, FiniteSets

CONSTANTS Object,
          Nothing,
          Field,        \* the fields of the form
          Detailed,     \* those the directory's answer overwrites
          Late,         \* those of them that the list may not hold
          Manager,      \* the field the manager picker fills
          Text,         \* what a field can hold
          Blank,
          Directory,    \* what each field of each object holds
          MaxCalls      \* bound: preparations, saves and waits for the mode

\* What the constants are assumed to be.
Fields == /\ Late \subseteq Detailed /\ Detailed \subseteq Field
          /\ Manager \in Field \ Detailed
          /\ Blank \in Text /\ Nothing \notin Object \cup Text
          /\ Directory \in [Object -> [Field -> Text]]

VARIABLES window,       \* propertiesModal: its object, and editing
          update,       \* updateModal, updateForm, updateOriginalForm and the rest
          answers,      \* the readings of the details under way, each with whether
                        \* updatePreparationRequestIdRef still is the number it got
          waits,        \* the openings of another editor that wait for the mode
          loading,      \* the flag that the page and this form share
          saves,        \* the jobs posted and not ended
          calls,
          typed,        \* history: what the user set in the form on show
          known,        \* history: what the form on show said each field held
          crossed       \* history: another call freed the form during a save, or
                        \* details read before a save came after it

vars == <<window, update, answers, waits, loading, saves, calls,
          typed, known, crossed>>

Untouched == [f \in Field |-> Nothing]
NoUpdate == [target |-> Nothing, editor |-> FALSE, pending |-> {}, dirty |-> {},
             form |-> [f \in Field |-> Blank], original |-> [f \in Field |-> Blank]]

Init ==
    /\ window = [of |-> Nothing, editing |-> FALSE]
    /\ update = NoUpdate
    /\ answers = {} /\ waits = 0 /\ loading = FALSE /\ saves = {} /\ calls = 0
    /\ typed = Untouched /\ known = [f \in Field |-> Blank] /\ crossed = FALSE

Calls == calls < MaxCalls /\ calls' = calls + 1

-----------------------------------------------------------------------------
(* Preparing the form *)

\* The request number moves on.
Overtaken == {[r EXCEPT !.current = FALSE] : r \in answers}

\* getAdAttributeValue, getAdBooleanAttributeValue and their kind: a field that
\* the object at hand does not carry is blank, or false.
FormOf(o, missing) == [f \in Field |-> IF f \in missing THEN Blank ELSE Directory[o][f]]

\* getMissingUserAccountOptionFields and its two kin: nothing for an object that is
\* not a user, or whose cached details resolveUserUpdateTargetSync gives.
Missing == {{}, Late}

\* prepareUpdateObject, with the form it starts from; what is missing is asked for,
\* and the rest can be edited at once.
Prepares(o, missing, cleared, editor) ==
    LET form == FormOf(o, missing) IN
    /\ update' = [target |-> o, editor |-> editor, pending |-> missing, dirty |-> {},
                  original |-> form, form |-> [f \in Field |-> IF f \in cleared THEN Blank
                                                               ELSE form[f]]]
    /\ answers' = Overtaken \cup {[of |-> o, current |-> TRUE] : f \in missing}
    /\ typed' = [f \in Field |-> IF f \in cleared THEN Blank ELSE Nothing]
    /\ known' = Directory[o]

\* closeUpdateObject; what the form still holds is not read before it is made anew.
Closes == /\ update' = NoUpdate /\ answers' = Overtaken
          /\ typed' = Untouched /\ known' = NoUpdate.form

-----------------------------------------------------------------------------
(* The two surfaces *)

Uncovered == window.of = Nothing /\ ~update.editor

\* openObjectDetails, and openLinkedObject, whose resolution may end on any
\* object already shown: the effect on the identity leaves the editing.
ShowProperties(o) ==
    /\ Uncovered \/ window.of \notin {o, Nothing}
    /\ window' = [of |-> o, editing |-> FALSE]
    /\ UNCHANGED <<update, answers, waits, loading, saves, calls, typed, known, crossed>>

\* The managed scope is checked on the way in; Object is inside it.
OpenUpdateObject(o) ==
    /\ Uncovered /\ Calls
    /\ \E missing \in Missing : Prepares(o, missing, {}, TRUE)
    /\ UNCHANGED <<window, waits, loading, saves, crossed>>

\* beginEditing, beginClearingManager
BeginEditing ==
    /\ window.of # Nothing /\ ~loading /\ ~window.editing /\ Calls
    /\ \E missing \in Missing, cleared \in {{}, {Manager}} :
           Prepares(window.of, missing, cleared, FALSE)
    /\ window' = [window EXCEPT !.editing = TRUE]
    /\ UNCHANGED <<waits, loading, saves, crossed>>

\* beginLdapEditing, beginHabSimulation up to their await
BeginOtherEditor ==
    /\ window.of # Nothing /\ ~loading /\ ~window.editing /\ Calls
    /\ waits' = waits + 1
    /\ UNCHANGED <<window, update, answers, loading, saves, typed, known, crossed>>
\* The mode is there: the form, whichever is open by then, gives way.
OtherEditorOpens ==
    /\ waits > 0 /\ waits' = waits - 1
    /\ Closes /\ window' = [window EXCEPT !.editing = FALSE]
    /\ UNCHANGED <<loading, saves, calls, crossed>>

\* cancelEditing; discardAndClose, which Escape calls too; copyCurrentUser; and
\* the Cancel button of the dialog of its own.
CloseForm ==
    /\ ~loading /\ ~Uncovered
    /\ Closes
    /\ window' \in {[window EXCEPT !.editing = FALSE], [of |-> Nothing, editing |-> FALSE]}
    /\ UNCHANGED <<waits, loading, saves, calls, crossed>>

-----------------------------------------------------------------------------
(* Typing, and the details that come late *)

FormIsShown == update.editor \/ window.editing
\* updateObjectFormField
Sets(f, v) ==
    /\ update' = [update EXCEPT !.form[f] = v, !.dirty = @ \cup {f}]
    /\ typed' = [typed EXCEPT ![f] = v]

\* UpdateObjectForm disables every field during a save and those still pending.
FormOffers(f) == FormIsShown /\ ~loading /\ f \notin update.pending
TypeField(f, v) ==
    /\ FormOffers(f) /\ v # update.form[f]
    /\ Sets(f, v)
    /\ UNCHANGED <<window, answers, waits, loading, saves, calls, known, crossed>>
\* selectManagerCandidate: the found users stay on offer during a save.
SelectManager(v) ==
    /\ FormIsShown /\ v # update.form[Manager]
    /\ Sets(Manager, v)
    /\ UNCHANGED <<window, answers, waits, loading, saves, calls, known, crossed>>

AnyRequest(r) == TRUE                          \* mutant: overtaken details are used
CurrentRequest(r) == r.current
AnyField == Detailed                           \* mutant: details undo what was typed
CleanFields == Detailed \ update.dirty
\* getUserAccountOptionPatch and its two kin
Patched(form, read, fields) == [f \in Field |-> IF f \in fields THEN read[f] ELSE form[f]]
\* The details arrive, as they were when read or as a save left them since; or
\* they do not, or not whole, and what is pending stays so.
DetailsArrive(r) ==
    /\ r \in answers /\ answers' = answers \ {r}
    /\ \/ UNCHANGED <<update, crossed>>
       \/ /\ CurrentRequest(r)
          /\ \E read \in {Directory[r.of], known} :
                 /\ update' = [update EXCEPT
                       !.pending = {},
                       !.original = Patched(@, read, Detailed),
                       !.form = Patched(@, read, CleanFields)]
                 /\ crossed' = (crossed \/ (r.of = update.target /\ read # known))
    /\ UNCHANGED <<window, waits, loading, saves, calls, typed, known>>

-----------------------------------------------------------------------------
(* Saving *)

\* getChangedUpdateProperties
ChangedProperties ==
    [f \in {g \in Field : update.form[g] # update.original[g]} |-> update.form[f]]
FormOffersSave == FormIsShown /\ ~loading /\ ChangedProperties # << >>

\* submitUpdateObject up to its await, from the dialog, or by Appliquer or
\* Enregistrer et fermer of the window.
Submit(way) ==
    /\ FormOffersSave /\ update.target # Nothing /\ Calls
    /\ IF update.editor THEN way = "dialog" ELSE way \in {"apply", "ok"}
    /\ loading' = TRUE
    /\ saves' = saves \cup {[way |-> way, form |-> IF way = "apply" THEN update.form ELSE NoUpdate.form]}
    /\ UNCHANGED <<window, update, answers, waits, typed, known, crossed>>

\* The job ends, the page reloads.  After a success the dialog closes; the window
\* takes the form of the click for the original, and may close as well.
SaveEnds(s) ==
    /\ s \in saves /\ saves' = saves \ {s}
    /\ loading' = FALSE
    /\ \/ UNCHANGED <<window, update, answers, typed, known>>       \* a failure
       \/ /\ s.way \in {"dialog", "ok"} /\ Closes
          /\ window' = IF s.way = "ok" THEN [of |-> Nothing, editing |-> FALSE] ELSE window
       \/ /\ s.way = "apply" /\ update.target = Nothing
          /\ UNCHANGED <<window, update, answers, typed, known>>
       \/ /\ s.way = "apply" /\ update.target # Nothing
          /\ update' = [update EXCEPT !.form = s.form, !.original = s.form, !.editor = FALSE]
          /\ typed' = Untouched /\ known' = s.form
          /\ UNCHANGED <<window, answers>>
    /\ UNCHANGED <<waits, calls, crossed>>

\* Another call of the page ends, and clears the flag they share.
OtherCallEnds ==
    /\ loading /\ saves # {}
    /\ loading' = FALSE /\ crossed' = TRUE
    /\ UNCHANGED <<window, update, answers, waits, saves, calls, typed, known>>

-----------------------------------------------------------------------------
Next ==
    \/ \E o \in Object : ShowProperties(o) \/ OpenUpdateObject(o)
    \/ BeginEditing \/ BeginOtherEditor \/ OtherEditorOpens \/ CloseForm
    \/ \E f \in Field, v \in Text : TypeField(f, v)
    \/ \E v \in Text : SelectManager(v)
    \/ \E r \in answers : DetailsArrive(r)
    \/ \E way \in {"dialog", "apply", "ok"} : Submit(way)
    \/ \E s \in saves : SaveEnds(s)
    \/ OtherCallEnds

Spec == Init /\ [][Next]_vars

-----------------------------------------------------------------------------
(* What a save would send is, for the object on show, what the user typed   *)
(* where that is not what the form had said, and nothing else: the details  *)
(* of another object, or of this one, come too late to change it.           *)
(* submitUpdateObject, prepareUpdateObject                                  *)
EditsAreWhatIsSent ==
    FormIsShown /\ ~crossed =>
        /\ update.target = IF update.editor THEN update.target ELSE window.of
        /\ ChangedProperties = [f \in {g \in Field : typed[g] \notin {Nothing, known[g]}} |->
                                    typed[f]]
=============================================================================
