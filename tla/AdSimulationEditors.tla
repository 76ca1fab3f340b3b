------------------------- MODULE AdSimulationEditors --------------------------
(***************************************************************************)
(* The two editors of the properties window that only ever post simulation *)
(* jobs: that of the LDAP attributes, and that of the HAB seniority index, *)
(* whose job needs a validation by the service first.  Either opens once   *)
(* the mode has been read again, for the object and the window of the      *)
(* moment it was asked for; answers and ends of jobs come when they come.  *)
(***************************************************************************)
EXTENDS Naturals, FiniteSets

CONSTANTS Object,
          User,         \* those with a seniority index; the others are contacts
          Nothing,
          Attribute,    \* the LDAP attributes of the editor
          UserOnly,     \* those a contact has not
          Text,         \* what can be typed, in either editor
          Refused,      \* what of it the checks of the payload refuse
          MaxCalls      \* bound: openings, validations and jobs

\* What the constants are assumed to be: Nothing is no object, nor what is sent to
\* be validated.
Payload == [of : Object, operation : {"set", "clear"}, value : Text \cup {Nothing}]
Texts == /\ User \subseteq Object /\ Nothing \notin Object \cup Payload
         /\ UserOnly \subseteq Attribute /\ Refused \subseteq Text /\ Text # {}

VARIABLES window,       \* the object of the properties window
          mode,         \* adAgentMode
          waits,        \* the openings that wait for the mode
          ldap,         \* useLdapAttributeUpdate
          hab,          \* useHabSenioritySimulation, and habSimulationActive
          validations,  \* the validations asked for and not answered
          jobs,         \* the jobs posted and not ended
          calls,
          typedOn,      \* history: the objects on show when the draft was changed
          validated     \* history: what the service has validated

vars == <<window, mode, waits, ldap, hab, validations, jobs, calls, typedOn, validated>>

Mode == {"Simulation", "Production", "Inconnu"}

\* createLdapAttributeEditorDraft; what the object holds is not told apart.
EmptyDraft == [a \in Attribute |-> [operation |-> "unchanged", value |-> CHOOSE v \in Text : TRUE]]
\* createInitialDraft and resetRuntimeState
NoHab == [active |-> FALSE, shown |-> FALSE, operation |-> "set",
          value |-> CHOOSE v \in Text : TRUE, validating |-> FALSE, preview |-> Nothing,
          submitting |-> FALSE]
NoLdap == [active |-> FALSE, of |-> Nothing, draft |-> EmptyDraft, submitting |-> FALSE]

Init ==
    /\ window = Nothing /\ mode = "Inconnu" /\ waits = {}
    /\ ldap = NoLdap /\ hab = NoHab /\ validations = {} /\ jobs = {} /\ calls = 0
    /\ typedOn = {} /\ validated = {}

Calls == calls < MaxCalls /\ calls' = calls + 1

-----------------------------------------------------------------------------
(* The window and the two openings *)

\* getLdapEditorDefinitions
Definitions(o) == IF o = Nothing THEN {} ELSE IF o \in User THEN Attribute
                                         ELSE Attribute \ UserOnly
\* getHabSimulationEligibility
HabIsEligible(o, m) == o \in User /\ m = "Simulation"

DraftOutlivesObject == UNCHANGED <<ldap, hab, typedOn>>  \* mutant: no effect on the object
\* The effects on the object and on its identity: both editors start over.
ObjectChanges == ldap' = NoLdap /\ hab' = NoHab /\ typedOn' = {}

\* setPropertiesModal: opened, closed, or moved on to a linked object.
ShowObject(o) ==
    /\ o # window
    /\ window' = o /\ ObjectChanges
    /\ UNCHANGED <<mode, waits, validations, jobs, calls, validated>>

\* beginLdapEditing, beginHabSimulation up to the answer of loadAdAgentMode
Begins(editor) ==
    /\ window # Nothing /\ ~hab.shown /\ ~ldap.active /\ Calls
    /\ editor = "ldap" => Definitions(window) # {}
    /\ editor = "hab" => window \in User
    /\ waits' = waits \cup {[editor |-> editor, of |-> window]}
    /\ UNCHANGED <<window, mode, ldap, hab, validations, jobs, typedOn, validated>>

\* The mode is there, or the reading failed: one editor opens, on a draft of the
\* object the click was for, and the other closes, on whatever object by then.
LdapOpens(w) ==
    /\ ldap' = [NoLdap EXCEPT !.active = TRUE, !.of = w.of]
    /\ hab' = NoHab /\ typedOn' = {}
HabOpens(w) ==
    IF HabIsEligible(w.of, mode')
    THEN /\ hab' = [NoHab EXCEPT !.active = TRUE, !.shown = TRUE]
         /\ ldap' = NoLdap /\ typedOn' = {}
    ELSE hab' = [hab EXCEPT !.shown = FALSE] /\ UNCHANGED <<ldap, typedOn>>
ModeArrives(w) ==
    /\ w \in waits /\ waits' = waits \ {w}
    /\ mode' \in Mode
    /\ IF w.editor = "ldap" THEN LdapOpens(w) ELSE HabOpens(w)
    /\ UNCHANGED <<window, validations, jobs, calls, validated>>

\* Retour aux proprietes: either close resets its editor.
BackToProperties ==
    /\ window # Nothing
    /\ \/ hab.shown /\ hab' = NoHab /\ UNCHANGED <<ldap, typedOn>>
       \/ ~hab.shown /\ ldap.active /\ ldap' = NoLdap /\ typedOn' = {} /\ UNCHANGED hab
    /\ UNCHANGED <<window, mode, waits, validations, jobs, calls, validated>>

-----------------------------------------------------------------------------
(* The LDAP editor *)

LdapIsShown == window # Nothing /\ ldap.active /\ ~hab.shown

\* updateLdapAttributeEditorDraft, resetAttribute; the fields are disabled during a
\* submission, and those of the draft are the ones its own object has.
UpdateDraft(a, operation, v) ==
    /\ LdapIsShown /\ ~ldap.submitting /\ a \in Definitions(ldap.of)
    /\ ldap' = [ldap EXCEPT !.draft[a] = [operation |-> operation, value |-> v]]
    /\ ldap' # ldap
    /\ typedOn' = typedOn \cup {window}
    /\ UNCHANGED <<window, mode, waits, hab, validations, jobs, calls, validated>>

\* buildLdapAttributeEditorChanges: one change of an attribute at most, and no more
\* of them than the five there are.
LdapChanges == {a \in Attribute : ldap.draft[a].operation # "unchanged"}
\* buildLdapAttributeEditorPreview: for the object on show.
LdapPreviewIsValid ==
    /\ LdapChanges # {} /\ LdapChanges \subseteq Definitions(window)
    /\ \A a \in LdapChanges : ldap.draft[a].operation = "set" => ldap.draft[a].value \notin Refused

LdapOffersJob == LdapIsShown /\ mode = "Simulation" /\ LdapPreviewIsValid /\ ~ldap.submitting
SubmitLdap ==
    /\ LdapOffersJob /\ Calls
    /\ ldap' = [ldap EXCEPT !.submitting = TRUE]
    /\ jobs' = jobs \cup {[editor |-> "ldap", of |-> window, n |-> calls']}
    /\ UNCHANGED <<window, mode, waits, hab, validations, typedOn, validated>>

-----------------------------------------------------------------------------
(* The HAB editor *)

HabIsShown == window # Nothing /\ hab.shown
\* buildHabSenioritySimulationPayload, with normalizeHabInteger32
HabPayload == [of |-> window, operation |-> hab.operation,
               value |-> IF hab.operation = "clear" THEN Nothing ELSE hab.value]
HabPayloadIsValid == window \in User /\ (hab.operation = "set" => hab.value \notin Refused)

\* updateOperation, updateValue: the validation is forgotten.
UpdateHab(operation, v) ==
    /\ HabIsShown /\ ~hab.validating /\ ~hab.submitting
    /\ hab' = [hab EXCEPT !.operation = operation, !.value = v, !.preview = Nothing]
    /\ hab.operation = "clear" => v = hab.value
    /\ hab' # hab
    /\ UNCHANGED <<window, mode, waits, ldap, validations, jobs, calls, typedOn, validated>>

ValidateHab ==
    /\ HabIsShown /\ HabIsEligible(window, mode) /\ HabPayloadIsValid
    /\ ~hab.validating /\ ~hab.submitting /\ Calls
    /\ hab' = [hab EXCEPT !.validating = TRUE, !.preview = Nothing]
    /\ validations' = validations \cup {HabPayload}
    /\ UNCHANGED <<window, mode, waits, ldap, jobs, typedOn, validated>>

\* The service answers; assertHabValidationResponse holds the answer to what was
\* asked, and the answer is kept with the fingerprint of what was asked.
HabValidated(p) ==
    /\ p \in validations /\ validations' = validations \ {p}
    /\ \/ /\ validated' = validated \cup {p}
          /\ hab' = [hab EXCEPT !.validating = FALSE, !.preview = p]
       \/ hab' = [hab EXCEPT !.validating = FALSE] /\ UNCHANGED validated
    /\ UNCHANGED <<window, mode, waits, ldap, jobs, calls, typedOn>>

AnyValidation == hab.preview # Nothing         \* mutant: the fingerprint is not compared
ValidationIsCurrent == hab.preview = HabPayload
HabOffersJob == /\ HabIsShown /\ HabIsEligible(window, mode)
                /\ ~hab.validating /\ ~hab.submitting /\ ValidationIsCurrent
SubmitHab ==
    /\ HabOffersJob /\ Calls
    /\ hab' = [hab EXCEPT !.submitting = TRUE]
    /\ jobs' = jobs \cup {[editor |-> "hab", of |-> window, n |-> calls']}
    /\ UNCHANGED <<window, mode, waits, ldap, validations, typedOn, validated>>

\* A job ends, or 75 readings see no end; its editor, in whatever state by now, is
\* free, and a simulation of LDAP attributes leaves it a draft of its own object.
JobEnds(j) ==
    /\ j \in jobs /\ jobs' = jobs \ {j}
    /\ \/ /\ j.editor = "hab"
          /\ hab' = [hab EXCEPT !.submitting = FALSE] /\ UNCHANGED <<ldap, typedOn>>
       \/ /\ j.editor = "ldap"
          /\ \/ /\ ldap' = [ldap EXCEPT !.submitting = FALSE, !.draft = EmptyDraft, !.of = j.of]
                /\ typedOn' = {}
             \/ ldap' = [ldap EXCEPT !.submitting = FALSE] /\ UNCHANGED typedOn
          /\ UNCHANGED hab
    /\ UNCHANGED <<window, mode, waits, validations, calls, validated>>

-----------------------------------------------------------------------------
Next ==
    \/ \E o \in Object \cup {Nothing} : ShowObject(o)
    \/ \E e \in {"ldap", "hab"} : Begins(e)
    \/ \E w \in waits : ModeArrives(w)
    \/ BackToProperties
    \/ \E a \in Attribute, op \in {"unchanged", "set", "clear"}, v \in Text : UpdateDraft(a, op, v)
    \/ \E op \in {"set", "clear"}, v \in Text : UpdateHab(op, v)
    \/ ValidateHab \/ \E p \in validations : HabValidated(p)
    \/ SubmitLdap \/ SubmitHab
    \/ \E j \in jobs : JobEnds(j)

Spec == Init /\ [][Next]_vars

-----------------------------------------------------------------------------
(* The job that the HAB editor offers to post is one the service validated, *)
(* object, operation and value, whatever answers came late; what the LDAP   *)
(* editor offers to post was typed on the object it will be posted for.     *)
(* validationIsCurrent, useLdapAttributeUpdate                              *)
SimulationsAreAsShown ==
    /\ HabOffersJob => HabPayload \in validated
    /\ LdapOffersJob => typedOn = {window}
=============================================================================
