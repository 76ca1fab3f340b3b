------------------------- MODULE DeletedRestorePanel --------------------------
(***************************************************************************)
(* The panel of the recycle bin: from the inventory of deleted objects to  *)
(* the confirmation text of a restore, one call of the service at a time,  *)
(* each step fed with what the ones before it left in the panel.  The list *)
(* of objects stays open during a call, so that an answer may find another *)
(* object selected than the one it was asked for.                          *)
(***************************************************************************)
EXTENDS Naturals, FiniteSets

CONSTANTS Guid,         \* the deleted objects
          Place,        \* the name and the parent to restore an object with
          Home,         \* the last known ones of each
          None,
          MaxCalls      \* bound: calls of the service

\* An object with the place to restore it in; a challenge, as the panel keeps it.
Restored == [of : Guid, at : Place]
Challenge == [for : Restored, n : Nat, expired : BOOLEAN, simulation : Nat, evidence : Nat]

\* What the constants are assumed to be: None is what no step results in.
Places == /\ Home \in [Guid -> Place] /\ None \notin Guid \cup Place
          /\ None \notin Restored \cup Challenge

VARIABLES loaded,       \* inventoryLoaded
          selected,     \* selected, with newName and targetPath
          chain,        \* the results of the steps, as the panel holds them
          typed,        \* the confirmation: GUID, target, reason and acknowledgment
          call,         \* the call under way, None when busyAction is empty
          calls

vars == <<loaded, selected, chain, typed, call, calls>>

\* resetSensitiveWorkflow, resetWorkflow: what each leaves.
Sensitive == {"evidence", "challenge", "authorization", "newEvidence", "released"}
Step == {"preflight", "live", "simulation"} \cup Sensitive
Cleared(steps) == [s \in Step |-> IF s \in steps THEN None ELSE chain[s]]
NotTyped == [of |-> None, at |-> None, acknowledged |-> FALSE]

Init == /\ loaded = FALSE /\ selected = None
        /\ chain = [s \in Step |-> None] /\ typed = NotTyped
        /\ call = None /\ calls = 0

\* A call starts: no other is under way; its number orders it among the others.
Calls(what, record) ==
    /\ call = None /\ calls < MaxCalls
    /\ calls' = calls + 1
    /\ call' = [what |-> what, n |-> calls', with |-> record]
Answers(what) == call # None /\ call.what = what /\ call' = None /\ UNCHANGED calls

-----------------------------------------------------------------------------
(* The inventory and the selection *)

LoadDeletedObjects ==
    /\ Calls("inventory", None)
    /\ UNCHANGED <<loaded, selected, chain, typed>>
InventoryArrives ==
    /\ Answers("inventory")
    /\ loaded' = TRUE /\ selected' = None
    /\ chain' = Cleared(Step) /\ typed' = NotTyped

\* selectDeletedObject: offered during a call too.
Select(g) ==
    /\ loaded
    /\ selected' = [of |-> g, at |-> Home[g]]
    /\ chain' = Cleared(Step) /\ typed' = NotTyped
    /\ UNCHANGED <<loaded, call, calls>>

\* The fields of the new name and the target: not during a call.
Retarget(p) ==
    /\ selected # None /\ call = None /\ p # selected.at
    /\ selected' = [selected EXCEPT !.at = p]
    /\ chain' = Cleared(Step) /\ typed' = NotTyped
    /\ UNCHANGED <<loaded, call, calls>>

-----------------------------------------------------------------------------
(* Eligibility and simulation *)

EvaluateEligibility ==
    /\ selected # None /\ Calls("preflight", selected)
    /\ chain' = Cleared({"simulation"})
    /\ UNCHANGED <<loaded, selected, typed>>
\* runPreflight without a live job: the decision rests on the inventory.
PreflightArrives ==
    /\ Answers("preflight")
    /\ \E eligible \in BOOLEAN :
           chain' = [chain EXCEPT !["preflight"] = [for |-> call.with, live |-> None,
                                                    eligible |-> eligible],
                                  !["live"] = None]
    /\ UNCHANGED <<loaded, selected, typed>>

LiveReady == chain["preflight"] # None /\ chain["preflight"].live # None
Eligible == chain["preflight"] # None /\ chain["preflight"].eligible

RunLiveRevalidation ==
    /\ selected # None /\ chain["preflight"] # None /\ ~LiveReady
    /\ Calls("revalidation", selected)
    /\ chain' = Cleared({"simulation"})
    /\ UNCHANGED <<loaded, selected, typed>>
\* The job ends, its number is kept, and the preflight is asked for again with it.
LiveJobEnds ==
    /\ call # None /\ call.what = "revalidation"
    /\ call' = [call EXCEPT !.what = "bound preflight"]
    /\ chain' = [chain EXCEPT !["live"] = [for |-> call.with, n |-> call.n]]
    /\ UNCHANGED <<loaded, selected, typed, calls>>
BoundPreflightArrives ==
    /\ Answers("bound preflight")
    /\ \E eligible \in BOOLEAN :
           chain' = [chain EXCEPT !["preflight"] = [for |-> call.with, live |-> call.n,
                                                    eligible |-> eligible]]
    /\ UNCHANGED <<loaded, selected, typed>>

NothingReset == {}                             \* mutant: the sensitive steps are kept
SensitiveReset == Sensitive
\* prepareSimulation, which the service grants when the live job is of what is
\* asked, and still says that it can be restored.
PrepareSimulation ==
    /\ selected # None /\ Eligible /\ LiveReady /\ chain["live"] # None
    /\ Calls("simulation", [for |-> selected, live |-> chain["live"]])
    /\ chain' = Cleared(SensitiveReset) /\ typed' = NotTyped
    /\ UNCHANGED <<loaded, selected>>
SimulationArrives ==
    /\ Answers("simulation")
    /\ call.with.live.for = call.with.for
    /\ chain' = [chain EXCEPT !["simulation"] = [for |-> call.with.for, n |-> call.n]]
    /\ UNCHANGED <<loaded, selected, typed>>

-----------------------------------------------------------------------------
(* The challenge *)

\* The section of the sensitive steps shows with a simulation.
Shown == selected # None /\ chain["simulation"] # None

RunChallengeRevalidation ==
    /\ Shown /\ chain["evidence"] = None
    /\ Calls("evidence", selected)
    /\ chain' = Cleared(Sensitive)
    /\ UNCHANGED <<loaded, selected, typed>>
EvidenceArrives ==
    /\ Answers("evidence")
    /\ chain' = [chain EXCEPT !["evidence"] = [for |-> call.with, n |-> call.n]]
    /\ UNCHANGED <<loaded, selected, typed>>

CreateHumanChallenge ==
    /\ Shown /\ chain["evidence"] # None /\ chain["challenge"] = None
    /\ Calls("challenge", [simulation |-> chain["simulation"], evidence |-> chain["evidence"]])
    /\ chain' = Cleared(Sensitive \ {"evidence"})
    /\ UNCHANGED <<loaded, selected, typed>>
\* The service holds the evidence against the simulation.
ChallengeArrives ==
    /\ Answers("challenge")
    /\ call.with.evidence.for = call.with.simulation.for
    /\ chain' = [chain EXCEPT !["challenge"] =
                     [for |-> call.with.simulation.for, n |-> call.n, expired |-> FALSE,
                      simulation |-> call.with.simulation.n, evidence |-> call.with.evidence.n]]
    /\ typed' = NotTyped
    /\ UNCHANGED <<loaded, selected>>
ChallengeExpires ==
    /\ chain["challenge"] # None /\ ~chain["challenge"].expired
    /\ chain' = [chain EXCEPT !["challenge"].expired = TRUE]
    /\ UNCHANGED <<loaded, selected, typed, call, calls>>

-----------------------------------------------------------------------------
(* The authorization and what follows it *)

ChallengeIsShown == Shown /\ chain["challenge"] # None /\ chain["authorization"] = None
TypeConfirmation(g, p) ==
    /\ ChallengeIsShown /\ call = None
    /\ typed' = [of |-> g, at |-> p, acknowledged |-> TRUE] /\ typed' # typed
    /\ UNCHANGED <<loaded, selected, chain, call, calls>>

\* humanConfirmationReady
ConfirmationIsExact == /\ typed.of = chain["challenge"].for.of
                       /\ typed.at = chain["challenge"].for.at /\ typed.acknowledged
CreateHumanAuthorization ==
    /\ ChallengeIsShown /\ ConfirmationIsExact /\ ~chain["challenge"].expired
    /\ Calls("authorization", chain["challenge"])
    /\ chain' = Cleared({"authorization", "newEvidence", "released"})
    /\ UNCHANGED <<loaded, selected, typed>>
AuthorizationArrives ==
    /\ Answers("authorization")
    /\ chain' = [chain EXCEPT !["authorization"] = [challenge |-> call.with.n, n |-> call.n]]
    /\ UNCHANGED <<loaded, selected, typed>>

RunPostAuthorizationRevalidation ==
    /\ Shown /\ chain["authorization"] # None /\ chain["challenge"] # None
    /\ chain["newEvidence"] = None
    /\ Calls("new evidence", chain["challenge"].for)
    /\ chain' = Cleared({"newEvidence", "released"})
    /\ UNCHANGED <<loaded, selected, typed>>
NewEvidenceArrives ==
    /\ Answers("new evidence")
    /\ chain' = [chain EXCEPT !["newEvidence"] = [for |-> call.with, n |-> call.n]]
    /\ UNCHANGED <<loaded, selected, typed>>

PreparePostAuthorization ==
    /\ Shown /\ chain["authorization"] # None /\ chain["newEvidence"] # None
    /\ chain["released"] = None
    /\ Calls("release", [authorization |-> chain["authorization"].n,
                         evidence |-> chain["newEvidence"].n])
    /\ chain' = Cleared({"released"})
    /\ UNCHANGED <<loaded, selected, typed>>
ReleaseArrives ==
    /\ Answers("release")
    /\ chain' = [chain EXCEPT !["released"] = call.with]
    /\ UNCHANGED <<loaded, selected, typed>>

\* Any call may be refused, fail, or be given up after 75 readings of its job; an
\* answer whose fields are not what the panel expects counts as one.
CallFails ==
    /\ call # None /\ call' = None
    /\ UNCHANGED <<loaded, selected, chain, typed, calls>>

-----------------------------------------------------------------------------
Next ==
    \/ LoadDeletedObjects \/ InventoryArrives
    \/ \E g \in Guid : Select(g)
    \/ \E p \in Place : Retarget(p)
    \/ EvaluateEligibility \/ PreflightArrives
    \/ RunLiveRevalidation \/ LiveJobEnds \/ BoundPreflightArrives
    \/ PrepareSimulation \/ SimulationArrives
    \/ RunChallengeRevalidation \/ EvidenceArrives
    \/ CreateHumanChallenge \/ ChallengeArrives \/ ChallengeExpires
    \/ \E g \in Guid, p \in Place : TypeConfirmation(g, p)
    \/ CreateHumanAuthorization \/ AuthorizationArrives
    \/ RunPostAuthorizationRevalidation \/ NewEvidenceArrives
    \/ PreparePostAuthorization \/ ReleaseArrives
    \/ CallFails

Spec == Init /\ [][Next]_vars

-----------------------------------------------------------------------------
(* What the panel shows as one chain is one: the challenge is of the        *)
(* simulation above it and of evidence taken after it, the authorization of *)
(* that challenge, for the object and the place that the person typed, and  *)
(* the release of that authorization with evidence newer still.             *)
(* resetSensitiveWorkflow, selectDeletedObject                              *)
ChainIsOne ==
    LET s == chain["simulation"]  c == chain["challenge"]  a == chain["authorization"] IN
    Shown =>
        /\ chain["evidence"] # None => chain["evidence"].n > s.n
        /\ c # None => c.simulation = s.n /\ c.for = s.for /\ c.evidence = chain["evidence"].n
        /\ a # None => c # None /\ a.challenge = c.n /\ ConfirmationIsExact
        /\ chain["newEvidence"] # None => a # None /\ chain["newEvidence"].n > a.n
        /\ chain["released"] # None => chain["released"] = [authorization |-> a.n,
                                                evidence |-> chain["newEvidence"].n]
=============================================================================
