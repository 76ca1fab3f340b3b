----------------------------- MODULE AclDelegation -----------------------------
(***************************************************************************)
(* Delegating rights on an object, from the security tab of its panel: a   *)
(* simulation, a reading of its security descriptor, a preparation that    *)
(* binds the two, a validation before writing that consumes them, and the  *)
(* confirmation of a person.  Every stage awaits answers while the panel   *)
(* may be turned to another object or started again from an earlier stage, *)
(* and the agent's mode has to be one at one stage and the other at the    *)
(* next.  Nothing is ever written to the directory.                        *)
(***************************************************************************)
EXTENDS Naturals, Sequences, FiniteSets

CONSTANTS Object,
          NoObject,
          MaxJobs,      \* bound: simulations and descriptors asked for
          MaxCalls,     \* bound: stages the user starts
          MaxFlips      \* bound: changes of the agent's mode

VARIABLES mode, flips,
          selected,     \* dn of the object the panel shows
          descriptor,   \* securityDescriptor of the page, which outlives a selection
          reading,      \* the descriptors asked for, and securityDescriptorLoading
          panel,        \* what the panel holds of each stage
          waits,        \* its loading flags
          calls,        \* the stages under way
          registry,     \* acl-delegation-write-replay.json
          jobs, started,
          crossed       \* history: an answer came to a panel that had moved on

modeVars == <<mode, flips>>
descriptorVars == <<descriptor, reading>>
boundVars == <<jobs, started>>
vars == <<modeVars, selected, descriptorVars, panel, waits, calls, registry, boundVars, crossed>>

Mode == {"Simulation", "Production"}
None == [dn |-> NoObject, sim |-> 0, desc |-> 0, claim |-> 0]
\* The state the panel returns to when its object changes.
Fresh == [sim |-> None, prep |-> None, pre |-> None, typed |-> NoObject]
OnlySimulation(p) == [Fresh EXCEPT !.sim = p.sim]
\* What a new simulation starts from.
WithoutSimulation(p) == [p EXCEPT !.sim = None]  \* mutant: the later stages stay as they were
Restarted(p) == Fresh

Init ==
    /\ mode \in Mode /\ flips = 0
    /\ selected \in Object
    /\ descriptor = None /\ reading = [asked |-> {}, flag |-> FALSE, for |-> NoObject]
    /\ panel = Fresh /\ waits = {} /\ calls = {}
    /\ registry = <<>> /\ jobs = 0 /\ started = 0 /\ crossed = FALSE

FlipMode == /\ flips < MaxFlips /\ flips' = flips + 1
            /\ mode' \in Mode \ {mode}
            /\ UNCHANGED <<selected, descriptorVars, panel, waits, calls, registry, boundVars, crossed>>

-----------------------------------------------------------------------------
(* The panel *)

Overtaken == {[c EXCEPT !.over = TRUE] : c \in calls}

\* Another object: every stage and every flag is reset; the calls go on.
SelectObject(o) ==
    /\ o # selected
    /\ selected' = o
    /\ panel' = Fresh /\ waits' = {}
    /\ calls' = Overtaken
    /\ UNCHANGED <<modeVars, descriptorVars, registry, boundVars, crossed>>

\* The effect on security_descriptor_job_id.
DescriptorBecomes(d) ==
    /\ descriptor' = d
    /\ IF d.desc = descriptor.desc THEN UNCHANGED <<panel, calls>>
       ELSE panel' = OnlySimulation(panel) /\ calls' = Overtaken

\* loadSecurityDescriptor, the button's forced reading.  That of another object
\* is forgotten at once.
LoadSecurityDescriptor ==
    /\ ~(reading.flag /\ reading.for = selected)
    /\ jobs < MaxJobs /\ jobs' = jobs + 1
    /\ reading' = [asked |-> reading.asked \cup {[None EXCEPT !.dn = selected, !.desc = jobs']},
                   flag |-> TRUE, for |-> selected]
    /\ DescriptorBecomes(IF descriptor.dn \in {NoObject, selected} THEN descriptor ELSE None)
    /\ UNCHANGED <<modeVars, selected, waits, registry, started, crossed>>

\* The answer is kept whatever has been selected or asked for since.
DescriptorArrives(d) ==
    /\ d \in reading.asked
    /\ reading' = [reading EXCEPT !.asked = @ \ {d}, !.flag = FALSE]
    /\ \/ DescriptorBecomes(d)
       \/ UNCHANGED <<descriptor, panel, calls>>      \* the job failed
    /\ UNCHANGED <<modeVars, selected, waits, registry, boundVars, crossed>>

Starts(kind, step, evidence, others) ==
    /\ started < MaxCalls /\ started' = started + 1
    /\ waits' = waits \cup {kind}
    /\ calls' = others \cup {[kind |-> kind, step |-> step, ev |-> evidence, n |-> started,
                              over |-> FALSE, typed |-> panel.typed, shown |-> panel.sim.sim]}
    /\ UNCHANGED <<modeVars, selected, descriptorVars, registry, crossed>>

\* What the tab offers: each stage inside the result of the one before.
SimulationIsOffered == "sim" \notin waits
PreparationIsOffered ==
    /\ panel.sim # None
    /\ waits \cap {"sim", "prep"} = {} /\ ~reading.flag
    /\ panel.sim.sim # 0 /\ descriptor.desc # 0
PrewriteIsOffered == panel.sim # None /\ panel.prep # None /\ "pre" \notin waits
ConfirmationIsOffered ==
    /\ panel.sim # None /\ panel.prep # None /\ panel.pre # None
    /\ "conf" \notin waits

\* submitAclDelegationSimulation
SubmitSimulation ==
    /\ SimulationIsOffered
    /\ jobs < MaxJobs /\ jobs' = jobs + 1
    /\ panel' = Restarted(panel)
    /\ Starts("sim", "job", [None EXCEPT !.dn = selected, !.sim = jobs'], Overtaken)

\* submitAclDelegationProductionPreparation: the simulation and the descriptor
\* are of one object, though it may no longer be the selected one.
SubmitPreparation ==
    /\ PreparationIsOffered
    /\ panel.sim.dn = descriptor.dn
    /\ panel' = OnlySimulation(panel)
    /\ Starts("prep", "mode", [panel.sim EXCEPT !.desc = descriptor.desc], Overtaken)
    /\ UNCHANGED jobs

\* submitAclDelegationPrewrite, after the browser's confirmation.
SubmitPrewrite ==
    /\ PrewriteIsOffered
    /\ panel' = [panel EXCEPT !.pre = None, !.typed = NoObject]
    /\ Starts("pre", "mode", panel.prep, calls)
    /\ UNCHANGED jobs

TypeDn(o) ==
    /\ ConfirmationIsOffered /\ panel.typed # o
    /\ panel' = [panel EXCEPT !.typed = o]
    /\ UNCHANGED <<modeVars, selected, descriptorVars, waits, calls, registry, boundVars, crossed>>

\* submitAclDelegationFinalConfirmation: of the validation held, with the DN that
\* the preparation held asks for.
SubmitConfirmation ==
    /\ ConfirmationIsOffered
    /\ panel.typed = panel.prep.dn
    /\ Starts("conf", "mode", panel.pre, calls)
    /\ UNCHANGED <<panel, jobs>>

\* An awaited call answers the panel, which does not ask whether it moved on.
Answers(c, p) ==
    /\ calls' = calls \ {c}
    /\ waits' = waits \ {c.kind}
    /\ panel' = p
    /\ crossed' = (crossed \/ c.over)
    /\ UNCHANGED <<modeVars, selected, descriptorVars, boundVars>>
Fails(c) == Answers(c, panel) /\ UNCHANGED registry
GoesOn(c, step, claim) ==
    /\ calls' = (calls \ {c}) \cup {[c EXCEPT !.step = step, !.ev.claim = claim]}
    /\ UNCHANGED <<modeVars, selected, descriptorVars, panel, waits, boundVars, crossed>>

-----------------------------------------------------------------------------
(* The page's calls and the server *)

\* simulateAclDelegation
SimulationEnds(c) ==
    /\ c.kind = "sim"
    /\ \/ Answers(c, [panel EXCEPT !.sim = c.ev]) /\ UNCHANGED registry
       \/ Fails(c)

\* buildAclDelegationProductionIntent: every part of the preparation is required.
IntentIsComplete(ev) == ev.dn # NoObject /\ ev.sim # 0 /\ ev.desc # 0

\* Each of the three others reads the mode first and goes no further in the wrong
\* one: the validation in Production, the preparation and the confirmation in
\* Simulation.
ModeIsRead(c) ==
    /\ c.step = "mode"
    /\ \/ /\ (mode = "Production") <=> (c.kind = "pre")
          /\ IntentIsComplete(c.ev)
          /\ GoesOn(c, "server", c.ev.claim) /\ UNCHANGED registry
       \/ Fails(c)

\* prepareAclDelegationProduction: the server finds both jobs and binds them, or
\* refuses (an evidence too old, a rule that differs).
Prepared(c) ==
    /\ c.kind = "prep" /\ c.step = "server"
    /\ \/ Answers(c, [panel EXCEPT !.prep = c.ev]) /\ UNCHANGED registry
       \/ Fails(c)

\* claim_acl_delegation_write_intent, after an envelope that may refuse too: a
\* simulation and a descriptor serve once.
DigestNotConsumed(ev) == ~\E i \in DOMAIN registry :    \* mutant: only the pair is compared
                            registry[i].sim = ev.sim /\ registry[i].desc = ev.desc
NotConsumed(ev) == \A i \in DOMAIN registry : registry[i].sim # ev.sim /\ registry[i].desc # ev.desc
Claimed(c) ==
    /\ c.kind = "pre" /\ c.step = "server"
    /\ \/ /\ NotConsumed(c.ev)
          /\ registry' = Append(registry,
                [dn |-> c.ev.dn, sim |-> c.ev.sim, desc |-> c.ev.desc, state |-> "claimed",
                 confirmed |-> FALSE, shown |-> 0, typed |-> NoObject])
          /\ GoesOn(c, "ticket", Len(registry'))
       \/ Fails(c)

Becomes(i, from, to) == /\ registry[i].state = from
                        /\ registry' = [registry EXCEPT ![i].state = to]

\* create_acl_delegation_prewrite_ticket
Ticketed(c) ==
    /\ c.step = "ticket"
    /\ \/ Becomes(c.ev.claim, "claimed", "ticketed") /\ GoesOn(c, "poll", c.ev.claim)
       \/ Fails(c)

\* The agent takes a ticket, once, and reports; or never does.
AgentClaims(i) == /\ Becomes(i, "ticketed", "processing")
                  /\ UNCHANGED <<modeVars, selected, descriptorVars, panel, waits, calls, boundVars, crossed>>
AgentCompletes(i) == /\ \E to \in {"validated", "failed"} : Becomes(i, "processing", to)
                     /\ UNCHANGED <<modeVars, selected, descriptorVars, panel, waits, calls, boundVars, crossed>>

\* waitForAclDelegationPrewriteStatus, given up after 45 readings.
PrewriteAnswers(c) ==
    /\ c.step = "poll"
    /\ \/ /\ registry[c.ev.claim].state = "validated"
          /\ Answers(c, [panel EXCEPT !.pre = c.ev]) /\ UNCHANGED registry
       \/ Fails(c)

\* persist_acl_delegation_production_confirmation: of a validated record, once,
\* with the DN of its own target.
Confirms(i, c) ==
    /\ registry[i].state = "validated" /\ ~registry[i].confirmed
    /\ registry[i].dn = c.typed
    /\ registry' = [registry EXCEPT ![i].confirmed = TRUE, ![i].shown = c.shown,
                                    ![i].typed = c.typed]
\* Confirmed at the server, the panel may still show an error: the mode is read
\* once more, and a lost answer cannot be asked for again.
ConfirmationAnswers(c) ==
    /\ c.kind = "conf" /\ c.step = "server"
    /\ \/ Confirms(c.ev.claim, c) /\ Answers(c, panel)
       \/ Fails(c)

Next ==
    \/ FlipMode \/ LoadSecurityDescriptor
    \/ SubmitSimulation \/ SubmitPreparation \/ SubmitPrewrite \/ SubmitConfirmation
    \/ \E o \in Object : SelectObject(o) \/ TypeDn(o)
    \/ \E d \in reading.asked : DescriptorArrives(d)
    \/ \E i \in DOMAIN registry : AgentClaims(i) \/ AgentCompletes(i)
    \/ \E c \in calls :
        \/ SimulationEnds(c) \/ ModeIsRead(c) \/ Prepared(c) \/ Claimed(c)
        \/ Ticketed(c) \/ PrewriteAnswers(c) \/ ConfirmationAnswers(c)

Spec == Init /\ [][Next]_vars

-----------------------------------------------------------------------------
(* Properties *)

\* A confirmed delegation is the one the panel showed when it was confirmed, on
\* the object whose DN was typed: stages of different simulations are held
\* together only after an answer came to a panel that had moved on.
ConfirmedAsShown ==
    \A i \in DOMAIN registry :
        registry[i].confirmed =>
            /\ registry[i].typed = registry[i].dn
            /\ registry[i].sim = registry[i].shown \/ crossed

\* No simulation and no descriptor authorises twice, however many chains they
\* were prepared in.
EvidenceIsSpentOnce ==
    \A i, j \in DOMAIN registry :
        registry[i].sim = registry[j].sim \/ registry[i].desc = registry[j].desc => i = j
=============================================================================
