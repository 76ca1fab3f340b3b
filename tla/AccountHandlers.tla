----------------------------- MODULE AccountHandlers -----------------------------
(***************************************************************************)
(* What the employee lifecycle agent does in Production to an account that *)
(* exists: the handlers of a departure and of a modification, cmdlet by    *)
(* cmdlet (Invoke-OffboardingProduction, Invoke-ModificationProduction).   *)
(*                                                                         *)
(* Each reads the account once.  What it read decides whether the account  *)
(* is within the perimeter, whether it is enabled and where it is; most    *)
(* cmdlets then name the account by the DN that was read, and find nothing *)
(* once someone has moved it, but those of a modification that change      *)
(* groups name it by its login.  Agents may overlap, administrators move   *)
(* the account, and any cmdlet may raise before or after its effect, which *)
(* ends the handler; a retry begins it anew.  LifecycleRequests has the    *)
(* protocol that starts handlers and takes their results.                  *)
(***************************************************************************)
EXTENDS Naturals, FiniteSets

CONSTANTS
    Agent,
    Request,
    Asked,                  \* the ad_payload of each request
    Group, Ours,            \* the groups, and those named GG_* or in GroupsOu
    Nowhere,                \* a modification without move_to_ou
    MaxHandlers, MaxOthers  \* bounds: handlers begun, changes by administrators

\* "departed" is the OU of disabled users, "outside" is out of EitasBaseOu.
Ou == {"staff", "departed", "outside"}

Offboarding == [kind : {"offboarding"}, disable : BOOLEAN, remove : BOOLEAN, to : Ou]
Modification == [kind : {"modification"}, set : BOOLEAN, add : SUBSET Group,
                 remove : SUBSET Group, to : Ou \cup {Nowhere}]

Payloads == /\ Asked \in [Request -> Offboarding \cup Modification]
            /\ Ours \subseteq Group /\ Nowhere \notin Ou

VARIABLES
    account,     \* the account, in the directory
    run,         \* what each agent is at
    begun, others,
    strayed,     \* history: the cmdlets that had an effect out of the perimeter
    parked       \* history: an offboarding that disables, and that nothing disturbed,
                 \* put the account where it is, and nothing has enabled it since

vars == <<account, run, begun, others, strayed, parked>>

Idle == [step |-> "idle"]
Steps == {"read", "leave", "disable", "describe", "attributes", "join", "unjoin",
          "enable", "note", "move", "success"}

Account == [ou : Ou, enabled : BOOLEAN, groups : SUBSET Group,
            note : {"none", "offboarded", "reactivated"}, attributes : Request \cup {"old"}]

\* A handler: what it read of the account, the groups it has yet to do, and
\* whether nothing else has changed the account since.
Handler == [step : Steps, request : Request, user : [ou : Ou, enabled : BOOLEAN],
            todo : SUBSET Group, alone : BOOLEAN]

TypeOK ==
    /\ account \in Account
    /\ run \in [Agent -> {Idle} \cup Handler]
    /\ strayed \subseteq Steps
    /\ parked \in BOOLEAN

Init ==
    /\ account \in [ou : {"staff"}, enabled : {TRUE}, groups : SUBSET Group,
                    note : {"none"}, attributes : {"old"}]
    /\ run = [a \in Agent |-> Idle]
    /\ begun = 0 /\ others = 0
    /\ strayed = {} /\ parked = FALSE

For(a) == Asked[run[a].request]

InPerimeter(ou) == ou # "outside"

\* mutant: the account is named by its login throughout
FindsByLogin(a) == TRUE

\* An account is found under the DN that was read as long as it is there.
Finds(a) == account.ou = run[a].user.ou

At(a, step) == run[a] # Idle /\ run[a].step = step

-----------------------------------------------------------------------------
\* The process takes a request, whose handler refuses a destination out of the
\* perimeter at once when it is an offboarding.
Begin(a, r) ==
    /\ run[a] = Idle /\ begun < MaxHandlers
    /\ Asked[r].kind = "offboarding" => InPerimeter(Asked[r].to)
    /\ run' = [run EXCEPT ![a] = [step |-> "read", request |-> r, todo |-> {},
                  user |-> [ou |-> "staff", enabled |-> TRUE], alone |-> TRUE]]
    /\ begun' = begun + 1
    /\ UNCHANGED <<account, others, strayed, parked>>

\* Get-ADUser, and the check of the DN it returns; for an offboarding, the
\* memberships to remove as well.
Read(a) ==
    /\ At(a, "read") /\ InPerimeter(account.ou)
    /\ LET leaves == For(a).kind = "offboarding"
       IN  run' = [run EXCEPT
              ![a].step = IF leaves THEN "leave" ELSE "attributes",
              ![a].user = [ou |-> account.ou, enabled |-> account.enabled],
              ![a].todo = IF ~leaves THEN For(a).add
                          ELSE IF For(a).remove THEN account.groups \cap Ours ELSE {},
              ![a].alone = TRUE]
    /\ UNCHANGED <<account, begun, others, strayed, parked>>

\* The handler of a goes on to step, and the other handlers are alone no more
\* when it has changed the account.
Goes(a, step, todo) ==
    run' = [b \in Agent |->
        IF b = a THEN [run[a] EXCEPT !.step = step, !.todo = todo]
        ELSE IF run[b] # Idle /\ account' # account
             THEN [run[b] EXCEPT !.alone = FALSE] ELSE run[b]]

Fails(a) ==
    run' = [b \in Agent |->
        IF b = a THEN Idle
        ELSE IF run[b] # Idle /\ account' # account
             THEN [run[b] EXCEPT !.alone = FALSE] ELSE run[b]]

\* One cmdlet, which makes the account new if it finds it, and after which the
\* handler is at step, or has failed.
Effect(a, finds, new) ==
    /\ finds
    /\ account' = new
    /\ strayed' = IF InPerimeter(account.ou) /\ InPerimeter(new.ou) THEN strayed
                  ELSE strayed \cup {run[a].step}

Cmdlet(a, finds, new, step, todo) ==
    /\ \/ Effect(a, finds, new) /\ Goes(a, step, todo)
       \/ Effect(a, finds, new) /\ Fails(a)
       \/ UNCHANGED <<account, strayed>> /\ Fails(a)
    /\ UNCHANGED <<begun, others>>

\* A step that calls no cmdlet.
Skips(a, step, todo) ==
    /\ UNCHANGED account
    /\ Goes(a, step, todo)
    /\ UNCHANGED <<begun, others, strayed, parked>>

-----------------------------------------------------------------------------
(* Invoke-OffboardingProduction *)

Leave(a) ==
    /\ At(a, "leave")
    /\ \/ \E g \in run[a].todo :
            /\ Cmdlet(a, Finds(a), [account EXCEPT !.groups = @ \ {g}],
                      "leave", run[a].todo \ {g})
            /\ UNCHANGED parked
       \/ run[a].todo = {} /\ Skips(a, "disable", {})

\* mutant: the description is written, and the account moved, all the same
DisableOrGoOn(a) ==
    /\ At(a, "disable")
    /\ IF For(a).disable
       THEN \/ Cmdlet(a, Finds(a), [account EXCEPT !.enabled = FALSE], "describe", {})
               /\ UNCHANGED parked
            \/ Skips(a, "describe", {})
       ELSE Skips(a, "describe", {})

Disable(a) ==
    /\ At(a, "disable")
    /\ IF For(a).disable
       THEN /\ Cmdlet(a, Finds(a), [account EXCEPT !.enabled = FALSE], "describe", {})
            /\ UNCHANGED parked
       ELSE Skips(a, "describe", {})

Describe(a) ==
    /\ At(a, "describe")
    /\ Cmdlet(a, Finds(a), [account EXCEPT !.note = "offboarded"], "move", {})
    /\ UNCHANGED parked

-----------------------------------------------------------------------------
(* Invoke-ModificationProduction *)

Attributes(a) ==
    /\ At(a, "attributes")
    /\ IF For(a).set
       THEN /\ Cmdlet(a, Finds(a), [account EXCEPT !.attributes = run[a].request],
                      "join", run[a].todo)
            /\ UNCHANGED parked
       ELSE Skips(a, "join", run[a].todo)

Join(a) ==
    /\ At(a, "join")
    /\ \/ \E g \in run[a].todo :
            /\ Cmdlet(a, TRUE, [account EXCEPT !.groups = @ \cup {g}],
                      "join", run[a].todo \ {g})
            /\ UNCHANGED parked
       \/ run[a].todo = {} /\ Skips(a, "unjoin", For(a).remove)

Unjoin(a) ==
    /\ At(a, "unjoin")
    /\ \/ \E g \in run[a].todo :
            /\ Cmdlet(a, TRUE, [account EXCEPT !.groups = @ \ {g}],
                      "unjoin", run[a].todo \ {g})
            /\ UNCHANGED parked
       \/ run[a].todo = {} /\ Skips(a, "enable", {})

\* An account that was disabled is enabled, unless it is to go to the OU of the
\* disabled users; the request cannot ask for it (the service drops the field).
ShouldReactivate(a) == ~run[a].user.enabled /\ For(a).to # "departed"

Enable(a) ==
    /\ At(a, "enable")
    /\ IF ShouldReactivate(a)
       THEN /\ Cmdlet(a, Finds(a), [account EXCEPT !.enabled = TRUE], "note", {})
            /\ parked' = (parked /\ ~account'.enabled)
       ELSE Skips(a, "move", {})

Note(a) ==
    /\ At(a, "note")
    /\ Cmdlet(a, Finds(a), [account EXCEPT !.note = "reactivated"], "move", {})
    /\ UNCHANGED parked

-----------------------------------------------------------------------------
(* The last step of both *)

\* mutant: the destination of a modification is not checked
AcceptsAnyDestination(a) == TRUE

\* Only a modification has not checked it before.
AcceptsDestination(a) == InPerimeter(For(a).to)

\* The destination is compared with where the account was.
Move(a) ==
    /\ At(a, "move")
    /\ IF For(a).to \in {Nowhere, run[a].user.ou}
       THEN Skips(a, "success", {})
       ELSE IF AcceptsDestination(a)
       THEN /\ Cmdlet(a, Finds(a), [account EXCEPT !.ou = For(a).to], "success", {})
            /\ parked' = IF account'.ou = account.ou THEN parked
                         ELSE For(a).kind = "offboarding" /\ For(a).disable /\ run[a].alone
       ELSE /\ UNCHANGED account
            /\ Fails(a)
            /\ UNCHANGED <<begun, others, strayed, parked>>

\* The result is sent; or the process ends, wherever it is.
Ends(a) ==
    /\ run[a] # Idle
    /\ run' = [run EXCEPT ![a] = Idle]
    /\ UNCHANGED <<account, begun, others, strayed, parked>>

\* An administrator moves the account, or adds it to a group.
OthersChange ==
    /\ others < MaxOthers /\ others' = others + 1
    /\ account' \in {[account EXCEPT !.ou = o] : o \in Ou}
                    \cup {[account EXCEPT !.groups = @ \cup {g}] : g \in Group}
    /\ account' # account
    /\ run' = [a \in Agent |-> IF run[a] = Idle THEN Idle ELSE [run[a] EXCEPT !.alone = FALSE]]
    /\ parked' = (parked /\ account'.ou = account.ou)
    /\ UNCHANGED <<begun, strayed>>

Next ==
    \/ OthersChange
    \/ \E a \in Agent :
          \/ \E r \in Request : Begin(a, r)
          \/ Read(a) \/ Leave(a) \/ Disable(a) \/ Describe(a)
          \/ Attributes(a) \/ Join(a) \/ Unjoin(a) \/ Enable(a) \/ Note(a)
          \/ Move(a) \/ Ends(a)

Spec == Init /\ [][Next]_vars

-----------------------------------------------------------------------------
\* What a payload asks of the account.
IsAsAsked(r) ==
    LET p == Asked[r]
    IN  IF p.kind = "offboarding"
        THEN /\ account.ou = p.to /\ account.note = "offboarded"
             /\ p.disable => ~account.enabled
             /\ p.remove => account.groups \cap Ours = {}
        ELSE /\ p.set => account.attributes = r
             /\ p.to # Nowhere => account.ou = p.to
             /\ p.add \ p.remove \subseteq account.groups
             /\ p.remove \cap account.groups = {}
             /\ p.to # "departed" => account.enabled

\* A handler that reports success, with nothing else having changed the account
\* since it read it, has made it what was asked: whatever handlers failed or
\* were cut short before it, and wherever.
SuccessIsAsAsked ==
    \A a \in Agent : At(a, "success") /\ run[a].alone => IsAsAsked(run[a].request)

\* Two agents on one account, or an administrator who moves it away under a
\* handler, make the agents change nothing out of their perimeter but groups.
StaysInPerimeter == strayed \subseteq {"join", "unjoin"}

\* An account in the OU where an offboarding that disables, and that nothing
\* disturbed, has put it is disabled until a modification has enabled it: no
\* failure of a cmdlet, no crash and no retry leaves it there enabled.
ParkedIsDisabled == parked => ~account.enabled
=============================================================================
