-------------------------- MODULE AccountHandlers_proofs --------------------------
(***************************************************************************)
(* For any agents, requests and groups: what a handler reports as done is  *)
(* done, what it finds moved out of the perimeter it leaves alone, and an  *)
(* account that an offboarding disabled and moved stays disabled.          *)
(***************************************************************************)
EXTENDS AccountHandlers, TLAPS

\* What a handler has done to an account that nothing else has changed since it
\* read it.
OffboardingDone(h, acc) ==
    LET p == Asked[h.request] IN
    /\ h.step = "leave" /\ p.remove => acc.groups \cap Ours \subseteq h.todo
    /\ h.step \in {"disable", "describe", "move", "success"} /\ p.remove
           => acc.groups \cap Ours = {}
    /\ h.step \in {"describe", "move", "success"} /\ p.disable => ~acc.enabled
    /\ h.step \in {"move", "success"} => acc.note = "offboarded"

ModificationDone(h, acc) ==
    LET p == Asked[h.request] IN
    /\ h.step = "attributes" => h.todo = p.add
    /\ h.step \in {"join", "unjoin", "enable", "note", "move", "success"} /\ p.set
           => acc.attributes = h.request
    /\ h.step = "join" => p.add \subseteq acc.groups \cup h.todo
    /\ h.step \in {"unjoin", "enable", "note", "move", "success"}
           => p.add \ p.remove \subseteq acc.groups
    /\ h.step = "unjoin" => p.remove \cap acc.groups \subseteq h.todo /\ h.todo \subseteq p.remove
    /\ h.step \in {"enable", "note", "move", "success"} => p.remove \cap acc.groups = {}
    /\ h.step \in {"attributes", "join", "unjoin", "enable"} => acc.enabled = h.user.enabled
    /\ h.step = "note" => acc.enabled
    /\ h.step \in {"move", "success"} /\ p.to # "departed" => acc.enabled

Done(h, acc) ==
    /\ Asked[h.request].kind = "offboarding" => OffboardingDone(h, acc)
    /\ Asked[h.request].kind = "modification" => ModificationDone(h, acc)
    /\ h.step \notin {"read", "success"} => acc.ou = h.user.ou
    /\ h.step = "success" /\ Asked[h.request].to # Nowhere => acc.ou = Asked[h.request].to

OffboardingStep == {"read", "leave", "disable", "describe", "move", "success"}
ModificationStep == {"read", "attributes", "join", "unjoin", "enable", "note", "move", "success"}

\* A handler is at a step of its kind, and has checked what it will touch.
Checked(h) ==
    /\ h.step # "read" => InPerimeter(h.user.ou)
    /\ Asked[h.request].kind = "offboarding"
           => h.step \in OffboardingStep /\ InPerimeter(Asked[h.request].to)
    /\ Asked[h.request].kind = "modification" => h.step \in ModificationStep

Knows(h, acc) == Checked(h) /\ (h.alone /\ h.step # "read" => Done(h, acc))

\* The inductive invariant.
HandlersKnow == \A a \in Agent : run[a] # Idle => Knows(run[a], account)

HandlerInv == TypeOK /\ HandlersKnow /\ StaysInPerimeter /\ ParkedIsDisabled

-----------------------------------------------------------------------------
LEMMA IdleIsNoHandler == Idle \notin Handler
  BY DEF Idle, Handler

\* A payload has the fields of its kind.
LEMMA AskedTypes ==
    ASSUME Payloads, NEW r \in Request
    PROVE  /\ Asked[r] \in Offboarding \cup Modification
           /\ Asked[r].kind \in {"offboarding", "modification"}
           /\ Asked[r].kind = "offboarding" => Asked[r] \in Offboarding
           /\ Asked[r].kind = "modification" => Asked[r] \in Modification
  BY DEF Payloads, Offboarding, Modification

LEMMA HandlerInit ==
    ASSUME Payloads, Init
    PROVE  HandlerInv
  <1>1. TypeOK
    BY DEF Init, TypeOK, Account, Ou
  <1>2. HandlersKnow
    BY DEF Init, HandlersKnow
  <1>3. StaysInPerimeter /\ ParkedIsDisabled
    BY DEF Init, StaysInPerimeter, ParkedIsDisabled
  <1> QED
    BY <1>1, <1>2, <1>3 DEF HandlerInv

\* A step of one handler leaves the others knowing what they know: either the
\* account is as it was, or they are alone no more.
LEMMA OthersKnow ==
    ASSUME TypeOK, HandlersKnow, NEW a \in Agent, NEW step, NEW todo,
           Goes(a, step, todo) \/ Fails(a),
           NEW b \in Agent, b # a, run'[b] # Idle
    PROVE  run'[b] \in Handler /\ Knows(run'[b], account')
  <1>1. CASE run[b] = Idle
    BY <1>1 DEF Goes, Fails
  <1>2. CASE run[b] # Idle /\ account' = account
    <2>1. run'[b] = run[b] /\ run[b] \in Handler
      BY <1>2 DEF Goes, Fails, TypeOK
    <2> QED
      BY <2>1, <1>2 DEF HandlersKnow
  <1>3. CASE run[b] # Idle /\ account' # account
    <2>1. run[b] \in Handler /\ Checked(run[b])
      BY <1>3 DEF TypeOK, HandlersKnow, Knows
    <2>2. run'[b] = [run[b] EXCEPT !.alone = FALSE]
      BY <1>3 DEF Goes, Fails
    <2>3. run'[b] \in Handler /\ ~run'[b].alone /\ Checked(run'[b])
      BY <2>1, <2>2 DEF Handler, Checked
    <2> QED
      BY <2>3 DEF Knows
  <1> QED
    BY <1>1, <1>2, <1>3

\* So what a step has to show is about its own handler.
LEMMA HandlerGoes ==
    ASSUME TypeOK, HandlersKnow, NEW a \in Agent, run[a] # Idle,
           NEW step \in Steps, NEW todo \in SUBSET Group, Goes(a, step, todo),
           NEW h, h = [run[a] EXCEPT !.step = step, !.todo = todo],
           Knows(h, account')
    PROVE  run' \in [Agent -> {Idle} \cup Handler] /\ HandlersKnow'
  <1>1. run[a] \in Handler /\ h \in Handler
    BY DEF TypeOK, Handler
  <1>2. run'[a] = h /\ DOMAIN run' = Agent
    BY DEF Goes
  <1>3. \A b \in Agent : run'[b] # Idle => run'[b] \in Handler /\ Knows(run'[b], account')
    BY <1>1, <1>2, OthersKnow
  <1>4. run' = [b \in Agent |-> run'[b]]
    BY DEF Goes
  <1> QED
    BY <1>3, <1>4 DEF HandlersKnow

LEMMA HandlerFails ==
    ASSUME TypeOK, HandlersKnow, NEW a \in Agent, Fails(a)
    PROVE  run' \in [Agent -> {Idle} \cup Handler] /\ HandlersKnow'
  <1>1. run'[a] = Idle
    BY DEF Fails
  <1>2. \A b \in Agent : run'[b] # Idle => run'[b] \in Handler /\ Knows(run'[b], account')
    BY <1>1, OthersKnow
  <1>3. run' = [b \in Agent |-> run'[b]]
    BY DEF Fails
  <1> QED
    BY <1>2, <1>3 DEF HandlersKnow

\* A step that calls no cmdlet, and one that does, keep what is known as soon as
\* the handler knows of the new account what its next step is to know.
LEMMA SkipKeeps ==
    ASSUME HandlerInv, NEW a \in Agent, run[a] # Idle,
           NEW step \in Steps, NEW todo \in SUBSET Group, Skips(a, step, todo),
           Knows([run[a] EXCEPT !.step = step, !.todo = todo], account)
    PROVE  HandlerInv'
  <1>1. account' = account /\ strayed' = strayed /\ parked' = parked /\ Goes(a, step, todo)
    BY DEF Skips
  <1>2. run' \in [Agent -> {Idle} \cup Handler] /\ HandlersKnow'
    <2>1. Knows([run[a] EXCEPT !.step = step, !.todo = todo], account')
      BY <1>1
    <2> QED
      BY <1>1, <2>1, HandlerGoes DEF HandlerInv
  <1> QED
    BY <1>1, <1>2 DEF HandlerInv, TypeOK, StaysInPerimeter, ParkedIsDisabled

LEMMA CmdletKeeps ==
    ASSUME TypeOK, HandlersKnow, StaysInPerimeter, NEW a \in Agent, run[a] # Idle,
           NEW step \in Steps, NEW todo \in SUBSET Group,
           Goes(a, step, todo) \/ Fails(a),
           \/ /\ account' \in Account
              /\ Knows([run[a] EXCEPT !.step = step, !.todo = todo], account')
              /\ \/ strayed' = strayed
                 \/ /\ run[a].step \in {"join", "unjoin"}
                    /\ strayed' = strayed \cup {run[a].step}
           \/ UNCHANGED <<account, strayed>> /\ Fails(a)
    PROVE  /\ run' \in [Agent -> {Idle} \cup Handler] /\ HandlersKnow'
           /\ account' \in Account /\ StaysInPerimeter' /\ strayed' \subseteq Steps
  <1>1. account' \in Account
    BY DEF TypeOK
  <1>2. strayed' \subseteq {"join", "unjoin"}
    BY DEF StaysInPerimeter
  <1>3. CASE Fails(a)
    BY <1>1, <1>2, <1>3, HandlerFails DEF StaysInPerimeter, Steps
  <1>4. CASE Goes(a, step, todo) /\ ~Fails(a)
    BY <1>1, <1>2, <1>4, HandlerGoes DEF StaysInPerimeter, Steps
  <1> QED
    BY <1>3, <1>4

\* What is known of a handler before its step.
LEMMA Known ==
    ASSUME Payloads, HandlerInv, NEW a \in Agent, run[a] # Idle
    PROVE  /\ run[a] \in Handler /\ run[a].request \in Request /\ account \in Account
           /\ run[a].step \in Steps /\ run[a].todo \in SUBSET Group
           /\ Checked(run[a])
           /\ run[a].alone /\ run[a].step # "read" => Done(run[a], account)
           /\ For(a) = Asked[run[a].request]
           /\ For(a).kind = "offboarding" => For(a) \in Offboarding
           /\ For(a).kind = "modification" => For(a) \in Modification
           /\ For(a).kind \in {"offboarding", "modification"}
           /\ For(a).to \in Ou \cup {Nowhere}
           /\ run[a].step \in {"leave", "disable", "describe"} => For(a).kind = "offboarding"
           /\ run[a].step \in {"attributes", "join", "unjoin", "enable", "note"}
                  => For(a).kind = "modification"
  <1>1. run[a] \in Handler /\ account \in Account
    BY DEF HandlerInv, TypeOK
  <1>2. run[a].request \in Request /\ run[a].step \in Steps /\ run[a].todo \in SUBSET Group
    BY <1>1 DEF Handler
  <1>3. Checked(run[a]) /\ (run[a].alone /\ run[a].step # "read" => Done(run[a], account))
    BY DEF HandlerInv, HandlersKnow, Knows
  <1>4. For(a) = Asked[run[a].request]
    BY DEF For
  <1>5. /\ For(a).kind \in {"offboarding", "modification"}
        /\ For(a).kind = "offboarding" => For(a) \in Offboarding
        /\ For(a).kind = "modification" => For(a) \in Modification
    BY <1>2, <1>4, AskedTypes
  <1>6. For(a).to \in Ou \cup {Nowhere}
    BY <1>5 DEF Offboarding, Modification
  <1>7. /\ run[a].step \in {"leave", "disable", "describe"} => For(a).kind = "offboarding"
        /\ run[a].step \in {"attributes", "join", "unjoin", "enable", "note"}
                  => For(a).kind = "modification"
    BY <1>3, <1>4, <1>5 DEF Checked, OffboardingStep, ModificationStep
  <1> QED
    BY <1>1, <1>2, <1>3, <1>4, <1>5, <1>6, <1>7

\* Most cmdlets have an effect within the perimeter only.
LEMMA FoundInPerimeter ==
    ASSUME Payloads, HandlerInv, NEW a \in Agent, run[a] # Idle, run[a].step # "read", Finds(a)
    PROVE  InPerimeter(account.ou)
  BY Known DEF Finds, Checked

-----------------------------------------------------------------------------
LEMMA BeginKeeps ==
    ASSUME Payloads, HandlerInv, NEW a \in Agent, NEW r \in Request, Begin(a, r)
    PROVE  HandlerInv'
  <1> DEFINE h == [step |-> "read", request |-> r, todo |-> {},
                   user |-> [ou |-> "staff", enabled |-> TRUE], alone |-> TRUE]
  <1>1. h \in Handler
    BY DEF Handler, Steps, Ou
  <1>2. Knows(h, account)
    <2>1. Checked(h)
      BY AskedTypes DEF Checked, Begin, OffboardingStep, ModificationStep
    <2> QED
      BY <2>1 DEF Knows
  <1>3. run' = [run EXCEPT ![a] = h] /\ UNCHANGED <<account, strayed, parked>>
    BY DEF Begin
  <1> QED
    BY <1>1, <1>2, <1>3 DEF HandlerInv, TypeOK, HandlersKnow, StaysInPerimeter, ParkedIsDisabled

LEMMA ReadKeeps ==
    ASSUME Payloads, HandlerInv, NEW a \in Agent, Read(a)
    PROVE  HandlerInv'
  <1> DEFINE leaves == For(a).kind = "offboarding"
             todo == IF ~leaves THEN For(a).add
                     ELSE IF For(a).remove THEN account.groups \cap Ours ELSE {}
             h == [run[a] EXCEPT !.step = IF leaves THEN "leave" ELSE "attributes",
                                 !.user = [ou |-> account.ou, enabled |-> account.enabled],
                                 !.todo = todo, !.alone = TRUE]
  <1>1. run[a] # Idle /\ run[a].step = "read" /\ InPerimeter(account.ou)
    BY DEF Read, At
  <1>2. run' = [run EXCEPT ![a] = h] /\ UNCHANGED <<account, strayed, parked>>
    BY DEF Read, TypeOK, HandlerInv
  <1>3. todo \in SUBSET Group
    BY <1>1, Known DEF Account, Modification
  <1>4. h \in Handler
    BY <1>1, <1>3, Known DEF Handler, Account, Steps
  <1>5. Knows(h, account)
    <2>1. CASE leaves
      <3>1. h.step = "leave" /\ h.request = run[a].request /\ h.user.ou = account.ou
        BY <1>1, <2>1, Known DEF Handler
      <3>2. For(a).remove => h.todo = account.groups \cap Ours
        BY <1>1, <2>1, Known DEF Handler
      <3>3. Checked(h)
        BY <1>1, <2>1, <3>1, Known DEF Checked, OffboardingStep
      <3>4. Done(h, account)
        BY <1>1, <2>1, <3>1, <3>2, Known DEF Done, OffboardingDone
      <3> QED
        BY <3>3, <3>4 DEF Knows
    <2>2. CASE ~leaves
      <3>1. /\ h.step = "attributes" /\ h.request = run[a].request /\ h.user.ou = account.ou
            /\ h.user.enabled = account.enabled /\ h.todo = For(a).add
        BY <1>1, <2>2, Known DEF Handler
      <3>2. Checked(h)
        BY <1>1, <2>2, <3>1, Known DEF Checked, ModificationStep
      <3>3. Done(h, account)
        BY <1>1, <2>2, <3>1, Known DEF Done, ModificationDone
      <3> QED
        BY <3>2, <3>3 DEF Knows
    <2> QED
      BY <2>1, <2>2
  <1> QED
    BY <1>2, <1>4, <1>5 DEF HandlerInv, TypeOK, HandlersKnow, StaysInPerimeter, ParkedIsDisabled

LEMMA EndsKeeps ==
    ASSUME HandlerInv, NEW a \in Agent, Ends(a)
    PROVE  HandlerInv'
  BY DEF Ends, HandlerInv, TypeOK, HandlersKnow, StaysInPerimeter, ParkedIsDisabled

LEMMA OthersChangeKeeps ==
    ASSUME HandlerInv, OthersChange
    PROVE  HandlerInv'
  <1>1. account' \in Account
    <2>1. CASE \E o \in Ou : account' = [account EXCEPT !.ou = o]
      BY <2>1 DEF HandlerInv, TypeOK, Account
    <2>2. CASE \E g \in Group : account' = [account EXCEPT !.groups = @ \cup {g}]
      BY <2>2 DEF HandlerInv, TypeOK, Account
    <2> QED
      BY <2>1, <2>2 DEF OthersChange
  <1>2. account'.enabled = account.enabled
    BY DEF OthersChange, HandlerInv, TypeOK, Account
  <1>3. \A a \in Agent : run'[a] # Idle
            => run'[a] \in Handler /\ Knows(run'[a], account')
    <2> SUFFICES ASSUME NEW a \in Agent, run'[a] # Idle
                 PROVE  run'[a] \in Handler /\ Knows(run'[a], account')
      OBVIOUS
    <2>1. run[a] # Idle /\ run'[a] = [run[a] EXCEPT !.alone = FALSE]
      BY DEF OthersChange
    <2>2. run[a] \in Handler /\ Checked(run[a])
      BY <2>1 DEF HandlerInv, TypeOK, HandlersKnow, Knows
    <2>3. run'[a] \in Handler /\ ~run'[a].alone /\ Checked(run'[a])
      BY <2>1, <2>2 DEF Handler, Checked
    <2> QED
      BY <2>3 DEF Knows
  <1>4. run' = [a \in Agent |-> run'[a]]
    BY DEF OthersChange
  <1>5. run' \in [Agent -> {Idle} \cup Handler] /\ HandlersKnow'
    BY <1>3, <1>4 DEF HandlersKnow
  <1>6. strayed' = strayed /\ parked' \in BOOLEAN /\ (parked' => parked)
    BY DEF OthersChange, HandlerInv, TypeOK
  <1> QED
    BY <1>1, <1>2, <1>5, <1>6 DEF HandlerInv, TypeOK, StaysInPerimeter, ParkedIsDisabled

-----------------------------------------------------------------------------
(* A departure *)

LEMMA LeaveKeeps ==
    ASSUME Payloads, HandlerInv, NEW a \in Agent, Leave(a)
    PROVE  HandlerInv'
  <1>1. run[a] # Idle /\ run[a].step = "leave"
    BY DEF Leave, At
  <1>2. ASSUME NEW g \in run[a].todo, parked' = parked,
               Cmdlet(a, Finds(a), [account EXCEPT !.groups = @ \ {g}], "leave", run[a].todo \ {g})
        PROVE  HandlerInv'
    <2> DEFINE new == [account EXCEPT !.groups = @ \ {g}]
               h == [run[a] EXCEPT !.step = "leave", !.todo = run[a].todo \ {g}]
    <2>1. Cmdlet(a, Finds(a), new, "leave", run[a].todo \ {g})
      BY <1>2
    <2>2. new \in Account
      BY <1>1, Known DEF Account
    <2>3. /\ h.step = "leave" /\ h.todo = run[a].todo \ {g} /\ h.request = run[a].request
          /\ h.user = run[a].user /\ h.alone = run[a].alone
      BY <1>1, Known DEF Handler
    <2>4. Checked(h)
      BY <1>1, <2>3, Known DEF Checked, OffboardingStep
    <2>5. ASSUME h.alone PROVE Done(h, new)
      <3>1. Done(run[a], account)
        BY <1>1, <2>3, <2>5, Known
      <3> QED
        BY <1>1, <2>3, <3>1, Known DEF Done, OffboardingDone, Account
    <2>6. Knows(h, new)
      BY <2>4, <2>5 DEF Knows
    <2>7. Finds(a) => InPerimeter(account.ou) /\ InPerimeter(new.ou)
      BY <1>1, Known, FoundInPerimeter DEF Account
    <2>8. \/ account' = new /\ ( \/ strayed' = strayed
                                 \/ /\ run[a].step \in {"join", "unjoin"}
                                    /\ strayed' = strayed \cup {run[a].step} )
          \/ UNCHANGED <<account, strayed>> /\ Fails(a)
      BY <2>1, <2>7 DEF Cmdlet, Effect
    <2>9. Goes(a, "leave", run[a].todo \ {g}) \/ Fails(a)
      BY <2>1 DEF Cmdlet
    <2>10. /\ run' \in [Agent -> {Idle} \cup Handler] /\ HandlersKnow'
           /\ account' \in Account /\ StaysInPerimeter' /\ strayed' \subseteq Steps
      <3>1. "leave" \in Steps /\ run[a].todo \ {g} \in SUBSET Group
        BY <1>1, Known DEF Steps
      <3>2. \/ /\ account' \in Account /\ Knows(h, account')
               /\ \/ strayed' = strayed
                  \/ /\ run[a].step \in {"join", "unjoin"}
                     /\ strayed' = strayed \cup {run[a].step}
            \/ UNCHANGED <<account, strayed>> /\ Fails(a)
        BY <2>2, <2>6, <2>8
      <3>3. TypeOK /\ HandlersKnow /\ StaysInPerimeter
        BY DEF HandlerInv
      <3> QED
        BY <1>1, <2>9, <3>1, <3>2, <3>3, CmdletKeeps
    <2>11. account'.enabled = account.enabled
      BY <1>1, <2>8, Known DEF Account
    <2> QED
      BY <1>2, <2>10, <2>11 DEF HandlerInv, TypeOK, ParkedIsDisabled
  <1>3. ASSUME run[a].todo = {}, Skips(a, "disable", {}) PROVE HandlerInv'
    <2> DEFINE h == [run[a] EXCEPT !.step = "disable", !.todo = {}]
    <2>1. /\ h.step = "disable" /\ h.todo = {} /\ h.request = run[a].request
          /\ h.user = run[a].user /\ h.alone = run[a].alone
      BY Known, <1>1 DEF Handler
    <2>2. Checked(h)
      BY <1>1, <2>1, Known DEF Checked, OffboardingStep
    <2>3. ASSUME h.alone PROVE Done(h, account)
      <3>1. Done(run[a], account)
        BY <1>1, <2>1, <2>3, Known
      <3> QED
        BY <1>1, <1>3, <2>1, <3>1, Known DEF Done, OffboardingDone, Account
    <2>4. {} \in SUBSET Group
      BY <1>1, Known DEF Modification
    <2> QED
      BY <1>1, <1>3, <2>2, <2>3, <2>4, Known, SkipKeeps DEF Knows, Steps
  <1> QED
    BY <1>2, <1>3 DEF Leave

LEMMA DisableKeeps ==
    ASSUME Payloads, HandlerInv, NEW a \in Agent, Disable(a)
    PROVE  HandlerInv'
  <1>1. run[a] # Idle /\ run[a].step = "disable"
    BY DEF Disable, At
  <1>2. ASSUME For(a).disable PROVE HandlerInv'
    <2> DEFINE new == [account EXCEPT !.enabled = FALSE]
               h == [run[a] EXCEPT !.step = "describe", !.todo = {}]
    <2>1. Cmdlet(a, Finds(a), new, "describe", {})
      BY <1>2 DEF Disable
    <2>2. new \in Account
      BY <1>1, Known DEF Account
    <2>3. /\ h.step = "describe" /\ h.todo = {} /\ h.request = run[a].request
          /\ h.user = run[a].user /\ h.alone = run[a].alone
      BY Known DEF Handler
    <2>4. Checked(h)
      BY <1>1, <2>3, Known DEF Checked, OffboardingStep
    <2>5. ASSUME h.alone PROVE Done(h, new)
      <3>1. Done(run[a], account)
        BY <1>1, <2>3, <2>5, Known
      <3> QED
        BY <1>1, <1>2, <2>3, <3>1, Known DEF Done, OffboardingDone, Account
    <2>6. Knows(h, new)
      BY <2>4, <2>5 DEF Knows
    <2>7. Finds(a) => InPerimeter(account.ou) /\ InPerimeter(new.ou)
      BY <1>1, Known, FoundInPerimeter DEF Account
    <2>8. \/ account' = new /\ ( \/ strayed' = strayed
                                 \/ /\ run[a].step \in {"join", "unjoin"}
                                    /\ strayed' = strayed \cup {run[a].step} )
          \/ UNCHANGED <<account, strayed>> /\ Fails(a)
      BY <2>1, <2>7 DEF Cmdlet, Effect
    <2>9. Goes(a, "describe", {}) \/ Fails(a)
      BY <2>1 DEF Cmdlet
    <2>10. /\ run' \in [Agent -> {Idle} \cup Handler] /\ HandlersKnow'
           /\ account' \in Account /\ StaysInPerimeter' /\ strayed' \subseteq Steps
      <3>1. "describe" \in Steps /\ {} \in SUBSET Group
        BY <1>1, Known DEF Steps
      <3>2. \/ /\ account' \in Account /\ Knows(h, account')
               /\ \/ strayed' = strayed
                  \/ /\ run[a].step \in {"join", "unjoin"}
                     /\ strayed' = strayed \cup {run[a].step}
            \/ UNCHANGED <<account, strayed>> /\ Fails(a)
        BY <2>2, <2>6, <2>8
      <3>3. TypeOK /\ HandlersKnow /\ StaysInPerimeter
        BY DEF HandlerInv
      <3> QED
        BY <1>1, <2>9, <3>1, <3>2, <3>3, CmdletKeeps
    <2>11. parked' \in BOOLEAN /\ ParkedIsDisabled'
      <3>1. parked' = parked
        BY <1>2 DEF Disable
      <3>2. account'.enabled => account.enabled
        BY <1>1, <2>8, Known DEF Account
      <3> QED
        BY <3>1, <3>2 DEF HandlerInv, TypeOK, ParkedIsDisabled
    <2> QED
      BY <2>10, <2>11 DEF HandlerInv, TypeOK
  <1>3. ASSUME ~For(a).disable PROVE HandlerInv'
    <2> DEFINE h == [run[a] EXCEPT !.step = "describe", !.todo = {}]
    <2>1. Skips(a, "describe", {})
      BY <1>3 DEF Disable
    <2>2. /\ h.step = "describe" /\ h.todo = {} /\ h.request = run[a].request
          /\ h.user = run[a].user /\ h.alone = run[a].alone
      BY Known DEF Handler
    <2>3. Checked(h)
      BY <1>1, <2>2, Known DEF Checked, OffboardingStep
    <2>4. ASSUME h.alone PROVE Done(h, account)
      <3>1. Done(run[a], account)
        BY <1>1, <2>2, <2>4, Known
      <3> QED
        BY <1>1, <1>3, <2>2, <3>1, Known DEF Done, OffboardingDone, Account
    <2>5. Knows(h, account)
      BY <2>3, <2>4 DEF Knows
    <2>6. "describe" \in Steps /\ {} \in SUBSET Group
      BY <1>1, Known DEF Steps
    <2> QED
      BY <1>1, <2>1, <2>5, <2>6, SkipKeeps
  <1> QED
    BY <1>2, <1>3

LEMMA DescribeKeeps ==
    ASSUME Payloads, HandlerInv, NEW a \in Agent, Describe(a)
    PROVE  HandlerInv'
  <1>1. run[a] # Idle /\ run[a].step = "describe"
    BY DEF Describe, At
  <1>2. HandlerInv'
    <2> DEFINE new == [account EXCEPT !.note = "offboarded"]
               h == [run[a] EXCEPT !.step = "move", !.todo = {}]
    <2>1. Cmdlet(a, Finds(a), new, "move", {})
      BY DEF Describe
    <2>2. new \in Account
      BY <1>1, Known DEF Account
    <2>3. /\ h.step = "move" /\ h.todo = {} /\ h.request = run[a].request
          /\ h.user = run[a].user /\ h.alone = run[a].alone
      BY Known DEF Handler
    <2>4. Checked(h)
      BY <1>1, <2>3, Known DEF Checked, OffboardingStep
    <2>5. ASSUME h.alone PROVE Done(h, new)
      <3>1. Done(run[a], account)
        BY <1>1, <2>3, <2>5, Known
      <3> QED
        BY <1>1, <2>3, <3>1, Known DEF Done, OffboardingDone, Account
    <2>6. Knows(h, new)
      BY <2>4, <2>5 DEF Knows
    <2>7. Finds(a) => InPerimeter(account.ou) /\ InPerimeter(new.ou)
      BY <1>1, Known, FoundInPerimeter DEF Account
    <2>8. \/ account' = new /\ ( \/ strayed' = strayed
                                 \/ /\ run[a].step \in {"join", "unjoin"}
                                    /\ strayed' = strayed \cup {run[a].step} )
          \/ UNCHANGED <<account, strayed>> /\ Fails(a)
      BY <2>1, <2>7 DEF Cmdlet, Effect
    <2>9. Goes(a, "move", {}) \/ Fails(a)
      BY <2>1 DEF Cmdlet
    <2>10. /\ run' \in [Agent -> {Idle} \cup Handler] /\ HandlersKnow'
           /\ account' \in Account /\ StaysInPerimeter' /\ strayed' \subseteq Steps
      <3>1. "move" \in Steps /\ {} \in SUBSET Group
        BY <1>1, Known DEF Steps
      <3>2. \/ /\ account' \in Account /\ Knows(h, account')
               /\ \/ strayed' = strayed
                  \/ /\ run[a].step \in {"join", "unjoin"}
                     /\ strayed' = strayed \cup {run[a].step}
            \/ UNCHANGED <<account, strayed>> /\ Fails(a)
        BY <2>2, <2>6, <2>8
      <3>3. TypeOK /\ HandlersKnow /\ StaysInPerimeter
        BY DEF HandlerInv
      <3> QED
        BY <1>1, <2>9, <3>1, <3>2, <3>3, CmdletKeeps
    <2>11. parked' \in BOOLEAN /\ ParkedIsDisabled'
      <3>1. parked' = parked
        BY DEF Describe
      <3>2. account'.enabled = account.enabled
        BY <1>1, <2>8, Known DEF Account
      <3> QED
        BY <3>1, <3>2 DEF HandlerInv, TypeOK, ParkedIsDisabled
    <2> QED
      BY <2>10, <2>11 DEF HandlerInv, TypeOK
  <1> QED
    BY <1>2

-----------------------------------------------------------------------------
(* A modification *)

LEMMA AttributesKeeps ==
    ASSUME Payloads, HandlerInv, NEW a \in Agent, Attributes(a)
    PROVE  HandlerInv'
  <1>1. run[a] # Idle /\ run[a].step = "attributes"
    BY DEF Attributes, At
  <1>2. ASSUME For(a).set PROVE HandlerInv'
    <2> DEFINE new == [account EXCEPT !.attributes = run[a].request]
               h == [run[a] EXCEPT !.step = "join", !.todo = run[a].todo]
    <2>1. Cmdlet(a, Finds(a), new, "join", run[a].todo)
      BY <1>2 DEF Attributes
    <2>2. new \in Account
      BY <1>1, Known DEF Account
    <2>3. /\ h.step = "join" /\ h.todo = run[a].todo /\ h.request = run[a].request
          /\ h.user = run[a].user /\ h.alone = run[a].alone
      BY Known DEF Handler
    <2>4. Checked(h)
      BY <1>1, <2>3, Known DEF Checked, ModificationStep
    <2>5. ASSUME h.alone PROVE Done(h, new)
      <3>1. Done(run[a], account)
        BY <1>1, <2>3, <2>5, Known
      <3> QED
        BY <1>1, <1>2, <2>3, <3>1, Known DEF Done, ModificationDone, Account
    <2>6. Knows(h, new)
      BY <2>4, <2>5 DEF Knows
    <2>7. Finds(a) => InPerimeter(account.ou) /\ InPerimeter(new.ou)
      BY <1>1, Known, FoundInPerimeter DEF Account
    <2>8. \/ account' = new /\ ( \/ strayed' = strayed
                                 \/ /\ run[a].step \in {"join", "unjoin"}
                                    /\ strayed' = strayed \cup {run[a].step} )
          \/ UNCHANGED <<account, strayed>> /\ Fails(a)
      BY <2>1, <2>7 DEF Cmdlet, Effect
    <2>9. Goes(a, "join", run[a].todo) \/ Fails(a)
      BY <2>1 DEF Cmdlet
    <2>10. /\ run' \in [Agent -> {Idle} \cup Handler] /\ HandlersKnow'
           /\ account' \in Account /\ StaysInPerimeter' /\ strayed' \subseteq Steps
      <3>1. "join" \in Steps /\ run[a].todo \in SUBSET Group
        BY <1>1, Known DEF Steps
      <3>2. \/ /\ account' \in Account /\ Knows(h, account')
               /\ \/ strayed' = strayed
                  \/ /\ run[a].step \in {"join", "unjoin"}
                     /\ strayed' = strayed \cup {run[a].step}
            \/ UNCHANGED <<account, strayed>> /\ Fails(a)
        BY <2>2, <2>6, <2>8
      <3>3. TypeOK /\ HandlersKnow /\ StaysInPerimeter
        BY DEF HandlerInv
      <3> QED
        BY <1>1, <2>9, <3>1, <3>2, <3>3, CmdletKeeps
    <2>11. parked' \in BOOLEAN /\ ParkedIsDisabled'
      <3>1. parked' = parked
        BY <1>2 DEF Attributes
      <3>2. account'.enabled = account.enabled
        BY <1>1, <2>8, Known DEF Account
      <3> QED
        BY <3>1, <3>2 DEF HandlerInv, TypeOK, ParkedIsDisabled
    <2> QED
      BY <2>10, <2>11 DEF HandlerInv, TypeOK
  <1>3. ASSUME ~For(a).set PROVE HandlerInv'
    <2> DEFINE h == [run[a] EXCEPT !.step = "join", !.todo = run[a].todo]
    <2>1. Skips(a, "join", run[a].todo)
      BY <1>3 DEF Attributes
    <2>2. /\ h.step = "join" /\ h.todo = run[a].todo /\ h.request = run[a].request
          /\ h.user = run[a].user /\ h.alone = run[a].alone
      BY Known DEF Handler
    <2>3. Checked(h)
      BY <1>1, <2>2, Known DEF Checked, ModificationStep
    <2>4. ASSUME h.alone PROVE Done(h, account)
      <3>1. Done(run[a], account)
        BY <1>1, <2>2, <2>4, Known
      <3> QED
        BY <1>1, <1>3, <2>2, <3>1, Known DEF Done, ModificationDone, Account
    <2>5. Knows(h, account)
      BY <2>3, <2>4 DEF Knows
    <2>6. "join" \in Steps /\ run[a].todo \in SUBSET Group
      BY <1>1, Known DEF Steps
    <2> QED
      BY <1>1, <2>1, <2>5, <2>6, SkipKeeps
  <1> QED
    BY <1>2, <1>3

LEMMA JoinKeeps ==
    ASSUME Payloads, HandlerInv, NEW a \in Agent, Join(a)
    PROVE  HandlerInv'
  <1>1. run[a] # Idle /\ run[a].step = "join"
    BY DEF Join, At
  <1>2. ASSUME NEW g \in run[a].todo, parked' = parked,
               Cmdlet(a, TRUE, [account EXCEPT !.groups = @ \cup {g}], "join", run[a].todo \ {g})
        PROVE  HandlerInv'
    <2> DEFINE new == [account EXCEPT !.groups = @ \cup {g}]
               h == [run[a] EXCEPT !.step = "join", !.todo = run[a].todo \ {g}]
    <2>1. Cmdlet(a, TRUE, new, "join", run[a].todo \ {g})
      BY <1>2
    <2>2. new \in Account
      BY <1>1, Known DEF Account
    <2>3. /\ h.step = "join" /\ h.todo = run[a].todo \ {g} /\ h.request = run[a].request
          /\ h.user = run[a].user /\ h.alone = run[a].alone
      BY <1>1, Known DEF Handler
    <2>4. Checked(h)
      BY <1>1, <2>3, Known DEF Checked, ModificationStep
    <2>5. ASSUME h.alone PROVE Done(h, new)
      <3>1. Done(run[a], account)
        BY <1>1, <2>3, <2>5, Known
      <3> QED
        BY <1>1, <2>3, <3>1, Known DEF Done, ModificationDone, Account
    <2>6. Knows(h, new)
      BY <2>4, <2>5 DEF Knows
    <2>7. run[a].step \in {"join", "unjoin"}
      BY <1>1
    <2>8. \/ account' = new /\ ( \/ strayed' = strayed
                                 \/ /\ run[a].step \in {"join", "unjoin"}
                                    /\ strayed' = strayed \cup {run[a].step} )
          \/ UNCHANGED <<account, strayed>> /\ Fails(a)
      BY <2>1, <2>7 DEF Cmdlet, Effect
    <2>9. Goes(a, "join", run[a].todo \ {g}) \/ Fails(a)
      BY <2>1 DEF Cmdlet
    <2>10. /\ run' \in [Agent -> {Idle} \cup Handler] /\ HandlersKnow'
           /\ account' \in Account /\ StaysInPerimeter' /\ strayed' \subseteq Steps
      <3>1. "join" \in Steps /\ run[a].todo \ {g} \in SUBSET Group
        BY <1>1, Known DEF Steps
      <3>2. \/ /\ account' \in Account /\ Knows(h, account')
               /\ \/ strayed' = strayed
                  \/ /\ run[a].step \in {"join", "unjoin"}
                     /\ strayed' = strayed \cup {run[a].step}
            \/ UNCHANGED <<account, strayed>> /\ Fails(a)
        BY <2>2, <2>6, <2>8
      <3>3. TypeOK /\ HandlersKnow /\ StaysInPerimeter
        BY DEF HandlerInv
      <3> QED
        BY <1>1, <2>9, <3>1, <3>2, <3>3, CmdletKeeps
    <2>11. account'.enabled = account.enabled
      BY <1>1, <2>8, Known DEF Account
    <2> QED
      BY <1>2, <2>10, <2>11 DEF HandlerInv, TypeOK, ParkedIsDisabled
  <1>3. ASSUME run[a].todo = {}, Skips(a, "unjoin", For(a).remove) PROVE HandlerInv'
    <2> DEFINE h == [run[a] EXCEPT !.step = "unjoin", !.todo = For(a).remove]
    <2>1. /\ h.step = "unjoin" /\ h.todo = For(a).remove /\ h.request = run[a].request
          /\ h.user = run[a].user /\ h.alone = run[a].alone
      BY Known, <1>1 DEF Handler
    <2>2. Checked(h)
      BY <1>1, <2>1, Known DEF Checked, ModificationStep
    <2>3. ASSUME h.alone PROVE Done(h, account)
      <3>1. Done(run[a], account)
        BY <1>1, <2>1, <2>3, Known
      <3> QED
        BY <1>1, <1>3, <2>1, <3>1, Known DEF Done, ModificationDone, Account
    <2>4. For(a).remove \in SUBSET Group
      BY <1>1, Known DEF Modification
    <2> QED
      BY <1>1, <1>3, <2>2, <2>3, <2>4, Known, SkipKeeps DEF Knows, Steps
  <1> QED
    BY <1>2, <1>3 DEF Join

LEMMA UnjoinKeeps ==
    ASSUME Payloads, HandlerInv, NEW a \in Agent, Unjoin(a)
    PROVE  HandlerInv'
  <1>1. run[a] # Idle /\ run[a].step = "unjoin"
    BY DEF Unjoin, At
  <1>2. ASSUME NEW g \in run[a].todo, parked' = parked,
               Cmdlet(a, TRUE, [account EXCEPT !.groups = @ \ {g}], "unjoin", run[a].todo \ {g})
        PROVE  HandlerInv'
    <2> DEFINE new == [account EXCEPT !.groups = @ \ {g}]
               h == [run[a] EXCEPT !.step = "unjoin", !.todo = run[a].todo \ {g}]
    <2>1. Cmdlet(a, TRUE, new, "unjoin", run[a].todo \ {g})
      BY <1>2
    <2>2. new \in Account
      BY <1>1, Known DEF Account
    <2>3. /\ h.step = "unjoin" /\ h.todo = run[a].todo \ {g} /\ h.request = run[a].request
          /\ h.user = run[a].user /\ h.alone = run[a].alone
      BY <1>1, Known DEF Handler
    <2>4. Checked(h)
      BY <1>1, <2>3, Known DEF Checked, ModificationStep
    <2>5. ASSUME h.alone PROVE Done(h, new)
      <3>1. Done(run[a], account)
        BY <1>1, <2>3, <2>5, Known
      <3> QED
        BY <1>1, <2>3, <3>1, Known DEF Done, ModificationDone, Account
    <2>6. Knows(h, new)
      BY <2>4, <2>5 DEF Knows
    <2>7. run[a].step \in {"join", "unjoin"}
      BY <1>1
    <2>8. \/ account' = new /\ ( \/ strayed' = strayed
                                 \/ /\ run[a].step \in {"join", "unjoin"}
                                    /\ strayed' = strayed \cup {run[a].step} )
          \/ UNCHANGED <<account, strayed>> /\ Fails(a)
      BY <2>1, <2>7 DEF Cmdlet, Effect
    <2>9. Goes(a, "unjoin", run[a].todo \ {g}) \/ Fails(a)
      BY <2>1 DEF Cmdlet
    <2>10. /\ run' \in [Agent -> {Idle} \cup Handler] /\ HandlersKnow'
           /\ account' \in Account /\ StaysInPerimeter' /\ strayed' \subseteq Steps
      <3>1. "unjoin" \in Steps /\ run[a].todo \ {g} \in SUBSET Group
        BY <1>1, Known DEF Steps
      <3>2. \/ /\ account' \in Account /\ Knows(h, account')
               /\ \/ strayed' = strayed
                  \/ /\ run[a].step \in {"join", "unjoin"}
                     /\ strayed' = strayed \cup {run[a].step}
            \/ UNCHANGED <<account, strayed>> /\ Fails(a)
        BY <2>2, <2>6, <2>8
      <3>3. TypeOK /\ HandlersKnow /\ StaysInPerimeter
        BY DEF HandlerInv
      <3> QED
        BY <1>1, <2>9, <3>1, <3>2, <3>3, CmdletKeeps
    <2>11. account'.enabled = account.enabled
      BY <1>1, <2>8, Known DEF Account
    <2> QED
      BY <1>2, <2>10, <2>11 DEF HandlerInv, TypeOK, ParkedIsDisabled
  <1>3. ASSUME run[a].todo = {}, Skips(a, "enable", {}) PROVE HandlerInv'
    <2> DEFINE h == [run[a] EXCEPT !.step = "enable", !.todo = {}]
    <2>1. /\ h.step = "enable" /\ h.todo = {} /\ h.request = run[a].request
          /\ h.user = run[a].user /\ h.alone = run[a].alone
      BY Known, <1>1 DEF Handler
    <2>2. Checked(h)
      BY <1>1, <2>1, Known DEF Checked, ModificationStep
    <2>3. ASSUME h.alone PROVE Done(h, account)
      <3>1. Done(run[a], account)
        BY <1>1, <2>1, <2>3, Known
      <3> QED
        BY <1>1, <1>3, <2>1, <3>1, Known DEF Done, ModificationDone, Account
    <2>4. {} \in SUBSET Group
      BY <1>1, Known DEF Modification
    <2> QED
      BY <1>1, <1>3, <2>2, <2>3, <2>4, Known, SkipKeeps DEF Knows, Steps
  <1> QED
    BY <1>2, <1>3 DEF Unjoin

LEMMA EnableKeeps ==
    ASSUME Payloads, HandlerInv, NEW a \in Agent, Enable(a)
    PROVE  HandlerInv'
  <1>1. run[a] # Idle /\ run[a].step = "enable"
    BY DEF Enable, At
  <1>2. ASSUME ShouldReactivate(a) PROVE HandlerInv'
    <2> DEFINE new == [account EXCEPT !.enabled = TRUE]
               h == [run[a] EXCEPT !.step = "note", !.todo = {}]
    <2>1. Cmdlet(a, Finds(a), new, "note", {})
      BY <1>2 DEF Enable
    <2>2. new \in Account
      BY <1>1, Known DEF Account
    <2>3. /\ h.step = "note" /\ h.todo = {} /\ h.request = run[a].request
          /\ h.user = run[a].user /\ h.alone = run[a].alone
      BY Known DEF Handler
    <2>4. Checked(h)
      BY <1>1, <2>3, Known DEF Checked, ModificationStep
    <2>5. ASSUME h.alone PROVE Done(h, new)
      <3>1. Done(run[a], account)
        BY <1>1, <2>3, <2>5, Known
      <3> QED
        BY <1>1, <1>2, <2>3, <3>1, Known DEF Done, ModificationDone, Account, ShouldReactivate
    <2>6. Knows(h, new)
      BY <2>4, <2>5 DEF Knows
    <2>7. Finds(a) => InPerimeter(account.ou) /\ InPerimeter(new.ou)
      BY <1>1, Known, FoundInPerimeter DEF Account
    <2>8. \/ account' = new /\ ( \/ strayed' = strayed
                                 \/ /\ run[a].step \in {"join", "unjoin"}
                                    /\ strayed' = strayed \cup {run[a].step} )
          \/ UNCHANGED <<account, strayed>> /\ Fails(a)
      BY <2>1, <2>7 DEF Cmdlet, Effect
    <2>9. Goes(a, "note", {}) \/ Fails(a)
      BY <2>1 DEF Cmdlet
    <2>10. /\ run' \in [Agent -> {Idle} \cup Handler] /\ HandlersKnow'
           /\ account' \in Account /\ StaysInPerimeter' /\ strayed' \subseteq Steps
      <3>1. "note" \in Steps /\ {} \in SUBSET Group
        BY <1>1, Known DEF Steps
      <3>2. \/ /\ account' \in Account /\ Knows(h, account')
               /\ \/ strayed' = strayed
                  \/ /\ run[a].step \in {"join", "unjoin"}
                     /\ strayed' = strayed \cup {run[a].step}
            \/ UNCHANGED <<account, strayed>> /\ Fails(a)
        BY <2>2, <2>6, <2>8
      <3>3. TypeOK /\ HandlersKnow /\ StaysInPerimeter
        BY DEF HandlerInv
      <3> QED
        BY <1>1, <2>9, <3>1, <3>2, <3>3, CmdletKeeps
    <2>11. parked' \in BOOLEAN /\ ParkedIsDisabled'
      <3>1. parked' = (parked /\ ~account'.enabled)
        BY <1>2 DEF Enable
      <3> QED
        BY <3>1, <2>10 DEF ParkedIsDisabled, Account
    <2> QED
      BY <2>10, <2>11 DEF HandlerInv, TypeOK
  <1>3. ASSUME ~ShouldReactivate(a) PROVE HandlerInv'
    <2> DEFINE h == [run[a] EXCEPT !.step = "move", !.todo = {}]
    <2>1. Skips(a, "move", {})
      BY <1>3 DEF Enable
    <2>2. /\ h.step = "move" /\ h.todo = {} /\ h.request = run[a].request
          /\ h.user = run[a].user /\ h.alone = run[a].alone
      BY Known DEF Handler
    <2>3. Checked(h)
      BY <1>1, <2>2, Known DEF Checked, ModificationStep
    <2>4. ASSUME h.alone PROVE Done(h, account)
      <3>1. Done(run[a], account)
        BY <1>1, <2>2, <2>4, Known
      <3> QED
        BY <1>1, <1>3, <2>2, <3>1, Known DEF Done, ModificationDone, Account, ShouldReactivate
    <2>5. Knows(h, account)
      BY <2>3, <2>4 DEF Knows
    <2>6. "move" \in Steps /\ {} \in SUBSET Group
      BY <1>1, Known DEF Steps
    <2> QED
      BY <1>1, <2>1, <2>5, <2>6, SkipKeeps
  <1> QED
    BY <1>2, <1>3

LEMMA NoteKeeps ==
    ASSUME Payloads, HandlerInv, NEW a \in Agent, Note(a)
    PROVE  HandlerInv'
  <1>1. run[a] # Idle /\ run[a].step = "note"
    BY DEF Note, At
  <1>2. HandlerInv'
    <2> DEFINE new == [account EXCEPT !.note = "reactivated"]
               h == [run[a] EXCEPT !.step = "move", !.todo = {}]
    <2>1. Cmdlet(a, Finds(a), new, "move", {})
      BY DEF Note
    <2>2. new \in Account
      BY <1>1, Known DEF Account
    <2>3. /\ h.step = "move" /\ h.todo = {} /\ h.request = run[a].request
          /\ h.user = run[a].user /\ h.alone = run[a].alone
      BY Known DEF Handler
    <2>4. Checked(h)
      BY <1>1, <2>3, Known DEF Checked, ModificationStep
    <2>5. ASSUME h.alone PROVE Done(h, new)
      <3>1. Done(run[a], account)
        BY <1>1, <2>3, <2>5, Known
      <3> QED
        BY <1>1, <2>3, <3>1, Known DEF Done, ModificationDone, Account, ShouldReactivate
    <2>6. Knows(h, new)
      BY <2>4, <2>5 DEF Knows
    <2>7. Finds(a) => InPerimeter(account.ou) /\ InPerimeter(new.ou)
      BY <1>1, Known, FoundInPerimeter DEF Account
    <2>8. \/ account' = new /\ ( \/ strayed' = strayed
                                 \/ /\ run[a].step \in {"join", "unjoin"}
                                    /\ strayed' = strayed \cup {run[a].step} )
          \/ UNCHANGED <<account, strayed>> /\ Fails(a)
      BY <2>1, <2>7 DEF Cmdlet, Effect
    <2>9. Goes(a, "move", {}) \/ Fails(a)
      BY <2>1 DEF Cmdlet
    <2>10. /\ run' \in [Agent -> {Idle} \cup Handler] /\ HandlersKnow'
           /\ account' \in Account /\ StaysInPerimeter' /\ strayed' \subseteq Steps
      <3>1. "move" \in Steps /\ {} \in SUBSET Group
        BY <1>1, Known DEF Steps
      <3>2. \/ /\ account' \in Account /\ Knows(h, account')
               /\ \/ strayed' = strayed
                  \/ /\ run[a].step \in {"join", "unjoin"}
                     /\ strayed' = strayed \cup {run[a].step}
            \/ UNCHANGED <<account, strayed>> /\ Fails(a)
        BY <2>2, <2>6, <2>8
      <3>3. TypeOK /\ HandlersKnow /\ StaysInPerimeter
        BY DEF HandlerInv
      <3> QED
        BY <1>1, <2>9, <3>1, <3>2, <3>3, CmdletKeeps
    <2>11. parked' \in BOOLEAN /\ ParkedIsDisabled'
      <3>1. parked' = parked
        BY DEF Note
      <3>2. account'.enabled = account.enabled
        BY <1>1, <2>8, Known DEF Account
      <3> QED
        BY <3>1, <3>2 DEF HandlerInv, TypeOK, ParkedIsDisabled
    <2> QED
      BY <2>10, <2>11 DEF HandlerInv, TypeOK
  <1> QED
    BY <1>2

-----------------------------------------------------------------------------
\* The last step of both: this is where an account that an offboarding disabled
\* is put, by a handler that knows it disabled.
LEMMA MoveKeeps ==
    ASSUME Payloads, HandlerInv, NEW a \in Agent, Move(a)
    PROVE  HandlerInv'
  <1> DEFINE h == [run[a] EXCEPT !.step = "success", !.todo = {}]
             new == [account EXCEPT !.ou = For(a).to]
  <1>1. run[a] # Idle /\ run[a].step = "move"
    BY DEF Move, At
  <1>2. /\ h.step = "success" /\ h.todo = {} /\ h.request = run[a].request
        /\ h.user = run[a].user /\ h.alone = run[a].alone
    BY <1>1, Known DEF Handler
  <1>3. Checked(h)
    BY <1>1, <1>2, Known DEF Checked, OffboardingStep, ModificationStep
  <1>4. "success" \in Steps /\ {} \in SUBSET Group
    BY DEF Steps
  <1>5. ASSUME For(a).to \in {Nowhere, run[a].user.ou} PROVE HandlerInv'
    <2>1. Skips(a, "success", {})
      BY <1>5 DEF Move
    <2>2. ASSUME h.alone PROVE Done(h, account)
      <3>1. Done(run[a], account)
        BY <1>1, <1>2, <2>2, Known
      <3> QED
        BY <1>1, <1>2, <1>5, <3>1, Known DEF Done, OffboardingDone, ModificationDone
    <2>3. Knows(h, account)
      BY <1>3, <2>2 DEF Knows
    <2> QED
      BY <1>1, <1>4, <2>1, <2>3, SkipKeeps
  <1>6. ASSUME For(a).to \notin {Nowhere, run[a].user.ou}, InPerimeter(For(a).to)
        PROVE  HandlerInv'
    <2>1. /\ Cmdlet(a, Finds(a), new, "success", {})
          /\ parked' = IF account'.ou = account.ou THEN parked
                       ELSE For(a).kind = "offboarding" /\ For(a).disable /\ run[a].alone
      BY <1>6 DEF Move, AcceptsDestination
    <2>2. new \in Account /\ new.ou = For(a).to /\ new.enabled = account.enabled
      BY <1>1, <1>6, Known DEF Account
    <2>3. ASSUME h.alone PROVE Done(h, new)
      <3>1. Done(run[a], account)
        BY <1>1, <1>2, <2>3, Known
      <3> QED
        BY <1>1, <1>2, <1>6, <2>2, <3>1, Known
           DEF Done, OffboardingDone, ModificationDone, Account
    <2>4. Knows(h, new)
      BY <1>3, <2>3 DEF Knows
    <2>5. Finds(a) => InPerimeter(account.ou) /\ InPerimeter(new.ou)
      BY <1>1, <1>6, <2>2, FoundInPerimeter
    <2>6. \/ account' = new /\ strayed' = strayed
          \/ UNCHANGED <<account, strayed>> /\ Fails(a)
      BY <2>1, <2>5 DEF Cmdlet, Effect
    <2>7. Goes(a, "success", {}) \/ Fails(a)
      BY <2>1 DEF Cmdlet
    <2>8. /\ run' \in [Agent -> {Idle} \cup Handler] /\ HandlersKnow'
          /\ account' \in Account /\ StaysInPerimeter' /\ strayed' \subseteq Steps
      <3>1. \/ account' \in Account /\ Knows(h, account') /\ strayed' = strayed
            \/ UNCHANGED <<account, strayed>> /\ Fails(a)
        BY <2>2, <2>4, <2>6
      <3>2. TypeOK /\ HandlersKnow /\ StaysInPerimeter
        BY DEF HandlerInv
      <3> QED
        BY <1>1, <1>4, <2>7, <3>1, <3>2, CmdletKeeps
    <2>9. parked' \in BOOLEAN /\ account'.enabled = account.enabled
      BY <1>1, <2>1, <2>2, <2>6, Known DEF HandlerInv, TypeOK, Offboarding, Handler
    <2>10. parked' => ~account.enabled
      <3>1. CASE account'.ou = account.ou
        BY <2>1, <3>1 DEF HandlerInv, ParkedIsDisabled
      <3>2. CASE account'.ou # account.ou /\ parked'
        <4>1. For(a).kind = "offboarding" /\ For(a).disable /\ run[a].alone
          BY <2>1, <3>2
        <4> QED
          BY <1>1, <4>1, Known DEF Done, OffboardingDone
      <3> QED
        BY <3>1, <3>2
    <2> QED
      BY <2>8, <2>9, <2>10 DEF HandlerInv, TypeOK, ParkedIsDisabled
  <1>7. ASSUME For(a).to \notin {Nowhere, run[a].user.ou}, ~InPerimeter(For(a).to)
        PROVE  HandlerInv'
    <2>1. UNCHANGED <<account, strayed, parked>> /\ Fails(a)
      BY <1>7 DEF Move, AcceptsDestination
    <2>2. run' \in [Agent -> {Idle} \cup Handler] /\ HandlersKnow'
      BY <2>1, HandlerFails DEF HandlerInv
    <2> QED
      BY <2>1, <2>2 DEF HandlerInv, TypeOK, StaysInPerimeter, ParkedIsDisabled
  <1> QED
    BY <1>5, <1>6, <1>7

LEMMA HandlerStep ==
    ASSUME Payloads, HandlerInv, [Next]_vars
    PROVE  HandlerInv'
  <1>1. CASE OthersChange
    BY <1>1, OthersChangeKeeps
  <1>2. ASSUME NEW a \in Agent, NEW r \in Request, Begin(a, r) PROVE HandlerInv'
    BY <1>2, BeginKeeps
  <1>3. ASSUME NEW a \in Agent,
               Read(a) \/ Leave(a) \/ Disable(a) \/ Describe(a) \/ Move(a) \/ Ends(a)
        PROVE  HandlerInv'
    BY <1>3, ReadKeeps, LeaveKeeps, DisableKeeps, DescribeKeeps, MoveKeeps, EndsKeeps
  <1>4. ASSUME NEW a \in Agent,
               Attributes(a) \/ Join(a) \/ Unjoin(a) \/ Enable(a) \/ Note(a)
        PROVE  HandlerInv'
    BY <1>4, AttributesKeeps, JoinKeeps, UnjoinKeeps, EnableKeeps, NoteKeeps
  <1>5. CASE UNCHANGED vars
    BY <1>5 DEF vars, HandlerInv, TypeOK, HandlersKnow, StaysInPerimeter, ParkedIsDisabled
  <1> QED
    BY <1>1, <1>2, <1>3, <1>4, <1>5 DEF Next

-----------------------------------------------------------------------------
\* Every handler of the agent knows what it has done, in every reachable state:
\* the inductive invariant of the three theorems below.
THEOREM HandlersInvariant == ASSUME Payloads PROVE Spec => []HandlerInv
  <1>1. Init => HandlerInv
    BY HandlerInit
  <1>2. HandlerInv /\ [Next]_vars => HandlerInv'
    BY HandlerStep
  <1> QED
    BY <1>1, <1>2, PTL DEF Spec

\* A handler that is at its end knows that what was asked is done.
LEMMA KnownIsAsAsked ==
    ASSUME Payloads, HandlerInv
    PROVE  SuccessIsAsAsked
  <1> SUFFICES ASSUME NEW a \in Agent, At(a, "success"), run[a].alone
               PROVE  IsAsAsked(run[a].request)
    BY DEF SuccessIsAsAsked
  <1>1. run[a] # Idle /\ run[a].step = "success" /\ Done(run[a], account)
    BY Known DEF At
  <1>2. For(a).kind = "offboarding" => For(a).to # Nowhere
    BY <1>1, Known DEF Payloads, Offboarding
  <1> QED
    BY <1>1, <1>2, Known DEF Done, OffboardingDone, ModificationDone, IsAsAsked

\* For any agents, requests and groups, a handler that reports success on an
\* account nothing else has changed meanwhile has made it what was asked
\* (Invoke-OffboardingProduction, Invoke-ModificationProduction).
THEOREM SuccessAsAsked == ASSUME Payloads PROVE Spec => []SuccessIsAsAsked
  <1>1. HandlerInv => SuccessIsAsAsked
    BY KnownIsAsAsked
  <1> QED
    BY <1>1, HandlersInvariant, PTL

\* For any agents, requests and groups, whatever fails and whoever else moves
\* the account, the handlers change nothing but groups out of the perimeter.
THEOREM InPerimeterOnly == ASSUME Payloads PROVE Spec => []StaysInPerimeter
  BY HandlersInvariant, PTL DEF HandlerInv

\* For any agents, requests and groups, an account that an undisturbed
\* offboarding has disabled and moved is disabled until a modification enables
\* it, whatever fails, ends or is tried again.
THEOREM ParkedStaysDisabled == ASSUME Payloads PROVE Spec => []ParkedIsDisabled
  BY HandlersInvariant, PTL DEF HandlerInv
=============================================================================
