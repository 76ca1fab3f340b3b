------------------------------- MODULE MCPortal -------------------------------
EXTENDS Portal, TLC

Line(p, d, j) == [person |-> p, department |-> d, job |-> j]

\* The same person in two services; a person without a name.
MCFiles == {<<Line("p1", "d1", "j1"), Line("p1", "d2", "j1")>>,
          <<Line("p1", "d1", "j2"), Line("blank", "d1", "j1")>>}
MCCatalogues == {[d \in {"d1"} |-> <<"j1">>],
               [d \in {"d1", "d2"} |-> IF d = "d1" THEN <<"j1">> ELSE <<"j2">>]}

MCTypeOf == ("r1" :> "onboarding") @@ ("r2" :> "offboarding")
MCStatuses == {("r1" :> "waiting_approval") @@ ("r2" :> "failed"),
             ("r1" :> "waiting_approval") @@ ("r2" :> "waiting_approval")}

MCServices ==
    {"d1" :> [default_groups |-> {"g1"}, roles |-> ("j1" :> {})],
     ("d1" :> [default_groups |-> {}, roles |-> ("j1" :> {"g1"})]) @@
     ("d2" :> [default_groups |-> {}, roles |-> ("j2" :> {})])}
MCSearches == {{"r1", "r2"}, {"r1"}}
\* One reads the directory and the audit log, one decides and runs the agent.
MCGrants == {{"ADAdmin", "Auditor"}, {"Operator", "SecurityAdmin"}}
\* What the requests about an account ask.
MCDemands ==
    ("leave" :> [kind |-> "offboarding", disable |-> TRUE, remove |-> TRUE,
                 to |-> "departed"]) @@
    ("keep" :> [kind |-> "offboarding", disable |-> FALSE, remove |-> FALSE,
                 to |-> "departed"]) @@
    ("stay" :> [kind |-> "modification", set |-> TRUE, add |-> {"g1"}, remove |-> {},
                to |-> "nowhere"]) @@
    ("back" :> [kind |-> "modification", set |-> FALSE, add |-> {}, remove |-> {},
                to |-> "staff"]) @@
    ("away" :> [kind |-> "modification", set |-> TRUE, add |-> {}, remove |-> {"g1"},
                to |-> "outside"])
=============================================================================
