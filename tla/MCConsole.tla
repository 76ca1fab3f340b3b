------------------------------- MODULE MCConsole -------------------------------
EXTENDS Console, TLC

\* Nothing tells two calls, two users of the pane, or two objects whose
\* permissions are shown apart.
ConsoleSymmetry ==
    Permutations(Task) \cup Permutations(Viewer) \cup Permutations(Secured)

\* One unit inside another, with a user in the inner one.
MCAbove == ("outer" :> {}) @@ ("inner" :> {"outer"}) @@ ("user" :> {"outer", "inner"})
MCParent == ("outer" :> Nothing) @@ ("inner" :> "outer") @@ ("user" :> "inner")
\* A user copied from a unit, one from a unit that the list bars, a container in
\* the first; both lists begin with another unit.
MCHome == ("u1" :> "sales") @@ ("u2" :> "groups") @@ ("box" :> "sales")
MCForemost == ("user" :> "users") @@ ("admin" :> "users")
\* A user with every field set and one with none.
MCDirectory == [o \in {"full", "bare"} |->
                   [f \in {"manager", "held", "late"} |-> IF o = "full" THEN "x" ELSE ""]]
\* Two deleted objects that were in the same place.
MCLastKnown == [g \in {"g1", "g2"} |-> "before"]
=============================================================================
