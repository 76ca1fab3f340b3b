----------------------------- MODULE AgentControls -----------------------------
(***************************************************************************)
(* The mode, the pause and the frequency of the Windows agent: one file of *)
(* the server, written by two routes that ignore each other, and the pages *)
(* of the portal that show it and change it.                               *)
(*                                                                         *)
(* POST /api/agent/config (src/api/app/services/agent_runtime.py) builds   *)
(* the file from the defaults and replaces it; POST /api/admin/agent/mode  *)
(* (src/api/main.py) reads it, changes the mode and writes in place, so    *)
(* the file is empty for a while.  Nothing locks the two.                  *)
(***************************************************************************)
EXTENDS Integers, Sequences, FiniteSets

CONSTANTS
    Page,                   \* the portals open on the agent's pages
    Interval, Default,      \* allowed_intervals, and the one of the defaults
    MaxPosts, MaxLoads      \* bounds of the instance

\* What the constants are assumed to be.
ControlsAssumption == Default \in Interval

Mode == {"Simulation", "Production"}
Unknown == "unknown"
Config == [interval : Interval, paused : BOOLEAN, mode : Mode \cup {Unknown}]
Defaults == [interval |-> Default, paused |-> FALSE, mode |-> Unknown]

VARIABLES
    file,           \* agent_config.json: its content, none when it is missing or
                    \* opened for writing
    calls,          \* requests of the pages, from the click to the answer
    agentConfig,    \* of each page: the configuration it shows, the defaults at first
    modeControl,    \* of each page: the mode it shows, and whether it waits
    choices,        \* the choices of a mode, in the order they began
    pauseAsked,     \* whether the last pause or resume that was saved is a pause
    posts, loads    \* bounds

vars == <<file, calls, agentConfig, modeControl, choices, pauseAsked, posts, loads>>

TypeOK ==
    /\ file \subseteq Config /\ Cardinality(file) <= 1
    /\ agentConfig \in [Page -> Config]
    /\ modeControl \in [Page -> [mode : Mode, loading : BOOLEAN]]
    /\ \A c \in calls : c.page \in Page /\ c.n \in 0..Len(choices)

\* What a reader of the file makes of it.
Read == IF file = {} THEN Defaults ELSE CHOOSE config \in file : TRUE
ModeOf(config) == IF config.mode = Unknown THEN "Simulation" ELSE config.mode

Init ==
    /\ file \in {{}} \cup {{[Defaults EXCEPT !.mode = m]} : m \in Mode}
    /\ calls = {}
    /\ agentConfig = [p \in Page |-> Defaults]
    /\ modeControl = [p \in Page |-> [mode |-> "Simulation", loading |-> FALSE]]
    /\ choices = IF ModeOf(Read) = "Production"
                 THEN <<[mode |-> "Production", after |-> {}, ended |-> TRUE]>> ELSE <<>>
    /\ pauseAsked = FALSE /\ posts = 0 /\ loads = 0

-----------------------------------------------------------------------------
(* The pages.                                                              *)

Ask(p, kind, body, n) ==
    calls' = calls \cup {[page |-> p, kind |-> kind, body |-> body, n |-> n,
                          stage |-> "asked", read |-> Defaults]}

\* loadAgentConfig and loadAgentMode: when the page opens, then every five
\* seconds, whatever is on its way.
Load(p, kind) ==
    /\ loads < MaxLoads /\ loads' = loads + 1
    /\ Ask(p, kind, Defaults, 0)
    /\ UNCHANGED <<file, agentConfig, modeControl, choices, pauseAsked, posts>>

Post(p, kind, body, n) ==
    /\ posts < MaxPosts /\ posts' = posts + 1
    /\ Ask(p, kind, body, n)
    /\ UNCHANGED <<file, agentConfig, pauseAsked, loads>>

\* The frequency alone is posted.
UpdateAgentInterval(p, minutes) ==
    /\ minutes # agentConfig[p].interval
    /\ Post(p, "setInterval", [Defaults EXCEPT !.interval = minutes], 0)
    /\ UNCHANGED <<modeControl, choices>>

\* The pause is posted with the frequency that the page shows.
UpdateAgentPause(p) ==
    /\ Post(p, "setPause", [Defaults EXCEPT !.interval = agentConfig[p].interval,
                                            !.paused = ~agentConfig[p].paused], 0)
    /\ UNCHANGED <<modeControl, choices>>

UpdateAgentMode(p, m) ==
    /\ ~modeControl[p].loading /\ modeControl[p].mode # m
    /\ Post(p, "setMode", [Defaults EXCEPT !.mode = m], Len(choices) + 1)
    /\ modeControl' = [modeControl EXCEPT ![p].loading = TRUE]
    /\ choices' = Append(choices,
           [mode |-> m, after |-> {i \in DOMAIN choices : choices[i].ended}, ended |-> FALSE])

\* The answer of a call; a failed one leaves what was shown.
Arrives(c) ==
    /\ c.stage \in {"answered", "failed"}
    /\ calls' = calls \ {c}
    /\ agentConfig' = IF c.kind \in {"getMode", "setMode"} THEN agentConfig
                      ELSE IF c.stage = "answered"
                           THEN [agentConfig EXCEPT ![c.page] = c.read]
                      ELSE IF c.kind = "getConfig"
                           THEN [agentConfig EXCEPT ![c.page] = Defaults] ELSE agentConfig
    /\ modeControl' = IF c.kind \notin {"getMode", "setMode"} THEN modeControl
                      ELSE [modeControl EXCEPT ![c.page] =
                               [mode |-> IF c.stage = "answered" THEN ModeOf(c.read) ELSE @.mode,
                                loading |-> FALSE]]
    /\ choices' = IF c.kind = "setMode" /\ c.stage = "answered"
                  THEN [choices EXCEPT ![c.n].ended = TRUE] ELSE choices
    /\ UNCHANGED <<file, pauseAsked, posts, loads>>

-----------------------------------------------------------------------------
(* The server.                                                             *)

Moves(c, stage, read) == calls' = (calls \ {c}) \cup {[c EXCEPT !.stage = stage, !.read = read]}

\* The two readings, and the first reading of the two writings.
Reads(c) ==
    /\ c.stage = "asked"
    /\ Moves(c, IF c.kind \in {"getConfig", "getMode"} THEN "answered" ELSE "read", Read)
    /\ UNCHANGED <<file, agentConfig, modeControl, choices, pauseAsked, posts, loads>>

\* A call that does not reach the server.
Lost(c) ==
    /\ c.stage = "asked"
    /\ Moves(c, "failed", Defaults)
    /\ UNCHANGED <<file, agentConfig, modeControl, choices, pauseAsked, posts, loads>>

\* mutant: the mode that was read is kept
RebuiltKeepingMode(c) == [c.body EXCEPT !.mode = c.read.mode]

\* The configuration that is saved: the defaults, and what was posted.
Rebuilt(c) == c.body

\* The file is replaced: a writer of the mode that had it open writes to a file
\* that is no longer there.
SaveConfig(c) ==
    /\ c.stage = "read" /\ c.kind \in {"setInterval", "setPause"}
    /\ file' = {Rebuilt(c)}
    /\ pauseAsked' = IF c.kind = "setPause" THEN c.body.paused ELSE pauseAsked
    /\ calls' = {IF d.stage = "writing" THEN [d EXCEPT !.stage = "unlinked"] ELSE d :
                     d \in calls \ {c}}
                \cup {[c EXCEPT !.stage = "answered", !.read = Rebuilt(c)]}
    /\ UNCHANGED <<agentConfig, modeControl, choices, posts, loads>>

OpenMode(c) ==
    /\ c.stage = "read" /\ c.kind = "setMode"
    /\ file' = {}
    /\ Moves(c, "writing", [c.read EXCEPT !.mode = c.body.mode])
    /\ UNCHANGED <<agentConfig, modeControl, choices, pauseAsked, posts, loads>>

WriteMode(c) ==
    /\ c.stage \in {"writing", "unlinked"}
    /\ file' = IF c.stage = "writing" THEN {c.read} ELSE file
    /\ Moves(c, "answered", c.read)
    /\ UNCHANGED <<agentConfig, modeControl, choices, pauseAsked, posts, loads>>

Next ==
    \/ \E p \in Page :
          \/ \E kind \in {"getConfig", "getMode"} : Load(p, kind)
          \/ \E minutes \in Interval : UpdateAgentInterval(p, minutes)
          \/ UpdateAgentPause(p)
          \/ \E m \in Mode : UpdateAgentMode(p, m)
    \/ \E c \in calls :
          Arrives(c) \/ Reads(c) \/ Lost(c) \/ SaveConfig(c) \/ OpenMode(c) \/ WriteMode(c)

Spec == Init /\ [][Next]_vars

-----------------------------------------------------------------------------
\* The agent finds Production only when a choice of Production is not followed
\* by an answered choice of Simulation that began after it had ended: whatever
\* is lost between the two routes is lost towards Simulation.
ProductionIsAsked ==
    ModeOf(Read) = "Production" =>
        \E i \in DOMAIN choices :
            /\ choices[i].mode = "Production"
            /\ \A j \in DOMAIN choices :
                  ~(choices[j].mode = "Simulation" /\ choices[j].ended /\ i \in choices[j].after)

\* A pause lasts until processing is resumed: the page of the agent says
\* meanwhile that the requests are not processed, and changes the frequency by
\* a control of its own.
PauseLasts == pauseAsked => \A config \in file : config.paused
=============================================================================
