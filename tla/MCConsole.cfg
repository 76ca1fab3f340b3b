SPECIFICATION Spec
CONSTANTS
 Nothing = Nothing
 Task = {t1, t2}
 MaxVersion = 2
 Node = {"ou", "root"}
 Covered = {"ou"}
 Special = {"computers", "search"}
 MaxNavigations = 3
 Viewer = {p1, p2}
 Group = {"g1"}
 MaxReadings = 3
 Target = {"outer", "inner"}
 Structural = {"outer", "inner"}
 Managed = {"outer", "inner"}
 Account = {"inner"}
 Above <- MCAbove
 Parent <- MCParent
 MaxJobs = 2
 MaxOpens = 2
 MaxFlips = 2
 Secured = {a1, a2}
 MaxEvidence = 3
 MaxStages = 5
 Copied = {"u1", "u2"}
 Unit = {"root", "sales", "users", "groups"}
 Barred = {"groups"}
 Foremost <- MCForemost
 Container = {"box"}
 Root = "root"
 Home <- MCHome
 MaxCreations = 2
 Edited = {"full", "bare"}
 Field = {"manager", "held", "late"}
 Detailed = {"held", "late"}
 Late = {"late"}
 Manager = "manager"
 Text = {"", "x"}
 Blank = ""
 Directory <- MCDirectory
 MaxSaves = 3
 Subject = {"u1", "u2", "c1"}
 Senior = {"u1", "u2"}
 Attribute = {"title", "language"}
 UserOnly = {"language"}
 Draft = {"x", "huge"}
 Refused = {"huge"}
 MaxSimulations = 4
 Guid = {"g1", "g2"}
 Position = {"before", "other"}
 LastKnown <- MCLastKnown
 MaxRestoreCalls = 12
SYMMETRY ConsoleSymmetry
INVARIANTS
 CallsAreServed
 PaneIsOneObject
 JobsAreWhatWasShown
 SimulatedAsShown
PROPERTIES
 NavigationsWinInOrder
CHECK_DEADLOCK FALSE
