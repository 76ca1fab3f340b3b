SPECIFICATION Spec
CONSTANTS
 Page = {"p1"}
 Interval = {2, 5}
 Default = 2
 MaxPosts = 2
 MaxLoads = 1
INVARIANT PauseLasts
CHECK_DEADLOCK FALSE
