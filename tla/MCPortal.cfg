SPECIFICATION Spec
CONSTANTS
 Files <- MCFiles
 Catalogues <- MCCatalogues
 Department = {"d1", "d2"}
 Job = {"j1", "j2"}
 Person = {"p1", "p2"}
 MaxEdits = 3
 MaxImports = 1
 MaxApprovals = 2
 Request = {"r1", "r2"}
 TypeOf <- MCTypeOf
 Searches <- MCSearches
 StatusFilters = {"all", "waiting_approval"}
 Initial <- MCStatuses
 PageSizes = {1, 2}
 MaxUi = 2
 MaxServer = 1
 MaxFlows = 1
 MaxLoads = 1
 Group = {"g1"}
 CommonGroups = {"g1"}
 InitialTemplates <- MCServices
 MaxTemplateEdits = 2
 MaxSaves = 2
 Employee = {"a1", "a2"}
 HasDepartment = {"a1"}
 MaxPolls = 1
 MaxFormUi = 3
 MaxFormFlows = 2
 Page = {"p1"}
 Interval = {2, 5}
 Default = 2
 MaxPosts = 3
 Grants <- MCGrants
 MaxGrants = 1
 MaxMoves = 1
 MaxCalls = 1
 MaxFollowed = 1
 Worker = {"w1", "w2"}
 StaleAfter = 1
 MaxHeartbeats = 2
 MaxTime = 2
 Agent = {"w1", "w2"}
 Demand = {"leave", "keep", "stay", "back", "away"}
 Asked <- MCDemands
 Ours = {"g1"}
 Nowhere = "nowhere"
 MaxHandlers = 3
 MaxOthers = 1
INVARIANTS
 TypeOK
 ActedOnWhatWasSeen
 FormsAreConsistent
 AgentDoesAsAsked
 RefusedIsWithdrawn
 WorkersAreAsListed
PROPERTIES
 FailuresStaySelected
CHECK_DEADLOCK FALSE
