SPECIFICATION Spec
CONSTANTS
    MaxInstances = 2
    MaxInterrupts = 1
    Iterations = 2
    Images = {"api", "hermes"}
    Converted <- MCConverted
    Plans <- MCPlans
INVARIANTS ReportTellsTruth CleanupIsTried ZeroAfterSuccess StartedOnLiveNode
    DemoCleansUp KeptStaysPrepared BuildLeavesNothing ReferencesAreBuilt
PROPERTIES UsePreparedIsReadOnly ToolsEnd
