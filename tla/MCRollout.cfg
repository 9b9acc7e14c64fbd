CONSTANTS
    Null = Null
    img1 = img1
    img2 = img2
    imgTag = imgTag
    l1 = l1
    l2 = l2
    PinnedImages <- MCPinned
    Policy <- MCPolicy
    Healths <- MCHealths
    LeaseIDs <- MCLeaseIDs
    Inputs <- MCInputs
    Statuses <- MCStatuses
    ObservePolls = 2
    AttemptPolls = 2
    MaxAttempts = 2
    FaultKinds = {"no-effect", "answer-lost", "lands-late"}
SPECIFICATION ObservedSpec
INVARIANTS
    LeaseCoversRollout
    SavepointBeforeStatefulApply
    VerdictMatchesRuntime
    NoLeaseLeft
    RollbackKeepsState
    GatePassesOnlyHealthy
PROPERTIES
    RolloutEnds
    ImplementsRollout
CHECK_DEADLOCK FALSE
