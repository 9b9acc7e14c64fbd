CONSTANTS
    Null = Null
    img1 = img1
    img2 = img2
    imgTag = imgTag
    l1 = l1
    l2 = l2
    PinnedImages <- MCPinned
    Policy <- MCPolicy
    Healths <- MCHealths
    LeaseIDs <- MCLeaseIDs
    Inputs <- MCInputs
    Statuses <- MCStatuses
    ObservePolls = 3
    AttemptPolls = 2
    MaxAttempts = 2
    FaultKinds = {}
SPECIFICATION ObservedSpec
INVARIANTS
    NewVersionPassedItsGate
CHECK_DEADLOCK FALSE
