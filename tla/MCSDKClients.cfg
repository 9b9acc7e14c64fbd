CONSTANTS
    Null = Null
    img1 = img1
    img2 = img2
    img3 = img3
    l1 = l1
    PinnedImages <- MCPinned
    Policy <- DevPolicy
    Healths <- MCHealths
    LeaseIDs <- MCLeaseIDs
    MaxAttempts = 1
    FaultKinds = {}
    Specs <- MCSpecs
    Commands <- MCCommands
    HistoryLimit = 5
    ContinueAfter = 10
    MaxAccepted = 4
    OperatorCommands <- MCOperatorCommands
    OperatorBound = 3
    Flavours = {"go", "python"}
    Demands <- MCDemands
    WaiterSpec <- WaiterBase
    SDKKeys <- MCSDKKeys
SPECIFICATION FairSDKSpec
INVARIANTS
    GoScaleNeedsASwitch
    WaitHealthyAfterSuccess
PROPERTIES
    LoopScalesKeepTheRest
    PythonLoopSettles
CHECK_DEADLOCK FALSE
