CONSTANTS
    l1 = l1
    l2 = l2
    l3 = l3
    LeaseIDs <- MCLeaseIDs
    SlotsOf <- MCSlotsOf
    MaxSlots = 2
    slotBudget = 2
    TTL = 1
    Skew = 1
    MaxTries = 2
    MaxTime = 2
    Null = Null
    v1 = v1
    v2 = v2
    Versions = {v1, v2}
    Failing = {v2}
    JobStates = {"RUNNING", "SUSPENDED"}
    MaxApplies = 2
    MaxRestarts = 1
SPECIFICATION MCSpec
INVARIANTS
    GrantedIsStored
    ReleasedIsGone
    BudgetRespected
PROPERTIES
    ImplementsCapacityPool
    SimulatedImplementsPool
    SimulatedGatePassesWhatRuns
CHECK_DEADLOCK FALSE
