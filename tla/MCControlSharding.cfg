CONSTANTS
    Null = Null
    d1 = d1
    c1 = c1
    Base = Base
    Cluster = c1
    Workflows = {d1, c1}
    Hash <- MCHash
    ShardCounts = {1, 2}
    register = register
    deploy = deploy
    scale = scale
    savepoint = savepoint
    freeze = freeze
    unfreeze = unfreeze
    Deployments = {d1}
    Requests <- MCRequests
    Call <- MCCall
SPECIFICATION Spec
INVARIANTS
    SafeForNewActors
CHECK_DEADLOCK FALSE
