CONSTANTS
    Null = Null
    d1 = d1
    c1 = c1
    Base = Base
    Cluster = c1
    Workflows = {d1, c1}
    Hash <- MCHash
    ShardCounts = {2, 3}
    register = register
    deploy = deploy
    scale = scale
    savepoint = savepoint
    freeze = freeze
    unfreeze = unfreeze
    Deployments = {d1}
    Requests = {deploy, savepoint, freeze, unfreeze}
    Call <- MCCall
SPECIFICATION FairSpec
INVARIANTS
    FreezeStopsLaterRequests
    NoActorIsAbandoned
PROPERTIES
    RequestsAreAnswered
CHECK_DEADLOCK FALSE
