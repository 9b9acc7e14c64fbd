-------------------------- MODULE MCControlService --------------------------
(* One namespace with one deployment: a deploy, a savepoint, a freeze and an     *)
(* unfreeze, all at once, and where the search need not be complete also a       *)
(* registration and a rescaling.                                                 *)
EXTENDS ControlService, TLC

CONSTANTS d1, c1, register, deploy, scale, savepoint, freeze, unfreeze

Request(kind, type, pol) ==
    [kind |-> kind, type |-> type, deployment |-> d1, policy |-> pol]

MCCall ==
    (register  :> Request("register", "none", "strict")
     @@ deploy    :> Request("command", "DeployVersion", "default")
     @@ scale     :> Request("command", "ScaleTo", "default")
     @@ savepoint :> Request("command", "RequestSavepoint", "default")
     @@ freeze    :> Request("Freeze", "none", "default")
     @@ unfreeze  :> Request("Unfreeze", "none", "default"))

\* Hashes that move the deployment from shard 1 of 2 to shard 0 of 3, and the cluster
\* from the last of 2 to the last of 3.
MCHash == d1 :> 3 @@ c1 :> 5

MCRequests == {register, deploy, scale, savepoint, freeze, unfreeze}

-----------------------------------------------------------------------------
(* Statements of the documentation that the code does not meet.             *)

\* docs-site/docs/api-reference.md:196 "Queued deploys, scales, and rollbacks are
\* blocked until unfrozen": no actor begins a mutating command while its cluster is
\* frozen.
QueuedCommandsAreBlocked ==
    \A r \in begunFrozen : ~mutatesRuntime(Call[r].type)

\* docs/SCALING.md:35-36 "Signals and queries route by workflow ID and are unaffected
\* - sharding is safe to raise for newly started actors on a running system": when
\* both tiers have taken up the number, a deployment whose actor is placed by it can
\* be sent commands; its actor and the cluster actor, which every command queries
\* first, are on queues that are polled.
SafeForNewActors ==
    (apiShards = configured /\ workerShards = configured) =>
        \A d \in Deployments : queueOf[d] = ShardTaskQueue(configured, d)
            => polled(d) /\ polled(Cluster)

=============================================================================
