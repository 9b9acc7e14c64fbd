--------------------------- MODULE ControlService ---------------------------
(***************************************************************************)
(* Admission of requests (control/service.go, with the cluster actor of    *)
(* workflows/cluster_actor.go) for one namespace.  Every HTTP request is a *)
(* sequence of calls to Temporal; requests run concurrently, in any number *)
(* of control-API processes, and share no memory.                          *)
(*                                                                         *)
(* Temporal is external: it starts at most one workflow per workflow id,   *)
(* delivers signals in the order it accepted them, and answers a query     *)
(* after the signals accepted before it.  A deployment actor is reduced to *)
(* its policy, its signal queue and whether it runs a command; module      *)
(* DeploymentActor has the rest.                                           *)
(*                                                                         *)
(* Actors live on task queues (module Sharding).  The number of shards may *)
(* be raised while the system runs; the control API and the workers read   *)
(* it when they start, so each tier takes it up at a time of its own.      *)
(***************************************************************************)
EXTENDS Sharding, Sequences, FiniteSets

CONSTANTS
    Null,
    Deployments,    \* the deployments of the namespace
    Cluster,        \* its cluster actor
    ShardCounts,    \* values of ACTOR_TASK_QUEUE_SHARDS
    Requests,       \* HTTP requests
    Call            \* what each of them asks for: kind, type, deployment, policy

Kinds == {"register", "command", "Freeze", "Unfreeze"}

ASSUME CallAssumption ==
    \A r \in Requests :
        /\ Call[r].kind \in Kinds
        /\ Call[r].deployment \in Deployments
        /\ Call[r].policy # Null
ASSUME ActorsAssumption ==
    /\ Workflows = Deployments \cup {Cluster} /\ Cluster \notin Deployments
    /\ ShardCounts \subseteq Nat \ {0}
    /\ Null # Base /\ Null \notin Nat

VARIABLES
    pc,             \* the call each request is at, or how it was answered
    configured,     \* the number of shards in the configuration ...
    apiShards,      \* ... that the control API has read
    workerShards,   \* ... and that the workers have read
    queueOf,        \* the task queue each actor was started on, Null before
    clusterInbox,   \* its signals accepted and not yet received
    frozen,         \* ClusterActorState.Frozen
    policy,         \* the policy each deployment actor was started with
    inbox,          \* signals each deployment actor has not yet received
    running,        \* deployment actors that run a command
    accepted,       \* history: commands Temporal has accepted, in order
    freezeStands,   \* history: a freeze was answered, no unfreeze requested since
    warned,         \* history: requests that began while freezeStands
    begunFrozen     \* history: commands an actor began while the cluster is frozen

cluster == <<clusterInbox, frozen>>
actors == <<policy, inbox, running>>
shards == <<configured, apiShards, workerShards>>
history == <<accepted, freezeStands, warned, begunFrozen>>
vars == <<pc, cluster, actors, shards, queueOf, history>>

-----------------------------------------------------------------------------

Goto(r, place) == pc' = [pc EXCEPT ![r] = place]

\* service.go:339-341.
mutatesRuntime(type) == type \notin {"RequestSavepoint", "ContinueAsNew"}

clusterCommand(r) == Call[r].kind \in {"Freeze", "Unfreeze"}

\* Temporal starts a workflow that does not run yet, on the queue actorQueueFor
\* names; one that runs already stays where it is.
ExecuteWorkflow(w) ==
    queueOf' = IF queueOf[w] = Null
               THEN [queueOf EXCEPT ![w] = ShardTaskQueue(apiShards, w)] ELSE queueOf

\* Is there a worker that polls the workflow's queue?
polled(w) == queueOf[w] \in ActorTaskQueues(workerShards)

\* The handler decodes the request.
Begin(r) ==
    /\ pc[r] = "new"
    /\ Goto(r, "ensureCluster")
    /\ warned' = IF freezeStands THEN warned \cup {r} ELSE warned
    /\ UNCHANGED <<cluster, actors, shards, queueOf, accepted, freezeStands, begunFrozen>>

\* EnsureClusterActor, the first call of every request.
EnsureClusterActor(r) ==
    /\ pc[r] = "ensureCluster"
    /\ ExecuteWorkflow(Cluster)
    /\ Goto(r, IF clusterCommand(r) THEN "signalCluster" ELSE "ensureActor")
    /\ UNCHANGED <<cluster, actors, shards, history>>

\* EnsureDeploymentActor: an actor that runs already keeps its policy.
EnsureDeploymentActor(r) ==
    /\ pc[r] = "ensureActor"
    /\ policy' = IF policy[Call[r].deployment] = Null
                 THEN [policy EXCEPT ![Call[r].deployment] = Call[r].policy]
                 ELSE policy
    /\ ExecuteWorkflow(Call[r].deployment)
    /\ Goto(r, IF Call[r].kind = "register" THEN "registered" ELSE "describe")
    /\ UNCHANGED <<cluster, inbox, running, shards, history>>

\* Mutant: looks the freeze up in a cache.
DescribeCachedCluster(r) ==
    /\ pc[r] = "describe"
    /\ Goto(r, IF frozen /\ mutatesRuntime(Call[r].type) THEN "frozen" ELSE "signal")
    /\ UNCHANGED <<cluster, actors, shards, queueOf, history>>

\* SendCommand: the freeze is looked up, by a query that a worker answers ...
DescribeCluster(r) ==
    /\ pc[r] = "describe"
    /\ clusterInbox = <<>> /\ polled(Cluster)
    /\ Goto(r, IF frozen /\ mutatesRuntime(Call[r].type) THEN "frozen" ELSE "signal")
    /\ UNCHANGED <<cluster, actors, shards, queueOf, history>>

\* ... and then the command is signalled.
Deliver(r) ==
    /\ inbox' = [inbox EXCEPT ![Call[r].deployment] = Append(@, r)]
    /\ accepted' = Append(accepted, r)

SignalDeployment(r) ==
    /\ pc[r] = "signal"
    /\ Deliver(r)
    /\ Goto(r, "queued")
    /\ UNCHANGED <<cluster, policy, running, shards, queueOf, freezeStands, warned,
                   begunFrozen>>

\* SetClusterFreeze: the signal is accepted and the request answered.
SignalCluster(r) ==
    /\ pc[r] = "signalCluster"
    /\ clusterInbox' = Append(clusterInbox, Call[r].kind)
    /\ Goto(r, "queued")
    /\ freezeStands' = (Call[r].kind = "Freeze")
    /\ warned' = IF Call[r].kind = "Unfreeze" THEN {} ELSE warned
    /\ UNCHANGED <<frozen, actors, shards, queueOf, accepted, begunFrozen>>

\* A call to Temporal fails and the client sees 502; the call may have had its effect.
RequestFails(r) ==
    /\ pc[r] \in {"ensureCluster", "ensureActor", "describe", "signal", "signalCluster"}
    /\ Goto(r, "failed")
    /\ \/ UNCHANGED <<inbox, accepted, clusterInbox, freezeStands, warned>>
       \/ pc[r] = "signal" /\ Deliver(r) /\ UNCHANGED <<clusterInbox, freezeStands, warned>>
       \/ /\ pc[r] = "signalCluster"
          /\ clusterInbox' = Append(clusterInbox, Call[r].kind)
          /\ freezeStands' = FALSE
          /\ warned' = {}
          /\ UNCHANGED <<inbox, accepted>>
    /\ UNCHANGED <<frozen, policy, running, shards, queueOf, begunFrozen>>

-----------------------------------------------------------------------------

\* ClusterActorWorkflow receives a signal.
ClusterActorReceives ==
    /\ clusterInbox # <<>> /\ polled(Cluster)
    /\ frozen' = (Head(clusterInbox) = "Freeze")
    /\ clusterInbox' = Tail(clusterInbox)
    /\ UNCHANGED <<pc, actors, shards, queueOf, history>>

\* A deployment actor receives a command and runs it; it never looks at the cluster.
DeploymentActorReceives(d) ==
    /\ inbox[d] # <<>> /\ d \notin running /\ polled(d)
    /\ running' = running \cup {d}
    /\ inbox' = [inbox EXCEPT ![d] = Tail(@)]
    /\ begunFrozen' = IF frozen THEN begunFrozen \cup {Head(inbox[d])} ELSE begunFrozen
    /\ UNCHANGED <<pc, cluster, policy, shards, queueOf, accepted, freezeStands, warned>>

\* The command has ended.  Every ContinueAfter commands the actor continues as new, and
\* what was signalled to it while the command ran is lost.
DeploymentActorEndsTurn(d) ==
    /\ d \in running /\ polled(d)
    /\ running' = running \ {d}
    /\ UNCHANGED inbox \/ inbox' = [inbox EXCEPT ![d] = <<>>]
    /\ UNCHANGED <<pc, cluster, policy, shards, queueOf, history>>

\* The number of shards is raised ...
RaiseShards(n) ==
    /\ n > configured
    /\ configured' = n
    /\ UNCHANGED <<pc, cluster, actors, apiShards, workerShards, queueOf, history>>

\* ... and each tier is rolled out.
RollOutAPI ==
    /\ apiShards # configured
    /\ apiShards' = configured
    /\ UNCHANGED <<pc, cluster, actors, configured, workerShards, queueOf, history>>

RollOutWorkers ==
    /\ workerShards # configured
    /\ workerShards' = configured
    /\ UNCHANGED <<pc, cluster, actors, configured, apiShards, queueOf, history>>

-----------------------------------------------------------------------------

Init ==
    /\ pc = [r \in Requests |-> "new"]
    /\ configured \in ShardCounts
    /\ \A n \in ShardCounts : configured <= n
    /\ apiShards = configured
    /\ workerShards = configured
    /\ queueOf = [w \in Workflows |-> Null]
    /\ clusterInbox = <<>>
    /\ frozen = FALSE
    /\ policy = [d \in Deployments |-> Null]
    /\ inbox = [d \in Deployments |-> <<>>]
    /\ running = {}
    /\ accepted = <<>>
    /\ freezeStands = FALSE
    /\ warned = {}
    /\ begunFrozen = {}

\* A call of a request that Temporal answers without an error.
CallSucceeds(r) ==
    \/ EnsureClusterActor(r) \/ EnsureDeploymentActor(r) \/ DescribeCluster(r)
    \/ SignalDeployment(r) \/ SignalCluster(r)

RequestStep(r) == Begin(r) \/ CallSucceeds(r) \/ RequestFails(r)

Next ==
    \/ \E r \in Requests : RequestStep(r)
    \/ ClusterActorReceives
    \/ \E d \in Deployments : DeploymentActorReceives(d) \/ DeploymentActorEndsTurn(d)
    \/ \E n \in ShardCounts : RaiseShards(n)
    \/ RollOutAPI
    \/ RollOutWorkers

\* A call that Temporal can answer is answered, the workers run the cluster actor when
\* they poll its queue, and a change of the configuration is rolled out.  No request is
\* helped by a failure.
Fairness ==
    /\ WF_vars(RollOutAPI)
    /\ WF_vars(RollOutWorkers)
    /\ WF_vars(ClusterActorReceives)
    /\ \A r \in Requests : WF_vars(CallSucceeds(r))

Spec == Init /\ [][Next]_vars

FairSpec == Spec /\ Fairness

-----------------------------------------------------------------------------
(* Properties.                                                             *)

\* Once a freeze has been answered, no request that starts later gets a mutating
\* command through, until an unfreeze is requested: the freeze is a barrier for
\* every control-API process (service.go:78-93, 112-121).
FreezeStopsLaterRequests ==
    \A r \in warned : (Call[r].kind = "command" /\ mutatesRuntime(Call[r].type))
        => \A i \in DOMAIN accepted : accepted[i] # r

\* Once the workers have taken up the number of shards, every actor that runs is on a
\* queue they poll, whichever number the control API counted with when it started the
\* actor, and however often the number was raised while either tier was behind: from two
\* shards on, no queue an actor may live on is given up (sharding.go:21-44).
NoActorIsAbandoned ==
    workerShards = configured => \A w \in Workflows : queueOf[w] # Null => polled(w)

\* Every request that began is answered, and needs no error for it: the query about the
\* cluster, which waits until a worker polls the cluster actor's queue and the actor has
\* received the signals before it, is answered in the end, although the number of shards
\* is raised in between (service.go:78-93, 123-139).
RequestsAreAnswered ==
    <>[](\A r \in Requests : pc[r] \in {"new", "registered", "queued", "frozen", "failed"})

=============================================================================
