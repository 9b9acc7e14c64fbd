------------------------ MODULE ControlServiceProofs ------------------------
(***************************************************************************)
(* Proofs about ControlService, for any number of requests, deployments    *)
(* and shards: an answered freeze is a barrier for the requests that start *)
(* later, and raising the shards from two on abandons no actor.            *)
(***************************************************************************)
EXTENDS ControlService, SequenceTheorems, TLAPS

Underway == {"ensureCluster", "ensureActor", "describe", "signal", "signalCluster"}
Answered == {"registered", "queued", "frozen", "failed"}

-----------------------------------------------------------------------------
(* The invariant of the freeze.                                            *)

FreezeTypeOK ==
    /\ pc \in [Requests -> {"new"} \cup Underway \cup Answered]
    /\ clusterInbox \in Seq({"Freeze", "Unfreeze"})
    /\ frozen \in BOOLEAN
    /\ accepted \in Seq(Requests)
    /\ freezeStands \in BOOLEAN
    /\ warned \subseteq Requests

\* Only a request that was answered can have got a command through.
AcceptedAreAnswered ==
    \A i \in DOMAIN accepted : pc[accepted[i]] \in {"queued", "failed"}

\* What the cluster actor will say once it has received what was signalled to it.
WillBeFrozen ==
    IF clusterInbox = <<>> THEN frozen ELSE clusterInbox[Len(clusterInbox)] = "Freeze"

\* While a freeze stands it is the last word the cluster actor has been told, and no
\* request that began since is about to signal a command that changes the runtime.
Barrier ==
    /\ freezeStands => WillBeFrozen
    /\ warned # {} => freezeStands
    /\ \A r \in warned : pc[r] = "signal" => ~mutatesRuntime(Call[r].type)

\* Only cluster commands are signalled to the cluster actor.
KindAtCall ==
    \A r \in Requests :
        /\ pc[r] = "signalCluster" => clusterCommand(r)
        /\ pc[r] \in {"ensureActor", "describe", "signal"} => ~clusterCommand(r)

FreezeInv ==
    /\ FreezeTypeOK
    /\ AcceptedAreAnswered
    /\ Barrier
    /\ KindAtCall
    /\ FreezeStopsLaterRequests

\* A request that began a call is not among the accepted ones.
LEMMA UnderwayNotAccepted ==
    ASSUME FreezeInv, NEW r \in Requests, pc[r] \notin {"queued", "failed"}
    PROVE  \A i \in DOMAIN accepted : accepted[i] # r
  BY DEF FreezeInv, AcceptedAreAnswered

\* Where a request goes from one call to the next.
LEMMA GotoFacts ==
    ASSUME FreezeInv, NEW r \in Requests, NEW place \in {"new"} \cup Underway \cup Answered,
           Goto(r, place)
    PROVE  /\ pc' \in [Requests -> {"new"} \cup Underway \cup Answered]
           /\ pc'[r] = place
           /\ \A q \in Requests \ {r} : pc'[q] = pc[q]
  BY DEF FreezeInv, FreezeTypeOK, Goto

\* A signal to the cluster actor becomes the last word it has been told.
LEMMA SignalIsLastWord ==
    ASSUME FreezeTypeOK, NEW kind \in {"Freeze", "Unfreeze"},
           clusterInbox' = Append(clusterInbox, kind)
    PROVE  /\ clusterInbox' \in Seq({"Freeze", "Unfreeze"})
           /\ WillBeFrozen' <=> kind = "Freeze"
  <1>1. /\ clusterInbox' \in Seq({"Freeze", "Unfreeze"})
        /\ Len(clusterInbox') = Len(clusterInbox) + 1
        /\ clusterInbox'[Len(clusterInbox) + 1] = kind
        /\ Len(clusterInbox) \in Nat
    BY DEF FreezeTypeOK
  <1>2. clusterInbox' # <<>>
    BY <1>1
  <1> QED
    BY <1>1, <1>2 DEF WillBeFrozen

\* Receiving a signal does not change what the cluster actor will say in the end.
LEMMA ReceivingKeepsLastWord ==
    ASSUME FreezeTypeOK, ClusterActorReceives
    PROVE  /\ clusterInbox' \in Seq({"Freeze", "Unfreeze"})
           /\ frozen' \in BOOLEAN
           /\ WillBeFrozen' <=> WillBeFrozen
  <1>1. clusterInbox \in Seq({"Freeze", "Unfreeze"}) /\ clusterInbox # <<>>
    BY DEF FreezeTypeOK, ClusterActorReceives
  <1>2. /\ clusterInbox' \in Seq({"Freeze", "Unfreeze"})
        /\ Len(clusterInbox') = Len(clusterInbox) - 1
        /\ \A i \in 1 .. Len(clusterInbox') : clusterInbox'[i] = clusterInbox[i + 1]
    BY <1>1, HeadTailProperties DEF ClusterActorReceives
  <1>3. frozen' = (clusterInbox[1] = "Freeze")
    BY <1>1 DEF ClusterActorReceives
  <1>4. CASE clusterInbox' = <<>>
    <2>1. Len(clusterInbox) = 1
      BY <1>1, <1>2, <1>4
    <2> QED
      BY <1>1, <1>2, <1>3, <1>4, <2>1 DEF WillBeFrozen
  <1>5. CASE clusterInbox' # <<>>
    <2>1. /\ Len(clusterInbox') \in 1 .. Len(clusterInbox')
          /\ Len(clusterInbox) = Len(clusterInbox') + 1
      BY <1>1, <1>2, <1>5
    <2>2. clusterInbox'[Len(clusterInbox')] = clusterInbox[Len(clusterInbox)]
      BY <1>2, <2>1
    <2> QED
      BY <1>1, <1>2, <1>3, <1>5, <2>2 DEF WillBeFrozen
  <1> QED
    BY <1>2, <1>3, <1>4, <1>5

\* A step of a request that signals nothing and begins nothing, and takes it to
\* another call or to its answer.
LEMMA CallKeepsFreeze ==
    ASSUME FreezeInv, NEW r \in Requests, NEW place \in Underway \cup Answered,
           Goto(r, place), pc[r] \in Underway,
           UNCHANGED <<clusterInbox, frozen, accepted, freezeStands, warned>>,
           r \in warned /\ place = "signal" => ~mutatesRuntime(Call[r].type),
           place = "signalCluster" => clusterCommand(r),
           place \in {"ensureActor", "describe", "signal"} => ~clusterCommand(r)
    PROVE  FreezeInv'
  <1>1. /\ pc' \in [Requests -> {"new"} \cup Underway \cup Answered]
        /\ pc'[r] = place
        /\ \A q \in Requests \ {r} : pc'[q] = pc[q]
    BY GotoFacts
  <1>2. FreezeTypeOK'
    BY <1>1 DEF FreezeInv, FreezeTypeOK
  <1>3. AcceptedAreAnswered'
    <2>1. \A i \in DOMAIN accepted : accepted[i] \in Requests /\ accepted[i] # r
      BY UnderwayNotAccepted DEF Underway, FreezeInv, FreezeTypeOK
    <2> QED
      BY <1>1, <2>1 DEF FreezeInv, AcceptedAreAnswered
  <1>4. Barrier'
    BY <1>1 DEF FreezeInv, FreezeTypeOK, Barrier, WillBeFrozen
  <1>5. KindAtCall'
    BY <1>1 DEF FreezeInv, KindAtCall, clusterCommand
  <1>6. FreezeStopsLaterRequests'
    BY DEF FreezeInv, FreezeStopsLaterRequests
  <1> QED
    BY <1>2, <1>3, <1>4, <1>5, <1>6 DEF FreezeInv

\* A command is accepted: it is none that the standing freeze stops.
LEMMA DeliverKeepsFreeze ==
    ASSUME FreezeInv, NEW r \in Requests, pc[r] = "signal", Deliver(r),
           NEW place \in {"queued", "failed"}, Goto(r, place),
           UNCHANGED <<clusterInbox, frozen, freezeStands, warned>>
    PROVE  FreezeInv'
  <1>1. /\ pc' \in [Requests -> {"new"} \cup Underway \cup Answered]
        /\ pc'[r] = place
        /\ \A q \in Requests \ {r} : pc'[q] = pc[q]
    BY GotoFacts DEF Answered
  <1>2. accepted' = Append(accepted, r) /\ accepted \in Seq(Requests)
    BY DEF Deliver, FreezeInv, FreezeTypeOK
  <1>3. /\ accepted' \in Seq(Requests)
        /\ DOMAIN accepted' = DOMAIN accepted \cup {Len(accepted) + 1}
        /\ \A i \in DOMAIN accepted : accepted'[i] = accepted[i]
        /\ accepted'[Len(accepted) + 1] = r
    BY <1>2
  <1>4. FreezeTypeOK'
    BY <1>1, <1>3 DEF FreezeInv, FreezeTypeOK
  <1>5. AcceptedAreAnswered'
    <2>1. \A i \in DOMAIN accepted : accepted[i] \in Requests
      BY <1>2
    <2> QED
      BY <1>1, <1>3, <2>1 DEF FreezeInv, AcceptedAreAnswered
  <1>6. Barrier'
    BY <1>1 DEF FreezeInv, FreezeTypeOK, Barrier, WillBeFrozen
  <1>7. KindAtCall'
    BY <1>1 DEF FreezeInv, KindAtCall, clusterCommand
  <1>8. FreezeStopsLaterRequests'
    <2>1. r \in warned => ~mutatesRuntime(Call[r].type)
      BY DEF FreezeInv, Barrier
    <2> QED
      BY <1>3, <2>1 DEF FreezeInv, FreezeStopsLaterRequests
  <1> QED
    BY <1>4, <1>5, <1>6, <1>7, <1>8 DEF FreezeInv

\* A freeze or an unfreeze is accepted, and answered or not: the history follows what
\* the cluster actor has been told last.
LEMMA SignalKeepsFreeze ==
    ASSUME FreezeInv, NEW r \in Requests, pc[r] = "signalCluster",
           clusterInbox' = Append(clusterInbox, Call[r].kind),
           NEW place \in {"queued", "failed"}, Goto(r, place),
           freezeStands' \in BOOLEAN, freezeStands' => Call[r].kind = "Freeze",
           warned' \in {{}, warned},
           Call[r].kind = "Unfreeze" \/ ~freezeStands' => warned' = {},
           UNCHANGED <<frozen, accepted>>
    PROVE  FreezeInv'
  <1>1. /\ pc' \in [Requests -> {"new"} \cup Underway \cup Answered]
        /\ pc'[r] = place
        /\ \A q \in Requests \ {r} : pc'[q] = pc[q]
    BY GotoFacts DEF Answered
  <1>2. Call[r].kind \in {"Freeze", "Unfreeze"}
    BY DEF FreezeInv, KindAtCall, clusterCommand
  <1>3. /\ clusterInbox' \in Seq({"Freeze", "Unfreeze"})
        /\ WillBeFrozen' <=> Call[r].kind = "Freeze"
    BY <1>2, SignalIsLastWord DEF FreezeInv
  <1>4. FreezeTypeOK'
    BY <1>1, <1>3 DEF FreezeInv, FreezeTypeOK
  <1>5. AcceptedAreAnswered'
    <2>1. \A i \in DOMAIN accepted : accepted[i] \in Requests /\ accepted[i] # r
      BY UnderwayNotAccepted DEF FreezeInv, FreezeTypeOK
    <2> QED
      BY <1>1, <2>1 DEF FreezeInv, AcceptedAreAnswered
  <1>6. Barrier'
    BY <1>1, <1>2, <1>3 DEF FreezeInv, FreezeTypeOK, Barrier
  <1>7. KindAtCall'
    BY <1>1 DEF FreezeInv, KindAtCall, clusterCommand
  <1>8. FreezeStopsLaterRequests'
    BY DEF FreezeInv, FreezeStopsLaterRequests
  <1> QED
    BY <1>4, <1>5, <1>6, <1>7, <1>8 DEF FreezeInv

\* A request begins: it has had no command accepted, and is warned while a freeze stands.
LEMMA BeginKeepsFreeze ==
    ASSUME FreezeInv, NEW r \in Requests, Begin(r)
    PROVE  FreezeInv'
  <1>1. /\ pc' \in [Requests -> {"new"} \cup Underway \cup Answered]
        /\ pc'[r] = "ensureCluster"
        /\ \A q \in Requests \ {r} : pc'[q] = pc[q]
        /\ pc[r] = "new"
    BY GotoFacts DEF Begin, Underway
  <1>2. /\ UNCHANGED <<clusterInbox, frozen, accepted, freezeStands>>
        /\ warned' \subseteq warned \cup {r}
        /\ warned' # warned => freezeStands
    BY DEF Begin, cluster
  <1>3. \A i \in DOMAIN accepted : accepted[i] \in Requests /\ accepted[i] # r
    BY <1>1, UnderwayNotAccepted DEF FreezeInv, FreezeTypeOK
  <1>4. FreezeTypeOK'
    BY <1>1, <1>2 DEF FreezeInv, FreezeTypeOK
  <1>5. AcceptedAreAnswered'
    BY <1>1, <1>2, <1>3 DEF FreezeInv, AcceptedAreAnswered
  <1>6. Barrier'
    BY <1>1, <1>2 DEF FreezeInv, FreezeTypeOK, Barrier, WillBeFrozen
  <1>7. KindAtCall'
    BY <1>1 DEF FreezeInv, KindAtCall, clusterCommand
  <1>8. FreezeStopsLaterRequests'
    BY <1>2, <1>3 DEF FreezeInv, FreezeStopsLaterRequests
  <1> QED
    BY <1>4, <1>5, <1>6, <1>7, <1>8 DEF FreezeInv

\* A call to Temporal that fails may have had its effect (service.go:78-121).
LEMMA FailureKeepsFreeze ==
    ASSUME FreezeInv, NEW r \in Requests, RequestFails(r)
    PROVE  FreezeInv'
  <1>1. pc[r] \in Underway /\ Goto(r, "failed") /\ UNCHANGED frozen
    BY DEF RequestFails, Underway
  <1>2. CASE UNCHANGED <<inbox, accepted, clusterInbox, freezeStands, warned>>
    BY <1>1, <1>2, CallKeepsFreeze DEF Answered
  <1>3. CASE pc[r] = "signal" /\ Deliver(r) /\ UNCHANGED <<clusterInbox, freezeStands, warned>>
    BY <1>1, <1>3, DeliverKeepsFreeze
  <1>4. CASE /\ pc[r] = "signalCluster"
             /\ clusterInbox' = Append(clusterInbox, Call[r].kind)
             /\ freezeStands' = FALSE
             /\ warned' = {}
             /\ UNCHANGED <<inbox, accepted>>
    BY <1>1, <1>4, SignalKeepsFreeze
  <1> QED
    BY <1>2, <1>3, <1>4 DEF RequestFails

\* Every step of a request.  The query is the one that matters: it is answered when
\* the cluster actor has received all it was told, so a standing freeze is seen.
LEMMA RequestKeepsFreeze ==
    ASSUME FreezeInv, NEW r \in Requests, RequestStep(r)
    PROVE  FreezeInv'
  <1>1. CASE Begin(r)
    BY <1>1, BeginKeepsFreeze
  <1>2. CASE EnsureClusterActor(r)
    BY <1>2, CallKeepsFreeze DEF EnsureClusterActor, Underway, Answered, cluster, history
  <1>3. CASE EnsureDeploymentActor(r)
    <2>1. ~clusterCommand(r)
      BY <1>3 DEF EnsureDeploymentActor, FreezeInv, KindAtCall
    <2> QED
      BY <1>3, <2>1, CallKeepsFreeze
         DEF EnsureDeploymentActor, Underway, Answered, cluster, history
  <1>4. CASE DescribeCluster(r)
    <2>1. ~clusterCommand(r)
      BY <1>4 DEF DescribeCluster, FreezeInv, KindAtCall
    <2>2. r \in warned => frozen
      BY <1>4 DEF DescribeCluster, FreezeInv, Barrier, WillBeFrozen
    <2> QED
      BY <1>4, <2>1, <2>2, CallKeepsFreeze
         DEF DescribeCluster, Underway, Answered, cluster, history
  <1>5. CASE SignalDeployment(r)
    BY <1>5, DeliverKeepsFreeze DEF SignalDeployment, cluster
  <1>6. CASE SignalCluster(r)
    <2>1. warned' \in {{}, warned} /\ freezeStands' = (Call[r].kind = "Freeze")
      BY <1>6 DEF SignalCluster
    <2>2. Call[r].kind \in {"Freeze", "Unfreeze"}
      BY <1>6 DEF SignalCluster, FreezeInv, KindAtCall, clusterCommand
    <2> QED
      BY <1>6, <2>1, <2>2, SignalKeepsFreeze DEF SignalCluster
  <1>7. CASE RequestFails(r)
    BY <1>7, FailureKeepsFreeze
  <1> QED
    BY <1>1, <1>2, <1>3, <1>4, <1>5, <1>6, <1>7 DEF RequestStep, CallSucceeds

\* A step that concerns neither requests nor the cluster actor.
LEMMA UnchangedKeepsFreeze ==
    ASSUME FreezeInv, UNCHANGED <<pc, clusterInbox, frozen, accepted, freezeStands, warned>>
    PROVE  FreezeInv'
  BY DEF FreezeInv, FreezeTypeOK, AcceptedAreAnswered, Barrier, WillBeFrozen, KindAtCall,
         clusterCommand, FreezeStopsLaterRequests

LEMMA FreezeStep ==
    ASSUME FreezeInv, [Next]_vars
    PROVE  FreezeInv'
  <1>1. CASE \E r \in Requests : RequestStep(r)
    BY <1>1, RequestKeepsFreeze
  <1>2. CASE ClusterActorReceives
    <2>1. UNCHANGED <<pc, accepted, freezeStands, warned>>
      BY <1>2 DEF ClusterActorReceives, history
    <2>2. /\ clusterInbox' \in Seq({"Freeze", "Unfreeze"}) /\ frozen' \in BOOLEAN
          /\ WillBeFrozen' <=> WillBeFrozen
      BY <1>2, ReceivingKeepsLastWord DEF FreezeInv
    <2> QED
      BY <2>1, <2>2 DEF FreezeInv, FreezeTypeOK, AcceptedAreAnswered, Barrier, KindAtCall,
                        clusterCommand, FreezeStopsLaterRequests
  <1>3. CASE \E d \in Deployments : DeploymentActorReceives(d) \/ DeploymentActorEndsTurn(d)
    BY <1>3, UnchangedKeepsFreeze
       DEF DeploymentActorReceives, DeploymentActorEndsTurn, cluster, history
  <1>4. CASE (\E n \in ShardCounts : RaiseShards(n)) \/ RollOutAPI \/ RollOutWorkers
    BY <1>4, UnchangedKeepsFreeze DEF RaiseShards, RollOutAPI, RollOutWorkers, cluster, history
  <1>5. CASE UNCHANGED vars
    BY <1>5, UnchangedKeepsFreeze DEF vars, cluster, history
  <1> QED
    BY <1>1, <1>2, <1>3, <1>4, <1>5 DEF Next

\* The invariant of the freeze holds in every state, whatever is frozen, unfrozen,
\* commanded or failing at the same time.
THEOREM FreezeInvariant == Spec => []FreezeInv
  <1>1. Init => FreezeInv
    <2> SUFFICES ASSUME Init PROVE FreezeInv
      OBVIOUS
    <2>1. pc = [r \in Requests |-> "new"] /\ warned = {} /\ freezeStands = FALSE
      BY DEF Init
    <2>2. /\ clusterInbox \in Seq({"Freeze", "Unfreeze"}) /\ frozen \in BOOLEAN
          /\ accepted \in Seq(Requests) /\ DOMAIN accepted = {}
      <3>1. \A S : <<>> \in Seq(S)
        OBVIOUS
      <3>2. DOMAIN <<>> = {}
        OBVIOUS
      <3>3. clusterInbox = <<>> /\ accepted = <<>> /\ frozen = FALSE
        BY DEF Init
      <3> QED
        BY <3>1, <3>2, <3>3
    <2> QED
      BY <2>1, <2>2 DEF FreezeInv, FreezeTypeOK, AcceptedAreAnswered, Barrier, KindAtCall,
                        FreezeStopsLaterRequests
  <1>2. FreezeInv /\ [Next]_vars => FreezeInv'
    BY FreezeStep
  <1> QED
    BY <1>1, <1>2, PTL DEF Spec

\* An answered freeze is a barrier: no request that begins after it gets a command that
\* changes the runtime accepted, until an unfreeze is requested, however the calls of
\* other requests interleave or fail (service.go:78-93, 112-121).
THEOREM FreezeStopsLaterRequestsHolds == Spec => []FreezeStopsLaterRequests
  <1>1. FreezeInv => FreezeStopsLaterRequests
    BY DEF FreezeInv
  <1> QED
    BY <1>1, FreezeInvariant, PTL

-----------------------------------------------------------------------------
(* Raising the shards.                                                     *)

\* The number of shards only grows, neither tier is ahead of the configuration, and an
\* actor is on a queue that the control API counted when it started the actor.
QueuesInv ==
    /\ {configured, apiShards, workerShards} \subseteq ShardCounts
    /\ apiShards <= configured /\ workerShards <= configured
    /\ queueOf \in [Workflows -> {Null} \cup 0 .. apiShards - 1]

\* The queue of an id is one of the queues (sharding.go:21-44).
LEMMA ShardIsAQueue ==
    ASSUME NEW n \in Nat, n > 1, NEW w \in Workflows
    PROVE  /\ ShardTaskQueue(n, w) \in 0 .. n - 1
           /\ ActorTaskQueues(n) = 0 .. n - 1
  <1>1. Hash[w] \in Nat
    BY ShardingAssumption
  <1>2. Hash[w] % n \in 0 .. n - 1
    BY <1>1
  <1> QED
    BY <1>2 DEF ShardTaskQueue, ActorTaskQueues

\* Starting an actor that does not run yet, with the number the API has read.
LEMMA StartKeepsQueues ==
    ASSUME \A n \in ShardCounts : n > 1, QueuesInv, NEW w \in Workflows,
           ExecuteWorkflow(w), UNCHANGED shards
    PROVE  QueuesInv'
  <1>1. apiShards \in Nat /\ apiShards > 1
    BY ActorsAssumption DEF QueuesInv
  <1>2. ShardTaskQueue(apiShards, w) \in 0 .. apiShards - 1
    BY <1>1, ShardIsAQueue
  <1> QED
    BY <1>2 DEF QueuesInv, ExecuteWorkflow, shards

LEMMA QueuesStep ==
    ASSUME \A n \in ShardCounts : n > 1, QueuesInv, [Next]_vars
    PROVE  QueuesInv'
  <1>0. {configured, apiShards, workerShards} \subseteq Nat
    BY ActorsAssumption DEF QueuesInv
  <1>1. CASE \E r \in Requests : EnsureClusterActor(r)
    BY <1>1, StartKeepsQueues, ActorsAssumption DEF EnsureClusterActor
  <1>2. CASE \E r \in Requests : EnsureDeploymentActor(r)
    BY <1>2, StartKeepsQueues, ActorsAssumption, CallAssumption DEF EnsureDeploymentActor
  <1>3. CASE UNCHANGED <<shards, queueOf>>
    BY <1>3 DEF QueuesInv, shards
  <1>4. CASE \E n \in ShardCounts : RaiseShards(n)
    <2>1. PICK n \in ShardCounts : RaiseShards(n)
      BY <1>4
    <2>2. n \in Nat
      BY ActorsAssumption
    <2> QED
      BY <1>0, <2>1, <2>2 DEF RaiseShards, QueuesInv
  <1>5. CASE RollOutAPI
    <2>1. 0 .. apiShards - 1 \subseteq 0 .. configured - 1
      BY <1>0 DEF QueuesInv
    <2> QED
      BY <1>0, <1>5, <2>1 DEF RollOutAPI, QueuesInv
  <1>6. CASE RollOutWorkers
    BY <1>0, <1>6 DEF RollOutWorkers, QueuesInv
  <1>7. CASE UNCHANGED vars
    BY <1>3, <1>7 DEF vars
  <1>8. ASSUME NEW r \in Requests,
               \/ Begin(r) \/ DescribeCluster(r) \/ SignalDeployment(r) \/ SignalCluster(r)
               \/ RequestFails(r)
        PROVE  QueuesInv'
    BY <1>3, <1>8 DEF Begin, DescribeCluster, SignalDeployment, SignalCluster, RequestFails
  <1>9. CASE \/ ClusterActorReceives
             \/ \E d \in Deployments : DeploymentActorReceives(d) \/ DeploymentActorEndsTurn(d)
    BY <1>3, <1>9 DEF ClusterActorReceives, DeploymentActorReceives, DeploymentActorEndsTurn
  <1> QED
    BY <1>1, <1>2, <1>4, <1>5, <1>6, <1>7, <1>8, <1>9 DEF Next, RequestStep, CallSucceeds

\* From two shards on, every actor that was ever started is on a queue that the workers
\* poll once they have taken up the number of shards, however often it was raised while
\* the control API was ahead of them or behind (sharding.go:21-44).  With one shard
\* among the numbers this is not so: the base queue is given up.
THEOREM NoActorIsAbandonedHolds ==
    ASSUME \A n \in ShardCounts : n > 1
    PROVE  Spec => []NoActorIsAbandoned
  <1>1. Init => QueuesInv
    BY ActorsAssumption DEF Init, QueuesInv
  <1>2. QueuesInv /\ [Next]_vars => QueuesInv'
    BY QueuesStep
  <1>3. QueuesInv => NoActorIsAbandoned
    <2> SUFFICES ASSUME QueuesInv, workerShards = configured,
                        NEW w \in Workflows, queueOf[w] # Null
                 PROVE  polled(w)
      BY DEF NoActorIsAbandoned
    <2>1. /\ configured \in Nat /\ apiShards \in Nat /\ configured > 1
          /\ apiShards <= configured
      BY ActorsAssumption DEF QueuesInv
    <2>2. queueOf[w] \in 0 .. configured - 1
      BY <2>1 DEF QueuesInv
    <2> QED
      BY <2>1, <2>2, ShardIsAQueue DEF polled
  <1> QED
    BY <1>1, <1>2, <1>3, PTL DEF Spec

=============================================================================
