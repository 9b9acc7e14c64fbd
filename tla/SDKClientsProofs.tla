-------------------------- MODULE SDKClientsProofs --------------------------
(***************************************************************************)
(* Proofs about SDKClients, for every set of operators' commands, every    *)
(* demand and both SDKs:                                                   *)
(*   1. what the SDK programs send are commands, so that the invariants of *)
(*      the actor hold in their company;                                   *)
(*   2. what is under way, and recorded, is theirs: the keys tell the      *)
(*      loop's scales, the waiter's deploy and the operators apart;        *)
(*   3. what the actor makes of it.                                        *)
(***************************************************************************)
EXTENDS SDKClients, DeploymentActorProofs, FiniteSetTheorems

-----------------------------------------------------------------------------
(* Inductive invariants.                                                   *)

\* Every accepted signal brings at most one key, so a key is left to be drawn.
SentInv ==
    /\ flavour \in Flavours /\ demand \in Demands
    /\ accepted \in Nat
    /\ IsFiniteSet(acceptedKeys) /\ Cardinality(acceptedKeys) <= accepted

\* The commands on their way: accepted, or received and not recorded yet.
Queued == {inbox[i] : i \in DOMAIN inbox}
Pending == Queued \cup ({active} \ {Null})

\* A deploy or a scale in progress is a rollout: to the requested spec, or to the current
\* one with the requested parallelism.
RolloutsInv ==
    (active # Null /\ active.type \in {"DeployVersion", "ScaleTo"}) =>
        /\ pc \in RolloutPCs /\ input.kind = "rollout"
        /\ active.type = "DeployVersion" => input.target = active.targetSpec
        /\ active.type = "ScaleTo" =>
              input.target = [currentVersion.spec EXCEPT !.parallelism = active.parallelism]

\* Whatever is pending or recorded was accepted, and what carries an SDK's key is the
\* waiter's deploy or one of the loop's scales.
KeyFlowInv ==
    /\ \A command \in Pending : command.key \in acceptedKeys
    /\ processedKeys \subseteq acceptedKeys
    /\ waiter.key # Null => waiter.key \in acceptedKeys
    /\ \A command \in Pending :
          command.key \in SDKKeys =>
              IF command.key = waiter.key
              THEN command.type = "DeployVersion" /\ command.targetSpec = WaiterSpec
              ELSE command.type = "ScaleTo" /\ command.parallelism = demand

\* A loop scale is on its way to the actor.
ScaleQueued == \E command \in Queued : command.type = "ScaleTo" /\ command.key \in SDKKeys

\* From the poll to the receipt of the scale the switch is on or has been turned off
\* meanwhile; while the scale runs it is off.
SwitchInv ==
    /\ switchedOff \in BOOLEAN
    /\ flavour = "go" =>
          /\ seen # Null \/ ScaleQueued => switchedOn \/ switchedOff
          /\ (active # Null /\ active.type = "ScaleTo" /\ active.key \in SDKKeys)
                => ~switchedOn /\ switchedOff

CurrentId == IF currentVersion = Null THEN 0 ELSE currentVersion.versionId

\* The version the waiter's deploy made, or one after it, is current.
OwnOrLater ==
    /\ CurrentId > baseline
    /\ CurrentId = baseline + 1 => currentVersion.spec = WaiterSpec

\* The current version is not behind the one the waiter's deploy found, and once that
\* deploy is recorded as succeeded it is the deploy's own or one after it.
WaiterInv ==
    /\ waiter \in [phase : {"new", "waiting", "healthy", "timeout"}, key : SDKKeys \cup {Null},
                   version : Versions \cup {Null}, own : {"none", "SUCCEEDED", "FAILED"}]
    /\ waiter.phase = "new" <=> waiter.key = Null
    /\ baseline \in Nat
    /\ waiter.phase # "new" => CurrentId >= baseline
    /\ waiter.phase = "waiting" =>
          \A i \in DOMAIN operations :
              (operations[i].key = waiter.key /\ operations[i].status = "SUCCEEDED")
                  => OwnOrLater
    /\ WaitHealthyAfterSuccess

ClientsInv == RolloutsInv /\ KeyFlowInv /\ SwitchInv /\ WaiterInv

-----------------------------------------------------------------------------
(* Clients of the actor.                                                   *)

\* What the actor and the cluster do leaves the record of what was sent alone.
LEMMA ActorSendsNothing ==
    ASSUME ReceiveStep \/ CompleteStep \/ ChildStep \/ ClusterStep
    PROVE  UNCHANGED sentVars
  <1>1. CASE ReceiveStep
    BY <1>1 DEF ReceiveStep, ReceiveDuplicate, ReceiveDeploy, ReceiveRollback, ReceiveScale,
          ReceiveSavepoint, ReceiveSetState, ReceiveAutoscalerSwitch, ReceiveContinueAsNew,
          ReceiveUnsupported, RecordAtOnce, Operate
  <1>2. CASE CompleteStep
    BY <1>2 DEF CompleteStep, ReturnFromRollout, ReturnFromSavepoint, SetJobState,
          SetJobStateFails, ObserveResumed, ObserveResumedFails, RecordAudit
  <1> QED
    BY <1>1, <1>2 DEF ChildStep, ClusterStep

\* As long as signals are accepted at all, a key can be drawn that was not accepted yet.
LEMMA KeyIsFresh ==
    ASSUME SentInv, accepted < MaxAccepted
    PROVE  generateKey \in SDKKeys /\ generateKey \notin acceptedKeys
  <1> DEFINE drawn == acceptedKeys \cap SDKKeys
  <1>1. IsFiniteSet(drawn) /\ Cardinality(drawn) <= Cardinality(acceptedKeys)
    BY FS_Subset DEF SentInv
  <1>2. Cardinality(drawn) \in Nat /\ Cardinality(acceptedKeys) \in Nat
    BY <1>1, FS_CardinalityType DEF SentInv
  <1>3. Cardinality(drawn) < MaxAccepted
    BY <1>1, <1>2, MaxAcceptedAssumption DEF SentInv
  <1>4. drawn # SDKKeys
    BY <1>3, ClientsAssumption
  <1>5. \E key \in SDKKeys : key \notin acceptedKeys
    BY <1>4
  <1> QED
    BY <1>5 DEF generateKey

\* The commands of the SDK programs.
LEMMA SDKCommands ==
    ASSUME SentInv, NEW key \in SDKKeys
    PROVE  LET deploy == [Request(key, "DeployVersion") EXCEPT !.targetSpec = WaiterSpec,
                                                               !.approved = TRUE]
           IN  /\ scaleRequest(key) \in Commands
               /\ scaleRequest(key).key = key /\ scaleRequest(key).type = "ScaleTo"
               /\ scaleRequest(key).parallelism = demand
               /\ deploy \in Commands
               /\ deploy.key = key /\ deploy.type = "DeployVersion"
               /\ deploy.targetSpec = WaiterSpec
  <1> DEFINE deploy == [Request(key, "DeployVersion") EXCEPT !.targetSpec = WaiterSpec,
                                                             !.approved = TRUE]
  <1>1. /\ scaleRequest(key) \in Requests /\ scaleRequest(key).key = key
        /\ scaleRequest(key).type = "ScaleTo" /\ scaleRequest(key).parallelism = demand
    BY DEF scaleRequest, Request, Requests, SentInv
  <1>2. /\ deploy \in Requests /\ deploy.key = key /\ deploy.type = "DeployVersion"
        /\ deploy.targetSpec = WaiterSpec
    BY DEF Request, Requests
  <1> QED
    BY <1>1, <1>2, ClientsAssumption

\* Every signal is counted and adds one key.
LEMMA SentStep ==
    ASSUME SentInv, [SDKNext]_sdkVars
    PROVE  SentInv'
  <1> USE DEF SentInv
  <1>1. UNCHANGED <<flavour, demand>>
    BY DEF SDKNext, ActorMoves, ClusterMoves, OperatorSends, LoopStep, LoopPolls, LoopScales,
           LoopGivesUp, WaiterStep, WaiterDeploys, WaitHealthyAnswers, WaitHealthyTimesOut,
           sdkVars, clientVars
  <1>2. ASSUME NEW command, Submit(command)
        PROVE  SentInv'
    <2>1. /\ accepted' = accepted + 1
          /\ acceptedKeys' = acceptedKeys \cup {command.key}
      BY <1>2 DEF Submit
    <2>2. Cardinality(acceptedKeys) \in Nat
      BY FS_CardinalityType
    <2>3. /\ IsFiniteSet(acceptedKeys \cup {command.key})
          /\ Cardinality(acceptedKeys \cup {command.key})
                \in {Cardinality(acceptedKeys), Cardinality(acceptedKeys) + 1}
      BY FS_AddElement
    <2> QED
      BY <1>1, <2>1, <2>2, <2>3
  <1>3. CASE UNCHANGED sentVars
    BY <1>1, <1>3 DEF sentVars
  <1>4. CASE ActorMoves \/ ClusterMoves
    BY <1>3, <1>4, ActorSendsNothing DEF ActorMoves, ClusterMoves
  <1>5. CASE OperatorSends \/ LoopScales \/ WaiterDeploys
    BY <1>2, <1>5 DEF OperatorSends, LoopScales, WaiterDeploys
  <1>6. CASE LoopPolls \/ LoopGivesUp \/ WaitHealthyAnswers \/ WaitHealthyTimesOut
    BY <1>3, <1>6 DEF LoopPolls, LoopGivesUp, WaitHealthyAnswers, WaitHealthyTimesOut, vars, sentVars
  <1>7. CASE UNCHANGED sdkVars
    BY <1>3, <1>7 DEF sdkVars, vars
  <1> QED
    BY <1>4, <1>5, <1>6, <1>7 DEF SDKNext, LoopStep, WaiterStep

\* What a client does is to the actor a signal, or nothing.
LEMMA ClientStep ==
    ASSUME SentInv, [SDKNext]_sdkVars
    PROVE  [Next]_vars
  <1>1. ASSUME NEW command \in Commands, Submit(command)
        PROVE  SignalWorkflow
    BY <1>1 DEF Submit, SignalWorkflow
  <1>2. CASE ActorMoves \/ ClusterMoves
    BY <1>2 DEF ActorMoves, ClusterMoves, Next
  <1>3. CASE OperatorSends
    BY <1>1, <1>3, ClientsAssumption DEF OperatorSends, Next
  <1>4. CASE LoopScales
    BY <1>1, <1>4, KeyIsFresh, SDKCommands DEF LoopScales, Submit, Next
  <1>5. CASE WaiterDeploys
    <2> DEFINE deploy == [Request(generateKey, "DeployVersion") EXCEPT
                             !.targetSpec = WaiterSpec, !.approved = TRUE]
    <2>1. Submit(deploy)
      BY <1>5 DEF WaiterDeploys
    <2>2. generateKey \in SDKKeys
      BY <2>1, KeyIsFresh DEF Submit
    <2>3. deploy \in Commands
      BY <2>2, SDKCommands
    <2> QED
      BY <1>1, <2>1, <2>3 DEF Next
  <1>6. CASE LoopPolls \/ LoopGivesUp \/ WaitHealthyAnswers \/ WaitHealthyTimesOut
    BY <1>6 DEF LoopPolls, LoopGivesUp, WaitHealthyAnswers, WaitHealthyTimesOut
  <1>7. CASE UNCHANGED sdkVars
    BY <1>7 DEF sdkVars
  <1> QED
    BY <1>2, <1>3, <1>4, <1>5, <1>6, <1>7 DEF SDKNext, LoopStep, WaiterStep

LEMMA SentInvariant == SDKSpec => []SentInv
  <1>1. SDKInit => SentInv
    BY FS_EmptySet DEF SDKInit, Init, SentInv
  <1>2. SentInv /\ [SDKNext]_sdkVars => SentInv'
    BY SentStep
  <1> QED
    BY <1>1, <1>2, PTL DEF SDKSpec

\* What is proved of DeploymentActor holds in the company of the SDK programs.
LEMMA ActorImplemented == SDKSpec => Spec
  <1>1. SDKInit => Init
    BY DEF SDKInit
  <1>2. SentInv /\ [SDKNext]_sdkVars => [Next]_vars
    BY ClientStep
  <1> QED
    BY <1>1, <1>2, SentInvariant, PTL DEF SDKSpec, Spec

\* In particular its inductive invariant.
LEMMA ActorInvariant == SDKSpec => []VersionsInv
  BY ActorImplemented, VersionsInvariant, PTL

-----------------------------------------------------------------------------
(* What the actor makes of its commands.                                   *)

ActorStep == ReceiveStep \/ CompleteStep \/ ChildStep \/ ClusterStep

\* The command received next, and those behind it, are queued.
LEMMA QueueFacts ==
    ASSUME inbox \in Seq(Commands), inbox # << >>
    PROVE  /\ next \in Queued
           /\ {Tail(inbox)[i] : i \in DOMAIN Tail(inbox)} \subseteq Queued
  <1>1. 1 \in DOMAIN inbox /\ next = inbox[1]
    BY DEF next
  <1>2. \A i \in DOMAIN Tail(inbox) : i + 1 \in DOMAIN inbox /\ Tail(inbox)[i] = inbox[i + 1]
    OBVIOUS
  <1> QED
    BY <1>1, <1>2 DEF Queued

\* The actor only takes commands from its queue; the one it takes becomes active or is
\* recorded at once.
LEMMA QueueShrinks ==
    ASSUME VersionsInv, ActorStep
    PROVE  /\ Queued' \subseteq Queued
           /\ active' = Null \/ active' = active \/ active' \in Queued
  <1>0. inbox \in Seq(Commands)
    BY DEF VersionsInv, KeysInv, KeysTypeOK
  <1>1. ASSUME UNCHANGED inbox, active' \in {active, Null}
        PROVE  Queued' \subseteq Queued /\ active' \in {active, Null}
    BY <1>1 DEF Queued
  <1>2. ASSUME NEW type, NEW rest, EndTurn(type, rest),
               {rest[i] : i \in DOMAIN rest} \subseteq Queued
        PROVE  Queued' \subseteq Queued
    <2>1. CASE inbox' = rest
      BY <1>2, <2>1 DEF Queued
    <2>2. CASE inbox' = << >>
      BY <2>2 DEF Queued
    <2> QED
      BY <1>2, <2>1, <2>2 DEF EndTurn
  <1>3. CASE ReceiveDuplicate
    <2>1. EndTurn(next.type, Tail(inbox)) /\ inbox # << >> /\ active' = active
      BY <1>3 DEF ReceiveDuplicate, CanReceive
    <2> QED
      BY <1>0, <1>2, <2>1, QueueFacts
  <1>4. CASE ReceiveStep /\ ~ReceiveDuplicate
    <2>1. /\ inbox # << >> /\ inbox' = Tail(inbox)
          /\ active' = Null \/ active' = next
      BY <1>4 DEF ReceiveStep, ReceiveDeploy, ReceiveRollback, ReceiveScale, ReceiveSavepoint,
            ReceiveSetState, ReceiveAutoscalerSwitch, ReceiveContinueAsNew, ReceiveUnsupported,
            Receive, CanReceive, Operate, RecordAtOnce, Record
    <2> QED
      BY <1>0, <2>1, QueueFacts DEF Queued
  <1>5. CASE RecordAudit
    <2>1. PICK type : EndTurn(type, inbox)
      BY <1>5 DEF RecordAudit
    <2>2. active' = active
      BY <1>5 DEF RecordAudit
    <2> QED
      BY <1>2, <2>1, <2>2 DEF Queued
  <1>6. CASE CompleteStep /\ ~RecordAudit
    BY <1>1, <1>6 DEF CompleteStep, ReturnFromRollout, ReturnFromSavepoint, SetJobState,
          SetJobStateFails, ObserveResumed, ObserveResumedFails, Record, RetryActivity
  <1>7. CASE ChildStep \/ ClusterStep
    BY <1>1, <1>7 DEF ChildStep, ClusterStep, actorVars
  <1> QED
    BY <1>3, <1>4, <1>5, <1>6, <1>7 DEF ActorStep, ReceiveStep, CompleteStep

\* The id of the current version never falls and stands for one spec; a rollout that
\* succeeds raises it and makes its target current.
LEMMA CurrentIdGrows ==
    ASSUME VersionsInv, [Next]_vars
    PROVE  /\ CurrentId \in Nat /\ CurrentId' \in Nat /\ CurrentId' >= CurrentId
           /\ (CurrentId' = CurrentId /\ currentVersion # Null)
                 => currentVersion'.spec = currentVersion.spec
           /\ (ReturnFromRollout /\ outcome = "ok")
                 => CurrentId' > CurrentId /\ currentVersion'.spec = input.target
  <1>0. VersionTypeOK
    BY DEF VersionsInv, TypeOK
  <1>1. CurrentId \in Nat
    BY <1>0 DEF VersionTypeOK, CurrentId, Versions
  <1>2. CASE UNCHANGED currentVersion /\ ~(ReturnFromRollout /\ outcome = "ok")
    BY <1>1, <1>2 DEF CurrentId
  <1>3. CASE ReturnFromRollout /\ outcome = "ok"
    <2>1. /\ currentVersion' = result.version /\ result.version \in Versions
          /\ result.version.spec = input.target
          /\ result.version.versionId =
                IF currentVersion = Null THEN 1 ELSE currentVersion.versionId + 1
      BY <1>3, SuccessfulRollout DEF ReturnFromRollout
    <2> QED
      BY <1>1, <2>1, NullAssumption DEF CurrentId
  <1>4. CASE ObserveResumed
    <2>1. PICK health \in Healths :
             currentVersion' = [currentVersion EXCEPT !.healthy = health.healthy]
      BY <1>4 DEF ObserveResumed
    <2>2. currentVersion \in Versions /\ currentVersion # Null
      BY <1>0, <1>4, NullAssumption DEF ObserveResumed, VersionsInv, ChildInv, VersionTypeOK
    <2>3. /\ currentVersion'.versionId = currentVersion.versionId
          /\ currentVersion'.spec = currentVersion.spec /\ currentVersion' \in Versions
      BY <2>1, <2>2, HealthsAssumption DEF Versions
    <2>4. CurrentId' = CurrentId
      BY <2>2, <2>3, NullAssumption DEF CurrentId
    <2>5. ~ReturnFromRollout
      BY <1>4 DEF ObserveResumed, ReturnFromRollout
    <2> QED
      BY <1>1, <2>3, <2>4, <2>5
  <1>5. CASE ReceiveStep
    <2>1. pc = "idle" /\ UNCHANGED currentVersion
      BY <1>5, Received
    <2> QED
      BY <1>2, <2>1 DEF ReturnFromRollout
  <1>6. CASE CompleteStep /\ ~ObserveResumed
    BY <1>2, <1>3, <1>6 DEF CompleteStep, ReturnFromRollout, ReturnFromSavepoint, SetJobState,
          SetJobStateFails, ObserveResumedFails, RecordAudit, versionVars
  <1>7. CASE SignalWorkflow \/ ChildStep \/ ClusterStep \/ UNCHANGED vars
    BY <1>2, <1>3, <1>7 DEF SignalWorkflow, ChildStep, ClusterStep, actorVars, versionVars, vars
  <1> QED
    BY <1>4, <1>5, <1>6, <1>7 DEF Next

\* A deploy or a scale that is not recorded at once starts a rollout, and stays one.
LEMMA RolloutsStep ==
    ASSUME VersionsInv, RolloutsInv, [Next]_vars
    PROVE  RolloutsInv'
  <1> USE DEF RolloutsInv, RolloutPCs
  <1>1. CASE ReceiveScale
    <2> DEFINE target == [currentVersion.spec EXCEPT !.parallelism = next.parallelism]
    <2>1. CASE RecordAtOnce(FALSE)
      BY <2>1 DEF RecordAtOnce, Record
    <2>2. CASE /\ Begin(RolloutInput(currentVersion, target, next.approved, next.incident))
               /\ Operate
      <3>1. input' = RolloutInput(currentVersion, target, next.approved, next.incident)
        BY <2>2 DEF Begin
      <3>2. input'.kind = "rollout" /\ input'.target = target
        BY <3>1 DEF RolloutInput
      <3>3. pc' = "validate" /\ active' = next /\ UNCHANGED currentVersion
        BY <2>2, <3>1, <3>2 DEF Begin, Operate, versionVars
      <3>4. active'.type = "ScaleTo"
        BY <1>1, <3>3 DEF ReceiveScale, Receive
      <3> QED
        BY <3>2, <3>3, <3>4
    <2> QED
      BY <1>1, <2>1, <2>2 DEF ReceiveScale
  <1>2. CASE ReceiveDeploy
    BY <1>2 DEF ReceiveDeploy, Receive, Operate, Begin, RolloutInput, RecordAtOnce, Record
  <1>3. CASE ReceiveDuplicate
    <2>1. active' = Null
      BY <1>3 DEF ReceiveDuplicate, CanReceive, VersionsInv, KeysInv, ActiveIsNew
    <2> QED
      BY <2>1
  <1>4. CASE ReceiveStep /\ ~ReceiveDeploy /\ ~ReceiveScale /\ ~ReceiveDuplicate
    BY <1>4 DEF ReceiveStep, ReceiveRollback, ReceiveSavepoint, ReceiveSetState,
          ReceiveAutoscalerSwitch, ReceiveContinueAsNew, ReceiveUnsupported, Receive, Operate,
          RecordAtOnce, Record
  <1>5. CASE ChildStep
    <2>1. pc' \in RolloutPCs /\ UNCHANGED <<active, currentVersion>>
      BY <1>5, WorkflowStepStaysInside DEF ChildStep, actorVars, versionVars
    <2>2. input' = input
      BY <1>5 DEF ChildStep, WorkflowStep, ValidateDeployment, ValidateDeploymentFails,
            AcquireCapacityLease, CapacityExhausted, AcquireCapacityLeaseFails, TriggerSavepoint,
            ObserveSavepoint, SavepointFails, ApplyDeployment, ApplyDeploymentFails,
            ObserveDeployment, HealthGate, ObserveDeploymentFails, ApplyRollback,
            ApplyRollbackFails, ReleaseCapacityLease, ReleaseCapacityLeaseFails
    <2> QED
      BY <2>1, <2>2
  <1>6. CASE ReturnFromRollout \/ ReturnFromSavepoint
    BY <1>6 DEF ReturnFromRollout, ReturnFromSavepoint, Record
  <1>7. CASE SetJobState \/ SetJobStateFails \/ ObserveResumed \/ ObserveResumedFails
    <2>1. pc \notin RolloutPCs /\ (active' = Null \/ active' = active)
      BY <1>7 DEF SetJobState, SetJobStateFails, ObserveResumed, ObserveResumedFails, Record,
            RetryActivity
    <2> QED
      BY <2>1
  <1>8. CASE RecordAudit
    <2>1. active' = Null
      BY <1>8 DEF RecordAudit, VersionsInv, KeysInv, ActiveIsNew
    <2> QED
      BY <2>1
  <1>9. CASE SignalWorkflow \/ ClusterStep \/ UNCHANGED vars
    BY <1>9 DEF SignalWorkflow, ClusterStep, WorldStep, LateWriteLands, LeaseExpires, actorVars,
          versionVars, vars, rolloutVars, childVars
  <1> QED
    BY <1>1, <1>2, <1>3, <1>4, <1>5, <1>6, <1>7, <1>8, <1>9 DEF Next, ReceiveStep, CompleteStep

\* A step that makes a new version current, of the spec that was asked for.
Deployed(command) ==
    CurrentId' > CurrentId /\ currentVersion'.spec = command.targetSpec

\* What a step records is one pending command, and a deploy counts as succeeded only
\* with a new version of its spec.
LEMMA RecordedArePending ==
    ASSUME VersionsInv, RolloutsInv, ActorStep
    PROVE  \A i \in DOMAIN operations' :
              \/ \E j \in DOMAIN operations : operations'[i] = operations[j]
              \/ \E command \in Pending :
                    /\ operations'[i].key = command.key
                    /\ (operations'[i].status = "SUCCEEDED" /\ command.type = "DeployVersion")
                          => Deployed(command)
  <1> DEFINE Recorded(op) ==
                \/ \E j \in DOMAIN operations : op = operations[j]
                \/ \E command \in Pending :
                      /\ op.key = command.key
                      /\ (op.status = "SUCCEEDED" /\ command.type = "DeployVersion")
                            => Deployed(command)
  <1> DEFINE Kept == \A i \in DOMAIN operations' : Recorded(operations'[i])
  <1>0. /\ operations \in Seq([key : Keys, type : CommandTypes, status : {"SUCCEEDED", "FAILED"}])
        /\ inbox \in Seq(Commands)
    BY DEF VersionsInv, KeysInv, KeysTypeOK
  <1>1. ASSUME UNCHANGED operations
        PROVE  Kept
    BY <1>1
  <1>2. ASSUME NEW type, NEW rest, EndTurn(type, rest)
        PROVE  Kept
    <2>1. CASE UNCHANGED operations
      BY <1>1, <2>1
    <2>2. CASE operations' = LastN(operations, HistoryLimit)
      <3> DEFINE Ops == [key : Keys, type : CommandTypes, status : {"SUCCEEDED", "FAILED"}]
      <3>0. operations \in Seq(Ops) /\ HistoryLimit \in Nat
        BY <1>0, HistoryLimitAssumption
      <3> HIDE DEF Ops
      <3>1. /\ Len(operations') \in Nat /\ DOMAIN operations' = 1 .. Len(operations')
            /\ Len(operations') <= Len(operations)
            /\ \A i \in 1 .. Len(operations') :
                  operations'[i] = operations[Len(operations) - Len(operations') + i]
        BY <2>2, <3>0, LastNSuffix
      <3>2. \A i \in DOMAIN operations' :
               Len(operations) - Len(operations') + i \in DOMAIN operations
        BY <1>0, <3>1
      <3> QED
        BY <3>1, <3>2
    <2> QED
      BY <1>2, <2>1, <2>2 DEF EndTurn, compact
  <1>3. ASSUME NEW command \in Pending, NEW succeeded \in BOOLEAN, Record(command, succeeded),
               succeeded => command.type # "DeployVersion" \/ Deployed(command)
        PROVE  Kept
    <2> DEFINE op == [key |-> command.key, type |-> command.type,
                      status |-> IF succeeded THEN "SUCCEEDED" ELSE "FAILED"]
    <2>1. operations' = Append(operations, op)
      BY <1>3 DEF Record
    <2>2. Recorded(op)
      BY <1>3
    <2>3. \A i \in DOMAIN operations' :
             operations'[i] = op \/ (i \in DOMAIN operations /\ operations'[i] = operations[i])
      <3> HIDE DEF op
      <3> QED
        BY <1>0, <2>1
    <2> HIDE DEF op
    <2> QED
      BY <2>2, <2>3
  <1>4. active # Null => active \in Pending
    BY DEF Pending
  <1>5. CASE ReceiveDuplicate \/ RecordAudit
    BY <1>2, <1>5 DEF ReceiveDuplicate, RecordAudit
  <1>6. CASE ReceiveStep /\ ~ReceiveDuplicate
    <2>1. \/ UNCHANGED operations
          \/ RecordAtOnce(FALSE)
          \/ RecordAtOnce(TRUE) /\ next.type # "DeployVersion"
      BY <1>6 DEF ReceiveStep, ReceiveDeploy, ReceiveRollback, ReceiveScale, ReceiveSavepoint,
            ReceiveSetState, ReceiveAutoscalerSwitch, ReceiveContinueAsNew, ReceiveUnsupported,
            Receive, Operate, recordVars
    <2>2. inbox # << >>
      BY <1>6 DEF ReceiveStep, ReceiveDeploy, ReceiveRollback, ReceiveScale, ReceiveSavepoint,
            ReceiveSetState, ReceiveAutoscalerSwitch, ReceiveContinueAsNew, ReceiveUnsupported,
            Receive, CanReceive
    <2>3. next \in Pending
      BY <1>0, <2>2, QueueFacts DEF Pending
    <2> QED
      BY <1>1, <1>3, <2>1, <2>3 DEF RecordAtOnce
  <1>7. CASE ReturnFromRollout
    <2>1. Record(active, outcome = "ok") /\ active # Null
      BY <1>7 DEF ReturnFromRollout, VersionsInv, KeysInv, ActiveIsNew
    <2>2. (outcome = "ok" /\ active.type = "DeployVersion") => Deployed(active)
      BY <1>7, <2>1, CurrentIdGrows DEF Next, CompleteStep, RolloutsInv, Deployed
    <2> QED
      BY <1>3, <1>4, <2>1, <2>2
  <1>8. CASE ReturnFromSavepoint \/ SetJobState \/ SetJobStateFails \/ ObserveResumed
             \/ ObserveResumedFails
    <2>1. active # Null /\ active.type # "DeployVersion"
      BY <1>8 DEF ReturnFromSavepoint, SetJobState, SetJobStateFails, ObserveResumed,
            ObserveResumedFails, VersionsInv, KeysInv, ActiveIsNew, RolloutsInv, RolloutPCs
    <2>2. \/ UNCHANGED operations
          \/ \E succeeded \in BOOLEAN : Record(active, succeeded)
      BY <1>8 DEF ReturnFromSavepoint, SetJobState, SetJobStateFails, ObserveResumed,
            ObserveResumedFails, RetryActivity, recordVars
    <2> QED
      BY <1>1, <1>3, <1>4, <2>1, <2>2
  <1>9. CASE ChildStep \/ ClusterStep
    BY <1>1, <1>9 DEF ChildStep, ClusterStep, actorVars, recordVars
  <1> QED
    BY <1>5, <1>6, <1>7, <1>8, <1>9 DEF ActorStep, ReceiveStep, CompleteStep

\* A scale becomes active only while the switch is off, and no switch is turned while it
\* runs.
LEMMA ScalesRunSwitchedOff ==
    ASSUME VersionsInv, ActorStep, active' # Null, active'.type = "ScaleTo"
    PROVE  /\ UNCHANGED autoscalerVars
           /\ active' = active \/ (active' \in Queued /\ ~switchedOn)
  <1>1. CASE ReceiveStep
    <2>1. active = Null
      BY <1>1, Received DEF VersionsInv, KeysInv, ActiveIsNew
    <2>2. ReceiveScale
      BY <1>1, <2>1 DEF ReceiveStep, ReceiveDuplicate, ReceiveDeploy, ReceiveRollback,
            ReceiveSavepoint, ReceiveSetState, ReceiveAutoscalerSwitch, ReceiveContinueAsNew,
            ReceiveUnsupported, Receive, Operate, RecordAtOnce, Record
    <2>3. Operate /\ ~switchedOn
      BY <2>2 DEF ReceiveScale, RecordAtOnce, Record, switchedOn
    <2>4. active' \in Queued
      BY <1>1, <2>1, QueueShrinks DEF ActorStep
    <2> QED
      BY <2>3, <2>4 DEF Operate
  <1>2. CASE CompleteStep
    BY <1>2 DEF CompleteStep, ReturnFromRollout, ReturnFromSavepoint, SetJobState,
          SetJobStateFails, ObserveResumed, ObserveResumedFails, RecordAudit, Record,
          RetryActivity, autoscalerVars
  <1>3. CASE ChildStep \/ ClusterStep
    BY <1>3 DEF ChildStep, ClusterStep, actorVars
  <1> QED
    BY <1>1, <1>2, <1>3 DEF ActorStep

-----------------------------------------------------------------------------
(* Steps of the clients.                                                   *)

\* An accepted command is queued and changes nothing of the actor.
LEMMA SubmitQueues ==
    ASSUME VersionsInv, NEW command, Submit(command)
    PROVE  /\ Queued' \subseteq Queued \cup {command}
           /\ acceptedKeys' = acceptedKeys \cup {command.key}
           /\ UNCHANGED <<active, operations, processedKeys, currentVersion, autoscalerVars>>
  <1>1. inbox \in Seq(Commands) /\ inbox' = Append(inbox, command)
    BY DEF Submit, VersionsInv, KeysInv, KeysTypeOK
  <1>2. \A i \in DOMAIN inbox' : inbox'[i] = command \/ (i \in DOMAIN inbox /\ inbox'[i] = inbox[i])
    BY <1>1
  <1> QED
    BY <1>2 DEF Submit, Queued, actorVars, recordVars, versionVars

\* The steps of the SDK clients and operators, by what they submit.
LEMMA ClientCases ==
    ASSUME SentInv, [SDKNext]_sdkVars
    PROVE  \/ /\ ActorStep /\ UNCHANGED <<flavour, demand, seen, waiter, baseline>>
              /\ \/ switchedOff' = (switchedOff \/ (switchedOn /\ ~switchedOn'))
                 \/ ClusterStep /\ UNCHANGED switchedOff
           \/ /\ UNCHANGED clientVars
              /\ \E command \in OperatorCommands : Submit(command)
           \/ LoopScales
           \/ WaiterDeploys
           \/ LoopPolls
           \/ LoopGivesUp
           \/ WaitHealthyAnswers
           \/ WaitHealthyTimesOut
           \/ UNCHANGED sdkVars
  BY DEF SDKNext, ActorMoves, ClusterMoves, ActorStep, OperatorSends, LoopStep, WaiterStep, clientVars

\* The keys keep apart what is on its way: an operator has none of the SDKs' keys, and
\* the SDKs draw theirs afresh.
LEMMA KeyFlowStep ==
    ASSUME SentInv, VersionsInv, VersionsInv', RolloutsInv, KeyFlowInv, WaiterInv,
           [SDKNext]_sdkVars
    PROVE  KeyFlowInv'
  <1> USE DEF KeyFlowInv
  <1>0. processedKeys = KeysOf(operations) /\ processedKeys' = KeysOf(operations')
    BY DEF VersionsInv, KeysInv, OperationsEndLog
  <1>1. ASSUME ActorStep, UNCHANGED <<demand, waiter>>
        PROVE  KeyFlowInv'
    <2>1. Pending' \subseteq Pending
      BY <1>1, QueueShrinks DEF Pending
    <2>2. UNCHANGED acceptedKeys
      BY <1>1, ActorSendsNothing DEF ActorStep, sentVars
    <2>3. \A i \in DOMAIN operations : operations[i].key \in acceptedKeys
      BY <1>0 DEF KeysOf
    <2>4. \A i \in DOMAIN operations' : operations'[i].key \in acceptedKeys
      BY <1>1, <2>3, RecordedArePending
    <2> QED
      BY <1>0, <1>1, <2>1, <2>2, <2>4 DEF KeysOf
  <1>2. ASSUME NEW command, Submit(command), UNCHANGED demand,
               waiter'.key = waiter.key \/ (waiter.key = Null /\ waiter'.key = command.key),
               command.key \in SDKKeys =>
                   /\ command.key \notin acceptedKeys
                   /\ IF command.key = waiter'.key
                      THEN command.type = "DeployVersion" /\ command.targetSpec = WaiterSpec
                      ELSE command.type = "ScaleTo" /\ command.parallelism = demand
        PROVE  KeyFlowInv'
    <2>1. Pending' \subseteq Pending \cup {command}
      BY <1>2, SubmitQueues DEF Pending
    <2>2. acceptedKeys' = acceptedKeys \cup {command.key} /\ UNCHANGED processedKeys
      BY <1>2, SubmitQueues
    <2>3. ASSUME NEW other \in Pending, other.key \in SDKKeys
          PROVE  IF other.key = waiter'.key
                 THEN other.type = "DeployVersion" /\ other.targetSpec = WaiterSpec
                 ELSE other.type = "ScaleTo" /\ other.parallelism = demand
      BY <1>2, <2>3, ClientsAssumption
    <2> QED
      BY <1>2, <2>1, <2>2, <2>3
  <1>3. ASSUME NEW command \in OperatorCommands, Submit(command), UNCHANGED clientVars
        PROVE  KeyFlowInv'
    <2>1. command.key \notin SDKKeys
      BY ClientsAssumption
    <2> QED
      BY <1>2, <1>3, <2>1 DEF clientVars
  <1>4. CASE LoopScales
    <2> DEFINE scale == scaleRequest(generateKey)
    <2>1. Submit(scale) /\ UNCHANGED <<demand, waiter>>
      BY <1>4 DEF LoopScales
    <2>2. generateKey \in SDKKeys /\ generateKey \notin acceptedKeys
      BY <2>1, KeyIsFresh DEF Submit
    <2>3. scale.key = generateKey /\ scale.type = "ScaleTo" /\ scale.parallelism = demand
      BY <2>2, SDKCommands
    <2>4. waiter.key # generateKey
      BY <2>2, ClientsAssumption
    <2> HIDE DEF scale
    <2> QED
      BY <1>2, <2>1, <2>2, <2>3, <2>4
  <1>5. CASE WaiterDeploys
    <2> DEFINE deploy == [Request(generateKey, "DeployVersion") EXCEPT
                             !.targetSpec = WaiterSpec, !.approved = TRUE]
    <2>1. /\ Submit(deploy) /\ UNCHANGED demand
          /\ waiter.key = Null /\ waiter'.key = generateKey
      BY <1>5 DEF WaiterDeploys, WaiterInv
    <2>2. generateKey \in SDKKeys /\ generateKey \notin acceptedKeys
      BY <2>1, KeyIsFresh DEF Submit
    <2>3. /\ deploy.key = generateKey /\ deploy.type = "DeployVersion"
          /\ deploy.targetSpec = WaiterSpec
      BY <2>2, SDKCommands
    <2> HIDE DEF deploy
    <2> QED
      BY <1>2, <2>1, <2>2, <2>3
  <1>6. ASSUME UNCHANGED <<vars, demand, waiter.key>>
        PROVE  KeyFlowInv'
    BY <1>6 DEF vars, Pending, Queued, actorVars, recordVars, sentVars
  <1>7. CASE LoopPolls \/ LoopGivesUp \/ UNCHANGED sdkVars
    BY <1>6, <1>7 DEF LoopPolls, LoopGivesUp, sdkVars, clientVars
  <1>8. CASE WaitHealthyAnswers \/ WaitHealthyTimesOut
    BY <1>6, <1>8 DEF WaitHealthyAnswers, WaitHealthyTimesOut, WaiterInv
  <1> QED
    BY <1>1, <1>3, <1>4, <1>5, <1>7, <1>8, ClientCases

\* Once the Go loop has looked, the switch cannot go off unnoticed; and the loop does not
\* look again while its scale runs, for then the switch is off.
LEMMA SwitchStep ==
    ASSUME SentInv, VersionsInv, SwitchInv, [SDKNext]_sdkVars
    PROVE  SwitchInv'
  <1> USE DEF SwitchInv
  <1>1. ASSUME ActorStep, UNCHANGED <<flavour, seen>>,
               \/ switchedOff' = (switchedOff \/ (switchedOn /\ ~switchedOn'))
               \/ ClusterStep /\ UNCHANGED switchedOff
        PROVE  SwitchInv'
    <2>1. ScaleQueued' => ScaleQueued
      BY <1>1, QueueShrinks DEF ScaleQueued
    <2>2. ClusterStep => switchedOn' = switchedOn
      BY DEF ClusterStep, actorVars, autoscalerVars, switchedOn
    <2>3. /\ switchedOff' \in BOOLEAN
          /\ switchedOff => switchedOff'
          /\ (switchedOn \/ switchedOff) => (switchedOn' \/ switchedOff')
      <3>1. CASE switchedOff' = (switchedOff \/ (switchedOn /\ ~switchedOn'))
        <4>1. switchedOff' \in BOOLEAN
          BY <3>1
        <4>2. switchedOff' <=> (switchedOff \/ (switchedOn /\ ~switchedOn'))
          BY <3>1
        <4> QED
          BY <4>1, <4>2
      <3>2. CASE switchedOff' = switchedOff /\ ClusterStep
        BY <2>2, <3>2
      <3> QED
        BY <1>1, <3>1, <3>2
    <2>4. ASSUME active' # Null, active'.type = "ScaleTo", active'.key \in SDKKeys, flavour = "go"
          PROVE  ~switchedOn' /\ switchedOff'
      <3>1. switchedOn' = switchedOn
        BY <1>1, <2>4, ScalesRunSwitchedOff DEF autoscalerVars, switchedOn
      <3>2. CASE active' = active
        BY <2>3, <2>4, <3>1, <3>2
      <3>3. CASE active' \in Queued /\ ~switchedOn
        BY <2>3, <2>4, <3>1, <3>3 DEF ScaleQueued
      <3> QED
        BY <1>1, <2>4, <3>2, <3>3, ScalesRunSwitchedOff
    <2> QED
      BY <1>1, <2>1, <2>3, <2>4
  <1>2. ASSUME NEW command, Submit(command), UNCHANGED <<flavour, switchedOff>>,
               seen' = Null \/ seen' = seen,
               (command.type = "ScaleTo" /\ command.key \in SDKKeys) => seen # Null
        PROVE  SwitchInv'
    <2>1. ScaleQueued' => ScaleQueued \/ seen # Null
      BY <1>2, SubmitQueues DEF ScaleQueued
    <2>2. UNCHANGED active /\ switchedOn' = switchedOn
      BY <1>2, SubmitQueues DEF autoscalerVars, switchedOn
    <2> QED
      BY <1>2, <2>1, <2>2
  <1>3. ASSUME NEW command \in OperatorCommands, Submit(command), UNCHANGED clientVars
        PROVE  SwitchInv'
    <2>1. command.key \notin SDKKeys
      BY ClientsAssumption
    <2> QED
      BY <1>2, <1>3, <2>1 DEF clientVars
  <1>4. CASE LoopScales
    <2>1. Submit(scaleRequest(generateKey)) /\ UNCHANGED <<flavour, switchedOff>>
          /\ seen # Null /\ seen' = Null
      BY <1>4 DEF LoopScales
    <2> QED
      BY <1>2, <2>1
  <1>5. CASE WaiterDeploys
    <2> DEFINE deploy == [Request(generateKey, "DeployVersion") EXCEPT
                             !.targetSpec = WaiterSpec, !.approved = TRUE]
    <2>1. Submit(deploy) /\ UNCHANGED <<flavour, seen, switchedOff>>
      BY <1>5 DEF WaiterDeploys
    <2>2. deploy.type # "ScaleTo"
      BY DEF Request
    <2> HIDE DEF deploy
    <2> QED
      BY <1>2, <2>1, <2>2
  <1>6. ASSUME UNCHANGED <<vars, flavour>>
        PROVE  /\ UNCHANGED active /\ ScaleQueued' = ScaleQueued /\ switchedOn' = switchedOn
    BY <1>6 DEF vars, actorVars, autoscalerVars, ScaleQueued, Queued, switchedOn
  <1>7. CASE LoopPolls
    <2>1. /\ UNCHANGED <<vars, flavour>> /\ switchedOff' = FALSE
          /\ flavour = "go" => switchedOn
      BY <1>7 DEF LoopPolls, wants, view
    <2> QED
      BY <1>6, <2>1
  <1>8. CASE LoopGivesUp
    <2>1. UNCHANGED <<vars, flavour, switchedOff>> /\ seen' = Null
      BY <1>8 DEF LoopGivesUp
    <2> QED
      BY <1>6, <2>1
  <1>9. CASE WaitHealthyAnswers \/ WaitHealthyTimesOut \/ UNCHANGED sdkVars
    <2>1. UNCHANGED <<vars, flavour, seen, switchedOff>>
      BY <1>9 DEF WaitHealthyAnswers, WaitHealthyTimesOut, sdkVars, clientVars
    <2> QED
      BY <1>6, <2>1
  <1> QED
    BY <1>1, <1>3, <1>4, <1>5, <1>7, <1>8, <1>9, ClientCases

\* The waiter's deploy cannot be recorded as succeeded without a version of its own.
LEMMA WaiterStays ==
    ASSUME SentInv, VersionsInv, RolloutsInv, KeyFlowInv, WaiterInv, [SDKNext]_sdkVars
    PROVE  WaiterInv'
  <1>0. /\ [Next]_vars /\ CurrentId \in Nat /\ CurrentId' \in Nat /\ CurrentId' >= CurrentId
        /\ CurrentId' = CurrentId /\ currentVersion # Null
              => currentVersion'.spec = currentVersion.spec
        /\ VersionTypeOK
    BY ClientStep, CurrentIdGrows DEF VersionsInv, TypeOK
  <1> USE DEF WaiterInv
  <1>1. ASSUME ActorStep, UNCHANGED <<waiter, baseline>>
        PROVE  WaiterInv'
    <2>1. ASSUME waiter.phase = "waiting", NEW i \in DOMAIN operations',
                 operations'[i].key = waiter.key, operations'[i].status = "SUCCEEDED"
          PROVE  OwnOrLater'
      <3>1. CASE \E j \in DOMAIN operations : operations'[i] = operations[j]
        <4>1. OwnOrLater
          BY <2>1, <3>1
        <4>2. currentVersion # Null
          BY <4>1 DEF OwnOrLater, CurrentId
        <4> QED
          BY <1>0, <1>1, <4>1, <4>2 DEF OwnOrLater
      <3>2. CASE \E command \in Pending :
                    /\ operations'[i].key = command.key
                    /\ (operations'[i].status = "SUCCEEDED" /\ command.type = "DeployVersion")
                          => Deployed(command)
        <4>1. PICK command \in Pending :
                    /\ operations'[i].key = command.key
                    /\ (operations'[i].status = "SUCCEEDED" /\ command.type = "DeployVersion")
                          => Deployed(command)
          BY <3>2
        <4>2. command.key = waiter.key /\ command.key \in SDKKeys
          BY <2>1, <4>1
        <4>3. command.type = "DeployVersion" /\ command.targetSpec = WaiterSpec
          BY <4>2 DEF KeyFlowInv
        <4> QED
          BY <1>0, <1>1, <2>1, <4>1, <4>3 DEF OwnOrLater, Deployed
      <3> QED
        BY <1>1, <3>1, <3>2, RecordedArePending
    <2> QED
      BY <1>0, <1>1, <2>1 DEF WaitHealthyAfterSuccess
  <1>2. ASSUME UNCHANGED <<waiter, baseline, currentVersion, operations>>
        PROVE  WaiterInv'
    BY <1>2 DEF WaitHealthyAfterSuccess, OwnOrLater, CurrentId
  <1>3. CASE WaiterDeploys
    <2> DEFINE deploy == [Request(generateKey, "DeployVersion") EXCEPT
                             !.targetSpec = WaiterSpec, !.approved = TRUE]
    <2>1. /\ Submit(deploy) /\ waiter.phase = "new"
          /\ waiter' = [waiter EXCEPT !.phase = "waiting", !.key = generateKey]
          /\ baseline' = CurrentId
      BY <1>3 DEF WaiterDeploys, CurrentId
    <2>2. generateKey \in SDKKeys /\ generateKey \notin acceptedKeys /\ generateKey # Null
      BY <2>1, KeyIsFresh, ClientsAssumption DEF Submit
    <2>3. UNCHANGED operations /\ CurrentId' = CurrentId
      BY <2>1, SubmitQueues DEF CurrentId
    <2>4. \A i \in DOMAIN operations : operations[i].key # generateKey
      BY <2>2 DEF KeyFlowInv, VersionsInv, KeysInv, OperationsEndLog, KeysOf
    <2> QED
      BY <1>0, <2>1, <2>2, <2>3, <2>4 DEF WaitHealthyAfterSuccess
  <1>4. CASE WaitHealthyAnswers
    <2>1. /\ waiter.phase = "waiting" /\ currentVersion # Null
          /\ waiter' = [waiter EXCEPT !.phase = "healthy", !.version = currentVersion,
                                      !.own = ownStatus]
          /\ UNCHANGED <<vars, baseline>>
      BY <1>4 DEF WaitHealthyAnswers, polledVersion
    <2>2. currentVersion \in Versions /\ currentVersion.versionId = CurrentId
      BY <1>0, <2>1 DEF VersionTypeOK, CurrentId
    <2>3. /\ ownStatus \in {"none", "SUCCEEDED", "FAILED"}
          /\ ownStatus = "SUCCEEDED" => OwnOrLater
      <3> DEFINE own == {i \in DOMAIN operations : operations[i].key = waiter.key}
      <3>1. CASE own = {}
        BY <3>1 DEF ownStatus
      <3>2. CASE own # {}
        <4>1. PICK i \in DOMAIN operations : /\ operations[i].key = waiter.key
                                             /\ ownStatus = operations[i].status
          BY <3>2 DEF ownStatus
        <4> DEFINE Ops == [key : Keys, type : CommandTypes, status : {"SUCCEEDED", "FAILED"}]
        <4>2. operations \in Seq(Ops)
          BY DEF VersionsInv, KeysInv, KeysTypeOK
        <4>3. operations[i] \in Ops
          <5> HIDE DEF Ops
          <5> QED
            BY <4>2
        <4>4. operations[i].status \in {"SUCCEEDED", "FAILED"}
          BY <4>3
        <4> QED
          BY <2>1, <4>1, <4>4
      <3> QED
        BY <3>1, <3>2
    <2>4. CurrentId' = CurrentId
      BY <2>1 DEF vars, actorVars, versionVars, CurrentId
    <2> QED
      BY <2>1, <2>2, <2>3, <2>4 DEF WaitHealthyAfterSuccess, OwnOrLater
  <1>5. CASE WaitHealthyTimesOut
    <2>1. /\ waiter.phase = "waiting" /\ waiter' = [waiter EXCEPT !.phase = "timeout"]
          /\ UNCHANGED <<baseline, currentVersion>>
      BY <1>5 DEF WaitHealthyTimesOut, vars, actorVars, versionVars
    <2> QED
      BY <2>1 DEF WaitHealthyAfterSuccess, OwnOrLater, CurrentId
  <1>6. CASE LoopScales \/ \E command \in OperatorCommands : Submit(command) /\ UNCHANGED clientVars
    BY <1>2, <1>6, SubmitQueues DEF LoopScales, clientVars
  <1>7. CASE LoopPolls \/ LoopGivesUp \/ UNCHANGED sdkVars
    BY <1>2, <1>7 DEF LoopPolls, LoopGivesUp, sdkVars, clientVars, vars, actorVars, versionVars,
                      recordVars
  <1> QED
    BY <1>1, <1>3, <1>4, <1>5, <1>6, <1>7, ClientCases

-----------------------------------------------------------------------------

\* What is on its way, the switch and the waiter agree in every state.
THEOREM ClientsInvariant == SDKSpec => []ClientsInv
  <1>1. SDKInit => ClientsInv
    <2> SUFFICES ASSUME SDKInit
                 PROVE  ClientsInv
      OBVIOUS
    <2>1. RolloutsInv
      BY DEF SDKInit, Init, RolloutsInv
    <2>2. Queued = {} /\ Pending = {}
      BY DEF SDKInit, Init, Queued, Pending
    <2>3. KeyFlowInv
      BY <2>2 DEF SDKInit, Init, KeyFlowInv
    <2>4. SwitchInv
      BY <2>2 DEF SDKInit, Init, SwitchInv, ScaleQueued
    <2>5. WaiterInv
      BY DEF SDKInit, Init, WaiterInv, WaitHealthyAfterSuccess, CurrentId
    <2> QED
      BY <2>1, <2>3, <2>4, <2>5 DEF ClientsInv
  <1>2. SentInv /\ VersionsInv /\ VersionsInv' /\ ClientsInv /\ [SDKNext]_sdkVars => ClientsInv'
    BY ClientStep, RolloutsStep, KeyFlowStep, SwitchStep, WaiterStays DEF ClientsInv
  <1> QED
    BY <1>1, <1>2, SentInvariant, ActorInvariant, PTL DEF SDKSpec

\* The actor runs a scale of the Go loop only if its switch was turned off after the loop
\* had looked: the loop asks while it is on, and the actor refuses while it is on
\* (autoscaler.go:26-28, deployment_actor.go:249-251).
THEOREM GoScaleNeedsASwitchHolds == SDKSpec => []GoScaleNeedsASwitch
  <1>1. ClientsInv => GoScaleNeedsASwitch
    BY DEF ClientsInv, SwitchInv, GoScaleNeedsASwitch
  <1> QED
    BY <1>1, ClientsInvariant, PTL

\* Once the waiter's deploy is recorded as succeeded, WaitHealthy answers with the version
\* that deploy made or with a later one (deployment.go:116-126).
THEOREM WaitHealthyAfterSuccessHolds == SDKSpec => []WaitHealthyAfterSuccess
  <1>1. ClientsInv => WaitHealthyAfterSuccess
    BY DEF ClientsInv, WaiterInv
  <1> QED
    BY <1>1, ClientsInvariant, PTL

\* A scale the loop decided on an old view changes the parallelism of whatever version is
\* current when it runs, and nothing else of it (deployment_actor.go:252-256).
THEOREM LoopScalesKeepTheRestHolds == SDKSpec => LoopScalesKeepTheRest
  <1>1. SentInv /\ VersionsInv /\ ClientsInv /\ [SDKNext]_sdkVars =>
          [(active # Null /\ active.key \in SDKKeys \ {waiter.key}
            /\ currentVersion' # currentVersion /\ pc = "return")
              => currentVersion'.spec = [currentVersion.spec EXCEPT !.parallelism = demand]]_sdkVars
    <2> SUFFICES ASSUME SentInv, VersionsInv, ClientsInv, [SDKNext]_sdkVars, active # Null,
                        active.key \in SDKKeys \ {waiter.key}, pc = "return",
                        currentVersion' # currentVersion
                 PROVE  currentVersion'.spec = [currentVersion.spec EXCEPT !.parallelism = demand]
      OBVIOUS
    <2>1. active.type = "ScaleTo" /\ active.parallelism = demand
      BY DEF ClientsInv, KeyFlowInv, Pending
    <2>2. /\ input.kind = "rollout"
          /\ input.target = [currentVersion.spec EXCEPT !.parallelism = demand]
      BY <2>1 DEF ClientsInv, RolloutsInv
    <2>3. ReturnFromRollout /\ outcome = "ok"
      <3>1. [Next]_vars /\ ~ReceiveStep
        BY ClientStep, Received
      <3> QED
        BY <2>2, <3>1 DEF Next, CompleteStep, SignalWorkflow, ChildStep, ClusterStep,
              ReturnFromRollout, ReturnFromSavepoint, SetJobState, SetJobStateFails,
              ObserveResumed, ObserveResumedFails, RecordAudit, actorVars, versionVars, vars
    <2>4. currentVersion' = result.version /\ result.version.spec = input.target
      BY <2>3, SuccessfulRollout DEF ReturnFromRollout
    <2> QED
      BY <2>2, <2>4
  <1> QED
    BY <1>1, SentInvariant, ActorInvariant, ClientsInvariant, PTL
       DEF SDKSpec, LoopScalesKeepTheRest

=============================================================================
