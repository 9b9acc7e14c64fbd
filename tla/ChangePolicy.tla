---------------------------- MODULE ChangePolicy ----------------------------
(***************************************************************************)
(* The pure decision functions of the control plane: how a change from the *)
(* current version to a target spec is classified (domain/change.go), which*)
(* targets the backend admits (activities/validate.go), when an observed   *)
(* deployment passes the health gate (domain/change.go), and which upgrade *)
(* strategy an apply asks the Flink operator for (kubernetes/flink.go).    *)
(*                                                                         *)
(* A DeploymentSpec is a record.  Image digests, job arguments and Flink   *)
(* configurations are opaque values compared for equality; of an image     *)
(* reference only "is it digest-pinned" matters, so the pinned ones form a *)
(* set.  Hashes, timestamps and error texts are left out.                  *)
(***************************************************************************)
EXTENDS Integers

CONSTANTS
    Null,           \* nil pointer / empty URI
    PinnedImages    \* image references that contain "@sha256:"

-----------------------------------------------------------------------------

\* domain.ResourceShape.Slots.
Slots(resources) == resources.taskManagerCount * resources.slotsPerManager

\* domain.DefaultPolicy; the ratio is in percent.
DefaultPolicy(isProd) ==
    [requireProdApproval      |-> isProd,
     gitOpsOnly               |-> isProd,
     allowIncidentDirectPatch |-> TRUE,
     requireRiskySavepoint    |-> TRUE,
     requireFirstCheckpoint   |-> TRUE,
     requireHealthySink       |-> TRUE,
     maxRestartCount          |-> 3,
     maxBackpressureRatio     |-> 75,
     maxKafkaLag              |-> 1000000]

\* domain.BuildVersion: a version that has not been applied or observed yet.
BuildVersion(id, spec) ==
    [versionId |-> id, spec |-> spec, savepointURI |-> Null, healthy |-> FALSE]

-----------------------------------------------------------------------------
(* domain.ClassifyChange.                                                  *)

Classification(risk, savepoint, approval, lease) ==
    [risk                  |-> risk,
     requiresSavepoint     |-> savepoint,
     requiresApproval      |-> approval,
     requiresCapacityLease |-> lease]

\* Mutant: compares with the old parallelism instead of the old key groups.
LosesKeyGroupsByParallelism(current, target) ==
    /\ target.maxParallelism < current.spec.parallelism
    /\ current.versionId > 0
    /\ ~target.freshStartApproved

\* Keyed state cannot be rescaled below the old number of key groups.
LosesKeyGroups(current, target) ==
    /\ target.maxParallelism < current.spec.maxParallelism
    /\ current.versionId > 0
    /\ ~target.freshStartApproved

\* The author of the target declares that its state may not restore.
StateAtRisk(target) ==
    \/ ~target.jobGraphCompatible
    \/ ~target.operatorUIDsStable
    \/ target.allowNonRestored

ArgumentsChange(old, target) ==
    \/ old.jobArgs # target.jobArgs
    \/ old.maxParallelism # target.maxParallelism

ShapeChanges(old, target) ==
    \/ old.parallelism # target.parallelism
    \/ old.resources # target.resources

\* Mutant: a new image alone is no change.
ConfigChanges(old, target) == old.flinkConfig # target.flinkConfig

BinaryChanges(old, target) ==
    \/ old.imageDigest # target.imageDigest
    \/ old.flinkConfig # target.flinkConfig

ClassifyChange(current, target, policy) ==
    IF current = Null THEN
        Classification("SAFE_LAST_STATE", FALSE, policy.requireProdApproval,
                       Slots(target.resources) > 0)
    ELSE IF LosesKeyGroups(current, target) THEN
        Classification("REJECTED", FALSE, TRUE, FALSE)
    ELSE IF StateAtRisk(target) THEN
        Classification("STATEFUL", TRUE, TRUE,
                       current.spec.resources # target.resources)
    ELSE IF ArgumentsChange(current.spec, target) THEN
        Classification("STATEFUL", policy.requireRiskySavepoint,
                       policy.requireProdApproval,
                       current.spec.resources # target.resources)
    ELSE IF ShapeChanges(current.spec, target) THEN
        Classification("SAFE_LAST_STATE", FALSE, policy.requireProdApproval, TRUE)
    ELSE IF BinaryChanges(current.spec, target) THEN
        Classification("SAFE_LAST_STATE", FALSE, policy.requireProdApproval, FALSE)
    ELSE
        Classification("NONE", FALSE, FALSE, FALSE)

-----------------------------------------------------------------------------

\* Mutant: lets a rejected change through.
ValidateSpecRejectingNothing(target, classification, approved, incident, policy) ==
    /\ target.imageDigest \in PinnedImages
    /\ 0 < target.parallelism /\ target.parallelism <= target.maxParallelism
    /\ classification.requiresApproval => approved

\* activities.ValidateSpec: TRUE when it returns no error.
ValidateSpec(target, classification, approved, incident, policy) ==
    /\ target.imageDigest \in PinnedImages
    /\ target.parallelism > 0 /\ target.maxParallelism > 0
    /\ target.parallelism <= target.maxParallelism
    /\ classification.risk # "REJECTED"
    /\ classification.requiresApproval => approved
    /\ ~(policy.gitOpsOnly /\ incident /\ ~policy.allowIncidentDirectPatch)

\* domain.EvaluateHealth: TRUE when it returns no error.
EvaluateHealth(summary, policy) ==
    /\ summary.running
    /\ policy.requireFirstCheckpoint => summary.checkpointCompleted
    /\ policy.requireHealthySink => summary.sinkHealthy
    /\ summary.restartCount <= policy.maxRestartCount
    /\ summary.backpressureRatio <= policy.maxBackpressureRatio
    /\ summary.kafkaLag <= policy.maxKafkaLag

\* kubernetes.upgradeMode: how the operator carries state over to `version`.
upgradeMode(version, previous, incident, gitOpsOnly) ==
    IF previous = Null \/ version.spec.freshStartApproved THEN "stateless"
    ELSE IF incident /\ ~gitOpsOnly THEN "last-state"
    ELSE "savepoint"

\* The decision a rollout takes on a target: classify, then validate.
Admits(current, target, approved, incident, policy) ==
    ValidateSpec(target, ClassifyChange(current, target, policy),
                 approved, incident, policy)

=============================================================================
