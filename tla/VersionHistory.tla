-------------------------- MODULE VersionHistory --------------------------
(***************************************************************************)
(* What a deployment actor promises about the versions of its deployment,  *)
(* with signals, child workflows, activities and failures left out: the    *)
(* current version moves only by admitted changes, its id counts them, a   *)
(* rollback returns to a spec that is still recorded and needs no approval *)
(* of its own, and old versions may be forgotten but never the current one.*)
(* DeploymentActor implements this specification.                          *)
(***************************************************************************)
EXTENDS ChangePolicy

CONSTANTS
    Policy,     \* domain.Policy of the deployment
    Specs       \* the specs a command may lead to

VARIABLES
    current,    \* id and spec of the current version, Null at first
    recorded,   \* specs of the versions still recorded
    endorsed    \* history: specs that a command with the approval flag deployed

historyVars == <<current, recorded, endorsed>>

-----------------------------------------------------------------------------

\* A successful rollout of an admitted target.
Promote(target, approved, incident) ==
    /\ Admits(current, target, approved, incident, Policy)
    /\ current' = [versionId |-> IF current = Null THEN 1 ELSE current.versionId + 1,
                   spec      |-> target]
    /\ recorded' = recorded \cup {target}

\* A deploy, or a scale, which deploys the current spec with another parallelism.
DeployChange ==
    \E target \in Specs, approved, incident \in BOOLEAN :
        /\ Promote(target, approved, incident)
        /\ endorsed' = IF approved THEN endorsed \cup {target} ELSE endorsed

\* A rollback to a recorded version counts as approved.
RollbackChange ==
    \E target \in recorded, incident \in BOOLEAN :
        /\ Promote(target, TRUE, incident)
        /\ UNCHANGED endorsed

\* Compaction keeps the newest versions.
Forget ==
    /\ \E kept \in SUBSET recorded :
          /\ current # Null => current.spec \in kept
          /\ recorded' = kept
    /\ UNCHANGED <<current, endorsed>>

HistoryInit ==
    /\ current = Null
    /\ recorded = {}
    /\ endorsed = {}

HistoryNext == DeployChange \/ RollbackChange \/ Forget

HistorySpec == HistoryInit /\ [][HistoryNext]_historyVars

-----------------------------------------------------------------------------
(* Properties.                                                             *)

\* What ClassifyChange looks at; flinkVersion, gitRef and the autoscaler switch
\* are not among it, a change of only those is "no material change".
Material(spec) ==
    <<spec.imageDigest, spec.jobArgs, spec.flinkConfig, spec.parallelism,
      spec.maxParallelism, spec.resources>>

\* Where production approval is required, no sequence of deploys, rescalings and
\* rollbacks ever reaches a version whose material differs from everything that
\* was deployed with approval (change.go:29-81, validate.go:32-34,
\* deployment_actor.go:220-224).
OnlyApprovedMaterial ==
    Policy.requireProdApproval =>
        \A spec \in recorded : \E e \in endorsed : Material(e) = Material(spec)

=============================================================================
