------------------------------ MODULE Rollout ------------------------------
(***************************************************************************)
(* RolloutWorkflow and SavepointWorkflow (workflows/rollout.go,            *)
(* workflows/savepoint.go) and the activities they run against the backend.*)
(* A workflow is sequential code that blocks in one activity after the     *)
(* other; `pc' names the activity it waits for.  Temporal runs an activity *)
(* at least once: an attempt may take effect and lose its answer, may take *)
(* no effect, or may time out while its write is still on its way and      *)
(* lands later.  After a failed attempt Temporal retries, up to            *)
(* MaximumAttempts or the schedule-to-close timeout, and then the workflow *)
(* sees an error.                                                          *)
(*                                                                         *)
(* The cluster is external: `runtime' is the FlinkDeployment resource,     *)
(* `leases' the ids of this deployment's reservations in the lease store.  *)
(***************************************************************************)
EXTENDS ChangePolicy, FiniteSets

CONSTANTS
    Policy,        \* domain.Policy of this deployment
    Healths,       \* health summaries an observation may return
    LeaseIDs,      \* lease ids; each acquire attempt draws a fresh one
    MaxAttempts,   \* RetryPolicy.MaximumAttempts
    FaultKinds     \* what a failed attempt may do: subset of the three below

ASSUME MaxAttemptsAssumption == MaxAttempts \in Nat \ {0}
ASSUME FaultKindsAssumption == FaultKinds \subseteq {"no-effect", "answer-lost", "lands-late"}

VARIABLES
    pc,            \* the activity or the place the workflow is blocked in
    input,         \* RolloutInput, also of a savepoint-only operation
    result,        \* RolloutResult under construction
    outcome,       \* "none" while running, then "ok" or "failed"
    attempts,      \* failed attempts of the current activity
    runtime,       \* the FlinkDeployment, Null before the first apply
    leases,        \* reservations of this deployment in the lease store
    late,          \* writes of timed-out attempts that may still land
    unconfirmed,   \* history: runtime may differ from what was last confirmed
    leaky          \* history: an acquire or release attempt has failed

childVars == <<pc, input, result, outcome, attempts>>
worldVars == <<runtime, leases, late>>
rolloutVars == <<childVars, worldVars, unconfirmed, leaky>>

-----------------------------------------------------------------------------

NoInput == [current |-> Null, target |-> Null, approved |-> FALSE,
            incident |-> FALSE, kind |-> "none"]

EmptyResult == [version |-> Null, savepoint |-> Null, leaseID |-> Null]

RolloutInput(current, target, approved, incident) ==
    [current |-> current, target |-> target, approved |-> approved,
     incident |-> incident, kind |-> "rollout"]

SavepointInput(current) ==
    [NoInput EXCEPT !.current = current, !.kind = "savepoint"]

\* A workflow is started on `in' and blocks in its first activity.
Begin(in) ==
    /\ input' = in
    /\ result' = EmptyResult
    /\ outcome' = "none"
    /\ attempts' = 0
    /\ pc' = IF in.kind = "rollout" THEN "validate" ELSE "trigger"

classification == ClassifyChange(input.current, input.target, Policy)

\* Mutant: forgets that there is a previous version.
alwaysFirstID == 1

\* The id of the version a rollout creates.
nextVersionID == IF input.current = Null THEN 1 ELSE input.current.versionId + 1

\* Mutant: the savepoint is skipped.
afterLeaseUnsaved == "apply"

\* Where the rollout goes once it needs no lease or holds one.
afterLease ==
    IF classification.requiresSavepoint /\ input.current # Null
    THEN "trigger" ELSE "apply"

\* Mutant: no deferred release.
exitWithoutRelease == "return"

\* Leaving the workflow runs the deferred release of a lease it acquired.
exit == IF result.leaseID = Null THEN "return" ELSE "release"

\* The attempt succeeded: go on to the activity `next'.
Proceed(next) == pc' = next /\ attempts' = 0

\* Mutant: the attempts start over.
RetryForever ==
    /\ attempts' = (attempts + 1) % MaxAttempts
    /\ UNCHANGED <<pc, outcome>>

\* Mutant: one attempt too many.
RetryOnceMore ==
    /\ attempts < MaxAttempts
    /\ attempts' = attempts + 1
    /\ UNCHANGED <<pc, outcome>>

\* Temporal retries a failed attempt.  Giving up earlier is always possible: the
\* schedule-to-close timeout leaves room for fewer than MaximumAttempts timeouts.
Retry ==
    /\ attempts + 1 < MaxAttempts
    /\ attempts' = attempts + 1
    /\ UNCHANGED <<pc, outcome>>

\* The workflow's verdict is settled.
Finish(next, verdict) ==
    /\ Proceed(next)
    /\ outcome' = verdict

\* A failed attempt of an activity that writes nothing.
AttemptFails(next, verdict) ==
    /\ FaultKinds # {}
    /\ Retry \/ Finish(next, verdict)

-----------------------------------------------------------------------------
(* Writes to the FlinkDeployment.                                          *)

\* ApplyDeployment is a forced server-side apply: it replaces whatever is there
\* and sets the job to running.
Applied(version, previous) ==
    [version      |-> version,
     savepointURI |-> version.savepointURI,
     mode         |-> upgradeMode(version, previous, input.incident, Policy.gitOpsOnly),
     job          |-> "RUNNING"]

ApplyWrite(version, previous) ==
    [apply |-> Applied(version, previous), job |-> "RUNNING"]

\* SetJobState is a merge patch of spec.job.state.
JobWrite(state) == [apply |-> Null, job |-> state]

Written(write) ==
    IF write.apply # Null THEN write.apply
    ELSE IF runtime = Null THEN Null
    ELSE [runtime EXCEPT !.job = write.job]

\* A write that took effect and was answered.
WriteSucceeds(write) ==
    /\ runtime' = Written(write)
    /\ unconfirmed' = IF write.apply # Null THEN FALSE ELSE unconfirmed
    /\ UNCHANGED late

\* A write attempt that failed; the workflow retries or goes to `next'.
WriteFails(write, next) ==
    /\ \/ "no-effect" \in FaultKinds /\ UNCHANGED <<runtime, late>>
       \/ "answer-lost" \in FaultKinds /\ runtime' = Written(write) /\ UNCHANGED late
       \/ "lands-late" \in FaultKinds /\ late' = late \cup {write} /\ UNCHANGED runtime
    /\ \/ Retry /\ UNCHANGED unconfirmed
       \/ Finish(next, "failed") /\ unconfirmed' = TRUE

-----------------------------------------------------------------------------
(* RolloutWorkflow.                                                        *)

ValidateDeployment ==
    /\ pc = "validate"
    /\ IF Admits(input.current, input.target, input.approved, input.incident, Policy)
       THEN /\ result' = [result EXCEPT !.version = BuildVersion(nextVersionID, input.target)]
            /\ Proceed(IF classification.requiresCapacityLease THEN "acquire" ELSE afterLease)
            /\ UNCHANGED outcome
       ELSE /\ Finish("return", "failed")
            /\ UNCHANGED result
    /\ UNCHANGED <<input, worldVars, unconfirmed, leaky>>

ValidateDeploymentFails ==
    /\ pc = "validate"
    /\ AttemptFails("return", "failed")
    /\ UNCHANGED <<input, result, worldVars, unconfirmed, leaky>>

AcquireCapacityLease ==
    /\ pc = "acquire"
    /\ \E id \in LeaseIDs \ leases :
          /\ leases' = leases \cup {id}
          /\ result' = [result EXCEPT !.leaseID = id]
    /\ Proceed(afterLease)
    /\ UNCHANGED <<input, outcome, runtime, late, unconfirmed, leaky>>

\* The node pool's slot budget is exhausted, by this or by other deployments.  To
\* Temporal this is an error like any other: the next attempt may find room.
CapacityExhausted ==
    /\ pc = "acquire"
    /\ Retry \/ Finish("return", "failed")
    /\ UNCHANGED <<input, result, worldVars, unconfirmed, leaky>>

\* Every attempt draws its own id: an answer that is lost leaves an orphan.
AcquireCapacityLeaseFails ==
    /\ pc = "acquire"
    /\ AttemptFails("return", "failed")
    /\ \/ UNCHANGED leases
       \/ FaultKinds # {"no-effect"} /\ \E id \in LeaseIDs \ leases : leases' = leases \cup {id}
    /\ leaky' = TRUE
    /\ UNCHANGED <<input, result, runtime, late, unconfirmed>>

ApplyDeployment ==
    /\ pc = "apply"
    /\ WriteSucceeds(ApplyWrite(result.version, input.current))
    /\ Proceed("observe")
    /\ UNCHANGED <<input, result, outcome, leases, leaky>>

ApplyDeploymentFails ==
    /\ pc = "apply"
    /\ WriteFails(ApplyWrite(result.version, input.current), exit)
    /\ UNCHANGED <<input, result, leases, leaky>>

\* The health gate: what the rollout does with the summary an observation returned.
HealthGate(health) ==
    /\ IF EvaluateHealth(health, Policy)
       THEN /\ result' = [result EXCEPT !.version.healthy = TRUE]
            /\ Finish(exit, "ok")
       ELSE /\ UNCHANGED result
            /\ IF input.current = Null
               THEN Finish(exit, "failed")
               ELSE Proceed("rollback") /\ UNCHANGED outcome
    /\ UNCHANGED <<input, worldVars, unconfirmed, leaky>>

ObserveDeployment ==
    /\ pc = "observe"
    /\ \E health \in Healths : HealthGate(health)

\* The observation itself fails: the rollout ends without rolling back.
ObserveDeploymentFails ==
    /\ pc = "observe"
    /\ FaultKinds # {}
    /\ \/ Retry /\ UNCHANGED unconfirmed
       \/ Finish(exit, "failed") /\ unconfirmed' = TRUE
    /\ UNCHANGED <<input, result, worldVars, leaky>>

\* Mutant: prefers the savepoint of the version that has just failed, which has none
\* of its own unless its change needed one.
rollbackToItsSavepoint == [input.current EXCEPT !.savepointURI = result.version.savepointURI]

\* Mutant: restores the version that has just failed.
rollbackToFailed == result.version

\* The version restored after a failed health gate.
rollbackVersion ==
    IF input.current.savepointURI = Null /\ result.savepoint # Null
    THEN [input.current EXCEPT !.savepointURI = result.savepoint]
    ELSE input.current

ApplyRollback ==
    /\ pc = "rollback"
    /\ WriteSucceeds(ApplyWrite(rollbackVersion, result.version))
    /\ Finish(exit, "failed")
    /\ UNCHANGED <<input, result, leases, leaky>>

ApplyRollbackFails ==
    /\ pc = "rollback"
    /\ WriteFails(ApplyWrite(rollbackVersion, result.version), exit)
    /\ UNCHANGED <<input, result, leases, leaky>>

\* The deferred release; its error is ignored.
ReleaseCapacityLease ==
    /\ pc = "release"
    /\ leases' = leases \ {result.leaseID}
    /\ Proceed("return")
    /\ UNCHANGED <<input, result, outcome, runtime, late, unconfirmed, leaky>>

ReleaseCapacityLeaseFails ==
    /\ pc = "release"
    /\ AttemptFails("return", outcome)
    /\ \/ UNCHANGED leases
       \/ FaultKinds # {"no-effect"} /\ leases' = leases \ {result.leaseID}
    /\ leaky' = TRUE
    /\ UNCHANGED <<input, result, runtime, late, unconfirmed>>

-----------------------------------------------------------------------------
(* SavepointWorkflow, a child of the rollout or of the actor.              *)

TriggerSavepoint ==
    /\ pc = "trigger"
    /\ Proceed("awaitSavepoint")
    /\ UNCHANGED <<input, result, outcome, worldVars, unconfirmed, leaky>>

\* Mutant: labelled with the version that is about to be deployed.
SavepointRecordOfNext ==
    [deploymentVersion |-> nextVersionID,
     runs              |-> IF runtime = Null THEN 0 ELSE runtime.version.versionId]

\* The record is labelled with the version the caller believes to be running;
\* `runs' is the version the FlinkDeployment really has.
SavepointRecord ==
    [deploymentVersion |-> input.current.versionId,
     runs              |-> IF runtime = Null THEN 0 ELSE runtime.version.versionId]

ObserveSavepoint ==
    /\ pc = "awaitSavepoint"
    /\ IF input.kind = "rollout"
       THEN /\ result' = [result EXCEPT !.savepoint = SavepointRecord,
                                        !.version.savepointURI = SavepointRecord]
            /\ Proceed("apply")
            /\ UNCHANGED outcome
       ELSE /\ result' = [result EXCEPT !.savepoint = SavepointRecord]
            /\ Finish("return", "ok")
    /\ UNCHANGED <<input, worldVars, unconfirmed, leaky>>

\* The trigger is rejected, or the snapshot fails, is abandoned or times out.
SavepointFails ==
    /\ pc \in {"trigger", "awaitSavepoint"}
    /\ Retry \/ Finish(exit, "failed")
    /\ UNCHANGED <<input, result, worldVars, unconfirmed, leaky>>

-----------------------------------------------------------------------------
(* What the cluster does on its own.                                       *)

\* A write of an attempt that Temporal had given up on reaches the API server.
LateWriteLands ==
    /\ \E write \in late :
          /\ late' = late \ {write}
          /\ runtime' = Written(write)
    /\ unconfirmed' = TRUE
    /\ UNCHANGED <<childVars, leases, leaky>>

\* Mutant: a TTL that is shorter than the rollout.
heldTooShort == {}

\* The lease this workflow holds and has not begun to release.
held == IF pc \in {"idle", "return", "release"} THEN {} ELSE {result.leaseID}

\* A reservation passes its 30 minute TTL and is purged.  A running rollout keeps
\* its own: five activities of at most five minutes follow the acquire.
LeaseExpires ==
    /\ \E id \in leases \ held : leases' = leases \ {id}
    /\ UNCHANGED <<childVars, runtime, late, unconfirmed, leaky>>

WorldStep == LateWriteLands \/ LeaseExpires

-----------------------------------------------------------------------------

\* One activity attempt of the rollout or savepoint workflow ends.
WorkflowStep ==
    \/ ValidateDeployment \/ ValidateDeploymentFails
    \/ AcquireCapacityLease \/ CapacityExhausted \/ AcquireCapacityLeaseFails
    \/ TriggerSavepoint \/ ObserveSavepoint \/ SavepointFails
    \/ ApplyDeployment \/ ApplyDeploymentFails
    \/ ObserveDeployment \/ ObserveDeploymentFails
    \/ ApplyRollback \/ ApplyRollbackFails
    \/ ReleaseCapacityLease \/ ReleaseCapacityLeaseFails

-----------------------------------------------------------------------------
(* A rollout on its own: one workflow, started from a settled deployment.  *)

\* The FlinkDeployment that a confirmed rollout of `version' left behind.
Settled(version) ==
    IF version = Null THEN Null
    ELSE [version |-> version, savepointURI |-> version.savepointURI,
          mode |-> IF version.versionId = 1 THEN "stateless" ELSE "savepoint",
          job |-> "RUNNING"]

\* A first rollout may follow first rollouts that failed and left theirs behind.
Before(inputs) ==
    IF input.current # Null THEN {Settled(input.current)}
    ELSE {Null} \cup {Settled(BuildVersion(1, earlier.target)) :
                        earlier \in {i \in inputs : i.target # Null}}

RolloutInit(inputs) ==
    /\ input \in inputs
    /\ pc = IF input.kind = "rollout" THEN "validate" ELSE "trigger"
    /\ result = EmptyResult
    /\ outcome = "none"
    /\ attempts = 0
    /\ runtime \in Before(inputs)
    /\ leases = {}
    /\ late = {}
    /\ unconfirmed = FALSE
    /\ leaky = FALSE

RolloutNext == WorkflowStep \/ WorldStep

\* Every activity attempt ends: it answers or its start-to-close timeout fires.
RolloutFairness == WF_rolloutVars(WorkflowStep)

-----------------------------------------------------------------------------
(* Properties.                                                             *)

running == {"trigger", "awaitSavepoint", "apply", "observe", "rollback"}

\* While a rollout that reshapes the deployment runs, from the savepoint to the
\* end of the health gate and of the rollback, its reservation is in the store: no
\* retry, late answer or early release takes it away (rollout.go:54-69).  That the
\* TTL outlasts the activities is what LeaseExpires assumes.
LeaseCoversRollout ==
    (pc \in running /\ input.kind = "rollout" /\ classification.requiresCapacityLease)
        => result.leaseID \in leases

\* A change that needs a savepoint is never applied without one that this very
\* rollout took of the version it replaces (rollout.go:71-98).
SavepointBeforeStatefulApply ==
    (/\ pc \in {"apply", "observe", "rollback"}
     /\ classification.requiresSavepoint
     /\ input.current # Null)
        => /\ result.version.savepointURI = result.savepoint
           /\ result.savepoint # Null
           /\ result.savepoint.deploymentVersion = input.current.versionId

\* The savepoint a rollout is about to upgrade from was taken of the job its record
\* names, as long as the runtime is confirmed to be what the control plane believes
\* (adapter.go:288-303).
SavepointOfTheNamedVersion ==
    (~unconfirmed /\ pc = "apply" /\ result.savepoint # Null)
        => result.savepoint.runs = result.savepoint.deploymentVersion

\* When a rollout returns and no step of it went unanswered, the FlinkDeployment
\* runs the version the verdict implies: the new one after success, the previous
\* one after any failure, whether it failed before the apply or was rolled back.
VerdictMatchesRuntime ==
    (pc = "return" /\ input.kind = "rollout" /\ ~unconfirmed)
        => /\ outcome = "ok" => runtime.version = [result.version EXCEPT !.healthy = FALSE]
           /\ (outcome = "failed" /\ input.current # Null)
                 => /\ runtime.version.versionId = input.current.versionId
                    /\ runtime.version.spec = input.current.spec

\* Unless something went unanswered, a failed rollout leaves the previous version with
\* a savepoint to start from whenever one is known, and never with one of a later
\* version: the rollback keeps the savepoint the version was started from and falls
\* back to the one this rollout took (rollout.go:114-117).
RollbackKeepsState ==
    (/\ pc = "return" /\ input.kind = "rollout" /\ outcome = "failed" /\ ~unconfirmed
     /\ input.current # Null
     /\ input.current.savepointURI # Null \/ result.savepoint # Null)
        => /\ runtime.savepointURI # Null
           /\ runtime.savepointURI.deploymentVersion <= input.current.versionId
           /\ runtime.savepointURI.runs <= input.current.versionId

\* A finished rollout leaves no reservation behind unless an acquire or a release
\* attempt failed: every exit after the acquire passes the deferred release.
NoLeaseLeft == (pc = "return" /\ ~leaky) => leases = {}

\* Whatever fails, the workflow ends: each activity has a bounded number of
\* attempts and no error path loops (options.go:17-30).
RolloutEnds == <>(pc = "return")

=============================================================================
