--------------------------- MODULE RolloutProofs ---------------------------
(***************************************************************************)
(* What a rollout leaves behind, for every set of inputs, policy, number of*)
(* attempts and kind of fault, and whatever the operator reports; and that *)
(* the polling loop implements the observation of module Rollout.          *)
(***************************************************************************)
EXTENDS ObservedRollout, TLAPS

PCs == {"validate", "acquire", "trigger", "awaitSavepoint", "apply", "observe", "rollback",
        "release", "return"}

Results == [version : InputVersions \cup {Null}, savepoint : Records \cup {Null},
            leaseID : LeaseIDs \cup {Null}]

Applies == [apply : Resources, job : {"RUNNING"}]

ChildTypeInv ==
    /\ input \in Inputs
    /\ pc \in PCs
    /\ result \in Results
    /\ outcome \in {"none", "ok", "failed"}

WorldTypeInv ==
    /\ runtime \in Resources \cup {Null}
    /\ leases \subseteq LeaseIDs
    /\ late \subseteq Applies
    /\ unconfirmed \in BOOLEAN
    /\ leaky \in BOOLEAN

\* What the workflow knows at each place.
PlaceInv ==
    /\ input.kind = "savepoint" => /\ pc \in {"trigger", "awaitSavepoint", "return"}
                                   /\ result.leaseID = Null
    /\ pc \in {"trigger", "awaitSavepoint", "rollback"} => input.current # Null
    /\ (input.kind = "rollout" /\ pc \notin {"validate", "release", "return"}) =>
          result.version # Null /\ ~result.version.healthy
    /\ pc \notin {"release", "return"} => outcome = "none"
    /\ pc = "observe" => runtime # Null
    /\ result.savepoint # Null =>
          /\ input.current # Null
          /\ result.savepoint.deploymentVersion = input.current.versionId
          /\ result.savepoint.runs = input.current.versionId

\* Before the apply the rollout has written nothing.
Intact ==
    /\ result.savepoint = Null
    /\ late = {} /\ ~unconfirmed
    /\ input.current # Null => /\ runtime # Null
                               /\ runtime.version = input.current
                               /\ runtime.savepointURI = input.current.savepointURI

\* What an apply of the previous version leaves.
Restored ==
    /\ runtime # Null
    /\ runtime.version.versionId = input.current.versionId
    /\ runtime.version.spec = input.current.spec
    /\ (input.current.savepointURI # Null \/ result.savepoint # Null) =>
          /\ runtime.savepointURI # Null
          /\ runtime.savepointURI.deploymentVersion <= input.current.versionId
          /\ runtime.savepointURI.runs <= input.current.versionId

\* What is deployed when nothing went unanswered.
DeployedInv ==
    /\ pc \in {"validate", "acquire", "trigger", "awaitSavepoint"} => Intact
    /\ ~unconfirmed =>
          /\ pc = "observe" => runtime.version = result.version
          /\ (pc \in {"release", "return"} /\ input.kind = "rollout") =>
                /\ outcome = "ok" => runtime.version = [result.version EXCEPT !.healthy = FALSE]
                /\ (outcome = "failed" /\ input.current # Null) => Restored

\* What is reserved is what the workflow holds, unless an attempt failed.
LeaseInv ==
    /\ pc \in {"validate", "acquire"} => result.leaseID = Null
    /\ ~leaky => leases \subseteq {result.leaseID} \ {Null}
    /\ (pc = "return" /\ ~leaky) => leases = {}

\* A rollout has what its change needs before it goes on.
Covered == LeaseCoversRollout /\ SavepointBeforeStatefulApply

RolloutInv == ChildTypeInv /\ WorldTypeInv /\ PlaceInv /\ DeployedInv /\ LeaseInv

\* The resource has been seen once it exists, and what passed the gate was reported.
ObservationInv ==
    /\ reported \in Reports \cup {Null}
    /\ cached \in Reports \cup {Null}
    /\ runtime # Null => reported # Null
    /\ (outcome = "ok" /\ input.kind = "rollout") =>
          judged # Null /\ EvaluateHealth(observedHealth(judged.status), Policy)

-----------------------------------------------------------------------------
(* Values.                                                                 *)

\* The version a rollout builds, the one it rolls back to and the resource an apply
\* writes are of their types.
LEMMA NewVersionType ==
    ASSUME ChildTypeInv
    PROVE  /\ BuildVersion(nextVersionID, input.target) \in InputVersions
           /\ ~BuildVersion(nextVersionID, input.target).healthy
  <1>1. input.target \in InputSpecs
    BY DEF ChildTypeInv, InputSpecs
  <1>2. nextVersionID \in Nat
    BY InputsAssumption DEF ChildTypeInv, nextVersionID, InputVersions
  <1> QED
    BY <1>1, <1>2 DEF BuildVersion, InputVersions

LEMMA AppliedType ==
    ASSUME NEW version \in InputVersions, NEW previous
    PROVE  /\ Applied(version, previous) \in Resources
           /\ Applied(version, previous).version = version
           /\ Applied(version, previous).savepointURI = version.savepointURI
           /\ ApplyWrite(version, previous) \in Applies
           /\ ApplyWrite(version, previous).apply = Applied(version, previous)
           /\ Written(ApplyWrite(version, previous)) = Applied(version, previous)
           /\ Applied(version, previous) # Null
  <1>1. upgradeMode(version, previous, input.incident, Policy.gitOpsOnly)
           \in {"stateless", "last-state", "savepoint"}
    BY DEF upgradeMode
  <1>2. Applied(version, previous) \in Resources
    BY <1>1 DEF Applied, Resources, InputVersions
  <1>3. Applied(version, previous) # Null
    BY <1>2, AbsenceAssumption
  <1> QED
    BY <1>2, <1>3 DEF Applied, ApplyWrite, Applies, Written

LEMMA RollbackType ==
    ASSUME ChildTypeInv, input.current # Null
    PROVE  /\ rollbackVersion \in InputVersions
           /\ rollbackVersion.versionId = input.current.versionId
           /\ rollbackVersion.spec = input.current.spec
           /\ rollbackVersion.savepointURI = IF input.current.savepointURI # Null
                                             THEN input.current.savepointURI
                                             ELSE result.savepoint
  <1>1. input.current \in InputVersions /\ result.savepoint \in Records \cup {Null}
    BY InputsAssumption DEF ChildTypeInv, Results
  <1> QED
    BY <1>1 DEF rollbackVersion, InputVersions

-----------------------------------------------------------------------------
(* Steps of the workflow.                                                  *)

\* An observation that ends without a verdict, however it ends.
Unanswered ==
    /\ pc = "observe"
    /\ \/ Retry /\ UNCHANGED unconfirmed
       \/ Finish(exit, "failed") /\ unconfirmed' = TRUE
    /\ UNCHANGED <<input, result, worldVars, leaky>>

\* The reservation: taken at most once, and released on the way out.
LEMMA LeaseStep ==
    ASSUME RolloutInv, RolloutNext \/ Unanswered
    PROVE  LeaseInv'
  <1> USE DEF LeaseInv, PCs
  <1>0. /\ LeaseInv
        /\ result \in Results /\ pc \in PCs /\ leases \subseteq LeaseIDs /\ leaky \in BOOLEAN
        /\ Null \notin LeaseIDs
        /\ pc \notin {"trigger", "awaitSavepoint", "return"} => input.kind = "rollout"
        /\ input.kind = "savepoint" => result.leaseID = Null
        /\ input.kind \in {"rollout", "savepoint"}
    BY AbsenceAssumption, InputsAssumption
       DEF RolloutInv, ChildTypeInv, WorldTypeInv, PlaceInv
  <1>1. afterLease \in {"trigger", "apply"} /\ exit \in {"return", "release"}
        /\ (exit = "return" => result.leaseID = Null)
    BY DEF afterLease, exit
  <1>2. CASE ValidateDeployment
    <2>1. result'.leaseID = result.leaseID
      BY <1>0, <1>2 DEF ValidateDeployment, Results
    <2> QED
      BY <1>0, <1>1, <1>2, <2>1 DEF ValidateDeployment, Finish, Proceed, worldVars
  <1>3. CASE ValidateDeploymentFails \/ CapacityExhausted
    BY <1>0, <1>3 DEF ValidateDeploymentFails, CapacityExhausted, AttemptFails, Retry, Finish,
          Proceed, worldVars
  <1>4. CASE AcquireCapacityLease
    <2>1. PICK id \in LeaseIDs \ leases :
             leases' = leases \cup {id} /\ result' = [result EXCEPT !.leaseID = id]
      BY <1>4 DEF AcquireCapacityLease
    <2>2. result'.leaseID = id
      BY <1>0, <2>1 DEF Results
    <2> QED
      BY <1>0, <1>1, <1>4, <2>1, <2>2 DEF AcquireCapacityLease, Proceed
  <1>5. CASE AcquireCapacityLeaseFails
    BY <1>0, <1>5 DEF AcquireCapacityLeaseFails, AttemptFails, Retry, Finish, Proceed
  <1>6. CASE TriggerSavepoint \/ SavepointFails
    BY <1>0, <1>1, <1>6 DEF TriggerSavepoint, SavepointFails, Retry, Finish, Proceed, worldVars
  <1>7. CASE ObserveSavepoint
    <2>1. result'.leaseID = result.leaseID
      BY <1>0, <1>7 DEF ObserveSavepoint, Results
    <2> QED
      BY <1>0, <1>7, <2>1 DEF ObserveSavepoint, Finish, Proceed, worldVars
  <1>8. CASE ApplyDeployment \/ ApplyDeploymentFails
    BY <1>0, <1>1, <1>8 DEF ApplyDeployment, ApplyDeploymentFails, WriteFails, Retry, Finish, Proceed
  <1>9. CASE ObserveDeployment
    <2>1. PICK health \in Healths : HealthGate(health)
      BY <1>9 DEF ObserveDeployment
    <2>2. result'.leaseID = result.leaseID
      BY <1>0, <2>1 DEF HealthGate, Results
    <2> QED
      BY <1>0, <1>1, <1>9, <2>1, <2>2 DEF ObserveDeployment, HealthGate, Finish, Proceed, worldVars
  <1>10. CASE ObserveDeploymentFails \/ Unanswered
    BY <1>0, <1>1, <1>10 DEF ObserveDeploymentFails, Unanswered, Retry, Finish, Proceed, worldVars
  <1>11. CASE ApplyRollback \/ ApplyRollbackFails
    BY <1>0, <1>1, <1>11 DEF ApplyRollback, ApplyRollbackFails, WriteFails, Retry, Finish, Proceed
  <1>12. CASE ReleaseCapacityLease \/ ReleaseCapacityLeaseFails
    BY <1>0, <1>12 DEF ReleaseCapacityLease, ReleaseCapacityLeaseFails, AttemptFails, Retry,
          Finish, Proceed
  <1>13. CASE WorldStep
    BY <1>0, <1>13 DEF WorldStep, LateWriteLands, LeaseExpires, held, childVars
  <1> QED
    BY <1>2, <1>3, <1>4, <1>5, <1>6, <1>7, <1>8, <1>9, <1>10, <1>11, <1>12, <1>13
       DEF RolloutNext, WorkflowStep

\* A step before the apply writes nothing; a savepoint is one of the version that runs.
LEMMA BeforeApplyStep ==
    ASSUME RolloutInv,
           \/ ValidateDeployment \/ ValidateDeploymentFails
           \/ AcquireCapacityLease \/ CapacityExhausted \/ AcquireCapacityLeaseFails
           \/ TriggerSavepoint \/ ObserveSavepoint \/ SavepointFails
    PROVE  ChildTypeInv' /\ WorldTypeInv' /\ PlaceInv' /\ DeployedInv'
  <1> USE DEF PCs
  <1>0. /\ ChildTypeInv /\ WorldTypeInv /\ PlaceInv
        /\ input \in Inputs /\ result \in Results /\ input.kind \in {"rollout", "savepoint"}
        /\ input.current \in InputVersions \cup {Null}
        /\ \A in \in Inputs : in.kind = "savepoint" => in.current # Null
    BY InputsAssumption DEF RolloutInv, ChildTypeInv
  <1>1. /\ pc \in {"validate", "acquire", "trigger", "awaitSavepoint"}
        /\ Intact /\ outcome = "none"
        /\ UNCHANGED <<input, runtime, late, unconfirmed>>
    BY DEF RolloutInv, DeployedInv, PlaceInv, ValidateDeployment, ValidateDeploymentFails,
           AcquireCapacityLease, CapacityExhausted, AcquireCapacityLeaseFails, TriggerSavepoint,
           ObserveSavepoint, SavepointFails, worldVars
  <1>2. (input.current # Null /\ input.current.savepointURI # Null) =>
           /\ input.current.savepointURI.deploymentVersion <= input.current.versionId
           /\ input.current.savepointURI.runs <= input.current.versionId
    BY <1>0, InputsAssumption
  <1>3. (input.current # Null) => Restored
    BY <1>1, <1>2 DEF Intact, Restored
  <1>4. /\ afterLease \in {"trigger", "apply"} /\ exit \in {"return", "release"}
        /\ afterLease = "trigger" => input.current # Null
    BY DEF afterLease, exit
  <1>5. leases' \subseteq LeaseIDs /\ leaky' \in BOOLEAN
    BY <1>0 DEF WorldTypeInv, ValidateDeployment, ValidateDeploymentFails, AcquireCapacityLease,
          CapacityExhausted, AcquireCapacityLeaseFails, TriggerSavepoint, ObserveSavepoint,
          SavepointFails, worldVars
  <1>6. WorldTypeInv'
    BY <1>0, <1>1, <1>5 DEF WorldTypeInv
  <1>7. ASSUME UNCHANGED result,
               \/ pc' = pc /\ outcome' = outcome
               \/ pc' \in {"release", "return"} /\ outcome' = "failed"
                  /\ (pc' = "release" => input.kind = "rollout")
               \/ pc = "trigger" /\ pc' = "awaitSavepoint" /\ outcome' = outcome
        PROVE  ChildTypeInv' /\ PlaceInv' /\ DeployedInv'
    <2>1. ChildTypeInv'
      BY <1>0, <1>1, <1>7 DEF ChildTypeInv
    <2>2. PlaceInv'
      BY <1>0, <1>1, <1>7 DEF PlaceInv
    <2>3. Intact' /\ (input.current # Null => Restored')
      BY <1>1, <1>3, <1>7 DEF Intact, Restored
    <2>4. DeployedInv'
      BY <1>1, <1>7, <2>3 DEF DeployedInv
    <2> QED
      BY <2>1, <2>2, <2>4
  <1>8. CASE ValidateDeployment
    <2>1. CASE Admits(input.current, input.target, input.approved, input.incident, Policy)
      <3> DEFINE version == BuildVersion(nextVersionID, input.target)
      <3>1. version \in InputVersions /\ ~version.healthy /\ version # Null
        BY <1>0, NewVersionType, AbsenceAssumption
      <3> HIDE DEF version
      <3>2. result' = [result EXCEPT !.version = version]
            /\ outcome' = outcome /\ pc = "validate"
            /\ pc' \in {"acquire", "trigger", "apply"}
            /\ (pc' = "trigger" => input.current # Null)
        BY <1>4, <1>8, <2>1 DEF ValidateDeployment, Proceed, version
      <3>3. /\ result' \in Results /\ result'.version = version
            /\ result'.savepoint = result.savepoint
        BY <1>0, <3>1, <3>2 DEF Results
      <3>4. ChildTypeInv'
        BY <1>0, <1>1, <3>2, <3>3 DEF ChildTypeInv
      <3>5. PlaceInv'
        BY <1>0, <1>1, <3>1, <3>2, <3>3 DEF PlaceInv
      <3>6. DeployedInv'
        BY <1>1, <3>2, <3>3 DEF DeployedInv, Intact
      <3> QED
        BY <1>6, <3>4, <3>5, <3>6
    <2>2. CASE ~Admits(input.current, input.target, input.approved, input.incident, Policy)
      BY <1>6, <1>7, <1>8, <2>2 DEF ValidateDeployment, Finish, Proceed
    <2> QED
      BY <2>1, <2>2
  <1>9. CASE ValidateDeploymentFails \/ CapacityExhausted \/ AcquireCapacityLeaseFails
    BY <1>6, <1>7, <1>9 DEF ValidateDeploymentFails, CapacityExhausted, AcquireCapacityLeaseFails,
          AttemptFails, Retry, Finish, Proceed
  <1>10. CASE AcquireCapacityLease
    <2>1. PICK id \in LeaseIDs : result' = [result EXCEPT !.leaseID = id]
      BY <1>10 DEF AcquireCapacityLease
    <2>2. /\ result' \in Results /\ result'.version = result.version
          /\ result'.savepoint = result.savepoint
      BY <1>0, <2>1 DEF Results
    <2>3. /\ pc = "acquire" /\ pc' \in {"trigger", "apply"} /\ outcome' = outcome
          /\ pc' = "trigger" => input.current # Null
      BY <1>4, <1>10 DEF AcquireCapacityLease, Proceed
    <2>4. ChildTypeInv'
      BY <1>0, <1>1, <2>2, <2>3 DEF ChildTypeInv
    <2>5. PlaceInv'
      BY <1>0, <1>1, <2>2, <2>3 DEF PlaceInv
    <2>6. DeployedInv'
      BY <1>1, <2>2, <2>3 DEF DeployedInv, Intact
    <2> QED
      BY <1>6, <2>4, <2>5, <2>6
  <1>11. CASE TriggerSavepoint
    BY <1>6, <1>7, <1>11 DEF TriggerSavepoint, Proceed
  <1>12. CASE SavepointFails
    <2>1. exit = "release" => input.kind = "rollout"
      BY <1>0 DEF exit, PlaceInv
    <2> QED
      BY <1>4, <1>6, <1>7, <1>12, <2>1 DEF SavepointFails, Retry, Finish, Proceed
  <1>13. CASE ObserveSavepoint
    <2>1. pc = "awaitSavepoint" /\ input.current # Null /\ input.current \in InputVersions
      BY <1>0, <1>13 DEF ObserveSavepoint, PlaceInv
    <2>2. /\ SavepointRecord \in Records /\ SavepointRecord # Null
          /\ SavepointRecord.deploymentVersion = input.current.versionId
          /\ SavepointRecord.runs = input.current.versionId
      BY <1>1, <2>1, AbsenceAssumption DEF SavepointRecord, Records, Intact, InputVersions
    <2>3. CASE input.kind = "rollout"
      <3>1. result.version \in InputVersions /\ ~result.version.healthy
        BY <1>0, <2>1, <2>3 DEF PlaceInv, Results
      <3>2. /\ result' = [result EXCEPT !.savepoint = SavepointRecord,
                                        !.version.savepointURI = SavepointRecord]
            /\ pc' = "apply" /\ outcome' = outcome
        BY <1>13, <2>3 DEF ObserveSavepoint, Proceed
      <3>3. /\ result'.version = [result.version EXCEPT !.savepointURI = SavepointRecord]
            /\ result'.savepoint = SavepointRecord /\ result'.leaseID = result.leaseID
        BY <1>0, <3>2 DEF Results
      <3>4. result'.version \in InputVersions /\ ~result'.version.healthy
        BY <2>2, <3>1, <3>3 DEF InputVersions
      <3>5. result' \in Results
        BY <1>0, <2>2, <3>2, <3>3, <3>4 DEF Results
      <3>6. ChildTypeInv'
        BY <1>0, <1>1, <3>2, <3>5 DEF ChildTypeInv
      <3>7. PlaceInv'
        BY <1>1, <2>1, <2>2, <2>3, <3>2, <3>3, <3>4, AbsenceAssumption DEF PlaceInv
      <3>8. DeployedInv'
        BY <3>2 DEF DeployedInv
      <3> QED
        BY <1>6, <3>6, <3>7, <3>8
    <2>4. CASE input.kind = "savepoint"
      <3>1. /\ result' = [result EXCEPT !.savepoint = SavepointRecord]
            /\ pc' = "return" /\ outcome' = "ok"
        BY <1>13, <2>4 DEF ObserveSavepoint, Finish, Proceed
      <3>2. /\ result' \in Results /\ result'.leaseID = result.leaseID
            /\ result'.savepoint = SavepointRecord
        BY <1>0, <2>2, <3>1 DEF Results
      <3>3. ChildTypeInv'
        BY <1>0, <1>1, <3>1, <3>2 DEF ChildTypeInv
      <3>4. PlaceInv'
        BY <1>0, <1>1, <2>1, <2>2, <2>4, <3>1, <3>2 DEF PlaceInv
      <3>5. DeployedInv'
        BY <1>1, <2>4, <3>1 DEF DeployedInv
      <3> QED
        BY <1>6, <3>3, <3>4, <3>5
    <2> QED
      BY <1>0, <2>3, <2>4
  <1> QED
    BY <1>8, <1>9, <1>10, <1>11, <1>12, <1>13

\* The apply, the observation and what follows them: a write is remembered as unconfirmed
\* unless it was answered, and the verdict goes with what was written last.
LEMMA AfterApplyStep ==
    ASSUME RolloutInv,
           \/ ApplyDeployment \/ ApplyDeploymentFails
           \/ ObserveDeployment \/ ObserveDeploymentFails \/ Unanswered
           \/ ApplyRollback \/ ApplyRollbackFails
           \/ ReleaseCapacityLease \/ ReleaseCapacityLeaseFails
    PROVE  ChildTypeInv' /\ WorldTypeInv' /\ PlaceInv' /\ DeployedInv'
  <1> USE DEF PCs
  <1>0. /\ ChildTypeInv /\ WorldTypeInv /\ PlaceInv /\ DeployedInv
        /\ input \in Inputs /\ result \in Results /\ input.kind \in {"rollout", "savepoint"}
        /\ input.current \in InputVersions \cup {Null}
    BY InputsAssumption DEF RolloutInv, ChildTypeInv
  <1>1. /\ pc \in {"apply", "observe", "rollback", "release"} /\ input' = input
        /\ input.kind = "rollout"
        /\ pc # "release" => outcome = "none"
        /\ pc # "release" => result.version \in InputVersions /\ ~result.version.healthy
    BY <1>0 DEF PlaceInv, ApplyDeployment, ApplyDeploymentFails, ObserveDeployment, HealthGate,
          ObserveDeploymentFails, Unanswered, ApplyRollback, ApplyRollbackFails,
          ReleaseCapacityLease, ReleaseCapacityLeaseFails, Results
  <1>2. exit \in {"return", "release"}
    BY DEF exit
  <1>3. leases' \subseteq LeaseIDs /\ leaky' \in BOOLEAN
    BY <1>0 DEF WorldTypeInv, ApplyDeployment, ApplyDeploymentFails, ObserveDeployment, HealthGate,
          ObserveDeploymentFails, Unanswered, ApplyRollback, ApplyRollbackFails,
          ReleaseCapacityLease, ReleaseCapacityLeaseFails, worldVars
  <1>4. ASSUME NEW version \in InputVersions, NEW previous,
               \/ WriteSucceeds(ApplyWrite(version, previous))
               \/ WriteFails(ApplyWrite(version, previous), exit)
        PROVE  WorldTypeInv' /\ (runtime # Null => runtime' # Null)
    <2>1. /\ ApplyWrite(version, previous) \in Applies
          /\ Written(ApplyWrite(version, previous)) \in Resources
          /\ Written(ApplyWrite(version, previous)) # Null
      BY AppliedType
    <2> QED
      BY <1>0, <1>3, <1>4, <2>1 DEF WorldTypeInv, WriteSucceeds, WriteFails
  <1>5. ASSUME UNCHANGED result, pc' = pc, outcome' = outcome, pc # "release",
               UNCHANGED unconfirmed, pc = "observe" => UNCHANGED runtime
        PROVE  ChildTypeInv' /\ PlaceInv' /\ DeployedInv'
    BY <1>0, <1>1, <1>5 DEF ChildTypeInv, PlaceInv, DeployedInv
  <1>6. ASSUME UNCHANGED result, pc' \in {"return", "release"}, outcome' = "failed",
               unconfirmed' \/ (input.current # Null => Restored')
        PROVE  ChildTypeInv' /\ PlaceInv' /\ DeployedInv'
    BY <1>0, <1>1, <1>6 DEF ChildTypeInv, PlaceInv, DeployedInv
  <1>7. CASE ApplyDeployment
    <2>1. /\ WriteSucceeds(ApplyWrite(result.version, input.current)) /\ pc = "apply"
          /\ pc' = "observe" /\ UNCHANGED <<result, outcome>>
      BY <1>7 DEF ApplyDeployment, Proceed
    <2>2. runtime' # Null /\ runtime'.version = result.version
      BY <1>1, <2>1, AppliedType DEF WriteSucceeds
    <2>3. ChildTypeInv' /\ PlaceInv' /\ DeployedInv'
      BY <1>0, <1>1, <2>1, <2>2 DEF ChildTypeInv, PlaceInv, DeployedInv
    <2> QED
      BY <1>1, <1>4, <2>1, <2>3
  <1>8. CASE ApplyDeploymentFails
    <2>1. WriteFails(ApplyWrite(result.version, input.current), exit) /\ pc = "apply"
          /\ UNCHANGED result
      BY <1>8 DEF ApplyDeploymentFails
    <2>2. CASE Retry /\ UNCHANGED unconfirmed
      BY <1>1, <1>4, <1>5, <2>1, <2>2 DEF Retry
    <2>3. CASE Finish(exit, "failed") /\ unconfirmed' = TRUE
      BY <1>1, <1>2, <1>4, <1>6, <2>1, <2>3 DEF Finish, Proceed
    <2> QED
      BY <2>1, <2>2, <2>3 DEF WriteFails
  <1>9. CASE ObserveDeployment
    <2>1. PICK health \in Healths : HealthGate(health)
      BY <1>9 DEF ObserveDeployment
    <2>2. pc = "observe" /\ UNCHANGED <<worldVars, unconfirmed, leaky>>
      BY <1>9, <2>1 DEF ObserveDeployment, HealthGate
    <2>3. WorldTypeInv'
      BY <1>0, <2>2 DEF WorldTypeInv, worldVars
    <2>4. CASE EvaluateHealth(health, Policy)
      <3>1. /\ result' = [result EXCEPT !.version.healthy = TRUE]
            /\ pc' \in {"return", "release"} /\ outcome' = "ok"
        BY <1>2, <2>1, <2>4 DEF HealthGate, Finish, Proceed
      <3>2. /\ result'.version = [result.version EXCEPT !.healthy = TRUE]
            /\ result'.savepoint = result.savepoint /\ result'.leaseID = result.leaseID
        BY <1>0, <3>1 DEF Results
      <3>3. /\ result'.version \in InputVersions
            /\ [result'.version EXCEPT !.healthy = FALSE] = result.version
        BY <1>1, <2>2, <3>2 DEF InputVersions
      <3>4. result' \in Results
        BY <1>0, <3>1, <3>2, <3>3 DEF Results
      <3>5. ChildTypeInv'
        BY <1>0, <1>1, <3>1, <3>4 DEF ChildTypeInv
      <3>6. PlaceInv'
        BY <1>0, <1>1, <3>1, <3>2 DEF PlaceInv
      <3>7. DeployedInv'
        BY <1>0, <1>1, <2>2, <3>1, <3>3 DEF DeployedInv, worldVars
      <3> QED
        BY <2>3, <3>5, <3>6, <3>7
    <2>5. CASE ~EvaluateHealth(health, Policy)
      <3>1. CASE input.current = Null
        BY <1>2, <1>6, <2>1, <2>3, <2>5, <3>1 DEF HealthGate, Finish, Proceed
      <3>2. CASE input.current # Null
        <4>1. pc' = "rollback" /\ UNCHANGED <<result, outcome>>
          BY <2>1, <2>5, <3>2 DEF HealthGate, Proceed
        <4>2. ChildTypeInv' /\ PlaceInv' /\ DeployedInv'
          BY <1>0, <1>1, <2>2, <3>2, <4>1 DEF ChildTypeInv, PlaceInv, DeployedInv
        <4> QED
          BY <2>3, <4>2
      <3> QED
        BY <3>1, <3>2
    <2> QED
      BY <2>4, <2>5
  <1>10. CASE ObserveDeploymentFails \/ Unanswered
    <2>1. /\ pc = "observe" /\ UNCHANGED <<result, runtime, leases, late>>
          /\ \/ Retry /\ UNCHANGED unconfirmed
             \/ Finish(exit, "failed") /\ unconfirmed' = TRUE
      BY <1>10 DEF ObserveDeploymentFails, Unanswered, worldVars
    <2>2. WorldTypeInv'
      BY <1>0, <1>3, <2>1 DEF WorldTypeInv
    <2>3. CASE Retry /\ UNCHANGED unconfirmed
      BY <1>5, <2>1, <2>2, <2>3 DEF Retry
    <2>4. CASE Finish(exit, "failed") /\ unconfirmed' = TRUE
      BY <1>2, <1>6, <2>1, <2>2, <2>4 DEF Finish, Proceed
    <2> QED
      BY <2>1, <2>3, <2>4
  <1>11. CASE ApplyRollback
    <2>1. /\ WriteSucceeds(ApplyWrite(rollbackVersion, result.version)) /\ pc = "rollback"
          /\ pc' \in {"return", "release"} /\ outcome' = "failed" /\ UNCHANGED result
      BY <1>2, <1>11 DEF ApplyRollback, Finish, Proceed
    <2>2. input.current # Null /\ input.current \in InputVersions
      BY <1>0, <2>1 DEF PlaceInv
    <2>3. /\ rollbackVersion \in InputVersions
          /\ rollbackVersion.versionId = input.current.versionId
          /\ rollbackVersion.spec = input.current.spec
          /\ rollbackVersion.savepointURI = IF input.current.savepointURI # Null
                                            THEN input.current.savepointURI
                                            ELSE result.savepoint
      BY <1>0, <2>2, RollbackType
    <2>4. /\ runtime' # Null /\ runtime'.version = rollbackVersion
          /\ runtime'.savepointURI = rollbackVersion.savepointURI
      BY <2>1, <2>3, AppliedType DEF WriteSucceeds
    <2>5. /\ input.current.savepointURI # Null =>
                /\ input.current.savepointURI.deploymentVersion <= input.current.versionId
                /\ input.current.savepointURI.runs <= input.current.versionId
          /\ result.savepoint # Null =>
                /\ result.savepoint.deploymentVersion <= input.current.versionId
                /\ result.savepoint.runs <= input.current.versionId
      BY <1>0, <2>2, InputsAssumption DEF PlaceInv, InputVersions
    <2>6. Restored'
      BY <1>1, <2>1, <2>3, <2>4, <2>5 DEF Restored
    <2> QED
      BY <1>4, <1>6, <2>1, <2>3, <2>6
  <1>12. CASE ApplyRollbackFails
    <2>1. WriteFails(ApplyWrite(rollbackVersion, result.version), exit) /\ pc = "rollback"
          /\ UNCHANGED result
      BY <1>12 DEF ApplyRollbackFails
    <2>2. rollbackVersion \in InputVersions
      BY <1>0, <2>1, RollbackType DEF PlaceInv
    <2>3. CASE Retry /\ UNCHANGED unconfirmed
      BY <1>4, <1>5, <2>1, <2>2, <2>3 DEF Retry
    <2>4. CASE Finish(exit, "failed") /\ unconfirmed' = TRUE
      BY <1>2, <1>4, <1>6, <2>1, <2>2, <2>4 DEF Finish, Proceed
    <2> QED
      BY <2>1, <2>3, <2>4 DEF WriteFails
  <1>13. CASE ReleaseCapacityLease \/ ReleaseCapacityLeaseFails
    <2>1. /\ pc = "release" /\ pc' \in {"release", "return"} /\ outcome' = outcome
          /\ UNCHANGED <<result, runtime, late, unconfirmed>>
      BY <1>13 DEF ReleaseCapacityLease, ReleaseCapacityLeaseFails, AttemptFails, Retry, Finish, Proceed
    <2>2. WorldTypeInv' /\ ChildTypeInv'
      BY <1>0, <1>1, <1>3, <2>1 DEF WorldTypeInv, ChildTypeInv
    <2>3. PlaceInv'
      BY <1>0, <1>1, <2>1 DEF PlaceInv
    <2>4. DeployedInv'
      BY <1>0, <1>1, <2>1 DEF DeployedInv, Restored
    <2> QED
      BY <2>2, <2>3, <2>4
  <1> QED
    BY <1>7, <1>8, <1>9, <1>10, <1>11, <1>12, <1>13

\* What the cluster does on its own: a write that lands late is unconfirmed.
LEMMA WorldStepKeepsRollout ==
    ASSUME RolloutInv, WorldStep
    PROVE  ChildTypeInv' /\ WorldTypeInv' /\ PlaceInv' /\ DeployedInv'
  <1>0. ChildTypeInv /\ WorldTypeInv /\ PlaceInv /\ DeployedInv
    BY DEF RolloutInv
  <1>1. CASE LateWriteLands
    <2>1. PICK write \in late : late' = late \ {write} /\ runtime' = Written(write)
      BY <1>1 DEF LateWriteLands
    <2>2. runtime' \in Resources /\ runtime' # Null
      BY <1>0, <2>1, AbsenceAssumption DEF WorldTypeInv, Applies, Written
    <2>3. unconfirmed' = TRUE /\ UNCHANGED <<childVars, leases, leaky>>
      BY <1>1 DEF LateWriteLands
    <2>4. pc \notin {"validate", "acquire", "trigger", "awaitSavepoint"}
      BY <1>0, <2>1 DEF DeployedInv, Intact
    <2> QED
      BY <1>0, <2>1, <2>2, <2>3, <2>4
         DEF ChildTypeInv, WorldTypeInv, PlaceInv, DeployedInv, childVars
  <1>2. CASE LeaseExpires
    <2>1. UNCHANGED <<childVars, runtime, late, unconfirmed, leaky>> /\ leases' \subseteq leases
      BY <1>2 DEF LeaseExpires
    <2> QED
      BY <1>0, <2>1 DEF ChildTypeInv, WorldTypeInv, PlaceInv, DeployedInv, Intact, Restored, childVars
  <1> QED
    BY <1>1, <1>2 DEF WorldStep

\* The lease the change needs is acquired before anything else is done and kept until the
\* release, and what is applied comes from the savepoint that was taken, if one is needed.
LEMMA CoveredStep ==
    ASSUME RolloutInv, Covered, RolloutNext \/ Unanswered
    PROVE  Covered'
  <1> USE DEF PCs
  <1>0. /\ input \in Inputs /\ result \in Results /\ pc \in PCs
        /\ input.kind = "savepoint" => pc \in {"trigger", "awaitSavepoint", "return"}
        /\ pc \in {"validate", "acquire", "trigger", "awaitSavepoint"} => result.savepoint = Null
        /\ input.kind \in {"rollout", "savepoint"}
        /\ Null \notin Records /\ Null \notin LeaseIDs
        /\ result.leaseID # Null => input.kind = "rollout"
    BY InputsAssumption, AbsenceAssumption
       DEF RolloutInv, ChildTypeInv, PlaceInv, DeployedInv, Intact
  <1>1. input' = input
    BY DEF RolloutNext, WorkflowStep, Unanswered, ValidateDeployment, ValidateDeploymentFails,
          AcquireCapacityLease, CapacityExhausted, AcquireCapacityLeaseFails, TriggerSavepoint,
          ObserveSavepoint, SavepointFails, ApplyDeployment, ApplyDeploymentFails,
          ObserveDeployment, HealthGate, ObserveDeploymentFails, ApplyRollback,
          ApplyRollbackFails, ReleaseCapacityLease, ReleaseCapacityLeaseFails, WorldStep,
          LateWriteLands, LeaseExpires, childVars
  <1>2. classification' = classification
    BY <1>1 DEF classification
  <1>3. /\ afterLease \in {"trigger", "apply"} /\ exit \in {"return", "release"}
        /\ afterLease = "apply" => ~classification.requiresSavepoint \/ input.current = Null
    BY DEF afterLease, exit
  <1> USE DEF Covered, LeaseCoversRollout, SavepointBeforeStatefulApply, running
  <1>4. CASE ValidateDeployment
    <2>1. result'.savepoint = result.savepoint
      BY <1>0, <1>4 DEF ValidateDeployment, Results
    <2> QED
      BY <1>0, <1>1, <1>2, <1>3, <1>4, <2>1 DEF ValidateDeployment, Finish, Proceed
  <1>5. CASE ValidateDeploymentFails \/ CapacityExhausted \/ AcquireCapacityLeaseFails
    BY <1>5 DEF ValidateDeploymentFails, CapacityExhausted, AcquireCapacityLeaseFails,
          AttemptFails, Retry, Finish, Proceed
  <1>6. CASE AcquireCapacityLease
    <2>1. PICK id \in LeaseIDs \ leases :
             leases' = leases \cup {id} /\ result' = [result EXCEPT !.leaseID = id]
      BY <1>6 DEF AcquireCapacityLease
    <2>2. result'.leaseID = id /\ result'.savepoint = result.savepoint
      BY <1>0, <2>1 DEF Results
    <2> QED
      BY <1>0, <1>1, <1>2, <1>3, <1>6, <2>1, <2>2 DEF AcquireCapacityLease, Proceed
  <1>7. CASE TriggerSavepoint \/ SavepointFails
    BY <1>1, <1>2, <1>3, <1>7 DEF TriggerSavepoint, SavepointFails, Retry, Finish, Proceed, worldVars
  <1>8. CASE ObserveSavepoint
    <2>1. CASE input.kind = "rollout"
      <3>1. /\ result' = [result EXCEPT !.savepoint = SavepointRecord,
                                        !.version.savepointURI = SavepointRecord]
            /\ pc = "awaitSavepoint" /\ pc' = "apply" /\ UNCHANGED leases
        BY <1>8, <2>1 DEF ObserveSavepoint, Proceed, worldVars
      <3>2. result.version \in InputVersions /\ input.current # Null
        BY <1>0, <2>1, <3>1 DEF RolloutInv, PlaceInv, Results
      <3>3. /\ result'.savepoint = SavepointRecord /\ result'.leaseID = result.leaseID
            /\ result'.version = [result.version EXCEPT !.savepointURI = SavepointRecord]
        BY <1>0, <3>1 DEF Results
      <3>4. result'.version.savepointURI = SavepointRecord
        BY <3>2, <3>3 DEF InputVersions
      <3>5. SavepointRecord # Null /\ SavepointRecord.deploymentVersion = input.current.versionId
        <4>1. SavepointRecord \in Records
          BY <1>0, <3>1, <3>2, InputsAssumption
             DEF SavepointRecord, Records, InputVersions, RolloutInv, DeployedInv, Intact
        <4> QED
          BY <4>1, <1>0 DEF SavepointRecord
      <3> QED
        BY <1>1, <1>2, <2>1, <3>1, <3>3, <3>4, <3>5
    <2>2. CASE input.kind # "rollout"
      BY <1>8, <2>2 DEF ObserveSavepoint, Finish, Proceed
    <2> QED
      BY <2>1, <2>2
  <1>9. CASE ApplyDeployment \/ ApplyDeploymentFails
    BY <1>1, <1>2, <1>3, <1>9 DEF ApplyDeployment, ApplyDeploymentFails, WriteFails, Retry, Finish,
          Proceed
  <1>10. CASE ObserveDeployment
    <2>1. PICK health \in Healths : HealthGate(health)
      BY <1>10 DEF ObserveDeployment
    <2> QED
      BY <1>1, <1>2, <1>3, <1>10, <2>1 DEF ObserveDeployment, HealthGate, Finish, Proceed, worldVars
  <1>11. CASE ObserveDeploymentFails \/ Unanswered
    BY <1>1, <1>2, <1>3, <1>11 DEF ObserveDeploymentFails, Unanswered, Retry, Finish, Proceed, worldVars
  <1>12. CASE ApplyRollback \/ ApplyRollbackFails
    BY <1>1, <1>2, <1>3, <1>12 DEF ApplyRollback, ApplyRollbackFails, WriteFails, Retry, Finish, Proceed
  <1>13. CASE ReleaseCapacityLease \/ ReleaseCapacityLeaseFails
    BY <1>13 DEF ReleaseCapacityLease, ReleaseCapacityLeaseFails, AttemptFails, Retry, Finish, Proceed
  <1>14. CASE WorldStep
    BY <1>1, <1>2, <1>14 DEF WorldStep, LateWriteLands, LeaseExpires, held, childVars
  <1> QED
    BY <1>4, <1>5, <1>6, <1>7, <1>8, <1>9, <1>10, <1>11, <1>12, <1>13, <1>14
       DEF RolloutNext, WorkflowStep

\* Every step of the rollout preserves the invariant.
LEMMA RolloutStep ==
    ASSUME RolloutInv, [RolloutNext]_rolloutVars \/ Unanswered
    PROVE  RolloutInv' /\ (Covered => Covered')
  <1>1. CASE RolloutNext \/ Unanswered
    BY <1>1, LeaseStep, BeforeApplyStep, AfterApplyStep, WorldStepKeepsRollout, CoveredStep
       DEF RolloutNext, WorkflowStep, RolloutInv
  <1>2. CASE UNCHANGED rolloutVars
    <2>1. Covered' = Covered
      BY <1>2 DEF rolloutVars, childVars, worldVars, Covered, LeaseCoversRollout,
            SavepointBeforeStatefulApply, classification
    <2> QED
      BY <1>2, <2>1 DEF rolloutVars, childVars, worldVars, RolloutInv, ChildTypeInv, WorldTypeInv,
            PlaceInv, DeployedInv, Intact, Restored, LeaseInv
  <1> QED
    BY <1>1, <1>2

\* It holds in the state a rollout starts from.
LEMMA RolloutStart ==
    ASSUME RolloutInit(Inputs)
    PROVE  RolloutInv
  <1>0. /\ input \in Inputs /\ input.kind \in {"rollout", "savepoint"}
        /\ input.current \in InputVersions \cup {Null}
        /\ input.kind = "savepoint" => input.current # Null
    BY InputsAssumption DEF RolloutInit
  <1>1. ASSUME NEW version \in InputVersions
        PROVE  /\ Settled(version) \in Resources /\ Settled(version) # Null
               /\ Settled(version).version = version
               /\ Settled(version).savepointURI = version.savepointURI
    BY AbsenceAssumption DEF Settled, Resources, InputVersions
  <1>2. ASSUME NEW earlier \in Inputs
        PROVE  BuildVersion(1, earlier.target) \in InputVersions
    BY DEF BuildVersion, InputVersions, InputSpecs
  <1>3. runtime \in Resources \cup {Null}
    BY <1>0, <1>1, <1>2 DEF RolloutInit, Before
  <1>4. input.current # Null => /\ runtime # Null
                                /\ runtime.version = input.current
                                /\ runtime.savepointURI = input.current.savepointURI
    BY <1>0, <1>1 DEF RolloutInit, Before
  <1>5. ChildTypeInv
    BY <1>0 DEF RolloutInit, ChildTypeInv, PCs, Results, EmptyResult
  <1>6. WorldTypeInv
    BY <1>3 DEF RolloutInit, WorldTypeInv
  <1>7. PlaceInv /\ LeaseInv
    BY <1>0 DEF RolloutInit, PlaceInv, LeaseInv, EmptyResult
  <1>8. DeployedInv
    BY <1>4 DEF RolloutInit, DeployedInv, Intact, EmptyResult
  <1> QED
    BY <1>5, <1>6, <1>7, <1>8 DEF RolloutInv

-----------------------------------------------------------------------------
(* The observation.                                                        *)

\* Every reading is a report, as the resource has been seen.
LEMMA ReadingIsReport ==
    ASSUME RolloutInv, ObservationInv, pc = "observe"
    PROVE  reading \in Reports /\ reading # Null /\ observedHealth(reading.status) \in Healths
  <1>1. runtime # Null
    BY DEF RolloutInv, PlaceInv
  <1>2. reading \in Reports
    BY <1>1 DEF ObservationInv, reading
  <1>3. reading.status \in Statuses \cup {Unreported.status}
    BY <1>2 DEF Reports
  <1> QED
    BY <1>2, <1>3, SummariesAssumption, AbsenceAssumption

\* What a step of the observed rollout is to the rollout.
LEMMA StepOfRollout ==
    ASSUME RolloutInv, ObservationInv, [ObservedNext]_observedVars
    PROVE  \/ [RolloutNext]_rolloutVars
           \/ PollTimesOut /\ Unanswered
  <1>1. CASE OtherActivity
    BY <1>1 DEF OtherActivity, RolloutNext, WorkflowStep
  <1>2. CASE PollSettles \/ PollDeadline
    <2>1. pc = "observe" /\ HealthGate(observedHealth(reading.status))
      BY <1>2 DEF PollSettles, PollDeadline, unsettled, Return
    <2> QED
      BY <2>1, ReadingIsReport DEF ObserveDeployment, RolloutNext, WorkflowStep
  <1>3. CASE PollTimesOut
    BY <1>3 DEF PollTimesOut, unsettled, Unanswered
  <1>4. CASE PollAgain \/ OperatorReports \/ InformerSyncs
    BY <1>4 DEF PollAgain, OperatorReports, InformerSyncs
  <1>5. CASE ClusterStep
    BY <1>5 DEF ClusterStep, RolloutNext
  <1>6. CASE UNCHANGED observedVars
    BY <1>6 DEF observedVars
  <1> QED
    BY <1>1, <1>2, <1>3, <1>4, <1>5, <1>6
       DEF ObservedNext, ObservedWorkflowStep, ObservationStep

\* A success of the rollout is the verdict of this observation, or an earlier one's.
LEMMA ObservationStepKeeps ==
    ASSUME RolloutInv, ObservationInv, [ObservedNext]_observedVars
    PROVE  ObservationInv'
  <1> USE DEF ObservationInv
  <1>0. WorldTypeInv /\ ChildTypeInv /\ RolloutInv'
    BY StepOfRollout, RolloutStep DEF RolloutInv
  <1>1. Unreported \in Reports
    BY DEF Reports, Unreported
  <1>2. CASE PollSettles \/ PollDeadline
    <2>1. /\ pc = "observe" /\ HealthGate(observedHealth(reading.status)) /\ judged' = reading
          /\ UNCHANGED <<reported, cached>>
      BY <1>2 DEF PollSettles, PollDeadline, unsettled, Return
    <2>2. outcome' = "ok" => EvaluateHealth(observedHealth(reading.status), Policy)
      BY <1>0, <2>1 DEF HealthGate, Finish, RolloutInv, PlaceInv
    <2>3. UNCHANGED <<input, runtime>>
      BY <2>1 DEF HealthGate, worldVars
    <2> QED
      BY <2>1, <2>2, <2>3, ReadingIsReport
  <1>3. CASE PollTimesOut
    BY <1>3 DEF PollTimesOut, Retry, Finish, worldVars
  <1>4. CASE PollAgain \/ InformerSyncs \/ UNCHANGED observedVars
    BY <1>4 DEF PollAgain, InformerSyncs, observedVars, observationVars, rolloutVars, childVars,
          worldVars
  <1>5. CASE OperatorReports
    <2>1. PICK status \in Statuses :
             reported' = [of |-> runtime.version.versionId, status |-> status]
      BY <1>5 DEF OperatorReports
    <2>2. runtime.version.versionId \in Nat /\ UNCHANGED <<rolloutVars, cached, judged>>
      BY <1>0, <1>5 DEF OperatorReports, WorldTypeInv, Resources, InputVersions
    <2>3. reported' \in Reports /\ reported' # Null
      BY <2>1, <2>2, AbsenceAssumption DEF Reports
    <2> QED
      BY <2>2, <2>3 DEF rolloutVars, childVars, worldVars
  <1>6. CASE ClusterStep
    <2>1. /\ reported' = IF runtime = Null /\ runtime' # Null THEN Unreported ELSE reported
          /\ UNCHANGED <<cached, judged, childVars>>
      BY <1>6 DEF ClusterStep, StatusStays, WorldStep, LateWriteLands, LeaseExpires
    <2> QED
      BY <1>1, <2>1, AbsenceAssumption DEF childVars
  <1>7. CASE OtherActivity
    <2>1. /\ reported' = IF runtime = Null /\ runtime' # Null THEN Unreported ELSE reported
          /\ UNCHANGED <<cached, judged, input>>
      BY <1>7 DEF OtherActivity, StatusStays, ValidateDeployment, ValidateDeploymentFails,
            AcquireCapacityLease, CapacityExhausted, AcquireCapacityLeaseFails, TriggerSavepoint,
            ObserveSavepoint, SavepointFails, ApplyDeployment, ApplyDeploymentFails,
            ObserveDeploymentFails, ApplyRollback, ApplyRollbackFails, ReleaseCapacityLease,
            ReleaseCapacityLeaseFails
    <2>2. input.kind = "rollout" => (outcome' = "ok" => outcome = "ok")
      BY <1>7 DEF OtherActivity, ValidateDeployment, ValidateDeploymentFails,
            AcquireCapacityLease, CapacityExhausted, AcquireCapacityLeaseFails, TriggerSavepoint,
            ObserveSavepoint, SavepointFails, ApplyDeployment, ApplyDeploymentFails, WriteFails,
            ObserveDeploymentFails, ApplyRollback, ApplyRollbackFails, ReleaseCapacityLease,
            ReleaseCapacityLeaseFails, AttemptFails, Retry, Finish
    <2> QED
      BY <1>1, <2>1, <2>2, AbsenceAssumption
  <1> QED
    BY <1>2, <1>3, <1>4, <1>5, <1>6, <1>7
       DEF ObservedNext, ObservedWorkflowStep, ObservationStep

\* The invariants hold at the start of an observed rollout.
LEMMA ObservedStart ==
    ASSUME ObservedInit
    PROVE  RolloutInv /\ ObservationInv
  <1>1. RolloutInv
    BY RolloutStart DEF ObservedInit
  <1>2. reported \in Reports \cup {Null} /\ (runtime # Null => reported # Null)
    BY <1>1, AbsenceAssumption
       DEF ObservedInit, Reports, RolloutInv, WorldTypeInv, Resources, InputVersions
  <1>3. outcome = "none"
    BY DEF ObservedInit, RolloutInit
  <1> QED
    BY <1>1, <1>2, <1>3 DEF ObservedInit, ObservationInv

-----------------------------------------------------------------------------

\* Both invariants hold throughout every observed rollout.
THEOREM RolloutInvariant == ObservedSpec => [](RolloutInv /\ ObservationInv)
  <1>1. ObservedInit => RolloutInv /\ ObservationInv
    BY ObservedStart
  <1>2. RolloutInv /\ ObservationInv /\ [ObservedNext]_observedVars
           => (RolloutInv /\ ObservationInv)'
    BY StepOfRollout, RolloutStep, ObservationStepKeeps
  <1> QED
    BY <1>1, <1>2, PTL DEF ObservedSpec

\* And so does what covers the rollout's steps.
THEOREM RolloutIsCovered == ObservedSpec => []Covered
  <1>1. ObservedInit => Covered
    BY DEF ObservedInit, RolloutInit, Covered, LeaseCoversRollout, SavepointBeforeStatefulApply, running
  <1>2. RolloutInv /\ ObservationInv /\ Covered /\ [ObservedNext]_observedVars => Covered'
    BY StepOfRollout, RolloutStep
  <1> QED
    BY <1>1, <1>2, RolloutInvariant, PTL DEF ObservedSpec

\* A change that needs a savepoint is never applied, observed or rolled back without one
\* that this rollout took of the version it replaces, whatever was retried and however
\* late the savepoint's answer came (rollout.go:71-98).
THEOREM SavepointBeforeStatefulApplyHolds == ObservedSpec => []SavepointBeforeStatefulApply
  <1>1. Covered => SavepointBeforeStatefulApply
    BY DEF Covered
  <1> QED
    BY <1>1, RolloutIsCovered, PTL

\* From the savepoint to the end of the rollback the reservation the change needs is in the
\* store (rollout.go:54-69).
THEOREM LeaseCoversRolloutHolds == ObservedSpec => []LeaseCoversRollout
  <1>1. Covered => LeaseCoversRollout
    BY DEF Covered
  <1> QED
    BY <1>1, RolloutIsCovered, PTL

\* If nothing goes unanswered, the FlinkDeployment runs what the verdict of a finished
\* rollout implies, whatever was retried before (rollout.go:100-127).
THEOREM VerdictMatchesRuntimeHolds == ObservedSpec => []VerdictMatchesRuntime
  <1>1. RolloutInv => VerdictMatchesRuntime
    BY DEF RolloutInv, DeployedInv, Restored, VerdictMatchesRuntime
  <1> QED
    BY <1>1, RolloutInvariant, PTL

\* A rollback never loses the state of the version it restores, nor gives it that of
\* a later one (rollout.go:114-117).
THEOREM RollbackKeepsStateHolds == ObservedSpec => []RollbackKeepsState
  <1>1. RolloutInv => RollbackKeepsState
    BY DEF RolloutInv, DeployedInv, Restored, RollbackKeepsState
  <1> QED
    BY <1>1, RolloutInvariant, PTL

\* Whichever way a rollout ends, its reservation is released unless an attempt to
\* acquire or to release one failed (rollout.go:66-69).
THEOREM NoLeaseLeftHolds == ObservedSpec => []NoLeaseLeft
  <1>1. RolloutInv => NoLeaseLeft
    BY DEF RolloutInv, LeaseInv, NoLeaseLeft
  <1> QED
    BY <1>1, RolloutInvariant, PTL

\* The gate is passed only on a report of a healthy job, where it asks for a checkpoint
\* or a sink (adapter.go:222-226, flink.go:240-250).
THEOREM GatePassesOnlyHealthyHolds == ObservedSpec => []GatePassesOnlyHealthy
  <1>1. ObservationInv => GatePassesOnlyHealthy
    BY DEF ObservationInv, GatePassesOnlyHealthy, EvaluateHealth, observedHealth
  <1> QED
    BY <1>1, RolloutInvariant, PTL

\* The polling loop implements the observation of module Rollout: it ends with a summary
\* of some status, or like an activity attempt that failed, of which there must be some
\* (adapter.go:203-236, options.go:20-22).
THEOREM RolloutImplemented ==
    ASSUME FaultKinds # {}
    PROVE  ObservedSpec => RolloutSafety
  <1>1. ObservedInit => RolloutInit(Inputs)
    BY DEF ObservedInit
  <1>2. PollTimesOut /\ Unanswered => RolloutNext
    BY DEF Unanswered, ObserveDeploymentFails, RolloutNext, WorkflowStep
  <1>3. RolloutInv /\ ObservationInv /\ [ObservedNext]_observedVars => [RolloutNext]_rolloutVars
    BY <1>2, StepOfRollout
  <1> QED
    BY <1>1, <1>3, RolloutInvariant, PTL DEF ObservedSpec, RolloutSafety

=============================================================================
