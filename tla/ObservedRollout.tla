-------------------------- MODULE ObservedRollout --------------------------
(***************************************************************************)
(* Rollout with the observation in full: the polling loop of the Kubernetes*)
(* adapter's ObserveDeployment and its reading of the FlinkDeployment's    *)
(* status (backends/kubernetes/adapter.go, flink.go), through an informer  *)
(* cache or live.  Module Rollout has the loop's outcome only; this module *)
(* implements it.                                                          *)
(*                                                                         *)
(* The Flink operator is external: it reconciles the resource at its own   *)
(* pace and then writes the status, which stays what it was until then, an *)
(* apply included.  Nobody deletes the resource.  Reports and cache are of *)
(* no interest once the rollout has been judged or has returned.           *)
(***************************************************************************)
EXTENDS Rollout

CONSTANTS
    Inputs,        \* what the workflow may be started on
    Statuses,      \* statuses the operator may write
    ObservePolls,  \* polls until ObserveTimeout has passed
    AttemptPolls   \* polls until Temporal times the activity attempt out

ASSUME StatusesAssumption ==
    Statuses \subseteq [jm : {"", "MISSING", "DEPLOYING", "DEPLOYED_NOT_READY", "READY", "ERROR"},
                        job : {"", "RECONCILING", "RUNNING", "FAILED"},
                        error : BOOLEAN, rolledBack : BOOLEAN]
ASSUME PollsAssumption ==
    /\ ObservePolls \in Nat \ {0}
    /\ AttemptPolls \in Nat \ {0}

-----------------------------------------------------------------------------
(* Reading the status.                                                     *)

\* A resource has no status before the operator has seen it.
Unreported ==
    [of |-> 0, status |-> [jm |-> "", job |-> "", error |-> FALSE, rolledBack |-> FALSE]]

isRunning(status) == status.job = "RUNNING"
isHealthy(status) == isRunning(status) /\ status.jm = "READY" /\ ~status.error
isFailed(status) ==
    \/ status.jm \in {"ERROR", "MISSING"}
    \/ status.job = "FAILED"
    \/ status.rolledBack
    \/ status.error

\* Mutant: a running job is taken to have a checkpoint and a healthy sink.
runningSummary(status) ==
    [healthy |-> isHealthy(status), running |-> isRunning(status),
     checkpointCompleted |-> isRunning(status), sinkHealthy |-> isRunning(status),
     restartCount |-> 0, backpressureRatio |-> 0, kafkaLag |-> 0]

\* observedHealth: the summary, whose counters are never filled in ...
observedHealth(status) ==
    [healthy |-> isHealthy(status), running |-> isRunning(status),
     checkpointCompleted |-> isHealthy(status), sinkHealthy |-> isHealthy(status),
     restartCount |-> 0, backpressureRatio |-> 0, kafkaLag |-> 0]

\* ... and whether polling may stop.
settled(status) == isHealthy(status) \/ isFailed(status)

-----------------------------------------------------------------------------
(* The state.                                                              *)

\* The versions an input may name, and what its savepoint was taken of.
Records == [deploymentVersion : Nat, runs : Nat]
InputSpecs ==
    {in.target : in \in Inputs}
    \cup {in.current.spec : in \in {i \in Inputs : i.current # Null}}
InputVersions == [versionId : Nat, spec : InputSpecs, savepointURI : Records \cup {Null},
                  healthy : BOOLEAN]
Resources == [version : InputVersions, savepointURI : Records \cup {Null},
              mode : {"stateless", "last-state", "savepoint"}, job : {"RUNNING"}]
Reports == [of : Nat, status : Statuses \cup {Unreported.status}]

ASSUME InputsAssumption ==
    \A in \in Inputs :
        /\ in.kind \in {"rollout", "savepoint"}
        /\ in.current \in InputVersions \cup {Null}
        /\ in.kind = "savepoint" => in.current # Null
        /\ (in.current # Null /\ in.current.savepointURI # Null) =>
              /\ in.current.savepointURI.deploymentVersion <= in.current.versionId
              /\ in.current.savepointURI.runs <= in.current.versionId
ASSUME AbsenceAssumption ==
    /\ Null \notin LeaseIDs
    /\ Null \notin Records
    /\ Null \notin InputVersions
    /\ Null \notin Resources
    /\ Null \notin Reports
ASSUME SummariesAssumption ==
    \A status \in Statuses \cup {Unreported.status} : observedHealth(status) \in Healths

VARIABLES
    reported,      \* the resource's status, and the version id it is about
    cached,        \* the copy in the informer cache, Null when there is none
    polls,         \* readings of this attempt that were not settled
    judged         \* history: the report the health gate decided on

observationVars == <<reported, cached, polls, judged>>
observedVars == <<rolloutVars, observationVars>>

-----------------------------------------------------------------------------
(* ObserveDeployment.                                                      *)

\* getFlinkDeployment: the cached copy, a live read if there is none.
reading == IF cached # Null THEN cached ELSE reported

\* The loop returns this reading's summary, and the workflow judges it.
Return ==
    /\ HealthGate(observedHealth(reading.status))
    /\ judged' = reading
    /\ polls' = 0
    /\ UNCHANGED <<reported, cached>>

PollSettles ==
    /\ pc = "observe"
    /\ settled(reading.status)
    /\ Return

unsettled == pc = "observe" /\ ~settled(reading.status)

PollAgain ==
    /\ unsettled
    /\ polls + 1 < ObservePolls /\ polls + 1 < AttemptPolls
    /\ polls' = polls + 1
    /\ UNCHANGED <<rolloutVars, reported, cached, judged>>

\* ObserveTimeout has passed: the last reading will do.
PollDeadline ==
    /\ unsettled
    /\ polls + 1 >= ObservePolls
    /\ Return

\* Mutant: the loop starts over and is not counted as an attempt.
PollStartsOver ==
    /\ unsettled
    /\ polls + 1 >= AttemptPolls
    /\ polls' = 0
    /\ UNCHANGED <<rolloutVars, reported, cached, judged>>

\* Temporal times the attempt out, or gets its answer too late.
PollTimesOut ==
    /\ unsettled
    /\ polls + 1 >= AttemptPolls
    /\ \/ Retry /\ UNCHANGED unconfirmed
       \/ Finish(exit, "failed") /\ unconfirmed' = TRUE
    /\ polls' = 0
    /\ UNCHANGED <<input, result, worldVars, leaky, reported, cached, judged>>

-----------------------------------------------------------------------------
(* Everything else.                                                        *)

\* A write leaves the status alone; one that creates the resource finds none.
StatusStays ==
    reported' = IF runtime = Null /\ runtime' # Null THEN Unreported ELSE reported

\* The other activities are those of module Rollout.
OtherActivity ==
    /\ \/ ValidateDeployment \/ ValidateDeploymentFails
       \/ AcquireCapacityLease \/ CapacityExhausted \/ AcquireCapacityLeaseFails
       \/ TriggerSavepoint \/ ObserveSavepoint \/ SavepointFails
       \/ ApplyDeployment \/ ApplyDeploymentFails
       \/ ObserveDeploymentFails
       \/ ApplyRollback \/ ApplyRollbackFails
       \/ ReleaseCapacityLease \/ ReleaseCapacityLeaseFails
    /\ StatusStays
    /\ polls' = 0
    /\ UNCHANGED <<cached, judged>>

\* So is what the cluster does to the resource's spec and to the leases.
ClusterStep ==
    /\ WorldStep
    /\ StatusStays
    /\ UNCHANGED <<cached, polls, judged>>

\* No further reading is taken.
observed == judged # Null \/ pc \in {"release", "return"}

\* The operator has reconciled the resource and reports on the version in it.
OperatorReports ==
    /\ ~observed
    /\ runtime # Null
    /\ \E status \in Statuses :
          reported' = [of |-> runtime.version.versionId, status |-> status]
    /\ UNCHANGED <<rolloutVars, cached, polls, judged>>

\* A watch event reaches the informer cache.
InformerSyncs ==
    /\ ~observed
    /\ reported # Null
    /\ cached' = reported
    /\ UNCHANGED <<rolloutVars, reported, polls, judged>>

-----------------------------------------------------------------------------

ObservationStep == PollSettles \/ PollAgain \/ PollDeadline \/ PollTimesOut

ObservedWorkflowStep == OtherActivity \/ ObservationStep

ObservedNext ==
    \/ ObservedWorkflowStep
    \/ ClusterStep \/ OperatorReports \/ InformerSyncs

\* The operator has reported on what runs before the rollout starts.  The informer
\* has that report, or does not watch this namespace.
ObservedInit ==
    /\ RolloutInit(Inputs)
    /\ IF runtime = Null THEN reported = Null
       ELSE \E status \in Statuses :
                reported = [of |-> runtime.version.versionId, status |-> status]
    /\ cached \in {Null, reported}
    /\ polls = 0
    /\ judged = Null

\* Every poll and every activity attempt ends; nothing is assumed of the operator and
\* of the informer.
ObservedFairness == WF_observedVars(ObservedWorkflowStep)

ObservedSpec == ObservedInit /\ [][ObservedNext]_observedVars /\ ObservedFairness

-----------------------------------------------------------------------------
(* Properties.                                                             *)

\* A gate that asks for a checkpoint or a sink is passed only on a report of a
\* running job with a ready job manager and no error: neither the last reading of a
\* loop that ran out of time nor an error that came with a running job slips through
\* (adapter.go:222-226, flink.go:240-250, change.go:84-93).
GatePassesOnlyHealthy ==
    (outcome = "ok" /\ input.kind = "rollout"
     /\ (Policy.requireFirstCheckpoint \/ Policy.requireHealthySink))
        => judged # Null /\ isHealthy(judged.status)

RolloutSafety == RolloutInit(Inputs) /\ [][RolloutNext]_rolloutVars

\* The loop implements the observation of module Rollout, whose summaries are those a
\* status can give, and ends when the operator and the informer fall silent.
ImplementsRollout == RolloutSafety /\ RolloutFairness

=============================================================================
