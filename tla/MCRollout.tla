----------------------------- MODULE MCRollout -----------------------------
(* RolloutWorkflow with its observation, started on every combination of a  *)
(* current version and a target from a small set of specs.                  *)
EXTENDS ObservedRollout

CONSTANTS img1, img2, imgTag, l1, l2

Base == [imageDigest |-> img1, flinkVersion |-> "2.2", jobArgs |-> "a",
         flinkConfig |-> "c", parallelism |-> 1, maxParallelism |-> 2,
         resources |-> [taskManagerCount |-> 1, slotsPerManager |-> 1],
         jobGraphCompatible |-> TRUE, operatorUIDsStable |-> TRUE,
         allowNonRestored |-> FALSE, freshStartApproved |-> FALSE,
         autoscalerEnabled |-> FALSE]

MCTargets ==
    {Base,
     [Base EXCEPT !.imageDigest = img2],                 \* new binary
     [Base EXCEPT !.imageDigest = imgTag],               \* not digest-pinned
     [Base EXCEPT !.jobArgs = "b", !.resources.taskManagerCount = 2],
     [Base EXCEPT !.parallelism = 2],                    \* rescale
     [Base EXCEPT !.maxParallelism = 1],                 \* loses key groups
     [Base EXCEPT !.maxParallelism = 1, !.freshStartApproved = TRUE],
     [Base EXCEPT !.operatorUIDsStable = FALSE]}         \* state at risk

MCCurrents ==
    {Null,
     [versionId |-> 1, spec |-> Base, savepointURI |-> Null, healthy |-> TRUE],
     [versionId |-> 2, spec |-> Base, healthy |-> TRUE,
      savepointURI |-> [deploymentVersion |-> 1, runs |-> 1]]}

\* Approval and incident are flags of admission only; one input each goes without.
MCInputs ==
    {RolloutInput(current, target, TRUE, FALSE) : current \in MCCurrents, target \in MCTargets}
    \cup {RolloutInput(current, Base, FALSE, TRUE) : current \in MCCurrents}
    \cup {SavepointInput(current) : current \in MCCurrents \ {Null}}

MCPolicy == DefaultPolicy(TRUE)
DevPolicy == DefaultPolicy(FALSE)

Status(jm, job) == [jm |-> jm, job |-> job, error |-> FALSE, rolledBack |-> FALSE]

\* Healthy; running before the job manager is ready; the deployment missing, for good
\* or for a moment during an upgrade; running with an error.
MCStatuses ==
    {Status("READY", "RUNNING"),
     Status("DEPLOYED_NOT_READY", "RUNNING"),
     Status("MISSING", "RECONCILING"),
     [Status("READY", "RUNNING") EXCEPT !.error = TRUE]}

MCHealths == {observedHealth(status) : status \in MCStatuses \cup {Unreported.status}}

MCPinned == {img1, img2}
MCLeaseIDs == {l1, l2}

-----------------------------------------------------------------------------
(* A statement of the documentation that the code does not meet.            *)

\* docs-site/docs/api-reference.md:106 of a deploy: it "applies the new spec, waits for
\* RUNNING, checks health gates, and rolls back automatically on failure".  A rollout
\* leaves its version in place only if the operator's report on that very version has
\* passed the gate; no call need fail for this to be false.
NewVersionPassedItsGate ==
    (/\ pc = "return" /\ input.kind = "rollout" /\ input.current # Null /\ late = {}
     /\ runtime.version.versionId = input.current.versionId + 1)
        => /\ judged # Null
           /\ judged.of = runtime.version.versionId
           /\ EvaluateHealth(observedHealth(judged.status), Policy)

=============================================================================
