------------------------- MODULE MCDeploymentActor -------------------------
(* Small instances of DeploymentActor.                                      *)
EXTENDS DeploymentActor

CONSTANTS img1, img2, l1, l2, k1, k2, k3, k4

Base == [imageDigest |-> img1, flinkVersion |-> "2.2", jobArgs |-> "a",
         flinkConfig |-> "c", parallelism |-> 1, maxParallelism |-> 2,
         resources |-> [taskManagerCount |-> 1, slotsPerManager |-> 1],
         jobGraphCompatible |-> TRUE, operatorUIDsStable |-> TRUE,
         allowNonRestored |-> FALSE, freshStartApproved |-> FALSE,
         autoscalerEnabled |-> FALSE]

Command(key, type) ==
    [key |-> key, type |-> type, targetSpec |-> Null, targetVersion |-> 0,
     parallelism |-> 0, approved |-> FALSE, incident |-> FALSE]

Deploy(key, spec) == [Command(key, "DeployVersion") EXCEPT !.targetSpec = spec, !.approved = TRUE]
Rollback(key, version) == [Command(key, "RollbackToVersion") EXCEPT !.targetVersion = version]
Scale(key, n) == [Command(key, "ScaleTo") EXCEPT !.parallelism = n, !.approved = TRUE]

\* Deploys that change the key groups both ways, one that lacks its approval, one that
\* needs none after the first, a rescale, and rollbacks to a version that compaction keeps
\* and to one that it drops.
VersionCommands ==
    {Deploy(k1, Base),
     [Deploy(k1, [Base EXCEPT !.imageDigest = img2]) EXCEPT !.approved = FALSE],
     [Deploy(k3, [Base EXCEPT !.flinkVersion = "2.3"]) EXCEPT !.approved = FALSE],
     Deploy(k2, [Base EXCEPT !.maxParallelism = 3, !.autoscalerEnabled = TRUE]),
     Deploy(k3, [Base EXCEPT !.maxParallelism = 1, !.freshStartApproved = TRUE]),
     Scale(k4, 2),
     Rollback(k4, 1), Rollback(k4, 2)}

\* Two deploys and the rollback the MCP server sends unless told otherwise.
RollbackCommands ==
    {Deploy(k1, Base), Deploy(k2, [Base EXCEPT !.imageDigest = img2]), Rollback(k3, 0)}

\* Every command type around a single deploy.
LifecycleCommands ==
    {Deploy(k1, Base),
     Deploy(k2, [Base EXCEPT !.jobArgs = "b"]),
     Command(k2, "Suspend"), Command(k3, "Resume"),
     Command(k3, "RequestSavepoint"), Scale(k4, 2),
     Command(k4, "EnableAutoscaler"), Command(k4, "FreezeAutoscaler"),
     Command(k4, "ContinueAsNew"), Command(k4, "Unsupported"),
     Command(k4, "DeployVersion")}

TargetSpecs ==
    {command.targetSpec : command \in VersionCommands \cup RollbackCommands \cup LifecycleCommands}
    \ {Null}
MCSpecs == TargetSpecs \cup {[spec EXCEPT !.parallelism = n] : spec \in TargetSpecs, n \in 0 .. 2}

ProdPolicy == DefaultPolicy(TRUE)

Summary == [healthy |-> TRUE, running |-> TRUE, checkpointCompleted |-> TRUE,
            restartCount |-> 0, backpressureRatio |-> 5, kafkaLag |-> 10,
            sinkHealthy |-> TRUE]

MCHealths == {Summary, [Summary EXCEPT !.running = FALSE, !.healthy = FALSE]}

MCPinned == {img1, img2}
MCLeaseIDs == {l1, l2}

-----------------------------------------------------------------------------
(* Statements of the documentation that the code does not meet.             *)

\* README.md:46 "Every deploy, scale, rollback, and savepoint tracked as a Temporal
\* workflow with full audit trail": a command answered with 202 QUEUED is waiting,
\* running or recorded.
AcceptedIsTracked ==
    \A key \in acceptedKeys :
        \/ \E i \in DOMAIN inbox : inbox[i].key = key
        \/ active # Null /\ active.key = key
        \/ \E i \in DOMAIN log : log[i] = key

\* mcp/server.py:195 of the tool's default "target_version=0 rolls back to the previous
\* version": a rollback to 0 that succeeds while the previous version is recorded leads to
\* its spec.
ZeroIsThePrevious ==
    [][(/\ active # Null /\ active.type = "RollbackToVersion" /\ active.targetVersion = 0
        /\ currentVersion' # currentVersion
        /\ Len(versions) > 1)
       => currentVersion'.spec = versions[Len(versions) - 1].spec]_vars

=============================================================================
