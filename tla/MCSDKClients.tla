---------------------------- MODULE MCSDKClients ----------------------------
(* An autoscaler loop and a waiting client beside operators who deploy, suspend *)
(* and turn the actor's autoscaler switch.                                      *)
EXTENDS SDKClients

CONSTANTS img1, img2, img3, l1

Base == [imageDigest |-> img1, flinkVersion |-> "2.2", jobArgs |-> "a",
         flinkConfig |-> "c", parallelism |-> 1, maxParallelism |-> 2,
         resources |-> [taskManagerCount |-> 1, slotsPerManager |-> 1],
         jobGraphCompatible |-> TRUE, operatorUIDsStable |-> TRUE,
         allowNonRestored |-> FALSE, freshStartApproved |-> FALSE,
         autoscalerEnabled |-> FALSE]

WaiterBase == [Base EXCEPT !.imageDigest = img3]

\* A second image, and a version that switches the autoscaler on.
MCOperatorCommands ==
    {[Request("k1", "DeployVersion") EXCEPT !.targetSpec = Base],
     [Request("k2", "DeployVersion") EXCEPT
         !.targetSpec = [Base EXCEPT !.imageDigest = img2, !.autoscalerEnabled = TRUE]],
     Request("k3", "EnableAutoscaler"),
     Request("k4", "FreezeAutoscaler"),
     Request("k5", "Suspend"),
     Request("k6", "Resume")}

MCSDKKeys == {"g1", "g2", "g3", "g4"}
MCDemands == {2}
MCCommands == MCOperatorCommands \cup Requests

TargetSpecs == {command.targetSpec : command \in MCCommands} \ {Null}
MCSpecs == TargetSpecs \cup {[spec EXCEPT !.parallelism = n] : spec \in TargetSpecs, n \in {0, 2}}

DevPolicy == DefaultPolicy(FALSE)

Summary == [healthy |-> TRUE, running |-> TRUE, checkpointCompleted |-> TRUE,
            restartCount |-> 0, backpressureRatio |-> 5, kafkaLag |-> 10,
            sinkHealthy |-> TRUE]

MCHealths == {Summary, [Summary EXCEPT !.running = FALSE, !.healthy = FALSE]}

MCPinned == {img1, img2, img3}
MCLeaseIDs == {l1}

=============================================================================
