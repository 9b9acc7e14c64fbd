------------------------------ MODULE Sharding ------------------------------
(***************************************************************************)
(* Task-queue sharding (sharding.go).  Every actor workflow lives on the   *)
(* task queue it was started on, and only a worker that polls that queue   *)
(* can run it or answer a query about it.  The queue is chosen from a hash *)
(* of the workflow id and the number of shards the control API was         *)
(* configured with; a worker polls the queues of the number it was         *)
(* configured with itself.                                                 *)
(***************************************************************************)
EXTENDS Integers

CONSTANTS
    Workflows,      \* ids of the actor workflows
    Hash,           \* fnv.New32a of each id
    Base            \* the queue that is used when there is one shard

ASSUME ShardingAssumption == Hash \in [Workflows -> Nat] /\ Base \notin Nat

\* Mutant: leaves out the last queue.
QueuesButTheLast(shards) == IF shards <= 1 THEN {Base} ELSE 0 .. shards - 2

\* The queue of shard i is named i.
ActorTaskQueues(shards) == IF shards <= 1 THEN {Base} ELSE 0 .. shards - 1

\* Mutant: starts actors on a shard that is one too many.
ShardBehindTheLast(shards, w) == IF shards <= 1 THEN Base ELSE Hash[w] % (shards + 1)

ShardTaskQueue(shards, w) == IF shards <= 1 THEN Base ELSE Hash[w] % shards

=============================================================================
