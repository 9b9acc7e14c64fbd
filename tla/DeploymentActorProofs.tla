----------------------- MODULE DeploymentActorProofs -----------------------
(***************************************************************************)
(* Proofs about DeploymentActor, for every set of commands, every history  *)
(* limit, every number of attempts and every kind of fault, in three parts:*)
(*   1. the bookkeeping of idempotency keys;                               *)
(*   2. versions: the state stays well typed, version ids are contiguous,  *)
(*      and the actor implements the abstract VersionHistory;              *)
(*   3. the cluster: which leases the actor holds, what the FlinkDeployment*)
(*      runs and what its savepoints were taken of.                        *)
(***************************************************************************)
EXTENDS DeploymentActor, SequenceTheorems, WellFoundedInduction, TLAPS

-----------------------------------------------------------------------------
(***************************************************************************)
(* Part 1: idempotency keys.                                               *)
(***************************************************************************)

-----------------------------------------------------------------------------
(* Sequences.                                                                *)

\* LastN returns the last n elements, or all if there are fewer.
LEMMA LastNSuffix ==
    ASSUME NEW S, NEW seq \in Seq(S), NEW n \in Nat
    PROVE  /\ LastN(seq, n) \in Seq(S)
           /\ Len(LastN(seq, n)) = IF Len(seq) > n THEN n ELSE Len(seq)
           /\ \A i \in 1 .. Len(LastN(seq, n)) :
                LastN(seq, n)[i] = seq[Len(seq) - Len(LastN(seq, n)) + i]
  <1> DEFINE m == (IF Len(seq) > n THEN Len(seq) - n ELSE 0) + 1
  <1>1. Len(seq) \in Nat /\ m \in 1 .. Len(seq) + 1
    OBVIOUS
  <1>2. \A i \in m .. Len(seq) : seq[i] \in S
    BY <1>1
  <1> HIDE DEF m
  <1>3. /\ SubSeq(seq, m, Len(seq)) \in Seq(S)
        /\ Len(SubSeq(seq, m, Len(seq))) = IF m <= Len(seq) THEN Len(seq) - m + 1 ELSE 0
        /\ \A i \in 1 .. Len(seq) - m + 1 : SubSeq(seq, m, Len(seq))[i] = seq[m + i - 1]
    BY <1>1, <1>2, SubSeqProperties
  <1>4. LastN(seq, n) = SubSeq(seq, m, Len(seq))
    BY DEF LastN, m
  <1>5. Len(SubSeq(seq, m, Len(seq))) = Len(seq) - m + 1
    BY <1>1, <1>3
  <1>6. Len(seq) - m + 1 = IF Len(seq) > n THEN n ELSE Len(seq)
    BY <1>1 DEF m
  <1>7. ASSUME NEW i \in 1 .. Len(seq) - m + 1
        PROVE  SubSeq(seq, m, Len(seq))[i] = seq[Len(seq) - (Len(seq) - m + 1) + i]
    <2>1. Len(seq) - (Len(seq) - m + 1) + i = m + i - 1
      BY <1>1
    <2> QED
      BY <1>3, <2>1
  <1> QED
    BY <1>3, <1>4, <1>5, <1>6, <1>7

\* Appending an operation adds its key.
LEMMA KeysOfAppend ==
    ASSUME NEW S, NEW ops \in Seq(S), NEW op
    PROVE  KeysOf(Append(ops, op)) = KeysOf(ops) \cup {op.key}
  <1>1. /\ Len(Append(ops, op)) = Len(ops) + 1
        /\ Len(ops) \in Nat
        /\ \A i \in 1 .. Len(ops) : Append(ops, op)[i] = ops[i]
        /\ Append(ops, op)[Len(ops) + 1] = op
    OBVIOUS
  <1>2. DOMAIN ops = 1 .. Len(ops) /\ DOMAIN Append(ops, op) = 1 .. Len(ops) + 1
    OBVIOUS
  <1> QED
    BY <1>1, <1>2 DEF KeysOf

-----------------------------------------------------------------------------
(* Idempotency keys.                                                         *)

\* Recording an operation whose key is not among the processed ones.
LEMMA RecordKeepsKeys ==
    ASSUME KeysInv, NEW command \in Commands, command.key \notin processedKeys,
           NEW succeeded \in BOOLEAN, Record(command, succeeded), inbox' \in Seq(Commands)
    PROVE  KeysInv'
  <1> DEFINE op == [key |-> command.key, type |-> command.type,
                    status |-> IF succeeded THEN "SUCCEEDED" ELSE "FAILED"]
             Ops == [key : Keys, type : CommandTypes, status : {"SUCCEEDED", "FAILED"}]
  <1>1. /\ operations' = Append(operations, op)
        /\ processedKeys' = processedKeys \cup {command.key}
        /\ log' = Append(log, command.key)
        /\ active' = Null /\ pc' = "audit"
    BY DEF Record
  <1>2. op \in Ops /\ command.key \in Keys /\ op.key = command.key
    BY CommandsAssumption DEF Keys
  <1>3. operations \in Seq(Ops) /\ log \in Seq(Keys)
    BY DEF KeysInv, KeysTypeOK
  <1> HIDE DEF op, Ops
  <1>4. /\ Len(operations) \in Nat /\ Len(log) \in Nat
        /\ Len(operations') = Len(operations) + 1 /\ Len(log') = Len(log) + 1
        /\ operations' \in Seq(Ops) /\ log' \in Seq(Keys)
    BY <1>1, <1>2, <1>3
  <1>5. /\ \A i \in 1 .. Len(operations) : operations'[i] = operations[i]
        /\ operations'[Len(operations) + 1] = op
        /\ \A i \in 1 .. Len(log) : log'[i] = log[i]
        /\ log'[Len(log) + 1] = command.key
    BY <1>1, <1>2, <1>3
  <1>6. KeysTypeOK'
    BY <1>1, <1>4 DEF KeysTypeOK, Ops
  <1>7. OperationsEndLog'
    <2>1. processedKeys' = KeysOf(operations')
      BY <1>1, <1>2, <1>3, KeysOfAppend DEF KeysInv, OperationsEndLog
    <2>2. ASSUME NEW i \in 1 .. Len(operations')
          PROVE  operations'[i].key = log'[Len(log') - Len(operations') + i]
      <3>1. CASE i = Len(operations) + 1
        BY <1>2, <1>4, <1>5, <3>1
      <3>2. CASE i \in 1 .. Len(operations)
        <4>1. operations[i].key = log[Len(log) - Len(operations) + i]
          BY <3>2 DEF KeysInv, OperationsEndLog
        <4>2. Len(log) - Len(operations) + i \in 1 .. Len(log)
          BY <1>4, <3>2 DEF KeysInv, OperationsEndLog
        <4> QED
          BY <1>4, <1>5, <3>2, <4>1, <4>2
      <3> QED
        BY <1>4, <3>1, <3>2
    <2>3. /\ Len(operations') <= Len(log')
          /\ Len(operations') = Len(log') \/ Len(operations') >= HistoryLimit
      BY <1>4, HistoryLimitAssumption DEF KeysInv, OperationsEndLog
    <2> QED
      BY <2>1, <2>2, <2>3 DEF OperationsEndLog
  <1>8. ActiveIsNew'
    BY <1>1 DEF ActiveIsNew
  <1>9. IdempotencyWindow'
    <2> SUFFICES ASSUME NEW i \in 1 .. Len(log) + 1, NEW j \in 1 .. Len(log) + 1,
                        i < j, log'[i] = log'[j]
                 PROVE  j - i > HistoryLimit
      BY <1>4 DEF IdempotencyWindow
    <2>1. CASE j \in 1 .. Len(log)
      <3>1. i \in DOMAIN log /\ j \in DOMAIN log
        BY <1>3, <1>4, <2>1
      <3>2. log[i] = log[j]
        BY <1>4, <1>5, <2>1
      <3> QED
        BY <3>1, <3>2 DEF KeysInv, IdempotencyWindow
    <2>2. CASE j = Len(log) + 1
      <3>1. i \in 1 .. Len(log) /\ log[i] = command.key
        BY <1>4, <1>5, <2>2
      <3>2. ASSUME i > Len(log) - Len(operations)
            PROVE  FALSE
        <4> DEFINE o == i - (Len(log) - Len(operations))
        <4>1. o \in 1 .. Len(operations) /\ Len(log) - Len(operations) + o = i
          BY <1>4, <3>1, <3>2 DEF KeysInv, OperationsEndLog
        <4> HIDE DEF o
        <4>2. operations[o].key = command.key
          BY <3>1, <4>1 DEF KeysInv, OperationsEndLog
        <4>3. command.key \in KeysOf(operations)
          BY <1>3, <4>1, <4>2 DEF KeysOf
        <4> QED
          BY <4>3 DEF KeysInv, OperationsEndLog
      <3> QED
        BY <1>4, <2>2, <3>1, <3>2, HistoryLimitAssumption DEF KeysInv, OperationsEndLog
    <2> QED
      BY <1>4, <2>1, <2>2
  <1> QED
    BY <1>6, <1>7, <1>8, <1>9 DEF KeysInv

\* Ending the turn, with or without compaction.
LEMMA EndTurnKeepsKeys ==
    ASSUME KeysInv, NEW type, NEW rest \in Seq(Commands), EndTurn(type, rest),
           log' = log, active = Null, active' = Null, pc' = "idle"
    PROVE  KeysInv'
  <1> DEFINE Ops == [key : Keys, type : CommandTypes, status : {"SUCCEEDED", "FAILED"}]
  <1>1. operations \in Seq(Ops) /\ log \in Seq(Keys)
    BY DEF KeysInv, KeysTypeOK
  <1> HIDE DEF Ops
  <1>2. inbox' \in Seq(Commands)
    <2>1. << >> \in Seq(Commands)
      OBVIOUS
    <2> QED
      BY <2>1 DEF EndTurn
  <1>3. ActiveIsNew' /\ IdempotencyWindow'
    BY DEF KeysInv, ActiveIsNew, IdempotencyWindow
  <1>4. CASE operations' = operations /\ processedKeys' = processedKeys
    BY <1>2, <1>3, <1>4 DEF KeysInv, KeysTypeOK, OperationsEndLog
  <1>5. CASE operations' = LastN(operations, HistoryLimit)
             /\ processedKeys' = KeysOf(LastN(operations, HistoryLimit))
    <2>0. /\ Len(operations) \in Nat /\ Len(log) \in Nat /\ HistoryLimit \in Nat
          /\ Len(operations) <= Len(log)
          /\ Len(operations) = Len(log) \/ Len(operations) >= HistoryLimit
      BY <1>1, HistoryLimitAssumption DEF KeysInv, OperationsEndLog
    <2>1. /\ operations' \in Seq(Ops)
          /\ Len(operations') = IF Len(operations) > HistoryLimit THEN HistoryLimit
                                ELSE Len(operations)
          /\ \A i \in 1 .. Len(operations') :
                operations'[i] = operations[Len(operations) - Len(operations') + i]
      BY <1>1, <1>5, <2>0, LastNSuffix
    <2>2. Len(operations') \in Nat /\ Len(operations') <= Len(operations)
      BY <2>0, <2>1
    <2>3. ASSUME NEW i \in 1 .. Len(operations')
          PROVE  operations'[i].key = log[Len(log) - Len(operations') + i]
      <3> DEFINE o == Len(operations) - Len(operations') + i
      <3>1. o \in 1 .. Len(operations)
            /\ Len(log) - Len(operations) + o = Len(log) - Len(operations') + i
        BY <2>0, <2>2
      <3>2. operations'[i] = operations[o]
        BY <2>1
      <3> HIDE DEF o
      <3>3. operations[o].key = log[Len(log) - Len(operations) + o]
        BY <3>1 DEF KeysInv, OperationsEndLog
      <3> QED
        BY <3>1, <3>2, <3>3
    <2>4. OperationsEndLog'
      <3>1. processedKeys' = KeysOf(operations')
        BY <1>5
      <3>2. Len(operations') = Len(log) \/ Len(operations') >= HistoryLimit
        BY <2>0, <2>1
      <3>3. Len(operations') <= Len(log)
        BY <2>0, <2>2
      <3> QED
        BY <2>3, <3>1, <3>2, <3>3 DEF OperationsEndLog
    <2>5. KeysTypeOK'
      BY <1>1, <1>2, <2>1 DEF KeysTypeOK, Ops
    <2> QED
      BY <1>3, <2>4, <2>5 DEF KeysInv
  <1> QED
    BY <1>4, <1>5 DEF EndTurn, compact

\* What receiving a new command gives.
LEMMA ReceiveFacts ==
    ASSUME KeysInv, NEW type, Receive(type)
    PROVE  /\ next \in Commands /\ next # Null
           /\ next.key \notin processedKeys
           /\ inbox' \in Seq(Commands)
           /\ active = Null
  <1>1. inbox \in Seq(Commands) /\ inbox # << >>
    BY DEF Receive, CanReceive, KeysInv, KeysTypeOK
  <1>2. next \in Commands /\ Tail(inbox) \in Seq(Commands)
    BY <1>1, HeadTailProperties DEF next
  <1>3. active = Null
    BY DEF Receive, CanReceive, KeysInv, ActiveIsNew
  <1> QED
    BY <1>2, <1>3, CommandsAssumption DEF Receive

\* A received command that blocks becomes the active operation.
LEMMA OperateKeepsKeys ==
    ASSUME KeysInv, NEW type, Receive(type), Operate, pc' \notin {"idle", "audit"}
    PROVE  KeysInv'
  <1>1. /\ next \in Commands /\ next # Null /\ next.key \notin processedKeys
        /\ inbox' \in Seq(Commands)
    BY ReceiveFacts
  <1>2. /\ active' = next
        /\ UNCHANGED <<operations, processedKeys, log>>
    BY DEF Operate, recordVars
  <1> QED
    BY <1>1, <1>2 DEF KeysInv, KeysTypeOK, OperationsEndLog, ActiveIsNew, IdempotencyWindow

\* A received command that does not block is recorded.
LEMMA RecordAtOnceKeepsKeys ==
    ASSUME KeysInv, NEW type, Receive(type), NEW succeeded \in BOOLEAN,
           RecordAtOnce(succeeded)
    PROVE  KeysInv'
  BY ReceiveFacts, RecordKeepsKeys DEF RecordAtOnce

\* An activity of a child workflow starts and ends inside the child workflow.
LEMMA WorkflowStepStaysInside ==
    ASSUME WorkflowStep
    PROVE  pc \in RolloutPCs /\ pc' \in RolloutPCs
  <1> USE DEF RolloutPCs, Proceed, Finish, Retry, AttemptFails, exit
  <1>1. CASE ValidateDeployment \/ ValidateDeploymentFails
    BY <1>1 DEF ValidateDeployment, ValidateDeploymentFails, afterLease
  <1>2. CASE AcquireCapacityLease \/ CapacityExhausted \/ AcquireCapacityLeaseFails
    BY <1>2 DEF AcquireCapacityLease, CapacityExhausted, AcquireCapacityLeaseFails, afterLease
  <1>3. CASE TriggerSavepoint \/ ObserveSavepoint \/ SavepointFails
    BY <1>3 DEF TriggerSavepoint, ObserveSavepoint, SavepointFails
  <1>4. CASE ApplyDeployment \/ ApplyDeploymentFails
    BY <1>4 DEF ApplyDeployment, ApplyDeploymentFails, WriteFails
  <1>5. CASE ObserveDeployment \/ ObserveDeploymentFails
    BY <1>5 DEF ObserveDeployment, HealthGate, ObserveDeploymentFails
  <1>6. CASE ApplyRollback \/ ApplyRollbackFails
    BY <1>6 DEF ApplyRollback, ApplyRollbackFails, WriteFails
  <1>7. CASE ReleaseCapacityLease \/ ReleaseCapacityLeaseFails
    BY <1>7 DEF ReleaseCapacityLease, ReleaseCapacityLeaseFails
  <1> QED
    BY <1>1, <1>2, <1>3, <1>4, <1>5, <1>6, <1>7 DEF WorkflowStep

\* A step that neither records nor receives keeps the keys.
LEMMA OtherStepsKeepKeys ==
    ASSUME KeysInv, UNCHANGED <<recordVars, active>>, inbox' \in Seq(Commands),
           pc \in {"idle", "audit"} <=> pc' \in {"idle", "audit"}
    PROVE  KeysInv'
  BY DEF KeysInv, KeysTypeOK, OperationsEndLog, ActiveIsNew, IdempotencyWindow, recordVars

\* Every step of the actor, of its children and of the cluster preserves the
\* bookkeeping of keys.
LEMMA KeysStep ==
    ASSUME KeysInv, [Next]_vars
    PROVE  KeysInv'
  <1> USE DEF RolloutPCs
  <1>0. inbox \in Seq(Commands)
    BY DEF KeysInv, KeysTypeOK
  <1>1. CASE SignalWorkflow
    <2>1. inbox' \in Seq(Commands)
      BY <1>0, <1>1 DEF SignalWorkflow
    <2> QED
      BY <1>1, <2>1, OtherStepsKeepKeys
         DEF SignalWorkflow, rolloutVars, childVars, actorVars
  <1>2. CASE ReceiveDuplicate
    <2>1. Tail(inbox) \in Seq(Commands)
      BY <1>0, <1>2, HeadTailProperties DEF ReceiveDuplicate, CanReceive
    <2>2. active = Null /\ pc' = "idle"
      BY <1>2 DEF ReceiveDuplicate, CanReceive, KeysInv, ActiveIsNew, rolloutVars, childVars
    <2> QED
      BY <1>2, <2>1, <2>2, EndTurnKeepsKeys DEF ReceiveDuplicate
  <1>3. CASE ReceiveDeploy
    BY <1>3, OperateKeepsKeys, RecordAtOnceKeepsKeys DEF ReceiveDeploy, Begin, RolloutInput
  <1>4. CASE ReceiveRollback
    BY <1>4, OperateKeepsKeys, RecordAtOnceKeepsKeys DEF ReceiveRollback, Begin, RolloutInput
  <1>5. CASE ReceiveScale
    BY <1>5, OperateKeepsKeys, RecordAtOnceKeepsKeys DEF ReceiveScale, Begin, RolloutInput
  <1>6. CASE ReceiveSavepoint
    BY <1>6, OperateKeepsKeys, RecordAtOnceKeepsKeys
       DEF ReceiveSavepoint, Begin, SavepointInput, NoInput
  <1>7. CASE ReceiveSetState
    BY <1>7, OperateKeepsKeys, RecordAtOnceKeepsKeys DEF ReceiveSetState
  <1>8. CASE ReceiveAutoscalerSwitch
    BY <1>8, RecordAtOnceKeepsKeys DEF ReceiveAutoscalerSwitch
  <1>9. CASE ReceiveContinueAsNew \/ ReceiveUnsupported
    BY <1>9, RecordAtOnceKeepsKeys DEF ReceiveContinueAsNew, ReceiveUnsupported
  <1>10. ASSUME NEW succeeded \in BOOLEAN, Record(active, succeeded), inbox' = inbox,
                pc \notin {"idle", "audit"}
         PROVE  KeysInv'
    <2>1. active \in Commands /\ active.key \notin processedKeys
      BY <1>10 DEF KeysInv, KeysTypeOK, ActiveIsNew
    <2> QED
      BY <1>0, <1>10, <2>1, RecordKeepsKeys
  <1>11. CASE ReturnFromRollout
    BY <1>10, <1>11 DEF ReturnFromRollout
  <1>12. CASE ReturnFromSavepoint
    BY <1>10, <1>12 DEF ReturnFromSavepoint
  <1>13. CASE SetJobState
    <2>1. CASE active.type = "Resume"
      BY <1>0, <1>13, <2>1, OtherStepsKeepKeys DEF SetJobState
    <2>2. CASE active.type # "Resume"
      BY <1>10, <1>13, <2>2 DEF SetJobState
    <2> QED
      BY <2>1, <2>2
  <1>14. CASE SetJobStateFails
    BY <1>0, <1>10, <1>14, OtherStepsKeepKeys DEF SetJobStateFails, RetryActivity, Retry
  <1>15. CASE ObserveResumed
    BY <1>10, <1>15 DEF ObserveResumed
  <1>16. CASE ObserveResumedFails
    BY <1>0, <1>10, <1>16, OtherStepsKeepKeys DEF ObserveResumedFails, RetryActivity, Retry
  <1>17. CASE RecordAudit
    <2>1. active = Null
      BY <1>17 DEF RecordAudit, KeysInv, ActiveIsNew
    <2> QED
      BY <1>0, <1>17, <2>1, EndTurnKeepsKeys DEF RecordAudit
  <1>18. CASE ChildStep
    BY <1>0, <1>18, WorkflowStepStaysInside, OtherStepsKeepKeys DEF ChildStep, actorVars
  <1>19. CASE ClusterStep
    BY <1>0, <1>19, OtherStepsKeepKeys
       DEF ClusterStep, WorldStep, LateWriteLands, LeaseExpires, childVars, actorVars
  <1>20. CASE UNCHANGED vars
    BY <1>0, <1>20, OtherStepsKeepKeys DEF vars, rolloutVars, childVars, actorVars
  <1> QED
    BY <1>1, <1>2, <1>3, <1>4, <1>5, <1>6, <1>7, <1>8, <1>9, <1>11, <1>12, <1>13, <1>14,
       <1>15, <1>16, <1>17, <1>18, <1>19, <1>20
       DEF Next, ReceiveStep, CompleteStep

\* A retried command runs again only if more than HistoryLimit operations have been
\* recorded since: no crash, duplicate, failure or continue-as-new shortens the
\* window (deployment_actor.go:64-69, 127-128, 277-290).
THEOREM IdempotencyWindowHolds == Spec => []IdempotencyWindow
  <1>1. Init => KeysInv
    BY HistoryLimitAssumption
       DEF Init, KeysInv, KeysTypeOK, OperationsEndLog, ActiveIsNew, IdempotencyWindow, KeysOf
  <1>2. KeysInv /\ [Next]_vars => KeysInv'
    BY KeysStep
  <1>3. KeysInv => IdempotencyWindow
    BY DEF KeysInv
  <1> QED
    BY <1>1, <1>2, <1>3, PTL DEF Spec

-----------------------------------------------------------------------------
(***************************************************************************)
(* Part 2: versions.                                                       *)
(***************************************************************************)

-----------------------------------------------------------------------------
(* Values.                                                                 *)

\* The result and the input of a child workflow.
Inputs == [current : Versions \cup {Null}, target : Specs \cup {Null},
           approved : BOOLEAN, incident : BOOLEAN, kind : {"none", "rollout", "savepoint"}]
Results == [version : Versions \cup {Null}, savepoint : Savepoints \cup {Null},
            leaseID : LeaseIDs \cup {Null}]

\* A version that is marked healthy or given a savepoint keeps its id and its spec.
LEMMA UpdatedVersion ==
    ASSUME NEW version \in Versions, NEW savepoint \in Savepoints \cup {Null},
           NEW healthy \in BOOLEAN
    PROVE  /\ [version EXCEPT !.healthy = healthy] \in Versions
           /\ Ids([version EXCEPT !.healthy = healthy]) = Ids(version)
           /\ [version EXCEPT !.savepointURI = savepoint] \in Versions
           /\ Ids([version EXCEPT !.savepointURI = savepoint]) = Ids(version)
    BY DEF Versions, Ids

\* A version record is well typed and has the id and the spec it was built from.
LEMMA BuiltVersion ==
    ASSUME NEW id \in Nat, NEW spec \in Specs
    PROVE  BuildVersion(id, spec) \in Versions /\ Ids(BuildVersion(id, spec)) = <<id, spec>>
    BY DEF BuildVersion, Versions, Ids

\* Applying a version, and patching the job state, are writes of the right type.
LEMMA WriteTypes ==
    /\ \A version \in Versions : \A previous : ApplyWrite(version, previous) \in Writes
    /\ \A state \in {"RUNNING", "SUSPENDED"} : JobWrite(state) \in Writes
  <1>1. ASSUME NEW version \in Versions, NEW previous
        PROVE  Applied(version, previous) \in Runtimes
    <2>1. upgradeMode(version, previous, input.incident, Policy.gitOpsOnly)
             \in {"stateless", "last-state", "savepoint"}
      BY DEF upgradeMode
    <2> QED
      BY <2>1 DEF Applied, Runtimes, Versions
  <1> QED
    BY <1>1 DEF ApplyWrite, JobWrite, Writes

\* The FlinkDeployment stays one, whatever is written.
LEMMA WrittenType ==
    ASSUME WorldTypeOK, NEW write \in Writes
    PROVE  Written(write) \in Runtimes \cup {Null}
  <1>1. ASSUME runtime \in Runtimes
        PROVE  [runtime EXCEPT !.job = write.job] \in Runtimes
    BY <1>1 DEF Runtimes, Writes
  <1> QED
    BY <1>1 DEF Written, Writes, WorldTypeOK

\* A write attempt, answered or not, keeps the cluster well typed.
LEMMA WriteKeepsWorld ==
    ASSUME WorldTypeOK, NEW write \in Writes, leases' \subseteq LeaseIDs, UNCHANGED leaky,
           \/ WriteSucceeds(write)
           \/ \E n : WriteFails(write, n)
    PROVE  WorldTypeOK'
  <1>1. runtime' \in Runtimes \cup {Null}
    BY WrittenType DEF WriteSucceeds, WriteFails, WorldTypeOK
  <1>2. late' \subseteq Writes
    BY DEF WriteSucceeds, WriteFails, WorldTypeOK
  <1>3. unconfirmed' \in BOOLEAN
    BY DEF WriteSucceeds, WriteFails, WorldTypeOK
  <1> QED
    BY <1>1, <1>2, <1>3 DEF WorldTypeOK

-----------------------------------------------------------------------------
(* Steps of the child workflow.                                            *)

\* Where the child workflow is, and what it has established so far.
LEMMA ChildFacts ==
    ASSUME VersionsInv, pc \in RolloutPCs
    PROVE  /\ input \in Inputs /\ result \in Results
           /\ input.current = currentVersion
           /\ \/ input.kind = "rollout" /\ RolloutOfActive
              \/ input.kind = "savepoint" /\ SavepointOfActive
           /\ pc \in {"trigger", "awaitSavepoint", "rollback"} => input.current # Null
           /\ pc \notin {"trigger", "awaitSavepoint", "return"} => input.kind = "rollout"
           /\ pc \in {"apply", "observe", "rollback"} => result.version \in Versions
  <1>1. input \in Inputs /\ result \in Results
    BY DEF VersionsInv, TypeOK, ChildTypeOK, Inputs, Results
  <1>2. /\ input.current = currentVersion
        /\ \/ input.kind = "rollout" /\ RolloutOfActive
           \/ input.kind = "savepoint" /\ SavepointOfActive
        /\ pc \in {"trigger", "awaitSavepoint", "rollback"} => input.current # Null
    BY DEF VersionsInv, ChildInv
  <1>3. pc \notin {"trigger", "awaitSavepoint", "return"} => input.kind = "rollout"
    BY <1>2 DEF SavepointOfActive
  <1>4. pc \in {"apply", "observe", "rollback"} => result.version \in Versions
    BY <1>1, <1>2, <1>3 DEF RolloutOfActive, Admitted, Results
  <1> QED
    BY <1>1, <1>2, <1>3, <1>4

\* A step of the child workflow that leaves its result alone.
LEMMA ResultKept ==
    ASSUME VersionsInv, pc \in RolloutPCs, pc' \in RolloutPCs,
           UNCHANGED <<input, result>>, UNCHANGED actorVars,
           input.kind = "rollout" =>
               \/ pc \notin {"validate", "return"}
               \/ pc' \in {"validate", "return"} /\ outcome' # "ok"
               \/ pc' = pc /\ outcome' = outcome,
           pc' \in {"apply", "observe", "rollback"} => pc \in {"apply", "observe", "rollback"},
           pc' \in {"release", "return"} /\ outcome' = "ok" =>
               pc \in {"release", "return"} /\ outcome' = outcome,
           input.kind = "savepoint" => pc' \in {"trigger", "awaitSavepoint", "return"},
           pc' \in {"trigger", "awaitSavepoint", "rollback"} => currentVersion # Null
    PROVE  ChildInv'
  <1>1. UNCHANGED <<currentVersion, versions, active>>
    BY DEF actorVars, versionVars
  <1>2. Admitted' = Admitted
    BY DEF Admitted, nextVersionID, Ids
  <1>s. Saved' = Saved
    BY DEF Saved, classification
  <1>r. RecordedSpecs' = RecordedSpecs
    BY <1>1 DEF RecordedSpecs
  <1>3. ASSUME input.kind = "rollout"
        PROVE  RolloutOfActive'
    <2>1. RolloutOfActive
      BY <1>3, ChildFacts
    <2>2. pc' \notin {"validate", "return"} \/ outcome' = "ok" => Admitted
      BY <1>3, <2>1 DEF RolloutOfActive
    <2>3. (\/ pc' \in {"apply", "observe", "rollback"}
           \/ pc' \in {"release", "return"} /\ outcome' = "ok") => Saved
      BY <2>1 DEF RolloutOfActive
    <2> QED
      BY <1>1, <1>2, <1>r, <1>s, <2>1, <2>2, <2>3 DEF RolloutOfActive
  <1>4. input.kind = "savepoint" => SavepointOfActive'
    BY <1>1, ChildFacts DEF SavepointOfActive
  <1>5. pc' \notin {"setState", "resumeObserve"}
    BY DEF RolloutPCs
  <1> QED
    BY <1>1, <1>3, <1>4, <1>5, ChildFacts DEF ChildInv

\* Every attempt of a child activity keeps the types and what the child has established.
LEMMA ChildKeeps ==
    ASSUME VersionsInv, ChildStep
    PROVE  ChildTypeOK' /\ WorldTypeOK' /\ ChildInv'
  <1> USE DEF RolloutPCs
  <1>0. /\ UNCHANGED <<inbox, actorVars, sentVars>>
        /\ UNCHANGED <<currentVersion, versions, active>>
        /\ pc \in RolloutPCs /\ pc' \in RolloutPCs
        /\ WorkflowStep
        /\ ChildTypeOK /\ WorldTypeOK
    BY WorkflowStepStaysInside DEF ChildStep, actorVars, versionVars, VersionsInv, TypeOK
  <1>a. attempts \in Nat /\ MaxAttempts \in Nat \ {0} /\ attempts <= MaxAttempts - 1
    BY <1>0, MaxAttemptsAssumption DEF ChildTypeOK
  <1>b. Retry => attempts' \in 0 .. MaxAttempts - 1 /\ pc' = pc /\ outcome' = outcome
    BY <1>a DEF Retry
  <1>c. \A n : Proceed(n) => attempts' \in 0 .. MaxAttempts - 1 /\ pc' = n
    BY <1>a DEF Proceed
  <1>d. \A n, v : Finish(n, v) => attempts' \in 0 .. MaxAttempts - 1 /\ pc' = n /\ outcome' = v
    BY <1>c DEF Finish
  <1>e. ASSUME UNCHANGED <<input, result>>, attempts' \in 0 .. MaxAttempts - 1,
               outcome' \in {"none", "ok", "failed"}
        PROVE  ChildTypeOK'
    BY <1>0, <1>e DEF ChildTypeOK
  <1>f. result.leaseID # Null => input.kind = "rollout"
    BY <1>0, ChildFacts DEF SavepointOfActive
  <1>g. exit \in {"return", "release"}
    BY DEF exit
  <1>h. /\ afterLease \in {"trigger", "apply"}
        /\ afterLease = "trigger" => input.current # Null
        /\ afterLease = "apply" => (classification.requiresSavepoint => input.current = Null)
    BY DEF afterLease
  <1>i. ASSUME input' = input, RolloutOfActive, Admitted',
               (\/ pc' \in {"apply", "observe", "rollback"}
                \/ pc' \in {"release", "return"} /\ outcome' = "ok") => Saved'
        PROVE  RolloutOfActive'
    <2>1. RecordedSpecs' = RecordedSpecs
      BY <1>0 DEF RecordedSpecs
    <2> QED
      BY <1>0, <1>i, <2>1 DEF RolloutOfActive
  <1>1. CASE ValidateDeployment
    <2>0. pc = "validate" /\ UNCHANGED input /\ input \in Inputs /\ result \in Results
          /\ input.kind = "rollout" /\ input.current = currentVersion /\ RolloutOfActive
      BY <1>0, <1>1, ChildFacts DEF ValidateDeployment
    <2>1. CASE Admits(input.current, input.target, input.approved, input.incident, Policy)
      <3> DEFINE version == BuildVersion(nextVersionID, input.target)
      <3>1. input.target \in Specs /\ nextVersionID \in Nat
        BY <2>0 DEF RolloutOfActive, nextVersionID, Inputs, Versions
      <3>2. version \in Versions /\ Ids(version) = <<nextVersionID, input.target>>
        BY <3>1, BuiltVersion
      <3> HIDE DEF version
      <3>3. result' = [result EXCEPT !.version = version]
            /\ outcome' = outcome /\ attempts' \in 0 .. MaxAttempts - 1
            /\ pc' \in {"acquire", "trigger", "apply"}
            /\ (pc' = "trigger" => input.current # Null)
            /\ (pc' = "apply" => (classification.requiresSavepoint => input.current = Null))
        BY <1>1, <1>c, <1>h, <2>1 DEF ValidateDeployment, version
      <3>4. result' \in Results /\ result'.version = version
        BY <2>0, <3>2, <3>3 DEF Results
      <3>5. Admitted'
        BY <2>0, <2>1, <3>2, <3>4, NullAssumption DEF Admitted, nextVersionID, Ids
      <3>6. RolloutOfActive'
        BY <1>i, <2>0, <3>3, <3>5 DEF Saved, classification
      <3>7. ChildInv'
        BY <1>0, <2>0, <3>3, <3>6 DEF ChildInv
      <3>8. ChildTypeOK'
        BY <1>0, <2>0, <3>3, <3>4 DEF ChildTypeOK, Results
      <3> QED
        BY <1>0, <1>1, <3>7, <3>8 DEF ValidateDeployment, WorldTypeOK, worldVars
    <2>2. CASE ~Admits(input.current, input.target, input.approved, input.incident, Policy)
      <3>1. Finish("return", "failed") /\ UNCHANGED result
        BY <1>1, <2>2 DEF ValidateDeployment
      <3>2. ChildTypeOK' /\ ChildInv'
        BY <1>0, <1>d, <1>e, <2>0, <3>1, ResultKept
      <3> QED
        BY <1>0, <1>1, <3>2 DEF ValidateDeployment, WorldTypeOK, worldVars
    <2> QED
      BY <2>1, <2>2
  <1>2. CASE ValidateDeploymentFails
    <2>1. Retry \/ Finish("return", "failed")
      BY <1>2 DEF ValidateDeploymentFails, AttemptFails
    <2>2. ChildTypeOK' /\ ChildInv'
      BY <1>0, <1>2, <1>b, <1>d, <1>e, <2>1, ResultKept, ChildFacts
         DEF ValidateDeploymentFails, ChildTypeOK
    <2> QED
      BY <1>0, <1>2, <2>2 DEF ValidateDeploymentFails, WorldTypeOK, worldVars
  <1>3. CASE AcquireCapacityLease
    <2>0. pc = "acquire" /\ UNCHANGED <<input, outcome>> /\ input \in Inputs /\ result \in Results
          /\ input.kind = "rollout" /\ input.current = currentVersion /\ RolloutOfActive
          /\ Admitted
      BY <1>0, <1>3, ChildFacts DEF AcquireCapacityLease, RolloutOfActive
    <2>1. PICK id \in LeaseIDs : /\ leases' = leases \cup {id}
                                 /\ result' = [result EXCEPT !.leaseID = id]
      BY <1>3 DEF AcquireCapacityLease
    <2>2. result' \in Results /\ result'.version = result.version
      BY <2>0, <2>1 DEF Results
    <2>3. /\ pc' \in {"trigger", "apply"} /\ (pc' = "trigger" => input.current # Null)
          /\ pc' = "apply" => (classification.requiresSavepoint => input.current = Null)
          /\ attempts' \in 0 .. MaxAttempts - 1
      BY <1>3, <1>c, <1>h DEF AcquireCapacityLease
    <2>4. RolloutOfActive'
      <3>1. Admitted'
        BY <2>0, <2>2 DEF Admitted, nextVersionID, Ids
      <3> QED
        BY <1>i, <2>0, <2>3, <3>1 DEF Saved, classification
    <2>5. ChildInv'
      BY <1>0, <2>0, <2>3, <2>4 DEF ChildInv
    <2>6. ChildTypeOK'
      BY <1>0, <2>0, <2>2, <2>3 DEF ChildTypeOK, Results
    <2>7. WorldTypeOK'
      BY <1>0, <1>3, <2>1 DEF AcquireCapacityLease, WorldTypeOK
    <2> QED
      BY <2>5, <2>6, <2>7
  <1>4. CASE CapacityExhausted
    <2>1. Retry \/ Finish("return", "failed")
      BY <1>4 DEF CapacityExhausted
    <2>2. ChildTypeOK' /\ ChildInv'
      BY <1>0, <1>4, <1>b, <1>d, <1>e, <2>1, ResultKept, ChildFacts
         DEF CapacityExhausted, ChildTypeOK
    <2> QED
      BY <1>0, <1>4, <2>2 DEF CapacityExhausted, WorldTypeOK, worldVars
  <1>5. CASE AcquireCapacityLeaseFails
    <2>1. Retry \/ Finish("return", "failed")
      BY <1>5 DEF AcquireCapacityLeaseFails, AttemptFails
    <2>2. ChildTypeOK' /\ ChildInv'
      BY <1>0, <1>5, <1>b, <1>d, <1>e, <2>1, ResultKept, ChildFacts
         DEF AcquireCapacityLeaseFails, ChildTypeOK
    <2>3. WorldTypeOK'
      BY <1>0, <1>5 DEF AcquireCapacityLeaseFails, WorldTypeOK
    <2> QED
      BY <2>2, <2>3
  <1>6. CASE TriggerSavepoint
    <2>1. ChildTypeOK' /\ ChildInv'
      BY <1>0, <1>6, <1>c, <1>e, ResultKept, ChildFacts DEF TriggerSavepoint, ChildTypeOK
    <2> QED
      BY <1>0, <1>6, <2>1 DEF TriggerSavepoint, WorldTypeOK, worldVars
  <1>7. CASE ObserveSavepoint
    <2>0. pc = "awaitSavepoint" /\ UNCHANGED input /\ input \in Inputs /\ result \in Results
          /\ input.current = currentVersion /\ input.current # Null
      BY <1>0, <1>7, ChildFacts DEF ObserveSavepoint
    <2>1. SavepointRecord \in Savepoints /\ SavepointRecord # Null
      BY <1>0, <2>0, NullAssumption
         DEF SavepointRecord, Savepoints, Inputs, Versions, WorldTypeOK, Runtimes
    <2>2. CASE input.kind = "rollout"
      <3>0. RolloutOfActive /\ Admitted /\ result.version \in Versions
        BY <1>0, <2>0, <2>2, ChildFacts DEF RolloutOfActive, Admitted, Results
      <3>1. /\ result' = [result EXCEPT !.savepoint = SavepointRecord,
                                        !.version.savepointURI = SavepointRecord]
            /\ pc' = "apply" /\ outcome' = outcome /\ attempts' \in 0 .. MaxAttempts - 1
        BY <1>7, <1>c, <2>2 DEF ObserveSavepoint
      <3>2. result'.version = [result.version EXCEPT !.savepointURI = SavepointRecord]
            /\ result'.savepoint = SavepointRecord /\ result'.leaseID = result.leaseID
        BY <2>0, <3>1 DEF Results
      <3>3. /\ result'.version \in Versions /\ Ids(result'.version) = Ids(result.version)
            /\ result'.version.savepointURI = SavepointRecord
        BY <2>1, <3>0, <3>2 DEF Versions, Ids
      <3>4. result' \in Results
        BY <2>0, <2>1, <3>1, <3>2, <3>3 DEF Results
      <3>5. RolloutOfActive'
        <4>1. Admitted'
          BY <2>0, <3>0, <3>3, NullAssumption DEF Admitted, nextVersionID, Ids
        <4>2. Saved'
          BY <2>0, <2>1, <3>3 DEF Saved, SavepointRecord
        <4> QED
          BY <1>i, <2>0, <3>0, <4>1, <4>2
      <3>6. ChildInv'
        BY <1>0, <2>0, <2>2, <3>1, <3>5 DEF ChildInv
      <3>7. ChildTypeOK'
        BY <1>0, <2>0, <3>1, <3>4 DEF ChildTypeOK, Results
      <3> QED
        BY <1>0, <1>7, <3>6, <3>7 DEF ObserveSavepoint, WorldTypeOK, worldVars
    <2>3. CASE input.kind = "savepoint"
      <3>1. /\ result' = [result EXCEPT !.savepoint = SavepointRecord]
            /\ pc' = "return" /\ outcome' = "ok" /\ attempts' \in 0 .. MaxAttempts - 1
        BY <1>7, <1>d, <2>3 DEF ObserveSavepoint
      <3>2. result' \in Results /\ result'.leaseID = result.leaseID
        BY <2>0, <2>1, <3>1 DEF Results
      <3>3. ChildInv'
        BY <1>0, <2>0, <2>3, <3>1, <3>2, ChildFacts DEF ChildInv, SavepointOfActive
      <3>4. ChildTypeOK'
        BY <1>0, <2>0, <3>1, <3>2 DEF ChildTypeOK, Results
      <3> QED
        BY <1>0, <1>7, <3>3, <3>4 DEF ObserveSavepoint, WorldTypeOK, worldVars
    <2> QED
      BY <1>0, <2>2, <2>3, ChildFacts
  <1>8. CASE SavepointFails
    <2>1. Retry \/ Finish(exit, "failed")
      BY <1>8 DEF SavepointFails
    <2>2. exit \in {"return", "release"} /\ (exit = "release" => input.kind = "rollout")
      BY <1>f DEF exit
    <2>3. ChildTypeOK' /\ ChildInv'
      BY <1>0, <1>8, <1>b, <1>d, <1>e, <2>1, <2>2, ResultKept, ChildFacts
         DEF SavepointFails, ChildTypeOK
    <2> QED
      BY <1>0, <1>8, <2>3 DEF SavepointFails, WorldTypeOK, worldVars
  <1>9. CASE ApplyDeployment
    <2>0. pc = "apply" /\ result.version \in Versions
      BY <1>0, <1>9, ChildFacts DEF ApplyDeployment
    <2>1. ChildTypeOK' /\ ChildInv'
      BY <1>0, <1>9, <1>c, <1>e, <2>0, ResultKept, ChildFacts DEF ApplyDeployment, ChildTypeOK
    <2>2. WorldTypeOK'
      BY <1>0, <1>9, <2>0, WriteTypes, WriteKeepsWorld DEF ApplyDeployment, WorldTypeOK
    <2> QED
      BY <2>1, <2>2
  <1>10. CASE ApplyDeploymentFails
    <2>0. pc = "apply" /\ result.version \in Versions
      BY <1>0, <1>10, ChildFacts DEF ApplyDeploymentFails
    <2>1. Retry \/ Finish(exit, "failed")
      BY <1>10 DEF ApplyDeploymentFails, WriteFails
    <2>2. ChildTypeOK' /\ ChildInv'
      BY <1>0, <1>10, <1>b, <1>d, <1>e, <1>g, <2>0, <2>1, ResultKept, ChildFacts
         DEF ApplyDeploymentFails, ChildTypeOK
    <2>3. WorldTypeOK'
      BY <1>0, <1>10, <2>0, WriteTypes, WriteKeepsWorld DEF ApplyDeploymentFails, WorldTypeOK
    <2> QED
      BY <2>2, <2>3
  <1>11. CASE ObserveDeployment
    <2>0. pc = "observe" /\ UNCHANGED input /\ input \in Inputs /\ result \in Results
          /\ input.kind = "rollout" /\ input.current = currentVersion /\ RolloutOfActive
          /\ Admitted /\ result.version \in Versions
      BY <1>0, <1>11, ChildFacts DEF ObserveDeployment, HealthGate, RolloutOfActive
    <2>1. CASE result' = [result EXCEPT !.version.healthy = TRUE] /\ Finish(exit, "ok")
      <3>1. result'.version = [result.version EXCEPT !.healthy = TRUE]
            /\ result'.savepoint = result.savepoint /\ result'.leaseID = result.leaseID
        BY <2>0, <2>1 DEF Results
      <3>2. /\ result'.version \in Versions /\ Ids(result'.version) = Ids(result.version)
            /\ result'.version.savepointURI = result.version.savepointURI
        BY <2>0, <3>1 DEF Versions, Ids
      <3>3. result' \in Results
        BY <2>0, <2>1, <3>1, <3>2 DEF Results
      <3>4. RolloutOfActive'
        <4>1. Admitted'
          BY <2>0, <3>2, NullAssumption DEF Admitted, nextVersionID, Ids
        <4>2. Saved'
          BY <2>0, <3>2 DEF RolloutOfActive, Saved, classification
        <4> QED
          BY <1>i, <2>0, <4>1, <4>2
      <3>5. pc' \in {"return", "release"} /\ outcome' = "ok" /\ attempts' \in 0 .. MaxAttempts - 1
        BY <1>d, <1>g, <2>1
      <3>6. ChildInv'
        BY <1>0, <2>0, <3>4, <3>5 DEF ChildInv
      <3> QED
        BY <1>0, <1>11, <2>0, <3>3, <3>5, <3>6
           DEF ObserveDeployment, HealthGate, ChildTypeOK, Results, WorldTypeOK, worldVars
    <2>2. CASE UNCHANGED result
               /\ \/ Finish(exit, "failed")
                  \/ input.current # Null /\ Proceed("rollback") /\ UNCHANGED outcome
      <3>1. ChildTypeOK' /\ ChildInv'
        BY <1>0, <1>c, <1>d, <1>e, <1>g, <2>0, <2>2, ResultKept DEF ChildTypeOK
      <3> QED
        BY <1>0, <1>11, <3>1 DEF ObserveDeployment, HealthGate, WorldTypeOK, worldVars
    <2> QED
      BY <1>11, <2>1, <2>2 DEF ObserveDeployment, HealthGate
  <1>12. CASE ObserveDeploymentFails
    <2>1. Retry \/ Finish(exit, "failed")
      BY <1>12 DEF ObserveDeploymentFails
    <2>2. ChildTypeOK' /\ ChildInv'
      BY <1>0, <1>12, <1>b, <1>d, <1>e, <1>g, <2>1, ResultKept, ChildFacts
         DEF ObserveDeploymentFails, ChildTypeOK
    <2>3. WorldTypeOK'
      BY <1>0, <1>12 DEF ObserveDeploymentFails, WorldTypeOK, worldVars
    <2> QED
      BY <2>2, <2>3
  <1>r. pc = "rollback" => rollbackVersion \in Versions
    BY <1>0, ChildFacts, UpdatedVersion DEF rollbackVersion, Inputs, Results
  <1>13. CASE ApplyRollback
    <2>1. ChildTypeOK' /\ ChildInv'
      BY <1>0, <1>13, <1>d, <1>e, <1>g, ResultKept, ChildFacts DEF ApplyRollback
    <2>2. WorldTypeOK'
      BY <1>0, <1>13, <1>r, WriteTypes, WriteKeepsWorld DEF ApplyRollback, WorldTypeOK
    <2> QED
      BY <2>1, <2>2
  <1>14. CASE ApplyRollbackFails
    <2>1. Retry \/ Finish(exit, "failed")
      BY <1>14 DEF ApplyRollbackFails, WriteFails
    <2>2. ChildTypeOK' /\ ChildInv'
      BY <1>0, <1>14, <1>b, <1>d, <1>e, <1>g, <2>1, ResultKept, ChildFacts
         DEF ApplyRollbackFails, ChildTypeOK
    <2>3. WorldTypeOK'
      BY <1>0, <1>14, <1>r, WriteTypes, WriteKeepsWorld DEF ApplyRollbackFails, WorldTypeOK
    <2> QED
      BY <2>2, <2>3
  <1>15. CASE ReleaseCapacityLease
    <2>1. ChildTypeOK' /\ ChildInv'
      BY <1>0, <1>15, <1>c, <1>e, ResultKept, ChildFacts DEF ReleaseCapacityLease, ChildTypeOK
    <2> QED
      BY <1>0, <1>15, <2>1 DEF ReleaseCapacityLease, WorldTypeOK
  <1>16. CASE ReleaseCapacityLeaseFails
    <2>1. Retry \/ Finish("return", outcome)
      BY <1>16 DEF ReleaseCapacityLeaseFails, AttemptFails
    <2>2. ChildTypeOK' /\ ChildInv'
      BY <1>0, <1>16, <1>b, <1>d, <1>e, <2>1, ResultKept, ChildFacts
         DEF ReleaseCapacityLeaseFails, ChildTypeOK
    <2>3. WorldTypeOK'
      BY <1>0, <1>16 DEF ReleaseCapacityLeaseFails, WorldTypeOK
    <2> QED
      BY <2>2, <2>3
  <1> QED
    BY <1>0, <1>1, <1>2, <1>3, <1>4, <1>5, <1>6, <1>7, <1>8, <1>9, <1>10, <1>11, <1>12,
       <1>13, <1>14, <1>15, <1>16 DEF WorkflowStep

-----------------------------------------------------------------------------
(* Versions.                                                               *)

VersionPart ==
    /\ VersionTypeOK
    /\ VersionsContiguous
    /\ VersionsAreLegalChanges
    /\ lastHealthyVersion = Null <=> currentVersion = Null

\* A step that touches no version.
LEMMA VersionsUntouched ==
    ASSUME VersionPart, UNCHANGED versionVars, lastSavepoint' \in Savepoints \cup {Null}
    PROVE  VersionPart'
  BY DEF VersionPart, VersionTypeOK, VersionsContiguous, VersionsAreLegalChanges,
         versionVars, Ids

\* Compaction keeps the newest version and drops the oldest ones.
LEMMA EndTurnKeepsVersions ==
    ASSUME VersionPart, NEW type, NEW rest, EndTurn(type, rest),
           UNCHANGED <<currentVersion, lastHealthyVersion, endorsed, lastSavepoint>>
    PROVE  /\ VersionPart'
           /\ RecordedSpecs' \subseteq RecordedSpecs
           /\ currentVersion # Null => currentVersion.spec \in RecordedSpecs'
  <1>1. versions \in Seq(Versions) /\ Len(versions) \in Nat /\ HistoryLimit \in Nat \ {0}
    BY HistoryLimitAssumption DEF VersionPart, VersionTypeOK
  <1>2. /\ versions' \in Seq(Versions) /\ Len(versions') \in Nat
        /\ Len(versions') <= Len(versions)
        /\ Len(versions') = 0 <=> Len(versions) = 0
        /\ \A i \in 1 .. Len(versions') :
              versions'[i] = versions[Len(versions) - Len(versions') + i]
    <2>1. CASE versions' = versions
      BY <1>1, <2>1
    <2>2. CASE versions' = LastN(versions, HistoryLimit)
      BY <1>1, <2>2, LastNSuffix
    <2> QED
      BY <2>1, <2>2 DEF EndTurn, compact
  <1>3. shared' \in BOOLEAN
    BY DEF EndTurn, VersionPart, VersionTypeOK
  <1>4. \A i \in 1 .. Len(versions') - 1 : versions'[i + 1].versionId = versions'[i].versionId + 1
    <2> SUFFICES ASSUME NEW i \in 1 .. Len(versions') - 1
                 PROVE  versions'[i + 1].versionId = versions'[i].versionId + 1
      OBVIOUS
    <2> DEFINE o == Len(versions) - Len(versions') + i
    <2>1. o \in 1 .. Len(versions) - 1
          /\ Len(versions) - Len(versions') + (i + 1) = o + 1
      BY <1>1, <1>2
    <2>2. versions'[i] = versions[o]
      BY <1>2
    <2>3. versions'[i + 1] = versions[o + 1]
      BY <1>2, <2>1
    <2> HIDE DEF o
    <2> QED
      BY <2>1, <2>2, <2>3 DEF VersionPart, VersionsContiguous
  <1>5. versions # << >> => versions'[Len(versions')] = versions[Len(versions)]
    BY <1>1, <1>2
  <1>6. VersionsContiguous'
    BY <1>1, <1>2, <1>4, <1>5 DEF VersionPart, VersionsContiguous, Ids
  <1>l. VersionsAreLegalChanges'
    <2> SUFFICES ASSUME NEW i \in 1 .. Len(versions') - 1
                 PROVE  \E o \in 1 .. Len(versions) - 1 :
                            versions'[i] = versions[o] /\ versions'[i + 1] = versions[o + 1]
      BY DEF VersionPart, VersionsAreLegalChanges
    <2> DEFINE o == Len(versions) - Len(versions') + i
    <2>1. o \in 1 .. Len(versions) - 1
          /\ Len(versions) - Len(versions') + (i + 1) = o + 1
      BY <1>1, <1>2
    <2>2. versions'[i] = versions[o]
      BY <1>2
    <2>3. versions'[i + 1] = versions[o + 1]
      BY <1>2, <2>1
    <2> HIDE DEF o
    <2> QED
      BY <2>1, <2>2, <2>3
  <1>7. VersionPart'
    BY <1>2, <1>3, <1>6, <1>l DEF VersionPart, VersionTypeOK
  <1>8. DOMAIN versions = 1 .. Len(versions) /\ DOMAIN versions' = 1 .. Len(versions')
    BY <1>1, <1>2
  <1>9. ASSUME NEW i \in DOMAIN versions'
        PROVE  \E j \in DOMAIN versions : versions'[i] = versions[j]
    <2>1. Len(versions) - Len(versions') + i \in DOMAIN versions
      BY <1>1, <1>2, <1>8
    <2> QED
      BY <1>2, <1>8, <2>1
  <1>10. currentVersion # Null =>
            /\ Len(versions') \in DOMAIN versions'
            /\ currentVersion.spec = versions'[Len(versions')].spec
    BY <1>1, <1>2, <1>5, <1>8 DEF VersionPart, VersionsContiguous, Ids
  <1> QED
    BY <1>7, <1>9, <1>10 DEF RecordedSpecs

\* A rollback leads to a spec that is still recorded, under the id it names if there
\* is one.
LEMMA RollbackTargetIsRecorded ==
    ASSUME VersionPart, rollbackTarget # Null
    PROVE  /\ rollbackTarget.spec \in Specs /\ rollbackTarget.spec \in RecordedSpecs
           /\ SpecsOf(next.targetVersion) # {}
                 => rollbackTarget.spec \in SpecsOf(next.targetVersion)
  <1> DEFINE found == {i \in DOMAIN versions : versions[i].versionId = next.targetVersion}
             first == CHOOSE i \in found : \A j \in found : i <= j
  <1>1. versions \in Seq(Versions) /\ Len(versions) \in Nat
    BY DEF VersionPart, VersionTypeOK
  <1>2. \A i \in DOMAIN versions : versions[i] \in Versions
    BY <1>1
  <1>3. CASE found # {}
    <2>1. found \subseteq Nat
      BY <1>1
    <2>2. \E i \in found : \A j \in found : i <= j
      <3> HIDE DEF found
      <3>1. PICK i \in found : \A j \in found : ~ (<<j, i>> \in OpToRel(<, Nat))
        BY <1>3, <2>1, NatLessThanWellFounded, WFMin
      <3>2. \A j \in found : ~ (j < i)
        BY <2>1, <3>1 DEF OpToRel
      <3> QED
        BY <2>1, <3>2
    <2>3. first \in found
      BY <2>2
    <2>4. rollbackTarget = versions[first]
      BY <1>3 DEF rollbackTarget
    <2>5. versions[first].spec \in SpecsOf(next.targetVersion)
      BY <2>3 DEF SpecsOf
    <2> HIDE DEF first
    <2> QED
      BY <1>2, <2>3, <2>4, <2>5 DEF Versions, RecordedSpecs
  <1>4. CASE found = {}
    <2>1. rollbackTarget = lastHealthyVersion
      BY <1>4 DEF rollbackTarget
    <2>2. currentVersion # Null /\ versions # << >>
      BY <2>1 DEF VersionPart, VersionsContiguous
    <2>3. rollbackTarget.spec = versions[Len(versions)].spec
      BY <2>1, <2>2 DEF VersionPart, VersionsContiguous, Ids
    <2>4. Len(versions) \in DOMAIN versions
      BY <1>1, <2>2
    <2>5. SpecsOf(next.targetVersion) = {}
      BY <1>4 DEF SpecsOf
    <2> QED
      BY <1>2, <2>3, <2>4, <2>5 DEF Versions, RecordedSpecs
  <1> QED
    BY <1>3, <1>4

-----------------------------------------------------------------------------
(* Steps of the actor and of the cluster.                                  *)

\* The cluster stays well typed.
LEMMA WorldStepKeeps ==
    ASSUME VersionsInv, [Next]_vars
    PROVE  WorldTypeOK'
  <1>0. WorldTypeOK
    BY DEF VersionsInv, TypeOK
  <1>1. CASE UNCHANGED <<worldVars, unconfirmed, leaky>>
    BY <1>0, <1>1 DEF WorldTypeOK, worldVars
  <1>2. SignalWorkflow \/ ReceiveStep => UNCHANGED <<worldVars, unconfirmed, leaky>>
    BY DEF SignalWorkflow, ReceiveStep, ReceiveDuplicate, ReceiveDeploy, ReceiveRollback,
           ReceiveScale, ReceiveSavepoint, ReceiveSetState, ReceiveAutoscalerSwitch,
           ReceiveContinueAsNew, ReceiveUnsupported, Operate, RecordAtOnce, rolloutVars
  <1>3. ReturnFromRollout \/ ReturnFromSavepoint \/ ObserveResumed \/ ObserveResumedFails
            \/ RecordAudit => UNCHANGED <<worldVars, unconfirmed, leaky>>
    BY DEF ReturnFromRollout, ReturnFromSavepoint, ObserveResumed, ObserveResumedFails,
           RecordAudit
  <1>4. JobWrite(desired) \in Writes
    BY WriteTypes DEF desired
  <1>5. CASE SetJobState
    <2>1. leases' \subseteq LeaseIDs /\ UNCHANGED leaky /\ WriteSucceeds(JobWrite(desired))
      BY <1>0, <1>5 DEF SetJobState, WorldTypeOK
    <2> QED
      BY <1>0, <1>4, <2>1, WriteKeepsWorld
  <1>6. CASE SetJobStateFails
    <2>1. runtime' \in Runtimes \cup {Null} /\ late' \subseteq Writes
      BY <1>0, <1>4, <1>6, WrittenType DEF SetJobStateFails, WorldTypeOK
    <2>2. unconfirmed' \in BOOLEAN /\ UNCHANGED <<leases, leaky>>
      BY <1>0, <1>6 DEF SetJobStateFails, WorldTypeOK
    <2> QED
      BY <1>0, <2>1, <2>2 DEF WorldTypeOK
  <1>7. CASE ChildStep
    BY <1>7, ChildKeeps
  <1>8. CASE ClusterStep
    <2>1. CASE LateWriteLands
      <3>1. PICK write \in late : late' = late \ {write} /\ runtime' = Written(write)
        BY <2>1 DEF LateWriteLands
      <3>2. write \in Writes
        BY <1>0, <3>1 DEF WorldTypeOK
      <3> QED
        BY <1>0, <2>1, <3>1, <3>2, WrittenType DEF LateWriteLands, WorldTypeOK
    <2>2. CASE LeaseExpires
      BY <1>0, <2>2 DEF LeaseExpires, WorldTypeOK
    <2> QED
      BY <1>8, <2>1, <2>2 DEF ClusterStep, WorldStep
  <1>9. UNCHANGED vars => UNCHANGED <<worldVars, unconfirmed, leaky>>
    BY DEF vars, rolloutVars
  <1> QED
    BY <1>1, <1>2, <1>3, <1>5, <1>6, <1>7, <1>8, <1>9 DEF Next, CompleteStep

\* The result of a rollout that succeeded.
LEMMA SuccessfulRollout ==
    ASSUME VersionsInv, pc = "return", input.kind = "rollout", outcome = "ok"
    PROVE  /\ RolloutOfActive /\ Admitted /\ Saved
           /\ result.version \in Versions
           /\ result.version.spec = input.target /\ input.target \in Specs
           /\ result.version.versionId =
                 IF currentVersion = Null THEN 1 ELSE currentVersion.versionId + 1
           /\ result.savepoint \in Savepoints \cup {Null}
           /\ active \in Commands /\ active # Null
           /\ input.current = currentVersion
  <1>1. pc \in RolloutPCs
    BY DEF RolloutPCs
  <1>2. /\ input \in Inputs /\ result \in Results /\ input.current = currentVersion
        /\ RolloutOfActive /\ Admitted /\ Saved
    BY <1>1, ChildFacts DEF RolloutOfActive
  <1>3. active \in Commands /\ active # Null
    BY DEF VersionsInv, KeysInv, KeysTypeOK, ActiveIsNew
  <1> QED
    BY <1>2, <1>3 DEF Admitted, RolloutOfActive, Ids, nextVersionID, Inputs, Results

\* Status, switches, keys and counters stay well typed.
LEMMA CountersKeep ==
    ASSUME VersionsInv, KeysInv', [Next]_vars
    PROVE  CounterTypeOK'
  <1>0. CounterTypeOK
    BY DEF VersionsInv, TypeOK
  <1>1. processedKeys' \subseteq Keys
    <2> DEFINE Ops == [key : Keys, type : CommandTypes, status : {"SUCCEEDED", "FAILED"}]
    <2>1. processedKeys' = KeysOf(operations') /\ operations' \in Seq(Ops)
      BY DEF KeysInv, KeysTypeOK, OperationsEndLog
    <2>2. \A ops \in Seq(Ops) : KeysOf(ops) \subseteq Keys
      <3> SUFFICES ASSUME NEW ops \in Seq(Ops), NEW i \in DOMAIN ops
                   PROVE  ops[i].key \in Keys
        BY DEF KeysOf
      <3> HIDE DEF Ops
      <3>1. ops[i] \in Ops
        OBVIOUS
      <3> QED
        BY <3>1 DEF Ops
    <2> QED
      BY <2>1, <2>2
  <1>2. status' \in {"IDLE", "OPERATING", "FAILED", "SUSPENDED"}
    <2>1. CASE UNCHANGED status
      BY <1>0, <2>1 DEF CounterTypeOK
    <2>2. Operate => status' = "OPERATING"
      BY DEF Operate
    <2>3. \A command, succeeded : Record(command, succeeded) =>
             status' \in {"IDLE", "OPERATING", "FAILED", "SUSPENDED"}
      BY DEF Record
    <2>4. CASE ReceiveStep
      BY <2>1, <2>2, <2>3, <2>4
         DEF ReceiveStep, ReceiveDuplicate, ReceiveDeploy, ReceiveRollback, ReceiveScale,
             ReceiveSavepoint, ReceiveSetState, ReceiveAutoscalerSwitch, ReceiveContinueAsNew,
             ReceiveUnsupported, RecordAtOnce
    <2>5. CASE CompleteStep
      BY <2>1, <2>3, <2>5
         DEF CompleteStep, ReturnFromRollout, ReturnFromSavepoint, SetJobState,
             SetJobStateFails, ObserveResumed, ObserveResumedFails, RecordAudit, RetryActivity
    <2> QED
      BY <2>1, <2>4, <2>5 DEF Next, SignalWorkflow, ChildStep, ClusterStep, actorVars, vars
  <1>3. autoscalerEnabled' \in BOOLEAN /\ autoscalerFrozen' \in BOOLEAN
    <2>1. CASE UNCHANGED autoscalerVars
      BY <1>0, <2>1 DEF CounterTypeOK, autoscalerVars
    <2>2. CASE ReceiveAutoscalerSwitch
      BY <1>0, <2>2 DEF ReceiveAutoscalerSwitch, CounterTypeOK
    <2>3. ReceiveStep => ReceiveAutoscalerSwitch \/ UNCHANGED autoscalerVars
      BY DEF ReceiveStep, ReceiveDuplicate, ReceiveDeploy, ReceiveRollback, ReceiveScale,
             ReceiveSavepoint, ReceiveSetState, ReceiveContinueAsNew, ReceiveUnsupported, Operate
    <2>4. CASE ReturnFromRollout
      <3>1. CASE outcome = "ok"
        <4>1. result.version.spec \in Specs
          BY <2>4, <3>1, SuccessfulRollout DEF ReturnFromRollout
        <4> QED
          BY <1>0, <2>4, <3>1, <4>1, CommandsAssumption DEF ReturnFromRollout, CounterTypeOK
      <3>2. CASE outcome # "ok"
        BY <1>0, <2>4, <3>2 DEF ReturnFromRollout, CounterTypeOK
      <3> QED
        BY <3>1, <3>2
    <2>5. CompleteStep => ReturnFromRollout \/ UNCHANGED autoscalerVars
      BY DEF CompleteStep, ReturnFromSavepoint, SetJobState, SetJobStateFails, ObserveResumed,
             ObserveResumedFails, RecordAudit
    <2> QED
      BY <2>1, <2>2, <2>3, <2>4, <2>5
         DEF Next, SignalWorkflow, ChildStep, ClusterStep, actorVars, vars
  <1>4. eventCount' \in 0 .. ContinueAfter - 1
    <2>1. CASE UNCHANGED eventCount
      BY <1>0, <2>1 DEF CounterTypeOK
    <2>2. \A type, rest : EndTurn(type, rest) => eventCount' \in 0 .. ContinueAfter - 1
      BY <1>0, ContinueAfterAssumption DEF EndTurn, CounterTypeOK
    <2>3. CASE ReceiveStep
      BY <2>1, <2>2, <2>3
         DEF ReceiveStep, ReceiveDuplicate, ReceiveDeploy, ReceiveRollback, ReceiveScale,
             ReceiveSavepoint, ReceiveSetState, ReceiveAutoscalerSwitch, ReceiveContinueAsNew,
             ReceiveUnsupported, RecordAtOnce, Operate
    <2>4. CASE CompleteStep
      BY <2>1, <2>2, <2>4
         DEF CompleteStep, ReturnFromRollout, ReturnFromSavepoint, SetJobState,
             SetJobStateFails, ObserveResumed, ObserveResumedFails, RecordAudit
    <2> QED
      BY <2>1, <2>3, <2>4 DEF Next, SignalWorkflow, ChildStep, ClusterStep, actorVars, vars
  <1>5. accepted' \in 0 .. MaxAccepted /\ acceptedKeys' \subseteq Keys
    <2>1. CASE SignalWorkflow
      BY <1>0, <2>1, MaxAcceptedAssumption DEF SignalWorkflow, CounterTypeOK, Keys
    <2>2. CASE UNCHANGED sentVars
      BY <1>0, <2>2 DEF CounterTypeOK, sentVars
    <2>3. ReceiveStep => UNCHANGED sentVars
      BY DEF ReceiveStep, ReceiveDuplicate, ReceiveDeploy, ReceiveRollback, ReceiveScale,
             ReceiveSavepoint, ReceiveSetState, ReceiveAutoscalerSwitch, ReceiveContinueAsNew,
             ReceiveUnsupported, RecordAtOnce, Operate
    <2>4. CompleteStep => UNCHANGED sentVars
      BY DEF CompleteStep, ReturnFromRollout, ReturnFromSavepoint, SetJobState,
             SetJobStateFails, ObserveResumed, ObserveResumedFails, RecordAudit
    <2> QED
      BY <2>1, <2>2, <2>3, <2>4 DEF Next, ChildStep, ClusterStep, vars
  <1> QED
    BY <1>1, <1>2, <1>3, <1>4, <1>5 DEF CounterTypeOK

\* Starting a child workflow on the current version.
LEMMA BeginKeeps ==
    ASSUME VersionsInv, NEW in \in Inputs, Begin(in), Operate, in.current = currentVersion,
           \/ /\ in.kind = "rollout" /\ in.target # Null
              /\ IF next.type = "RollbackToVersion"
                 THEN in.approved /\ in.target \in RecordedSpecs
                 ELSE in.approved = next.approved
           \/ in.kind = "savepoint" /\ in.current # Null
    PROVE  ChildTypeOK' /\ ChildInv'
  <1>1. /\ input' = in /\ result' = EmptyResult /\ outcome' = "none" /\ attempts' = 0
        /\ pc' = IF in.kind = "rollout" THEN "validate" ELSE "trigger"
        /\ active' = next /\ UNCHANGED <<currentVersion, versions>>
    BY DEF Begin, Operate, versionVars
  <1>2. ChildTypeOK'
    BY <1>1, MaxAttemptsAssumption DEF ChildTypeOK, Inputs, EmptyResult, RolloutPCs
  <1>3. in.kind = "rollout" => RolloutOfActive'
    BY <1>1 DEF RolloutOfActive, RecordedSpecs
  <1>4. in.kind = "savepoint" => SavepointOfActive'
    BY <1>1 DEF SavepointOfActive, EmptyResult
  <1>5. ChildInv'
    BY <1>1, <1>3, <1>4 DEF ChildInv, RolloutPCs
  <1> QED
    BY <1>2, <1>5

\* The place the actor is blocked in, its child and the child's result fit together.
LEMMA ChildPartKeeps ==
    ASSUME VersionsInv, KeysInv', [Next]_vars
    PROVE  ChildTypeOK' /\ ChildInv'
  <1>0. ChildTypeOK /\ ChildInv /\ VersionPart /\ KeysInv
    BY DEF VersionsInv, TypeOK, VersionPart
  <1>1. ASSUME UNCHANGED childVars, UNCHANGED <<currentVersion, versions, active>>
        PROVE  ChildTypeOK' /\ ChildInv'
    BY <1>0, <1>1 DEF ChildTypeOK, ChildInv, RolloutOfActive, SavepointOfActive, Admitted, Saved,
                      classification, RecordedSpecs,
                      nextVersionID, Ids, childVars
  <1>2. ASSUME pc' \in {"idle", "audit"}, attempts' \in 0 .. MaxAttempts - 1,
               \/ UNCHANGED <<input, result, outcome>>
               \/ input' = NoInput /\ result' = EmptyResult /\ outcome' = "none"
        PROVE  ChildTypeOK' /\ ChildInv'
    <2>1. ChildInv'
      BY <1>2 DEF ChildInv, RolloutPCs
    <2>2. ChildTypeOK'
      <3>1. NoInput \in Inputs /\ EmptyResult \in Results
        BY DEF NoInput, Inputs, EmptyResult, Results
      <3>2. input' \in Inputs /\ result' \in Results /\ outcome' \in {"none", "ok", "failed"}
        BY <1>0, <1>2, <3>1 DEF ChildTypeOK, Inputs, Results
      <3> QED
        BY <1>2, <3>2 DEF ChildTypeOK, Inputs, Results
    <2> QED
      BY <2>1, <2>2
  <1>3. attempts \in 0 .. MaxAttempts - 1 /\ 0 \in 0 .. MaxAttempts - 1
    BY <1>0, MaxAttemptsAssumption DEF ChildTypeOK
  <1>4. ASSUME NEW succeeded, RecordAtOnce(succeeded)
        PROVE  ChildTypeOK' /\ ChildInv'
    BY <1>2, <1>3, <1>4 DEF RecordAtOnce, Record
  <1>5. ASSUME NEW command, NEW succeeded, Record(command, succeeded),
               UNCHANGED <<input, result, outcome>>, attempts' = 0
        PROVE  ChildTypeOK' /\ ChildInv'
    BY <1>2, <1>3, <1>5 DEF Record
  <1>6. ASSUME NEW type, Receive(type)
        PROVE  next \in Commands
    BY <1>0, <1>6, ReceiveFacts
  <1>7. ASSUME RetryActivity, UNCHANGED <<input, result>>, UNCHANGED <<currentVersion, versions>>,
               pc \in {"setState", "resumeObserve"}
        PROVE  ChildTypeOK' /\ ChildInv'
    <2>1. pc' = pc /\ outcome' = outcome /\ attempts' \in 0 .. MaxAttempts - 1
      BY <1>3, <1>7, MaxAttemptsAssumption DEF RetryActivity, Retry
    <2> QED
      BY <1>0, <1>7, <2>1 DEF ChildTypeOK, ChildInv, RolloutPCs
  <1>11. CASE SignalWorkflow
    BY <1>1, <1>11 DEF SignalWorkflow, rolloutVars, actorVars, versionVars
  <1>12. CASE ReceiveDuplicate
    <2>1. UNCHANGED childVars /\ pc = "idle"
      BY <1>12 DEF ReceiveDuplicate, CanReceive, rolloutVars
    <2> QED
      BY <1>2, <1>3, <2>1 DEF childVars
  <1>13. CASE ReceiveDeploy
    <2>1. CASE RecordAtOnce(FALSE)
      BY <1>4, <2>1
    <2>2. CASE /\ next.targetSpec # Null /\ Operate
               /\ Begin(RolloutInput(currentVersion, next.targetSpec, next.approved, next.incident))
      <3> DEFINE in == RolloutInput(currentVersion, next.targetSpec, next.approved, next.incident)
      <3>1. next \in Commands /\ next.type = "DeployVersion"
        BY <1>6, <1>13 DEF ReceiveDeploy, Receive
      <3>2. in \in Inputs /\ in.kind = "rollout" /\ in.target # Null
            /\ in.approved = next.approved /\ in.current = currentVersion
        BY <1>0, <2>2, <3>1, CommandsAssumption
           DEF RolloutInput, Inputs, VersionPart, VersionTypeOK
      <3> HIDE DEF in
      <3>3. Begin(in)
        BY <2>2 DEF in
      <3> QED
        BY <2>2, <3>1, <3>2, <3>3, BeginKeeps
    <2> QED
      BY <1>13, <2>1, <2>2 DEF ReceiveDeploy
  <1>14. CASE ReceiveRollback
    <2>1. CASE RecordAtOnce(FALSE)
      BY <1>4, <2>1
    <2>2. CASE /\ rollbackTarget # Null /\ Operate
               /\ Begin(RolloutInput(currentVersion, rollbackTarget.spec, TRUE, next.incident))
      <3> DEFINE in == RolloutInput(currentVersion, rollbackTarget.spec, TRUE, next.incident)
      <3>1. next \in Commands /\ next.type = "RollbackToVersion"
        BY <1>6, <1>14 DEF ReceiveRollback, Receive
      <3>2. rollbackTarget.spec \in Specs /\ rollbackTarget.spec \in RecordedSpecs
        BY <1>0, <2>2, RollbackTargetIsRecorded
      <3>3. /\ in \in Inputs /\ in.kind = "rollout" /\ in.target # Null
            /\ in.approved = TRUE /\ in.current = currentVersion
            /\ in.target = rollbackTarget.spec
        BY <1>0, <3>1, <3>2, CommandsAssumption
           DEF RolloutInput, Inputs, VersionPart, VersionTypeOK
      <3> HIDE DEF in
      <3>4. Begin(in)
        BY <2>2 DEF in
      <3> QED
        BY <2>2, <3>1, <3>2, <3>3, <3>4, BeginKeeps
    <2> QED
      BY <1>14, <2>1, <2>2 DEF ReceiveRollback
  <1>15. CASE ReceiveScale
    <2>1. CASE RecordAtOnce(FALSE)
      BY <1>4, <2>1
    <2> DEFINE spec == [currentVersion.spec EXCEPT !.parallelism = next.parallelism]
    <2>2. CASE /\ currentVersion # Null /\ Operate
               /\ Begin(RolloutInput(currentVersion, spec, next.approved, next.incident))
      <3> DEFINE in == RolloutInput(currentVersion, spec, next.approved, next.incident)
      <3>1. next \in Commands /\ next.type = "ScaleTo"
        BY <1>6, <1>15 DEF ReceiveScale, Receive
      <3>2. spec \in Specs
        BY <1>0, <2>2, <3>1, ScalingAssumption DEF VersionPart, VersionTypeOK, Versions
      <3> HIDE DEF spec
      <3>3. /\ in \in Inputs /\ in.kind = "rollout" /\ in.target # Null
            /\ in.approved = next.approved /\ in.current = currentVersion
        BY <1>0, <3>1, <3>2, CommandsAssumption
           DEF RolloutInput, Inputs, VersionPart, VersionTypeOK
      <3> HIDE DEF in
      <3>4. Begin(in)
        BY <2>2 DEF in
      <3> QED
        BY <2>2, <3>1, <3>3, <3>4, BeginKeeps
    <2> QED
      BY <1>15, <2>1, <2>2 DEF ReceiveScale
  <1>16. CASE ReceiveSavepoint
    <2>1. CASE RecordAtOnce(FALSE)
      BY <1>4, <2>1
    <2>2. CASE currentVersion # Null /\ Operate /\ Begin(SavepointInput(currentVersion))
      <3>1. /\ SavepointInput(currentVersion) \in Inputs
            /\ SavepointInput(currentVersion).kind = "savepoint"
            /\ SavepointInput(currentVersion).current = currentVersion
        BY <1>0 DEF SavepointInput, NoInput, Inputs, VersionPart, VersionTypeOK
      <3> QED
        BY <2>2, <3>1, BeginKeeps
    <2> QED
      BY <1>16, <2>1, <2>2 DEF ReceiveSavepoint
  <1>17. CASE ReceiveSetState
    <2>1. CASE RecordAtOnce(FALSE)
      BY <1>4, <2>1
    <2>2. CASE /\ currentVersion # Null /\ Operate /\ pc' = "setState"
               /\ attempts' = 0 /\ UNCHANGED <<input, result, outcome>>
      <3>1. ChildTypeOK'
        BY <1>0, <1>3, <2>2 DEF ChildTypeOK
      <3>2. currentVersion' # Null
        BY <2>2 DEF Operate, versionVars
      <3> QED
        BY <2>2, <3>1, <3>2 DEF ChildInv, RolloutPCs
    <2> QED
      BY <1>17, <2>1, <2>2 DEF ReceiveSetState
  <1>18. CASE ReceiveAutoscalerSwitch \/ ReceiveContinueAsNew \/ ReceiveUnsupported
    BY <1>4, <1>18 DEF ReceiveAutoscalerSwitch, ReceiveContinueAsNew, ReceiveUnsupported
  <1>19. CASE ReturnFromRollout \/ ReturnFromSavepoint
    BY <1>2, <1>3, <1>19 DEF ReturnFromRollout, ReturnFromSavepoint, Record
  <1>20. CASE SetJobState
    <2>1. CASE pc' = "resumeObserve"
      <3>1. currentVersion' # Null
        BY <1>0, <1>20 DEF SetJobState, ChildInv, versionVars
      <3>2. ChildTypeOK'
        BY <1>0, <1>3, <1>20, <2>1 DEF SetJobState, ChildTypeOK
      <3> QED
        BY <2>1, <3>1, <3>2 DEF ChildInv, RolloutPCs
    <2>2. CASE Record(active, TRUE)
      BY <1>5, <1>20, <2>2 DEF SetJobState
    <2> QED
      BY <1>20, <2>1, <2>2 DEF SetJobState
  <1>21. CASE SetJobStateFails
    <2>1. CASE RetryActivity
      BY <1>7, <1>21, <2>1 DEF SetJobStateFails, versionVars
    <2>2. CASE Record(active, FALSE) /\ attempts' = 0 /\ UNCHANGED outcome
      BY <1>5, <1>21, <2>2 DEF SetJobStateFails
    <2> QED
      BY <1>21, <2>1, <2>2 DEF SetJobStateFails
  <1>22. CASE ObserveResumed
    BY <1>5, <1>22 DEF ObserveResumed
  <1>23. CASE ObserveResumedFails
    <2>1. CASE RetryActivity
      BY <1>7, <1>23, <2>1 DEF ObserveResumedFails, versionVars
    <2>2. CASE Record(active, FALSE) /\ attempts' = 0 /\ UNCHANGED outcome
      BY <1>5, <1>23, <2>2 DEF ObserveResumedFails
    <2> QED
      BY <1>23, <2>1, <2>2 DEF ObserveResumedFails
  <1>24. CASE RecordAudit
    BY <1>2, <1>3, <1>24 DEF RecordAudit
  <1>25. CASE ChildStep
    BY <1>25, ChildKeeps
  <1>26. CASE ClusterStep
    BY <1>1, <1>26
       DEF ClusterStep, WorldStep, LateWriteLands, LeaseExpires, actorVars, versionVars
  <1>27. CASE UNCHANGED vars
    BY <1>1, <1>27 DEF vars, rolloutVars, actorVars, versionVars
  <1> QED
    BY <1>11, <1>12, <1>13, <1>14, <1>15, <1>16, <1>17, <1>18, <1>19, <1>20, <1>21, <1>22,
       <1>23, <1>24, <1>25, <1>26, <1>27 DEF Next, ReceiveStep, CompleteStep

-----------------------------------------------------------------------------
(* The abstract history.                                                   *)

\* Classification and admission look at the id and the spec of a version only.
LEMMA AdmitsHistory ==
    ASSUME NEW version \in Versions \cup {Null}, NEW target, NEW approved, NEW incident,
           Admits(version, target, approved, incident, Policy)
    PROVE  History!Admits(HistoryOf(version), target, approved, incident, Policy)
  <1>1. HistoryOf(version) = Null <=> version = Null
    BY NullAssumption DEF HistoryOf, Versions
  <1>2. version # Null => /\ HistoryOf(version).spec = version.spec
                          /\ HistoryOf(version).versionId = version.versionId
    BY DEF HistoryOf
  <1>3. History!ClassifyChange(HistoryOf(version), target, Policy)
            = ClassifyChange(version, target, Policy)
    BY <1>1, <1>2
       DEF ClassifyChange, LosesKeyGroups, StateAtRisk, ArgumentsChange, ShapeChanges,
           BinaryChanges, Classification, Slots,
           History!ClassifyChange, History!LosesKeyGroups, History!StateAtRisk,
           History!ArgumentsChange, History!ShapeChanges, History!BinaryChanges,
           History!Classification, History!Slots
  <1> QED
    BY <1>3 DEF Admits, ValidateSpec, History!Admits, History!ValidateSpec

\* Marking a version as healthy changes no classification.
LEMMA SameClassification ==
    ASSUME NEW v \in Versions, NEW w \in Versions, Ids(v) = Ids(w), NEW target
    PROVE  ClassifyChange(v, target, Policy) = ClassifyChange(w, target, Policy)
  <1>1. v # Null /\ w # Null /\ v.spec = w.spec /\ v.versionId = w.versionId
    BY NullAssumption DEF Ids
  <1> QED
    BY <1>1 DEF ClassifyChange, LosesKeyGroups

\* A rollout that succeeds is an admitted change; a rollback, one to a recorded spec.
LEMMA ReturnKeepsVersions ==
    ASSUME VersionsInv, ReturnFromRollout, outcome = "ok"
    PROVE  VersionPart' /\ History!HistoryNext
  <1>0. /\ pc = "return" /\ input.kind = "rollout"
        /\ currentVersion' = result.version /\ lastHealthyVersion' = result.version
        /\ shared' = TRUE
        /\ versions' = Append(versions, result.version)
        /\ lastSavepoint' = IF result.savepoint # Null THEN result.savepoint ELSE lastSavepoint
        /\ endorsed' = IF active.approved /\ active.type # "RollbackToVersion"
                       THEN endorsed \cup {result.version.spec} ELSE endorsed
    BY DEF ReturnFromRollout
  <1>1. /\ RolloutOfActive /\ Admitted /\ Saved
        /\ result.version \in Versions /\ result.version # Null
        /\ result.version.spec = input.target /\ input.target \in Specs
        /\ result.version.versionId =
              IF currentVersion = Null THEN 1 ELSE currentVersion.versionId + 1
        /\ result.savepoint \in Savepoints \cup {Null}
        /\ active \in Commands
        /\ input.current = currentVersion
    BY <1>0, SuccessfulRollout DEF Admitted
  <1>2. VersionPart /\ versions \in Seq(Versions) /\ Len(versions) \in Nat
    BY DEF VersionsInv, TypeOK, VersionPart, VersionTypeOK
  <1>3. /\ versions' \in Seq(Versions) /\ Len(versions') = Len(versions) + 1
        /\ \A i \in 1 .. Len(versions) : versions'[i] = versions[i]
        /\ versions'[Len(versions) + 1] = result.version
        /\ DOMAIN versions = 1 .. Len(versions)
        /\ DOMAIN versions' = 1 .. Len(versions) + 1
    BY <1>0, <1>1, <1>2
  <1>4. VersionTypeOK'
    BY <1>0, <1>1, <1>2, <1>3 DEF VersionPart, VersionTypeOK
  <1>5. VersionsContiguous'
    <2>1. ASSUME NEW i \in 1 .. Len(versions)
          PROVE  versions'[i + 1].versionId = versions'[i].versionId + 1
      <3>1. CASE i \in 1 .. Len(versions) - 1
        <4>1. i + 1 \in 1 .. Len(versions)
          BY <1>2, <3>1
        <4> QED
          BY <1>2, <1>3, <3>1, <4>1 DEF VersionPart, VersionsContiguous
      <3>2. CASE i = Len(versions)
        <4>1. currentVersion # Null /\ currentVersion.versionId = versions[i].versionId
          BY <1>2, <3>2 DEF VersionPart, VersionsContiguous, Ids
        <4> QED
          BY <1>1, <1>2, <1>3, <3>2, <4>1
      <3> QED
        BY <1>2, <3>1, <3>2
    <2> QED
      BY <1>0, <1>1, <1>2, <1>3, <2>1 DEF VersionsContiguous, Ids
  <1>l. VersionsAreLegalChanges'
    <2> DEFINE Legal(v, w) ==
                  LET class == ClassifyChange(v, w.spec, Policy)
                  IN  /\ class.risk # "REJECTED"
                      /\ class.requiresSavepoint =>
                            /\ w.savepointURI # Null
                            /\ w.savepointURI.deploymentVersion = v.versionId
    <2>1. ASSUME NEW i \in 1 .. Len(versions)
          PROVE  Legal(versions'[i], versions'[i + 1])
      <3>1. CASE i \in 1 .. Len(versions) - 1
        <4>1. i + 1 \in 1 .. Len(versions)
          BY <1>2, <3>1
        <4> QED
          BY <1>2, <1>3, <3>1, <4>1 DEF VersionPart, VersionsAreLegalChanges
      <3>2. CASE i = Len(versions)
        <4>1. /\ versions[i] \in Versions
              /\ currentVersion # Null /\ currentVersion \in Versions
              /\ Ids(currentVersion) = Ids(versions[i])
          BY <1>2, <3>2 DEF VersionPart, VersionsContiguous, VersionTypeOK
        <4>2. ClassifyChange(versions[i], input.target, Policy) = classification
          BY <1>1, <4>1, SameClassification DEF classification
        <4>3. classification.risk # "REJECTED"
          BY <1>1 DEF Admitted, Admits, ValidateSpec, classification
        <4>4. currentVersion.versionId = versions[i].versionId
          BY <4>1 DEF Ids
        <4> QED
          BY <1>1, <1>2, <1>3, <3>2, <4>1, <4>2, <4>3, <4>4 DEF Saved
      <3> QED
        BY <1>2, <3>1, <3>2
    <2>2. Len(versions') - 1 = Len(versions)
      BY <1>2, <1>3
    <2> QED
      BY <2>1, <2>2 DEF VersionsAreLegalChanges
  <1>6. VersionPart'
    BY <1>0, <1>4, <1>5, <1>l DEF VersionPart
  <1>7. RecordedSpecs' = RecordedSpecs \cup {input.target}
    BY <1>1, <1>2, <1>3 DEF RecordedSpecs
  <1>8. HistoryOf(currentVersion') =
           [versionId |-> IF HistoryOf(currentVersion) = Null THEN 1
                          ELSE HistoryOf(currentVersion).versionId + 1,
            spec      |-> input.target]
    <2>1. currentVersion \in Versions \cup {Null}
      BY <1>2 DEF VersionPart, VersionTypeOK
    <2>2. HistoryOf(currentVersion) = Null <=> currentVersion = Null
      BY <2>1, NullAssumption DEF HistoryOf, Versions
    <2> QED
      BY <1>0, <1>1, <2>2 DEF HistoryOf
  <1>9. History!Promote(input.target, input.approved, input.incident)
    <2>1. currentVersion \in Versions \cup {Null}
      BY <1>2 DEF VersionPart, VersionTypeOK
    <2>2. History!Admits(HistoryOf(currentVersion), input.target, input.approved,
                         input.incident, Policy)
      BY <1>1, <2>1, AdmitsHistory DEF Admitted
    <2> QED
      BY <1>7, <1>8, <2>2 DEF History!Promote
  <1>10. input.approved \in BOOLEAN /\ input.incident \in BOOLEAN
    BY DEF VersionsInv, TypeOK, ChildTypeOK
  <1>11. CASE active.type = "RollbackToVersion"
    <2>1. input.approved = TRUE /\ input.target \in RecordedSpecs /\ endorsed' = endorsed
      BY <1>0, <1>1, <1>10, <1>11 DEF RolloutOfActive
    <2>2. History!RollbackChange
      BY <1>9, <1>10, <2>1 DEF History!RollbackChange
    <2> QED
      BY <1>6, <2>2 DEF History!HistoryNext
  <1>12. CASE active.type # "RollbackToVersion"
    <2>1. endorsed' = IF input.approved THEN endorsed \cup {input.target} ELSE endorsed
      BY <1>0, <1>1, <1>12 DEF RolloutOfActive
    <2>2. History!DeployChange
      BY <1>1, <1>9, <1>10, <2>1 DEF History!DeployChange
    <2> QED
      BY <1>6, <2>2 DEF History!HistoryNext
  <1> QED
    BY <1>11, <1>12

\* Resuming stores the observed health in the current version: neither its id nor its
\* spec changes, nor those of the last healthy version that may share its struct.
LEMMA ResumeKeepsVersions ==
    ASSUME VersionsInv, ObserveResumed
    PROVE  VersionPart' /\ UNCHANGED <<HistoryOf(currentVersion), RecordedSpecs, endorsed>>
  <1>1. VersionPart /\ currentVersion \in Versions
    BY DEF VersionsInv, TypeOK, VersionPart, VersionTypeOK, ObserveResumed, ChildInv
  <1>2. /\ UNCHANGED <<shared, versions, endorsed, lastSavepoint>>
        /\ \E health \in Healths :
              currentVersion' = [currentVersion EXCEPT !.healthy = health.healthy]
        /\ lastHealthyVersion' = IF shared THEN currentVersion' ELSE lastHealthyVersion
    BY DEF ObserveResumed
  <1>3. currentVersion' \in Versions /\ Ids(currentVersion') = Ids(currentVersion)
    BY <1>1, <1>2, UpdatedVersion, HealthsAssumption
  <1>4. currentVersion # Null /\ currentVersion' # Null
    BY <1>1, <1>3, NullAssumption
  <1>5. HistoryOf(currentVersion)' = HistoryOf(currentVersion)
    BY <1>3, <1>4 DEF HistoryOf, Ids
  <1>6. VersionTypeOK'
    BY <1>1, <1>2, <1>3 DEF VersionPart, VersionTypeOK
  <1>7. Ids(lastHealthyVersion') = Ids(currentVersion) /\ lastHealthyVersion' # Null
    BY <1>1, <1>2, <1>3, <1>4 DEF VersionPart, VersionsContiguous
  <1>8. VersionsContiguous'
    BY <1>1, <1>2, <1>3, <1>4, <1>7 DEF VersionPart, VersionsContiguous, Ids
  <1> QED
    BY <1>1, <1>2, <1>4, <1>5, <1>6, <1>7, <1>8
       DEF VersionPart, RecordedSpecs, VersionsAreLegalChanges

\* Every step of the actor, of its children and of the cluster keeps the versions in
\* order and is a step of the abstract history, or none.
LEMMA VersionsStep ==
    ASSUME VersionsInv, [Next]_vars
    PROVE  VersionPart' /\ [History!HistoryNext]_History!historyVars
  <1>0. VersionPart
    BY DEF VersionsInv, TypeOK, VersionPart
  <1>1. ASSUME UNCHANGED versionVars, lastSavepoint' \in Savepoints \cup {Null}
        PROVE  VersionPart' /\ [History!HistoryNext]_History!historyVars
    <2>1. VersionPart'
      BY <1>0, <1>1, VersionsUntouched
    <2>2. UNCHANGED History!historyVars
      BY <1>1 DEF versionVars, HistoryOf, RecordedSpecs, History!historyVars
    <2> QED
      BY <2>1, <2>2
  <1>2. lastSavepoint \in Savepoints \cup {Null}
    BY <1>0 DEF VersionPart, VersionTypeOK
  <1>3. ASSUME UNCHANGED <<versionVars, lastSavepoint>>
        PROVE  VersionPart' /\ [History!HistoryNext]_History!historyVars
    BY <1>1, <1>2, <1>3
  <1>4. CASE ReceiveDuplicate \/ RecordAudit
    <2>1. UNCHANGED <<currentVersion, lastHealthyVersion, endorsed, lastSavepoint>>
      BY <1>4 DEF ReceiveDuplicate, RecordAudit
    <2>2. PICK type, rest : EndTurn(type, rest)
      BY <1>4 DEF ReceiveDuplicate, RecordAudit
    <2>3. /\ VersionPart'
          /\ RecordedSpecs' \subseteq RecordedSpecs
          /\ currentVersion # Null => currentVersion.spec \in RecordedSpecs'
      BY <1>0, <2>1, <2>2, EndTurnKeepsVersions
    <2>4. HistoryOf(currentVersion)' = HistoryOf(currentVersion)
      BY <2>1 DEF HistoryOf
    <2>5. HistoryOf(currentVersion) # Null => HistoryOf(currentVersion).spec \in RecordedSpecs'
      BY <2>3 DEF HistoryOf
    <2>6. History!Forget
      BY <2>1, <2>3, <2>4, <2>5 DEF History!Forget
    <2> QED
      BY <2>3, <2>6 DEF History!HistoryNext
  <1>5. CASE ReturnFromRollout
    <2>1. CASE outcome = "ok"
      BY <1>5, <2>1, ReturnKeepsVersions
    <2>2. CASE outcome # "ok"
      BY <1>3, <1>5, <2>2 DEF ReturnFromRollout
    <2> QED
      BY <2>1, <2>2
  <1>6. CASE ReturnFromSavepoint
    <2>1. result.savepoint \in Savepoints \cup {Null}
      BY DEF VersionsInv, TypeOK, ChildTypeOK
    <2> QED
      BY <1>1, <1>2, <1>6, <2>1 DEF ReturnFromSavepoint
  <1>7. CASE ObserveResumed
    BY <1>7, ResumeKeepsVersions DEF History!historyVars
  <1>8. CASE ReceiveStep /\ ~ReceiveDuplicate
    BY <1>3, <1>8
       DEF ReceiveStep, ReceiveDeploy, ReceiveRollback, ReceiveScale, ReceiveSavepoint,
           ReceiveSetState, ReceiveAutoscalerSwitch, ReceiveContinueAsNew, ReceiveUnsupported,
           Operate, RecordAtOnce
  <1>9. CASE SetJobState \/ SetJobStateFails \/ ObserveResumedFails
    BY <1>3, <1>9 DEF SetJobState, SetJobStateFails, ObserveResumedFails
  <1>10. CASE SignalWorkflow \/ ChildStep \/ ClusterStep \/ UNCHANGED vars
    BY <1>3, <1>10 DEF SignalWorkflow, ChildStep, ClusterStep, actorVars, vars
  <1> QED
    BY <1>4, <1>5, <1>6, <1>7, <1>8, <1>9, <1>10 DEF Next, ReceiveStep, CompleteStep

\* The strengthened invariant is inductive.
LEMMA VersionsInvStep ==
    ASSUME VersionsInv, [Next]_vars
    PROVE  VersionsInv'
  <1>1. KeysInv'
    BY KeysStep DEF VersionsInv
  <1>2. ChildTypeOK' /\ ChildInv' /\ WorldTypeOK' /\ CounterTypeOK'
    BY <1>1, ChildPartKeeps, WorldStepKeeps, CountersKeep
  <1>3. VersionPart'
    BY VersionsStep
  <1>4. TypeOK'
    BY <1>1, <1>2, <1>3 DEF TypeOK, KeysInv, VersionPart
  <1> QED
    BY <1>1, <1>2, <1>3, <1>4 DEF VersionsInv, VersionPart

\* It holds in the state a deployment's workflow is first started in.
LEMMA VersionsInvInit ==
    ASSUME Init
    PROVE  VersionsInv /\ History!HistoryInit
  <1>1. KeysInv
    BY HistoryLimitAssumption
       DEF Init, KeysInv, KeysTypeOK, OperationsEndLog, ActiveIsNew, IdempotencyWindow, KeysOf
  <1>2. ChildTypeOK
    BY MaxAttemptsAssumption DEF Init, ChildTypeOK, NoInput, EmptyResult
  <1>3. WorldTypeOK
    BY DEF Init, WorldTypeOK
  <1>4. VersionTypeOK
    <2>1. << >> \in Seq(Versions)
      OBVIOUS
    <2> QED
      BY <2>1 DEF Init, VersionTypeOK
  <1>5. CounterTypeOK
    <2>1. 0 \in 0 .. ContinueAfter - 1 /\ 0 \in 0 .. MaxAccepted
      BY ContinueAfterAssumption, MaxAcceptedAssumption
    <2> QED
      BY <2>1 DEF Init, CounterTypeOK
  <1>6. VersionsContiguous /\ (lastHealthyVersion = Null <=> currentVersion = Null)
    BY DEF Init, VersionsContiguous
  <1>l. VersionsAreLegalChanges
    BY DEF Init, VersionsAreLegalChanges
  <1>7. ChildInv
    BY DEF Init, ChildInv, RolloutPCs
  <1>8. History!HistoryInit
    BY DEF Init, History!HistoryInit, HistoryOf, RecordedSpecs
  <1> QED
    BY <1>1, <1>2, <1>3, <1>4, <1>5, <1>6, <1>l, <1>7, <1>8 DEF VersionsInv, TypeOK, KeysInv

-----------------------------------------------------------------------------

\* The invariant holds in every state the actor reaches.
THEOREM VersionsInvariant == Spec => []VersionsInv
  <1> QED
    BY VersionsInvInit, VersionsInvStep, PTL DEF Spec

\* No command, fault, retry, late write or compaction leaves the actor's state ill
\* typed; in particular a result is stored only with a version in it.
THEOREM TypeOKHolds == Spec => []TypeOK
  <1>1. VersionsInv => TypeOK
    BY DEF VersionsInv
  <1> QED
    BY <1>1, VersionsInvariant, PTL

\* Version ids have no gaps and no repetitions, and the current version is the newest
\* recorded one (rollout.go:46-50, deployment_actor.go:167-169, 277-290).
THEOREM VersionsContiguousHolds == Spec => []VersionsContiguous
  <1>1. VersionsInv => VersionsContiguous
    BY DEF VersionsInv
  <1> QED
    BY <1>1, VersionsInvariant, PTL

\* Each recorded version was a legal change of the one before it, and carries a
\* savepoint of that one where the change needed one: a rollback, a rescaling or a
\* deploy that was queued behind others included (change.go:29-81, rollout.go:71-98).
THEOREM LegalChangesHold == Spec => []VersionsAreLegalChanges
  <1>1. VersionsInv => VersionsAreLegalChanges
    BY DEF VersionsInv
  <1> QED
    BY <1>1, VersionsInvariant, PTL

\* The actor implements the abstract version history: the version moves only by
\* changes that were admitted from the version that is still current when the result
\* is stored, and compaction never forgets the current one.
THEOREM VersionHistoryImplemented == Spec => ImplementsVersionHistory
  <1>1. Init => History!HistoryInit
    BY VersionsInvInit
  <1>2. VersionsInv /\ [Next]_vars => [History!HistoryNext]_History!historyVars
    BY VersionsStep
  <1> QED
    BY <1>1, <1>2, VersionsInvariant, PTL DEF Spec, ImplementsVersionHistory, History!HistorySpec

\* The proofs about the abstract history, read for the actor.
Abstract == INSTANCE VersionHistoryProofs WITH
    current  <- HistoryOf(currentVersion),
    recorded <- RecordedSpecs

\* The two readings of the abstract history are one.
LEMMA AbstractIsHistory ==
    History!HistoryNext <=> Abstract!HistoryNext
  BY DEF History!HistoryNext, History!DeployChange, History!RollbackChange, History!Forget,
         History!Promote, History!Admits, History!ValidateSpec, History!ClassifyChange,
         History!LosesKeyGroups, History!StateAtRisk, History!ArgumentsChange,
         History!ShapeChanges, History!BinaryChanges, History!Classification, History!Slots,
         Abstract!HistoryNext, Abstract!DeployChange, Abstract!RollbackChange, Abstract!Forget,
         Abstract!Promote, Abstract!Admits, Abstract!ValidateSpec, Abstract!ClassifyChange,
         Abstract!LosesKeyGroups, Abstract!StateAtRisk, Abstract!ArgumentsChange,
         Abstract!ShapeChanges, Abstract!BinaryChanges, Abstract!Classification, Abstract!Slots

\* The abstract invariant holds of the actor.
THEOREM AbstractInvariant == Spec => []Abstract!HistoryInv
  <1>1. Init => Abstract!HistoryInv
    BY DEF Init, HistoryOf, RecordedSpecs, Abstract!HistoryInv, Abstract!CurrentIsRecorded,
           Abstract!OnlyApprovedMaterial
  <1>2. VersionsInv /\ Abstract!HistoryInv /\ [Next]_vars => Abstract!HistoryInv'
    <2> SUFFICES ASSUME VersionsInv, Abstract!HistoryInv, [Next]_vars
                 PROVE  Abstract!HistoryInv'
      OBVIOUS
    <2>1. [Abstract!HistoryNext]_Abstract!historyVars
      BY VersionsStep, AbstractIsHistory DEF History!historyVars, Abstract!historyVars
    <2> QED
      BY <2>1, Abstract!HistoryStep
  <1> QED
    BY <1>1, <1>2, VersionsInvariant, PTL DEF Spec

\* Hence, where production approval is required, every spec the actor still records,
\* and may roll back to, has the material of one that an approved command deployed
\* (deployment_actor.go:213-226, validate.go:32-34).
THEOREM OnlyApprovedMaterialHolds == Spec => []OnlyApprovedMaterial
  <1>1. Abstract!HistoryInv => OnlyApprovedMaterial
    BY DEF Abstract!HistoryInv, Abstract!OnlyApprovedMaterial, Abstract!Material,
           OnlyApprovedMaterial, History!OnlyApprovedMaterial, History!Material
  <1> QED
    BY <1>1, AbstractInvariant, PTL

\* Ids count from 1.
LEMMA CurrentIdPositive ==
    ASSUME VersionsInv, Abstract!HistoryInv, currentVersion # Null
    PROVE  currentVersion.versionId > 0
  <1>1. currentVersion \in Versions
    BY DEF VersionsInv, TypeOK, VersionTypeOK
  <1>2. HistoryOf(currentVersion) \in [versionId : Nat, spec : Specs]
    BY <1>1 DEF HistoryOf, Versions
  <1>3. HistoryOf(currentVersion) # Null
        /\ HistoryOf(currentVersion).versionId = currentVersion.versionId
    BY <1>2, NullAssumption DEF HistoryOf
  <1> QED
    BY <1>3 DEF Abstract!HistoryInv, Abstract!CurrentIsRecorded

\* A version that is appended loses key groups only by a fresh start.
LEMMA ReturnKeepsKeyGroups ==
    ASSUME VersionsInv, Abstract!HistoryInv, MaxParallelismKept, ReturnFromRollout, outcome = "ok"
    PROVE  MaxParallelismKept'
  <1> DEFINE n == Len(versions)
             groups(version) == version.spec.maxParallelism
  <1>1. /\ Admitted /\ result.version \in Versions /\ input.current = currentVersion
        /\ result.version.spec = input.target /\ input.target \in Specs
    BY SuccessfulRollout DEF ReturnFromRollout, Admitted
  <1>2. /\ versions \in Seq(Versions) /\ n \in Nat
        /\ versions' = Append(versions, result.version)
    BY DEF VersionsInv, TypeOK, VersionTypeOK, ReturnFromRollout
  <1>3. /\ DOMAIN versions = 1 .. n /\ DOMAIN versions' = 1 .. n + 1
        /\ \A i \in 1 .. n : versions'[i] = versions[i]
        /\ versions'[n + 1] = result.version
    BY <1>1, <1>2
  <1>4. \A i \in 1 .. n : groups(versions[i]) \in Int
    <2>1. \A i \in 1 .. n : versions[i] \in Versions
      BY <1>2
    <2>2. \A version \in Versions : version.spec \in Specs
      BY DEF Versions
    <2> QED
      BY <2>1, <2>2, CommandsAssumption
  <1>5. groups(result.version) \in Int
    BY <1>1, CommandsAssumption DEF Versions
  <1>6. ASSUME n > 0, groups(result.version) < groups(versions[n])
        PROVE  result.version.spec.freshStartApproved
    <2>1. currentVersion # Null /\ currentVersion.spec = versions[n].spec
      BY <1>2, <1>6 DEF VersionsInv, VersionsContiguous, Ids
    <2>2. currentVersion.versionId > 0
      BY <2>1, CurrentIdPositive
    <2>3. ClassifyChange(input.current, input.target, Policy).risk # "REJECTED"
      BY <1>1 DEF Admitted, Admits, ValidateSpec
    <2>4. ~LosesKeyGroups(currentVersion, input.target)
      BY <1>1, <2>1, <2>3 DEF ClassifyChange, Classification
    <2> QED
      BY <1>1, <1>6, <2>1, <2>2, <2>4 DEF LosesKeyGroups
  <1> HIDE DEF n
  <1>7. ASSUME NEW i \in 1 .. n + 1, NEW j \in 1 .. n + 1, i < j,
               groups(versions'[j]) < groups(versions'[i])
        PROVE  \E k \in i + 1 .. j : versions'[k].spec.freshStartApproved
    <2>1. i \in 1 .. n /\ n > 0 /\ n \in 1 .. n
      BY <1>2, <1>7
    <2>2. ASSUME NEW m \in 1 .. n, i < m, groups(versions[m]) < groups(versions[i])
          PROVE  \E k \in i + 1 .. m : versions'[k].spec.freshStartApproved
      <3>1. PICK k \in i + 1 .. m : versions[k].spec.freshStartApproved
        BY <1>3, <2>1, <2>2 DEF MaxParallelismKept
      <3>2. k \in 1 .. n
        BY <1>2, <2>1, <2>2
      <3> QED
        BY <1>3, <3>1, <3>2
    <2>3. CASE j \in 1 .. n
      BY <1>3, <1>7, <2>1, <2>2, <2>3
    <2>4. CASE j = n + 1 /\ groups(result.version) < groups(versions[n])
      BY <1>2, <1>3, <1>6, <2>1, <2>4
    <2>5. CASE j = n + 1 /\ ~(groups(result.version) < groups(versions[n]))
      <3>1. groups(versions[n]) < groups(versions[i])
        BY <1>3, <1>4, <1>5, <1>7, <2>1, <2>5
      <3>2. i < n
        BY <1>2, <1>4, <2>1, <3>1
      <3>3. PICK k \in i + 1 .. n : versions'[k].spec.freshStartApproved
        BY <2>1, <2>2, <3>1, <3>2
      <3>4. k \in i + 1 .. j
        BY <1>2, <2>1, <2>5, <3>3
      <3> QED
        BY <3>3, <3>4
    <2>6. j \in 1 .. n \/ j = n + 1
      <3>1. n \in Nat
        BY <1>2
      <3> QED
        BY <3>1
    <2> HIDE DEF groups
    <2> QED
      BY <2>3, <2>4, <2>5, <2>6
  <1> QED
    BY <1>3, <1>7 DEF MaxParallelismKept

\* Compaction drops the oldest versions, and with them whole stretches of the history.
LEMMA EndTurnKeepsKeyGroups ==
    ASSUME VersionsInv, MaxParallelismKept, NEW type, NEW rest, EndTurn(type, rest)
    PROVE  MaxParallelismKept'
  <1>1. versions \in Seq(Versions) /\ Len(versions) \in Nat /\ HistoryLimit \in Nat \ {0}
    BY HistoryLimitAssumption DEF VersionsInv, TypeOK, VersionTypeOK
  <1>2. CASE versions' = versions
    BY <1>2 DEF MaxParallelismKept
  <1>3. CASE versions' = LastN(versions, HistoryLimit)
    <2> DEFINE d == Len(versions) - Len(versions')
    <2>1. /\ Len(versions') \in Nat /\ d \in Nat
          /\ DOMAIN versions = 1 .. Len(versions) /\ DOMAIN versions' = 1 .. Len(versions')
          /\ \A i \in 1 .. Len(versions') : versions'[i] = versions[d + i]
      BY <1>1, <1>3, LastNSuffix
    <2>2. Len(versions) = d + Len(versions')
      BY <1>1, <2>1
    <2> HIDE DEF d
    <2>3. ASSUME NEW i \in 1 .. Len(versions'), NEW j \in 1 .. Len(versions'), i < j,
                 versions'[j].spec.maxParallelism < versions'[i].spec.maxParallelism
          PROVE  \E k \in i + 1 .. j : versions'[k].spec.freshStartApproved
      <3>1. d + i \in DOMAIN versions /\ d + j \in DOMAIN versions /\ d + i < d + j
        BY <2>1, <2>2, <2>3
      <3>2. PICK o \in d + i + 1 .. d + j : versions[o].spec.freshStartApproved
        BY <2>1, <2>3, <3>1 DEF MaxParallelismKept
      <3>3. o - d \in i + 1 .. j /\ o - d \in 1 .. Len(versions') /\ d + (o - d) = o
        BY <2>1, <3>2
      <3> QED
        BY <2>1, <3>2, <3>3
    <2> QED
      BY <2>1, <2>3 DEF MaxParallelismKept
  <1> QED
    BY <1>2, <1>3 DEF EndTurn, compact

\* Over any stretch of the recorded history, rollbacks and rescalings included, key
\* groups are lost only by an approved fresh start (change.go:40-46, README.md:270).
THEOREM MaxParallelismKeptHolds == Spec => []MaxParallelismKept
  <1>1. Init => MaxParallelismKept
    BY DEF Init, MaxParallelismKept
  <1>2. VersionsInv /\ Abstract!HistoryInv /\ MaxParallelismKept /\ [Next]_vars
           => MaxParallelismKept'
    <2> SUFFICES ASSUME VersionsInv, Abstract!HistoryInv, MaxParallelismKept, [Next]_vars
                 PROVE  MaxParallelismKept'
      OBVIOUS
    <2>1. ASSUME UNCHANGED versions
          PROVE  MaxParallelismKept'
      BY <2>1 DEF MaxParallelismKept
    <2>2. CASE ReceiveDuplicate \/ RecordAudit
      BY <2>2, EndTurnKeepsKeyGroups DEF ReceiveDuplicate, RecordAudit
    <2>3. CASE ReturnFromRollout
      BY <2>1, <2>3, ReturnKeepsKeyGroups DEF ReturnFromRollout, versionVars
    <2>4. CASE ReceiveStep /\ ~ReceiveDuplicate
      BY <2>1, <2>4
         DEF ReceiveStep, ReceiveDeploy, ReceiveRollback, ReceiveScale, ReceiveSavepoint,
             ReceiveSetState, ReceiveAutoscalerSwitch, ReceiveContinueAsNew, ReceiveUnsupported,
             Operate, RecordAtOnce, versionVars
    <2>5. CASE CompleteStep /\ ~ReturnFromRollout /\ ~RecordAudit
      BY <2>1, <2>5 DEF CompleteStep, ReturnFromSavepoint, SetJobState, SetJobStateFails,
            ObserveResumed, ObserveResumedFails, versionVars
    <2>6. CASE SignalWorkflow \/ ChildStep \/ ClusterStep \/ UNCHANGED vars
      BY <2>1, <2>6 DEF SignalWorkflow, ChildStep, ClusterStep, actorVars, versionVars, vars
    <2> QED
      BY <2>2, <2>3, <2>4, <2>5, <2>6 DEF Next, ReceiveStep, CompleteStep
  <1> QED
    BY <1>1, <1>2, VersionsInvariant, AbstractInvariant, PTL DEF Spec

\* A rollback that names a recorded version starts a rollout of that version's spec, which
\* is still the one its id names when the rollout returns: the history is compacted only
\* between operations.
LEMMA AskedStep ==
    ASSUME VersionsInv, AskedInv, [Next]_vars
    PROVE  AskedInv'
  <1> USE DEF AskedInv, SpecsOf, RolloutPCs
  <1>1. CASE ReceiveRollback
    <2>1. CASE rollbackTarget # Null
      <3>1. /\ rollbackTarget # Null /\ UNCHANGED versionVars /\ active' = next
            /\ pc' = "validate" /\ input'.kind = "rollout"
            /\ input'.target = rollbackTarget.spec
        <4>1. /\ Operate
              /\ Begin(RolloutInput(currentVersion, rollbackTarget.spec, TRUE, next.incident))
          BY <1>1, <2>1 DEF ReceiveRollback
        <4>2. input' = RolloutInput(currentVersion, rollbackTarget.spec, TRUE, next.incident)
          BY <4>1 DEF Begin
        <4>3. input'.kind = "rollout" /\ input'.target = rollbackTarget.spec
          BY <4>2 DEF RolloutInput
        <4>4. pc' = "validate" /\ active' = next /\ UNCHANGED versionVars
          BY <4>1, <4>2, <4>3 DEF Begin, Operate
        <4> QED
          BY <2>1, <4>3, <4>4
      <3>2. SpecsOf(next.targetVersion) # {}
               => rollbackTarget.spec \in SpecsOf(next.targetVersion)
        BY <3>1, RollbackTargetIsRecorded DEF VersionsInv, TypeOK, VersionPart
      <3> QED
        BY <3>1, <3>2 DEF versionVars
    <2>2. CASE rollbackTarget = Null
      BY <1>1, <2>2 DEF ReceiveRollback, RecordAtOnce, Record
    <2> QED
      BY <2>1, <2>2
  <1>2. CASE ReceiveDuplicate
    <2>1. active' = Null
      BY <1>2 DEF ReceiveDuplicate, CanReceive, VersionsInv, KeysInv, ActiveIsNew
    <2> QED
      BY <2>1
  <1>3. CASE ReceiveStep /\ ~ReceiveRollback /\ ~ReceiveDuplicate
    BY <1>3 DEF ReceiveStep, ReceiveDeploy, ReceiveScale, ReceiveSavepoint, ReceiveSetState,
          ReceiveAutoscalerSwitch, ReceiveContinueAsNew, ReceiveUnsupported, Receive, Operate,
          RecordAtOnce, Record
  <1>4. CASE ChildStep
    <2>1. pc' \in RolloutPCs /\ UNCHANGED <<active, versions, currentVersion>>
      BY <1>4, WorkflowStepStaysInside DEF ChildStep, actorVars, versionVars
    <2>2. input' = input
      BY <1>4 DEF ChildStep, WorkflowStep, ValidateDeployment, ValidateDeploymentFails,
            AcquireCapacityLease, CapacityExhausted, AcquireCapacityLeaseFails, TriggerSavepoint,
            ObserveSavepoint, SavepointFails, ApplyDeployment, ApplyDeploymentFails,
            ObserveDeployment, HealthGate, ObserveDeploymentFails, ApplyRollback,
            ApplyRollbackFails, ReleaseCapacityLease, ReleaseCapacityLeaseFails
    <2> QED
      BY <2>1, <2>2
  <1>5. CASE ReturnFromRollout \/ ReturnFromSavepoint
    BY <1>5 DEF ReturnFromRollout, ReturnFromSavepoint, Record
  <1>6. CASE SetJobState \/ SetJobStateFails \/ ObserveResumed \/ ObserveResumedFails
    <2>1. pc \notin RolloutPCs /\ (active' = Null \/ active' = active)
      BY <1>6 DEF SetJobState, SetJobStateFails, ObserveResumed, ObserveResumedFails, Record,
            RetryActivity
    <2> QED
      BY <2>1
  <1>7. CASE RecordAudit
    <2>1. active' = Null
      BY <1>7 DEF RecordAudit, VersionsInv, KeysInv, ActiveIsNew
    <2> QED
      BY <2>1
  <1>8. CASE SignalWorkflow \/ ClusterStep \/ UNCHANGED vars
    BY <1>8 DEF SignalWorkflow, ClusterStep, WorldStep, LateWriteLands, LeaseExpires, actorVars,
          versionVars, vars, rolloutVars, childVars
  <1> QED
    BY <1>1, <1>2, <1>3, <1>4, <1>5, <1>6, <1>7, <1>8 DEF Next, ReceiveStep, CompleteStep

\* A rollback that names a recorded version and succeeds leads to that version's spec,
\* however the places in the list have shifted (deployment_actor.go:205-212).
THEOREM RollbackRestoresAskedHolds == Spec => RollbackRestoresAsked
  <1>1. Init => AskedInv
    BY DEF Init, AskedInv
  <1>2. VersionsInv /\ AskedInv /\ [Next]_vars => AskedInv'
    BY AskedStep
  <1>3. VersionsInv /\ AskedInv /\ [Next]_vars =>
           [(/\ active # Null /\ active.type = "RollbackToVersion"
             /\ currentVersion' # currentVersion
             /\ SpecsOf(active.targetVersion) # {})
            => currentVersion'.spec \in SpecsOf(active.targetVersion)]_vars
    <2> SUFFICES ASSUME VersionsInv, AskedInv, Next, active # Null,
                        active.type = "RollbackToVersion", currentVersion' # currentVersion,
                        SpecsOf(active.targetVersion) # {}
                 PROVE  currentVersion'.spec \in SpecsOf(active.targetVersion)
      OBVIOUS
    <2>1. pc \in RolloutPCs /\ input.target \in SpecsOf(active.targetVersion)
      BY DEF AskedInv
    <2>2. ReturnFromRollout /\ outcome = "ok"
      BY <2>1 DEF Next, ReceiveStep, CompleteStep, RolloutPCs, SignalWorkflow, ChildStep, ClusterStep,
            ReceiveDuplicate, ReceiveDeploy, ReceiveRollback, ReceiveScale, ReceiveSavepoint,
            ReceiveSetState, ReceiveAutoscalerSwitch, ReceiveContinueAsNew, ReceiveUnsupported,
            Receive, CanReceive, ReturnFromRollout, ReturnFromSavepoint, SetJobState,
            SetJobStateFails, ObserveResumed, ObserveResumedFails, RecordAudit, actorVars, versionVars
    <2>3. currentVersion' = result.version /\ result.version.spec = input.target
      BY <2>2, SuccessfulRollout DEF ReturnFromRollout
    <2> QED
      BY <2>1, <2>3
  <1> QED
    BY <1>1, <1>2, <1>3, VersionsInvariant, PTL DEF Spec, RollbackRestoresAsked

-----------------------------------------------------------------------------
(***************************************************************************)
(* Part 3: the cluster.                                                    *)
(***************************************************************************)

-----------------------------------------------------------------------------
(* Leases.                                                                 *)

\* The steps of a child workflow keep account of its lease: it is acquired at most once
\* (rollout.go:54-65), and no way out leads past the deferred release (66-69).
LEMMA ChildKeepsLeases ==
    ASSUME VersionsInv, LeasesInv, ChildStep
    PROVE  LeasesInv'
  <1> USE DEF RolloutPCs
  <1>0. /\ pc \in RolloutPCs /\ pc' \in RolloutPCs
        /\ WorkflowStep
        /\ input \in Inputs /\ result \in Results /\ leases \subseteq LeaseIDs
        /\ leaky \in BOOLEAN /\ Null \notin LeaseIDs
        /\ result.leaseID # Null => input.kind = "rollout"
    BY WorkflowStepStaysInside, ChildFacts, NullAssumption
       DEF ChildStep, VersionsInv, TypeOK, WorldTypeOK, SavepointOfActive
  <1>1. input' = input
    BY <1>0 DEF WorkflowStep, ValidateDeployment, ValidateDeploymentFails, AcquireCapacityLease,
          CapacityExhausted, AcquireCapacityLeaseFails, TriggerSavepoint, ObserveSavepoint,
          SavepointFails, ApplyDeployment, ApplyDeploymentFails, ObserveDeployment, HealthGate,
          ObserveDeploymentFails, ApplyRollback, ApplyRollbackFails, ReleaseCapacityLease,
          ReleaseCapacityLeaseFails
  <1>2. classification' = classification
    BY <1>1 DEF classification
  <1>3. afterLease \in {"trigger", "apply"}
    BY DEF afterLease
  <1> USE DEF LeasesInv, LeaseCoversRollout, running
  <1>4. CASE ValidateDeployment
    <2>1. CASE Admits(input.current, input.target, input.approved, input.incident, Policy)
      <3>1. result'.leaseID = result.leaseID /\ result'.savepoint = result.savepoint
        BY <1>0, <1>4, <2>1 DEF ValidateDeployment, Results
      <3> QED
        BY <1>0, <1>1, <1>2, <1>3, <1>4, <2>1, <3>1 DEF ValidateDeployment, Proceed, worldVars
    <2>2. CASE ~Admits(input.current, input.target, input.approved, input.incident, Policy)
      BY <1>0, <1>1, <1>2, <1>4, <2>2 DEF ValidateDeployment, Finish, Proceed, worldVars
    <2> QED
      BY <2>1, <2>2
  <1>5. CASE ValidateDeploymentFails
    BY <1>0, <1>1, <1>2, <1>5 DEF ValidateDeploymentFails, AttemptFails, Retry, Finish, Proceed, worldVars
  <1>6. CASE AcquireCapacityLease
    <2>1. PICK id \in LeaseIDs \ leases :
             leases' = leases \cup {id} /\ result' = [result EXCEPT !.leaseID = id]
      BY <1>6 DEF AcquireCapacityLease
    <2>2. result'.leaseID = id /\ result'.savepoint = result.savepoint
      BY <1>0, <2>1 DEF Results
    <2> QED
      BY <1>0, <1>1, <1>2, <1>3, <1>6, <2>1, <2>2 DEF AcquireCapacityLease, Proceed
  <1>7. CASE CapacityExhausted
    BY <1>0, <1>1, <1>2, <1>7 DEF CapacityExhausted, Retry, Finish, Proceed, worldVars
  <1>8. CASE AcquireCapacityLeaseFails
    BY <1>0, <1>1, <1>2, <1>8 DEF AcquireCapacityLeaseFails, AttemptFails, Retry, Finish, Proceed
  <1>9. CASE TriggerSavepoint
    BY <1>0, <1>1, <1>2, <1>9 DEF TriggerSavepoint, Proceed, worldVars
  <1>10. CASE ObserveSavepoint
    <2>1. result'.leaseID = result.leaseID
      BY <1>0, <1>10 DEF ObserveSavepoint, Results
    <2> QED
      BY <1>0, <1>1, <1>2, <1>10, <2>1 DEF ObserveSavepoint, Finish, Proceed, worldVars
  <1>11. CASE SavepointFails
    BY <1>0, <1>1, <1>2, <1>11 DEF SavepointFails, Retry, Finish, Proceed, exit, worldVars
  <1>12. CASE ApplyDeployment
    BY <1>0, <1>1, <1>2, <1>12 DEF ApplyDeployment, Proceed
  <1>13. CASE ApplyDeploymentFails
    BY <1>0, <1>1, <1>2, <1>13 DEF ApplyDeploymentFails, WriteFails, Retry, Finish, Proceed, exit
  <1>14. CASE ObserveDeployment
    <2>1. PICK health \in Healths : HealthGate(health)
      BY <1>14 DEF ObserveDeployment
    <2>2. result'.leaseID = result.leaseID
      BY <1>0, <2>1 DEF HealthGate, Results
    <2> QED
      BY <1>0, <1>1, <1>2, <1>14, <2>1, <2>2
         DEF ObserveDeployment, HealthGate, Finish, Proceed, exit, worldVars
  <1>15. CASE ObserveDeploymentFails
    BY <1>0, <1>1, <1>2, <1>15 DEF ObserveDeploymentFails, Retry, Finish, Proceed, exit, worldVars
  <1>16. CASE ApplyRollback
    BY <1>0, <1>1, <1>2, <1>16 DEF ApplyRollback, Finish, Proceed, exit
  <1>17. CASE ApplyRollbackFails
    BY <1>0, <1>1, <1>2, <1>17 DEF ApplyRollbackFails, WriteFails, Retry, Finish, Proceed, exit
  <1>18. CASE ReleaseCapacityLease
    BY <1>0, <1>1, <1>2, <1>18 DEF ReleaseCapacityLease, Proceed
  <1>19. CASE ReleaseCapacityLeaseFails
    BY <1>0, <1>1, <1>2, <1>19 DEF ReleaseCapacityLeaseFails, AttemptFails, Retry, Finish, Proceed
  <1> QED
    BY <1>0, <1>4, <1>5, <1>6, <1>7, <1>8, <1>9, <1>10, <1>11, <1>12, <1>13, <1>14, <1>15, <1>16,
       <1>17, <1>18, <1>19 DEF WorkflowStep

\* Between operations no lease is acquired, and one that expires is not the one held.
LEMMA LeasesStep ==
    ASSUME VersionsInv, LeasesInv, [Next]_vars
    PROVE  LeasesInv'
  <1> USE DEF RolloutPCs
  <1>0. leases \subseteq LeaseIDs /\ Null \notin LeaseIDs
    BY NullAssumption DEF VersionsInv, TypeOK, WorldTypeOK
  <1>1. CASE ChildStep
    BY <1>1, ChildKeepsLeases
  <1>2. CASE UNCHANGED <<pc, input, result, leases, leaky>>
    BY <1>2 DEF LeasesInv, LeaseCoversRollout, running, classification
  <1>3. CASE ClusterStep
    <2>1. UNCHANGED <<pc, input, result, leaky>>
      BY <1>3 DEF ClusterStep, WorldStep, LateWriteLands, LeaseExpires, childVars
    <2>2. /\ leases' \subseteq leases
          /\ (pc \in running /\ result.leaseID \in leases) => result.leaseID \in leases'
      BY <1>3 DEF ClusterStep, WorldStep, LateWriteLands, LeaseExpires, held, running
    <2> QED
      BY <2>1, <2>2 DEF LeasesInv, LeaseCoversRollout, running, classification
  <1>4. ASSUME pc \notin RolloutPCs, pc' \notin RolloutPCs, UNCHANGED <<leases, leaky>>,
               result' = result
        PROVE  LeasesInv'
    BY <1>4 DEF LeasesInv, LeaseCoversRollout, running
  <1>5. ASSUME NEW in, Begin(in), pc \notin RolloutPCs, UNCHANGED <<leases, leaky>>
        PROVE  LeasesInv'
    <2>1. pc' \in {"validate", "trigger"} /\ result'.leaseID = Null /\ result'.savepoint = Null
      BY <1>5 DEF Begin, EmptyResult
    <2>2. in.kind = "rollout" => pc' = "validate"
      BY <1>5 DEF Begin
    <2>3. input' = in
      BY <1>5 DEF Begin
    <2> QED
      BY <1>5, <2>1, <2>2, <2>3 DEF LeasesInv, LeaseCoversRollout, running, Begin
  <1>6. CASE ReceiveStep
    <2>1. pc = "idle" /\ UNCHANGED <<leases, leaky>>
      BY <1>6 DEF ReceiveStep, ReceiveDuplicate, ReceiveDeploy, ReceiveRollback, ReceiveScale,
            ReceiveSavepoint, ReceiveSetState, ReceiveAutoscalerSwitch, ReceiveContinueAsNew,
            ReceiveUnsupported, Receive, CanReceive, Operate, RecordAtOnce, worldVars, rolloutVars
    <2>2. \/ \E in : Begin(in)
          \/ pc' \in {"idle", "audit", "setState"} /\ result' = result
      BY <1>6, <2>1 DEF ReceiveStep, ReceiveDuplicate, ReceiveDeploy, ReceiveRollback, ReceiveScale,
            ReceiveSavepoint, ReceiveSetState, ReceiveAutoscalerSwitch, ReceiveContinueAsNew,
            ReceiveUnsupported, Operate, RecordAtOnce, Record, rolloutVars, childVars
    <2> QED
      BY <1>4, <1>5, <2>1, <2>2
  <1>7. CASE ReturnFromRollout \/ ReturnFromSavepoint
    <2>1. pc = "return" /\ pc' = "audit" /\ result'.leaseID = Null /\ UNCHANGED <<leases, leaky>>
      BY <1>7 DEF ReturnFromRollout, ReturnFromSavepoint, Record, EmptyResult, worldVars
    <2> QED
      BY <2>1 DEF LeasesInv, LeaseCoversRollout, running
  <1>8. CASE SetJobState \/ SetJobStateFails \/ ObserveResumed \/ ObserveResumedFails \/ RecordAudit
    <2>1. /\ pc \notin RolloutPCs /\ pc' \notin RolloutPCs
          /\ UNCHANGED <<leases, leaky>> /\ result' = result
      BY <1>8 DEF SetJobState, SetJobStateFails, ObserveResumed, ObserveResumedFails, RecordAudit,
            Record, RetryActivity, Retry, worldVars
    <2> QED
      BY <1>4, <2>1
  <1> QED
    BY <1>1, <1>2, <1>3, <1>6, <1>7, <1>8
       DEF Next, CompleteStep, SignalWorkflow, vars, rolloutVars, childVars, worldVars

-----------------------------------------------------------------------------
(* The FlinkDeployment.                                                    *)

\* An apply installs the version it names; a patch of the job state leaves the version.
LEMMA WrittenRuns ==
    ASSUME WorldTypeOK
    PROVE  /\ \A version \in Versions : \A previous :
                 /\ ApplyWrite(version, previous).apply # Null
                 /\ Written(ApplyWrite(version, previous)) # Null
                 /\ Written(ApplyWrite(version, previous)).version = version
           /\ \A state \in {"RUNNING", "SUSPENDED"} :
                 /\ JobWrite(state).apply = Null
                 /\ runtime # Null => /\ Written(JobWrite(state)) # Null
                                      /\ Written(JobWrite(state)).version = runtime.version
                                      /\ Written(JobWrite(state)).job = state
  <1>1. ASSUME NEW version \in Versions, NEW previous
        PROVE  /\ ApplyWrite(version, previous).apply # Null
               /\ Written(ApplyWrite(version, previous)) # Null
               /\ Written(ApplyWrite(version, previous)).version = version
    <2>1. ApplyWrite(version, previous).apply = Applied(version, previous)
      BY DEF ApplyWrite
    <2>2. Applied(version, previous) \in Runtimes
      <3>1. upgradeMode(version, previous, input.incident, Policy.gitOpsOnly)
               \in {"stateless", "last-state", "savepoint"}
        BY DEF upgradeMode
      <3> QED
        BY <3>1 DEF Applied, Runtimes, Versions
    <2>3. Applied(version, previous).version = version
      BY DEF Applied
    <2> QED
      BY <2>1, <2>2, <2>3, NullAssumption DEF Written
  <1>2. ASSUME NEW state \in {"RUNNING", "SUSPENDED"}, runtime # Null
        PROVE  /\ Written(JobWrite(state)) # Null
               /\ Written(JobWrite(state)).version = runtime.version
               /\ Written(JobWrite(state)).job = state
    <2>1. runtime \in Runtimes
      BY <1>2 DEF WorldTypeOK
    <2>2. Written(JobWrite(state)) = [runtime EXCEPT !.job = state]
      BY <1>2 DEF Written, JobWrite
    <2>3. /\ [runtime EXCEPT !.job = state] \in Runtimes
          /\ [runtime EXCEPT !.job = state].version = runtime.version
          /\ [runtime EXCEPT !.job = state].job = state
      BY <2>1 DEF Runtimes
    <2> QED
      BY <2>2, <2>3, NullAssumption
  <1>3. \A state : JobWrite(state).apply = Null
    BY DEF JobWrite
  <1> QED
    BY <1>1, <1>2, <1>3

\* What an activity of a child workflow writes is what its next place, or its verdict,
\* says is running; an attempt that is given up on unanswered is remembered.
LEMMA ChildKeepsRuntime ==
    ASSUME VersionsInv, RuntimeInv, ChildStep
    PROVE  RuntimeInv'
  <1> USE DEF RolloutPCs
  <1>0. /\ pc \in RolloutPCs /\ pc' \in RolloutPCs
        /\ WorkflowStep /\ WorldTypeOK
        /\ input \in Inputs /\ result \in Results
        /\ input.current = currentVersion /\ UNCHANGED currentVersion
        /\ \/ input.kind = "rollout"
           \/ input.kind = "savepoint" /\ pc \in {"trigger", "awaitSavepoint", "return"}
        /\ pc \in {"trigger", "awaitSavepoint", "rollback"} => input.current # Null
        /\ pc \in {"apply", "observe", "rollback"} => result.version \in Versions
    BY WorkflowStepStaysInside, ChildFacts
       DEF ChildStep, VersionsInv, TypeOK, SavepointOfActive, actorVars, versionVars
  <1>1. afterLease \in {"trigger", "apply"} /\ exit \in {"return", "release"}
    BY DEF afterLease, exit
  <1> USE DEF RuntimeInv, Runs
  <1>2. CASE ValidateDeployment \/ ValidateDeploymentFails \/ CapacityExhausted
    BY <1>0, <1>1, <1>2 DEF ValidateDeployment, ValidateDeploymentFails, CapacityExhausted,
          AttemptFails, Retry, Finish, Proceed, worldVars
  <1>3. CASE AcquireCapacityLease \/ AcquireCapacityLeaseFails
    BY <1>0, <1>1, <1>3 DEF AcquireCapacityLease, AcquireCapacityLeaseFails, AttemptFails, Retry,
          Finish, Proceed
  <1>4. CASE TriggerSavepoint \/ SavepointFails
    BY <1>0, <1>1, <1>4 DEF TriggerSavepoint, SavepointFails, Retry, Finish, Proceed, worldVars
  <1>5. CASE ObserveSavepoint
    BY <1>0, <1>5 DEF ObserveSavepoint, Finish, Proceed, worldVars
  <1>6. CASE ApplyDeployment
    <2>1. runtime' # Null /\ runtime'.version = result.version
      BY <1>0, <1>6, WrittenRuns DEF ApplyDeployment, WriteSucceeds
    <2> QED
      BY <1>0, <1>6, <2>1 DEF ApplyDeployment, Proceed
  <1>7. CASE ApplyDeploymentFails
    BY <1>0, <1>7 DEF ApplyDeploymentFails, WriteFails, Retry, Finish, Proceed
  <1>8. CASE ObserveDeployment
    <2>1. PICK health \in Healths : HealthGate(health)
      BY <1>8 DEF ObserveDeployment
    <2>2. pc = "observe" /\ UNCHANGED <<input, runtime, unconfirmed>>
      BY <1>8, <2>1 DEF ObserveDeployment, HealthGate, worldVars
    <2>3. CASE EvaluateHealth(health, Policy)
      <3>1. result'.version = [result.version EXCEPT !.healthy = TRUE]
        BY <1>0, <2>1, <2>3 DEF HealthGate, Results
      <3>2. Ids(result'.version) = Ids(result.version)
        BY <1>0, <2>2, <3>1 DEF Versions, Ids
      <3> QED
        BY <1>0, <1>1, <2>1, <2>2, <2>3, <3>2 DEF HealthGate, Finish, Proceed
    <2>4. CASE ~EvaluateHealth(health, Policy)
      BY <1>0, <1>1, <2>1, <2>2, <2>4 DEF HealthGate, Finish, Proceed
    <2> QED
      BY <2>3, <2>4
  <1>9. CASE ObserveDeploymentFails
    BY <1>0, <1>1, <1>9 DEF ObserveDeploymentFails, Retry, Finish, Proceed, worldVars
  <1>10. CASE ApplyRollback
    <2>1. rollbackVersion \in Versions /\ Ids(rollbackVersion) = Ids(input.current)
      BY <1>0, <1>10, UpdatedVersion DEF ApplyRollback, rollbackVersion, Inputs, Results
    <2>2. runtime' # Null /\ runtime'.version = rollbackVersion
      BY <1>0, <1>10, <2>1, WrittenRuns DEF ApplyRollback, WriteSucceeds
    <2> QED
      BY <1>0, <1>1, <1>10, <2>1, <2>2 DEF ApplyRollback, Finish, Proceed
  <1>11. CASE ApplyRollbackFails
    BY <1>0, <1>1, <1>11 DEF ApplyRollbackFails, WriteFails, Retry, Finish, Proceed
  <1>12. CASE ReleaseCapacityLease \/ ReleaseCapacityLeaseFails
    BY <1>0, <1>12 DEF ReleaseCapacityLease, ReleaseCapacityLeaseFails, AttemptFails, Retry,
          Finish, Proceed
  <1> QED
    BY <1>0, <1>2, <1>3, <1>4, <1>5, <1>6, <1>7, <1>8, <1>9, <1>10, <1>11, <1>12 DEF WorkflowStep

\* What receiving a command leaves alone, and where it leads: into the first activity
\* of an operation, or past it.
LEMMA Received ==
    ASSUME ReceiveStep
    PROVE  /\ pc = "idle" /\ UNCHANGED <<worldVars, unconfirmed, currentVersion>>
           /\ \/ /\ status' = "OPERATING"
                 /\ pc' \in {"validate", "trigger"} /\ active'.type # "Suspend"
                 /\ result' = EmptyResult
              \/ status' = "OPERATING" /\ pc' = "setState"
              \/ status' \in {"FAILED", "IDLE"} /\ pc' = "audit"
              \/ status' = status /\ pc' = "idle"
  <1> USE DEF worldVars, versionVars
  <1>1. CASE ReceiveDuplicate
    BY <1>1 DEF ReceiveDuplicate, CanReceive, rolloutVars, childVars
  <1>2. CASE ReceiveDeploy
    BY <1>2 DEF ReceiveDeploy, Receive, CanReceive, Operate, Begin, RecordAtOnce, Record, RolloutInput
  <1>3. CASE ReceiveRollback
    BY <1>3 DEF ReceiveRollback, Receive, CanReceive, Operate, Begin, RecordAtOnce, Record, RolloutInput
  <1>4. CASE ReceiveScale
    BY <1>4 DEF ReceiveScale, Receive, CanReceive, Operate, Begin, RecordAtOnce, Record, RolloutInput
  <1>5. CASE ReceiveSavepoint
    BY <1>5 DEF ReceiveSavepoint, Receive, CanReceive, Operate, Begin, RecordAtOnce, Record,
          SavepointInput, NoInput
  <1>6. CASE ReceiveSetState
    BY <1>6 DEF ReceiveSetState, Receive, CanReceive, Operate, RecordAtOnce, Record
  <1>7. CASE ReceiveAutoscalerSwitch \/ ReceiveContinueAsNew \/ ReceiveUnsupported
    BY <1>7 DEF ReceiveAutoscalerSwitch, ReceiveContinueAsNew, ReceiveUnsupported, Receive,
          CanReceive, RecordAtOnce, Record
  <1> QED
    BY <1>1, <1>2, <1>3, <1>4, <1>5, <1>6, <1>7 DEF ReceiveStep

\* The cluster's own steps: only a write that lands late changes the FlinkDeployment.
LEMMA ClusterFacts ==
    ASSUME ClusterStep
    PROVE  /\ UNCHANGED <<childVars, actorVars>>
           /\ unconfirmed' \/ UNCHANGED <<runtime, unconfirmed>>
  BY DEF ClusterStep, WorldStep, LateWriteLands, LeaseExpires

\* The actor stores what the child returned, and patches nothing but the job state.
LEMMA RuntimeStep ==
    ASSUME VersionsInv, RuntimeInv, [Next]_vars
    PROVE  RuntimeInv'
  <1>0. WorldTypeOK /\ VersionTypeOK /\ ChildTypeOK
    BY DEF VersionsInv, TypeOK
  <1> USE DEF RuntimeInv, Runs
  <1>1. CASE ChildStep
    BY <1>1, ChildKeepsRuntime
  <1>2. CASE ReceiveStep
    BY <1>2, Received DEF worldVars
  <1>3. CASE ClusterStep
    BY <1>3, ClusterFacts DEF childVars, actorVars, versionVars
  <1>4. CASE ReturnFromRollout
    BY <1>4 DEF ReturnFromRollout, Record, worldVars, versionVars
  <1>5. CASE ReturnFromSavepoint
    BY <1>5 DEF ReturnFromSavepoint, Record, worldVars, versionVars
  <1>6. CASE SetJobState \/ SetJobStateFails
    <2>1. desired \in {"RUNNING", "SUSPENDED"}
      BY DEF desired
    <2>2. /\ pc = "setState" /\ pc' \in {"setState", "resumeObserve", "audit"}
          /\ UNCHANGED <<input, currentVersion>>
      BY <1>6 DEF SetJobState, SetJobStateFails, Record, RetryActivity, Retry, versionVars
    <2>3. /\ runtime' = runtime \/ runtime' = Written(JobWrite(desired))
          /\ unconfirmed' = unconfirmed \/ unconfirmed'
      BY <1>6, <1>0, <2>1, WrittenRuns DEF SetJobState, SetJobStateFails, WriteSucceeds
    <2>4. runtime # Null => runtime' # Null /\ runtime'.version = runtime.version
      BY <1>0, <2>1, <2>3, WrittenRuns
    <2> QED
      BY <2>2, <2>3, <2>4
  <1>7. CASE ObserveResumed
    <2>1. PICK health \in Healths :
             currentVersion' = [currentVersion EXCEPT !.healthy = health.healthy]
      BY <1>7 DEF ObserveResumed
    <2>2. currentVersion \in Versions
      BY <1>0, <1>7 DEF ObserveResumed, VersionsInv, ChildInv, VersionTypeOK
    <2>3. Ids(currentVersion') = Ids(currentVersion) /\ currentVersion # Null
      BY <2>1, <2>2, NullAssumption DEF Versions, Ids
    <2> QED
      BY <1>7, <2>3 DEF ObserveResumed, Record, worldVars
  <1>8. CASE ObserveResumedFails \/ RecordAudit
    BY <1>8 DEF ObserveResumedFails, RecordAudit, Record, RetryActivity, Retry, worldVars, versionVars
  <1>9. CASE SignalWorkflow \/ UNCHANGED vars
    BY <1>9 DEF SignalWorkflow, vars, rolloutVars, childVars, worldVars, actorVars, versionVars
  <1> QED
    BY <1>1, <1>2, <1>3, <1>4, <1>5, <1>6, <1>7, <1>8, <1>9 DEF Next, CompleteStep

-----------------------------------------------------------------------------
(* The reported status.                                                    *)

\* A suspension is reported only after its patch was answered, and the patch finds the
\* FlinkDeployment of the current version.
LEMMA StatusStep ==
    ASSUME VersionsInv, RuntimeInv, StatusInv, [Next]_vars
    PROVE  StatusInv'
  <1> USE DEF StatusInv, SuspendedIsSuspended, RolloutPCs
  <1>0. WorldTypeOK
    BY DEF VersionsInv, TypeOK
  <1>1. CASE ChildStep
    BY <1>1, WorkflowStepStaysInside DEF ChildStep, actorVars
  <1>2. CASE ReceiveStep
    BY <1>2, Received DEF worldVars
  <1>3. CASE ClusterStep
    BY <1>3, ClusterFacts DEF childVars, actorVars
  <1>4. CASE ReturnFromRollout \/ ReturnFromSavepoint
    BY <1>4 DEF ReturnFromRollout, ReturnFromSavepoint, Record
  <1>5. CASE SetJobState
    <2>1. CASE active.type = "Suspend"
      <3>1. ~unconfirmed => runtime # Null
        BY <1>5 DEF SetJobState, VersionsInv, ChildInv, RuntimeInv, Runs
      <3>2. /\ runtime' = Written(JobWrite("SUSPENDED")) /\ unconfirmed' = unconfirmed
            /\ pc' = "audit"
        BY <1>0, <1>5, <2>1, WrittenRuns DEF SetJobState, WriteSucceeds, desired, Record
      <3>3. ~unconfirmed => runtime'.job = "SUSPENDED"
        BY <1>0, <3>1, <3>2, WrittenRuns
      <3> QED
        BY <3>2, <3>3
    <2>2. CASE active.type # "Suspend"
      BY <1>5, <2>2 DEF SetJobState, Record
    <2> QED
      BY <2>1, <2>2
  <1>6. CASE SetJobStateFails
    BY <1>6 DEF SetJobStateFails, Record, RetryActivity, Retry
  <1>7. CASE ObserveResumed \/ ObserveResumedFails
    BY <1>7 DEF ObserveResumed, ObserveResumedFails, Record, RetryActivity, Retry, worldVars
  <1>8. CASE RecordAudit
    BY <1>8 DEF RecordAudit, worldVars
  <1>9. CASE SignalWorkflow \/ UNCHANGED vars
    BY <1>9 DEF SignalWorkflow, vars, rolloutVars, childVars, worldVars, actorVars
  <1> QED
    BY <1>1, <1>2, <1>3, <1>4, <1>5, <1>6, <1>7, <1>8, <1>9 DEF Next, CompleteStep

-----------------------------------------------------------------------------
(* Savepoints.                                                             *)

\* Nothing is applied past a change that needs a savepoint but from the activity that
\* took it, and what it took runs the version it names.
LEMMA ChildKeepsSavepoints ==
    ASSUME VersionsInv, LeasesInv, RuntimeInv, SavepointInv, ChildStep
    PROVE  SavepointInv'
  <1> USE DEF RolloutPCs
  <1>0. /\ pc \in RolloutPCs /\ pc' \in RolloutPCs
        /\ WorkflowStep /\ WorldTypeOK
        /\ input \in Inputs /\ result \in Results
        /\ input.current = currentVersion
        /\ pc \in {"trigger", "awaitSavepoint", "rollback"} => input.current # Null
        /\ pc \notin {"trigger", "awaitSavepoint", "return"} => input.kind = "rollout"
        /\ pc \in {"validate", "acquire"} => result.savepoint = Null
    BY WorkflowStepStaysInside, ChildFacts DEF ChildStep, VersionsInv, TypeOK, LeasesInv
  <1>1. /\ afterLease \in {"trigger", "apply"} /\ exit \in {"return", "release"}
        /\ afterLease = "apply" => ~classification.requiresSavepoint \/ input.current = Null
    BY DEF afterLease, exit
  <1> USE DEF SavepointInv, SavepointBeforeStatefulApply, SavepointOfTheNamedVersion, classification
  <1>2. CASE ValidateDeployment
    <2>1. result'.savepoint = result.savepoint /\ UNCHANGED input
      BY <1>0, <1>2 DEF ValidateDeployment, Results
    <2> QED
      BY <1>0, <1>1, <1>2, <2>1 DEF ValidateDeployment, Finish, Proceed
  <1>3. CASE AcquireCapacityLease
    <2>1. result'.savepoint = result.savepoint /\ UNCHANGED input
      BY <1>0, <1>3 DEF AcquireCapacityLease, Results
    <2> QED
      BY <1>0, <1>1, <1>3, <2>1 DEF AcquireCapacityLease, Proceed
  <1>4. CASE ValidateDeploymentFails \/ CapacityExhausted \/ AcquireCapacityLeaseFails
    BY <1>0, <1>4 DEF ValidateDeploymentFails, CapacityExhausted, AcquireCapacityLeaseFails,
          AttemptFails, Retry, Finish, Proceed
  <1>5. CASE TriggerSavepoint \/ SavepointFails
    BY <1>0, <1>1, <1>5 DEF TriggerSavepoint, SavepointFails, Retry, Finish, Proceed
  <1>6. CASE ObserveSavepoint
    <2>1. SavepointRecord \in Savepoints /\ SavepointRecord # Null
      BY <1>0, <1>6, NullAssumption
         DEF ObserveSavepoint, SavepointRecord, Savepoints, Inputs, Versions, WorldTypeOK, Runtimes
    <2>2. ~unconfirmed => SavepointRecord.runs = SavepointRecord.deploymentVersion
      BY <1>0, <1>6 DEF ObserveSavepoint, SavepointRecord, RuntimeInv, Runs, Ids
    <2>3. CASE input.kind = "rollout"
      <3>1. result.version \in Versions
        BY <1>0, <1>6, <2>3, ChildFacts
           DEF ObserveSavepoint, RolloutOfActive, SavepointOfActive, Admitted, Results
      <3>2. /\ result'.savepoint = SavepointRecord
            /\ result'.version.savepointURI = SavepointRecord
        <4>1. result' = [result EXCEPT !.savepoint = SavepointRecord,
                                       !.version.savepointURI = SavepointRecord]
          BY <1>6, <2>3 DEF ObserveSavepoint
        <4>2. /\ result'.savepoint = SavepointRecord
              /\ result'.version = [result.version EXCEPT !.savepointURI = SavepointRecord]
          BY <1>0, <4>1 DEF Results
        <4> QED
          BY <3>1, <4>2 DEF Versions
      <3>3. SavepointRecord.deploymentVersion = input.current.versionId
        BY DEF SavepointRecord
      <3> QED
        BY <1>6, <2>1, <2>2, <2>3, <3>2, <3>3 DEF ObserveSavepoint, Proceed
    <2>4. CASE input.kind # "rollout"
      BY <1>6, <2>4 DEF ObserveSavepoint, Finish, Proceed
    <2> QED
      BY <2>3, <2>4
  <1>7. CASE ApplyDeployment
    BY <1>7 DEF ApplyDeployment, Proceed
  <1>8. CASE ApplyDeploymentFails
    BY <1>1, <1>8 DEF ApplyDeploymentFails, WriteFails, Retry, Finish, Proceed
  <1>9. CASE ObserveDeployment
    BY <1>1, <1>9 DEF ObserveDeployment, HealthGate, Finish, Proceed
  <1>10. CASE ObserveDeploymentFails
    BY <1>1, <1>10 DEF ObserveDeploymentFails, Retry, Finish, Proceed
  <1>11. CASE ApplyRollback \/ ApplyRollbackFails
    BY <1>1, <1>11 DEF ApplyRollback, ApplyRollbackFails, WriteFails, Retry, Finish, Proceed
  <1>12. CASE ReleaseCapacityLease \/ ReleaseCapacityLeaseFails
    BY <1>12 DEF ReleaseCapacityLease, ReleaseCapacityLeaseFails, AttemptFails, Retry, Finish, Proceed
  <1> QED
    BY <1>0, <1>2, <1>3, <1>4, <1>5, <1>6, <1>7, <1>8, <1>9, <1>10, <1>11, <1>12 DEF WorkflowStep

\* The actor itself neither takes savepoints nor applies.
LEMMA SavepointStep ==
    ASSUME VersionsInv, LeasesInv, RuntimeInv, SavepointInv, [Next]_vars
    PROVE  SavepointInv'
  <1> USE DEF SavepointInv, SavepointBeforeStatefulApply, SavepointOfTheNamedVersion, classification
  <1>1. CASE ChildStep
    BY <1>1, ChildKeepsSavepoints
  <1>2. CASE ReceiveStep
    BY <1>2, Received
  <1>3. CASE ClusterStep
    BY <1>3, ClusterFacts DEF childVars
  <1>4. CASE CompleteStep
    <2>1. pc' \notin {"apply", "observe", "rollback"}
      BY <1>4 DEF CompleteStep, ReturnFromRollout, ReturnFromSavepoint, SetJobState,
            SetJobStateFails, ObserveResumed, ObserveResumedFails, RecordAudit, Record,
            RetryActivity, Retry
    <2> QED
      BY <2>1
  <1>5. CASE SignalWorkflow \/ UNCHANGED vars
    BY <1>5 DEF SignalWorkflow, vars, rolloutVars, childVars
  <1> QED
    BY <1>1, <1>2, <1>3, <1>4, <1>5 DEF Next

-----------------------------------------------------------------------------

\* Leases, FlinkDeployment, status and savepoints agree in every state.
THEOREM WorldInvariant == Spec => []WorldInv
  <1>1. Init => WorldInv
    BY DEF Init, WorldInv, LeasesInv, LeaseCoversRollout, running, RuntimeInv, StatusInv,
          SuspendedIsSuspended, SavepointInv, SavepointBeforeStatefulApply,
          SavepointOfTheNamedVersion, EmptyResult, NoInput, RolloutPCs
  <1>2. VersionsInv /\ WorldInv /\ [Next]_vars => WorldInv'
    BY LeasesStep, RuntimeStep, StatusStep, SavepointStep DEF WorldInv
  <1> QED
    BY <1>1, <1>2, VersionsInvariant, PTL DEF Spec

\* No rollout of the actor runs without the reservation its change needs: retries, lost
\* answers and expiries take away only others (rollout.go:54-69).
THEOREM LeaseCoversRolloutHolds == Spec => []LeaseCoversRollout
  <1>1. WorldInv => LeaseCoversRollout
    BY DEF WorldInv, LeasesInv
  <1> QED
    BY <1>1, WorldInvariant, PTL

\* Between its operations the actor holds no capacity unless an acquire or release
\* attempt failed, whichever way its rollouts ended (rollout.go:66-69).
THEOREM NoLeaseBetweenOperationsHolds == Spec => []NoLeaseBetweenOperations
  <1>1. VersionsInv /\ WorldInv => NoLeaseBetweenOperations
    BY DEF WorldInv, LeasesInv, NoLeaseBetweenOperations, VersionsInv, KeysInv, ActiveIsNew, RolloutPCs
  <1> QED
    BY <1>1, VersionsInvariant, WorldInvariant, PTL

\* Between its operations the FlinkDeployment runs the version the actor reports, unless
\* something went unanswered (deployment_actor.go:153-179, rollout.go:100-127).
THEOREM RuntimeIsCurrentHolds == Spec => []RuntimeIsCurrent
  <1>1. VersionsInv /\ WorldInv => RuntimeIsCurrent
    BY DEF WorldInv, RuntimeInv, Runs, RuntimeIsCurrent, VersionsInv, KeysInv, ActiveIsNew
  <1> QED
    BY <1>1, VersionsInvariant, WorldInvariant, PTL

\* SUSPENDED is never reported of a job that runs, unless a write was lost or landed
\* late (deployment_actor.go:92-96, 123-125).
THEOREM SuspendedIsSuspendedHolds == Spec => []SuspendedIsSuspended
  <1>1. WorldInv => SuspendedIsSuspended
    BY DEF WorldInv, StatusInv
  <1> QED
    BY <1>1, WorldInvariant, PTL

\* No stateful change is applied without a savepoint of the version it replaces, and
\* that savepoint was taken of the job it names (rollout.go:71-98, adapter.go:288-303).
THEOREM SavepointsHold == Spec => [](SavepointBeforeStatefulApply /\ SavepointOfTheNamedVersion)
  <1>1. WorldInv => SavepointBeforeStatefulApply /\ SavepointOfTheNamedVersion
    BY DEF WorldInv, SavepointInv
  <1> QED
    BY <1>1, WorldInvariant, PTL

=============================================================================
