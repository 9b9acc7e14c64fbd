-------------------------- MODULE DeploymentActor --------------------------
(***************************************************************************)
(* DeploymentActorWorkflow (workflows/deployment_actor.go): the long-lived *)
(* workflow that owns one Flink deployment.  It receives command signals   *)
(* one at a time, runs each to its end (the rollout and the savepoint as   *)
(* child workflows, module Rollout), records it, and from time to time     *)
(* continues as new with a compacted state.                                *)
(*                                                                         *)
(* Temporal is external: `inbox' holds the signals the server has accepted *)
(* and the workflow has not received.  A run that continues as new leaves  *)
(* the signals it has not received behind.                                 *)
(*                                                                         *)
(* state.Pending is filled and emptied within one workflow task and is     *)
(* empty whenever the workflow blocks, so it is not a variable; texts      *)
(* (LastError, Result), times, requesters and child ids are left out.      *)
(***************************************************************************)
EXTENDS Rollout, Sequences

CONSTANTS
    Specs,           \* the deployment specs in play
    Commands,        \* the DeploymentCommands clients may send
    HistoryLimit,    \* compact's historyLimit, 50 in the code
    ContinueAfter,   \* state.ContinueAfter, 500 by default
    MaxAccepted      \* bound: how many signals clients send

\* domain.SavepointRecord and domain.DeploymentVersion, cut to what the model
\* tells apart, and the FlinkDeployment resource.
Savepoints == [deploymentVersion : Nat, runs : Nat]
Versions == [versionId : Nat, spec : Specs, savepointURI : Savepoints \cup {Null},
             healthy : BOOLEAN]
Runtimes == [version : Versions, savepointURI : Savepoints \cup {Null},
             mode : {"stateless", "last-state", "savepoint"}, job : {"RUNNING", "SUSPENDED"}]

\* domain.CommandType; Unsupported stands for any other string.
CommandTypes == {"DeployVersion", "RollbackToVersion", "ScaleTo", "RequestSavepoint",
                 "Suspend", "Resume", "EnableAutoscaler", "FreezeAutoscaler",
                 "ContinueAsNew", "Unsupported"}

ASSUME CommandsAssumption ==
    /\ Null \notin Specs
    /\ \A spec \in Specs : spec.autoscalerEnabled \in BOOLEAN /\ spec.maxParallelism \in Int
    /\ \A command \in Commands :
          /\ command # Null
          /\ command.type \in CommandTypes
          /\ command.targetSpec \in Specs \cup {Null}
          /\ command.approved \in BOOLEAN /\ command.incident \in BOOLEAN
ASSUME ScalingAssumption ==
    \A command \in Commands, spec \in Specs :
        [spec EXCEPT !.parallelism = command.parallelism] \in Specs
ASSUME NullAssumption ==
    /\ Null \notin LeaseIDs
    /\ Null \notin Versions
    /\ Null \notin Savepoints
    /\ Null \notin Runtimes
    /\ Null \notin [versionId : Nat, spec : Specs]
ASSUME HealthsAssumption == \A health \in Healths : health.healthy \in BOOLEAN
ASSUME HistoryLimitAssumption == HistoryLimit \in Nat \ {0}
ASSUME ContinueAfterAssumption == ContinueAfter \in Nat \ {0}
ASSUME MaxAcceptedAssumption == MaxAccepted \in Nat

VARIABLES
    inbox,              \* signals accepted, not yet received
    status,             \* state.Status
    currentVersion,     \* state.CurrentVersion
    lastHealthyVersion, \* state.LastHealthyVersion
    shared,             \* do the two point to one struct?
    versions,           \* state.Versions
    lastSavepoint,      \* state.LastSavepoint
    operations,         \* state.Operations
    processedKeys,      \* the keys of state.ProcessedKeys
    active,             \* the command of state.ActiveOperation, Null when nil
    autoscalerEnabled,  \* state.AutoscalerEnabled
    autoscalerFrozen,   \* state.AutoscalerFrozen
    eventCount,         \* state.ProcessedEventCount
    accepted,           \* history: how many signals the server has accepted
    acceptedKeys,       \* history: and the keys of their commands
    log,                \* history: the keys of all operations ever recorded
    endorsed            \* history: the specs deployed by an approved command

versionVars == <<currentVersion, lastHealthyVersion, shared, versions, endorsed>>
recordVars == <<operations, processedKeys, log>>
autoscalerVars == <<autoscalerEnabled, autoscalerFrozen>>
actorVars == <<status, versionVars, lastSavepoint, recordVars, active,
               autoscalerVars, eventCount>>
sentVars == <<accepted, acceptedKeys>>
vars == <<rolloutVars, inbox, actorVars, sentVars>>

Keys == {command.key : command \in Commands}

-----------------------------------------------------------------------------
(* Receiving signals.                                                      *)

\* SignalWorkflow: the server accepts a command; the client is answered QUEUED.
SignalWorkflow ==
    /\ accepted < MaxAccepted
    /\ accepted' = accepted + 1
    /\ \E command \in Commands :
          /\ inbox' = Append(inbox, command)
          /\ acceptedKeys' = acceptedKeys \cup {command.key}
    /\ UNCHANGED <<rolloutVars, actorVars>>

\* The last n elements of a sequence, all of them if there are fewer.
LastN(seq, n) == SubSeq(seq, (IF Len(seq) > n THEN Len(seq) - n ELSE 0) + 1, Len(seq))

\* Mutant: forgets the newest operation.
KeysOfAllButLast(ops) == {ops[i].key : i \in 1 .. Len(ops) - 1}

KeysOf(ops) == {ops[i].key : i \in DOMAIN ops}

\* Mutant: keeps the oldest versions.
compactKeepingOldest(ops, vers) ==
    /\ operations' = LastN(ops, HistoryLimit)
    /\ versions' = SubSeq(vers, 1, IF Len(vers) > HistoryLimit THEN HistoryLimit ELSE Len(vers))
    /\ processedKeys' = KeysOf(LastN(ops, HistoryLimit))

\* compact, applied to the operations and to the versions.
compact(ops, vers) ==
    /\ operations' = LastN(ops, HistoryLimit)
    /\ versions' = LastN(vers, HistoryLimit)
    /\ processedKeys' = KeysOf(LastN(ops, HistoryLimit))

\* The end of the loop body for a command of type `type' when `rest' is still
\* unreceived.  Continuing as new serialises the state, which separates the two
\* version pointers, and starts a run with an empty signal channel.
EndTurn(type, rest) ==
    IF type = "ContinueAsNew" \/ eventCount + 1 >= ContinueAfter
    THEN /\ eventCount' = 0
         /\ compact(operations, versions)
         /\ shared' = FALSE
         /\ inbox' = <<>>
    ELSE /\ eventCount' = eventCount + 1
         /\ inbox' = rest
         /\ UNCHANGED <<operations, versions, processedKeys, shared>>

\* The command the idle workflow receives next.
next == Head(inbox)

CanReceive == pc = "idle" /\ inbox # <<>>

\* A key that is already recorded: processCommand returns at once.
ReceiveDuplicate ==
    /\ CanReceive
    /\ next.key \in processedKeys
    /\ EndTurn(next.type, Tail(inbox))
    /\ UNCHANGED <<rolloutVars, status, currentVersion, lastHealthyVersion,
                   endorsed, lastSavepoint, log, active, autoscalerVars, sentVars>>

\* Any other command becomes the active operation ...
Receive(type) ==
    /\ CanReceive
    /\ next.type = type
    /\ next.key \notin processedKeys
    /\ inbox' = Tail(inbox)

\* ... and blocks in the first activity it needs, ...
Operate ==
    /\ active' = next
    /\ status' = "OPERATING"
    /\ UNCHANGED <<versionVars, lastSavepoint, recordVars, autoscalerVars,
                   eventCount, sentVars, worldVars, unconfirmed, leaky>>

\* ... or is recorded in the same workflow task.
Record(command, succeeded) ==
    /\ operations' = Append(operations, [key |-> command.key, type |-> command.type,
                                         status |-> IF succeeded THEN "SUCCEEDED" ELSE "FAILED"])
    /\ processedKeys' = processedKeys \cup {command.key}
    /\ log' = Append(log, command.key)
    /\ active' = Null
    /\ status' = IF ~succeeded THEN "FAILED"
                 ELSE IF command.type = "Suspend" THEN "SUSPENDED" ELSE "IDLE"
    /\ pc' = "audit"

RecordAtOnce(succeeded) ==
    /\ Record(next, succeeded)
    /\ UNCHANGED <<versionVars, lastSavepoint, eventCount, sentVars, input, result,
                   outcome, attempts, worldVars, unconfirmed, leaky>>

-----------------------------------------------------------------------------
(* processCommand, up to the first blocking call.                          *)

ReceiveDeploy ==
    /\ Receive("DeployVersion")
    /\ \/ /\ next.targetSpec # Null
          /\ Begin(RolloutInput(currentVersion, next.targetSpec, next.approved, next.incident))
          /\ Operate
       \/ /\ next.targetSpec = Null
          /\ RecordAtOnce(FALSE)
          /\ UNCHANGED autoscalerVars

\* Mutant: takes the id for a place in the recorded versions.
rollbackByIndex ==
    IF next.targetVersion \in DOMAIN versions THEN versions[next.targetVersion]
    ELSE lastHealthyVersion

\* The recorded version with the requested id, else the last healthy one.
rollbackTarget ==
    LET found == {i \in DOMAIN versions : versions[i].versionId = next.targetVersion}
    IN  IF found # {} THEN versions[CHOOSE i \in found : \A j \in found : i <= j]
        ELSE lastHealthyVersion

\* A rollback is a deploy of an old spec that counts as approved.
ReceiveRollback ==
    /\ Receive("RollbackToVersion")
    /\ \/ /\ rollbackTarget # Null
          /\ Begin(RolloutInput(currentVersion, rollbackTarget.spec, TRUE, next.incident))
          /\ Operate
       \/ /\ rollbackTarget = Null
          /\ RecordAtOnce(FALSE)
          /\ UNCHANGED autoscalerVars

\* A scale is a deploy of the current spec with another parallelism.
ReceiveScale ==
    LET rejected == currentVersion = Null \/ (autoscalerEnabled /\ ~autoscalerFrozen)
    IN  /\ Receive("ScaleTo")
        /\ \/ /\ ~rejected
              /\ Begin(RolloutInput(currentVersion,
                                    [currentVersion.spec EXCEPT !.parallelism = next.parallelism],
                                    next.approved, next.incident))
              /\ Operate
           \/ /\ rejected
              /\ RecordAtOnce(FALSE)
              /\ UNCHANGED autoscalerVars

ReceiveSavepoint ==
    /\ Receive("RequestSavepoint")
    /\ \/ /\ currentVersion # Null
          /\ Begin(SavepointInput(currentVersion))
          /\ Operate
       \/ /\ currentVersion = Null
          /\ RecordAtOnce(FALSE)
          /\ UNCHANGED autoscalerVars

\* Suspend and Resume patch the job state of an existing deployment.
ReceiveSetState ==
    /\ \E type \in {"Suspend", "Resume"} : Receive(type)
    /\ \/ /\ currentVersion # Null
          /\ pc' = "setState"
          /\ attempts' = 0
          /\ UNCHANGED <<input, result, outcome>>
          /\ Operate
       \/ /\ currentVersion = Null
          /\ RecordAtOnce(FALSE)
          /\ UNCHANGED autoscalerVars

ReceiveAutoscalerSwitch ==
    /\ \/ /\ Receive("EnableAutoscaler")
          /\ autoscalerEnabled' = TRUE
          /\ UNCHANGED autoscalerFrozen
       \/ /\ Receive("FreezeAutoscaler")
          /\ autoscalerFrozen' = TRUE
          /\ UNCHANGED autoscalerEnabled
    /\ RecordAtOnce(TRUE)

ReceiveContinueAsNew ==
    /\ Receive("ContinueAsNew")
    /\ RecordAtOnce(TRUE)
    /\ UNCHANGED autoscalerVars

\* The default branch of the switch.
ReceiveUnsupported ==
    /\ Receive("Unsupported")
    /\ RecordAtOnce(FALSE)
    /\ UNCHANGED autoscalerVars

-----------------------------------------------------------------------------
(* processCommand, after the blocking calls.                               *)

\* deploy after the child workflow: a failed child returns no result at all.
ReturnFromRollout ==
    /\ pc = "return" /\ input.kind = "rollout"
    /\ Record(active, outcome = "ok")
    /\ IF outcome = "ok"
       THEN /\ currentVersion' = result.version
            /\ lastHealthyVersion' = result.version
            /\ shared' = TRUE
            /\ versions' = Append(versions, result.version)
            /\ lastSavepoint' = IF result.savepoint # Null THEN result.savepoint ELSE lastSavepoint
            /\ autoscalerEnabled' = result.version.spec.autoscalerEnabled
            /\ endorsed' = IF active.approved /\ active.type # "RollbackToVersion"
                           THEN endorsed \cup {result.version.spec} ELSE endorsed
       ELSE UNCHANGED <<versionVars, lastSavepoint, autoscalerEnabled>>
    /\ input' = NoInput
    /\ result' = EmptyResult
    /\ outcome' = "none"
    /\ UNCHANGED <<attempts, worldVars, unconfirmed, leaky, inbox,
                   autoscalerFrozen, eventCount, sentVars>>

\* savepoint after the child workflow.
ReturnFromSavepoint ==
    /\ pc = "return" /\ input.kind = "savepoint"
    /\ Record(active, outcome = "ok")
    /\ lastSavepoint' = IF outcome = "ok" THEN result.savepoint ELSE lastSavepoint
    /\ input' = NoInput
    /\ result' = EmptyResult
    /\ outcome' = "none"
    /\ UNCHANGED <<attempts, worldVars, unconfirmed, leaky, inbox, versionVars,
                   autoscalerVars, eventCount, sentVars>>

\* Mutant: the two states are swapped.
desiredSwapped == IF active.type = "Suspend" THEN "RUNNING" ELSE "SUSPENDED"

\* The activity of an operation that is run by the actor itself has ended.
desired == IF active.type = "Suspend" THEN "SUSPENDED" ELSE "RUNNING"

\* setState; Resume then observes the deployment.
SetJobState ==
    /\ pc = "setState"
    /\ WriteSucceeds(JobWrite(desired))
    /\ attempts' = 0
    /\ IF active.type = "Resume"
       THEN /\ pc' = "resumeObserve"
            /\ UNCHANGED <<recordVars, active, status>>
       ELSE Record(active, TRUE)
    /\ UNCHANGED <<input, result, outcome, leases, leaky, inbox, versionVars,
                   lastSavepoint, autoscalerVars, eventCount, sentVars>>

\* The error paths share the shape of module Rollout: retry or record a failure.
RetryActivity ==
    /\ Retry
    /\ UNCHANGED <<recordVars, active, status>>

SetJobStateFails ==
    /\ pc = "setState"
    /\ \/ "no-effect" \in FaultKinds /\ UNCHANGED <<runtime, late>>
       \/ "answer-lost" \in FaultKinds /\ runtime' = Written(JobWrite(desired)) /\ UNCHANGED late
       \/ "lands-late" \in FaultKinds /\ late' = late \cup {JobWrite(desired)} /\ UNCHANGED runtime
    /\ \/ RetryActivity /\ UNCHANGED unconfirmed
       \/ /\ Record(active, FALSE)
          /\ attempts' = 0
          /\ unconfirmed' = TRUE
          /\ UNCHANGED outcome
    /\ UNCHANGED <<input, result, leases, leaky, inbox, versionVars, lastSavepoint,
                   autoscalerVars, eventCount, sentVars>>

\* resume: the observed health is stored without passing any gate, through the
\* pointer the last healthy version may share.
ObserveResumed ==
    /\ pc = "resumeObserve"
    /\ \E health \in Healths :
          /\ currentVersion' = [currentVersion EXCEPT !.healthy = health.healthy]
          /\ lastHealthyVersion' = IF shared THEN currentVersion' ELSE lastHealthyVersion
    /\ Record(active, TRUE)
    /\ attempts' = 0
    /\ UNCHANGED <<input, result, outcome, worldVars, unconfirmed, leaky, inbox,
                   shared, versions, endorsed, lastSavepoint, autoscalerVars, eventCount, sentVars>>

ObserveResumedFails ==
    /\ pc = "resumeObserve"
    /\ FaultKinds # {}
    /\ \/ RetryActivity
       \/ Record(active, FALSE) /\ attempts' = 0 /\ UNCHANGED outcome
    /\ UNCHANGED <<input, result, worldVars, unconfirmed, leaky, inbox, versionVars,
                   lastSavepoint, autoscalerVars, eventCount, sentVars>>

\* RecordAudit has ended, its error ignored; the loop body ends.
RecordAudit ==
    /\ pc = "audit"
    /\ pc' = "idle"
    /\ EndTurn(operations[Len(operations)].type, inbox)
    /\ UNCHANGED <<input, result, outcome, attempts, worldVars, unconfirmed, leaky,
                   status, currentVersion, lastHealthyVersion, endorsed, lastSavepoint, log,
                   active, autoscalerVars, sentVars>>

-----------------------------------------------------------------------------

Init ==
    /\ pc = "idle"
    /\ input = NoInput
    /\ result = EmptyResult
    /\ outcome = "none"
    /\ attempts = 0
    /\ runtime = Null
    /\ leases = {}
    /\ late = {}
    /\ unconfirmed = FALSE
    /\ leaky = FALSE
    /\ inbox = <<>>
    /\ status = "IDLE"
    /\ currentVersion = Null
    /\ lastHealthyVersion = Null
    /\ shared = FALSE
    /\ versions = <<>>
    /\ lastSavepoint = Null
    /\ operations = <<>>
    /\ processedKeys = {}
    /\ active = Null
    /\ autoscalerEnabled = FALSE
    /\ autoscalerFrozen = FALSE
    /\ eventCount = 0
    /\ accepted = 0
    /\ acceptedKeys = {}
    /\ log = <<>>
    /\ endorsed = {}

\* The idle workflow takes the next signal.
ReceiveStep ==
    \/ ReceiveDuplicate \/ ReceiveDeploy \/ ReceiveRollback \/ ReceiveScale
    \/ ReceiveSavepoint \/ ReceiveSetState \/ ReceiveAutoscalerSwitch
    \/ ReceiveContinueAsNew \/ ReceiveUnsupported

\* An activity or a child workflow of the actor ends.
CompleteStep ==
    \/ ReturnFromRollout \/ ReturnFromSavepoint
    \/ SetJobState \/ SetJobStateFails
    \/ ObserveResumed \/ ObserveResumedFails
    \/ RecordAudit

ChildStep == WorkflowStep /\ UNCHANGED <<inbox, actorVars, sentVars>>

ClusterStep == WorldStep /\ UNCHANGED <<inbox, actorVars, sentVars>>

Next == SignalWorkflow \/ ReceiveStep \/ CompleteStep \/ ChildStep \/ ClusterStep

\* A worker polls the queue, and every activity attempt ends or times out.
Fairness == WF_vars(ReceiveStep \/ CompleteStep \/ ChildStep)

Spec == Init /\ [][Next]_vars

FairSpec == Spec /\ Fairness

-----------------------------------------------------------------------------
(* Properties.                                                             *)

RolloutPCs == {"validate", "acquire", "trigger", "awaitSavepoint", "apply", "observe",
               "rollback", "release", "return"}

\* Writes to the FlinkDeployment: an applied manifest or a patch of its job state.
Writes == [apply : Runtimes \cup {Null}, job : {"RUNNING", "SUSPENDED"}]

ChildTypeOK ==
    /\ pc \in RolloutPCs \cup {"idle", "setState", "resumeObserve", "audit"}
    /\ input \in [current : Versions \cup {Null}, target : Specs \cup {Null},
                  approved : BOOLEAN, incident : BOOLEAN,
                  kind : {"none", "rollout", "savepoint"}]
    /\ result \in [version : Versions \cup {Null}, savepoint : Savepoints \cup {Null},
                   leaseID : LeaseIDs \cup {Null}]
    /\ outcome \in {"none", "ok", "failed"}
    /\ attempts \in 0 .. MaxAttempts - 1

WorldTypeOK ==
    /\ runtime \in Runtimes \cup {Null}
    /\ leases \subseteq LeaseIDs
    /\ late \subseteq Writes
    /\ unconfirmed \in BOOLEAN /\ leaky \in BOOLEAN

KeysTypeOK ==
    /\ inbox \in Seq(Commands)
    /\ operations \in Seq([key : Keys, type : CommandTypes, status : {"SUCCEEDED", "FAILED"}])
    /\ log \in Seq(Keys)
    /\ active \in Commands \cup {Null}

VersionTypeOK ==
    /\ currentVersion \in Versions \cup {Null}
    /\ lastHealthyVersion \in Versions \cup {Null}
    /\ shared \in BOOLEAN
    /\ versions \in Seq(Versions)
    /\ lastSavepoint \in Savepoints \cup {Null}
    /\ endorsed \subseteq Specs

CounterTypeOK ==
    /\ status \in {"IDLE", "OPERATING", "FAILED", "SUSPENDED"}
    /\ processedKeys \subseteq Keys
    /\ autoscalerEnabled \in BOOLEAN /\ autoscalerFrozen \in BOOLEAN
    /\ eventCount \in 0 .. ContinueAfter - 1
    /\ accepted \in 0 .. MaxAccepted /\ acceptedKeys \subseteq Keys

\* The type invariant.
TypeOK == ChildTypeOK /\ WorldTypeOK /\ KeysTypeOK /\ VersionTypeOK /\ CounterTypeOK

Ids(version) == <<version.versionId, version.spec>>

\* An idempotency key is executed again only after more than HistoryLimit later
\* operations: the keys kept over continue-as-new are exactly those of the
\* retained operations (deployment_actor.go:64-69, 127-128, 277-290).
IdempotencyWindow ==
    \A i, j \in DOMAIN log : (i < j /\ log[i] = log[j]) => j - i > HistoryLimit

\* Version ids are given out without gaps or repetitions, and the version the
\* actor reports as current is the newest one, whatever failed, was rolled back
\* or was compacted in between (rollout.go:46-50, deployment_actor.go:167-169).
VersionsContiguous ==
    /\ \A i \in 1 .. Len(versions) - 1 :
          versions[i + 1].versionId = versions[i].versionId + 1
    /\ currentVersion = Null <=> versions = <<>>
    /\ currentVersion # Null =>
          /\ Ids(currentVersion) = Ids(versions[Len(versions)])
          /\ Ids(lastHealthyVersion) = Ids(currentVersion)

\* A version that follows another one was a legal change of it, and if the change
\* needed a savepoint it carries the one taken of its predecessor.
VersionsAreLegalChanges ==
    \A i \in 1 .. Len(versions) - 1 :
        LET class == ClassifyChange(versions[i], versions[i + 1].spec, Policy)
        IN  /\ class.risk # "REJECTED"
            /\ class.requiresSavepoint =>
                  /\ versions[i + 1].savepointURI # Null
                  /\ versions[i + 1].savepointURI.deploymentVersion = versions[i].versionId

\* README.md:270 "Max-parallelism decreases are rejected after state exists":
\* over any stretch of the history, rollbacks and rescalings included, the number
\* of key groups shrinks only if some version of it was an approved fresh start.
MaxParallelismKept ==
    \A i, j \in DOMAIN versions :
        (i < j /\ versions[j].spec.maxParallelism < versions[i].spec.maxParallelism)
            => \E k \in i + 1 .. j : versions[k].spec.freshStartApproved

\* The specs recorded under an id.
SpecsOf(id) == {versions[i].spec : i \in {j \in DOMAIN versions : versions[j].versionId = id}}

\* A rollback that names a recorded version and succeeds leads to the spec of that very
\* version, whatever was compacted before and however the places in the list have shifted
\* (deployment_actor.go:205-212).  Where a target that is not recorded leads is another
\* question, which this property leaves open.
RollbackRestoresAsked ==
    [][(/\ active # Null /\ active.type = "RollbackToVersion"
        /\ currentVersion' # currentVersion
        /\ SpecsOf(active.targetVersion) # {})
       => currentVersion'.spec \in SpecsOf(active.targetVersion)]_vars

\* Between operations the FlinkDeployment runs the current version, unless an
\* apply, an observation or a patch was given up on or landed late.
RuntimeIsCurrent ==
    (active = Null /\ ~unconfirmed /\ currentVersion # Null)
        => Ids(runtime.version) = Ids(currentVersion)

\* An actor that reports SUSPENDED has a suspended job, unless a write was lost
\* or landed late (deployment_actor.go:92-96, 123-125).
SuspendedIsSuspended ==
    (status = "SUSPENDED" /\ ~unconfirmed) => runtime.job = "SUSPENDED"

\* Between operations this deployment holds no capacity, unless an acquire or a
\* release attempt failed.
NoLeaseBetweenOperations == (active = Null /\ ~leaky) => leases = {}

\* What the abstract version history sees of the actor.
HistoryOf(version) ==
    IF version = Null THEN Null
    ELSE [versionId |-> version.versionId, spec |-> version.spec]

RecordedSpecs == {versions[i].spec : i \in DOMAIN versions}

History == INSTANCE VersionHistory WITH
    current  <- HistoryOf(currentVersion),
    recorded <- RecordedSpecs

\* The actor implements the version history: its rollouts are the admitted changes,
\* everything else leaves the current version alone, compaction forgets.
ImplementsVersionHistory == History!HistorySpec

\* Where production approval is required, no sequence of deploys, rescalings, rollbacks
\* and compactions ever makes the actor record a version whose material differs from
\* everything that was deployed with approval (change.go:29-81, validate.go:32-34,
\* deployment_actor.go:220-224).
OnlyApprovedMaterial == History!OnlyApprovedMaterial

\* Once clients stop sending, the actor drains its inbox and settles: no error
\* path, retry or continue-as-new leaves it operating for ever.
ActorSettles == <>[](inbox = <<>> /\ pc = "idle" /\ active = Null)

-----------------------------------------------------------------------------
(* Inductive invariants, used by the proofs.                               *)

\* The recorded operations are a suffix of all operations, and all of them or at
\* least HistoryLimit many; the processed keys are theirs.
OperationsEndLog ==
    /\ Len(operations) <= Len(log)
    /\ \A i \in 1 .. Len(operations) :
          operations[i].key = log[Len(log) - Len(operations) + i]
    /\ Len(operations) = Len(log) \/ Len(operations) >= HistoryLimit
    /\ processedKeys = KeysOf(operations)

\* An operation is active exactly while the actor is blocked in its activities,
\* and its key has not been recorded meanwhile.
ActiveIsNew ==
    /\ active = Null <=> pc \in {"idle", "audit"}
    /\ active # Null => active.key \notin processedKeys

KeysInv == KeysTypeOK /\ OperationsEndLog /\ ActiveIsNew /\ IdempotencyWindow

\* The child workflow has passed the validation of its target.
Admitted ==
    /\ result.version # Null
    /\ Ids(result.version) = <<nextVersionID, input.target>>
    /\ Admits(input.current, input.target, input.approved, input.incident, Policy)

\* It carries a savepoint of the version it replaces, if its change needs one.
Saved ==
    (classification.requiresSavepoint /\ input.current # Null)
        => /\ result.version.savepointURI # Null
           /\ result.version.savepointURI.deploymentVersion = input.current.versionId

\* A rollout deploys what its command asked for, with the approval that came with
\* it; a rollback to a recorded spec needs none.
RolloutOfActive ==
    /\ input.target # Null
    /\ IF active.type = "RollbackToVersion"
       THEN input.approved /\ input.target \in RecordedSpecs
       ELSE input.approved = active.approved
    /\ (pc \notin {"validate", "return"} \/ outcome = "ok") => Admitted
    /\ (\/ pc \in {"apply", "observe", "rollback"}
        \/ pc \in {"release", "return"} /\ outcome = "ok") => Saved

SavepointOfActive ==
    /\ pc \in {"trigger", "awaitSavepoint", "return"}
    /\ result.leaseID = Null

\* While a child workflow runs, the actor is blocked: the version it was started
\* from is still the current one when its result is stored.
ChildInv ==
    /\ pc \in RolloutPCs =>
          /\ input.kind \in {"rollout", "savepoint"}
          /\ input.current = currentVersion
          /\ input.kind = "rollout" => RolloutOfActive
          /\ input.kind = "savepoint" => SavepointOfActive
    /\ pc \in {"trigger", "awaitSavepoint", "rollback", "setState", "resumeObserve"}
          => currentVersion # Null

VersionsInv ==
    /\ TypeOK
    /\ KeysInv
    /\ VersionsContiguous
    /\ VersionsAreLegalChanges
    /\ lastHealthyVersion = Null <=> currentVersion = Null
    /\ ChildInv

\* A rollback in progress leads where it was asked to.
AskedInv ==
    (active # Null /\ active.type = "RollbackToVersion") =>
        /\ pc \in RolloutPCs /\ input.kind = "rollout"
        /\ SpecsOf(active.targetVersion) # {} => input.target \in SpecsOf(active.targetVersion)

\* What a child workflow has reserved is all there is, unless an attempt failed.
LeasesInv ==
    /\ pc \in {"validate", "acquire"} => result.leaseID = Null /\ result.savepoint = Null
    /\ pc \notin RolloutPCs => result.leaseID = Null
    /\ ~leaky => leases \subseteq {result.leaseID} \ {Null}
    /\ (pc = "return" /\ ~leaky) => leases = {}
    /\ LeaseCoversRollout

\* Unless something went unanswered, the FlinkDeployment runs the current version up to
\* the apply, the new one from then on, and in the end what the verdict says.
Runs(version) == runtime # Null /\ Ids(runtime.version) = Ids(version)

RuntimeInv ==
    ~unconfirmed =>
        /\ (/\ pc \notin {"apply", "observe", "rollback", "release", "return"}
                \/ input.kind = "savepoint"
            /\ currentVersion # Null) => Runs(currentVersion)
        /\ pc = "observe" => Runs(result.version)
        /\ (pc \in {"release", "return"} /\ input.kind = "rollout") =>
              IF outcome = "ok" THEN Runs(result.version)
              ELSE currentVersion # Null => Runs(currentVersion)

\* Only the patch of the job state can end in SUSPENDED.
StatusInv ==
    /\ pc \notin {"idle", "audit"} => status = "OPERATING"
    /\ pc \in RolloutPCs \cup {"resumeObserve"} => active.type # "Suspend"
    /\ SuspendedIsSuspended

SavepointInv == SavepointBeforeStatefulApply /\ SavepointOfTheNamedVersion

WorldInv == LeasesInv /\ RuntimeInv /\ StatusInv /\ SavepointInv

=============================================================================
