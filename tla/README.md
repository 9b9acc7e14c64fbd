# Cohestra in TLA+

Specifications, model-checking configurations and machine-checked proofs of the
orchestration logic of Cohestra: a control plane that runs every Flink deployment
as a long-lived Temporal workflow and rolls it out through a Kubernetes backend.
Line numbers refer to the repository at the commit beside this directory.

## 1. The system

| Part | State | Operations |
|---|---|---|
| HTTP API (`internal/api/server.go`) and control service (`control/service.go`) | none between requests | register, deploy, rollback, scale, savepoint, suspend, resume, autoscaler enable and freeze, continue-as-new, freeze and unfreeze, list, describe |
| Cluster actor (`workflows/cluster_actor.go`), one per namespace | `Frozen` | freeze and unfreeze signals, describe query |
| Deployment actor (`workflows/deployment_actor.go`), one per deployment | status, current and last healthy version, versions, operations, processed keys, last savepoint, autoscaler switches | command signals, one at a time; queries; continue-as-new |
| Rollout and savepoint workflows (`workflows/rollout.go`, `workflows/savepoint.go`) | locals | validate, lease, savepoint, apply, observe, roll back, release |
| Change policy (`domain/change.go`, `activities/validate.go`) | none | classify a change, admit a target, judge health |
| Kubernetes adapter (`backends/kubernetes`) | the FlinkDeployment and FlinkStateSnapshot resources; an informer cache per worker | apply, patch, observe by polling, snapshot |
| Capacity leases (`backends/kubernetes/leases.go`), one ConfigMap per node pool | leases with expiry | acquire, release, purge |
| Simulated backend (`activities/simulated.go`), one worker process | maps of leases and deployments in memory | the same activities |
| Sharding (`sharding.go`) | the number of shards, read by each tier when it starts | the queue of an actor, the queues to poll |
| Listing (`control/service.go:159-337`) | none; the cursor is with the client | list a page, summarise |
| Client SDKs (`sdk/go`, `sdk/python`) | what a loop has polled | autoscaler loop, wait for a healthy version |
| Java SDK, MCP server, console, load generator, login, processes | see section 7 | |

How they interact: an HTTP request makes sure that the cluster actor and the
deployment actor exist, asks the cluster actor whether it is frozen, and signals the
deployment actor; the answer 202 means that Temporal has accepted the signal. The
deployment actor takes signals one by one, runs a rollout or a savepoint as a child
workflow and waits for it; the children run activities, which worker replicas execute
against the API server. Temporal runs an activity at least once. Programs written with
the SDKs query the actor through the API, decide, and send commands like any client.

What makes it hard:

* **Unreliable activities.** An attempt may take effect and lose its answer, take no
  effect, or time out and have its write land after its successor's.
* **Concurrency.** Requests, actors, and lease updates of all replicas interleave.
* **Forgetting.** Continue-as-new compacts what the actor remembers (versions,
  operations, keys) and starts with an empty signal channel.
* **Stale decisions.** A freeze is looked up before the signal; a lease is decided on
  data read before the write; a savepoint carries the version the actor believes in; a
  health gate reads a cached status that may be about the previous version; a client
  scales, or stops waiting, on a view it polled earlier.
* **Chains of legal changes.** Deploys, rescalings and rollbacks are judged one at a
  time; what matters (key groups, approval) is about the whole history.
* **Configuration in motion.** The control API and the workers take up a new number of
  shards at different times, and actors stay on the queue they were started on.

`PROJECT.json` lists every hazard with its line and the properties about it.

## 2. The modules

```
ChangePolicy ---+--> VersionHistory        (abstract)  <-- implemented by --+
                |        +--> VersionHistoryProofs                          |
                +--> Rollout --+--> DeploymentActor ------------------------+
                               |        +--> DeploymentActorProofs -------+
                               |        +--> SDKClients                   |
                               |                 +--> SDKClientsProofs <--+
                               +--> ObservedRollout        (implements Rollout)
                                        +--> RolloutProofs
LeaseSlots -----+--> CapacityPool          (abstract)  <-- implemented by --+--+
                +--> CapacityLeases ----------------------------------------+  |
                |        +--> CapacityLeasesProofs                             |
                +--> SimulatedBackend -----------------------------------------+
                         +--> SimulatedBackendProofs
Sharding ----------> ControlService ------> ControlServiceProofs
DeploymentListing -------------------------> DeploymentListingProofs
```

An arrow is EXTENDS; each `MCx` module gives module `x` its small instance
(`MCRollout` that of ObservedRollout, `MCCapacityLeases` those of both backends).

**ChangePolicy**: the pure functions `ClassifyChange` (split into one operator per
branch condition), `ValidateSpec`, `EvaluateHealth`, `upgradeMode`, `DefaultPolicy`,
`BuildVersion`. Image digests, arguments and configurations are values compared for
equality; of an image reference only "is it digest-pinned" is kept.

**Rollout**: the rollout and savepoint workflows. `pc` names the activity the workflow
waits for; an action is one activity attempt, answered (`ApplyDeployment`) or failed
(`ApplyDeploymentFails`). `runtime` is the FlinkDeployment, `leases` the reservations
of this deployment, `late` the writes that may still land. Two history variables say
when the model makes no promise: `unconfirmed` is set when the workflow gives up on a
write or an observation or when a late write lands, and cleared by a confirmed apply;
`leaky` is set when an acquire or release attempt fails. The observation returns any of
`Healths`, and `HealthGate` is what the workflow does with it.

**ObservedRollout**: the same workflow with the adapter's `ObserveDeployment` as the loop
it is: `reported` is the status the Flink operator last wrote and the version it was
about, `cached` the informer's copy of it, `reading` what a poll sees, `polls` the
readings so far. `PollSettles`, `PollAgain`, `PollDeadline` and `PollTimesOut` are the
ways out of an iteration; the operator and the informer move at their own pace
(`OperatorReports`, `InformerSyncs`). It implements Rollout. Nothing but the observation
reads the status, so DeploymentActor keeps the simpler Rollout.

**DeploymentActor**: the actor, with one action per command type up to the first
blocking call (`ReceiveDeploy`, `ReceiveRollback`, ...), the steps of its child
(`ChildStep`), one action per completion (`ReturnFromRollout`, `SetJobState`, ...) and
the end of the loop body (`RecordAudit`, with `EndTurn` for continue-as-new).
`state.Pending` is empty whenever the workflow blocks and is no variable. `shared`
says whether `CurrentVersion` and `LastHealthyVersion` point to one struct, which they
do from a rollout to the next continue-as-new and which matters for `resume`.

**VersionHistory**: what the actor promises about versions with everything else left
out: admitted changes, rollbacks to recorded specs, forgetting.

**SDKClients**: an autoscaler loop, of the Go or of the Python SDK, and a client that
deploys and calls `WaitHealthy`, composed with the whole DeploymentActor and with
operators who send any command. `seen` is the view a loop has polled and not yet acted
on; whatever happens between `LoopPolls` and `LoopScales` makes it stale. The loop's
`Evaluate` always asks for `demand`.

**CapacityLeases**: the ConfigMap of one node pool, its `resourceVersion` and any number
of acquire attempts, named by the random lease id each of them draws. `base` and `plan`
are the version an attempt has read and the data it is about to write. Every reading of
a clock is nondeterministic within `Skew` of the slowest clock, `now`.

**SimulatedBackend**: the leases of one node pool and the runtime of one deployment in the
maps of `SimulatedActivities`. The mutex makes every activity one step; a lost answer
leaves a lease nobody holds ("lost") or makes Temporal ask again ("releasing",
"applying"); `Restart` empties the maps while the workflows go on.

**CapacityPool**: an atomic pool: a lease is granted if it fits beside those in force,
and leaves by release or lapse. Both backends implement it. **LeaseSlots** has the
constants they share; the sum of slots is written as the size of a set of slots,
`Reserved`.

**Sharding** and **ControlService**: a request is a sequence of calls to Temporal
(`EnsureClusterActor`, `EnsureDeploymentActor`, `DescribeCluster`, `SignalDeployment`),
any of which may fail with or without effect. `warned` collects the requests that begin
while an answered freeze stands. An actor lives on the queue it was started on
(`queueOf`); queries and receptions happen only on a queue that is `polled`. A deployment
actor takes a signal (`DeploymentActorReceives`), runs the command while further signals
arrive, and at its end may continue as new and lose them (`DeploymentActorEndsTurn`).
`RaiseShards`, `RollOutAPI` and `RollOutWorkers` change the number of shards under way.

**DeploymentListing**: `ListDeployments` over a fixed list of open workflows, cut into
visibility pages, the cursor perhaps in the middle of one; and `DescribeAll`, which
lists once and asks all actors at the same time, their answers arriving in any order.

Definitions commented `Mutant:` are deliberately wrong variants of the definition that
follows them. Nothing uses them; substituting one for its original must violate the
property that `PROJECT.json` names, which shows that the property can fail.

## 3. What is checked

Deadlock is not checked: a finished rollout, an actor without commands, a request
that was answered and a list that was read to its end all stop for good.

| Run | What it shows | Bounds |
|---|---|---|
| `rollout` | The lease is there while a reshaping rollout runs (`LeaseCoversRollout`); no change that needs a savepoint is applied without one of the version it replaces (`SavepointBeforeStatefulApply`); unless something went unanswered, what runs is what the verdict says (`VerdictMatchesRuntime`), a rolled-back version keeps a savepoint to start from (`RollbackKeepsState`) and no lease stays behind (`NoLeaseLeft`); a gate passes only a healthy report (`GatePassesOnlyHealthy`); the workflow ends (`RolloutEnds`); polling implements the one-step observation (`ImplementsRollout`). | 3 current versions, 8 targets, 4 statuses, 2 polls, 2 attempts, all fault kinds, 2 lease ids; 277 thousand states |
| `actor_versions` | Ids are contiguous and the current version is the newest (`VersionsContiguous`), each version is a legal change of its predecessor (`VersionsAreLegalChanges`), key groups shrink only with a fresh start over any stretch (`MaxParallelismKept`), keys are forgotten only after the window (`IdempotencyWindow`), a rollback to a recorded version restores its spec (`RollbackRestoresAsked`), no sequence of changes records material that was never approved (`OnlyApprovedMaterial`), and the actor implements VersionHistory (`ImplementsVersionHistory`). | 5 signals out of 8 commands over 4 keys, history of 2, continue-as-new every 3; 1.2 million states |
| `actor_faults` | Every command type, with faults: types (`TypeOK`), `RuntimeIsCurrent`, `SuspendedIsSuspended`, `SavepointOfTheNamedVersion`, `NoLeaseBetweenOperations`, and that the actor settles (`ActorSettles`). | 3 signals out of 11 commands, 2 attempts, history of 1, continue-as-new every 2; 762 thousand states |
| `leases` | ConfigMap: no lost update (`GrantedIsStored`), no resurrection (`ReleasedIsGone`), no overdraft (`BudgetRespected`), and it implements CapacityPool. Simulated maps: they implement CapacityPool too (`SimulatedImplementsPool`), and a gate passes only what the runtime runs (`SimulatedGatePassesWhatRuns`). | 3 attempts for 1, 1 and 2 of 2 slots, TTL 1, time 0 to 2; ConfigMap: 2 tries, skew 1; simulated: 2 versions, 2 applies, 1 restart; 948 thousand states |
| `control` | An answered freeze is a barrier for requests that start later (`FreezeStopsLaterRequests`), no actor is left on a queue that nobody polls while the shards are raised (`NoActorIsAbandoned`), and every request that begins is answered without an error having to help it (`RequestsAreAnswered`). | a deploy, a savepoint, a freeze, an unfreeze, all concurrent (with a registration and a rescaling in the two runs below); from 2 to 3 shards, with hashes that move the deployment and put the cluster on the last shard; 136 thousand states |
| `listing` | Pages neither skip nor repeat an entry (`PagesAreExact`) and end (`PagingEnds`); each card of a summary shows its own actor's answer (`SummaryIsExact`). | all lists up to 9 entries, limits 1 to 3 changing per call, visibility pages of 3 to 5, summaries of 4 |
| `clients` | A scale decided on an old view changes the parallelism and nothing else (`LoopScalesKeepTheRest`); the Go loop's scales are run only if the switch went off behind its back (`GoScaleNeedsASwitch`); `WaitHealthy` answers with its own deploy's version or a later one once that deploy is recorded as succeeded (`WaitHealthyAfterSuccess`); the Python loop reaches its target unless what it sees stops it for good (`PythonLoopSettles`). | either loop, 1 demand, 3 signals of operators and waiter out of 6 commands and a deploy, 1 more of the loop; 214 thousand states |

The bounds are small on purpose and large enough for the interesting case to happen:
compaction drops something that a later command refers to, a retry follows an attempt
whose answer was lost, two writers hold the same resource version while a third purges,
a page ends inside and at the end of a visibility page, the operator reports on the old
version, on the new one and on the restored one within one rollout, the switch turns
between a loop's poll and its scale. Two polls are enough for a reading that does not
settle to be followed by one that does, by the deadline, or by the attempt's timeout.
Production values differ only in size (history 50, continue-as-new after 500, five
attempts, visibility pages of 100 to 1000, a poll every three seconds).

Five runs end in a violation. Each checks one sentence of the documentation that the
code does not keep:

| Run | Documentation | What the trace shows |
|---|---|---|
| `actor_tracked` | README.md:46, every operation is tracked | continue-as-new drops the commands accepted while the last one ran (`deployment_actor.go:54`) |
| `actor_rollback` | mcp/server.py:195, target 0 rolls back to the previous version | after two deploys a rollback to 0 redeploys the second: no version has the id 0, and the last healthy version is the current one (`deployment_actor.go:214`) |
| `rollout_rolls_back` | docs-site/docs/api-reference.md:106, checks health gates and rolls back on failure | with no call failing, the gate passes the new version on the operator's report about the old one, which is still in the status (`adapter.go:210`) |
| `control_freeze` | docs-site/docs/api-reference.md:196, queued commands are blocked | a command queued before the freeze runs after it (`service.go:86`) |
| `control_sharding` | docs/SCALING.md:35-36, safe to raise for new actors | raised from one shard to two, the cluster actor stays on the base queue, which no worker polls any more, and new deployments cannot be commanded (`sharding.go:21`, `service.go:82`) |

Three more places where documentation and code part are in the models and described by
the guarantees that do hold. `activities/types.go:12` asks for idempotent activities,
and a retried acquire draws a new lease id (`adapter.go:176`): `NoLeaseLeft` and
`NoLeaseBetweenOperations` exempt `leaky` behaviours for this reason.
`docs-site/docs/api-reference.md:10` promises safe retries, and `compact` forgets keys:
`IdempotencyWindow` says how far the promise reaches. `README.md:43` recommends custom
autoscalers, and the Go loop asks for a scale exactly while the actor rejects it:
`GoScaleNeedsASwitch`.

Some properties say less than one may hope. `RollbackRestoresAsked` is about recorded
targets; where a rollback to a forgotten version should lead is written nowhere.
`WaitHealthyAfterSuccess` is about a waiting client that also sees its operation succeed:
before that, `WaitHealthy` may answer with the version from before the deploy, which is
current and healthy. And `FreezeStopsLaterRequests` and `NoActorIsAbandoned` are about
acceptance and queues, not about execution: an accepted command may be lost
(`actor_tracked`).

## 4. Fairness

No outcome is ever assumed: a behaviour in which every attempt fails is fair.

* `RolloutFairness`, `ObservedFairness`, `Fairness` of DeploymentActor: weak fairness of
  all steps that a worker takes, together, because workers poll their queues and every
  activity attempt, and every poll within one, ends with an answer or with its
  start-to-close timeout (`options.go:17-30`). Signals, late writes, the Flink operator
  and the informer have none: an operator that never reports and a cache that never
  moves are fair.
* ControlService: a call that Temporal can answer is answered; the cluster actor receives
  its signals as long as somebody polls its queue; a change of the shards that began
  reaches both tiers. Failures have no fairness, so that none is needed to end a request;
  neither have deployment actors, on which no request waits, nor the beginning of a
  request.
* SDKClients: the actor as above; the loop polls at each tick; a loop whose requests are
  possible again and again gets one through in the end (strong fairness of
  `LoopScales`: it may give up any number of times before, but not for ever). The
  waiting client and the operators have none.
* DeploymentListing: the client asks for the next page, and the queries are answered.

## 5. What is proved

The proofs hold for every value of the constants that satisfies the named assumptions,
with any number of versions, commands, retries and polls.

*DeploymentActorProofs* has three parts, each building on the one before.

Keys: `IdempotencyWindowHolds`, `Spec => []IdempotencyWindow`, from
`CommandsAssumption`, `HistoryLimitAssumption` and `NullAssumption`. The window is not
inductive: nothing in it says that the keys kept are those of the newest operations.
`KeysInv` adds that the recorded operations are a suffix of all operations ever run,
complete or at least `HistoryLimit` long, that the processed keys are exactly theirs
(`OperationsEndLog`), and that the active command's key is not among them
(`ActiveIsNew`), so that a key recorded again is further back than the suffix.

Versions: `TypeOKHolds`, `VersionsContiguousHolds`, `LegalChangesHold` and
`VersionHistoryImplemented`, from the named assumptions of Rollout and DeploymentActor.
None of the four is inductive, since a version is decided on when the child workflow
validates and stored when it returns, many steps later. `VersionsInv` bridges the gap:
while a child runs, the version it was started from is still the current one
(`ChildInv`); a child past its validation holds a version with the next id and the spec
that was admitted (`Admitted`), with the approval of the command, or to a recorded spec
if the command is a rollback (`RolloutOfActive`); from the apply on it has the savepoint
its change needs (`Saved`). `KeysInv` is a conjunct. The lemmas go by place:
`ChildKeeps` for the steps of the child, `WorldStepKeeps`, `CountersKeep` and
`ChildPartKeeps` for the types and the place the actor is in, `EndTurnKeepsVersions` for
compaction, `ReturnKeepsVersions` for the one step that adds a version,
`ResumeKeepsVersions` for the shared struct, `VersionsStep` for versions and refinement
together. A successful return maps to `DeployChange` or `RollbackChange`, the end of a
turn to `Forget`, all else to a stutter.

Three results ride on the refinement. `AbstractInvariant` says that `HistoryInv` of
VersionHistoryProofs holds of what the actor implements VersionHistory with;
`OnlyApprovedMaterialHolds` and `MaxParallelismKeptHolds` cite it, the second with the
fact that compaction keeps the current spec (`EndTurnKeepsKeyGroups`).
`RollbackRestoresAskedHolds` needs `AskedInv`: the child of a rollback targets a spec
recorded under the id that the command asked for, if there is one. A compaction cannot
come between, for it happens only at the end of a turn (`AskedStep`).

Runtime: the invariant `WorldInv` on top of `VersionsInv` relates the actor
to the cluster. `LeasesInv`: the only lease in the store is the one the child holds,
unless `leaky`. `RuntimeInv`: the FlinkDeployment runs the current version up to the
apply, the new one from then on, and in the end what the verdict says, unless
`unconfirmed`. `StatusInv`: the actor is OPERATING wherever it is blocked in an
operation, and only the patch of the job state ends in SUSPENDED. `SavepointInv`: the
two savepoint properties, which are inductive beside `VersionsInv`. From it:
`LeaseCoversRolloutHolds`, `NoLeaseBetweenOperationsHolds`, `RuntimeIsCurrentHolds`,
`SuspendedIsSuspendedHolds`, and `SavepointsHold` for both savepoint properties.

*RolloutProofs*: the rollout with its observation as a polling loop. `RolloutInv`, from
`InputsAssumption`, `StatusesAssumption`, `PollsAssumption`, `AbsenceAssumption`,
`SummariesAssumption` and Rollout's own, has one part for the types of the child and one
for those of the world, `PlaceInv` for what is decided at each place, `DeployedInv` for
what runs there (untouched, `Intact`, before the apply; `Restored` after a rollback) and
`LeaseInv`; `ObservationInv` says that whatever has passed a gate was reported to it, and
that a resource that exists has been reported on. They give
`VerdictMatchesRuntimeHolds`, `RollbackKeepsStateHolds`, `NoLeaseLeftHolds` and
`GatePassesOnlyHealthyHolds`. `RolloutImplemented` is the safety part of
`ImplementsRollout`: provided that attempts may fail at all (`FaultKinds # {}`), a poll
that ends the loop maps to the observation's answer, one that times out to a failed
attempt, and every other poll, report and cache update to a stutter. `Covered` joins the
other two properties of this run, `LeaseCoversRollout` and `SavepointBeforeStatefulApply`,
which are inductive together once `RolloutInv` says what each place has decided
(`CoveredStep`); they give `SavepointBeforeStatefulApplyHolds` and
`LeaseCoversRolloutHolds`. The actor's proofs have both again, for rollouts that follow
one another.

*CapacityLeasesProofs*: `LeaseInvariant`, `GrantedStaysStored`, `ReleasedStaysGone`,
`BudgetHolds`, and `PoolImplemented`, the refinement of CapacityPool, from
`LeasesAssumption`, `BudgetAssumption`, `TimesAssumption` and `TriesAssumption`. The
invariant `LeaseInv` speaks about writes that have not happened yet: a plan based on
the present version differs from the stored data by the writer's own lease and by
leases some clock has seen expire (`PlanIsCurrent`); a plan based on an older version
may be anything, because the API server refuses it; all data stored or planned fits the
budget (`DataFits`); and a lease is stored only after its own save (`SavedByItself`).
The facts about sums of slots (`ReservedMonotone`, `ReservedAdd` and others) come first,
here and in *SimulatedBackendProofs*: the two backends cannot be extended together,
since their actions have the same names.

*SimulatedBackendProofs*: `SimulatedInvariant` (every lease that is held and unexpired is
in the map, and the map fits the budget) and `SimulatedPoolImplemented`, the refinement
of the same CapacityPool, from `LeasesAssumption`, `BudgetAssumption` and `TTLAssumption`.
A restart maps to the lapse of all leases at once. `SimulatedGateHolds` is about its
runtime: once applied, the entry in the map is the rollout's own or a restart has taken
it away (`AppliedIsRolling`), and an observation that finds none fails the gate.

*VersionHistoryProofs*: `ApprovedMaterialHolds`, from no assumption at all. The
invariant `HistoryInv` adds `CurrentIsRecorded`: compaction never drops the current
spec. This is what carries an unapproved change that counts as none: it has the material
of the current version, which is recorded, hence approved. `UnapprovedIsImmaterial` says
what admission alone guarantees.

*ControlServiceProofs*: `FreezeStopsLaterRequestsHolds`, from `ActorsAssumption`, for
any requests, deployments and shards. That a request cannot get past a freeze which was
answered before it began is a matter of two processes and an inbox. `FreezeInv` says
that while a freeze stands it is the last word the cluster actor has been told, received
or not (`WillBeFrozen`), and that a request begun since is never about to signal a
command that changes the runtime (`Barrier`): the query that a request makes before it
signals is answered by an actor that has received its signals. `NoActorIsAbandonedHolds`:
once the workers have taken up the number of shards, every running actor is on a queue
that they poll. It assumes that every number of shards is greater than
one (`control_sharding` shows why it must be); `QueuesInv` bounds every queue in use by
the shards the API has read, and those by the configured ones, as only raising is
modelled.

*SDKClientsProofs*: the lemma `ActorImplemented` first. `SentInv` counts: every accepted
signal brings one key at most, so while signals are accepted at all a key is left that
nobody has used (`KeyIsFresh`), and what an SDK program sends is a command that the
actor may be sent. Hence every invariant of DeploymentActorProofs holds in this company
(`ActorInvariant`). From `ClientsAssumption`, of which one conjunct is worth a word:
operators do not use the keys of the SDKs, which are random (`client.go:98-101`,
`client.py:75-77`). `ClientsInv` then follows a command through the actor. `KeyFlowInv`:
what is queued, active or recorded was accepted, and carries an SDK's key only if it is
the waiter's deploy of its spec or a scale of the loop to `demand`. `RolloutsInv`: the
child of a deploy targets the spec it was given, that of a scale the current spec with
the new parallelism. `SwitchInv`: from the poll of the Go loop to the receipt of its
scale the switch is on or was turned off meanwhile. `WaiterInv`: the current version is
never behind the one that the waiter's deploy found, and once that deploy is recorded as
succeeded it is ahead: the version the deploy made, or one after it (`OwnOrLater`). This
rests on ids that never fall and stand for one spec each (`CurrentIdGrows`), and on what
a step records (`RecordedArePending`). They give `GoScaleNeedsASwitchHolds`,
`WaitHealthyAfterSuccessHolds` and `LoopScalesKeepTheRestHolds`.

*DeploymentListingProofs*: `PagesAreExactHolds` and `SummaryIsExactHolds`, from
`ListingAssumption`, for lists of any length, visibility pages of any size, and a limit
that changes from call to call. What a call takes is defined by ranks, so the first part
is about those: they grow along a list (`RankGrows`), each occurs (`RankIsOnto`, by the
pigeonhole principle), and taking the first few leaves nothing in between and everything
behind (`FirstOf`). Least and greatest entries exist because finite sets are well-founded
under inclusion (`Least`), which is how this induction is done without an induction
theorem. `PageHolds` and `CursorIsBehindLast` are the arithmetic of the cursor: the entry
that fills a call lies on the visibility page computed for it, and the cursor points right
behind it, unless the list ends there. `PagingInv` says that a client's cursor is a place
in the list before which it has received exactly the matching entries. `CardsInv` says of
a summary under way that the cards of the actors that have answered are filled in, and
that no failure is known of any other; `NthIsRanked` keeps the places apart.

Every safety property and every action property of the passing runs is stated by a
theorem. Only model-checked: the liveness properties (`RolloutEnds`, `ActorSettles`,
`RequestsAreAnswered`, `PagingEnds`, `PythonLoopSettles`) and the
fairness part of `ImplementsRollout`, because liveness and ENABLED are out of reach of
the proof system. The five violations are TLC's: a counterexample is a small instance.

## 6. Abstractions

* Hashes, times of creation, requesters, texts, ids of child workflows and audit events
  are left out; `RecordAudit` is kept as the step at which a loop turn ends.
* In DeploymentActor an observation has one of a set of summaries, in one step;
  ObservedRollout shows that the polling loop behaves like this. The status read there is
  four fields, and a FlinkDeployment is never deleted, so that "not found" is not
  reached. `observedHealth` reports only running and error; `EvaluateHealth` is checked
  against more (restart counts) in the actor's runs.
* A lease in Rollout is an id in a set. `LeaseExpires` never takes the lease of a running
  rollout: its TTL is 30 minutes (`rollout.go:60`), and at most five activities of at most
  five minutes each (`options.go:21`) follow the acquire.
* CapacityLeases has one node pool. A lease id lives one life, as in the code, where it
  is random.
* SimulatedBackend has one worker process, one node pool and one deployment.
* The replicas of the control API take up a new number of shards together, and so do the
  workers; the two tiers do so in either order. Only raising is modelled, which is what
  `docs/SCALING.md` describes.
* The SDKs' HTTP requests are reduced to the query or the signal they cause. The user's
  `Evaluate` function asks for one fixed parallelism.
* The list of open workflows holds still while a client pages through it.
* Policy is constant for an actor, as in the code, where it is set at its start.

## 7. Not modelled

* Java SDK: sends the same requests as the other two and decides nothing beyond them.
* The Python client's `wait_healthy`, which differs from the Go one in giving up on
  status FAILED (`client.py:192-203`).
* `ObserveSavepoint`'s polling loop, of which Rollout keeps the outcomes, and
  `RecordAudit`, which affects nothing else.
* Login and sessions, MCP server, web console: they translate into the HTTP requests
  modelled here, and hold no state of a deployment.
* Load generator, process wiring and configuration beyond the number of shards: outside
  the orchestration logic.

## 8. What remains

1. Composition: DeploymentActor over CapacityPool in place of its set of leases, and
   ControlService over DeploymentActor, so that the freeze is stated about rollouts
   instead of commands.
2. More of the adapter: several node pools in the lease store, the polling of savepoints.
3. Proofs about those compositions: that a freeze stops rollouts, and that the leases of
   all deployments together fit the budget while each is covered by its own.
