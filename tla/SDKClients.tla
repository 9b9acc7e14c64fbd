----------------------------- MODULE SDKClients -----------------------------
(***************************************************************************)
(* Programs written with the client SDKs, against one deployment actor: an *)
(* autoscaler loop (sdk/go/cohestra/autoscaler.go, sdk/python/cohestra_sdk/*)
(* autoscaler.py) and a client that deploys and then waits for a healthy   *)
(* version (sdk/go/cohestra/deployment.go).  Each acts on a view it polled *)
(* earlier: it queries the actor, decides, and signals a command that is   *)
(* received behind whatever came in between.                               *)
(*                                                                         *)
(* Operators are the other clients; they send any of their commands.  The  *)
(* HTTP API between clients and actor is that of module ControlService and *)
(* reduced here to its two effects, a query and a signal.                  *)
(***************************************************************************)
EXTENDS DeploymentActor

CONSTANTS
    OperatorCommands,  \* what operators may send
    OperatorBound,     \* bound: the loop alone sends the signals beyond these
    Flavours,          \* the SDKs the loop may be written with: "go", "python"
    Demands,           \* parallelisms the loop's Evaluate may ask for
    WaiterSpec,        \* what the waiting client deploys
    SDKKeys            \* idempotency keys the SDKs generate

ASSUME FlavoursAssumption == Flavours \subseteq {"go", "python"}

VARIABLES
    flavour,           \* the SDK of the loop
    demand,            \* what Evaluate answers
    seen,              \* the view the loop has polled and not acted on, or Null
    waiter,            \* the waiting client: phase, key, and its answer
    baseline,          \* history: the current version id when it deployed
    switchedOff        \* history: the switch was turned off since the loop looked

clientVars == <<flavour, demand, seen, waiter, baseline, switchedOff>>
sdkVars == <<vars, clientVars>>

-----------------------------------------------------------------------------

\* The actor's own autoscaler switch as the actor reads it.
switchedOn == autoscalerEnabled /\ ~autoscalerFrozen

\* Status: the query of the actor's state, as far as clients look at it.
view == [status |-> status, version |-> currentVersion, on |-> switchedOn]

\* Both SDKs draw a fresh idempotency key for every request; a key not accepted yet.
generateKey == CHOOSE key \in SDKKeys : key \notin acceptedKeys

\* The commands the SDK programs send.  Their keys are random numbers, so no operator
\* sends one of them (sdk/go/cohestra/client.go:98-101, sdk/python/cohestra_sdk/client.py:75-77).
Requests ==
    [key : SDKKeys, type : {"ScaleTo", "DeployVersion"}, targetSpec : {Null, WaiterSpec},
     targetVersion : {0}, parallelism : {0} \cup Demands, approved : BOOLEAN,
     incident : {FALSE}]

ASSUME ClientsAssumption ==
    /\ OperatorCommands \cup Requests \subseteq Commands
    /\ OperatorBound < MaxAccepted
    /\ Null \notin SDKKeys /\ \A command \in OperatorCommands : command.key \notin SDKKeys
    /\ \A keys \in SUBSET SDKKeys : Cardinality(keys) < MaxAccepted => keys # SDKKeys

Request(key, type) ==
    [key |-> key, type |-> type, targetSpec |-> Null, targetVersion |-> 0,
     parallelism |-> 0, approved |-> FALSE, incident |-> FALSE]

\* The control API accepts a command; everything else goes on unnoticed.
Submit(command) ==
    /\ accepted < MaxAccepted
    /\ accepted' = accepted + 1
    /\ inbox' = Append(inbox, command)
    /\ acceptedKeys' = acceptedKeys \cup {command.key}
    /\ UNCHANGED <<rolloutVars, actorVars>>

-----------------------------------------------------------------------------
(* The autoscaler loop.                                                    *)

\* Mutant: the Go loop does not look at the switch either.
wantsAnyway(v) == v.version # Null /\ v.version.spec.parallelism # demand

\* Mutant: waits for a state the actor never reports.
wantsWhenRunning(v) ==
    /\ v.status = "RUNNING" /\ v.version # Null
    /\ v.version.spec.parallelism # demand

\* RunAutoscaler acts while the actor's switch is on and does not look at the health;
\* execute acts while the actor is idle and the version healthy and does not look at
\* the switch.  Both act only if Evaluate asks for another parallelism.
wants(v) ==
    /\ IF flavour = "go" THEN v.on
       ELSE /\ v.status \in {"IDLE", "RUNNING"}
            /\ v.version # Null /\ v.version.healthy
    /\ (IF v.version = Null THEN 0 ELSE v.version.spec.parallelism) # demand

\* One tick: the loop polls the view and may decide to scale.
LoopPolls ==
    /\ seen = Null
    /\ wants(view)
    /\ seen' = view
    /\ switchedOff' = FALSE
    /\ UNCHANGED <<vars, flavour, demand, waiter, baseline>>

\* Mutant: the loop deploys the spec it has seen with another parallelism.
deployOfSeen(key) ==
    [Request(key, "DeployVersion") EXCEPT
        !.targetSpec = IF seen.version = Null THEN Null
                       ELSE [seen.version.spec EXCEPT !.parallelism = demand],
        !.approved = TRUE]

\* The request the loop sends; only the Python loop claims an approval.
scaleRequest(key) ==
    [Request(key, "ScaleTo") EXCEPT !.parallelism = demand, !.approved = (flavour = "python")]

LoopScales ==
    /\ seen # Null
    /\ Submit(scaleRequest(generateKey))
    /\ seen' = Null
    /\ UNCHANGED <<flavour, demand, waiter, baseline, switchedOff>>

\* The request fails, is rejected by the API, or the process restarts: it is logged
\* and forgotten until the next tick.
LoopGivesUp ==
    /\ seen # Null
    /\ seen' = Null
    /\ UNCHANGED <<vars, flavour, demand, waiter, baseline, switchedOff>>

-----------------------------------------------------------------------------
(* Deploy, then WaitHealthy.                                               *)

WaiterDeploys ==
    /\ waiter.phase = "new"
    /\ accepted < OperatorBound
    /\ Submit([Request(generateKey, "DeployVersion") EXCEPT
                  !.targetSpec = WaiterSpec, !.approved = TRUE])
    /\ waiter' = [waiter EXCEPT !.phase = "waiting", !.key = generateKey]
    /\ baseline' = IF currentVersion = Null THEN 0 ELSE currentVersion.versionId
    /\ UNCHANGED <<flavour, demand, seen, switchedOff>>

\* How the waiter's own command has ended, as far as the actor's records go.
ownStatus ==
    LET own == {i \in DOMAIN operations : operations[i].key = waiter.key}
    IN  IF own = {} THEN "none" ELSE operations[CHOOSE i \in own : TRUE].status

\* Mutant: reads the first version of the list.
oldestVersion == IF versions = <<>> THEN Null ELSE versions[1]

\* The version WaitHealthy looks at.
polledVersion == currentVersion

\* A poll finds the current version healthy, whichever version that is.
WaitHealthyAnswers ==
    /\ waiter.phase = "waiting"
    /\ polledVersion # Null /\ polledVersion.healthy
    /\ waiter' = [waiter EXCEPT !.phase = "healthy", !.version = polledVersion, !.own = ownStatus]
    /\ UNCHANGED <<vars, flavour, demand, seen, baseline, switchedOff>>

\* The client's deadline passes; so far nothing that was polled was healthy.
WaitHealthyTimesOut ==
    /\ waiter.phase = "waiting"
    /\ waiter' = [waiter EXCEPT !.phase = "timeout"]
    /\ UNCHANGED <<vars, flavour, demand, seen, baseline, switchedOff>>

-----------------------------------------------------------------------------

OperatorSends ==
    /\ accepted < OperatorBound
    /\ \E command \in OperatorCommands : Submit(command)
    /\ UNCHANGED clientVars

\* The actor and its child workflow move.
ActorMoves ==
    /\ ReceiveStep \/ CompleteStep \/ ChildStep
    /\ switchedOff' = (switchedOff \/ (switchedOn /\ ~switchedOn'))
    /\ UNCHANGED <<flavour, demand, seen, waiter, baseline>>

ClusterMoves == ClusterStep /\ UNCHANGED clientVars

SDKInit ==
    /\ Init
    /\ flavour \in Flavours
    /\ demand \in Demands
    /\ seen = Null
    /\ waiter = [phase |-> "new", key |-> Null, version |-> Null, own |-> "none"]
    /\ baseline = 0
    /\ switchedOff = FALSE

LoopStep == LoopPolls \/ LoopScales \/ LoopGivesUp

WaiterStep == WaiterDeploys \/ WaitHealthyAnswers \/ WaitHealthyTimesOut

SDKNext == ActorMoves \/ ClusterMoves \/ OperatorSends \/ LoopStep \/ WaiterStep

\* The loop polls at every tick and its requests do not fail for ever.
SDKFairness ==
    /\ WF_sdkVars(ActorMoves)
    /\ WF_sdkVars(LoopPolls)
    /\ SF_sdkVars(LoopScales)

SDKSpec == SDKInit /\ [][SDKNext]_sdkVars

FairSDKSpec == SDKSpec /\ SDKFairness

-----------------------------------------------------------------------------
(* Properties.                                                             *)

\* A scale the loop decided on an old view changes the parallelism of the version that
\* is current when it runs and nothing else: it never takes back a deploy that came
\* in between (deployment_actor.go:252-256).
LoopScalesKeepTheRest ==
    [][(active # Null /\ active.key \in SDKKeys \ {waiter.key} /\ currentVersion' # currentVersion
        /\ pc = "return")
          => currentVersion'.spec = [currentVersion.spec EXCEPT !.parallelism = demand]]_sdkVars

\* The Go loop asks only while the actor's switch is on, when the actor refuses to be
\* scaled: one of its scales is run only if the switch went off after the loop had
\* looked (autoscaler.go:26-28, deployment_actor.go:249-251).
GoScaleNeedsASwitch ==
    (/\ flavour = "go" /\ active # Null /\ active.type = "ScaleTo" /\ active.key \in SDKKeys
     /\ pc # "audit")
        => switchedOff

\* What a client that deploys and then waits can rely on: once its deploy is recorded as
\* succeeded, the answer is the version the deploy made, or a later one if anybody else
\* changed the deployment (deployment.go:116-126, deployment_actor.go:102-112, 140-173).
\* Until then the answer may well be the version from before the deploy: WaitHealthy is
\* content with whichever version is current and healthy, and the deploy may still be
\* queued, under way or failed.
WaitHealthyAfterSuccess ==
    (waiter.phase = "healthy" /\ waiter.own = "SUCCEEDED") =>
        /\ waiter.version.versionId > baseline
        /\ waiter.version.versionId = baseline + 1 => waiter.version.spec = WaiterSpec

\* The Python loop reaches its parallelism, unless it is stopped for good by what it
\* sees: a failed last operation, a suspension, or a current version that is missing or
\* was observed unhealthy (autoscaler.py:37-70).
PythonLoopSettles ==
    flavour = "python" =>
        <>[](\/ status \in {"FAILED", "SUSPENDED"}
             \/ currentVersion = Null
             \/ ~currentVersion.healthy
             \/ currentVersion.spec.parallelism = demand)

=============================================================================
